-------------------------------- MODULE Pad --------------------------------
(***************************************************************************)
(* From the gamepad to the game: poll_pad and poll_stick (controls.c) turn *)
(* consecutive readings of the pad into handler calls, and the handlers of *)
(* main.c turn each call into SDL key and mouse events.  Cross and Square  *)
(* are the mouse buttons of a pointer that the left stick moves.           *)
(*                                                                         *)
(* While a keyboard session runs (TextInput) the pad is not polled, and    *)
(* the refocus click of the session goes to the same mouse.  A step is one *)
(* handler call, with all events it sends.  The right stick is left out:   *)
(* controls_handler_analog returns from its calls at once.                 *)
(***************************************************************************)
EXTENDS Integers, Sequences, InOrder

CONSTANTS
    Mapped,         \* the buttons of mapping[], in its order
    KeyOf,          \* their Android key codes
    Directions,     \* BOUND: what the stick can read outside its dead zone
    MaxX, MaxY,     \* the last pixel of the screen
    Start,          \* where the pointer starts
    Touches,        \* BOUND: where fingers put it
    Speed           \* pixels a fully deflected stick moves it in one poll

Held(order) == {order[i] : i \in DOMAIN order}

\* The order in which poll_pad looks at the buttons.
Order == <<"CROSS", "SQUARE", "L1", "R1">> \o Mapped

MouseButtons == {"CROSS", "SQUARE"}
Buttons == Held(Order)

ASSUME PadAssumption ==
    /\ Mapped \in Seq(Held(Mapped))
    /\ DOMAIN KeyOf = Held(Mapped)
    /\ Held(Mapped) \cap (MouseButtons \cup {"L1", "R1", "STICK"}) = {}
    /\ Directions \subseteq ({-1, 0, 1} \X {-1, 0, 1}) \ {<<0, 0>>}
    /\ {MaxX, MaxY, Speed} \subseteq Nat
    /\ Touches \cup {Start} \subseteq (0..MaxX) \X (0..MaxY)

VARIABLES
    current_buttons, \* the buttons that were held at the last poll
    readings,        \* the left stick at the last poll and the one before
    calls,           \* the handler calls the current poll still makes
    pointer,         \* pointer_x, pointer_y
    button_state,    \* pointer_button_state, the set of its bits
    drag_active,     \* pointer_drag_active
    session,         \* a keyboard session runs: controls are not polled
    sent,            \* the events the last handler call sent, in order
    keys,            \* history: the keys the engine believes to be down,
    buttons,         \*   the mouse buttons, and those it still drags with:
    drags,           \*   no hover has told it since that none is down
    stick_down       \* history: the stick's last DOWN has had no UP

handlers == <<pointer, button_state, drag_active>>
belief == <<keys, buttons, drags>>
vars == <<current_buttons, readings, calls, handlers, session, sent, belief,
          stick_down>>

Rest == <<0, 0>>

Init ==
    /\ current_buttons = {}
    /\ readings = <<Rest, Rest>>
    /\ calls = <<>>
    /\ pointer = Start
    /\ button_state = {}
    /\ drag_active = FALSE
    /\ session = FALSE
    /\ sent = <<>>
    /\ keys = {}
    /\ buttons = {}
    /\ drags = {}
    /\ stick_down = FALSE

-----------------------------------------------------------------------------
(* poll_pad and poll_stick                                                 *)

Call(of, action) == [of |-> of, action |-> action]

\* What poll_pad calls for the buttons of Order, one after the other.
ButtonCalls(pressed, released) ==
    LET changed == pressed \cup (released \ {"L1", "R1"})
        places == InOrder({i \in DOMAIN Order : Order[i] \in changed})
        button(k) == Order[places[k]]
    IN  [k \in DOMAIN places |->
            Call(button(k), IF button(k) \in pressed THEN "DOWN" ELSE "UP")]

\* A slip: one reading at rest counts as released.
StickActionShort(r) ==
    IF r = Rest /\ readings[1] = Rest /\ readings[2] # Rest THEN "UP"
    ELSE IF r # Rest /\ readings[1] = Rest THEN "DOWN"
    ELSE "MOVE"

\* The three cases of poll_stick for the reading r after the last two.
StickAction(r) ==
    IF r = Rest /\ readings[1] = Rest /\ readings[2] # Rest THEN "UP"
    ELSE IF r # Rest /\ readings[1] = Rest /\ readings[2] = Rest THEN "DOWN"
    ELSE "MOVE"

Poll ==
    /\ calls = <<>>
    /\ ~session
    /\ \E now \in SUBSET Buttons, r \in Directions \cup {Rest} :
          /\ calls' = Append(ButtonCalls(now \ current_buttons,
                                         current_buttons \ now),
                             Call("STICK", StickAction(r)))
          /\ current_buttons' = now
          /\ readings' = <<r, readings[1]>>
    /\ UNCHANGED <<handlers, session, sent, belief, stick_down>>

-----------------------------------------------------------------------------
(* The handlers.                                                           *)

Mouse(held, action) == [held |-> held, action |-> action]

HandlerCall(of) ==
    /\ calls # <<>>
    /\ calls[1].of \in of
    /\ calls' = Tail(calls)
    /\ UNCHANGED <<current_buttons, readings, session>>

\* A slip: the mask names the button, after it was changed.
NamedByMask(b) == button_state'

\* The first argument of onNativeMouse: the button that changed.
Named(b) == {b}

\* What an event leaves of the drags: "HOVER_MOVE is reserved for movement with
\* no buttons down" (main.c:570), whatever buttons are down when it is sent.
DragsAfter(kept, event) ==
    IF event.action = "HOVER" THEN {}
    ELSE IF event.action = "DOWN" THEN kept \cup event.held
    ELSE IF event.action = "UP" THEN kept \ event.held
    ELSE kept

\* What one event, or a hover and one more, leave of them.
DragsGoOn ==
    drags' = IF Len(sent') = 1 THEN DragsAfter(drags, sent'[1])
             ELSE DragsAfter(DragsAfter(drags, sent'[1]), sent'[2])

\* controls_handler_pointer_button: a hover puts the mouse in its place, then
\* the event names the button that changed.
PointerDown ==
    LET b == calls[1].of IN
    /\ HandlerCall(MouseButtons)
    /\ calls[1].action = "DOWN"
    /\ button_state' = button_state \cup {b}
    /\ drag_active' = FALSE
    /\ sent' = <<Mouse({}, "HOVER"), Mouse(Named(b), "DOWN")>>
    /\ buttons' = buttons \cup Named(b)
    /\ DragsGoOn
    /\ UNCHANGED <<pointer, keys, stick_down>>

\* A slip: the mask keeps the released button.
PointerUpKeepsMask ==
    LET b == calls[1].of IN
    /\ HandlerCall(MouseButtons)
    /\ calls[1].action = "UP"
    /\ sent' = <<Mouse({}, "HOVER"), Mouse(Named(b), "UP")>>
    /\ buttons' = buttons \ Named(b)
    /\ DragsGoOn
    /\ UNCHANGED <<handlers, keys, stick_down>>

\* A slip: the mask forgets the other button.
PointerUpClearsMask ==
    LET b == calls[1].of IN
    /\ HandlerCall(MouseButtons)
    /\ calls[1].action = "UP"
    /\ button_state' = {}
    /\ drag_active' = FALSE
    /\ sent' = <<Mouse({}, "HOVER"), Mouse(Named(b), "UP")>>
    /\ buttons' = buttons \ Named(b)
    /\ DragsGoOn
    /\ UNCHANGED <<pointer, keys, stick_down>>

PointerUp ==
    LET b == calls[1].of IN
    /\ HandlerCall(MouseButtons)
    /\ calls[1].action = "UP"
    /\ button_state' = button_state \ {b}
    /\ drag_active' = FALSE
    /\ sent' = <<Mouse({}, "HOVER"), Mouse(Named(b), "UP")>>
    /\ buttons' = buttons \ Named(b)
    /\ DragsGoOn
    /\ UNCHANGED <<pointer, keys, stick_down>>

\* controls_handler_scroll
Scroll ==
    /\ HandlerCall({"L1", "R1"})
    /\ sent' = <<Mouse({}, "SCROLL")>>
    /\ UNCHANGED <<handlers, belief, stick_down>>

\* controls_handler_key: two buttons may share a key.
KeyEvent ==
    LET key == KeyOf[calls[1].of] IN
    /\ HandlerCall(Held(Mapped))
    /\ keys' = IF calls[1].action = "DOWN" THEN keys \cup {key}
                                            ELSE keys \ {key}
    /\ sent' = <<>>
    /\ UNCHANGED <<handlers, buttons, drags, stick_down>>

\* A slip: the pointer leaves the screen at its top and left.
ClampHigh(v, max) == IF v > max THEN max ELSE v

Clamp(v, max) == IF v < 0 THEN 0 ELSE IF v > max THEN max ELSE v

StickCall(action) ==
    /\ HandlerCall({"STICK"})
    /\ stick_down' = IF action = "MOVE" THEN stick_down ELSE action = "DOWN"

\* controls_handler_analog: a deflected stick moves the pointer, as a drag
\* while a mouse button is held.
MovePointer ==
    LET r == readings[1] IN
    /\ StickCall(calls[1].action)
    /\ calls[1].action # "UP"
    /\ r # Rest
    /\ pointer' = <<Clamp(pointer[1] + r[1] * Speed, MaxX),
                    Clamp(pointer[2] + r[2] * Speed, MaxY)>>
    /\ drag_active' = (drag_active \/ button_state # {})
    /\ sent' = <<Mouse(button_state,
                       IF button_state # {} THEN "MOVE" ELSE "HOVER")>>
    /\ DragsGoOn
    /\ UNCHANGED <<button_state, keys, buttons>>

\* controls_handler_touch, which poll_touch calls before the pad is polled,
\* takes the pointer along (by up to half a pixel more than the stick may).
TouchPointer ==
    /\ calls = <<>>
    /\ ~session
    /\ pointer' \in Touches
    /\ sent' = <<>>
    /\ UNCHANGED <<current_buttons, readings, calls, button_state, drag_active,
                   session, belief, stick_down>>

\* At rest, and for UP, it does nothing.
KeepPointer ==
    /\ StickCall(calls[1].action)
    /\ calls[1].action = "UP" \/ readings[1] = Rest
    /\ sent' = <<>>
    /\ UNCHANGED <<handlers, belief>>

-----------------------------------------------------------------------------
(* The keyboard session of TextInput, as the pad sees it.                  *)

OpenSession ==
    /\ ~session
    /\ calls = <<>>
    /\ session' = TRUE
    /\ sent' = <<>>
    /\ UNCHANGED <<current_buttons, readings, calls, handlers, belief,
                   stick_down>>

\* bg2v_refocus_text_field
RefocusClick ==
    /\ session
    /\ sent' = <<Mouse({}, "HOVER"), Mouse({"CROSS"}, "DOWN"),
                 Mouse({"CROSS"}, "UP")>>
    /\ buttons' = buttons \ {"CROSS"}
    /\ drags' = {}
    /\ UNCHANGED <<current_buttons, readings, calls, handlers, session, keys,
                   stick_down>>

CloseSession ==
    /\ session
    /\ session' = FALSE
    /\ sent' = <<>>
    /\ UNCHANGED <<current_buttons, readings, calls, handlers, belief,
                   stick_down>>

Next ==
    \/ Poll \/ PointerDown \/ PointerUp \/ Scroll \/ KeyEvent
    \/ MovePointer \/ KeepPointer \/ TouchPointer
    \/ OpenSession \/ RefocusClick \/ CloseSession

Spec == Init /\ [][Next]_vars

-----------------------------------------------------------------------------
(* Properties                                                              *)

\* Between two polls nothing is stuck: what the engine believes to be down was
\* held at the last poll, over any number of sessions in which presses and
\* releases go unseen, and with the two buttons that share a key.
NothingIsStuck ==
    calls = <<>> =>
        /\ buttons \subseteq current_buttons
        /\ keys \subseteq {KeyOf[b] : b \in current_buttons \cap Held(Mapped)}

\* Between two polls the bridge's mask is the mouse buttons that are held, and
\* the drag flag is only up with one of them.
MaskIsHeld ==
    /\ calls = <<>> => button_state = current_buttons \cap MouseButtons
    /\ drag_active => button_state # {}

\* The engine believes held only what the bridge's mask holds, and the two
\* part in one way alone: a refocus click releases Cross for the engine while
\* the player keeps it held.  A button that stays held loses its drag only to
\* such a click or to an event of the other mouse button: no stick, scroll, key,
\* touch or session ends it.
OnlyButtonsEndDrags ==
    [][/\ buttons' \subseteq button_state'
       /\ (button_state' \ buttons') \ (button_state \ buttons)
              \subseteq IF session THEN {"CROSS"} ELSE {}
       /\ \A b \in drags \ drags' :
             session \/ (calls # <<>> /\ calls[1].of \in MouseButtons)]_vars

\* What main.c says of a held button (569-570), that it "must accompany
\* ACTION_MOVE for Beamdog's SDL fork to retain drag state. HOVER_MOVE is
\* reserved for movement with no buttons down": outside sessions a button that
\* stays held keeps its drag.
HeldButtonKeepsDrag == [][~session => drags \cap button_state' \subseteq drags']_vars

\* poll_stick reports each deflection of the stick once: DOWN and UP alternate,
\* whatever MOVEs lie between, and however briefly the stick passes its centre.
StickAlternates ==
    [][calls # <<>> /\ calls' = Tail(calls) /\ calls[1].of = "STICK" =>
          /\ calls[1].action = "DOWN" => ~stick_down
          /\ calls[1].action = "UP" => stick_down]_vars

\* What main.c says of the stick (569-572), "HOVER_MOVE is reserved for movement
\* with no buttons down": it hovers only when the engine believes no mouse
\* button to be down, so that it never ends a drag of the engine half way.
StickKeepsDrag ==
    [][calls # <<>> /\ calls' = Tail(calls) /\ calls[1].of = "STICK" =>
          \A i \in DOMAIN sent' :
             sent'[i].action = "HOVER" => buttons = {}]_vars
=============================================================================

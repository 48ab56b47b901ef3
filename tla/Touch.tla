------------------------------- MODULE Touch -------------------------------
(***************************************************************************)
(* From the touch panel to the game: poll_touch (controls.c) turns two     *)
(* consecutive readings of the panel into DOWN, MOVE and UP calls, and     *)
(* controls_handler_touch (main.c) turns each call into SDL's raw touch    *)
(* event and the game's own pan and tap events.                            *)
(*                                                                         *)
(* All of it runs on the main thread; only bg2v_selection_enabled belongs  *)
(* to the engine.  A step is one call of the handler.  Distances are in    *)
(* pixels of the screen, pans in half pixels, so that the gain of 1.5 is a *)
(* factor of 3.                                                            *)
(***************************************************************************)
EXTENDS Integers, Sequences, InOrder

CONSTANTS
    Ids,            \* the ids the panel gives to contacts
    Points,         \* BOUND: where fingers touch, pairs of pixels
    MaxFingers,     \* BOUND: contacts in one reading
    MaxFrames,      \* BOUND: readings of one behaviour, of single fingers
    MaxCrowded,     \* BOUND: readings of one with several fingers at a time
    Slop,           \* BG2V_TOUCH_SLOP_PIXELS
    MaxPanStep,     \* BG2V_TOUCH_MAX_PAN_STEP, in half pixels
    OnButton(_)     \* the rectangle BG2V_SELECTION_BUTTON_...

ASSUME TouchAssumption ==
    /\ -1 \notin Ids
    /\ Points \subseteq Int \X Int
    /\ {MaxFingers, MaxFrames, MaxPanStep} \subseteq Nat
    /\ Slop \in Nat \ {0}

ASSUME CrowdedAssumption == MaxCrowded \in Nat /\ MaxCrowded =< MaxFrames

VARIABLES
    touch_old,      \* the reading before: a sequence of [id, at]
    calls,          \* the handler calls the current reading still causes
    frames,         \* how many readings there were
    alone,          \* history: so far no contact began while another one was
                    \*   there, or in the reading that missed it
    bg2v_selection_enabled,
    moved,          \* native_touch_moved
    active_id,      \* native_touch_active_id
    down_at,        \* native_touch_down_x, _y
    last_at,        \* native_touch_last_x, _y
    armed,          \* native_selection_armed
    selection_drag, \* native_touch_selection_drag
    sent,           \* what the last handler call sent: [touch, tap, pan]
    down,           \* history: the contacts the game believes are down, with
                    \*   the point of their DOWN and whether they strayed
    panned,         \* history: half pixels panned since the active DOWN
    origin,         \* history: the point the pans since then count from
    capped,         \* history: a pan since then was cut to MaxPanStep
    pressed         \* history: the last UP was a short press on the button

panel == <<touch_old, calls, frames, alone>>
gesture == <<moved, active_id, down_at, last_at, armed, selection_drag>>
history == <<sent, down, panned, origin, capped, pressed>>
vars == <<panel, bg2v_selection_enabled, gesture, history>>

Zero == <<0, 0>>
Minus(p, q) == <<p[1] - q[1], p[2] - q[2]>>
Nothing == [touch |-> "none", id |-> -1, tap |-> FALSE, pan |-> Zero]

Init ==
    /\ touch_old = <<>>
    /\ calls = <<>>
    /\ frames = 0
    /\ alone = TRUE
    /\ bg2v_selection_enabled = FALSE
    /\ moved = FALSE
    /\ active_id = -1
    /\ down_at = Zero
    /\ last_at = Zero
    /\ armed = FALSE
    /\ selection_drag = FALSE
    /\ sent = Nothing
    /\ down = {}
    /\ panned = Zero
    /\ origin = Zero
    /\ capped = FALSE
    /\ pressed = FALSE

-----------------------------------------------------------------------------
(* poll_touch                                                              *)

IdsOf(reading) == {reading[i].id : i \in DOMAIN reading}

Readings ==
    {r \in UNION {[1..n -> [id : Ids, at : Points]] : n \in 0..MaxFingers} :
        \A i, j \in DOMAIN r : r[i].id = r[j].id => i = j}

Report(c, action) == [id |-> c.id, at |-> c.at, action |-> action]

\* A slip: contacts are matched by their place in the reading.
ActionByPlace(i, old, new) == IF i \in DOMAIN old THEN "MOVE" ELSE "DOWN"

\* Was the finger down before?
ActionFor(i, old, new) ==
    IF new[i].id \in IdsOf(old) THEN "MOVE" ELSE "DOWN"

\* First DOWN or MOVE for every contact of the new reading, in its order, then
\* UP, where it was last seen, for every contact that is gone.
CallsFor(old, new) ==
    [i \in DOMAIN new |-> Report(new[i], ActionFor(i, old, new))]
    \o LET gone == InOrder({i \in DOMAIN old : old[i].id \notin IdsOf(new)})
       IN  [k \in DOMAIN gone |-> Report(old[gone[k]], "UP")]

\* One finger after the other.
Lone(old, new) ==
    /\ Len(new) =< 1
    /\ old # <<>> => IdsOf(new) \subseteq IdsOf(old)

Poll ==
    /\ calls = <<>>
    /\ \E new \in Readings :
          /\ alone' = (alone /\ Lone(touch_old, new))
          /\ calls' = CallsFor(touch_old, new)
          /\ touch_old' = new
    /\ frames < IF alone' THEN MaxFrames ELSE MaxCrowded
    /\ frames' = frames + 1
    /\ UNCHANGED <<bg2v_selection_enabled, gesture, history>>

-----------------------------------------------------------------------------
(* controls_handler_touch                                                  *)

HandlerCall(action) ==
    /\ calls # <<>>
    /\ calls[1].action = action
    /\ calls' = Tail(calls)
    /\ UNCHANGED <<touch_old, frames, alone, bg2v_selection_enabled>>

\* A slip: the slop is a square.
FarSquare(p, q) ==
    \E i \in 1..2 : Minus(p, q)[i] >= Slop \/ Minus(q, p)[i] >= Slop

\* Beyond the slop.
Far(p, q) ==
    LET d == Minus(p, q) IN d[1] * d[1] + d[2] * d[2] >= Slop * Slop

\* A slip: a drag that ends on the button arms it.
ArmsAnyway(c) == OnButton(c.at)

\* A short press on the selection button arms it.
Arms(c) == ~moved /\ OnButton(c.at)

Down ==
    LET c == calls[1] IN
    /\ HandlerCall("DOWN")
    /\ moved' = FALSE
    /\ active_id' = c.id
    /\ selection_drag' = armed
    /\ armed' = FALSE
    /\ down_at' = c.at
    /\ last_at' = c.at
    /\ sent' = [touch |-> "DOWN", id |-> c.id, tap |-> FALSE, pan |-> Zero]
    /\ down' = down \cup {[id |-> c.id, at |-> c.at, strayed |-> FALSE]}
    /\ panned' = Zero
    /\ origin' = c.at
    /\ capped' = FALSE
    /\ UNCHANGED pressed

Up ==
    LET c == calls[1] IN
    /\ HandlerCall("UP")
    /\ active_id' = IF active_id = c.id THEN -1 ELSE active_id
    /\ armed' = (armed \/ Arms(c))
    /\ sent' = [touch |-> "UP", id |-> c.id, tap |-> ~moved, pan |-> Zero]
    /\ down' = {f \in down : f.id # c.id}
    /\ pressed' = (~moved /\ OnButton(c.at))
    /\ UNCHANGED <<moved, down_at, last_at, selection_drag, panned, origin,
                   capped>>

Distance2(p, q) ==
    (p[1] - q[1]) * (p[1] - q[1]) + (p[2] - q[2]) * (p[2] - q[2])

\* History: the contact strays when it is seen too far from where it went down.
Seen(f, c) ==
    IF f.id = c.id /\ Distance2(c.at, f.at) >= Slop * Slop
    THEN [f EXCEPT !.strayed = TRUE] ELSE f

Stray(c) == down' = {Seen(f, c) : f \in down}

SentMove(c, pan) ==
    sent' = [touch |-> "MOVE", id |-> c.id, tap |-> FALSE, pan |-> pan]

\* A contact that is not the active one, or has not left the slop, only moves.
MoveOnly ==
    LET c == calls[1] IN
    /\ HandlerCall("MOVE")
    /\ active_id = c.id => ~moved /\ ~Far(c.at, down_at)
    /\ SentMove(c, Zero)
    /\ Stray(c)
    /\ UNCHANGED <<gesture, panned, origin, capped, pressed>>

\* Out of the slop while selection is disabled: the drag begins, and the way
\* so far is swallowed.
DragBegins ==
    LET c == calls[1] IN
    /\ HandlerCall("MOVE")
    /\ active_id = c.id
    /\ ~moved
    /\ Far(c.at, down_at)
    /\ ~bg2v_selection_enabled
    /\ moved' = TRUE
    /\ last_at' = c.at
    /\ SentMove(c, Zero)
    /\ Stray(c)
    /\ origin' = c.at
    /\ UNCHANGED <<active_id, down_at, armed, selection_drag, panned, capped,
                   pressed>>

\* A slip: only pans to the right and down are cut.
ClampHigh(d) == IF d > MaxPanStep THEN MaxPanStep ELSE d

Clamp(d) == IF d > MaxPanStep THEN MaxPanStep
            ELSE IF d < -MaxPanStep THEN -MaxPanStep ELSE d

\* A slip: the whole way is panned again with every step.
WayFromStart(c) == Minus(c.at, down_at)

\* The way since DOWN in a selection drag and in the first step out of the
\* slop, else since the last pan.
Way(c) == Minus(c.at, IF ~moved \/ selection_drag THEN down_at ELSE last_at)

\* onNativePan, with gain and cap unless it is a selection drag.
Pan ==
    LET c == calls[1]
        way == Way(c)
        gained == <<3 * way[1], 3 * way[2]>>
        pan == IF selection_drag THEN <<2 * way[1], 2 * way[2]>>
               ELSE <<Clamp(gained[1]), Clamp(gained[2])>>
    IN
    /\ HandlerCall("MOVE")
    /\ active_id = c.id
    /\ ~moved => Far(c.at, down_at) /\ bg2v_selection_enabled
    /\ way # Zero
    /\ moved' = TRUE
    /\ last_at' = c.at
    /\ SentMove(c, pan)
    /\ Stray(c)
    /\ panned' = <<panned[1] + pan[1], panned[2] + pan[2]>>
    /\ capped' = (capped \/ pan # gained)
    /\ UNCHANGED <<active_id, down_at, armed, selection_drag, origin, pressed>>

\* A drag that has not moved since: there is nothing to pan.
Rest ==
    LET c == calls[1] IN
    /\ HandlerCall("MOVE")
    /\ active_id = c.id
    /\ moved
    /\ Way(c) = Zero
    /\ SentMove(c, Zero)
    /\ Stray(c)
    /\ UNCHANGED <<gesture, panned, origin, capped, pressed>>

\* hooked_game_area_set_selection, on the engine thread.
SetSelectionEnabled ==
    /\ bg2v_selection_enabled' = ~bg2v_selection_enabled
    /\ UNCHANGED <<panel, gesture, history>>

Next ==
    \/ Poll \/ Down \/ Up \/ MoveOnly \/ DragBegins \/ Pan \/ Rest
    \/ SetSelectionEnabled

Spec == Init /\ [][Next]_vars

-----------------------------------------------------------------------------
(* Properties                                                              *)

\* Every variable keeps its type, and a pan its cap.
TypeOK ==
    /\ touch_old \in Readings
    /\ calls \in Seq([id : Ids, at : Points, action : {"DOWN", "MOVE", "UP"}])
    /\ frames \in 0..MaxFrames
    /\ {alone, bg2v_selection_enabled, moved, armed, selection_drag, capped, pressed}
          \subseteq BOOLEAN
    /\ active_id \in Ids \cup {-1}
    /\ {down_at, last_at, origin} \subseteq Points \cup {Zero}
    /\ sent \in [touch : {"none", "DOWN", "MOVE", "UP"}, id : Ids \cup {-1},
                 tap : BOOLEAN, pan : Int \X Int]
    /\ \A i \in 1..2 : selection_drag \/ -sent.pan[i] =< MaxPanStep
    /\ \A i \in 1..2 : selection_drag \/ sent.pan[i] =< MaxPanStep
    /\ down \subseteq [id : Ids, at : Points, strayed : BOOLEAN]
    /\ panned \in Int \X Int

DownIds == {f.id : f \in down}

\* The game sees each contact go down, move and come up in that order: no MOVE
\* or UP of a contact it does not know, no second DOWN.
EventsAlternate ==
    [][calls # <<>> /\ calls' = Tail(calls) =>
          (sent'.touch = "DOWN" <=> sent'.id \notin DownIds)]_vars

\* Whenever a reading has been worked off, the contacts the game believes are
\* down are those on the panel: none is stuck and none is missing.
PanelIsSeen == calls = <<>> => DownIds = IdsOf(touch_old)

\* What main.c says of onNativeTap (538-541): "A short press therefore produces
\* a separate onNativeTap event after the raw DOWN/UP pair", and, with
\* GestureDetector's slop, nothing else does.
TapIsShortPress ==
    [][\A f \in down :
          f.id \notin DownIds' => (sent'.tap <=> ~f.strayed)]_vars

\* It is so as long as fingers come one after the other.
LoneTapIsShortPress ==
    [][alone => \A f \in down :
          f.id \notin DownIds' => (sent'.tap <=> ~f.strayed)]_vars

\* The pans of a drag add up to the way of the finger since the drag began,
\* with gain, unless one was cut or it is a selection drag: nothing is panned
\* twice when the engine switches selection on or off in the middle of it.
PanFollowsFinger ==
    active_id # -1 /\ ~selection_drag /\ ~capped /\ moved =>
        panned = <<3 * (last_at[1] - origin[1]), 3 * (last_at[2] - origin[2])>>

\* As long as fingers come one after the other, a selection drag is the first
\* one after a short press on the selection button, and the button is not armed
\* while a contact is down.
SelectionIsArmedOnce ==
    alone =>
        /\ selection_drag /\ active_id # -1 => pressed
        /\ armed => pressed /\ active_id = -1
=============================================================================

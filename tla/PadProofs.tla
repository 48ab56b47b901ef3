-------------------------------- MODULE PadProofs --------------------------------
(***************************************************************************)
(* Proofs about the pad and its pointer, for any buttons, key codes,       *)
(* screen, speed and stick, and for any order of polls and sessions.       *)
(***************************************************************************)
EXTENDS Pad, InOrderProofs, SequenceTheorems, TLAPS

\* The engine holds and drags with no button the mask has forgotten, a drag has a button, and
\* a session begins only when a poll is worked off.
PadInv ==
    /\ buttons \subseteq button_state
    /\ drags \subseteq button_state
    /\ drag_active => button_state # {}
    /\ session => calls = <<>>

\* Nothing is held, dragged or under way at first.
LEMMA PadStarts == Init => PadInv
BY DEF Init, PadInv

\* A hover and a button's event leave no drag but that of a button just pressed.
LEMMA HoverThenButton ==
    ASSUME NEW b, NEW action \in {"DOWN", "UP"}, DragsGoOn,
           sent' = <<Mouse({}, "HOVER"), Mouse({b}, action)>>
    PROVE  drags' = IF action = "DOWN" THEN {b} ELSE {}
<1>1. /\ Len(sent') = 2 /\ sent'[1].action = "HOVER"
      /\ sent'[2].action = action /\ sent'[2].held = {b}
  BY DEF Mouse
<1>. QED
  BY <1>1 DEF DragsGoOn, DragsAfter

\* The stick's one event begins no drag.
LEMMA StickHoversOrMoves ==
    ASSUME MovePointer
    PROVE  drags' \subseteq drags
<1>1. PICK action \in {"MOVE", "HOVER"} : sent' = <<[held |-> button_state, action |-> action]>>
  BY DEF MovePointer, Mouse
<1>2. Len(sent') = 1 /\ sent'[1].action = action
  BY <1>1
<1>. QED
  BY <1>2 DEF MovePointer, DragsGoOn, DragsAfter

\* The handler calls, one by one: a button event changes both sets alike, and
\* a deflected stick drags only with a button.
LEMMA HandlersKeep ==
    ASSUME PadInv, PointerDown \/ PointerUp \/ Scroll \/ KeyEvent
                     \/ MovePointer \/ KeepPointer
    PROVE  PadInv'
<1>1. session' = session /\ ~session
  BY DEF PadInv, PointerDown, PointerUp, Scroll, KeyEvent, MovePointer, KeepPointer,
         StickCall, HandlerCall
<1>2. CASE PointerDown
  <2>1. drags' = {calls[1].of}
    <3>1. sent' = <<Mouse({}, "HOVER"), Mouse({calls[1].of}, "DOWN")>> /\ DragsGoOn
      BY <1>2 DEF PointerDown, Named
    <3>. QED
      BY <3>1, HoverThenButton
  <2>. QED
    BY <1>1, <1>2, <2>1 DEF PointerDown, PadInv, Named
<1>3. CASE PointerUp
  <2>1. drags' = {}
    <3>1. sent' = <<Mouse({}, "HOVER"), Mouse({calls[1].of}, "UP")>> /\ DragsGoOn
      BY <1>3 DEF PointerUp, Named
    <3>. QED
      BY <3>1, HoverThenButton
  <2>. QED
    BY <1>1, <1>3, <2>1 DEF PointerUp, PadInv, Named
<1>4. CASE Scroll
  BY <1>1, <1>4 DEF Scroll, PadInv, handlers, belief
<1>5. CASE KeyEvent
  BY <1>1, <1>5 DEF KeyEvent, PadInv, handlers
<1>6. CASE MovePointer
  <2>1. drags' \subseteq drags
    BY <1>6, StickHoversOrMoves
  <2>. QED
    BY <1>1, <1>6, <2>1 DEF MovePointer, PadInv
<1>7. CASE KeepPointer
  BY <1>1, <1>7 DEF KeepPointer, PadInv, handlers, belief
<1>. QED
  BY <1>2, <1>3, <1>4, <1>5, <1>6, <1>7

\* Every step keeps the invariant; the refocus click only releases.
LEMMA PadKeeps == PadInv /\ [Next]_vars => PadInv'
<1>. SUFFICES ASSUME PadInv, [Next]_vars PROVE PadInv'
  OBVIOUS
<1>1. CASE PointerDown \/ PointerUp \/ Scroll \/ KeyEvent \/ MovePointer \/ KeepPointer
  BY <1>1, HandlersKeep
<1>2. CASE Poll
  BY <1>2 DEF Poll, PadInv, handlers, belief
<1>3. CASE TouchPointer
  BY <1>3 DEF TouchPointer, PadInv, belief
<1>4. CASE OpenSession
  BY <1>4 DEF OpenSession, PadInv, handlers, belief
<1>5. CASE RefocusClick
  BY <1>5 DEF RefocusClick, PadInv, handlers
<1>6. CASE CloseSession
  BY <1>6 DEF CloseSession, PadInv, handlers, belief
<1>7. CASE UNCHANGED vars
  BY <1>7 DEF vars, PadInv, handlers, belief
<1>. QED
  BY <1>1, <1>2, <1>3, <1>4, <1>5, <1>6, <1>7 DEF Next

\* What a step may do to the two sets of buttons.
LEMMA SetsPartAtRefocus ==
    ASSUME PadInv, Next
    PROVE  (button_state' \ buttons') \ (button_state \ buttons)
               \subseteq IF session THEN {"CROSS"} ELSE {}
<1>1. CASE PointerDown
  BY <1>1 DEF PointerDown, PadInv, Named
<1>2. CASE PointerUp
  BY <1>2 DEF PointerUp, PadInv, Named
<1>3. CASE Scroll \/ KeyEvent \/ MovePointer \/ KeepPointer \/ Poll \/ TouchPointer
             \/ OpenSession \/ CloseSession
  <2>1. UNCHANGED <<button_state, buttons>>
    BY <1>3 DEF Scroll, KeyEvent, MovePointer, KeepPointer, Poll, TouchPointer,
                OpenSession, CloseSession, handlers, belief
  <2>. QED
    BY <2>1
<1>4. CASE RefocusClick
  BY <1>4 DEF RefocusClick, PadInv, handlers
<1>. QED
  BY <1>1, <1>2, <1>3, <1>4 DEF Next

\* What a step may do to the drags: the stick hovers only when none is left.
LEMMA DragsEnd ==
    ASSUME PadInv, Next, NEW b \in drags \ drags'
    PROVE  session \/ (calls # <<>> /\ calls[1].of \in MouseButtons)
<1>1. CASE PointerDown \/ PointerUp
  BY <1>1 DEF PointerDown, PointerUp, HandlerCall
<1>2. CASE MovePointer
  <2>1. button_state # {}
    BY DEF PadInv
  <2>2. sent' = <<[held |-> button_state, action |-> "MOVE"]>>
    BY <1>2, <2>1 DEF MovePointer, Mouse
  <2>3. Len(sent') = 1 /\ sent'[1].action = "MOVE"
    BY <2>2
  <2>4. drags' = drags
    BY <1>2, <2>3 DEF MovePointer, DragsGoOn, DragsAfter
  <2>. QED
    BY <2>4
<1>3. CASE Scroll \/ KeyEvent \/ KeepPointer \/ Poll \/ TouchPointer
             \/ OpenSession \/ CloseSession
  BY <1>3 DEF Scroll, KeyEvent, KeepPointer, Poll, TouchPointer,
              OpenSession, CloseSession, handlers, belief
<1>4. CASE RefocusClick
  BY <1>4 DEF RefocusClick
<1>. QED
  BY <1>1, <1>2, <1>3, <1>4 DEF Next

\* The engine and the bridge part over a button only at a refocus click, and a
\* drag ends only there or with an event of a mouse button, for any buttons,
\* stick, speed and screen.
THEOREM ButtonsEndDrags == Spec => OnlyButtonsEndDrags
<1>1. PadInv /\ PadInv' /\ [Next]_vars =>
        [/\ buttons' \subseteq button_state'
         /\ (button_state' \ buttons') \ (button_state \ buttons)
                \subseteq IF session THEN {"CROSS"} ELSE {}
         /\ \A b \in drags \ drags' :
               session \/ (calls # <<>> /\ calls[1].of \in MouseButtons)]_vars
  <2>. SUFFICES ASSUME PadInv, PadInv', Next
                PROVE  /\ buttons' \subseteq button_state'
                       /\ (button_state' \ buttons') \ (button_state \ buttons)
                              \subseteq IF session THEN {"CROSS"} ELSE {}
                       /\ \A b \in drags \ drags' :
                             session \/ (calls # <<>> /\ calls[1].of \in MouseButtons)
    OBVIOUS
  <2>1. buttons' \subseteq button_state'
    BY DEF PadInv
  <2>. QED
    BY <2>1, SetsPartAtRefocus, DragsEnd
<1>. QED
  BY PadStarts, PadKeeps, <1>1, PTL DEF Spec, OnlyButtonsEndDrags

\* The stick's handler hovers only without a button in the bridge's mask, and
\* so without one the engine holds.
LEMMA StickHovers ==
    ASSUME PadInv, Next, calls # <<>>, calls[1].of = "STICK"
    PROVE  \A i \in DOMAIN sent' : sent'[i].action = "HOVER" => buttons = {}
<1>1. CASE MovePointer
  <2>1. sent' = <<Mouse(button_state, IF button_state # {} THEN "MOVE" ELSE "HOVER")>>
    BY <1>1 DEF MovePointer
  <2>2. CASE button_state = {}
    BY <2>2 DEF PadInv
  <2>3. CASE button_state # {}
    <3>1. sent' = <<[held |-> button_state, action |-> "MOVE"]>>
      BY <2>1, <2>3 DEF Mouse
    <3>. QED
      BY <3>1
  <2>. QED
    BY <2>2, <2>3
<1>2. CASE KeepPointer \/ KeyEvent
  <2>1. sent' = <<>>
    BY <1>2 DEF KeepPointer, KeyEvent
  <2>. QED
    BY <2>1
<1>3. CASE PointerDown \/ PointerUp \/ Scroll
  BY <1>3 DEF PointerDown, PointerUp, Scroll, HandlerCall, MouseButtons
<1>4. CASE Poll \/ TouchPointer \/ OpenSession \/ RefocusClick \/ CloseSession
  BY <1>4 DEF Poll, TouchPointer, OpenSession, RefocusClick, CloseSession, PadInv
<1>. QED
  BY <1>1, <1>2, <1>3, <1>4 DEF Next

\* The stick never ends a drag of the engine by a hover, for any mapping, speed
\* and screen.
THEOREM StickKeeps == Spec => StickKeepsDrag
<1>1. PadInv /\ [Next]_vars =>
        [calls # <<>> /\ calls' = Tail(calls) /\ calls[1].of = "STICK" =>
           \A i \in DOMAIN sent' : sent'[i].action = "HOVER" => buttons = {}]_vars
  BY StickHovers
<1>. QED
  BY PadStarts, PadKeeps, <1>1, PTL DEF Spec, StickKeepsDrag
------------------------------------------------------------------------------
(* The calls of one poll.                                                  *)

CallType == [of : Buttons \cup {"STICK"}, action : {"DOWN", "UP", "MOVE"}]

\* The buttons poll_pad looks at are the four it names and those of mapping[].
LEMMA OrderHolds ==
  /\ Len(Order) \in Nat /\ DOMAIN Order = 1..Len(Order)
  /\ Buttons \subseteq {"CROSS", "SQUARE", "L1", "R1"} \cup Held(Mapped)
  /\ "STICK" \notin Buttons
  /\ \A i \in DOMAIN Order : Order[i] \in Buttons
<1>. DEFINE first == <<"CROSS", "SQUARE", "L1", "R1">>
            All == {"CROSS", "SQUARE", "L1", "R1"} \cup Held(Mapped)
<1>0. first[1] = "CROSS" /\ first[2] = "SQUARE" /\ first[3] = "L1" /\ first[4] = "R1"
  OBVIOUS
<1>1. /\ first \in Seq(All) /\ Len(first) = 4
      /\ \A i \in 1..4 : first[i] \in {"CROSS", "SQUARE", "L1", "R1"}
  <2>0. "CROSS" \in All /\ "SQUARE" \in All /\ "L1" \in All /\ "R1" \in All
    OBVIOUS
  <2>1. first \in Seq(All) /\ Len(first) = 4
    <3>. HIDE DEF All
    <3>. QED
      BY <2>0
  <2>2. \A i \in 1..4 : i = 1 \/ i = 2 \/ i = 3 \/ i = 4
    OBVIOUS
  <2>. HIDE DEF first
  <2>. QED
    BY <1>0, <2>1, <2>2
<1>2. Mapped \in Seq(All) /\ Len(Mapped) \in Nat /\ DOMAIN Mapped = 1..Len(Mapped)
  <2>1. Mapped \in Seq(Held(Mapped))
    BY PadAssumption
  <2>. QED
    BY <2>1
<1>. HIDE DEF first, All
<1>3. /\ Order \in Seq(All) /\ Len(Order) = Len(first) + Len(Mapped)
      /\ \A i \in 1..(Len(first) + Len(Mapped)) :
           Order[i] = IF i <= Len(first) THEN first[i] ELSE Mapped[i - Len(first)]
  BY <1>1, <1>2, ConcatProperties DEF Order, first
<1>4. ASSUME NEW i \in DOMAIN Order
      PROVE  Order[i] \in {"CROSS", "SQUARE", "L1", "R1"} \cup Held(Mapped)
  <2>1. i \in 1..(4 + Len(Mapped))
    BY <1>1, <1>3
  <2>2. CASE i <= 4
    <3>1. i \in 1..4 /\ Order[i] = first[i]
      BY <1>1, <1>3, <2>1, <2>2
    <3>. QED
      BY <1>1, <3>1
  <2>3. CASE ~(i <= 4)
    <3>1. i - 4 \in 1..Len(Mapped) /\ Order[i] = Mapped[i - 4]
      BY <1>1, <1>2, <1>3, <2>1, <2>3
    <3>. QED
      BY <1>2, <3>1 DEF Held
  <2>. QED
    BY <2>2, <2>3
<1>5. Buttons \subseteq {"CROSS", "SQUARE", "L1", "R1"} \cup Held(Mapped)
  BY <1>4 DEF Buttons, Held
<1>6. "STICK" \notin Buttons
  BY <1>5, PadAssumption
<1>7. \A i \in DOMAIN Order : Order[i] \in Buttons
  BY DEF Buttons, Held
<1>. QED
  BY <1>1, <1>2, <1>3, <1>5, <1>6, <1>7

\* poll_pad calls for the buttons that were pressed, with DOWN, and for those
\* that were released, with UP but for the shoulder buttons, and for no other.
LEMMA ButtonCallsTell ==
  ASSUME NEW pressed \in SUBSET Buttons, NEW released \in SUBSET Buttons,
         pressed \cap released = {}, NEW c, c = ButtonCalls(pressed, released)
  PROVE  /\ c \in Seq(CallType)
         /\ \A i \in 1..Len(c) :
              \/ c[i].of \in pressed /\ c[i].action = "DOWN"
              \/ c[i].of \in released \ {"L1", "R1"} /\ c[i].action = "UP"
         /\ \A b \in pressed : \E i \in 1..Len(c) : c[i].of = b /\ c[i].action = "DOWN"
         /\ \A b \in released \ {"L1", "R1"} :
              \E i \in 1..Len(c) : c[i].of = b /\ c[i].action = "UP"
<1>. DEFINE changed == pressed \cup (released \ {"L1", "R1"})
            S == {i \in DOMAIN Order : Order[i] \in changed}
            n == Cardinality(S)
            places == InOrder(S)
            action(k) == IF Order[places[k]] \in pressed THEN "DOWN" ELSE "UP"
<1>1. S \in SUBSET Int /\ IsFiniteSet(S)
  <2>1. DOMAIN Order = 1..Len(Order) /\ Len(Order) \in Nat
    BY OrderHolds
  <2>2. IsFiniteSet(DOMAIN Order)
    BY <2>1, FS_Interval
  <2>3. S \in SUBSET DOMAIN Order
    OBVIOUS
  <2>. QED
    BY <2>1, <2>2, <2>3, FS_Subset
<1>2. n \in Nat /\ places \in [1..n -> S] /\ \A i \in S : \E k \in 1..n : places[k] = i
  BY <1>1, InOrderLists
<1>3. c = [k \in 1..n |-> Call(Order[places[k]], action(k))]
  BY <1>2 DEF ButtonCalls
<1>. HIDE DEF n
<1>4. \A k \in 1..n : /\ places[k] \in DOMAIN Order /\ Order[places[k]] \in changed
                      /\ Order[places[k]] \in Buttons
  BY <1>2
<1>5. \A k \in 1..n : c[k] \in CallType /\ c[k].of = Order[places[k]] /\ c[k].action = action(k)
  <2>1. \A k \in 1..n : c[k] = [of |-> Order[places[k]], action |-> action(k)]
    BY <1>3 DEF Call
  <2>2. \A k \in 1..n : action(k) \in {"DOWN", "UP", "MOVE"}
    OBVIOUS
  <2>. SUFFICES ASSUME NEW k \in 1..n
                PROVE  c[k] \in CallType /\ c[k].of = Order[places[k]] /\ c[k].action = action(k)
    OBVIOUS
  <2>3. PICK o \in Buttons, a \in {"DOWN", "UP", "MOVE"} :
          c[k] = [of |-> o, action |-> a] /\ o = Order[places[k]] /\ a = action(k)
    BY <1>4, <2>1, <2>2
  <2>. HIDE DEF places, action
  <2>. QED
    BY <2>3 DEF CallType
<1>6. c \in Seq(CallType) /\ Len(c) = n
  BY <1>2, <1>3, <1>5
<1>7. \A b \in changed : \E k \in 1..n : c[k].of = b
  <2>. SUFFICES ASSUME NEW b \in changed PROVE \E k \in 1..n : c[k].of = b
    OBVIOUS
  <2>1. PICK i \in S : Order[i] = b
    BY DEF Buttons, Held
  <2>2. PICK k \in 1..n : places[k] = i
    BY <1>2
  <2>. QED
    BY <1>5, <2>1, <2>2
<1>8. \A k \in 1..n : \/ c[k].of \in pressed /\ c[k].action = "DOWN"
                      \/ c[k].of \in released \ {"L1", "R1"} /\ c[k].action = "UP"
  BY <1>4, <1>5
<1>. HIDE DEF places, S
<1>. QED
  BY <1>6, <1>7, <1>8

\* The first of some calls, and those that remain after it.
LEMMA FirstCall ==
  ASSUME NEW c \in Seq(CallType), c # <<>>
  PROVE  /\ Len(c) \in Nat \ {0} /\ c[1] \in CallType /\ 1 \in 1..Len(c)
         /\ Tail(c) \in Seq(CallType) /\ Len(Tail(c)) = Len(c) - 1
         /\ \A i \in 1..Len(Tail(c)) : i + 1 \in 1..Len(c) /\ Tail(c)[i] = c[i + 1]
<1>1. Len(c) \in Nat \ {0}
  BY EmptySeq, LenProperties
<1>2. c[1] \in CallType
  BY <1>1, ElementOfSeq
<1>. HIDE DEF CallType
<1>3. Tail(c) \in Seq(CallType) /\ Len(Tail(c)) = Len(c) - 1
      /\ \A i \in 1..Len(Tail(c)) : Tail(c)[i] = c[i + 1]
  BY HeadTailProperties
<1>. QED
  BY <1>1, <1>2, <1>3

------------------------------------------------------------------------------
(* The calls that are still to come.                                       *)

Pending(b, action) == \E i \in 1..Len(calls) : calls[i].of = b /\ calls[i].action = action

\* The calls of a poll agree with what it read, and the stick's is the last.
CallsAgree ==
  /\ current_buttons \subseteq Buttons
  /\ calls \in Seq(CallType)
  /\ \A i \in 1..Len(calls) :
       calls[i].of # "STICK" =>
         \/ calls[i].action = "DOWN" /\ calls[i].of \in current_buttons
         \/ calls[i].action = "UP" /\ calls[i].of \notin current_buttons
  /\ \A i \in 1..Len(calls) : calls[i].of = "STICK" <=> i = Len(calls)

\* What the engine holds was held at the last poll, or its release is to come.
BeliefIsHeld ==
  /\ \A b \in buttons : b \in current_buttons \/ Pending(b, "UP")
  /\ \A k \in keys :
       \E b \in Held(Mapped) : KeyOf[b] = k /\ (b \in current_buttons \/ Pending(b, "UP"))

\* The mask is what was held at the last poll, but for the calls to come.
MaskFollows ==
  /\ button_state \subseteq MouseButtons
  /\ \A b \in MouseButtons :
       /\ b \in current_buttons => b \in button_state \/ Pending(b, "DOWN")
       /\ b \notin current_buttons => b \notin button_state \/ Pending(b, "UP")

\* What the stick's call leaves of stick_down.
StickAfter ==
  IF calls = <<>> \/ calls[Len(calls)].action = "MOVE" THEN stick_down
  ELSE calls[Len(calls)].action = "DOWN"

\* The stick is down when one of its last two readings was not at rest, once the
\* poll's call for it is made; and that call is no second DOWN and no second UP.
StickFollows ==
  /\ stick_down \in BOOLEAN
  /\ StickAfter <=> readings[1] # Rest \/ readings[2] # Rest
  /\ calls # <<>> => /\ calls[Len(calls)].action = "DOWN" => ~stick_down
                     /\ calls[Len(calls)].action = "UP" => stick_down

FollowInv == PadInv /\ CallsAgree /\ BeliefIsHeld /\ MaskFollows /\ StickFollows

LEMMA FollowStarts == Init => FollowInv
<1>. SUFFICES ASSUME Init PROVE FollowInv
  OBVIOUS
<1>1. calls = <<>> /\ 1..Len(calls) = {}
  BY DEF Init
<1>2. readings[1] = Rest /\ readings[2] = Rest
  BY DEF Init
<1>3. CallsAgree
  BY <1>1 DEF Init, CallsAgree
<1>4. BeliefIsHeld /\ MaskFollows
  BY DEF Init, BeliefIsHeld, MaskFollows
<1>5. StickFollows
  BY <1>1, <1>2 DEF Init, StickFollows, StickAfter
<1>. QED
  BY <1>3, <1>4, <1>5, PadStarts DEF FollowInv

\* A poll makes the calls for what has changed since the last one.
LEMMA PollFollows ==
  ASSUME FollowInv, Poll
  PROVE  FollowInv'
<1>1. PICK now \in SUBSET Buttons, r \in Directions \cup {Rest} :
        /\ calls' = Append(ButtonCalls(now \ current_buttons, current_buttons \ now),
                           Call("STICK", StickAction(r)))
        /\ current_buttons' = now
        /\ readings' = <<r, readings[1]>>
  BY DEF Poll
<1>2. /\ calls = <<>> /\ ~session
      /\ UNCHANGED <<pointer, button_state, drag_active, session, sent, keys, buttons, drags, stick_down>>
  BY DEF Poll, handlers, belief
<1>. DEFINE pressed == now \ current_buttons
            released == current_buttons \ now
            c == ButtonCalls(pressed, released)
            stick == Call("STICK", StickAction(r))
            n == Len(c)
<1>3. /\ c \in Seq(CallType)
      /\ \A i \in 1..Len(c) :
           \/ c[i].of \in pressed /\ c[i].action = "DOWN"
           \/ c[i].of \in released \ {"L1", "R1"} /\ c[i].action = "UP"
      /\ \A b \in pressed : \E i \in 1..Len(c) : c[i].of = b /\ c[i].action = "DOWN"
      /\ \A b \in released \ {"L1", "R1"} :
           \E i \in 1..Len(c) : c[i].of = b /\ c[i].action = "UP"
  <2>1. pressed \in SUBSET Buttons /\ released \in SUBSET Buttons /\ pressed \cap released = {}
    BY DEF FollowInv, CallsAgree
  <2>. HIDE DEF pressed, released
  <2>. QED
    BY <2>1, ButtonCallsTell
<1>4. /\ stick.of = "STICK" /\ stick.action = StickAction(r) /\ stick \in CallType
      /\ StickAction(r) \in {"UP", "DOWN", "MOVE"}
  BY DEF Call, CallType, StickAction
<1>5. calls' = Append(c, stick)
  BY <1>1
<1>. HIDE DEF c, stick
<1>6. /\ calls' \in Seq(CallType) /\ Len(calls') = n + 1 /\ n \in Nat
      /\ \A i \in 1..n : calls'[i] = c[i]
      /\ calls'[n + 1] = stick /\ calls' # <<>>
  <2>. HIDE DEF CallType
  <2>. QED
    BY <1>3, <1>4, <1>5, AppendProperties, LenProperties
<1>. HIDE DEF n
<1>7. \A i \in 1..Len(calls') : i = n + 1 \/ (i \in 1..n /\ calls'[i] = c[i] /\ i # n + 1)
  BY <1>6
<1>8. \A i \in 1..n : i \in 1..Len(calls')
  BY <1>6
<1>9. n = Len(c)
  BY DEF n
<1>10. CallsAgree'
  <2>1. \A i \in 1..Len(calls') : calls'[i].of # "STICK" =>
          \/ calls'[i].action = "DOWN" /\ calls'[i].of \in now
          \/ calls'[i].action = "UP" /\ calls'[i].of \notin now
    BY <1>3, <1>4, <1>6, <1>7, <1>9
  <2>2. \A i \in 1..n : c[i].of # "STICK"
    BY <1>3, <1>9, OrderHolds DEF FollowInv, CallsAgree
  <2>3. \A i \in 1..Len(calls') : calls'[i].of = "STICK" <=> i = Len(calls')
    BY <1>4, <1>6, <1>7, <2>2
  <2>. QED
    BY <1>1, <1>6, <2>1, <2>3 DEF CallsAgree
<1>11. /\ \A b \in pressed : Pending(b, "DOWN")'
       /\ \A b \in released \ {"L1", "R1"} : Pending(b, "UP")'
  BY <1>3, <1>6, <1>8, <1>9 DEF Pending
<1>12. \A b : ~Pending(b, "UP") /\ ~Pending(b, "DOWN")
  <2>1. 1..Len(calls) = {}
    BY <1>2
  <2>. QED
    BY <2>1 DEF Pending
<1>13. MouseButtons \cap {"L1", "R1"} = {} /\ Held(Mapped) \cap {"L1", "R1"} = {}
  BY PadAssumption DEF MouseButtons
<1>14. BeliefIsHeld'
  <2>1. \A b \in buttons : b \in MouseButtons /\ b \in current_buttons
    BY <1>12 DEF FollowInv, PadInv, MaskFollows, BeliefIsHeld
  <2>2. \A b \in buttons : b \in now \/ Pending(b, "UP")'
    BY <1>11, <1>13, <2>1
  <2>3. \A k \in keys : \E b \in Held(Mapped) : KeyOf[b] = k /\ (b \in now \/ Pending(b, "UP")')
    BY <1>11, <1>12, <1>13 DEF FollowInv, BeliefIsHeld
  <2>. QED
    BY <1>1, <1>2, <2>2, <2>3 DEF BeliefIsHeld
<1>15. MaskFollows'
  BY <1>1, <1>2, <1>11, <1>12, <1>13 DEF FollowInv, MaskFollows
<1>16. StickFollows'
  <2>1. stick_down \in BOOLEAN /\ (stick_down <=> readings[1] # Rest \/ readings[2] # Rest)
    BY <1>2 DEF FollowInv, StickFollows, StickAfter
  <2>2. readings'[1] = r /\ readings'[2] = readings[1]
    BY <1>1
  <2>3. calls'[Len(calls')].action = StickAction(r)
    BY <1>4, <1>6
  <2>4. StickAfter' <=> IF StickAction(r) = "MOVE" THEN stick_down ELSE StickAction(r) = "DOWN"
    BY <1>2, <1>6, <2>3 DEF StickAfter
  <2>. QED
    BY <1>2, <2>1, <2>2, <2>3, <2>4 DEF StickFollows, StickAction
<1>17. PadInv'
  BY <1>2 DEF FollowInv, PadInv
<1>. QED
  BY <1>10, <1>14, <1>15, <1>16, <1>17 DEF FollowInv
\* A handler takes the first call; the others are still to come, and the stick's
\* stays the last.
LEMMA HandlerFollows ==
  ASSUME FollowInv, NEW of, HandlerCall(of)
  PROVE  /\ calls # <<>> /\ calls[1].of \in of /\ calls[1] \in CallType
         /\ CallsAgree'
         /\ UNCHANGED <<current_buttons, readings, session>>
         /\ \A b, action : Pending(b, action) =>
               \/ Pending(b, action)'
               \/ calls[1].of = b /\ calls[1].action = action
         /\ calls[1].of # "STICK" =>
               /\ calls' # <<>> /\ calls'[Len(calls')] = calls[Len(calls)]
               /\ \/ calls[1].action = "DOWN" /\ calls[1].of \in current_buttons
                  \/ calls[1].action = "UP" /\ calls[1].of \notin current_buttons
         /\ calls[1].of = "STICK" => calls' = <<>> /\ Len(calls) = 1
<1>0. calls # <<>> /\ calls[1].of \in of /\ calls' = Tail(calls)
      /\ UNCHANGED <<current_buttons, readings, session>> /\ calls \in Seq(CallType)
  BY DEF HandlerCall, FollowInv, CallsAgree
<1>1. /\ Len(calls) \in Nat \ {0} /\ calls[1] \in CallType /\ 1 \in 1..Len(calls)
      /\ calls' \in Seq(CallType) /\ Len(calls') = Len(calls) - 1
      /\ \A i \in 1..Len(calls') : i + 1 \in 1..Len(calls) /\ calls'[i] = calls[i + 1]
  BY <1>0, FirstCall
<1>2. \A i \in 1..Len(calls) : i # 1 => i - 1 \in 1..Len(calls') /\ calls'[i - 1] = calls[i]
  <2>. SUFFICES ASSUME NEW i \in 1..Len(calls), i # 1
                PROVE  i - 1 \in 1..Len(calls') /\ calls'[i - 1] = calls[i]
    OBVIOUS
  <2>1. i - 1 \in 1..Len(calls') /\ (i - 1) + 1 = i
    BY <1>1
  <2>. QED
    BY <1>1, <2>1
<1>3. /\ \A i \in 1..Len(calls) :
           calls[i].of # "STICK" =>
             \/ calls[i].action = "DOWN" /\ calls[i].of \in current_buttons
             \/ calls[i].action = "UP" /\ calls[i].of \notin current_buttons
      /\ \A i \in 1..Len(calls) : calls[i].of = "STICK" <=> i = Len(calls)
      /\ current_buttons \subseteq Buttons
  BY DEF FollowInv, CallsAgree
<1>4. CallsAgree'
  <2>1. \A i \in 1..Len(calls') : i + 1 = Len(calls) <=> i = Len(calls')
    BY <1>1
  <2>2. \A i \in 1..Len(calls') :
          calls'[i].of # "STICK" =>
            \/ calls'[i].action = "DOWN" /\ calls'[i].of \in current_buttons
            \/ calls'[i].action = "UP" /\ calls'[i].of \notin current_buttons
    BY <1>1, <1>3
  <2>3. \A i \in 1..Len(calls') : calls'[i].of = "STICK" <=> i = Len(calls')
    BY <1>1, <1>3, <2>1
  <2>. HIDE DEF CallType
  <2>. QED
    BY <1>0, <1>1, <1>3, <2>2, <2>3 DEF CallsAgree
<1>5. \A b, action : Pending(b, action) =>
        Pending(b, action)' \/ (calls[1].of = b /\ calls[1].action = action)
  BY <1>2 DEF Pending
<1>6. calls[1].of # "STICK" => calls' # <<>> /\ calls'[Len(calls')] = calls[Len(calls)]
  <2>. SUFFICES ASSUME calls[1].of # "STICK"
                PROVE  calls' # <<>> /\ calls'[Len(calls')] = calls[Len(calls)]
    OBVIOUS
  <2>1. Len(calls) # 1
    BY <1>1, <1>3
  <2>2. Len(calls) \in 1..Len(calls) /\ Len(calls') # 0 /\ Len(calls') = Len(calls) - 1
    BY <1>1, <2>1
  <2>. QED
    BY <1>2, <2>1, <2>2
<1>7. calls[1].of = "STICK" => calls' = <<>> /\ Len(calls) = 1
  <2>. SUFFICES ASSUME calls[1].of = "STICK" PROVE calls' = <<>> /\ Len(calls) = 1
    OBVIOUS
  <2>1. Len(calls) = 1 /\ Len(calls') = 0
    BY <1>1, <1>3
  <2>. QED
    BY <1>1, <2>1, EmptySeq
<1>. QED
  BY <1>0, <1>1, <1>3, <1>4, <1>5, <1>6, <1>7

\* The name of a button is not the stick's, a key of the mapping is no mouse
\* button, and neither is a shoulder button.
LEMMA NamesDiffer ==
  /\ \A b \in MouseButtons : b # "STICK" /\ b # "L1" /\ b # "R1" /\ b \notin Held(Mapped)
  /\ \A b \in Held(Mapped) : b # "STICK" /\ b # "L1" /\ b # "R1" /\ b \notin MouseButtons
  /\ \A b \in {"L1", "R1"} : b # "STICK" /\ b \notin MouseButtons /\ b \notin Held(Mapped)
BY PadAssumption DEF MouseButtons

\* The call of a button other than the stick leaves the stick's to come.
LEMMA StickWaits ==
  ASSUME FollowInv, NEW of, HandlerCall(of), calls[1].of # "STICK", stick_down' = stick_down
  PROVE  StickFollows'
<1>1. /\ calls # <<>> /\ calls' # <<>> /\ calls'[Len(calls')] = calls[Len(calls)]
      /\ readings' = readings
  BY HandlerFollows
<1>2. StickAfter' = StickAfter
  BY <1>1 DEF StickAfter
<1>. QED
  BY <1>1, <1>2 DEF FollowInv, StickFollows

\* Cross and Square.
LEMMA MouseFollows ==
  ASSUME FollowInv, PointerDown \/ PointerUp
  PROVE  FollowInv'
<1>. DEFINE b == calls[1].of
<1>0. /\ CallsAgree /\ BeliefIsHeld /\ MaskFollows /\ PadInv'
      /\ HandlerCall(MouseButtons)
  BY HandlersKeep DEF FollowInv, PointerDown, PointerUp
<1>1. /\ b \in MouseButtons /\ b # "STICK" /\ b \notin Held(Mapped)
      /\ CallsAgree' /\ current_buttons' = current_buttons
      /\ \/ calls[1].action = "DOWN" /\ b \in current_buttons
         \/ calls[1].action = "UP" /\ b \notin current_buttons
  BY <1>0, HandlerFollows, NamesDiffer
<1>2. \A x, action : Pending(x, action) => Pending(x, action)' \/ (b = x /\ calls[1].action = action)
  BY <1>0, HandlerFollows
<1>3. UNCHANGED <<keys, stick_down>>
  BY DEF PointerDown, PointerUp
<1>4. StickFollows'
  BY <1>0, <1>1, <1>3, StickWaits
<1>5. \A k \in keys' :
         \E x \in Held(Mapped) : KeyOf[x] = k /\ (x \in current_buttons' \/ Pending(x, "UP")')
  BY <1>0, <1>1, <1>2, <1>3 DEF BeliefIsHeld
<1>6. CASE PointerDown
  <2>1. /\ calls[1].action = "DOWN" /\ button_state' = button_state \cup {b}
        /\ buttons' = buttons \cup {b}
    BY <1>6 DEF PointerDown, Named
  <2>2. b \in current_buttons
    BY <1>1, <2>1
  <2>3. BeliefIsHeld'
    BY <1>0, <1>1, <1>2, <1>5, <2>1, <2>2 DEF BeliefIsHeld
  <2>4. MaskFollows'
    BY <1>0, <1>1, <1>2, <2>1, <2>2 DEF MaskFollows
  <2>. QED
    BY <1>0, <1>1, <1>4, <2>3, <2>4 DEF FollowInv
<1>7. CASE PointerUp
  <2>1. /\ calls[1].action = "UP" /\ button_state' = button_state \ {b}
        /\ buttons' = buttons \ {b}
    BY <1>7 DEF PointerUp, Named
  <2>2. b \notin current_buttons
    BY <1>1, <2>1
  <2>3. BeliefIsHeld'
    BY <1>0, <1>1, <1>2, <1>5, <2>1, <2>2 DEF BeliefIsHeld
  <2>4. MaskFollows'
    BY <1>0, <1>1, <1>2, <2>1, <2>2 DEF MaskFollows
  <2>. QED
    BY <1>0, <1>1, <1>4, <2>3, <2>4 DEF FollowInv
<1>. QED
  BY <1>6, <1>7

\* The mapped buttons: two of them may share a key.
LEMMA KeyFollows ==
  ASSUME FollowInv, KeyEvent
  PROVE  FollowInv'
<1>. DEFINE b == calls[1].of
<1>0. /\ CallsAgree /\ BeliefIsHeld /\ MaskFollows /\ PadInv /\ PadInv'
      /\ HandlerCall(Held(Mapped))
      /\ UNCHANGED <<button_state, buttons, stick_down>>
  BY HandlersKeep DEF FollowInv, KeyEvent, handlers
<1>1. /\ b \in Held(Mapped) /\ b # "STICK" /\ b \notin MouseButtons
      /\ CallsAgree' /\ current_buttons' = current_buttons
      /\ \/ calls[1].action = "DOWN" /\ b \in current_buttons
         \/ calls[1].action = "UP" /\ b \notin current_buttons
  BY <1>0, HandlerFollows, NamesDiffer
<1>2. \A x, action : Pending(x, action) => Pending(x, action)' \/ (b = x /\ calls[1].action = action)
  BY <1>0, HandlerFollows
<1>3. StickFollows'
  BY <1>0, <1>1, StickWaits
<1>4. MaskFollows'
  BY <1>0, <1>1, <1>2 DEF MaskFollows
<1>5. \A x \in buttons' : x \in current_buttons' \/ Pending(x, "UP")'
  <2>1. \A x \in buttons : x \in MouseButtons
    BY <1>0 DEF PadInv, MaskFollows
  <2>. QED
    BY <1>0, <1>1, <1>2, <2>1 DEF BeliefIsHeld
<1>6. keys' = IF calls[1].action = "DOWN" THEN keys \cup {KeyOf[b]} ELSE keys \ {KeyOf[b]}
  BY DEF KeyEvent
<1>7. \A k \in keys' :
         \E x \in Held(Mapped) : KeyOf[x] = k /\ (x \in current_buttons' \/ Pending(x, "UP")')
  <2>1. CASE calls[1].action = "DOWN" /\ b \in current_buttons
    BY <1>0, <1>1, <1>2, <1>6, <2>1 DEF BeliefIsHeld
  <2>2. CASE calls[1].action = "UP" /\ b \notin current_buttons
    BY <1>0, <1>1, <1>2, <1>6, <2>2 DEF BeliefIsHeld
  <2>. QED
    BY <1>1, <2>1, <2>2
<1>. QED
  BY <1>0, <1>1, <1>3, <1>4, <1>5, <1>7 DEF FollowInv, BeliefIsHeld

\* The shoulder buttons, whose releases are not reported, and the stick.
LEMMA OthersFollow ==
  ASSUME FollowInv, Scroll \/ MovePointer \/ KeepPointer
  PROVE  FollowInv'
<1>. DEFINE b == calls[1].of
<1>0. /\ CallsAgree /\ BeliefIsHeld /\ MaskFollows /\ StickFollows /\ PadInv /\ PadInv'
      /\ UNCHANGED <<button_state, buttons, keys>>
  BY HandlersKeep DEF FollowInv, Scroll, MovePointer, KeepPointer, handlers, belief
<1>1. CASE Scroll
  <2>1. HandlerCall({"L1", "R1"}) /\ stick_down' = stick_down
    BY <1>1 DEF Scroll
  <2>2. b # "STICK" /\ b \notin MouseButtons /\ b \notin Held(Mapped)
        /\ CallsAgree' /\ current_buttons' = current_buttons
    BY <2>1, HandlerFollows, NamesDiffer
  <2>3. \A x, action : Pending(x, action) => Pending(x, action)' \/ (b = x /\ calls[1].action = action)
    BY <2>1, HandlerFollows
  <2>4. StickFollows'
    BY <2>1, <2>2, StickWaits
  <2>5. \A x \in buttons : x \in MouseButtons
    BY <1>0 DEF PadInv, MaskFollows
  <2>6. BeliefIsHeld' /\ MaskFollows'
    BY <1>0, <2>2, <2>3, <2>5 DEF BeliefIsHeld, MaskFollows
  <2>. QED
    BY <1>0, <2>2, <2>4, <2>6 DEF FollowInv
<1>2. CASE MovePointer \/ KeepPointer
  <2>1. StickCall(calls[1].action) /\ HandlerCall({"STICK"})
    BY <1>2 DEF MovePointer, KeepPointer, StickCall
  <2>2. b = "STICK" /\ CallsAgree' /\ UNCHANGED <<current_buttons, readings>>
        /\ calls # <<>> /\ calls' = <<>> /\ Len(calls) = 1
    BY <2>1, HandlerFollows
  <2>3. \A x, action : Pending(x, action) => Pending(x, action)' \/ (b = x /\ calls[1].action = action)
    BY <2>1, HandlerFollows
  <2>4. stick_down' = IF calls[1].action = "MOVE" THEN stick_down ELSE calls[1].action = "DOWN"
    BY <2>1 DEF StickCall
  <2>5. StickAfter <=> stick_down'
    BY <1>0, <2>2, <2>4 DEF StickAfter, StickFollows
  <2>6. StickFollows'
    BY <1>0, <2>2, <2>4, <2>5 DEF StickFollows, StickAfter
  <2>7. \A x \in buttons : x \in MouseButtons
    BY <1>0 DEF PadInv, MaskFollows
  <2>8. BeliefIsHeld' /\ MaskFollows'
    BY <1>0, <2>2, <2>3, <2>7, NamesDiffer DEF BeliefIsHeld, MaskFollows
  <2>. QED
    BY <1>0, <2>2, <2>6, <2>8 DEF FollowInv
<1>. QED
  BY <1>1, <1>2

LEMMA FollowStep == FollowInv /\ [Next]_vars => FollowInv'
<1>. SUFFICES ASSUME FollowInv, [Next]_vars PROVE FollowInv'
  OBVIOUS
<1>1. PadInv'
  BY PadKeeps DEF FollowInv
<1>2. ASSUME UNCHANGED <<current_buttons, readings, calls, button_state, keys, stick_down>>,
             buttons' \subseteq buttons
      PROVE  FollowInv'
  <2>1. \A b, action : Pending(b, action)' <=> Pending(b, action)
    BY <1>2 DEF Pending
  <2>2. CallsAgree'
    BY <1>2 DEF FollowInv, CallsAgree
  <2>3. BeliefIsHeld' /\ MaskFollows'
    BY <1>2, <2>1 DEF FollowInv, BeliefIsHeld, MaskFollows
  <2>4. StickFollows'
    BY <1>2 DEF FollowInv, StickFollows, StickAfter
  <2>. QED
    BY <1>1, <2>2, <2>3, <2>4 DEF FollowInv
<1>3. CASE TouchPointer \/ OpenSession \/ CloseSession \/ UNCHANGED vars
  BY <1>2, <1>3 DEF TouchPointer, OpenSession, CloseSession, vars, handlers, belief
<1>4. CASE RefocusClick
  BY <1>2, <1>4 DEF RefocusClick, handlers
<1>. QED
  BY <1>3, <1>4, PollFollows, MouseFollows, KeyFollows, OthersFollow DEF Next

\* Between two polls no call is to come.
LEMMA NothingPending ==
  ASSUME calls = <<>>
  PROVE  \A b, action : ~Pending(b, action)
<1>1. 1..Len(calls) = {}
  OBVIOUS
<1>. QED
  BY <1>1 DEF Pending

\* Between two polls, over any number of keyboard sessions in which presses and
\* releases go unseen, the engine believes down only what was held at the last
\* poll: no key and no mouse button is stuck, also when buttons share a key.
THEOREM PadNothingIsStuck == Spec => []NothingIsStuck
<1>1. FollowInv => NothingIsStuck
  <2>. SUFFICES ASSUME FollowInv, calls = <<>>
                PROVE  /\ buttons \subseteq current_buttons
                       /\ keys \subseteq {KeyOf[b] : b \in current_buttons \cap Held(Mapped)}
    BY DEF NothingIsStuck
  <2>. QED
    BY NothingPending DEF FollowInv, BeliefIsHeld
<1>. QED
  BY <1>1, FollowStarts, FollowStep, PTL DEF Spec

\* Between two polls the mask of the bridge is the mouse buttons that are held,
\* and a drag never outlives them.
THEOREM PadMaskIsHeld == Spec => []MaskIsHeld
<1>1. FollowInv => MaskIsHeld
  <2>. SUFFICES ASSUME FollowInv PROVE MaskIsHeld
    OBVIOUS
  <2>1. calls = <<>> => button_state = current_buttons \cap MouseButtons
    BY NothingPending DEF FollowInv, MaskFollows
  <2>. QED
    BY <2>1 DEF MaskIsHeld, FollowInv, PadInv
<1>. QED
  BY <1>1, FollowStarts, FollowStep, PTL DEF Spec

\* poll_stick reports each deflection of the stick once, in whatever order its
\* readings come: DOWN and UP alternate.
THEOREM PadStickAlternates == Spec => StickAlternates
<1>1. FollowInv /\ [Next]_vars =>
        [calls # <<>> /\ calls' = Tail(calls) /\ calls[1].of = "STICK" =>
            /\ calls[1].action = "DOWN" => ~stick_down
            /\ calls[1].action = "UP" => stick_down]_vars
  <2>. SUFFICES ASSUME FollowInv, calls # <<>>, calls[1].of = "STICK"
                PROVE  /\ calls[1].action = "DOWN" => ~stick_down
                       /\ calls[1].action = "UP" => stick_down
    OBVIOUS
  <2>1. 1 \in 1..Len(calls)
    BY FirstCall DEF FollowInv, CallsAgree
  <2>2. 1 = Len(calls)
    BY <2>1 DEF FollowInv, CallsAgree
  <2>. QED
    BY <2>2 DEF FollowInv, StickFollows
<1>. QED
  BY <1>1, FollowStarts, FollowStep, PTL DEF Spec, StickAlternates
================================================================================

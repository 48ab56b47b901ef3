------------------------------ MODULE TouchProofs ------------------------------
(***************************************************************************)
(* Proofs about the touch panel and the gestures, for any contacts, points *)
(* of the screen, number of fingers, distances and selection button, and   *)
(* for any order of readings and calls.                                    *)
(***************************************************************************)
EXTENDS Touch, InOrderProofs, SequenceTheorems, TLAPS

------------------------------------------------------------------------------
(* The calls of one reading.                                               *)

Contacts == [id : Ids, at : Points]
CallType == [id : Ids, at : Points, action : {"DOWN", "MOVE", "UP"}]

\* A reading is a sequence of contacts, each id once.
LEMMA ReadingType ==
  ASSUME NEW r \in Readings
  PROVE  /\ r \in Seq(Contacts)
         /\ Len(r) \in 0..MaxFingers /\ DOMAIN r = 1..Len(r)
         /\ \A i, j \in DOMAIN r : r[i].id = r[j].id => i = j
<1>1. PICK n \in 0..MaxFingers : r \in [1..n -> Contacts]
  BY DEF Readings, Contacts
<1>2. n \in Nat
  OBVIOUS
<1>3. r \in Seq(Contacts) /\ Len(r) = n
  BY <1>1, <1>2
<1>. QED
  BY <1>1, <1>3 DEF Readings

\* The calls c tell how the contacts change from one set to the other: DOWN for
\* each that is new, UP for each that is gone, and no contact gets two.
Tells(c, old, new) ==
  /\ \A i \in 1..Len(c) :
       /\ c[i].action = "DOWN" => c[i].id \in new \ old
       /\ c[i].action = "MOVE" => c[i].id \in new \cap old
       /\ c[i].action = "UP" => c[i].id \in old \ new
  /\ \A x \in new \ old : \E i \in 1..Len(c) : c[i].id = x
  /\ \A x \in old \ new : \E i \in 1..Len(c) : c[i].id = x
  /\ \A i, j \in 1..Len(c) : c[i].id = c[j].id => i = j

\* The calls of poll_touch tell how the reading has changed.
LEMMA CallsTell ==
  ASSUME NEW old \in Readings, NEW new \in Readings
  PROVE  /\ CallsFor(old, new) \in Seq(CallType)
         /\ Tells(CallsFor(old, new), IdsOf(old), IdsOf(new))
<1>. DEFINE gone == {i \in DOMAIN old : old[i].id \notin IdsOf(new)}
            n == Len(new)
            m == Cardinality(gone)
            first == [i \in DOMAIN new |-> Report(new[i], ActionFor(i, old, new))]
            second == [k \in DOMAIN InOrder(gone) |-> Report(old[InOrder(gone)[k]], "UP")]
            c == CallsFor(old, new)
<1>1. /\ new \in Seq(Contacts) /\ n \in Nat /\ DOMAIN new = 1..n
      /\ \A i, j \in DOMAIN new : new[i].id = new[j].id => i = j
  BY ReadingType
<1>2. /\ old \in Seq(Contacts) /\ Len(old) \in Nat /\ DOMAIN old = 1..Len(old)
      /\ \A i, j \in DOMAIN old : old[i].id = old[j].id => i = j
  BY ReadingType
<1>3. gone \in SUBSET Int /\ IsFiniteSet(gone)
  <2>1. IsFiniteSet(DOMAIN old)
    BY <1>2, FS_Interval
  <2>2. gone \in SUBSET DOMAIN old
    OBVIOUS
  <2>. QED
    BY <1>2, <2>1, <2>2, FS_Subset
<1>4. /\ m \in Nat /\ InOrder(gone) \in [1..m -> gone]
      /\ \A i \in gone : \E k \in 1..m : InOrder(gone)[k] = i
      /\ \A k, l \in 1..m : k < l => InOrder(gone)[k] < InOrder(gone)[l]
  BY <1>3, InOrderLists
<1>5. \A k, l \in 1..m : InOrder(gone)[k] = InOrder(gone)[l] => k = l
  <2>1. \A k \in 1..m : InOrder(gone)[k] \in Int
    BY <1>3, <1>4
  <2>. QED
    BY <1>4, <2>1
<1>. HIDE DEF gone, m
<1>6. /\ first \in Seq(CallType) /\ Len(first) = n
      /\ \A i \in 1..n : first[i].id = new[i].id /\ first[i].action = ActionFor(i, old, new)
  <2>1. \A i \in 1..n : new[i] \in Contacts /\ ActionFor(i, old, new) \in {"DOWN", "MOVE", "UP"}
    BY <1>1 DEF ActionFor
  <2>2. \A i \in 1..n : Report(new[i], ActionFor(i, old, new)) \in CallType
    BY <2>1 DEF Report, Contacts, CallType
  <2>3. first \in [1..n -> CallType]
    BY <1>1, <2>2
  <2>. QED
    BY <1>1, <2>3 DEF Report
<1>7. /\ second \in Seq(CallType) /\ Len(second) = m
      /\ \A k \in 1..m : second[k].id = old[InOrder(gone)[k]].id /\ second[k].action = "UP"
  <2>1. \A k \in 1..m : InOrder(gone)[k] \in DOMAIN old /\ old[InOrder(gone)[k]] \in Contacts
    BY <1>2, <1>4 DEF gone
  <2>2. \A k \in 1..m : Report(old[InOrder(gone)[k]], "UP") \in CallType
    BY <2>1 DEF Report, Contacts, CallType
  <2>3. second \in [1..m -> CallType]
    BY <1>4, <2>2
  <2>. QED
    BY <1>4, <2>3 DEF Report
<1>8. c = first \o second
  BY DEF CallsFor, gone
<1>. HIDE DEF first, second, c
<1>9. /\ c \in Seq(CallType) /\ Len(c) = n + m
      /\ \A i \in 1..n : c[i] = first[i]
      /\ \A k \in 1..m : c[n + k] = second[k]
  <2>1. /\ c \in Seq(CallType) /\ Len(c) = Len(first) + Len(second)
        /\ \A i \in 1 .. Len(first) + Len(second) :
             c[i] = IF i <= Len(first) THEN first[i] ELSE second[i - Len(first)]
    <3>1. first \in Seq(CallType) /\ second \in Seq(CallType)
      BY <1>6, <1>7
    <3>. QED
      BY ONLY <1>8, <3>1, ConcatProperties
  <2>. HIDE DEF n
  <2>2. \A k \in 1..m : n + k \in 1..(n + m) /\ ~(n + k <= n) /\ n + k - n = k
    BY <1>1, <1>4
  <2>3. \A i \in 1..n : i \in 1..(n + m) /\ i <= n
    BY <1>1, <1>4
  <2>4. Len(first) + Len(second) = n + m /\ Len(first) = n
    BY <1>6, <1>7
  <2>5. \A i \in 1..n : c[i] = first[i]
    BY <2>1, <2>3, <2>4
  <2>6. ASSUME NEW k \in 1..m PROVE c[n + k] = second[k]
    <3>1. /\ n + k \in 1..(Len(first) + Len(second))
          /\ ~(n + k <= Len(first)) /\ n + k - Len(first) = k
      BY <2>2, <2>4
    <3>2. PICK j \in 1..(Len(first) + Len(second)) : j = n + k
      BY <3>1
    <3>3. ~(j <= Len(first)) /\ j - Len(first) = k
      BY <1>1, <1>4, <2>4, <3>2
    <3>4. c[j] = second[j - Len(first)]
      BY <2>1, <3>3
    <3>. QED
      BY <3>2, <3>3, <3>4
  <2>. QED
    BY <2>1, <2>4, <2>5, <2>6
<1>10. \A i \in 1..n : /\ c[i].id = new[i].id /\ c[i].id \in IdsOf(new)
                       /\ c[i].action = IF c[i].id \in IdsOf(old) THEN "MOVE" ELSE "DOWN"
  BY <1>1, <1>6, <1>9 DEF ActionFor, IdsOf
<1>11. \A i \in 1..Len(c) : i > n =>
          /\ i - n \in 1..m
          /\ c[i].id = old[InOrder(gone)[i - n]].id
          /\ c[i].action = "UP" /\ c[i].id \in IdsOf(old) \ IdsOf(new)
  <2>. SUFFICES ASSUME NEW i \in 1..Len(c), i > n
                PROVE  /\ i - n \in 1..m
                       /\ c[i].id = old[InOrder(gone)[i - n]].id
                       /\ c[i].action = "UP" /\ c[i].id \in IdsOf(old) \ IdsOf(new)
    OBVIOUS
  <2>1. i - n \in 1..m /\ i = n + (i - n)
    BY <1>1, <1>4, <1>9
  <2>2. c[i] = second[i - n]
    BY <1>9, <2>1
  <2>3. InOrder(gone)[i - n] \in gone
    BY <1>4, <2>1
  <2>. QED
    <3>1. c[i].id = old[InOrder(gone)[i - n]].id /\ c[i].action = "UP"
      BY <1>7, <2>1, <2>2
    <3>2. old[InOrder(gone)[i - n]].id \in IdsOf(old) \ IdsOf(new)
      BY <2>3 DEF gone, IdsOf
    <3>. QED
      BY <2>1, <3>1, <3>2
<1>12. \A x \in IdsOf(new) : \E i \in 1..Len(c) : c[i].id = x
  BY <1>1, <1>4, <1>9, <1>10 DEF IdsOf
<1>13. \A x \in IdsOf(old) \ IdsOf(new) : \E i \in 1..Len(c) : c[i].id = x
  <2>. SUFFICES ASSUME NEW x \in IdsOf(old) \ IdsOf(new) PROVE \E i \in 1..Len(c) : c[i].id = x
    OBVIOUS
  <2>1. PICK j \in gone : old[j].id = x
    BY DEF IdsOf, gone
  <2>2. PICK k \in 1..m : InOrder(gone)[k] = j
    BY <1>4
  <2>3. n + k \in 1..Len(c) /\ c[n + k].id = x
    BY <1>1, <1>4, <1>7, <1>9, <2>1, <2>2
  <2>. QED
    BY <2>3
<1>14. ASSUME NEW i \in 1..Len(c), NEW j \in 1..Len(c), c[i].id = c[j].id PROVE i = j
  <2>1. i \in Int /\ j \in Int /\ n \in Int
    BY <1>1
  <2>2. CASE i =< n /\ j =< n
    BY <1>1, <1>10, <1>14, <2>1, <2>2
  <2>3. CASE i > n /\ j > n
    <3>1. InOrder(gone)[i - n] \in DOMAIN old /\ InOrder(gone)[j - n] \in DOMAIN old
      BY <1>4, <1>11, <2>3 DEF gone
    <3>2. old[InOrder(gone)[i - n]].id = old[InOrder(gone)[j - n]].id
      BY <1>11, <1>14, <2>3
    <3>4. InOrder(gone)[i - n] = InOrder(gone)[j - n]
      BY <1>2, <3>1, <3>2
    <3>3. i - n = j - n
      BY <1>5, <1>11, <2>3, <3>4
    <3>. QED
      BY <2>1, <3>3
  <2>4. (i =< n => c[i].id \in IdsOf(new)) /\ (i > n => c[i].id \notin IdsOf(new))
    BY <1>10, <1>11, <2>1
  <2>5. (j =< n => c[j].id \in IdsOf(new)) /\ (j > n => c[j].id \notin IdsOf(new))
    BY <1>10, <1>11, <2>1
  <2>. QED
    BY <1>14, <2>1, <2>2, <2>3, <2>4, <2>5
<1>15. \A i \in 1..Len(c) :
       /\ c[i].action = "DOWN" => c[i].id \in IdsOf(new) \ IdsOf(old)
       /\ c[i].action = "MOVE" => c[i].id \in IdsOf(new) \cap IdsOf(old)
       /\ c[i].action = "UP" => c[i].id \in IdsOf(old) \ IdsOf(new)
  <2>. SUFFICES ASSUME NEW i \in 1..Len(c)
                PROVE  /\ c[i].action = "DOWN" => c[i].id \in IdsOf(new) \ IdsOf(old)
                       /\ c[i].action = "MOVE" => c[i].id \in IdsOf(new) \cap IdsOf(old)
                       /\ c[i].action = "UP" => c[i].id \in IdsOf(old) \ IdsOf(new)
    OBVIOUS
  <2>1. CASE i =< n
    BY <1>1, <1>10, <2>1
  <2>2. CASE i > n
    BY <1>11, <2>2
  <2>. QED
    BY <1>1, <2>1, <2>2
<1>. QED
  BY <1>9, <1>12, <1>13, <1>14, <1>15 DEF Tells, c
------------------------------------------------------------------------------
(* The type of every variable.                                             *)

\* The first of some calls, and those that remain after it.
LEMMA FirstCall ==
  ASSUME NEW c \in Seq(CallType), c # <<>>
  PROVE  /\ Len(c) \in Nat \ {0} /\ c[1] \in CallType
         /\ Tail(c) \in Seq(CallType) /\ Len(Tail(c)) = Len(c) - 1
         /\ \A i \in 1..Len(Tail(c)) : i + 1 \in 1..Len(c) /\ Tail(c)[i] = c[i + 1]
<1>1. Len(c) \in Nat \ {0}
  BY EmptySeq, LenProperties
<1>2. c[1] \in CallType
  BY <1>1, ElementOfSeq
<1>. HIDE DEF CallType
<1>3. Tail(c) \in Seq(CallType) /\ Len(Tail(c)) = Len(c) - 1
      /\ \A i \in 1..Len(Tail(c)) : Tail(c)[i] = c[i + 1]
  BY HeadTailProperties
<1>. QED
  BY <1>1, <1>2, <1>3

\* The type of the variables, one by one.
KnownType == [id : Ids, at : Points, strayed : BOOLEAN]
SentType ==
  [touch : {"none", "DOWN", "MOVE", "UP"}, id : Ids \cup {-1}, tap : BOOLEAN,
   pan : Int \X Int]

PanelType ==
  /\ touch_old \in Readings
  /\ calls \in Seq(CallType)
  /\ frames \in 0..MaxFrames
  /\ alone \in BOOLEAN /\ bg2v_selection_enabled \in BOOLEAN

GestureType ==
  /\ moved \in BOOLEAN /\ armed \in BOOLEAN /\ selection_drag \in BOOLEAN
  /\ active_id \in Ids \cup {-1}
  /\ down_at \in Points \cup {Zero} /\ last_at \in Points \cup {Zero}

HistoryType ==
  /\ down \in SUBSET KnownType
  /\ capped \in BOOLEAN /\ pressed \in BOOLEAN
  /\ origin \in Points \cup {Zero}
  /\ panned \in Int \X Int

LastSentType ==
  /\ sent \in SentType
  /\ selection_drag \/ \A i \in 1..2 : -sent.pan[i] =< MaxPanStep /\ sent.pan[i] =< MaxPanStep

LEMMA TypeParts ==
  /\ TypeOK <=> PanelType /\ GestureType /\ HistoryType /\ LastSentType
  /\ TypeOK' <=> PanelType' /\ GestureType' /\ HistoryType' /\ LastSentType'
BY Zenon DEF TypeOK, PanelType, GestureType, HistoryType, LastSentType, CallType, KnownType, SentType

\* A step of the handler reads a call of the queue and takes it out.
LEMMA HandlerType ==
  ASSUME TypeOK, NEW action, HandlerCall(action)
  PROVE  /\ calls[1] \in CallType /\ calls[1].action = action
         /\ calls[1].id \in Ids /\ calls[1].at \in Points
         /\ calls' \in Seq(CallType)
         /\ UNCHANGED <<touch_old, frames, alone, bg2v_selection_enabled>>
         /\ PanelType'
<1>1. calls \in Seq(CallType) /\ calls # <<>>
  BY TypeParts DEF HandlerCall, PanelType
<1>2. calls[1] \in CallType /\ calls' \in Seq(CallType)
  BY <1>1, FirstCall DEF HandlerCall
<1>3. calls[1].id \in Ids /\ calls[1].at \in Points
  BY <1>2 DEF CallType
<1>. QED
  BY <1>2, <1>3, TypeParts DEF HandlerCall, PanelType

\* A pan step stays within the cap.
LEMMA ClampType ==
  ASSUME NEW d \in Int
  PROVE  Clamp(d) \in Int /\ Clamp(d) =< MaxPanStep /\ -Clamp(d) =< MaxPanStep
BY TouchAssumption DEF Clamp

\* The contacts the game knows stay contacts when one of them is seen to move.
LEMMA StrayType ==
  ASSUME NEW c, down \in SUBSET KnownType, Stray(c)
  PROVE  down' \in SUBSET KnownType /\ DownIds' = DownIds
<1>1. \A f \in down : Seen(f, c) \in KnownType /\ Seen(f, c).id = f.id
  BY DEF Seen, KnownType
<1>. QED
  BY <1>1 DEF Stray, DownIds

\* The way from one point to another is a pair of integers.
LEMMA WayType ==
  ASSUME TypeOK, NEW action, HandlerCall(action)
  PROVE  Way(calls[1]) \in Int \X Int
<1>1. Zero \in Int \X Int /\ Points \in SUBSET (Int \X Int)
  BY TouchAssumption DEF Zero
<1>2. down_at \in Int \X Int /\ last_at \in Int \X Int /\ calls[1].at \in Int \X Int
  BY <1>1, HandlerType, TypeParts DEF GestureType
<1>. QED
  BY <1>2 DEF Way, Minus

LEMMA TypeInit == Init => TypeOK
<1>. SUFFICES ASSUME Init PROVE TypeOK
  OBVIOUS
<1>1. touch_old \in Readings /\ calls \in Seq(CallType)
  <2>1. touch_old \in [1..0 -> [id : Ids, at : Points]] /\ calls = <<>>
    BY DEF Init
  <2>. QED
    BY <2>1, TouchAssumption DEF Readings, Init
<1>2. sent \in SentType /\ sent.pan = <<0, 0>>
  BY DEF Init, Nothing, Zero, SentType
<1>3. panned \in Int \X Int
  BY DEF Init, Zero
<1>4. LastSentType
  BY <1>2, TouchAssumption DEF LastSentType
<1>5. 0 \in 0..MaxFrames
  BY TouchAssumption
<1>. QED
  BY <1>1, <1>3, <1>4, <1>5, TypeParts DEF Init, PanelType, GestureType, HistoryType

LEMMA TypeStep == TypeOK /\ [Next]_vars => TypeOK'
<1>. SUFFICES ASSUME TypeOK, [Next]_vars PROVE TypeOK'
  OBVIOUS
<1>0. PanelType /\ GestureType /\ HistoryType /\ LastSentType
  BY TypeParts
<1>. DEFINE c == calls[1]
\* A call without a pan keeps what was sent within the cap.
<1>1. ASSUME NEW touch \in {"DOWN", "MOVE", "UP"}, NEW tap \in BOOLEAN, NEW id \in Ids,
             sent' = [touch |-> touch, id |-> id, tap |-> tap, pan |-> Zero]
      PROVE  LastSentType'
  <2>1. sent' \in SentType /\ sent'.pan = <<0, 0>>
    BY <1>1 DEF SentType, Zero
  <2>. QED
    BY <2>1, TouchAssumption DEF LastSentType
<1>2. CASE Poll
  <2>1. PICK new \in Readings : touch_old' = new /\ calls' = CallsFor(touch_old, new)
    BY <1>2 DEF Poll
  <2>2. calls' \in Seq(CallType)
    BY <1>0, <2>1, CallsTell DEF PanelType
  <2>3. frames' \in 0..MaxFrames
    BY <1>0, <1>2, TouchAssumption, CrowdedAssumption DEF Poll, PanelType
  <2>4. PanelType'
    BY <1>0, <1>2, <2>1, <2>2, <2>3 DEF Poll, PanelType
  <2>. QED
    BY <1>0, <1>2, <2>4, TypeParts
    DEF Poll, GestureType, HistoryType, LastSentType, gesture, history
<1>3. CASE Down
  <2>1. HandlerCall("DOWN")
    BY <1>3 DEF Down
  <2>2. c.id \in Ids /\ c.at \in Points /\ PanelType'
    BY <2>1, HandlerType
  <2>3. LastSentType'
    BY <1>1, <1>3, <2>2 DEF Down
  <2>4. [id |-> c.id, at |-> c.at, strayed |-> FALSE] \in KnownType
    BY <2>2 DEF KnownType
  <2>5. Zero \in Int \X Int
    BY DEF Zero
  <2>7. HistoryType'
    BY <1>0, <1>3, <2>2, <2>4, <2>5 DEF Down, HistoryType
  <2>6. GestureType'
    BY <1>0, <1>3, <2>2 DEF Down, GestureType
  <2>. QED
    BY <2>2, <2>3, <2>6, <2>7, TypeParts
<1>4. CASE Up
  <2>1. HandlerCall("UP")
    BY <1>4 DEF Up
  <2>2. c.id \in Ids /\ c.at \in Points /\ PanelType'
    BY <2>1, HandlerType
  <2>3. LastSentType'
    BY <1>0, <1>1, <1>4, <2>2 DEF Up, GestureType
  <2>4. HistoryType'
    BY <1>0, <1>4 DEF Up, HistoryType
  <2>5. GestureType'
    BY <1>0, <1>4 DEF Up, GestureType
  <2>. QED
    BY <2>2, <2>3, <2>4, <2>5, TypeParts
\* What the calls of a finger that stays have in common.
<1>5. ASSUME HandlerCall("MOVE"), Stray(c)
      PROVE  c.id \in Ids /\ c.at \in Points /\ PanelType' /\ down' \in SUBSET KnownType
  BY <1>0, <1>5, HandlerType, StrayType DEF HistoryType
<1>6. CASE MoveOnly
  <2>1. HandlerCall("MOVE") /\ SentMove(c, Zero) /\ Stray(c)
    BY <1>6 DEF MoveOnly
  <2>2. LastSentType'
    BY <1>1, <1>5, <2>1 DEF SentMove
  <2>. QED
    BY <1>0, <1>5, <1>6, <2>1, <2>2, TypeParts DEF MoveOnly, gesture, GestureType, HistoryType
<1>7. CASE DragBegins
  <2>1. HandlerCall("MOVE") /\ SentMove(c, Zero) /\ Stray(c)
    BY <1>7 DEF DragBegins
  <2>2. LastSentType'
    BY <1>1, <1>5, <2>1 DEF SentMove
  <2>. QED
    BY <1>0, <1>5, <1>7, <2>1, <2>2, TypeParts DEF DragBegins, GestureType, HistoryType
<1>8. CASE Pan
  <2>. DEFINE way == Way(c)
              gained == <<3 * way[1], 3 * way[2]>>
              pan == IF selection_drag THEN <<2 * way[1], 2 * way[2]>>
                     ELSE <<Clamp(gained[1]), Clamp(gained[2])>>
  <2>1. HandlerCall("MOVE") /\ SentMove(c, pan) /\ Stray(c)
    BY <1>8 DEF Pan
  <2>2. /\ pan \in Int \X Int
        /\ ~selection_drag => \A i \in 1..2 : -pan[i] =< MaxPanStep /\ pan[i] =< MaxPanStep
    <3>1. way[1] \in Int /\ way[2] \in Int
      BY <2>1, WayType
    <3>. HIDE DEF way
    <3>2. /\ gained[1] = 3 * way[1] /\ gained[2] = 3 * way[2]
          /\ gained[1] \in Int /\ gained[2] \in Int
      BY <3>1
    <3>. HIDE DEF gained
    <3>3. CASE selection_drag
      BY <3>1, <3>3
    <3>4. CASE ~selection_drag
      <4>1. pan = <<Clamp(gained[1]), Clamp(gained[2])>>
        BY <3>4
      <4>. QED
        BY <3>2, <4>1, ClampType
    <3>. QED
      BY <3>3, <3>4
  <2>3. /\ moved' = TRUE /\ last_at' = c.at
        /\ panned' = <<panned[1] + pan[1], panned[2] + pan[2]>>
        /\ capped' = (capped \/ pan # gained)
        /\ UNCHANGED <<active_id, down_at, armed, selection_drag, origin, pressed>>
    BY <1>8 DEF Pan
  <2>. HIDE DEF pan, gained, way
  <2>4. LastSentType'
    <3>1. sent' \in SentType /\ sent'.pan = pan
      BY <1>5, <2>1, <2>2 DEF SentMove, SentType
    <3>. QED
      BY <2>2, <2>3, <3>1 DEF LastSentType
  <2>5. panned' \in Int \X Int
    <3>1. panned[1] \in Int /\ panned[2] \in Int /\ pan[1] \in Int /\ pan[2] \in Int
      BY <1>0, <2>2 DEF HistoryType
    <3>. QED
      BY <2>3, <3>1
  <2>6. HistoryType'
    BY <1>0, <1>5, <2>1, <2>3, <2>5 DEF HistoryType
  <2>7. GestureType'
    BY <1>0, <1>5, <2>1, <2>3 DEF GestureType
  <2>. QED
    BY <1>5, <2>1, <2>4, <2>6, <2>7, TypeParts
<1>9. CASE Rest
  <2>1. HandlerCall("MOVE") /\ SentMove(c, Zero) /\ Stray(c)
    BY <1>9 DEF Rest
  <2>2. LastSentType'
    BY <1>1, <1>5, <2>1 DEF SentMove
  <2>. QED
    BY <1>0, <1>5, <1>9, <2>1, <2>2, TypeParts DEF Rest, gesture, GestureType, HistoryType
<1>10. CASE SetSelectionEnabled
  BY <1>0, <1>10, TypeParts
  DEF SetSelectionEnabled, panel, gesture, history, PanelType, GestureType, HistoryType, LastSentType
<1>11. CASE UNCHANGED vars
  BY <1>0, <1>11, TypeParts
  DEF vars, panel, gesture, history, PanelType, GestureType, HistoryType, LastSentType
<1>. QED
  BY <1>2, <1>3, <1>4, <1>6, <1>7, <1>8, <1>9, <1>10, <1>11 DEF Next

\* Every variable keeps its type in every behaviour, and a pan its cap: the
\* calls of poll_touch are calls of contacts on the panel, and what
\* controls_handler_touch sends to the game never exceeds the cap.
THEOREM TouchTypeOK == Spec => []TypeOK
BY TypeInit, TypeStep, PTL DEF Spec
------------------------------------------------------------------------------
(* What the game knows of the contacts.                                    *)

\* The calls that remain after the first tell the rest of the change.
LEMMA RestTells ==
  ASSUME NEW c \in Seq(CallType), c # <<>>, NEW old, NEW new, Tells(c, old, new)
  PROVE  /\ c[1].action = "DOWN" =>
              c[1].id \notin old /\ Tells(Tail(c), old \cup {c[1].id}, new)
         /\ c[1].action = "MOVE" => c[1].id \in old /\ Tells(Tail(c), old, new)
         /\ c[1].action = "UP" => c[1].id \in old /\ Tells(Tail(c), old \ {c[1].id}, new)
<1>. DEFINE t == Tail(c)
            x == c[1].id
            after == IF c[1].action = "DOWN" THEN old \cup {x}
                     ELSE IF c[1].action = "UP" THEN old \ {x} ELSE old
<1>0. c[1].action \in {"DOWN", "MOVE", "UP"}
  <2>1. c[1] \in CallType
    BY FirstCall
  <2>. QED
    BY <2>1 DEF CallType
<1>1. /\ Len(c) \in Nat \ {0} /\ Len(t) = Len(c) - 1
      /\ \A i \in 1..Len(t) : i + 1 \in 1..Len(c) /\ t[i] = c[i + 1]
      /\ 1 \in 1..Len(c)
  BY FirstCall
<1>. HIDE DEF t
<1>2. \A i, j \in 1..Len(c) : c[i].id = c[j].id => i = j
  BY DEF Tells
<1>3. \A i \in 1..Len(t) : t[i].id # x
  <2>. SUFFICES ASSUME NEW i \in 1..Len(t), t[i].id = x PROVE FALSE
    OBVIOUS
  <2>1. i + 1 = 1
    BY <1>1, <1>2
  <2>. QED
    BY <1>1, <2>1
<1>4. \A i \in 1..Len(c) : i # 1 => \E j \in 1..Len(t) : t[j] = c[i]
  <2>. SUFFICES ASSUME NEW i \in 1..Len(c), i # 1 PROVE \E j \in 1..Len(t) : t[j] = c[i]
    OBVIOUS
  <2>1. i - 1 \in 1..Len(t) /\ (i - 1) + 1 = i
    BY <1>1
  <2>. QED
    BY <1>1, <2>1
<1>5. /\ c[1].action = "DOWN" => x \in new \ old
      /\ c[1].action = "MOVE" => x \in new \cap old
      /\ c[1].action = "UP" => x \in old \ new
  BY <1>1 DEF Tells
<1>6. \A i \in 1..Len(t) :
        /\ t[i].action = "DOWN" => t[i].id \in new \ after
        /\ t[i].action = "MOVE" => t[i].id \in new \cap after
        /\ t[i].action = "UP" => t[i].id \in after \ new
  <2>. SUFFICES ASSUME NEW i \in 1..Len(t)
                PROVE  /\ t[i].action = "DOWN" => t[i].id \in new \ after
                       /\ t[i].action = "MOVE" => t[i].id \in new \cap after
                       /\ t[i].action = "UP" => t[i].id \in after \ new
    OBVIOUS
  <2>1. PICK j \in 1..Len(c) : c[j] = t[i]
    BY <1>1
  <2>2. /\ t[i].action = "DOWN" => t[i].id \in new \ old
        /\ t[i].action = "MOVE" => t[i].id \in new \cap old
        /\ t[i].action = "UP" => t[i].id \in old \ new
    BY <2>1 DEF Tells
  <2>. QED
    BY <1>3, <2>2
<1>7. \A y \in new \ after : \E i \in 1..Len(t) : t[i].id = y
  <2>. SUFFICES ASSUME NEW y \in new \ after PROVE \E i \in 1..Len(t) : t[i].id = y
    OBVIOUS
  <2>1. y \in new \ old /\ y # x
    BY <1>0, <1>5
  <2>2. PICK i \in 1..Len(c) : c[i].id = y
    BY <2>1 DEF Tells
  <2>. QED
    BY <1>4, <2>1, <2>2
<1>8. \A y \in after \ new : \E i \in 1..Len(t) : t[i].id = y
  <2>. SUFFICES ASSUME NEW y \in after \ new PROVE \E i \in 1..Len(t) : t[i].id = y
    OBVIOUS
  <2>1. y \in old \ new /\ y # x
    BY <1>0, <1>5
  <2>2. PICK i \in 1..Len(c) : c[i].id = y
    BY <2>1 DEF Tells
  <2>. QED
    BY <1>4, <2>1, <2>2
<1>9. \A i, j \in 1..Len(t) : t[i].id = t[j].id => i = j
  <2>. SUFFICES ASSUME NEW i \in 1..Len(t), NEW j \in 1..Len(t), t[i].id = t[j].id
                PROVE  i = j
    OBVIOUS
  <2>1. i + 1 = j + 1
    BY <1>1, <1>2
  <2>. QED
    BY <1>1, <2>1
<1>10. Tells(t, after, new)
  BY <1>6, <1>7, <1>8, <1>9 DEF Tells
<1>. QED
  BY <1>5, <1>10 DEF t

\* When there is nothing to tell, nothing has changed.
LEMMA NothingToTell ==
  ASSUME NEW old, NEW new, Tells(<<>>, old, new)
  PROVE  old = new
<1>1. 1..Len(<<>>) = {}
  OBVIOUS
<1>. QED
  BY <1>1 DEF Tells

\* The calls still to come tell the game how the contacts it knows become those
\* on the panel.
PanelIsTold == Tells(calls, DownIds, IdsOf(touch_old))

\* How a call of the handler changes the contacts the game knows.
LEMMA KnownContacts ==
  ASSUME TypeOK
  PROVE  /\ Down => DownIds' = DownIds \cup {calls[1].id}
         /\ Up => DownIds' = DownIds \ {calls[1].id}
         /\ MoveOnly \/ DragBegins \/ Pan \/ Rest => DownIds' = DownIds
<1>1. Down => DownIds' = DownIds \cup {calls[1].id}
  <2>. SUFFICES ASSUME Down PROVE DownIds' = DownIds \cup {calls[1].id}
    OBVIOUS
  <2>. DEFINE f == [id |-> calls[1].id, at |-> calls[1].at, strayed |-> FALSE]
  <2>1. down' = down \cup {f} /\ f.id = calls[1].id
    BY DEF Down
  <2>. HIDE DEF f
  <2>. QED
    BY <2>1 DEF DownIds
<1>2. Up => DownIds' = DownIds \ {calls[1].id}
  BY DEF Up, DownIds
<1>3. MoveOnly \/ DragBegins \/ Pan \/ Rest => DownIds' = DownIds
  <2>1. MoveOnly \/ DragBegins \/ Pan \/ Rest => Stray(calls[1])
    BY DEF MoveOnly, DragBegins, Pan, Rest
  <2>. QED
    BY <2>1, StrayType, TypeParts DEF HistoryType
<1>. QED
  BY <1>1, <1>2, <1>3

LEMMA ToldInit == Init => PanelIsTold
<1>. SUFFICES ASSUME Init PROVE PanelIsTold
  OBVIOUS
<1>1. calls = <<>> /\ Len(calls) = 0 /\ DownIds = {} /\ IdsOf(touch_old) = {}
  BY DEF Init, DownIds, IdsOf
<1>. QED
  BY <1>1 DEF PanelIsTold, Tells

\* No step of the panel, of the handler or of the engine breaks the tale; and the
\* game is sent DOWN for exactly the contacts it does not know.
LEMMA ToldStep ==
  ASSUME TypeOK, PanelIsTold, [Next]_vars
  PROVE  /\ PanelIsTold'
         /\ calls # <<>> /\ calls' = Tail(calls) =>
               (sent'.touch = "DOWN" <=> sent'.id \notin DownIds)
<1>. DEFINE c == calls[1]
            Alternates == calls # <<>> /\ calls' = Tail(calls) =>
                             (sent'.touch = "DOWN" <=> sent'.id \notin DownIds)
<1>1. calls \in Seq(CallType) /\ touch_old \in Readings
  BY TypeParts DEF PanelType
<1>2. ASSUME NEW action, HandlerCall(action)
      PROVE  /\ calls # <<>> /\ c.action = action /\ calls' = Tail(calls)
             /\ IdsOf(touch_old)' = IdsOf(touch_old)
  BY <1>2 DEF HandlerCall, IdsOf
<1>3. calls # <<>> =>
        /\ c.action = "DOWN" => /\ c.id \notin DownIds
                                /\ Tells(Tail(calls), DownIds \cup {c.id}, IdsOf(touch_old))
        /\ c.action = "MOVE" => /\ c.id \in DownIds
                                /\ Tells(Tail(calls), DownIds, IdsOf(touch_old))
        /\ c.action = "UP" => /\ c.id \in DownIds
                              /\ Tells(Tail(calls), DownIds \ {c.id}, IdsOf(touch_old))
  BY <1>1, RestTells DEF PanelIsTold
<1>4. CASE Poll
  <2>1. calls = <<>> /\ Len(calls) = 0
    BY <1>4 DEF Poll
  <2>2. DownIds = IdsOf(touch_old)
    BY <2>1, NothingToTell DEF PanelIsTold
  <2>3. PICK new \in Readings : touch_old' = new /\ calls' = CallsFor(touch_old, new)
    BY <1>4 DEF Poll
  <2>4. Tells(calls', IdsOf(touch_old), IdsOf(touch_old)')
    BY <1>1, <2>3, CallsTell DEF IdsOf
  <2>5. DownIds' = DownIds
    BY <1>4 DEF Poll, history, DownIds
  <2>. QED
    BY <2>1, <2>2, <2>4, <2>5 DEF PanelIsTold
<1>5. CASE Down
  <2>1. HandlerCall("DOWN") /\ sent'.touch = "DOWN" /\ sent'.id = c.id
    BY <1>5 DEF Down
  <2>. QED
    BY <1>2, <1>3, <1>5, <2>1, KnownContacts DEF PanelIsTold
<1>6. CASE Up
  <2>1. HandlerCall("UP") /\ sent'.touch = "UP" /\ sent'.id = c.id
    BY <1>6 DEF Up
  <2>. QED
    BY <1>2, <1>3, <1>6, <2>1, KnownContacts DEF PanelIsTold
<1>7. CASE MoveOnly \/ DragBegins \/ Pan \/ Rest
  <2>1. HandlerCall("MOVE") /\ sent'.touch = "MOVE" /\ sent'.id = c.id
    BY <1>7 DEF MoveOnly, DragBegins, Pan, Rest, SentMove
  <2>. QED
    BY <1>2, <1>3, <1>7, <2>1, KnownContacts DEF PanelIsTold
<1>8. ASSUME calls' = calls, touch_old' = touch_old, down' = down
      PROVE  PanelIsTold' /\ Alternates
  <2>1. PanelIsTold'
    BY <1>8 DEF PanelIsTold, DownIds, IdsOf, Tells
  <2>2. calls # <<>> => calls' # Tail(calls)
    <3>. SUFFICES ASSUME calls # <<>>, calls = Tail(calls) PROVE FALSE
      BY <1>8
    <3>1. Len(calls) \in Nat /\ Len(Tail(calls)) = Len(calls) - 1
      BY <1>1, FirstCall
    <3>. QED
      BY <3>1
  <2>. QED
    BY <2>1, <2>2
<1>9. CASE SetSelectionEnabled \/ UNCHANGED vars
  BY <1>8, <1>9 DEF SetSelectionEnabled, vars, panel, history
<1>. QED
  BY <1>4, <1>5, <1>6, <1>7, <1>9 DEF Next

\* In every behaviour, whenever poll_touch has made all the calls of a reading,
\* the contacts the game believes are down are those on the panel.
THEOREM TouchPanelIsSeen == Spec => []PanelIsSeen
<1>1. PanelIsTold => PanelIsSeen
  BY NothingToTell DEF PanelIsTold, PanelIsSeen
<1>2. TypeOK /\ PanelIsTold /\ [Next]_vars => PanelIsTold'
  BY ToldStep
<1>. QED
  BY <1>1, <1>2, ToldInit, TouchTypeOK, PTL DEF Spec

\* In every behaviour the game sees each contact go down, move and come up in
\* that order: controls_handler_touch never sends a second DOWN, nor a MOVE or an
\* UP of a contact the game does not know.
THEOREM TouchEventsAlternate == Spec => EventsAlternate
<1>1. TypeOK /\ PanelIsTold /\ [Next]_vars => PanelIsTold'
  BY ToldStep
<1>2. TypeOK /\ PanelIsTold /\ [Next]_vars =>
        [calls # <<>> /\ calls' = Tail(calls) =>
            (sent'.touch = "DOWN" <=> sent'.id \notin DownIds)]_vars
  BY ToldStep
<1>. QED
  BY <1>1, <1>2, ToldInit, TouchTypeOK, PTL DEF Spec, EventsAlternate
------------------------------------------------------------------------------
(* The pans of a drag.                                                     *)

\* While a drag that is neither cut nor a selection drag goes on, its pans are
\* the way since the point they count from; before it begins, that point is the
\* one where the finger went down and there is no pan.
PanIsWay ==
  active_id # -1 /\ ~selection_drag /\ ~capped =>
    IF moved
    THEN panned = <<3 * (last_at[1] - origin[1]), 3 * (last_at[2] - origin[2])>>
    ELSE panned = Zero /\ origin = down_at

LEMMA PanInit == Init => PanIsWay
BY DEF Init, PanIsWay

LEMMA PanStep == TypeOK /\ PanIsWay /\ [Next]_vars => PanIsWay'
<1>. SUFFICES ASSUME TypeOK, PanIsWay, [Next]_vars PROVE PanIsWay'
  OBVIOUS
<1>. DEFINE c == calls[1]
<1>0. Zero = <<0, 0>> /\ Zero \in Int \X Int /\ Points \in SUBSET (Int \X Int)
  BY TouchAssumption DEF Zero
<1>1. /\ last_at \in Int \X Int /\ down_at \in Int \X Int /\ origin \in Int \X Int
      /\ panned \in Int \X Int
      /\ \A i \in 1..2 : /\ last_at[i] \in Int /\ down_at[i] \in Int
                         /\ origin[i] \in Int /\ panned[i] \in Int
  BY <1>0, TypeParts DEF GestureType, HistoryType
<1>2. CASE Down
  BY <1>2 DEF Down, PanIsWay
<1>3. CASE Up
  BY <1>3 DEF Up, PanIsWay
<1>4. CASE DragBegins
  <2>1. /\ UNCHANGED <<active_id, selection_drag, capped, panned>>
        /\ ~moved /\ moved' = TRUE /\ last_at' = c.at /\ origin' = c.at
    BY <1>4 DEF DragBegins
  <2>2. c.at \in Int \X Int
    BY <1>0, <1>4, HandlerType DEF DragBegins
  <2>3. \A i \in 1..2 : 3 * (c.at[i] - c.at[i]) = 0
    <3>1. c.at[1] \in Int /\ c.at[2] \in Int
      BY <2>2
    <3>. QED
      BY <3>1
  <2>. QED
    BY <1>0, <2>1, <2>3 DEF PanIsWay
<1>5. CASE Pan
  <2>. DEFINE way == Way(c)
              gained == <<3 * way[1], 3 * way[2]>>
              pan == IF selection_drag THEN <<2 * way[1], 2 * way[2]>>
                     ELSE <<Clamp(gained[1]), Clamp(gained[2])>>
  <2>1. /\ moved' = TRUE /\ last_at' = c.at
        /\ panned' = <<panned[1] + pan[1], panned[2] + pan[2]>>
        /\ capped' = (capped \/ pan # gained)
        /\ UNCHANGED <<active_id, selection_drag, origin>>
    BY <1>5 DEF Pan
  <2>2. c.at \in Int \X Int
    BY <1>0, <1>5, HandlerType DEF Pan
  <2>3. c.at[1] \in Int /\ c.at[2] \in Int
    BY <2>2
  <2>. SUFFICES ASSUME active_id # -1, ~selection_drag, ~capped, pan = gained
                PROVE  panned' = <<3 * (c.at[1] - origin[1]), 3 * (c.at[2] - origin[2])>>
    <3>. HIDE DEF pan, gained
    <3>. QED
      BY <2>1 DEF PanIsWay
  <2>4. CASE moved
    <3>1. way = <<c.at[1] - last_at[1], c.at[2] - last_at[2]>>
      BY <2>4 DEF Way, Minus
    <3>2. panned = <<3 * (last_at[1] - origin[1]), 3 * (last_at[2] - origin[2])>>
      BY <2>4 DEF PanIsWay
    <3>3. panned' = <<panned[1] + 3 * way[1], panned[2] + 3 * way[2]>>
      BY <2>1
    <3>4. /\ panned[1] + 3 * way[1] = 3 * (c.at[1] - origin[1])
          /\ panned[2] + 3 * way[2] = 3 * (c.at[2] - origin[2])
      BY <1>1, <2>3, <3>1, <3>2
    <3>. QED
      BY <3>3, <3>4
  <2>5. CASE ~moved
    <3>1. way = <<c.at[1] - down_at[1], c.at[2] - down_at[2]>>
      BY <2>5 DEF Way, Minus
    <3>2. panned = <<0, 0>> /\ origin = down_at
      BY <1>0, <2>5 DEF PanIsWay
    <3>3. panned' = <<panned[1] + 3 * way[1], panned[2] + 3 * way[2]>>
      BY <2>1
    <3>4. /\ panned[1] + 3 * way[1] = 3 * (c.at[1] - origin[1])
          /\ panned[2] + 3 * way[2] = 3 * (c.at[2] - origin[2])
      BY <1>1, <2>3, <3>1, <3>2
    <3>. QED
      BY <3>3, <3>4
  <2>. QED
    BY <2>4, <2>5
<1>6. CASE Poll \/ MoveOnly \/ Rest \/ SetSelectionEnabled \/ UNCHANGED vars
  <2>1. UNCHANGED <<gesture, panned, origin, capped>>
    BY <1>6 DEF Poll, MoveOnly, Rest, SetSelectionEnabled, vars, history
  <2>. QED
    BY <2>1 DEF PanIsWay, gesture
<1>. QED
  BY <1>2, <1>3, <1>4, <1>5, <1>6 DEF Next

\* In every behaviour, with any fingers and whenever the engine switches
\* selection on or off, the pans of a drag that is not cut add up to the way of
\* the finger since the drag began: onNativePan is never sent the same way twice.
THEOREM TouchPanFollowsFinger == Spec => []PanFollowsFinger
<1>1. PanIsWay => PanFollowsFinger
  BY DEF PanIsWay, PanFollowsFinger
<1>. QED
  BY <1>1, PanInit, PanStep, TouchTypeOK, PTL DEF Spec

------------------------------------------------------------------------------
(* One finger at a time: taps and the selection button.                    *)

\* The contact the game knows, the one on the panel and the one the calls are
\* about are the same.
OneContact ==
  \A x, y \in DownIds \cup IdsOf(touch_old) \cup IdsOf(calls) : x = y

\* That contact is the active one: the handler knows where it went down and
\* whether it strayed.
ActiveIsDown ==
  /\ \A f \in down : f.id = active_id /\ f.at = down_at /\ f.strayed = moved
  /\ active_id # -1 => active_id \in DownIds

\* A short press on the button arms it for the next contact, for that one only.
Armed ==
  /\ selection_drag /\ active_id # -1 => pressed
  /\ armed => pressed /\ active_id = -1


FingerInv == OneContact /\ ActiveIsDown /\ Armed
LoneInv == alone => FingerInv

LEMMA FingerInit == Init => FingerInv
<1>. SUFFICES ASSUME Init PROVE FingerInv
  OBVIOUS
<1>1. DownIds = {} /\ IdsOf(touch_old) = {} /\ IdsOf(calls) = {} /\ down = {}
  BY DEF Init, DownIds, IdsOf
<1>. QED
  BY <1>1 DEF FingerInv, OneContact, ActiveIsDown, Armed, Init

\* The ids of some calls are those of their places.
LEMMA CallIds ==
  ASSUME NEW c \in Seq(CallType)
  PROVE  /\ IdsOf(c) = {c[i].id : i \in 1..Len(c)}
         /\ c # <<>> => c[1].id \in IdsOf(c) /\ IdsOf(Tail(c)) \in SUBSET IdsOf(c)
<1>1. \A s \in Seq(CallType) : IdsOf(s) = {s[i].id : i \in 1..Len(s)}
  BY DEF IdsOf
<1>2. ASSUME c # <<>> PROVE c[1].id \in IdsOf(c) /\ IdsOf(Tail(c)) \in SUBSET IdsOf(c)
  <2>1. /\ 1 \in 1..Len(c) /\ Tail(c) \in Seq(CallType)
        /\ \A i \in 1..Len(Tail(c)) : i + 1 \in 1..Len(c) /\ Tail(c)[i] = c[i + 1]
    BY <1>2, FirstCall
  <2>2. IdsOf(Tail(c)) = {Tail(c)[i].id : i \in 1..Len(Tail(c))}
    BY <1>1, <2>1
  <2>. QED
    BY <1>1, <2>1, <2>2
<1>. QED
  BY <1>1, <1>2

\* A reading never brings a second contact into play.
LEMMA OneContactPoll ==
  ASSUME TypeOK, PanelIsTold, OneContact, Poll, Lone(touch_old, touch_old')
  PROVE  OneContact'
<1>1. calls = <<>> /\ DownIds' = DownIds
  BY DEF Poll, history, DownIds
<1>2. DownIds = IdsOf(touch_old)
  BY <1>1, NothingToTell DEF PanelIsTold
<1>3. PICK new \in Readings : /\ Len(new) =< 1
                              /\ touch_old # <<>> => IdsOf(new) \subseteq IdsOf(touch_old)
                              /\ calls' = CallsFor(touch_old, new)
                              /\ touch_old' = new
  BY DEF Poll, Lone
<1>4. touch_old \in Readings
  BY TypeParts DEF PanelType
<1>5. calls' \in Seq(CallType) /\ Tells(calls', IdsOf(touch_old), IdsOf(new))
  BY <1>3, <1>4, CallsTell
<1>6. IdsOf(calls') \in SUBSET (IdsOf(touch_old) \cup IdsOf(new))
  <2>1. IdsOf(calls') = {calls'[i].id : i \in 1..Len(calls')}
    BY <1>5, CallIds
  <2>2. \A i \in 1..Len(calls') : calls'[i].action \in {"DOWN", "MOVE", "UP"}
    <3>1. \A i \in 1..Len(calls') : calls'[i] \in CallType
      BY <1>5, ElementOfSeq
    <3>. QED
      BY <3>1 DEF CallType
  <2>3. \A i \in 1..Len(calls') : calls'[i].id \in IdsOf(touch_old) \cup IdsOf(new)
    BY <1>5, <2>2 DEF Tells
  <2>. QED
    BY <2>1, <2>3
<1>7. \A x, y \in IdsOf(new) : x = y
  <2>1. /\ DOMAIN new = 1..Len(new) /\ Len(new) \in 0..1
    <3>1. new \in Readings /\ Len(new) =< 1
      BY <1>3
    <3>2. DOMAIN new = 1..Len(new) /\ Len(new) \in 0..MaxFingers
      BY <3>1, ReadingType
    <3>. QED
      BY <3>1, <3>2
  <2>2. \A i, j \in DOMAIN new : i = j
    BY <2>1
  <2>. QED
    BY <2>2 DEF IdsOf
<1>8. \A x, y \in IdsOf(touch_old) \cup IdsOf(new) : x = y
  <2>1. CASE touch_old = <<>>
    <3>1. IdsOf(touch_old) = {}
      BY <2>1 DEF IdsOf
    <3>. QED
      BY <1>7, <3>1
  <2>2. CASE touch_old # <<>>
    BY <1>3, <2>2 DEF OneContact
  <2>. QED
    BY <2>1, <2>2
<1>. QED
  BY <1>1, <1>2, <1>3, <1>6, <1>8 DEF OneContact

LEMMA FingerStep ==
  ASSUME TypeOK, PanelIsTold, FingerInv, alone', [Next]_vars
  PROVE  /\ FingerInv'
         /\ \A f \in down : f.id \notin DownIds' => (sent'.tap <=> ~f.strayed)
<1>. DEFINE c == calls[1]
            Taps == \A f \in down : f.id \notin DownIds' => (sent'.tap <=> ~f.strayed)
<1>0. /\ OneContact /\ ActiveIsDown /\ Armed
      /\ calls \in Seq(CallType) /\ PanelType /\ GestureType /\ HistoryType
  BY TypeParts DEF FingerInv, PanelType
<1>1. ASSUME NEW action, HandlerCall(action)
      PROVE  /\ calls # <<>> /\ c.action = action /\ calls' = Tail(calls)
             /\ IdsOf(touch_old)' = IdsOf(touch_old)
             /\ c.id \in IdsOf(calls) /\ IdsOf(calls') \in SUBSET IdsOf(calls)
             /\ c.id \in Ids /\ c.id # -1
             /\ action = "DOWN" => c.id \notin DownIds
             /\ action \in {"MOVE", "UP"} => c.id \in DownIds
  <2>1. calls # <<>> /\ c.action = action /\ calls' = Tail(calls) /\ touch_old' = touch_old
    BY <1>1 DEF HandlerCall
  <2>2. c.id \in Ids
    BY <1>1, HandlerType
  <2>3. c.id \in IdsOf(calls) /\ IdsOf(calls') \in SUBSET IdsOf(calls)
    BY <1>0, <2>1, CallIds
  <2>4. /\ action = "DOWN" => c.id \notin DownIds
        /\ action \in {"MOVE", "UP"} => c.id \in DownIds
    BY <1>0, <2>1, RestTells DEF PanelIsTold
  <2>5. c.id # -1 /\ IdsOf(touch_old)' = IdsOf(touch_old)
    BY <2>1, <2>2, TouchAssumption DEF IdsOf
  <2>. QED
    BY <2>1, <2>2, <2>3, <2>4, <2>5
<1>2. \A f \in down : f.id \in DownIds
  BY DEF DownIds
<1>3. CASE Poll
  <2>1. UNCHANGED <<gesture, history>>
    BY <1>3 DEF Poll
  <2>2. ActiveIsDown' /\ Armed' /\ Taps
    BY <1>0, <1>2, <2>1 DEF gesture, history, ActiveIsDown, Armed, DownIds
  <2>3. Lone(touch_old, touch_old')
    BY <1>3 DEF Poll
  <2>. QED
    BY <1>0, <1>3, <2>2, <2>3, OneContactPoll DEF FingerInv
<1>4. CASE Down
  <2>1. HandlerCall("DOWN")
    BY <1>4 DEF Down
  <2>2. c.id \notin DownIds /\ DownIds' = DownIds \cup {c.id} /\ c.id \in IdsOf(calls)
    BY <1>1, <1>4, <2>1, KnownContacts
  <2>3. down = {}
    BY <1>0, <1>2, <2>2 DEF OneContact
  <2>4. OneContact'
    BY <1>0, <1>1, <2>1, <2>2 DEF OneContact
  <2>5. ActiveIsDown'
    <3>. DEFINE g == [id |-> c.id, at |-> c.at, strayed |-> FALSE]
    <3>1. down' = {g} /\ g.id = c.id /\ g.at = c.at /\ g.strayed = FALSE
      BY <1>4, <2>3 DEF Down
    <3>2. active_id' = c.id /\ down_at' = c.at /\ moved' = FALSE
      BY <1>4 DEF Down
    <3>. HIDE DEF g
    <3>. QED
      BY <2>2, <3>1, <3>2 DEF ActiveIsDown
  <2>6. Armed'
    BY <1>0, <1>4 DEF Down, Armed
  <2>. QED
    BY <2>3, <2>4, <2>5, <2>6 DEF FingerInv
<1>5. CASE Up
  <2>1. HandlerCall("UP")
    BY <1>5 DEF Up
  <2>2. c.id \in DownIds /\ DownIds' = DownIds \ {c.id} /\ c.id \in IdsOf(calls) /\ c.id # -1
    BY <1>1, <1>5, <2>1, KnownContacts
  <2>3. \A f \in down : f.id = c.id
    BY <1>0, <1>2, <2>2 DEF OneContact
  <2>4. OneContact'
    BY <1>0, <1>1, <2>1, <2>2 DEF OneContact
  <2>5. active_id = c.id
    BY <1>0, <2>2 DEF ActiveIsDown, DownIds
  <2>6. down' = {} /\ active_id' = -1
    BY <1>5, <2>3, <2>5 DEF Up
  <2>7. ActiveIsDown'
    BY <2>6 DEF ActiveIsDown
  <2>8. ~armed
    BY <1>0, <2>2, <2>5 DEF Armed
  <2>9. Armed'
    BY <1>5, <2>6, <2>8 DEF Up, Armed, Arms
  <2>10. Taps
    <3>1. sent'.tap = ~moved
      BY <1>5 DEF Up
    <3>. QED
      BY <1>0, <3>1 DEF ActiveIsDown
  <2>. QED
    BY <2>4, <2>7, <2>9, <2>10 DEF FingerInv
<1>6. ASSUME MoveOnly \/ DragBegins \/ Pan \/ Rest
      PROVE  /\ HandlerCall("MOVE") /\ Stray(c) /\ DownIds' = DownIds
             /\ UNCHANGED <<active_id, down_at, armed, selection_drag, pressed>>
             /\ active_id = c.id /\ OneContact'
             /\ \A f \in down : f.id = c.id /\ f.at = down_at /\ f.strayed = moved
             /\ \A f \in down : Seen(f, c).strayed = (moved \/ Far(c.at, down_at))
             /\ \A f \in down : Seen(f, c).id = c.id /\ Seen(f, c).at = down_at
  <2>1. /\ HandlerCall("MOVE") /\ Stray(c) /\ DownIds' = DownIds
        /\ UNCHANGED <<active_id, down_at, armed, selection_drag, pressed>>
    BY <1>6, KnownContacts DEF MoveOnly, DragBegins, Pan, Rest, gesture
  <2>2. c.id \in DownIds /\ c.id \in IdsOf(calls)
    BY <1>1, <2>1
  <2>3. \A f \in down : f.id = c.id /\ f.id = active_id /\ f.at = down_at /\ f.strayed = moved
    BY <1>0, <1>2, <2>2 DEF OneContact, ActiveIsDown
  <2>4. active_id = c.id
    BY <2>2, <2>3 DEF DownIds
  <2>5. OneContact'
    BY <1>0, <1>1, <2>1 DEF OneContact
  <2>6. ASSUME NEW f \in down
        PROVE  /\ Seen(f, c).strayed = (moved \/ Far(c.at, down_at))
               /\ Seen(f, c).id = c.id /\ Seen(f, c).at = down_at
    <3>1. f \in KnownType /\ moved \in BOOLEAN
      BY <1>0 DEF HistoryType, GestureType
    <3>2. Distance2(c.at, f.at) >= Slop * Slop <=> Far(c.at, down_at)
      BY <2>3 DEF Distance2, Far, Minus
    <3>. QED
      BY <2>3, <3>1, <3>2 DEF Seen, KnownType
  <2>. QED
    BY <2>1, <2>3, <2>4, <2>5, <2>6
<1>7. ASSUME MoveOnly \/ DragBegins \/ Pan \/ Rest,
             moved' = (moved \/ Far(c.at, down_at))
      PROVE  FingerInv' /\ Taps
  <2>1. ActiveIsDown'
    BY <1>0, <1>6, <1>7 DEF ActiveIsDown, Stray
  <2>2. Armed'
    BY <1>0, <1>6, <1>7 DEF Armed
  <2>3. Taps
    BY <1>2, <1>6, <1>7
  <2>. QED
    BY <1>6, <1>7, <2>1, <2>2, <2>3 DEF FingerInv
<1>8. Far(c.at, down_at) \in BOOLEAN /\ moved \in BOOLEAN
  BY <1>0 DEF Far, GestureType
<1>9. CASE MoveOnly
  BY <1>6, <1>7, <1>8, <1>9 DEF MoveOnly, gesture
<1>10. CASE DragBegins
  BY <1>6, <1>7, <1>8, <1>10 DEF DragBegins
<1>11. CASE Pan
  BY <1>6, <1>7, <1>8, <1>11 DEF Pan
<1>12. CASE Rest
  BY <1>6, <1>7, <1>8, <1>12 DEF Rest, gesture
<1>13. CASE SetSelectionEnabled \/ UNCHANGED vars
  <2>1. UNCHANGED <<touch_old, calls, gesture, history>>
    BY <1>13 DEF SetSelectionEnabled, vars, panel
  <2>. QED
    BY <1>0, <1>2, <2>1
    DEF FingerInv, OneContact, ActiveIsDown, Armed, DownIds, IdsOf, gesture, history
<1>. QED
  BY <1>3, <1>4, <1>5, <1>9, <1>10, <1>11, <1>12, <1>13 DEF Next

\* A gesture that is not alone any more stays so.
LEMMA LoneStep ==
  ASSUME TypeOK, PanelIsTold, LoneInv, [Next]_vars
  PROVE  /\ LoneInv'
         /\ alone' => \A f \in down : f.id \notin DownIds' => (sent'.tap <=> ~f.strayed)
<1>1. alone' => alone
  <2>1. CASE Poll
    BY <2>1 DEF Poll
  <2>2. CASE ~Poll
    BY <2>2 DEF Next, Down, Up, MoveOnly, DragBegins, Pan, Rest, HandlerCall,
              SetSelectionEnabled, vars, panel
  <2>. QED
    BY <2>1, <2>2
<1>. QED
  BY <1>1, FingerStep DEF LoneInv

LEMMA LoneInit == Init => LoneInv
BY FingerInit DEF LoneInv

\* As long as fingers come one after the other, a selection drag is the first
\* after a short press on the selection button, and the button is never armed
\* while the finger is down.
THEOREM TouchSelectionIsArmedOnce == Spec => []SelectionIsArmedOnce
<1>1. TypeOK /\ PanelIsTold /\ LoneInv /\ [Next]_vars => LoneInv'
  BY LoneStep
<1>2. TypeOK /\ PanelIsTold /\ [Next]_vars => PanelIsTold'
  BY ToldStep
<1>3. LoneInv => SelectionIsArmedOnce
  BY DEF LoneInv, FingerInv, Armed, SelectionIsArmedOnce
<1>. QED
  BY <1>1, <1>2, <1>3, LoneInit, ToldInit, TouchTypeOK, PTL DEF Spec

\* As long as fingers come one after the other, onNativeTap follows exactly the
\* contacts that stayed within the slop: a drag is never reported as a tap and a
\* short press never missed.
THEOREM TouchLoneTapIsShortPress == Spec => LoneTapIsShortPress
<1>1. TypeOK /\ PanelIsTold /\ LoneInv /\ [Next]_vars => LoneInv'
  BY LoneStep
<1>2. TypeOK /\ PanelIsTold /\ [Next]_vars => PanelIsTold'
  BY ToldStep
<1>3. TypeOK /\ PanelIsTold /\ LoneInv /\ [Next]_vars =>
        [alone => \A f \in down : f.id \notin DownIds' => (sent'.tap <=> ~f.strayed)]_vars
  <2>. SUFFICES ASSUME TypeOK, PanelIsTold, LoneInv, Next, alone
                PROVE  \A f \in down : f.id \notin DownIds' => (sent'.tap <=> ~f.strayed)
    OBVIOUS
  <2>1. CASE Poll
    <3>1. down' = down
      BY <2>1 DEF Poll, history
    <3>. QED
      BY <3>1 DEF DownIds
  <2>2. CASE ~Poll
    <3>1. alone'
      BY <2>2 DEF Next, Down, Up, MoveOnly, DragBegins, Pan, Rest, HandlerCall,
                SetSelectionEnabled, panel
    <3>. QED
      BY <3>1, LoneStep
  <2>. QED
    BY <2>1, <2>2
<1>. QED
  BY <1>1, <1>2, <1>3, LoneInit, ToldInit, TouchTypeOK, PTL DEF Spec, LoneTapIsShortPress
================================================================================

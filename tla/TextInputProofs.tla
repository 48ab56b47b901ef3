------------------------- MODULE TextInputProofs -------------------------
(***************************************************************************)
(* What TextInput guarantees for every choice of its constants.            *)
(***************************************************************************)
EXTENDS TextInput, TLAPS

USE TextAssumption, TextInputAssumption

-----------------------------------------------------------------------------
(* strncpy keeps a text a text, and never empties one.                     *)

\* The first k bytes of a text are a text; of no text, no text.
LEMMA CutType ==
    ASSUME NEW t \in MaybeText, NEW k \in Nat \ {0}
    PROVE  /\ Cut(t, k) \in MaybeText
           /\ t # Empty => Cut(t, k) # Empty
  BY DEF MaybeText, Text, Empty, Cut

\* The empty text is one of the texts the buffers hold.
LEMMA EmptyType == Empty \in MaybeText
  BY DEF MaybeText

\* What the keyboard returns is a text or nothing.
LEMMA TypedType == Typed \subseteq MaybeText
  BY DEF Typed, MaybeText, Text

-----------------------------------------------------------------------------
(* Type correctness.                                                       *)

\* Every variable keeps its type in every behaviour.
THEOREM TypeCorrect == Spec => []TypeOK
  <1>1. Init => TypeOK
    <2> SUFFICES ASSUME Init PROVE TypeOK
      OBVIOUS
    <2>1. /\ ime_active \in BOOLEAN /\ requested \in BOOLEAN
          /\ busy \in BOOLEAN /\ ready \in BOOLEAN
      BY Zenon DEF Init
    <2>2. QED
      BY <2>1, EmptyType DEF Init, TypeOK, NoDialog, Clicks
  <1>2. TypeOK /\ [Next]_vars => TypeOK'
    <2> SUFFICES ASSUME TypeOK, [Next]_vars
                 PROVE  TypeOK'
      OBVIOUS
    <2> USE DEF TypeOK, mainVars, flagVars, nameVars, luaVars, engineVars
    <2>1. ASSUME CheckBootstrap PROVE TypeOK'
      BY <2>1 DEF CheckBootstrap
    <2>2. ASSUME TakeRequest PROVE TypeOK'
      <3>1. requested' \in BOOLEAN
        BY <2>2, Zenon DEF TakeRequest
      <3>2. QED
        BY <2>2, <3>1 DEF TakeRequest
    <2>3. ASSUME NoRequest PROVE TypeOK'
      BY <2>3 DEF NoRequest
    <2>4. ASSUME MarkBusy PROVE TypeOK'
      BY <2>4 DEF MarkBusy
    <2>5. ASSUME OpenKeyboard PROVE TypeOK'
      BY <2>5, EmptyType DEF OpenKeyboard
    <2>6. ASSUME OpenFails PROVE TypeOK'
      <3>1. busy' \in BOOLEAN
        BY <2>6, Zenon DEF OpenFails, FinishTextInput
      <3>2. QED
        BY <2>6, <3>1 DEF OpenFails, FinishTextInput
    <2>7. ASSUME AwaitKeyboard PROVE TypeOK'
      BY <2>7 DEF AwaitKeyboard
    <2>8. ASSUME ReadText PROVE TypeOK'
      <3>1. ime_active' \in BOOLEAN
        BY <2>8, Zenon DEF ReadText
      <3>2. pending' \in MaybeText
        BY <2>8, CutType DEF ReadText
      <3>3. QED
        BY <2>8, <3>1, <3>2, EmptyType DEF ReadText, NoDialog
    <2>9. ASSUME ReadNothing PROVE TypeOK'
      <3>1. ime_active' \in BOOLEAN /\ busy' \in BOOLEAN
        BY <2>9, Zenon DEF ReadNothing, FinishTextInput
      <3>2. QED
        BY <2>9, <3>1, EmptyType DEF ReadNothing, FinishTextInput, NoDialog
    <2>10. ASSUME CountDown PROVE TypeOK'
      BY <2>10 DEF CountDown, Due
    <2>11. ASSUME Refocus PROVE TypeOK'
      BY <2>11 DEF Refocus, Clicks
    <2>12. ASSUME Commit PROVE TypeOK'
      BY <2>12 DEF Commit
    <2>13. ASSUME Fill PROVE TypeOK'
      BY <2>13, CutType DEF Fill, StoredName
    <2>14. ASSUME Publish PROVE TypeOK'
      BY <2>14 DEF Publish
    <2>15. ASSUME Finish PROVE TypeOK'
      <3>1. busy' \in BOOLEAN
        BY <2>15, Zenon DEF Finish, FinishTextInput
      <3>2. QED
        BY <2>15, <3>1, EmptyType DEF Finish, FinishTextInput
    <2>16. ASSUME PollControls PROVE TypeOK'
      BY <2>16 DEF PollControls, Clicks
    <2>17. ASSUME Fatal PROVE TypeOK'
      BY <2>17 DEF Fatal
    <2>18. ASSUME FatalExit PROVE TypeOK'
      BY <2>18 DEF FatalExit
    <2>19. ASSUME FatalSpin PROVE TypeOK'
      BY <2>19 DEF FatalSpin, vars
    <2>20. ASSUME EnterNativeInit PROVE TypeOK'
      BY <2>20 DEF EnterNativeInit
    <2>21. ASSUME HandleClick PROVE TypeOK'
      BY <2>21 DEF HandleClick, Clicks
    <2>22. ASSUME ReadBusy PROVE TypeOK'
      BY <2>22 DEF ReadBusy
    <2>23. ASSUME RaiseRequest PROVE TypeOK'
      BY <2>23 DEF RaiseRequest
    <2>24. ASSUME LuaCall PROVE TypeOK'
      BY <2>24 DEF LuaCall, Injecting
    <2>25. ASSUME CopyName PROVE TypeOK'
      BY <2>25 DEF CopyName, Injecting
    <2>26. ASSUME AssignName PROVE TypeOK'
      BY <2>26 DEF AssignName, Injecting, CopiedText
    <2>27. ASSUME ClearReady PROVE TypeOK'
      <3>1. ready' \in BOOLEAN
        BY <2>27, Zenon DEF ClearReady
      <3>2. QED
        BY <2>27, <3>1 DEF ClearReady
    <2>28. ASSUME NativeInitReturns PROVE TypeOK'
      BY <2>28 DEF NativeInitReturns
    <2>29. ASSUME CloseKeyboard PROVE TypeOK'
      BY <2>29, TypedType DEF CloseKeyboard
    <2>30. ASSUME CloseMessage PROVE TypeOK'
      BY <2>30 DEF CloseMessage
    <2>31. ASSUME UNCHANGED vars PROVE TypeOK'
      BY <2>31 DEF vars
    <2>32. QED
      BY <2>1, <2>2, <2>3, <2>4, <2>5, <2>6, <2>7, <2>8, <2>9,
         <2>10, <2>11, <2>12, <2>13, <2>14, <2>15, <2>16, <2>17, <2>18,
         <2>19, <2>20, <2>21, <2>22, <2>23, <2>24, <2>25, <2>26, <2>27,
         <2>28, <2>29, <2>30, <2>31
      DEF Next, Main, Engine, Player
  <1>3. QED
    BY <1>1, <1>2, PTL DEF Spec

-----------------------------------------------------------------------------
(* Sessions.  The main thread's place and locals decide busy, whatever the *)
(* engine and the player do.                                               *)

\* LoopInv is inductive.
LEMMA LoopInductive == TypeOK /\ LoopInv /\ [Next]_vars => LoopInv'
  <1> SUFFICES ASSUME TypeOK, LoopInv, [Next]_vars
               PROVE  LoopInv'
    OBVIOUS
  <1> USE DEF TypeOK, LoopInv, SessionOwnsBusy, DeliveryHasText, Stopped,
              mainVars, flagVars, nameVars, luaVars, engineVars
  <1>1. ASSUME CheckBootstrap PROVE LoopInv'
    BY <1>1 DEF CheckBootstrap
  <1>2. ASSUME TakeRequest PROVE LoopInv'
    BY <1>2 DEF TakeRequest
  <1>3. ASSUME NoRequest PROVE LoopInv'
    BY <1>3 DEF NoRequest
  <1>4. ASSUME MarkBusy PROVE LoopInv'
    BY <1>4 DEF MarkBusy
  <1>5. ASSUME OpenKeyboard PROVE LoopInv'
    BY <1>5 DEF OpenKeyboard
  <1>6. ASSUME OpenFails PROVE LoopInv'
    BY <1>6 DEF OpenFails, FinishTextInput
  <1>7. ASSUME AwaitKeyboard PROVE LoopInv'
    BY <1>7 DEF AwaitKeyboard
  <1>8. ASSUME ReadText PROVE LoopInv'
    BY <1>8, CutType DEF ReadText, NoDialog
  <1>9. ASSUME ReadNothing PROVE LoopInv'
    BY <1>9 DEF ReadNothing, FinishTextInput, NoDialog
  <1>10. ASSUME CountDown PROVE LoopInv'
    BY <1>10 DEF CountDown, Due
  <1>11. ASSUME Refocus PROVE LoopInv'
    BY <1>11 DEF Refocus
  <1>12. ASSUME Commit PROVE LoopInv'
    BY <1>12 DEF Commit
  <1>13. ASSUME Fill PROVE LoopInv'
    BY <1>13 DEF Fill
  <1>14. ASSUME Publish PROVE LoopInv'
    BY <1>14 DEF Publish
  <1>15. ASSUME Finish PROVE LoopInv'
    BY <1>15 DEF Finish, FinishTextInput
  <1>16. ASSUME PollControls PROVE LoopInv'
    BY <1>16 DEF PollControls
  <1>17. ASSUME Fatal PROVE LoopInv'
    BY <1>17 DEF Fatal
  <1>18. ASSUME FatalExit PROVE LoopInv'
    BY <1>18 DEF FatalExit
  <1>19. ASSUME FatalSpin PROVE LoopInv'
    BY <1>19 DEF FatalSpin, vars
  <1>20. ASSUME EnterNativeInit PROVE LoopInv'
    BY <1>20 DEF EnterNativeInit
  <1>21. ASSUME HandleClick PROVE LoopInv'
    BY <1>21 DEF HandleClick
  <1>22. ASSUME ReadBusy PROVE LoopInv'
    BY <1>22 DEF ReadBusy
  <1>23. ASSUME RaiseRequest PROVE LoopInv'
    BY <1>23 DEF RaiseRequest
  <1>24. ASSUME LuaCall PROVE LoopInv'
    BY <1>24 DEF LuaCall
  <1>25. ASSUME CopyName PROVE LoopInv'
    BY <1>25 DEF CopyName
  <1>26. ASSUME AssignName PROVE LoopInv'
    BY <1>26 DEF AssignName
  <1>27. ASSUME ClearReady PROVE LoopInv'
    BY <1>27 DEF ClearReady
  <1>28. ASSUME NativeInitReturns PROVE LoopInv'
    BY <1>28 DEF NativeInitReturns
  <1>29. ASSUME CloseKeyboard PROVE LoopInv'
    BY <1>29 DEF CloseKeyboard
  <1>30. ASSUME CloseMessage PROVE LoopInv'
    BY <1>30 DEF CloseMessage
  <1>31. ASSUME UNCHANGED vars PROVE LoopInv'
    BY <1>31 DEF vars
  <1>32. QED
    BY <1>1, <1>2, <1>3, <1>4, <1>5, <1>6, <1>7, <1>8, <1>9,
         <1>10, <1>11, <1>12, <1>13, <1>14, <1>15, <1>16, <1>17, <1>18,
         <1>19, <1>20, <1>21, <1>22, <1>23, <1>24, <1>25, <1>26, <1>27,
         <1>28, <1>29, <1>30, <1>31
    DEF Next, Main, Engine, Player

\* text_input_busy is set exactly while a session runs, and the delivery has a
\* text, with threads of any speed and delays of any length.
THEOREM SessionSafe == Spec => [](SessionOwnsBusy /\ DeliveryHasText)
  <1>1. Init => LoopInv
    BY DEF Init, LoopInv, SessionOwnsBusy, DeliveryHasText, Stopped, NoDialog
  <1>2. LoopInv => SessionOwnsBusy /\ DeliveryHasText
    BY DEF LoopInv
  <1>3. QED
    BY <1>1, <1>2, TypeCorrect, LoopInductive, PTL DEF Spec

-----------------------------------------------------------------------------
(* The name buffer, when the player is slower than the engine.             *)

\* BufferInv is inductive: the keyboard closes only once ready is cleared, so
\* that the main thread never writes what the engine may be copying.
LEMMA BufferInductive ==
    ASSUME SlowPlayer, TypeOK, LoopInv, BufferInv, [Next]_vars
    PROVE  BufferInv'
  <1> USE DEF TypeOK, BufferInv, BufferHasOneOwner, Injecting,
              mainVars, flagVars, nameVars, luaVars, engineVars
  <1>a. phase # 0 <=> pending # Empty
    BY DEF LoopInv, DeliveryHasText
  <1>b. m \in {"fill", "fill2", "publish", "finish"} => phase = 2
    BY DEF LoopInv
  <1>c. ime_active <=> dialog.status # "none"
    BY DEF LoopInv, DeliveryHasText
  <1>e. ~(ime_active /\ phase # 0)
    BY DEF LoopInv, DeliveryHasText
  <1>d. pending # Empty =>
          Cut(pending, NameRoom) # Empty /\ Cut(pending, NameRoom) \in MaybeText
    BY CutType
  <1>1. ASSUME CheckBootstrap PROVE BufferInv'
    BY <1>1 DEF CheckBootstrap
  <1>2. ASSUME TakeRequest PROVE BufferInv'
    BY <1>2 DEF TakeRequest
  <1>3. ASSUME NoRequest PROVE BufferInv'
    BY <1>3 DEF NoRequest
  <1>4. ASSUME MarkBusy PROVE BufferInv'
    BY <1>4 DEF MarkBusy
  <1>5. ASSUME OpenKeyboard PROVE BufferInv'
    BY <1>5, <1>c DEF OpenKeyboard
  <1>6. ASSUME OpenFails PROVE BufferInv'
    BY <1>6 DEF OpenFails, FinishTextInput
  <1>7. ASSUME AwaitKeyboard PROVE BufferInv'
    BY <1>7 DEF AwaitKeyboard
  <1>8. ASSUME ReadText PROVE BufferInv'
    BY <1>8 DEF ReadText, NoDialog
  <1>9. ASSUME ReadNothing PROVE BufferInv'
    BY <1>9 DEF ReadNothing, FinishTextInput, NoDialog
  <1>10. ASSUME CountDown PROVE BufferInv'
    BY <1>10 DEF CountDown, Due
  <1>11. ASSUME Refocus PROVE BufferInv'
    BY <1>11 DEF Refocus
  <1>12. ASSUME Commit PROVE BufferInv'
    BY <1>12 DEF Commit
  <1>13. ASSUME Fill PROVE BufferInv'
    BY <1>13, <1>a, <1>b, <1>d DEF Fill, StoredName
  <1>14. ASSUME Publish PROVE BufferInv'
    BY <1>14, <1>a, <1>b, <1>c, <1>d, <1>e DEF Publish
  <1>15. ASSUME Finish PROVE BufferInv'
    BY <1>15, <1>b DEF Finish, FinishTextInput
  <1>16. ASSUME PollControls PROVE BufferInv'
    BY <1>16 DEF PollControls
  <1>17. ASSUME Fatal PROVE BufferInv'
    BY <1>17 DEF Fatal
  <1>18. ASSUME FatalExit PROVE BufferInv'
    BY <1>18 DEF FatalExit
  <1>19. ASSUME FatalSpin PROVE BufferInv'
    BY <1>19 DEF FatalSpin, vars
  <1>20. ASSUME EnterNativeInit PROVE BufferInv'
    BY <1>20 DEF EnterNativeInit
  <1>21. ASSUME HandleClick PROVE BufferInv'
    BY <1>21 DEF HandleClick
  <1>22. ASSUME ReadBusy PROVE BufferInv'
    BY <1>22 DEF ReadBusy
  <1>23. ASSUME RaiseRequest PROVE BufferInv'
    BY <1>23 DEF RaiseRequest
  <1>24. ASSUME LuaCall PROVE BufferInv'
    BY <1>24 DEF LuaCall
  <1>25. ASSUME CopyName PROVE BufferInv'
    BY <1>25 DEF CopyName
  <1>26. ASSUME AssignName PROVE BufferInv'
    BY <1>26 DEF AssignName, CopiedText
  <1>27. ASSUME ClearReady PROVE BufferInv'
    BY <1>27 DEF ClearReady
  <1>28. ASSUME NativeInitReturns PROVE BufferInv'
    BY <1>28 DEF NativeInitReturns
  <1>29. ASSUME CloseKeyboard PROVE BufferInv'
    BY <1>29, <1>a, <1>c DEF CloseKeyboard
  <1>30. ASSUME CloseMessage PROVE BufferInv'
    BY <1>30 DEF CloseMessage
  <1>31. ASSUME UNCHANGED vars PROVE BufferInv'
    BY <1>31 DEF vars
  <1>32. QED
    BY <1>1, <1>2, <1>3, <1>4, <1>5, <1>6, <1>7, <1>8, <1>9,
         <1>10, <1>11, <1>12, <1>13, <1>14, <1>15, <1>16, <1>17, <1>18,
         <1>19, <1>20, <1>21, <1>22, <1>23, <1>24, <1>25, <1>26, <1>27,
         <1>28, <1>29, <1>30, <1>31
    DEF Next, Main, Engine, Player

\* In every behaviour the name buffer has one owner.
THEOREM BufferSafe ==
    ASSUME SlowPlayer
    PROVE  Spec => [](LoopInv /\ BufferHasOneOwner /\ BufferInv)
  <1>1. Init => LoopInv
    BY DEF Init, LoopInv, SessionOwnsBusy, DeliveryHasText, Stopped, NoDialog
  <1>2. Init => BufferInv
    BY DEF Init, BufferInv, BufferHasOneOwner, Injecting, NoDialog
  <1>3. BufferInv => BufferHasOneOwner
    BY DEF BufferInv
  <1>4. TypeOK /\ LoopInv /\ BufferInv /\ [Next]_vars => BufferInv'
    BY BufferInductive
  <1>5. QED
    BY <1>1, <1>2, <1>3, <1>4, TypeCorrect, LoopInductive, PTL DEF Spec

\* No name is lost between the main thread and the Lua state.
THEOREM NoNameLost ==
    ASSUME SlowPlayer
    PROVE  Spec => ClearsOnlyAssigned
  <1> DEFINE Assigned == buffer = [i \in 1..2 |-> charNameEdit]
  <1>1. ASSUME TypeOK, BufferInv, [Next]_vars
        PROVE  [ready /\ ~ready' => Assigned]_vars
    <2>1. CASE ClearReady
      BY <1>1, <2>1 DEF TypeOK, BufferInv, BufferHasOneOwner, ClearReady
    <2>2. CASE ~ClearReady
      <3>1. ~(ready /\ ~ready') \/ UNCHANGED vars
        BY <1>1, <2>2, Zenon
        DEF Next, Main, Engine, Player, FatalSpin, vars, flagVars, nameVars,
            FinishTextInput, CheckBootstrap, TakeRequest, NoRequest,
            MarkBusy, OpenKeyboard, OpenFails, AwaitKeyboard, ReadText,
            ReadNothing, CountDown, Refocus, Commit, Fill, Publish, Finish,
            PollControls, Fatal, FatalExit, EnterNativeInit, HandleClick,
            ReadBusy, RaiseRequest, LuaCall, CopyName, AssignName,
            ClearReady, NativeInitReturns, CloseKeyboard, CloseMessage
      <3>2. QED
        BY <3>1
    <2>3. QED
      BY <2>1, <2>2
  <1>2. QED
    BY <1>1, TypeCorrect, BufferSafe, PTL DEF Spec, ClearsOnlyAssigned

-----------------------------------------------------------------------------
(* TextInput implements TextEntry.                                         *)

\* Every step of the two threads is a step of the mailbox, or none.
LEMMA EntryStep ==
    ASSUME SlowPlayer, TypeOK, LoopInv, BufferInv, [Next]_vars
    PROVE  [Entry!Next]_Entry!vars
  <1> DEFINE
        Held == IF m = "finish" THEN Empty ELSE pending
        Mailbox == IF ready /\ e # "clear" THEN buffer[1] ELSE Empty
        Same == UNCHANGED <<ime_active, Held, Mailbox, charNameEdit>>
  <1> USE DEF TypeOK, LoopInv, DeliveryHasText, mainVars, flagVars, nameVars,
              luaVars, engineVars
  <1>b. Entry!Empty = Empty /\ Entry!MaybeText = MaybeText
    BY DEF Entry!Empty, Empty, Entry!MaybeText, MaybeText, Entry!Text, Text
  <1>c. \A t : Entry!Cut(t, NameRoom) = Cut(t, NameRoom)
    BY DEF Entry!Cut, Cut
  <1>a. Same => [Entry!Next]_Entry!vars
    BY DEF Entry!vars
  <1>1. CASE CheckBootstrap
    BY <1>1, <1>a DEF CheckBootstrap
  <1>2. CASE TakeRequest
    BY <1>2, <1>a DEF TakeRequest
  <1>3. CASE NoRequest
    BY <1>3, <1>a DEF NoRequest
  <1>4. CASE MarkBusy
    BY <1>4, <1>a DEF MarkBusy
  <1>5. CASE OpenKeyboard
    <2>1. Entry!Open
      BY <1>5, <1>b DEF OpenKeyboard, Entry!Open
    <2>2. QED
      BY <2>1 DEF Entry!Next
  <1>6. CASE OpenFails
    BY <1>6, <1>a DEF OpenFails, FinishTextInput
  <1>7. CASE AwaitKeyboard
    BY <1>7, <1>a DEF AwaitKeyboard
  <1>8. CASE ReadText
    <2>1. Cut(dialog.text, PendingRoom) \in MaybeText
      BY CutType
    <2>2. Entry!Close
      BY <1>8, <1>b, <2>1 DEF ReadText, Entry!Close
    <2>3. QED
      BY <2>2 DEF Entry!Next
  <1>9. CASE ReadNothing
    <2>1. Entry!Close
      BY <1>9, <1>b, EmptyType DEF ReadNothing, Entry!Close
    <2>2. QED
      BY <2>1 DEF Entry!Next
  <1>10. CASE CountDown
    BY <1>10, <1>a DEF CountDown, Due
  <1>11. CASE Refocus
    BY <1>11, <1>a DEF Refocus
  <1>12. CASE Commit
    BY <1>12, <1>a DEF Commit
  <1>13. CASE Fill
    BY <1>13, <1>a DEF Fill, BufferInv, BufferHasOneOwner, Injecting
  <1>14. CASE Publish
    <2>1. ~ready /\ e \notin Injecting /\ pending # Empty
      BY <1>14 DEF Publish, BufferInv, BufferHasOneOwner, Injecting
    <2>2. Entry!Deliver
      BY <1>14, <1>b, <1>c, <2>1 DEF Publish, BufferInv, Injecting, Entry!Deliver
    <2>3. QED
      BY <2>2 DEF Entry!Next
  <1>15. CASE Finish
    BY <1>15, <1>a DEF Finish, FinishTextInput
  <1>16. CASE PollControls
    BY <1>16, <1>a DEF PollControls
  <1>17. CASE Fatal
    BY <1>17, <1>a DEF Fatal
  <1>18. CASE FatalExit
    BY <1>18, <1>a DEF FatalExit
  <1>19. CASE FatalSpin
    BY <1>19, <1>a DEF FatalSpin, vars
  <1>20. CASE EnterNativeInit
    BY <1>20, <1>a DEF EnterNativeInit
  <1>21. CASE HandleClick
    BY <1>21, <1>a DEF HandleClick
  <1>22. CASE ReadBusy
    BY <1>22, <1>a DEF ReadBusy
  <1>23. CASE RaiseRequest
    BY <1>23, <1>a DEF RaiseRequest
  <1>24. CASE LuaCall
    BY <1>24, <1>a DEF LuaCall
  <1>25. CASE CopyName
    BY <1>25, <1>a DEF CopyName
  <1>26. CASE AssignName
    <2>1. ready /\ copy = buffer /\ buffer[1] = buffer[2] /\ buffer[1] # Empty
      BY <1>26 DEF AssignName, BufferInv, BufferHasOneOwner, Injecting
    <2>2. Entry!Assign
      BY <1>26, <1>b, <2>1 DEF AssignName, CopiedText, Entry!Assign
    <2>3. QED
      BY <2>2 DEF Entry!Next
  <1>27. CASE ClearReady
    BY <1>27, <1>a DEF ClearReady, BufferInv, BufferHasOneOwner, Injecting
  <1>28. CASE NativeInitReturns
    BY <1>28, <1>a DEF NativeInitReturns
  <1>29. CASE CloseKeyboard
    BY <1>29, <1>a DEF CloseKeyboard
  <1>30. CASE CloseMessage
    BY <1>30, <1>a DEF CloseMessage
  <1>31. CASE UNCHANGED vars
    BY <1>31, <1>a DEF vars
  <1>32. QED
    BY <1>1, <1>2, <1>3, <1>4, <1>5, <1>6, <1>7, <1>8, <1>9,
         <1>10, <1>11, <1>12, <1>13, <1>14, <1>15, <1>16, <1>17, <1>18,
         <1>19, <1>20, <1>21, <1>22, <1>23, <1>24, <1>25, <1>26, <1>27,
         <1>28, <1>29, <1>30, <1>31
    DEF Next, Main, Engine, Player

\* While the player is slower than the engine, every text the player confirms
\* goes through the mailbox once, in order and whole.
THEOREM ImplementsTextEntry ==
    ASSUME SlowPlayer
    PROVE  Spec => EntrySpec
  <1>1. Init => Entry!Init
    BY DEF Init, Entry!Init, Entry!Empty, Empty
  <1>2. TypeOK /\ LoopInv /\ BufferInv /\ [Next]_vars => [Entry!Next]_Entry!vars
    BY EntryStep
  <1>3. QED
    BY <1>1, <1>2, TypeCorrect, BufferSafe, PTL DEF Spec, EntrySpec, Entry!Spec
=============================================================================

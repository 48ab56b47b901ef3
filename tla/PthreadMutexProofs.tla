------------------------ MODULE PthreadMutexProofs ------------------------
(***************************************************************************)
(* The mutex bridge is a mutex for any number of threads, where the mutex  *)
(* is handed over: its creator finishes the first operation before other   *)
(* threads use it.                                                         *)
(***************************************************************************)
EXTENDS PthreadMutex, TLAPS

USE MutexAssumption

-----------------------------------------------------------------------------
(* Type correctness.                                                       *)

\* What a static initializer stands for is one of Vita's kinds.
LEMMA KindType == \A w : StaticKind(w) \in Kinds
  BY DEF StaticKind, Kinds

\* Every variable keeps its type in every behaviour.
THEOREM MutexTypeCorrect == Spec => []TypeOK
  <1>1. Init => TypeOK
    BY DEF Init, TypeOK, FreeCell, Cell, Kinds, Statics
  <1>2. TypeOK /\ [Next]_vars => TypeOK'
    <2> SUFFICES ASSUME TypeOK, [Next]_vars
                 PROVE  TypeOK'
      OBVIOUS
    <2> USE DEF TypeOK, Goto, Return, Cell, FreeCell
    <2>1. ASSUME CallInit PROVE TypeOK'
      BY <2>1 DEF CallInit
    <2>2. ASSUME StartThreads PROVE TypeOK'
      BY <2>2 DEF StartThreads
    <2>3. ASSUME Destroy PROVE TypeOK'
      <3>1. started' \in BOOLEAN /\ usable' \in BOOLEAN
        BY <2>3, Zenon DEF Destroy
      <3>2. heap' \in [Cells -> [state : {"free", "raw", "live"}, kind : Kinds,
                               owner : Threads \cup {Nobody}, count : Nat]]
        BY <2>3 DEF Destroy, Kinds
      <3>3. QED
        BY <2>3, <3>1, <3>2 DEF Destroy, Statics
    <2>4. ASSUME NEW t \in Threads, Call(t) PROVE TypeOK'
      BY <2>4 DEF Call
    <2>5. ASSUME NEW t \in Threads, Check(t) PROVE TypeOK'
      BY <2>5 DEF Check, IsInitialized
    <2>6. ASSUME NEW t \in Threads, ChooseKind(t) PROVE TypeOK'
      BY <2>6, KindType DEF ChooseKind
    <2>7. ASSUME NEW t \in Threads, Allocate(t) PROVE TypeOK'
      BY <2>7 DEF Allocate, Kinds
    <2>8. ASSUME NEW t \in Threads, Create(t) PROVE TypeOK'
      BY <2>8 DEF Create
    <2>9. ASSUME NEW t \in Threads, Use(t) PROVE TypeOK'
      BY <2>9 DEF Use, Live
    <2>10. ASSUME NEW t \in Threads, GiveUp(t) PROVE TypeOK'
      BY <2>10 DEF GiveUp
    <2>11. ASSUME NEW t \in Threads, Acquire(t) PROVE TypeOK'
      <3>1. heap' \in [Cells -> [state : {"free", "raw", "live"}, kind : Kinds,
                               owner : Threads \cup {Nobody}, count : Nat]]
        <4>1. CASE obj[t] \in Cells
          BY <2>11, <4>1 DEF Acquire
        <4>2. CASE obj[t] \notin Cells
          <5>1. heap' = heap
            BY <2>11, <4>2 DEF Acquire
          <5>2. QED
            BY <5>1
        <4>3. QED
          BY <4>1, <4>2
      <3>2. QED
        BY <2>11, <3>1 DEF Acquire
    <2>12. ASSUME NEW t \in Threads, Unlock(t) PROVE TypeOK'
      <3>1. heap' \in [Cells -> [state : {"free", "raw", "live"}, kind : Kinds,
                               owner : Threads \cup {Nobody}, count : Nat]]
        BY <2>12 DEF Unlock, Live, Released
      <3>2. QED
        BY <2>12, <3>1 DEF Unlock, Released
    <2>13. ASSUME UNCHANGED vars PROVE TypeOK'
      BY <2>13 DEF vars
    <2>14. QED
      BY <2>1, <2>2, <2>3, <2>4, <2>5, <2>6, <2>7, <2>8, <2>9, <2>10,
         <2>11, <2>12, <2>13 DEF Next, Bridge
  <1>3. QED
    BY <1>1, <1>2, PTL DEF Spec

-----------------------------------------------------------------------------
(* Mutual exclusion.                                                       *)

\* MutexInv is inductive for a mutex that is handed over.
LEMMA MutexInductive ==
    ASSUME Handoff, TypeOK, MutexInv, [Next]_vars
    PROVE  MutexInv'
  <1> USE DEF TypeOK, MutexInv, HandoverInv, WordInv, HeldInv, UsesRealMutex,
              NothingLeaks, OwnerAgrees, Live, Goto, Return, Cell, FreeCell
  <1>1. ASSUME CallInit PROVE MutexInv'
    BY <1>1 DEF CallInit
  <1>2. ASSUME StartThreads PROVE MutexInv'
    BY <1>2 DEF StartThreads
  <1>3. ASSUME Destroy PROVE MutexInv'
    BY <1>3 DEF Destroy, Statics
  <1>4. ASSUME NEW t \in Threads, Call(t) PROVE MutexInv'
    BY <1>4 DEF Call
  <1>5. ASSUME NEW t \in Threads, Check(t) PROVE MutexInv'
    BY <1>5 DEF Check, IsInitialized
  <1>6. ASSUME NEW t \in Threads, ChooseKind(t) PROVE MutexInv'
    BY <1>6 DEF ChooseKind
  <1>7. ASSUME NEW t \in Threads, Allocate(t) PROVE MutexInv'
    BY <1>7 DEF Allocate, Kinds
  <1>8. ASSUME NEW t \in Threads, Create(t) PROVE MutexInv'
    BY <1>8 DEF Create
  <1>9. ASSUME NEW t \in Threads, Use(t) PROVE MutexInv'
    BY <1>9 DEF Use, Live
  <1>10. ASSUME NEW t \in Threads, GiveUp(t) PROVE MutexInv'
    BY <1>10 DEF GiveUp
  <1>11. ASSUME NEW t \in Threads, Acquire(t) PROVE MutexInv'
    BY <1>11 DEF Acquire
  <1>12. ASSUME NEW t \in Threads, Unlock(t) PROVE MutexInv'
    BY <1>12 DEF Unlock, Live, Released
  <1>13. ASSUME UNCHANGED vars PROVE MutexInv'
    BY <1>13 DEF vars
  <1>14. QED
    BY <1>1, <1>2, <1>3, <1>4, <1>5, <1>6, <1>7, <1>8, <1>9, <1>10,
       <1>11, <1>12, <1>13 DEF Next, Bridge

\* Memory that holds neither an initializer nor a mutex looks like a mutex to
\* pthread_mutex_init (47-49, 65): none is made, then or later, and nobody ever
\* holds it. An operation that needs it hands garbage to Vita.
NeverMade ==
    /\ real_ptr = "garbage"
    /\ \A c \in Cells : heap[c].state = "free"
    /\ \A t \in Threads :
          held[t] = 0 /\ pc[t] \in {"idle", "check", "use", "crashed"}

\* A word that was garbage when pthread_mutex_init saw it stays garbage.
LEMMA GarbageStays ==
    ASSUME TypeOK, NeverMade, [Next]_vars
    PROVE  NeverMade'
  <1> USE DEF NeverMade, Goto
  <1>1. ~Live(real_ptr)
    BY DEF Live
  <1>2. CASE CallInit \/ StartThreads \/ UNCHANGED vars
    BY <1>2 DEF TypeOK, CallInit, StartThreads, vars
  <1>3. CASE Destroy
    BY <1>1, <1>3 DEF Destroy
  <1>4. ASSUME NEW t \in Threads, Call(t) PROVE NeverMade'
    BY <1>4 DEF TypeOK, Call
  <1>5. ASSUME NEW t \in Threads, Check(t) PROVE NeverMade'
    BY <1>5 DEF TypeOK, Check, IsInitialized, Statics, Return
  <1>6. ASSUME NEW t \in Threads, Use(t) PROVE NeverMade'
    BY <1>1, <1>6 DEF TypeOK, Use
  <1>7. ASSUME NEW t \in Threads,
               ChooseKind(t) \/ Allocate(t) \/ Create(t) \/ GiveUp(t)
                  \/ Acquire(t) \/ Unlock(t)
        PROVE  FALSE
    BY <1>7 DEF ChooseKind, Allocate, Create, GiveUp, Acquire, Unlock
  <1>8. QED
    BY <1>2, <1>3, <1>4, <1>5, <1>6, <1>7 DEF Next, Bridge

\* What a behaviour starts with: a static initializer, or garbage.
LEMMA WordAtFirst == ASSUME Handoff, Init PROVE NeverMade \/ MutexInv
  <1>1. ~started
    BY Zenon DEF Init
  <1>2. \A t \in Threads : pc[t] = "idle" /\ held[t] = 0
    BY DEF Init
  <1>3. \A c \in Cells : heap[c].state = "free"
    BY DEF Init, FreeCell, Cell
  <1>4. real_ptr \in Statics \cup {"garbage"}
    BY DEF Init
  <1>5. CASE real_ptr = "garbage"
    BY <1>2, <1>3, <1>5 DEF NeverMade
  <1>6. CASE real_ptr \in Statics
    <2>1. real_ptr \notin Cells /\ real_ptr # "garbage"
      BY <1>6 DEF Statics
    <2>2. QED
      BY <1>1, <1>2, <1>3, <1>6, <2>1
      DEF MutexInv, HandoverInv, WordInv, HeldInv, UsesRealMutex, NothingLeaks,
          OwnerAgrees, Live
  <1>7. QED
    BY <1>4, <1>5, <1>6

\* In every state the word is garbage and nothing was made, or all is well.
LEMMA WordAlways ==
    ASSUME Handoff PROVE Spec => []((NeverMade \/ MutexInv) /\ TypeOK)
  <1>1. Init => NeverMade \/ MutexInv
    BY WordAtFirst
  <1>2. TypeOK /\ (NeverMade \/ MutexInv) /\ [Next]_vars
           => (NeverMade \/ MutexInv)'
    BY GarbageStays, MutexInductive
  <1>3. QED
    BY <1>1, <1>2, MutexTypeCorrect, PTL DEF Spec

\* A lock operates on a mutex that was created and that the word points to, no
\* mutex is left behind, and the holder is the owner, for any number of threads
\* and whatever the memory of the word held; except where that was garbage when
\* pthread_mutex_init saw it, for then there never is a mutex.
THEOREM HandedOverSafe ==
    ASSUME Handoff
    PROVE  Spec => [](/\ real_ptr = "garbage" => NeverMade
                      /\ real_ptr # "garbage" =>
                            UsesRealMutex /\ NothingLeaks /\ OwnerAgrees)
  <1>1. NeverMade \/ MutexInv =>
           /\ real_ptr = "garbage" => NeverMade
           /\ real_ptr # "garbage" => UsesRealMutex /\ NothingLeaks /\ OwnerAgrees
    BY DEF MutexInv, WordInv, NeverMade
  <1>2. QED
    BY <1>1, WordAlways, PTL

\* Two threads never both hold a mutex that was handed over, and it is given
\* back as often as it was taken, whatever the memory of its word held.
THEOREM HandedOverExcludes ==
    ASSUME Handoff
    PROVE  Spec => IdealSpec
  <1>1. Init => Ideal!Init
    BY DEF Init, Ideal!Init
  <1>2. ASSUME TypeOK, NeverMade \/ MutexInv, [Next]_vars
        PROVE  [Ideal!Next]_held
    <2>1. ASSUME NEW t \in Threads, Acquire(t) PROVE Ideal!Acquire(t)
      <3>1. MutexInv
        BY <1>2, <2>1 DEF Acquire, NeverMade
      <3>2. \A u \in Threads \ {t} : held[u] = 0
        BY <1>2, <2>1, <3>1 DEF Acquire, TypeOK, MutexInv, HeldInv,
                                UsesRealMutex, OwnerAgrees, Live
      <3>3. QED
        BY <2>1, <3>2 DEF Acquire, Ideal!Acquire
    <2>2. ASSUME NEW t \in Threads, Unlock(t) PROVE Ideal!Release(t)
      BY <2>2 DEF Unlock, Ideal!Release
    <2>3. CASE CallInit \/ StartThreads \/ Destroy \/ UNCHANGED vars
      BY <2>3 DEF CallInit, StartThreads, Destroy, vars
    <2>4. ASSUME NEW t \in Threads, Call(t) \/ Bridge(t) PROVE held' = held
      BY <2>4 DEF Call, Bridge, Check, ChooseKind, Allocate, Create, Use, GiveUp
    <2>5. QED
      BY <1>2, <2>1, <2>2, <2>3, <2>4 DEF Next, Ideal!Next
  <1>3. QED
    BY <1>1, <1>2, WordAlways, PTL DEF Spec, IdealSpec, Ideal!Spec

-----------------------------------------------------------------------------
(* What is allocated, also when the word was not set up by the game.       *)

\* The creator alone makes mutexes, and only where the word holds a static
\* initializer; once the other threads run it holds none any more.
AllocatesInv ==
    /\ NothingLeaks
    /\ ~started => \A t \in Threads \ {Creator} : pc[t] = "idle" /\ held[t] = 0
    /\ started => real_ptr \notin Statics
    /\ \A t \in Threads :
          /\ pc[t] \in {"kind", "alloc"} =>
                t = Creator /\ ~started /\ real_ptr \in Statics
          /\ pc[t] = "create" => t = Creator /\ ~started /\ real_ptr \in Cells

\* Nothing is allocated at first.
LEMMA AllocatesFirst == ASSUME Handoff, Init PROVE AllocatesInv
  <1>1. ~started
    BY Zenon DEF Init
  <1>2. \A t \in Threads : pc[t] = "idle" /\ held[t] = 0
    BY DEF Init
  <1>3. \A c \in Cells : heap[c].state = "free"
    BY DEF Init, FreeCell, Cell
  <1>4. QED
    BY <1>1, <1>2, <1>3 DEF AllocatesInv, NothingLeaks

\* No step of the game or the bridge drops a cell it has allocated.
LEMMA AllocatesInductive ==
    ASSUME Handoff, TypeOK, AllocatesInv, [Next]_vars
    PROVE  AllocatesInv'
  <1> USE DEF TypeOK, AllocatesInv, NothingLeaks, Live, Goto, Return, Cell, FreeCell
  <1>1. ASSUME CallInit PROVE AllocatesInv'
    BY <1>1 DEF CallInit
  <1>2. ASSUME StartThreads PROVE AllocatesInv'
    BY <1>2 DEF StartThreads
  <1>3. ASSUME Destroy PROVE AllocatesInv'
    BY <1>3 DEF Destroy, Statics
  <1>4. ASSUME NEW t \in Threads, Call(t) PROVE AllocatesInv'
    BY <1>4 DEF Call
  <1>5. ASSUME NEW t \in Threads, Check(t) PROVE AllocatesInv'
    BY <1>5 DEF Check, IsInitialized
  <1>6. ASSUME NEW t \in Threads, ChooseKind(t) PROVE AllocatesInv'
    BY <1>6 DEF ChooseKind
  <1>7. ASSUME NEW t \in Threads, Allocate(t) PROVE AllocatesInv'
    BY <1>7 DEF Allocate, Kinds
  <1>8. ASSUME NEW t \in Threads, Create(t) PROVE AllocatesInv'
    BY <1>8 DEF Create
  <1>9. ASSUME NEW t \in Threads, Use(t) PROVE AllocatesInv'
    BY <1>9 DEF Use
  <1>10. ASSUME NEW t \in Threads, GiveUp(t) PROVE AllocatesInv'
    BY <1>10 DEF GiveUp
  <1>11. ASSUME NEW t \in Threads, Acquire(t) PROVE AllocatesInv'
    BY <1>11 DEF Acquire
  <1>12. ASSUME NEW t \in Threads, Unlock(t) PROVE AllocatesInv'
    BY <1>12 DEF Unlock, Released
  <1>13. ASSUME UNCHANGED vars PROVE AllocatesInv'
    BY <1>13 DEF vars
  <1>14. QED
    BY <1>1, <1>2, <1>3, <1>4, <1>5, <1>6, <1>7, <1>8, <1>9, <1>10,
       <1>11, <1>12, <1>13 DEF Next, Bridge

\* A mutex that is handed over leaves no Vita mutex behind, over any number of
\* creations and destructions, whatever the word held when it was created:
\* also where pthread_mutex_init took garbage for a mutex and made none.
THEOREM HandedOverLeaksNothing ==
    ASSUME Handoff PROVE Spec => []NothingLeaks
  <1>1. Init => AllocatesInv
    BY AllocatesFirst
  <1>2. TypeOK /\ AllocatesInv /\ [Next]_vars => AllocatesInv'
    BY AllocatesInductive
  <1>3. AllocatesInv => NothingLeaks
    BY DEF AllocatesInv
  <1>4. QED
    BY <1>1, <1>2, <1>3, MutexTypeCorrect, PTL DEF Spec
=============================================================================

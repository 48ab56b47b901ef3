------------------------------ MODULE ThreadProofs ------------------------------
(***************************************************************************)
(* Proofs about the thread services of the bridge, for any threads and any *)
(* order of their steps.  The services share no state: an invariant of one *)
(* is kept by the steps of the others, and so holds in every behaviour in  *)
(* which any of them run.                                                  *)
(***************************************************************************)
EXTENDS MCThreads, InOrderProofs, TLAPS

------------------------------------------------------------------------------
(* Condition variables.                                                    *)

CondPcs == {"out", "in", "test", "create", "init", "use", "asleep", "leave"}

CondTypeOK ==
  /\ cword \in 0..MaxConds
  /\ conds \in SUBSET (1..MaxConds)
  /\ asleep \in [1..MaxConds -> SUBSET CondUsers]
  /\ held \in BOOLEAN
  /\ cpc \in [CondUsers -> CondPcs \X Calls]

\* Who is between the lock and the unlock owns the mutex, where the threads
\* signal before they unlock.
UsersOwn ==
  held => \A t \in CondUsers :
            cpc[t][1] \in {"in", "test", "create", "init", "use", "leave"} => cowner = t

\* The word is 0 or names the one condition, but for the moment between the
\* store of its address and its initialization; where the condition was
\* initialized first it stays.
WordNamesIt ==
  /\ \A t \in CondUsers :
       /\ cpc[t][1] = "create" => held /\ cword = 0
       /\ cpc[t][1] = "init" => held /\ cword # 0 /\ conds = {}
       /\ cpc[t][1] = "use" => cword \in conds
  /\ cword \notin conds =>
       /\ held /\ conds = {}
       /\ cword # 0 => \E t \in CondUsers : cpc[t][1] = "init"
  /\ cword \in conds => conds = {cword}

\* Threads sleep only on the condition the word names.
SleepersAreThere ==
  \A a \in 1..MaxConds :
    /\ asleep[a] # {} => a = cword /\ cword \in conds
    /\ \A t \in asleep[a] : cpc[t][1] = "asleep"

CondInv == CondTypeOK /\ UsersOwn /\ WordNamesIt /\ SleepersAreThere

\* A thread moves on in its call; the others stay.
LEMMA CondGoto ==
  ASSUME cpc \in [CondUsers -> CondPcs \X Calls], NEW t \in CondUsers, NEW pc \in CondPcs,
         Goto(t, pc)
  PROVE  /\ cpc' \in [CondUsers -> CondPcs \X Calls]
         /\ cpc'[t][1] = pc /\ cpc'[t][2] = cpc[t][2]
         /\ \A u \in CondUsers : u # t => cpc'[u] = cpc[u]
<1>1. cpc[t] \in CondPcs \X Calls
  OBVIOUS
<1>2. PICK p \in CondPcs, call \in Calls : cpc[t] = <<p, call>>
  BY <1>1
<1>3. [cpc[t] EXCEPT ![1] = pc] = <<pc, call>>
  BY <1>2
<1>4. cpc' = [cpc EXCEPT ![t] = <<pc, call>>]
  BY <1>3 DEF Goto
<1>. QED
  BY <1>2, <1>4

\* A thread enters a call.
LEMMA CondCall ==
  ASSUME cpc \in [CondUsers -> CondPcs \X Calls], NEW t \in CondUsers, NEW call \in Calls,
         cpc' = [cpc EXCEPT ![t] = <<"test", call>>]
  PROVE  /\ cpc' \in [CondUsers -> CondPcs \X Calls]
         /\ cpc'[t][1] = "test"
         /\ \A u \in CondUsers : u # t => cpc'[u] = cpc[u]
BY DEF CondPcs

LEMMA CondStarts == CondInitial => CondInv
<1>. SUFFICES ASSUME CondInitial PROVE CondInv
  OBVIOUS
<1>0. MaxConds \in Nat /\ MaxConds >= 1
  BY CondAssumption
<1>1. \A t \in CondUsers : cpc[t] = <<"out", "wait">> /\ cpc[t][1] = "out"
  BY DEF CondInitial
<1>2. cpc \in [CondUsers -> CondPcs \X Calls]
  BY DEF CondInitial, CondPcs, Calls
<1>3. CASE held
  <2>1. cword = 0 /\ conds = {}
    BY <1>3 DEF CondInitial
  <2>. QED
    BY <1>0, <1>1, <1>2, <1>3, <2>1
    DEF CondInitial, CondInv, CondTypeOK, UsersOwn, WordNamesIt, SleepersAreThere
<1>4. CASE ~held
  <2>1. cword = 1 /\ conds = {1}
    BY <1>4 DEF CondInitial
  <2>. QED
    BY <1>0, <1>1, <1>2, <1>4, <2>1
    DEF CondInitial, CondInv, CondTypeOK, UsersOwn, WordNamesIt, SleepersAreThere
<1>. QED
  BY <1>3, <1>4 DEF CondInitial

\* One step of the thread t: it moves on, and the others stay where they are.
LEMMA CondKeeps == CondInv /\ [CondNext]_condVars => CondInv'
<1>. SUFFICES ASSUME CondInv, [CondNext]_condVars PROVE CondInv'
  OBVIOUS
<1>0. /\ MaxConds \in Nat /\ NoUser \notin CondUsers
      /\ CondTypeOK /\ UsersOwn /\ WordNamesIt /\ SleepersAreThere
      /\ cpc \in [CondUsers -> CondPcs \X Calls]
  BY CondAssumption DEF CondInv, CondTypeOK
<1>1. ASSUME NEW t \in CondUsers, LockIt(t) PROVE CondInv'
  <2>1. /\ cpc' \in [CondUsers -> CondPcs \X Calls] /\ cpc'[t][1] = "in"
        /\ \A u \in CondUsers : u # t => cpc'[u] = cpc[u]
        /\ cowner = NoUser /\ cowner' = t
        /\ UNCHANGED <<cword, conds, asleep, items, held>>
        /\ cpc[t][1] = "out" \/ (cpc[t][1] = "asleep" /\ ~Asleep(t))
    BY <1>0, <1>1, CondGoto DEF LockIt, CondPcs
  <2>2. \A a \in 1..MaxConds : t \notin asleep[a]
    BY <1>0, <2>1 DEF Asleep, SleepersAreThere
  <2>3. CondTypeOK'
    BY <1>0, <2>1 DEF CondTypeOK
  <2>4. UsersOwn'
    BY <1>0, <2>1 DEF UsersOwn
  <2>5. WordNamesIt'
    BY <1>0, <2>1 DEF WordNamesIt
  <2>6. SleepersAreThere'
    BY <1>0, <2>1, <2>2 DEF SleepersAreThere, CondTypeOK
  <2>. QED
    BY <2>3, <2>4, <2>5, <2>6 DEF CondInv
\* A step of a thread that is awake, in which the word and the conditions stay.
<1>2. ASSUME NEW t \in CondUsers, NEW pc \in CondPcs,
             cpc' \in [CondUsers -> CondPcs \X Calls], cpc'[t][1] = pc,
             \A u \in CondUsers : u # t => cpc'[u] = cpc[u],
             cpc[t][1] \notin {"asleep", "init"}, pc \notin {"create", "init"},
             pc = "use" => cword \in conds,
             held => /\ cowner' \in {cowner, NoUser} /\ cpc[t][1] # "out"
                     /\ pc \in {"in", "test", "use", "leave"} => cowner' = cowner,
             UNCHANGED <<cword, conds, asleep, held>>
      PROVE  CondInv'
  <2>1. CondTypeOK'
    BY <1>0, <1>2 DEF CondTypeOK
  <2>2. UsersOwn'
    <3>1. ASSUME held PROVE cowner = t
      BY <1>0, <1>2, <3>1 DEF UsersOwn, CondPcs
    <3>. QED
      BY <1>0, <1>2, <3>1 DEF UsersOwn
  <2>3. WordNamesIt'
    BY <1>0, <1>2 DEF WordNamesIt
  <2>4. SleepersAreThere'
    BY <1>0, <1>2 DEF SleepersAreThere, CondTypeOK
  <2>. QED
    BY <2>1, <2>2, <2>3, <2>4 DEF CondInv
<1>3. ASSUME NEW t \in CondUsers, UnlockIt(t) PROVE CondInv'
  <2>1. /\ cpc' \in [CondUsers -> CondPcs \X Calls] /\ cpc'[t][1] = "out"
        /\ \A u \in CondUsers : u # t => cpc'[u] = cpc[u]
        /\ cpc[t][1] = "leave" /\ held => cowner' = NoUser
        /\ UNCHANGED <<cword, conds, asleep, held>>
    BY <1>0, <1>3, CondGoto DEF UnlockIt, CondPcs
  <2>2. cpc[t][1] = "leave" /\ "out" \in CondPcs
    BY <1>3 DEF UnlockIt, CondPcs
  <2>. QED
    BY <1>2, <2>1, <2>2
<1>4. ASSUME NEW t \in CondUsers, Put(t) PROVE CondInv'
  <2>1. PICK call \in {"signal", "broadcast"} : cpc' = [cpc EXCEPT ![t] = <<"test", call>>]
    BY <1>4 DEF Put
  <2>2. /\ cpc' \in [CondUsers -> CondPcs \X Calls] /\ cpc'[t][1] = "test"
        /\ \A u \in CondUsers : u # t => cpc'[u] = cpc[u]
    BY <1>0, <2>1, CondCall DEF Calls
  <2>3. /\ cpc[t][1] = "in" /\ "test" \in CondPcs
        /\ UNCHANGED <<cword, conds, asleep, held>>
        /\ cowner' = IF held THEN t ELSE NoUser
    BY <1>4 DEF Put, CondPcs
  <2>4. held => cowner' = cowner
    BY <1>0, <2>3 DEF UsersOwn
  <2>. QED
    BY <1>2, <2>2, <2>3, <2>4
<1>5. ASSUME NEW t \in CondUsers, Take(t) PROVE CondInv'
  <2>1. /\ cpc' \in [CondUsers -> CondPcs \X Calls] /\ cpc'[t][1] = "out"
        /\ \A u \in CondUsers : u # t => cpc'[u] = cpc[u]
        /\ cpc[t][1] = "in" /\ "out" \in CondPcs /\ cowner' = NoUser
        /\ UNCHANGED <<cword, conds, asleep, held>>
    BY <1>0, <1>5, CondGoto DEF Take, CondPcs
  <2>. QED
    BY <1>2, <2>1
<1>6. ASSUME NEW t \in CondUsers, CallWait(t) PROVE CondInv'
  <2>1. PICK call \in {"wait", "timedwait"} : cpc' = [cpc EXCEPT ![t] = <<"test", call>>]
    BY <1>6 DEF CallWait
  <2>2. /\ cpc' \in [CondUsers -> CondPcs \X Calls] /\ cpc'[t][1] = "test"
        /\ \A u \in CondUsers : u # t => cpc'[u] = cpc[u]
    BY <1>0, <2>1, CondCall DEF Calls
  <2>3. /\ cpc[t][1] = "in" /\ "test" \in CondPcs
        /\ UNCHANGED <<cword, conds, asleep, held, cowner>>
    BY <1>6 DEF CallWait, CondPcs
  <2>. QED
    BY <1>2, <2>2, <2>3
\* A thread that owns the mutex is the only one inside.
<1>7. ASSUME held, NEW t \in CondUsers, cpc[t][1] \in {"test", "create", "init"},
             NEW u \in CondUsers,
             cpc[u][1] \in {"in", "test", "create", "init", "use", "leave"}
      PROVE  u = t
  BY <1>0, <1>7 DEF UsersOwn
<1>8. ASSUME NEW t \in CondUsers, TestCond(t) PROVE CondInv'
  <2>1. /\ cpc[t][1] = "test" /\ Goto(t, NextOfTest(cword))
        /\ UNCHANGED <<cword, conds, asleep, cowner, items, held>>
    BY <1>8 DEF TestCond
  <2>2. CASE cword # 0
    <3>1. NextOfTest(cword) = "use"
      BY <2>2 DEF NextOfTest
    <3>2. /\ cpc' \in [CondUsers -> CondPcs \X Calls] /\ cpc'[t][1] = "use"
          /\ \A u \in CondUsers : u # t => cpc'[u] = cpc[u]
          /\ "use" \in CondPcs
      BY <1>0, <2>1, <3>1, CondGoto DEF CondPcs
    <3>3. cword \in conds
      BY <1>0, <1>7, <2>1, <2>2 DEF WordNamesIt
    <3>. QED
      BY <1>2, <2>1, <3>2, <3>3
  <2>3. CASE cword = 0
    <3>1. NextOfTest(cword) = "create"
      BY <2>3 DEF NextOfTest
    <3>2. /\ cpc' \in [CondUsers -> CondPcs \X Calls] /\ cpc'[t][1] = "create"
          /\ \A u \in CondUsers : u # t => cpc'[u] = cpc[u]
      BY <1>0, <2>1, <3>1, CondGoto DEF CondPcs
    <3>3. cword \notin conds /\ held
      BY <1>0, <2>3 DEF CondTypeOK, WordNamesIt
    <3>4. CondTypeOK'
      BY <1>0, <2>1, <3>2 DEF CondTypeOK
    <3>5. UsersOwn'
      BY <1>0, <2>1, <3>2 DEF UsersOwn
    <3>6. WordNamesIt'
      BY <1>0, <2>1, <2>3, <3>2, <3>3 DEF WordNamesIt
    <3>7. SleepersAreThere'
      BY <1>0, <2>1, <3>2 DEF SleepersAreThere, CondTypeOK
    <3>. QED
      BY <3>4, <3>5, <3>6, <3>7 DEF CondInv
  <2>. QED
    BY <2>2, <2>3
<1>9. ASSUME NEW t \in CondUsers, CreateCond(t) PROVE CondInv'
  <2>1. /\ cpc[t][1] = "create" /\ cword' \in (1..MaxConds) \ (conds \cup {cword})
        /\ UNCHANGED <<conds, asleep, cowner, items, held>>
    BY <1>9 DEF CreateCond
  <2>2. /\ cpc' \in [CondUsers -> CondPcs \X Calls] /\ cpc'[t][1] = "init"
        /\ \A u \in CondUsers : u # t => cpc'[u] = cpc[u]
    BY <1>0, <1>9, CondGoto DEF CreateCond, CondPcs
  <2>3. held /\ cword = 0 /\ cword \notin conds /\ conds = {}
    BY <1>0, <2>1 DEF WordNamesIt, CondTypeOK
  <2>4. \A u \in CondUsers : u # t => cpc[u][1] \notin {"create", "init", "use"}
    BY <1>7, <2>1, <2>3
  <2>5. CondTypeOK'
    BY <1>0, <2>1, <2>2 DEF CondTypeOK
  <2>6. UsersOwn'
    BY <1>0, <2>1, <2>2 DEF UsersOwn
  <2>7. cword' # 0 /\ cword' \notin conds
    BY <1>0, <2>1
  <2>8. WordNamesIt'
    BY <2>1, <2>2, <2>3, <2>4, <2>7 DEF WordNamesIt
  <2>9. SleepersAreThere'
    BY <1>0, <2>1, <2>2, <2>3 DEF SleepersAreThere, CondTypeOK
  <2>. QED
    BY <2>5, <2>6, <2>8, <2>9 DEF CondInv
<1>10. ASSUME NEW t \in CondUsers, InitCond(t) PROVE CondInv'
  <2>1. /\ cpc[t][1] = "init" /\ conds' = conds \cup {cword}
        /\ UNCHANGED <<cword, asleep, cowner, items, held>>
    BY <1>10 DEF InitCond
  <2>2. /\ cpc' \in [CondUsers -> CondPcs \X Calls] /\ cpc'[t][1] = "use"
        /\ \A u \in CondUsers : u # t => cpc'[u] = cpc[u]
    BY <1>0, <1>10, CondGoto DEF InitCond, CondPcs
  <2>0. held /\ cword # 0 /\ conds = {}
    BY <1>0, <2>1 DEF WordNamesIt
  <2>3. held /\ cword # 0 /\ conds = {} /\ conds' = {cword} /\ cword \in 1..MaxConds
    BY <1>0, <2>0, <2>1 DEF CondTypeOK
  <2>4. \A u \in CondUsers : u # t => cpc[u][1] \notin {"create", "init", "use"}
    BY <1>7, <2>1, <2>3
  <2>5. CondTypeOK'
    BY <1>0, <2>1, <2>2, <2>3 DEF CondTypeOK
  <2>6. UsersOwn'
    BY <1>0, <2>1, <2>2 DEF UsersOwn
  <2>8. WordNamesIt'
    BY <2>1, <2>2, <2>3, <2>4 DEF WordNamesIt
  <2>9. SleepersAreThere'
    BY <1>0, <2>1, <2>2, <2>3 DEF SleepersAreThere, CondTypeOK
  <2>. QED
    BY <2>5, <2>6, <2>8, <2>9 DEF CondInv
<1>11. ASSUME NEW t \in CondUsers, Wait(t) PROVE CondInv'
  <2>1. /\ cpc[t][1] = "use" /\ asleep' = [asleep EXCEPT ![cword] = @ \cup {t}]
        /\ cowner' = NoUser /\ UNCHANGED <<cword, conds, items, held>>
    BY <1>11 DEF Wait
  <2>2. /\ cpc' \in [CondUsers -> CondPcs \X Calls] /\ cpc'[t][1] = "asleep"
        /\ \A u \in CondUsers : u # t => cpc'[u] = cpc[u]
    BY <1>0, <1>11, CondGoto DEF Wait, CondPcs
  <2>3. cword \in conds /\ cword \in 1..MaxConds
    BY <1>0, <2>1 DEF WordNamesIt, CondTypeOK
  <2>4. CondTypeOK'
    BY <1>0, <2>1, <2>2, <2>3 DEF CondTypeOK
  <2>5. UsersOwn'
    BY <1>0, <2>1, <2>2 DEF UsersOwn
  <2>6. WordNamesIt'
    BY <1>0, <2>1, <2>2, <2>3 DEF WordNamesIt
  <2>7. SleepersAreThere'
    BY <1>0, <2>1, <2>2, <2>3 DEF SleepersAreThere, CondTypeOK
  <2>. QED
    BY <2>4, <2>5, <2>6, <2>7 DEF CondInv
<1>12. ASSUME NEW t \in CondUsers, TimeOut(t) PROVE CondInv'
  <2>1. /\ asleep' = [a \in 1..MaxConds |-> asleep[a] \ {t}]
        /\ UNCHANGED <<cword, conds, cowner, items, held, cpc>>
    BY <1>12 DEF TimeOut
  <2>2. CondTypeOK' /\ UsersOwn' /\ WordNamesIt'
    BY <1>0, <2>1 DEF CondTypeOK, UsersOwn, WordNamesIt
  <2>3. SleepersAreThere'
    BY <1>0, <2>1 DEF SleepersAreThere
  <2>. QED
    BY <2>2, <2>3 DEF CondInv
<1>13. ASSUME NEW t \in CondUsers, Signal(t) PROVE CondInv'
  <2>1. PICK woken : asleep' = [asleep EXCEPT ![cword] = @ \ woken]
    BY <1>13 DEF Signal
  <2>2. cpc[t][1] = "use" /\ UNCHANGED <<cword, conds, cowner, items, held>>
    BY <1>13 DEF Signal
  <2>3. /\ cpc' \in [CondUsers -> CondPcs \X Calls] /\ cpc'[t][1] = "leave"
        /\ \A u \in CondUsers : u # t => cpc'[u] = cpc[u]
    BY <1>0, <1>13, CondGoto DEF Signal, CondPcs
  <2>4. CondTypeOK'
    BY <1>0, <2>1, <2>2, <2>3 DEF CondTypeOK
  <2>5. UsersOwn'
    BY <1>0, <2>2, <2>3 DEF UsersOwn
  <2>6. WordNamesIt'
    BY <1>0, <2>2, <2>3 DEF WordNamesIt
  <2>7. \A a \in 1..MaxConds : asleep'[a] \subseteq asleep[a]
    BY <1>0, <2>1 DEF CondTypeOK
  <2>8. SleepersAreThere'
    BY <1>0, <2>2, <2>3, <2>7 DEF SleepersAreThere, CondTypeOK
  <2>. QED
    BY <2>4, <2>5, <2>6, <2>8 DEF CondInv
<1>14. ASSUME NEW t \in CondUsers, DestroyCond(t) PROVE CondInv'
  <2>1. /\ held /\ cword # 0 /\ conds' = conds \ {cword} /\ cword' = 0
        /\ UNCHANGED <<asleep, cowner, items, held, cpc>>
        /\ \A u \in CondUsers : cpc[u][1] = "out"
    BY <1>14 DEF DestroyCond, At
  <2>2. conds' = {}
    BY <1>0, <2>1 DEF WordNamesIt
  <2>3. \A a \in 1..MaxConds : asleep[a] = {}
    BY <1>0, <2>1 DEF SleepersAreThere, CondTypeOK
  <2>. QED
    BY <1>0, <2>1, <2>2, <2>3 DEF CondInv, CondTypeOK, UsersOwn, WordNamesIt, SleepersAreThere
<1>15. CASE UNCHANGED condVars
  BY <1>0, <1>15 DEF condVars, CondInv, CondTypeOK, UsersOwn, WordNamesIt, SleepersAreThere
<1>. QED
  BY <1>1, <1>3, <1>4, <1>5, <1>6, <1>8, <1>9, <1>10, <1>11, <1>12, <1>13, <1>14, <1>15
  DEF CondNext, CondStep

LEMMA CondHolds == CondInv => OneCondition
BY DEF CondInv, OneCondition, WordNamesIt, SleepersAreThere, At
------------------------------------------------------------------------------
(* Semaphores.                                                             *)

SemInv ==
  /\ count \in Nat /\ created \in Nat /\ got \in Nat
  /\ UnitsConserved

LEMMA SemStarts == SemInitial => SemInv
BY DEF SemInitial, SemInv, UnitsConserved

LEMMA SemKeeps == SemInv /\ [SemNext]_semVars => SemInv'
<1>. SUFFICES ASSUME SemInv, [SemNext]_semVars PROVE SemInv'
  OBVIOUS
<1>. USE DEF SemInv, UnitsConserved
<1>1. ASSUME NEW t \in SemUsers, sem_init(t) PROVE SemInv'
  <2>1. PICK n \in 0..1 : count' = n /\ created' = n /\ got' = 0
    BY <1>1 DEF sem_init
  <2>. QED
    BY <2>1
<1>2. ASSUME NEW t \in SemUsers, sem_destroy(t) PROVE SemInv'
  BY <1>2 DEF sem_destroy
<1>3. ASSUME NEW t \in SemUsers, sem_post(t) PROVE SemInv'
  BY <1>3 DEF sem_post
<1>4. ASSUME NEW t \in SemUsers, sem_wait(t) \/ sem_trywait(t) \/ sem_timedwait(t) PROVE SemInv'
  BY <1>4 DEF sem_wait, sem_trywait, sem_timedwait, Enter
<1>5. ASSUME NEW t \in SemUsers, Acquire(t) PROVE SemInv'
  BY <1>5 DEF Acquire
<1>6. ASSUME NEW t \in SemUsers, Expire(t) PROVE SemInv'
  BY <1>6 DEF Expire
<1>7. CASE Tick \/ UNCHANGED semVars
  BY <1>7 DEF Tick, semVars
<1>. QED
  BY <1>1, <1>2, <1>3, <1>4, <1>5, <1>6, <1>7 DEF SemNext

------------------------------------------------------------------------------
(* Thread attributes.                                                      *)

\* The attribute holds, swapped, what the engine wished last, and an attribute
\* that is not there yet will hold the default, as no wish.
AttrInv ==
  /\ magic \in BOOLEAN
  /\ wish \in {0, 1}
  /\ real_ptr \in [state : {0, 1}, stack : {"default", "asked", "512 KiB"}]
  /\ magic => real_ptr.state = 1 - wish
  /\ ~magic => wish = 0
  /\ AttrsOwned /\ DetachedAsAsked

LEMMA AttrStarts == AttrInit => AttrInv
<1>. SUFFICES ASSUME AttrInit PROVE AttrInv
  OBVIOUS
<1>1. VitaDefault \in [state : {0, 1}, stack : {"default", "asked", "512 KiB"}]
  BY DEF VitaDefault
<1>2. magic \in BOOLEAN /\ ~magic /\ wish = 0
  BY DEF AttrInit
<1>3. AttrsOwned
  BY DEF AttrInit, AttrsOwned
<1>4. DetachedAsAsked
  BY DEF AttrInit, DetachedAsAsked
<1>5. real_ptr = VitaDefault
  BY DEF AttrInit
<1>. QED
  BY <1>1, <1>2, <1>3, <1>4, <1>5 DEF AttrInv

\* What every call finds behind the attribute once it is there.
LEMMA VitaState ==
  ASSUME AttrInv
  PROVE  /\ Vita \in [state : {0, 1}, stack : {"default", "asked", "512 KiB"}]
         /\ Vita.state = 1 - wish
<1>1. CASE magic
  <2>1. Vita = real_ptr
    BY <1>1 DEF Vita
  <2>. QED
    BY <1>1, <2>1 DEF AttrInv
<1>2. CASE ~magic
  <2>1. Vita = VitaDefault
    BY <1>2 DEF Vita
  <2>2. VitaDefault \in [state : {0, 1}, stack : {"default", "asked", "512 KiB"}]
    BY DEF VitaDefault
  <2>3. VitaDefault.state = 1
    BY DEF VitaDefault
  <2>4. wish = 0
    BY <1>2 DEF AttrInv
  <2>5. Vita.state = 1 - wish
    BY <2>1, <2>3, <2>4
  <2>. QED
    BY <2>1, <2>2, <2>5
<1>. QED
  BY <1>1, <1>2

LEMMA AttrKeeps == AttrInv /\ [AttrNext]_attrVars => AttrInv'
<1>. SUFFICES ASSUME AttrInv, [AttrNext]_attrVars PROVE AttrInv'
  OBVIOUS
<1>1. _attr_t_static_init => magic' = TRUE /\ allocated' = 1
  <2>. SUFFICES ASSUME _attr_t_static_init PROVE magic' = TRUE /\ allocated' = 1
    OBVIOUS
  <2>1. magic' = TRUE /\ allocated' = IF magic THEN allocated ELSE allocated + 1
    BY DEF _attr_t_static_init
  <2>2. CASE magic
    BY <2>1, <2>2 DEF AttrInv, AttrsOwned
  <2>3. CASE ~magic
    <3>1. allocated = 0
      BY <2>3 DEF AttrInv, AttrsOwned
    <3>2. allocated' = 0 + 1
      BY <2>1, <2>3, <3>1
    <3>. QED
      BY <2>1, <3>2
  <2>. QED
    BY <2>2, <2>3
<1>2. CASE pthread_attr_init
  BY <1>1, <1>2, VitaState DEF pthread_attr_init, AttrInv, AttrsOwned, DetachedAsAsked
<1>3. CASE pthread_attr_destroy
  <2>1. ~magic' /\ magic' \in BOOLEAN /\ allocated' = allocated - 1 /\ allocated = 1
        /\ wish' = 0 /\ real_ptr' = real_ptr /\ thread' = thread
    BY <1>3 DEF pthread_attr_destroy, AttrInv, AttrsOwned
  <2>2. allocated' = 0
    BY <2>1
  <2>. QED
    BY <2>1, <2>2 DEF AttrInv, AttrsOwned, DetachedAsAsked
<1>4. CASE pthread_attr_setdetachstate
  <2>1. PICK state \in {0, 1} : /\ real_ptr' = [Vita EXCEPT !.state = Swapped(state)]
                                /\ wish' = state
    BY <1>4 DEF pthread_attr_setdetachstate
  <2>2. Swapped(state) \in {0, 1} /\ Swapped(state) = 1 - state
    BY DEF Swapped
  <2>3. /\ real_ptr' \in [state : {0, 1}, stack : {"default", "asked", "512 KiB"}]
        /\ real_ptr'.state = 1 - state
    BY <2>1, <2>2, VitaState
  <2>. QED
    BY <1>1, <1>4, <2>1, <2>3 DEF pthread_attr_setdetachstate, AttrInv, AttrsOwned, DetachedAsAsked
<1>5. ASSUME NEW stack \in {"asked", "512 KiB"}
      PROVE  /\ [Vita EXCEPT !.stack = stack]
                   \in [state : {0, 1}, stack : {"default", "asked", "512 KiB"}]
             /\ [Vita EXCEPT !.stack = stack].state = 1 - wish
  BY VitaState
<1>6. CASE pthread_attr_setstacksize
  BY <1>1, <1>5, <1>6 DEF pthread_attr_setstacksize, AttrInv, AttrsOwned, DetachedAsAsked
<1>7. CASE pthread_create
  <2>1. CASE /\ thread' = [state |-> VitaDefault.state, stack |-> "512 KiB", asked |-> 0]
             /\ UNCHANGED <<magic, real_ptr, allocated, wish>>
    <3>1. thread'.state = 1 /\ thread'.asked = 0
      BY <2>1 DEF VitaDefault
    <3>2. thread'.state = 1 - thread'.asked
      BY <3>1
    <3>. QED
      BY <2>1, <3>2 DEF AttrInv, AttrsOwned, DetachedAsAsked
  <2>2. CASE /\ _attr_t_static_init
             /\ real_ptr' = [Vita EXCEPT !.stack = "512 KiB"]
             /\ thread' = [state |-> real_ptr'.state, stack |-> real_ptr'.stack, asked |-> wish]
             /\ UNCHANGED wish
    <3>1. thread'.state = 1 - thread'.asked
      BY <1>5, <2>2
    <3>. QED
      BY <1>1, <1>5, <2>2, <3>1 DEF AttrInv, AttrsOwned, DetachedAsAsked
  <2>. QED
    BY <1>7, <2>1, <2>2 DEF pthread_create
<1>8. CASE UNCHANGED attrVars
  BY <1>8 DEF attrVars, AttrInv, AttrsOwned, DetachedAsAsked
<1>. QED
  BY <1>2, <1>3, <1>4, <1>6, <1>7, <1>8 DEF AttrNext

------------------------------------------------------------------------------
(* errno.                                                                  *)

\* The first and the last of some rows are among them.
LEMMA EndsOfRows ==
  ASSUME NEW S \in SUBSET Rows, S # {}
  PROVE  First(S) \in S /\ Last(S) \in S
<1>1. Len(errno_translation) \in Nat /\ Rows = 1..Len(errno_translation)
  BY TableAssumption DEF Rows
<1>2. S \in SUBSET Int /\ IsFiniteSet(S)
  <2>1. IsFiniteSet(1..Len(errno_translation))
    BY <1>1, FS_Interval
  <2>2. S \subseteq 1..Len(errno_translation)
    BY <1>1
  <2>. DEFINE R == 1..Len(errno_translation)
  <2>3. R \subseteq Int
    BY <1>1
  <2>4. IsFiniteSet(S)
    <3>. HIDE DEF R
    <3>. QED
      BY <2>1, <2>2, FS_Subset DEF R
  <2>. QED
    BY <2>2, <2>3, <2>4
<1>3. (\E i \in S : \A j \in S : i <= j) /\ (\E i \in S : \A j \in S : j <= i)
  BY <1>2, HaveEnds
<1>. QED
  BY <1>3 DEF First, Last

\* __errno_soloader returns a row of the thread's error, and row 1 where no row
\* has it.
LEMMA RowOfError ==
  ASSUME NEW e \in NewlibErrnos
  PROVE  /\ RowOf(e) \in Rows /\ RowOf(e) # 0
         /\ \/ errno_translation[RowOf(e)].newlib = e
            \/ e \in UnknownErrnos /\ RowOf(e) = 1
<1>. DEFINE S == {i \in Rows : errno_translation[i].newlib = e}
<1>1. 1 \in Rows /\ 0 \notin Rows
  BY TableAssumption DEF Rows
<1>2. RowOf(e) = IF S = {} THEN 1 ELSE First(S)
  BY DEF RowOf, OrFirstRow
<1>3. S # {} => First(S) \in S
  BY EndsOfRows
<1>4. S = {} => e \in UnknownErrnos
  BY DEF NewlibErrnos
<1>. QED
  BY <1>1, <1>2, <1>3, <1>4

\* The error of a row is described by that row, unless another has its code.
LEMMA TextOfRow ==
  ASSUME NEW i \in Rows, \A j \in Rows : bionic[j] = errno_translation[j].bionic,
         \A j \in Rows \ {i} : errno_translation[j].bionic # errno_translation[i].bionic
  PROVE  /\ strerror(bionic[i]) = errno_translation[i].strerror
         /\ strerror_r(bionic[i]) = errno_translation[i].strerror
<1>1. {j \in Rows : bionic[j] = bionic[i]} = {i}
  OBVIOUS
<1>2. First({i}) = i /\ Last({i}) = i
  BY EndsOfRows
<1>. QED
  BY <1>1, <1>2 DEF strerror, strerror_r, OrFirstRow

\* A store reaches one row.
StoreStaysInRow ==
  \A i \in Rows : ~stored[i] => bionic[i] = errno_translation[i].bionic

\* While the pointer is out the thread's error does not change, so that it
\* points to a row of that error.
ErrnoInv ==
  /\ newlib_errno \in [ErrnoThreads -> NewlibErrnos]
  /\ DOMAIN bionic = Rows
  /\ stored \in [Rows -> BOOLEAN]
  /\ DOMAIN seen = ErrnoThreads
  /\ pointer \in [ErrnoThreads -> Rows \cup {0}]
  /\ \A t \in ErrnoThreads : pointer[t] # 0 => pointer[t] = RowOf(newlib_errno[t])
  /\ StoreStaysInRow
  /\ OwnErrorIsRead

LEMMA ErrnoStarts == ErrnoInit => ErrnoInv
<1>. SUFFICES ASSUME ErrnoInit PROVE ErrnoInv
  OBVIOUS
<1>1. errno_translation[1].newlib \in NewlibErrnos
  BY TableAssumption DEF NewlibErrnos, Rows
<1>. QED
  BY <1>1 DEF ErrnoInit, ErrnoInv, StoreStaysInRow, OwnErrorIsRead

LEMMA ErrnoKeeps == ErrnoInv /\ [ErrnoNext]_errnoVars => ErrnoInv'
<1>. SUFFICES ASSUME ErrnoInv, [ErrnoNext]_errnoVars PROVE ErrnoInv'
  OBVIOUS
\* Threads that read nothing in a step have read their own error before it.
<1>1. ASSUME \A t \in ErrnoThreads :
               \/ seen'[t] = Unread
               \/ seen'[t] = seen[t] /\ newlib_errno'[t] = newlib_errno[t],
             \A i \in Rows : stored[i] => stored'[i]
      PROVE  OwnErrorIsRead'
  BY <1>1 DEF ErrnoInv, OwnErrorIsRead
<1>2. ASSUME NEW t \in ErrnoThreads, CallFails(t) PROVE ErrnoInv'
  <2>1. PICK e \in NewlibErrnos : newlib_errno' = [newlib_errno EXCEPT ![t] = e]
    BY <1>2 DEF CallFails
  <2>2. pointer[t] = 0 /\ seen' = [seen EXCEPT ![t] = Unread] /\ UNCHANGED <<bionic, pointer, stored>>
    BY <1>2 DEF CallFails
  <2>3. OwnErrorIsRead'
    BY <1>1, <2>1, <2>2 DEF ErrnoInv
  <2>. QED
    BY <2>1, <2>2, <2>3 DEF ErrnoInv, StoreStaysInRow
<1>3. ASSUME NEW t \in ErrnoThreads, __errno_soloader(t) PROVE ErrnoInv'
  <2>1. /\ pointer' = [pointer EXCEPT ![t] = RowOf(newlib_errno[t])]
        /\ seen' = [seen EXCEPT ![t] = Unread] /\ UNCHANGED <<newlib_errno, bionic, stored>>
    BY <1>3 DEF __errno_soloader
  <2>2. OwnErrorIsRead'
    BY <1>1, <2>1 DEF ErrnoInv
  <2>3. RowOf(newlib_errno[t]) \in Rows
    BY RowOfError DEF ErrnoInv
  <2>. QED
    BY <2>1, <2>2, <2>3 DEF ErrnoInv, StoreStaysInRow
<1>4. ASSUME NEW t \in ErrnoThreads, LoadErrno(t) PROVE ErrnoInv'
  <2>. DEFINE i == pointer[t]
              read == [code |-> bionic[i], text |-> strerror(bionic[i]),
                       text_r |-> strerror_r(bionic[i])]
  <2>1. /\ i # 0 /\ seen' = [seen EXCEPT ![t] = read]
        /\ pointer' = [pointer EXCEPT ![t] = 0] /\ UNCHANGED <<newlib_errno, bionic, stored>>
    BY <1>4 DEF LoadErrno
  <2>2. /\ i \in Rows
        /\ \/ errno_translation[i].newlib = newlib_errno[t]
           \/ newlib_errno[t] \in UnknownErrnos /\ i = 1
    <3>1. i = RowOf(newlib_errno[t]) /\ newlib_errno[t] \in NewlibErrnos
      BY <2>1 DEF ErrnoInv
    <3>. QED
      BY <3>1, RowOfError
  <2>3. /\ ~stored[i] => read.code = errno_translation[i].bionic
        /\ (\A k \in Rows : ~stored[k]) =>
              \/ read.text = errno_translation[i].strerror /\ read.text_r = read.text
              \/ \E j \in Rows \ {i} : errno_translation[j].bionic = errno_translation[i].bionic
    <3>1. ~stored[i] => read.code = errno_translation[i].bionic
      BY <2>2 DEF ErrnoInv, StoreStaysInRow
    <3>2. ASSUME \A k \in Rows : ~stored[k]
          PROVE  \/ read.text = errno_translation[i].strerror /\ read.text_r = read.text
                 \/ \E j \in Rows \ {i} : errno_translation[j].bionic = errno_translation[i].bionic
      <4>1. \A j \in Rows : bionic[j] = errno_translation[j].bionic
        BY <3>2 DEF ErrnoInv, StoreStaysInRow
      <4>. QED
        BY <2>2, <4>1, TextOfRow
    <3>. QED
      BY <3>1, <3>2
  <2>. HIDE DEF i, read
  <2>4. OwnErrorIsRead'
    <3>. SUFFICES ASSUME NEW u \in ErrnoThreads, seen'[u] # Unread
                  PROVE  \E k \in Rows :
                           /\ \/ errno_translation[k].newlib = newlib_errno[u]
                              \/ newlib_errno[u] \in UnknownErrnos /\ k = 1
                           /\ ~stored[k] => seen'[u].code = errno_translation[k].bionic
                           /\ (\A l \in Rows : ~stored[l]) =>
                                 \/ seen'[u].text = errno_translation[k].strerror
                                    /\ seen'[u].text_r = seen'[u].text
                                 \/ \E j \in Rows \ {k} :
                                      errno_translation[j].bionic = errno_translation[k].bionic
      BY <2>1 DEF OwnErrorIsRead
    <3>1. CASE u = t
      <4>1. seen'[u] = read
        BY <2>1, <3>1 DEF ErrnoInv
      <4>. QED
        BY <2>2, <2>3, <3>1, <4>1
    <3>2. CASE u # t
      <4>1. seen'[u] = seen[u]
        BY <2>1, <3>2 DEF ErrnoInv
      <4>. QED
        BY <4>1 DEF ErrnoInv, OwnErrorIsRead
    <3>. QED
      BY <3>1, <3>2
  <2>. QED
    BY <2>1, <2>4 DEF ErrnoInv, StoreStaysInRow
<1>5. ASSUME NEW t \in ErrnoThreads, StoreErrno(t) PROVE ErrnoInv'
  <2>1. PICK code \in StoredCodes : bionic' = [bionic EXCEPT ![pointer[t]] = code]
    BY <1>5 DEF StoreErrno
  <2>2. /\ pointer[t] # 0 /\ stored' = [stored EXCEPT ![pointer[t]] = TRUE]
        /\ seen' = [seen EXCEPT ![t] = Unread] /\ pointer' = [pointer EXCEPT ![t] = 0]
        /\ newlib_errno' = newlib_errno
    BY <1>5 DEF StoreErrno
  <2>3. pointer[t] \in Rows
    BY <2>2 DEF ErrnoInv
  <2>4. OwnErrorIsRead'
    BY <1>1, <2>2, <2>3 DEF ErrnoInv
  <2>5. StoreStaysInRow'
    BY <2>1, <2>2, <2>3 DEF ErrnoInv, StoreStaysInRow
  <2>. QED
    BY <2>1, <2>2, <2>3, <2>4, <2>5 DEF ErrnoInv
<1>6. CASE UNCHANGED errnoVars
  BY <1>6 DEF errnoVars, ErrnoInv, StoreStaysInRow, OwnErrorIsRead
<1>. QED
  BY <1>2, <1>3, <1>4, <1>5, <1>6 DEF ErrnoNext

------------------------------------------------------------------------------
(* The log.                                                                *)

LogTypeOK ==
  /\ lpc \in [LogThreads -> [at : {"out", "lock", "create", "format", "open", "opening", "write"},
                             locked : BOOLEAN]]
  /\ crossed \in [LogThreads -> BOOLEAN]
  /\ creations \in Nat
  /\ mutex_ready \in BOOLEAN /\ started \in BOOLEAN /\ early \in BOOLEAN

\* The buffer holds the line of whoever is in bg2v_log_printf undisturbed.
BufferIsOwn == \A t \in Writers : ~crossed[t] => file_buffer = t

\* The lock is there once it was created, and a lock that was created once is
\* held by every thread that has locked it: by one.
LockIsHeld ==
  /\ mutex_ready <=> creations # 0
  /\ creations = 0 => lwmutex = "none"
  /\ creations <= 1 => \A t \in LogThreads : lpc[t].locked => lwmutex = t

\* Nobody but main logs, and creates, before the threads start, and where the
\* lock is there by then nobody creates it later.
MainCreates ==
  ~started \/ early =>
    /\ creations <= 1
    /\ started => mutex_ready
    /\ ~started => \A t \in LogThreads \ {Main} : lpc[t].at = "out"
    /\ \A t \in LogThreads : lpc[t].at = "create" => t = Main /\ ~started /\ creations = 0

LogInv ==
  /\ LogTypeOK /\ BufferIsOwn /\ LockIsHeld /\ MainCreates
  /\ log.alone => log.own

LEMMA LogStarts == LogInit => LogInv
<1>. SUFFICES ASSUME LogInit PROVE LogInv
  OBVIOUS
<1>1. LogTypeOK
  BY DEF LogInit, LogTypeOK
<1>2. BufferIsOwn
  BY DEF LogInit, BufferIsOwn, Writers
<1>3. LockIsHeld
  BY DEF LogInit, LockIsHeld
<1>4. MainCreates
  BY DEF LogInit, MainCreates
<1>. QED
  BY <1>1, <1>2, <1>3, <1>4 DEF LogInit, LogInv, NoLine

\* A thread goes from one place outside the buffer's use to another, or from one
\* inside to another: the buffer and the lock are as they were.
LEMMA LogGoes ==
  ASSUME LogInv, NEW t \in LogThreads,
         NEW pc \in {"out", "lock", "create", "format", "open", "opening", "write"},
         LogGo(t, pc),
         UNCHANGED <<lwmutex, creations, mutex_ready, file_buffer, log, crossed, started, early>>,
         pc \in {"open", "opening", "write"} => t \in Writers,
         ~started \/ early => /\ started \/ t = Main
                              /\ pc = "create" => t = Main /\ ~started /\ creations = 0
  PROVE  LogInv'
<1>1. /\ lpc'[t].at = pc /\ lpc'[t].locked = lpc[t].locked
      /\ \A u \in LogThreads : u # t => lpc'[u] = lpc[u]
      /\ LogTypeOK'
  BY DEF LogInv, LogTypeOK, LogGo
<1>2. BufferIsOwn'
  BY <1>1 DEF LogInv, BufferIsOwn, Writers
<1>3. LockIsHeld'
  BY <1>1 DEF LogInv, LockIsHeld
<1>4. MainCreates'
  BY <1>1 DEF LogInv, MainCreates
<1>. QED
  BY <1>1, <1>2, <1>3, <1>4 DEF LogInv

\* Only main is on its way before the threads start.
LEMMA WhoLogs ==
  ASSUME LogInv, NEW t \in LogThreads, lpc[t].at # "out" \/ MayLog(t)
  PROVE  ~started \/ early => started \/ t = Main
BY DEF LogInv, MainCreates, MayLog

LEMMA LogKeeps == LogInv /\ [LogNext]_logVars => LogInv'
<1>. SUFFICES ASSUME LogInv, [LogNext]_logVars PROVE LogInv'
  OBVIOUS
<1>0. LogTypeOK /\ BufferIsOwn /\ LockIsHeld /\ MainCreates
  BY DEF LogInv
<1>1. CASE StartThreads
  BY <1>0, <1>1 DEF StartThreads, LogInv, LogTypeOK, BufferIsOwn, Writers, LockIsHeld, MainCreates
<1>2. ASSUME NEW t \in LogThreads, bg2v_log_reset(t) PROVE LogInv'
  BY <1>2, LogGoes DEF bg2v_log_reset
<1>3. ASSUME NEW t \in LogThreads, CallPrintf(t) PROVE LogInv'
  BY <1>3, LogGoes, WhoLogs DEF CallPrintf
<1>4. ASSUME NEW t \in LogThreads, CallLogPrint(t) PROVE LogInv'
  <2>1. /\ LogGo(t, IF mutex_ready THEN "lock" ELSE "create")
        /\ UNCHANGED <<lwmutex, creations, mutex_ready, file_buffer, log, crossed, started, early>>
    BY <1>4 DEF CallLogPrint
  <2>2. ~started \/ early => started \/ t = Main
    BY <1>4, WhoLogs DEF CallLogPrint
  <2>3. ~mutex_ready /\ (~started \/ early) => t = Main /\ ~started /\ creations = 0
    BY <1>0, <2>2 DEF MainCreates, LockIsHeld
  <2>. QED
    BY <2>1, <2>2, <2>3, LogGoes
<1>5. ASSUME NEW t \in LogThreads, CreateLock(t) PROVE LogInv'
  <2>1. CASE /\ LogGo(t, "out")
             /\ UNCHANGED <<lwmutex, creations, mutex_ready>>
    BY <1>5, <2>1, LogGoes, WhoLogs DEF CreateLock
  <2>2. CASE /\ lwmutex' = "free" /\ creations' = creations + 1 /\ mutex_ready' = TRUE
             /\ LogGo(t, "lock")
    <3>1. /\ lpc'[t].at = "lock" /\ lpc'[t].locked = lpc[t].locked /\ lpc[t].at = "create"
          /\ \A u \in LogThreads : u # t => lpc'[u] = lpc[u]
          /\ UNCHANGED <<file_buffer, log_fd, log, crossed, started, early>>
          /\ LogTypeOK'
      BY <1>0, <1>5, <2>2 DEF CreateLock, LogTypeOK, LogGo
    <3>2. BufferIsOwn'
      BY <1>0, <3>1 DEF BufferIsOwn, Writers
    <3>3. LockIsHeld'
      <4>1. creations' # 0
        BY <1>0, <2>2 DEF LogTypeOK
      <4>2. creations' <= 1 => creations = 0
        BY <1>0, <2>2 DEF LogTypeOK
      <4>3. creations = 0 => \A u \in LogThreads : ~lpc[u].locked
        BY <1>0, LogAssumption DEF LockIsHeld
      <4>4. creations' <= 1 => \A u \in LogThreads : ~lpc'[u].locked
        BY <3>1, <4>2, <4>3
      <4>. QED
        BY <2>2, <4>1, <4>4 DEF LockIsHeld
    <3>4. MainCreates'
      <4>. SUFFICES ASSUME ~started \/ early PROVE MainCreates'
        BY <3>1 DEF MainCreates
      <4>1. t = Main /\ ~started /\ creations = 0
        BY <1>0, <3>1 DEF MainCreates
      <4>2. creations' <= 1
        BY <2>2, <4>1
      <4>3. \A u \in LogThreads \ {Main} : lpc'[u].at = "out"
        BY <1>0, <3>1, <4>1 DEF MainCreates
      <4>. QED
        BY <3>1, <4>1, <4>2, <4>3 DEF MainCreates
    <3>. QED
      BY <3>1, <3>2, <3>3, <3>4 DEF LogInv
  <2>. QED
    BY <1>5, <2>1, <2>2 DEF CreateLock
<1>6. ASSUME NEW t \in LogThreads, Lock(t) PROVE LogInv'
  <2>1. /\ lpc[t].at = "lock" /\ lwmutex = "free" /\ lwmutex' = t
        /\ lpc' = [lpc EXCEPT ![t] = [at |-> "format", locked |-> TRUE]]
        /\ UNCHANGED <<creations, mutex_ready, file_buffer, log_fd, log, crossed, started, early>>
    BY <1>6 DEF Lock
  <2>2. LogTypeOK'
    BY <1>0, <2>1 DEF LogTypeOK
  <2>3. /\ lpc'[t].at = "format" /\ lpc'[t].locked
        /\ \A u \in LogThreads : u # t => lpc'[u] = lpc[u]
    BY <1>0, <2>1 DEF LogTypeOK
  <2>4. BufferIsOwn'
    BY <1>0, <2>1, <2>3 DEF BufferIsOwn, Writers
  <2>5. LockIsHeld'
    <3>1. creations # 0
      BY <1>0, <2>1 DEF LockIsHeld
    <3>2. creations <= 1 => \A u \in LogThreads : ~lpc[u].locked
      BY <1>0, <2>1, LogAssumption DEF LockIsHeld
    <3>. QED
      BY <1>0, <2>1, <2>3, <3>1, <3>2 DEF LockIsHeld
  <2>6. MainCreates'
    <3>1. ~started \/ early => started \/ t = Main
      BY <1>0, <2>1 DEF MainCreates
    <3>. QED
      BY <1>0, <2>1, <2>3, <3>1 DEF MainCreates
  <2>. QED
    BY <2>1, <2>2, <2>4, <2>5, <2>6 DEF LogInv
<1>7. ASSUME NEW t \in LogThreads, Format(t) PROVE LogInv'
  <2>1. /\ lpc[t].at = "format" /\ LogGo(t, "open") /\ file_buffer' = t
        /\ crossed' = [u \in LogThreads |->
                         IF u = t THEN Writers # {} ELSE crossed[u] \/ u \in Writers]
        /\ UNCHANGED <<lwmutex, creations, mutex_ready, log_fd, log, started, early>>
    BY <1>7 DEF Format
  <2>2. /\ lpc'[t].at = "open" /\ lpc'[t].locked = lpc[t].locked
        /\ \A u \in LogThreads : u # t => lpc'[u] = lpc[u]
    BY <1>0, <2>1 DEF LogTypeOK, LogGo
  <2>3. lpc' \in [LogThreads -> [at : {"out", "lock", "create", "format", "open", "opening", "write"},
                                 locked : BOOLEAN]]
    BY <1>0, <2>1 DEF LogTypeOK, LogGo
  <2>4. crossed' \in [LogThreads -> BOOLEAN]
    <3>1. \A u \in LogThreads : (IF u = t THEN Writers # {} ELSE crossed[u] \/ u \in Writers) \in BOOLEAN
      OBVIOUS
    <3>. QED
      BY <2>1, <3>1
  <2>5. LogTypeOK'
    BY <1>0, <2>1, <2>3, <2>4 DEF LogTypeOK
  <2>6. BufferIsOwn'
    <3>. SUFFICES ASSUME NEW u \in Writers', ~crossed'[u], u # t PROVE FALSE
      BY <2>1 DEF BufferIsOwn
    <3>1. u \in LogThreads /\ u \in Writers
      BY <2>2 DEF Writers
    <3>. QED
      BY <2>1, <3>1
  <2>7. LockIsHeld'
    BY <1>0, <2>1, <2>2 DEF LockIsHeld
  <2>8. MainCreates'
    <3>1. ~started \/ early => started \/ t = Main
      BY <1>0, <2>1 DEF MainCreates
    <3>. QED
      BY <1>0, <2>1, <2>2, <3>1 DEF MainCreates
  <2>. QED
    BY <2>1, <2>5, <2>6, <2>7, <2>8 DEF LogInv
<1>8. ASSUME NEW t \in LogThreads, TestLogFd(t) PROVE LogInv'
  <2>1. t \in Writers
    BY <1>8 DEF TestLogFd, Writers
  <2>2. /\ LogGo(t, IF log_fd THEN "write" ELSE "opening")
        /\ UNCHANGED <<lwmutex, creations, mutex_ready, file_buffer, log, crossed, started, early>>
    BY <1>8 DEF TestLogFd
  <2>3. ~started \/ early => started \/ t = Main
    BY <1>8, WhoLogs DEF TestLogFd
  <2>. QED
    BY <2>1, <2>2, <2>3, LogGoes
<1>9. ASSUME NEW t \in LogThreads, OpenLog(t) PROVE LogInv'
  <2>1. t \in Writers
    BY <1>9 DEF OpenLog, Writers
  <2>. QED
    BY <1>9, <2>1, LogGoes, WhoLogs DEF OpenLog
<1>10. ASSUME NEW t \in LogThreads, WriteLog(t) PROVE LogInv'
  <2>1. /\ lpc[t].at = "write"
        /\ log' = IF log_fd THEN [own |-> file_buffer = t, alone |-> ~crossed[t]] ELSE log
        /\ lwmutex' = IF lpc[t].locked THEN AfterUnlock(lwmutex, t) ELSE lwmutex
        /\ lpc' = [lpc EXCEPT ![t] = [at |-> "out", locked |-> FALSE]]
        /\ crossed' = [crossed EXCEPT ![t] = FALSE]
        /\ UNCHANGED <<creations, mutex_ready, file_buffer, log_fd, started, early>>
    BY <1>10 DEF WriteLog
  <2>2. /\ lpc'[t].at = "out" /\ ~lpc'[t].locked
        /\ \A u \in LogThreads : u # t => lpc'[u] = lpc[u] /\ crossed'[u] = crossed[u]
    BY <1>0, <2>1 DEF LogTypeOK
  <2>3. LogTypeOK'
    BY <1>0, <2>1 DEF LogTypeOK
  <2>4. BufferIsOwn'
    BY <1>0, <2>1, <2>2 DEF BufferIsOwn, Writers
  <2>5. LockIsHeld'
    <3>1. creations = 0 => lwmutex' = "none"
      BY <1>0, <2>1, LogAssumption DEF LockIsHeld, AfterUnlock
    <3>2. ASSUME creations <= 1, NEW u \in LogThreads, lpc'[u].locked PROVE lwmutex' = u
      <4>1. u # t /\ lwmutex = u
        BY <1>0, <2>2, <3>2 DEF LockIsHeld
      <4>2. lwmutex # t
        BY <4>1
      <4>. QED
        BY <2>1, <4>1, <4>2 DEF AfterUnlock
    <3>. QED
      BY <1>0, <2>1, <3>1, <3>2 DEF LockIsHeld
  <2>6. MainCreates'
    BY <1>0, <2>1, <2>2 DEF MainCreates
  <2>7. log'.alone => log'.own
    <3>1. CASE log_fd
      <4>1. t \in Writers
        BY <2>1 DEF Writers
      <4>2. ~crossed[t] => file_buffer = t
        BY <1>0, <4>1 DEF BufferIsOwn
      <4>3. log'.own = (file_buffer = t) /\ log'.alone = ~crossed[t]
        BY <2>1, <3>1
      <4>. QED
        BY <4>2, <4>3
    <3>2. CASE ~log_fd
      BY <2>1, <3>2 DEF LogInv
    <3>. QED
      BY <3>1, <3>2
  <2>. QED
    BY <2>3, <2>4, <2>5, <2>6, <2>7 DEF LogInv
<1>11. CASE UNCHANGED logVars
  BY <1>0, <1>11 DEF logVars, LogInv, LogTypeOK, BufferIsOwn, Writers, LockIsHeld, MainCreates
<1>. QED
  BY <1>1, <1>2, <1>3, <1>4, <1>5, <1>6, <1>7, <1>8, <1>9, <1>10, <1>11 DEF LogNext, LogStep

LEMMA LogHolds == LogInv => LinesAreOwn /\ LockCreatedOnce
<1>. SUFFICES ASSUME LogInv PROVE LinesAreOwn /\ LockCreatedOnce
  OBVIOUS
<1>1. LockCreatedOnce
  BY DEF LogInv, MainCreates, LockCreatedOnce
<1>2. ASSUME creations <= 1 PROVE Cardinality({t \in Writers : lpc[t].locked}) <= 1
  <2>. DEFINE S == {t \in Writers : lpc[t].locked}
  <2>1. S \subseteq {lwmutex}
    BY <1>2 DEF LogInv, LockIsHeld, Writers
  <2>2. IsFiniteSet({lwmutex}) /\ Cardinality({lwmutex}) = 1
    BY FS_Singleton
  <2>. HIDE DEF S
  <2>3. Cardinality(S) <= Cardinality({lwmutex})
    BY <2>1, <2>2, FS_Subset
  <2>. QED
    BY <2>2, <2>3 DEF S
<1>. QED
  BY <1>1, <1>2 DEF LogInv, LinesAreOwn
------------------------------------------------------------------------------
(* pthread_once.                                                            *)

OnceTypeOK ==
  /\ once_control \in {0, 1}
  /\ onpc \in [OnceCallers -> {"idle", "inside", "back"}]

\* While the word is 0 nobody has called the routine; once it is 1, the routine
\* was called once and is done or in the hands of one caller.
OnceIInv ==
  /\ OnceTypeOK
  /\ once_control = 0 =>
       runs = 0 /\ \A t \in OnceCallers : onpc[t] = "idle"
  /\ once_control = 1 =>
       runs = 1 /\ (routine = "done" \/ \E u \in OnceCallers : onpc[u] = "inside")

\* What the atomic swap returns: the routine is for whoever found a 0.
LEMMA SwapSets ==
  \A word : TestAndSet(word).word = 1 /\ TestAndSet(word).run = (word = 0)
BY DEF TestAndSet

\* The first word is 0 and nobody has called.
LEMMA OnceStarts == OnceInit => OnceIInv
BY DEF OnceInit, OnceIInv, OnceTypeOK

\* A call, by whichever thread and in whatever state of the others, keeps the
\* invariant: the swap hands the routine to one caller.
LEMMA CallKeeps ==
  ASSUME OnceIInv, NEW t \in OnceCallers, CallOnce(t)
  PROVE  OnceIInv'
<1>1. once_control' = 1
  BY SwapSets DEF CallOnce
<1>2. CASE once_control = 0
  <2>1. onpc' = [onpc EXCEPT ![t] = "inside"] /\ runs' = runs + 1
    BY <1>2, SwapSets DEF CallOnce
  <2>2. runs' = 1
    BY <1>2, <2>1 DEF OnceIInv
  <2>3. onpc'[t] = "inside" /\ OnceTypeOK'
    BY <1>1, <2>1 DEF OnceIInv, OnceTypeOK
  <2>. QED
    BY <1>1, <2>2, <2>3 DEF OnceIInv
<1>3. CASE once_control # 0
  <2>1. onpc[t] = "idle" /\ onpc' = [onpc EXCEPT ![t] = "back"]
    BY <1>3, SwapSets DEF CallOnce
  <2>2. UNCHANGED <<routine, runs>>
    BY <1>3, SwapSets DEF CallOnce
  <2>3. OnceTypeOK'
    BY <1>1, <2>1 DEF OnceIInv, OnceTypeOK
  <2>4. \A u \in OnceCallers : onpc[u] = "inside" => onpc'[u] = "inside"
    BY <2>1 DEF OnceIInv, OnceTypeOK
  <2>5. once_control = 1
    BY <1>3 DEF OnceIInv, OnceTypeOK
  <2>. QED
    BY <1>1, <2>2, <2>3, <2>4, <2>5 DEF OnceIInv
<1>. QED
  BY <1>2, <1>3

\* A step of any caller keeps the invariant.
LEMMA OnceKeeps == OnceIInv /\ [OnceNext]_onceVars => OnceIInv'
<1>. SUFFICES ASSUME OnceIInv, [OnceNext]_onceVars PROVE OnceIInv'
  OBVIOUS
<1>1. ASSUME NEW t \in OnceCallers, CallOnce(t) PROVE OnceIInv'
  BY <1>1, CallKeeps
<1>2. ASSUME NEW t \in OnceCallers, RoutineReturns(t) PROVE OnceIInv'
  <2>1. once_control = 1
    BY <1>2 DEF RoutineReturns, OnceIInv, OnceTypeOK
  <2>. QED
    BY <1>2, <2>1 DEF RoutineReturns, OnceIInv, OnceTypeOK
<1>3. ASSUME NEW t \in OnceCallers, CallAgain(t) PROVE OnceIInv'
  <2>1. once_control = 1
    BY <1>3 DEF CallAgain, OnceIInv, OnceTypeOK
  <2>2. \A u \in OnceCallers : onpc[u] = "inside" => onpc'[u] = "inside"
    BY <1>3 DEF CallAgain, OnceIInv, OnceTypeOK
  <2>3. OnceTypeOK'
    BY <1>3 DEF CallAgain, OnceIInv, OnceTypeOK
  <2>. QED
    BY <1>3, <2>1, <2>2, <2>3 DEF CallAgain, OnceIInv
<1>4. CASE UNCHANGED onceVars
  BY <1>4 DEF onceVars, OnceIInv, OnceTypeOK
<1>. QED
  BY <1>1, <1>2, <1>3, <1>4 DEF OnceNext

\* pthread_once_soloader calls the routine at most once, and whoever is back
\* finds it done or running, for any number of callers.
THEOREM OnceSafe == OnceSpec => []OnceHolds
<1>1. OnceIInv => OnceHolds
  <2>. SUFFICES ASSUME OnceIInv PROVE OnceHolds
    OBVIOUS
  <2>1. RunsOnce
    BY DEF OnceIInv, OnceTypeOK, RunsOnce
  <2>2. BackAfterCall
    BY DEF OnceIInv, OnceTypeOK, BackAfterCall
  <2>. QED
    BY <2>1, <2>2 DEF OnceHolds
<1>. QED
  BY OnceStarts, OnceKeeps, <1>1, PTL DEF OnceSpec

------------------------------------------------------------------------------
(* Atomic words.                                                            *)

\* The tokens and the word, all different: what is exchanged is never copied.
AtomicTypeOK ==
  /\ aword \in Tokens
  /\ token \in [Swappers -> Tokens]
  /\ old_value \in [Swappers -> Tokens]

AtomicIInv == AtomicTypeOK /\ TokensAreExchanged

\* Each thread starts with a token of its own, and the word with another.
LEMMA AtomicStarts == AtomicInit => AtomicIInv
BY SwappersAssumption
   DEF AtomicInit, AtomicIInv, AtomicTypeOK, TokensAreExchanged, Tokens

\* Taking the word's token and leaving one's own keeps all tokens different.
LEMMA ExchangeKeeps ==
  ASSUME AtomicIInv, NEW t \in Swappers,
         token' = [token EXCEPT ![t] = aword], aword' = token[t]
  PROVE  /\ aword' \in Tokens /\ token' \in [Swappers -> Tokens]
         /\ TokensAreExchanged'
<1>1. aword' \in Tokens /\ token' \in [Swappers -> Tokens]
  BY DEF AtomicIInv, AtomicTypeOK
<1>2. \A u \in Swappers : token'[u] = IF u = t THEN aword ELSE token[u]
  BY DEF AtomicIInv, AtomicTypeOK
<1>3. \A u \in Swappers : token'[u] # aword'
  BY <1>2 DEF AtomicIInv, TokensAreExchanged
<1>4. \A u, v \in Swappers : u # v => token'[u] # token'[v]
  BY <1>2 DEF AtomicIInv, TokensAreExchanged
<1>. QED
  BY <1>1, <1>3, <1>4 DEF TokensAreExchanged

\* A step of any thread keeps the invariant; the compare of the swap is what
\* makes the value read before the value in the word now.
LEMMA AtomicKeeps == AtomicIInv /\ [AtomicNext]_atomicVars => AtomicIInv'
<1>. SUFFICES ASSUME AtomicIInv, [AtomicNext]_atomicVars PROVE AtomicIInv'
  OBVIOUS
<1>1. ASSUME NEW t \in Swappers, ReadWord(t) PROVE AtomicIInv'
  BY <1>1 DEF ReadWord, AtomicIInv, AtomicTypeOK, TokensAreExchanged
<1>2. ASSUME NEW t \in Swappers, Compare_and_swap(t) PROVE AtomicIInv'
  <2>1. CASE Swaps(aword, old_value[t])
    <3>1. token' = [token EXCEPT ![t] = aword] /\ aword' = token[t]
      BY <1>2, <2>1 DEF Compare_and_swap, Swaps
    <3>2. old_value' = old_value
      BY <1>2 DEF Compare_and_swap
    <3>. QED
      BY <3>1, <3>2, ExchangeKeeps DEF AtomicIInv, AtomicTypeOK
  <2>2. CASE ~Swaps(aword, old_value[t])
    BY <1>2, <2>2 DEF Compare_and_swap, AtomicIInv, AtomicTypeOK, TokensAreExchanged
  <2>. QED
    BY <2>1, <2>2
<1>3. ASSUME NEW t \in Swappers, __atomic_cmpxchg(t) PROVE AtomicIInv'
  <2>1. token' = [token EXCEPT ![t] = aword] /\ aword' = token[t] /\ old_value' = old_value
    BY <1>3 DEF __atomic_cmpxchg
  <2>. QED
    BY <2>1, ExchangeKeeps DEF AtomicIInv, AtomicTypeOK
<1>4. CASE UNCHANGED atomicVars
  BY <1>4 DEF atomicVars, AtomicIInv, AtomicTypeOK, TokensAreExchanged
<1>. QED
  BY <1>1, <1>2, <1>3, <1>4 DEF AtomicNext

\* No interleaving of swaps, however the word changes and changes back, loses a
\* token or hands one to two threads, for any number of threads.
THEOREM AtomicSafe == AtomicSpec => []TokensAreExchanged
<1>1. AtomicIInv => TokensAreExchanged
  BY DEF AtomicIInv
<1>. QED
  BY AtomicStarts, AtomicKeeps, <1>1, PTL DEF AtomicSpec

------------------------------------------------------------------------------
(* The services together.                                                  *)

\* Whichever service runs, the others keep still.
LEMMA OneRuns ==
  [Next]_allVars =>
    /\ [CondNext]_condVars /\ [OnceNext]_onceVars /\ [SemNext]_semVars /\ [AtomicNext]_atomicVars
    /\ [AttrNext]_attrVars /\ [ErrnoNext]_errnoVars /\ [LogNext]_logVars
<1>. SUFFICES ASSUME [Next]_allVars
              PROVE  /\ [CondNext]_condVars /\ [OnceNext]_onceVars /\ [SemNext]_semVars
                     /\ [AtomicNext]_atomicVars /\ [AttrNext]_attrVars /\ [ErrnoNext]_errnoVars
                     /\ [LogNext]_logVars
  OBVIOUS
<1>1. CASE Next
  BY <1>1, Zenon DEF Next, Others
<1>2. CASE UNCHANGED allVars
  BY <1>2 DEF allVars
<1>. QED
  BY <1>1, <1>2

\* In every unit, for any threads and any table.
ThreadsInv ==
  /\ CondInv /\ OnceIInv /\ SemInv /\ AtomicIInv /\ AttrInv /\ ErrnoInv /\ LogInv

LEMMA ThreadsKept == Spec => []ThreadsInv
<1>1. Init => ThreadsInv
  BY CondStarts, OnceStarts, SemStarts, AtomicStarts, AttrStarts, ErrnoStarts, LogStarts
  DEF Init, ThreadsInv
<1>2. ThreadsInv /\ [Next]_allVars => ThreadsInv'
  <2>. SUFFICES ASSUME ThreadsInv, [Next]_allVars PROVE ThreadsInv'
    OBVIOUS
  <2>1. /\ [CondNext]_condVars /\ [OnceNext]_onceVars /\ [SemNext]_semVars /\ [AtomicNext]_atomicVars
        /\ [AttrNext]_attrVars /\ [ErrnoNext]_errnoVars /\ [LogNext]_logVars
    BY OneRuns
  <2>2. CondInv'
    BY <2>1, CondKeeps DEF ThreadsInv
  <2>3. OnceIInv'
    BY <2>1, OnceKeeps DEF ThreadsInv
  <2>4. SemInv'
    BY <2>1, SemKeeps DEF ThreadsInv
  <2>5. AtomicIInv'
    BY <2>1, AtomicKeeps DEF ThreadsInv
  <2>6. AttrInv'
    BY <2>1, AttrKeeps DEF ThreadsInv
  <2>7. ErrnoInv'
    BY <2>1, ErrnoKeeps DEF ThreadsInv
  <2>8. LogInv'
    BY <2>1, LogKeeps DEF ThreadsInv
  <2>. QED
    BY <2>2, <2>3, <2>4, <2>5, <2>6, <2>7, <2>8 DEF ThreadsInv
<1>. QED
  BY <1>1, <1>2, PTL DEF Spec

\* Conditions, semaphores and attributes, created on first use by whichever of
\* the threads comes first, are created once and give what was asked of them,
\* for any number of threads, conditions and units.
THEOREM ThreadObjectsAreReal == Spec => []ObjectsAreReal
<1>1. ThreadsInv => ObjectsAreReal
  BY CondHolds DEF ThreadsInv, SemInv, AttrInv, ObjectsAreReal
<1>. QED
  BY ThreadsKept, <1>1, PTL

\* Every thread reads its own error through the shared table while no thread
\* stores, and finds its own line in the log while no other is in the printf,
\* for any number of threads and any table.
THEOREM ThreadLinesAndErrorsAreOwn == Spec => []LinesAndErrorsAreOwn
<1>1. ThreadsInv => LinesAndErrorsAreOwn
  BY LogHolds DEF ThreadsInv, ErrnoInv, LinesAndErrorsAreOwn
<1>. QED
  BY ThreadsKept, <1>1, PTL
==============================================================================

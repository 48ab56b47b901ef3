-------------------------------- MODULE CondVar --------------------------------
(***************************************************************************)
(* The condition variables of reimpl/pthr.c under the use they are made    *)
(* for: threads share items behind a mutex, wait while there are none, and *)
(* signal when they add one.  A Bionic condition is one word, 0 or the     *)
(* address of a Vita condition that the first call creates.  The mutex is  *)
(* the one of PthreadMutex, as IdealMutex promises it.                     *)
(***************************************************************************)
EXTENDS Integers, FiniteSets

CONSTANTS
  CondUsers,     \* threads
  MaxItems,      \* bound of the items
  MaxConds,      \* bound of the conditions that can exist at once
  NoUser         \* the owner of a free mutex

ASSUME CondAssumption ==
  /\ NoUser \notin CondUsers
  /\ MaxItems \in Nat
  /\ MaxConds \in Nat \ {0}

VARIABLES
  cword,         \* the engine's word: 0, or the address of a condition
  conds,         \* the addresses that hold a condition
  asleep,        \* asleep[a]: the threads that wait on the condition at a
  cowner,        \* owner of the mutex
  items,         \* what the threads wait for
  held,          \* whether the threads signal before they unlock
  cpc            \* where each thread is, and in which call

condVars == <<cword, conds, asleep, cowner, items, held, cpc>>

Calls == {"wait", "timedwait", "signal", "broadcast"}
At(pc) == {t \in CondUsers : cpc[t][1] = pc}
Goto(t, pc) == cpc' = [cpc EXCEPT ![t][1] = pc]
Asleep(t) == \E a \in 1..MaxConds : t \in asleep[a]

\* Threads that signal after they unlock have initialized the condition first;
\* the others leave that to the first call.
CondInitial ==
  /\ held \in BOOLEAN
  /\ cword = IF held THEN 0 ELSE 1
  /\ conds = {cword} \ {0}
  /\ asleep = [a \in 1..MaxConds |-> {}]
  /\ cowner = NoUser
  /\ items = 0
  /\ cpc = [t \in CondUsers |-> <<"out", "wait">>]

LockIt(t) ==
  /\ cpc[t][1] = "out" \/ (cpc[t][1] = "asleep" /\ ~Asleep(t))
  /\ cowner = NoUser
  /\ cowner' = t
  /\ Goto(t, "in")
  /\ UNCHANGED <<cword, conds, asleep, items, held>>

UnlockIt(t) ==
  /\ cpc[t][1] = "leave"
  /\ cowner' = IF held THEN NoUser ELSE cowner
  /\ Goto(t, "out")
  /\ UNCHANGED <<cword, conds, asleep, items, held>>

Put(t) ==
  /\ cpc[t][1] = "in" /\ items < MaxItems
  /\ items' = items + 1
  /\ cowner' = IF held THEN t ELSE NoUser
  /\ \E call \in {"signal", "broadcast"} : cpc' = [cpc EXCEPT ![t] = <<"test", call>>]
  /\ UNCHANGED <<cword, conds, asleep, held>>

Take(t) ==
  /\ cpc[t][1] = "in" /\ items > 0
  /\ items' = items - 1
  /\ cowner' = NoUser
  /\ Goto(t, "out")
  /\ UNCHANGED <<cword, conds, asleep, held>>

CallWait(t) ==
  /\ cpc[t][1] = "in" /\ items = 0
  /\ \E call \in {"wait", "timedwait"} : cpc' = [cpc EXCEPT ![t] = <<"test", call>>]
  /\ UNCHANGED <<cword, conds, asleep, cowner, items, held>>

\* _cond_t_static_init: the test of the word, the allocation whose address it
\* stores in it, and pthread_cond_init on what the word then names.
AlwaysCreates(word) == "create"
NextOfTest(word) == IF word # 0 THEN "use" ELSE "create"
TestCond(t) ==
  /\ cpc[t][1] = "test"
  /\ Goto(t, NextOfTest(cword))
  /\ UNCHANGED <<cword, conds, asleep, cowner, items, held>>

CreateCond(t) ==
  /\ cpc[t][1] = "create"
  /\ cword' \in (1..MaxConds) \ (conds \cup {cword})
  /\ Goto(t, "init")
  /\ UNCHANGED <<conds, asleep, cowner, items, held>>

InitCond(t) ==
  /\ cpc[t][1] = "init"
  /\ conds' = conds \cup {cword}
  /\ Goto(t, "use")
  /\ UNCHANGED <<cword, asleep, cowner, items, held>>

\* pthread_cond_wait and _timedwait release the mutex and sleep in one step.
Wait(t) ==
  /\ cpc[t] \in {<<"use", "wait">>, <<"use", "timedwait">>}
  /\ asleep' = [asleep EXCEPT ![cword] = @ \cup {t}]
  /\ cowner' = NoUser
  /\ Goto(t, "asleep")
  /\ UNCHANGED <<cword, conds, items, held>>

TimeOut(t) ==
  /\ cpc[t] = <<"asleep", "timedwait">> /\ Asleep(t)
  /\ asleep' = [a \in 1..MaxConds |-> asleep[a] \ {t}]
  /\ UNCHANGED <<cword, conds, cowner, items, held, cpc>>

\* The threads a call wakes: one sleeper, or all.
Wakes(call, sleepers) ==
  IF call = "broadcast" \/ sleepers = {} THEN {sleepers} ELSE {{s} : s \in sleepers}
Signal(t) ==
  /\ cpc[t] \in {<<"use", "signal">>, <<"use", "broadcast">>}
  /\ \E woken \in Wakes(cpc[t][2], asleep[cword]) :
       asleep' = [asleep EXCEPT ![cword] = @ \ woken]
  /\ Goto(t, "leave")
  /\ UNCHANGED <<cword, conds, cowner, items, held>>

\* pthread_cond_destroy, when nobody uses the condition any more; the next
\* call creates it again.
DestroyCond(t) ==
  /\ held /\ At("out") = CondUsers /\ cword # 0
  /\ conds' = conds \ {cword}
  /\ cword' = 0
  /\ UNCHANGED <<asleep, cowner, items, held, cpc>>

CondStep(t) ==
  \/ UnlockIt(t) \/ Put(t) \/ Take(t) \/ CallWait(t) \/ TestCond(t)
  \/ CreateCond(t) \/ InitCond(t) \/ Wait(t) \/ Signal(t)
CondNext == \E t \in CondUsers : LockIt(t) \/ CondStep(t) \/ TimeOut(t) \/ DestroyCond(t)

------------------------------------------------------------------------------
\* Threads whose calls are ordered by the mutex, or who initialized the
\* condition first, never use a word whose condition is not created yet, never
\* create a second one, and never sleep on one the word no longer names.
OneCondition ==
  /\ \A t \in At("use") : cword \in conds
  /\ conds \subseteq {cword}
  /\ \A a \in 1..MaxConds : asleep[a] # {} => a = cword

\* No wake-up is lost: where there are items, every thread asleep wakes or the
\* items are taken by others.
SleeperIsServed ==
  \A t \in CondUsers : (Asleep(t) /\ items > 0) ~> (~Asleep(t) \/ items = 0)
==============================================================================

------------------------------- MODULE MCThreads -------------------------------
(***************************************************************************)
(* The thread services of the bridge for TLC.  They share no state, so a   *)
(* behaviour runs one of them, `unit`, and leaves the others alone.        *)
(***************************************************************************)
EXTENDS CondVar, Once, Semaphore, AtomicWord, ThreadAttr, ErrnoTable, LogFile

VARIABLE unit

MCTable == <<[newlib |-> "OK", bionic |-> 0, strerror |-> "Success"],
             [newlib |-> "ENOENT", bionic |-> 2, strerror |-> "No such file or directory"],
             [newlib |-> "EOPNOTSUPP", bionic |-> 95, strerror |-> "on transport endpoint"],
             [newlib |-> "ENOTSUP", bionic |-> 95, strerror |-> "Operation not supported"]>>

Others(u) ==
  /\ unit = u /\ unit' = unit
  /\ u # "cond" => UNCHANGED condVars
  /\ u # "once" => UNCHANGED onceVars
  /\ u # "sem" => UNCHANGED semVars
  /\ u # "word" => UNCHANGED atomicVars
  /\ u # "attr" => UNCHANGED attrVars
  /\ u # "errno" => UNCHANGED errnoVars
  /\ u # "log" => UNCHANGED logVars

Init ==
  /\ CondInitial /\ OnceInit /\ SemInitial /\ AtomicInit /\ AttrInit /\ ErrnoInit /\ LogInit
  /\ unit \in {"cond", "once", "sem", "word", "attr", "errno", "log"}
  /\ unit # "cond" => ~held

Next ==
  \/ Others("cond") /\ CondNext
  \/ Others("once") /\ OnceNext
  \/ Others("sem") /\ SemNext
  \/ Others("word") /\ AtomicNext
  \/ Others("attr") /\ AttrNext
  \/ Others("errno") /\ ErrnoNext
  \/ Others("log") /\ LogNext

allVars == <<condVars, onceVars, semVars, atomicVars, attrVars, errnoVars, logVars, unit>>

\* Threads inside a call run on, and a lock that is free again and again is
\* granted; the clock goes on, and a waiter whose unit is there or whose time is
\* up returns.  This is asked of the unit that runs.
CondFairness == \A t \in CondUsers :
  WF_condVars(Others("cond") /\ CondStep(t)) /\ SF_condVars(Others("cond") /\ LockIt(t))
SemFairness ==
  /\ WF_semVars(Others("sem") /\ Tick)
  /\ \A t \in SemUsers : WF_semVars(Others("sem") /\ (Acquire(t) \/ Expire(t)))
LogFairness == \A t \in LogThreads :
  WF_logVars(Others("log") /\ LogStep(t)) /\ SF_logVars(Others("log") /\ Lock(t))
Spec == Init /\ [][Next]_allVars /\ CondFairness /\ SemFairness /\ LogFairness

\* What is created on first use exists when it is used, exists once, and gives
\* and keeps what was asked of it: conditions, semaphores and attributes.
ObjectsAreReal == OneCondition /\ UnitsConserved /\ DetachedAsAsked /\ AttrsOwned

\* The log and errno are shared by all threads, yet a thread reads its own
\* error and writes its own line, within what the code keeps apart.
LinesAndErrorsAreOwn ==
  OwnErrorIsRead /\ LinesAreOwn /\ LockCreatedOnce

\* Whoever waits is served: on a condition with items, on a timed semaphore,
\* and for the log's lock.
WaitersAreServed == SleeperIsServed /\ TimedWaitReturns /\ LogLockGranted
==============================================================================

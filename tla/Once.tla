---------------------------------- MODULE Once ----------------------------------
(***************************************************************************)
(* pthread_once_soloader: the control word is swapped for 1 in one step,   *)
(* and whoever found a 0 there runs the routine.                           *)
(***************************************************************************)
EXTENDS Integers

CONSTANT OnceCallers

VARIABLES
  once_control,
  routine,       \* "never", "running" or "done"
  runs,          \* how often the routine was called
  onpc           \* onpc[t]: "idle", "inside" the routine or "back"

onceVars == <<once_control, routine, runs, onpc>>

OnceInit ==
  /\ once_control = 0
  /\ routine = "never"
  /\ runs = 0
  /\ onpc = [t \in OnceCallers |-> "idle"]

\* __sync_lock_test_and_set: the word after it, and whether the routine runs.
TestWithoutSet(word) == [word |-> word, run |-> word = 0]
TestAndSet(word) == [word |-> 1, run |-> word = 0]

CallOnce(t) ==
  /\ onpc[t] = "idle"
  /\ once_control' = TestAndSet(once_control).word
  /\ IF TestAndSet(once_control).run
     THEN /\ onpc' = [onpc EXCEPT ![t] = "inside"]
          /\ routine' = "running"
          /\ runs' = runs + 1
     ELSE /\ onpc' = [onpc EXCEPT ![t] = "back"]
          /\ UNCHANGED <<routine, runs>>

RoutineReturns(t) ==
  /\ onpc[t] = "inside"
  /\ onpc' = [onpc EXCEPT ![t] = "back"]
  /\ routine' = "done"
  /\ UNCHANGED <<once_control, runs>>

\* A thread that is back may call again.
CallAgain(t) ==
  /\ onpc[t] = "back"
  /\ onpc' = [onpc EXCEPT ![t] = "idle"]
  /\ UNCHANGED <<once_control, routine, runs>>

OnceNext == \E t \in OnceCallers : CallOnce(t) \/ RoutineReturns(t) \/ CallAgain(t)
OnceSpec == OnceInit /\ [][OnceNext]_onceVars

------------------------------------------------------------------------------
\* However the callers interleave, the routine is called at most once.
RunsOnce == runs <= 1

\* Whoever is back from pthread_once finds the routine done, or still running
\* in the one thread that called it: the code lets second callers pass while
\* it runs, where POSIX makes them wait, but never before it was called.
BackAfterCall ==
  (\E t \in OnceCallers : onpc[t] = "back") =>
    routine = "done" \/ \E u \in OnceCallers : onpc[u] = "inside"

\* What the code keeps of pthread_once, whatever the callers' order.
OnceHolds == RunsOnce /\ BackAfterCall
==============================================================================

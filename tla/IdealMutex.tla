----------------------------- MODULE IdealMutex -----------------------------
(***************************************************************************)
(* What a game thread may expect of a pthread mutex: it is held by one     *)
(* thread at a time, by that thread to some depth, and whoever takes it    *)
(* first gives it back completely before another has it.                   *)
(***************************************************************************)
EXTENDS Naturals

CONSTANT Threads

VARIABLE depth    \* how often each thread holds the mutex

Init == depth = [t \in Threads |-> 0]

Acquire(t) ==
    /\ \A u \in Threads \ {t} : depth[u] = 0
    /\ depth' = [depth EXCEPT ![t] = @ + 1]

Release(t) ==
    /\ depth[t] > 0
    /\ depth' = [depth EXCEPT ![t] = @ - 1]

Next == \E t \in Threads : Acquire(t) \/ Release(t)

Spec == Init /\ [][Next]_depth
=============================================================================

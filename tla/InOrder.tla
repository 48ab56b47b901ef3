-------------------------------- MODULE InOrder --------------------------------
(***************************************************************************)
(* What a loop over an array picks out: controls.c goes through fingers    *)
(* and buttons by their places and makes a call for some of them.          *)
(***************************************************************************)
EXTENDS Integers, FiniteSets

\* How many of the places S the loop has picked when it has looked at place i.
Rank(S, i) == Cardinality({j \in S : j =< i})

\* The places S, a finite set of integers, in increasing order.
InOrder(S) == [k \in 1..Cardinality(S) |-> CHOOSE i \in S : Rank(S, i) = k]
================================================================================

-------------------------------- MODULE ScanDir --------------------------------
(***************************************************************************)
(* scandir_soloader in reimpl/io.c.  Each thread scans a directory of its  *)
(* own, but the comparator that qsort's callback calls is one global.      *)
(***************************************************************************)
EXTENDS Integers, FiniteSets

CONSTANTS
  Scanners,
  MaxEntries,    \* bound of the entries of a directory
  FirstCapacity  \* 16
ASSUME ScanAssumption ==
  MaxEntries \in Nat /\ FirstCapacity \in Nat \ {0} /\ "nobody" \notin Scanners

VARIABLES
  scan,             \* scan[t]: the call of t
  scandir_compare,  \* whose comparator is in the global, or Nobody
  mixed             \* threads that sort while another sets the global

scanVars == <<scan, scandir_compare, mixed>>

Nobody == "nobody"
NoScan == [at |-> "out", left |-> 0, count |-> 0, capacity |-> 0, dir |-> FALSE,
           array |-> FALSE, entries |-> 0, order |-> "none", result |-> "none"]

ScanInit ==
  /\ scan = [t \in Scanners |-> NoScan]
  /\ scandir_compare = Nobody
  /\ mixed = {}

Step(t, s) == scan' = [scan EXCEPT ![t] = s]
Quiet == UNCHANGED <<scandir_compare, mixed>>

OpenDir(t) ==
  /\ scan[t].at = "out" /\ scan[t].entries = 0
  /\ \/ \E n \in 0..MaxEntries : Step(t, [NoScan EXCEPT !.at = "alloc", !.left = n, !.dir = TRUE])
     \/ Step(t, [NoScan EXCEPT !.result = "failed"])
  /\ Quiet

AllocateEntries(t) ==
  /\ scan[t].at = "alloc"
  /\ \/ Step(t, [scan[t] EXCEPT !.at = "read", !.capacity = FirstCapacity, !.array = TRUE])
     \/ Step(t, [scan[t] EXCEPT !.at = "out", !.dir = FALSE, !.result = "failed"])
  /\ Quiet

\* The entry is converted, and kept unless the filter refuses it; the array
\* grows when it is full.  The copy and the growth may lack memory.
IsFull(s) == s.count = s.capacity
ReadEntry(t) ==
  /\ scan[t].at = "read" /\ scan[t].left > 0
  /\ LET s == scan[t]
     IN \/ Step(t, [s EXCEPT !.left = @ - 1])
        \/ Step(t, [s EXCEPT !.at = "failure", !.left = @ - 1])
        \/ Step(t, [s EXCEPT !.left = @ - 1, !.count = @ + 1, !.entries = @ + 1,
                             !.capacity = IF IsFull(s) THEN 2 * @ ELSE @])
  /\ Quiet

\* The failure label: what was collected is freed.
Failure(t) ==
  /\ scan[t].at = "failure"
  /\ Step(t, [scan[t] EXCEPT !.at = "out", !.dir = FALSE, !.array = FALSE,
                             !.entries = 0, !.result = "failed"])
  /\ Quiet

CloseDir(t) ==
  /\ scan[t].at = "read" /\ scan[t].left = 0
  /\ \E compare \in BOOLEAN :
       Step(t, [scan[t] EXCEPT !.dir = FALSE,
                  !.at = IF compare /\ scan[t].count > 1 THEN "set" ELSE "return"])
  /\ Quiet

\* scandir_compare = compare
SetCompare(t) ==
  /\ scan[t].at = "set"
  /\ scandir_compare' = t
  /\ mixed' = {u \in Scanners : u # t /\ scan[u].at \in {"sort", "clear"}} \cup
              (IF \E u \in Scanners \ {t} : scan[u].at \in {"sort", "clear"}
               THEN mixed \cup {t} ELSE mixed \ {t})
  /\ Step(t, [scan[t] EXCEPT !.at = "sort"])

\* qsort: each comparison calls whatever the global names then.
Compare(t) ==
  /\ scan[t].at = "sort"
  /\ \E last \in BOOLEAN :
       Step(t, [scan[t] EXCEPT
                  !.order = CASE @ \in {"crash", "foreign"} -> @
                              [] scandir_compare = Nobody -> "crash"
                              [] scandir_compare # t -> "foreign"
                              [] OTHER -> "own",
                  !.at = IF last THEN "clear" ELSE "sort"])
  /\ Quiet

\* scandir_compare = NULL
ClearCompare(t) ==
  /\ scan[t].at = "clear"
  /\ scandir_compare' = Nobody
  /\ mixed' = mixed \cup {u \in Scanners : u # t /\ scan[u].at \in {"sort", "clear"}}
  /\ Step(t, [scan[t] EXCEPT !.at = "return"])

ReturnList(t) ==
  /\ scan[t].at = "return"
  /\ Step(t, [scan[t] EXCEPT !.at = "out", !.result = "list"])
  /\ Quiet

\* The caller frees the list it got.
FreeList(t) ==
  /\ scan[t].at = "out" /\ scan[t].result = "list"
  /\ Step(t, NoScan)
  /\ mixed' = mixed \ {t}
  /\ UNCHANGED scandir_compare

ScanNext == \E t \in Scanners :
  \/ OpenDir(t) \/ AllocateEntries(t) \/ ReadEntry(t) \/ Failure(t) \/ CloseDir(t)
  \/ SetCompare(t) \/ Compare(t) \/ ClearCompare(t) \/ ReturnList(t) \/ FreeList(t)

------------------------------------------------------------------------------
\* A list is sorted by its own comparator, and no comparison calls through a
\* null global, unless two threads sort at once.
SortedByOwn == \A t \in Scanners \ mixed : scan[t].order \in {"none", "own"}

\* The array never holds more than its capacity, and a call that is over has
\* closed its directory and owns nothing but the list it returned, on each of
\* its ways out.
ScanOwnsNothing ==
  \A t \in Scanners :
    LET s == scan[t]
    IN /\ s.array => s.count <= s.capacity
       /\ s.entries = IF s.result = "failed" THEN 0 ELSE s.count
       /\ s.at = "out" => ~s.dir /\ (s.array = (s.result = "list"))
==============================================================================

---------------------------- MODULE PthreadMutex ----------------------------
(***************************************************************************)
(* The mutex bridge of pthr.c.  The game's mutex is one word.  It holds a  *)
(* Bionic static initializer, a small constant, until the first operation  *)
(* allocates a Vita mutex and stores its address in the word; from then on *)
(* the operations go through to that mutex.                                *)
(*                                                                         *)
(* Each access of the word is a step of its own, because nothing orders    *)
(* the threads that use a static mutex for the first time.  What the game  *)
(* does with the mutex, the allocator and Vita's own mutexes are external. *)
(***************************************************************************)
EXTENDS Integers

CONSTANTS
    Threads,
    Creator,        \* the thread that owns the word's memory
    Cells,          \* BOUND: the addresses malloc can return
    Nobody,
    Initials,       \* what the word may hold when the mutex is created
    Handoff,        \* TRUE: Creator finishes its first operation before any
                    \* other thread uses the mutex
    MaxDepth        \* BOUND: how deep a thread locks a recursive mutex

Kinds == {"NORMAL", "RECURSIVE", "ERRORCHECK"}
Statics == {"0", "0x4000", "0x8000"}

ASSUME MutexAssumption ==
    /\ Creator \in Threads
    /\ Nobody \notin Threads
    /\ Cells \cap (Statics \cup {"garbage"}) = {}
    /\ Initials \subseteq Statics \cup {"garbage"}
    /\ Handoff \in BOOLEAN
    /\ MaxDepth \in Nat \ {0}

VARIABLES
    real_ptr,       \* the word: a static initializer, a cell, or garbage
    heap,           \* the cells: [state, kind, owner, count] of a Vita mutex
    pc,             \* where each thread is in pthr.c
    op,             \* the operation it runs
    kind,           \* its local kind
    obj,            \* the cell it has passed to a Vita mutex function
    held,           \* how many locks the game believes the thread holds
    started,        \* TRUE once threads other than Creator may use the mutex
    usable          \* FALSE while the game has to call pthread_mutex_init first

vars == <<real_ptr, heap, pc, op, kind, obj, held, started, usable>>

Cell(s, k, o, n) == [state |-> s, kind |-> k, owner |-> o, count |-> n]
FreeCell == Cell("free", "NORMAL", Nobody, 0)

Init ==
    /\ real_ptr \in Initials
    /\ heap = [c \in Cells |-> FreeCell]
    /\ pc = [t \in Threads |-> "idle"]
    /\ op = [t \in Threads |-> "lock"]
    /\ kind = [t \in Threads |-> "NORMAL"]
    /\ obj = [t \in Threads |-> Nobody]
    /\ held = [t \in Threads |-> 0]
    /\ started = ~Handoff
    /\ usable = (real_ptr # "garbage")

Goto(t, l) == pc' = [pc EXCEPT ![t] = l]

\* A slip: every word counts as a static initializer.
NeverInitialized(w) == FALSE

\* A slip: only the normal static initializer is recognised.
IsNonZero(w) == w # "0"

\* _bionic_object_is_initialized
IsInitialized(w) == w \notin Statics

\* A slip: Bionic's initializer is used as Vita's kind.
StaticKindRaw(w) == w

\* The kind a static initializer stands for, NORMAL where there is none.
StaticKind(w) ==
    CASE w = "0x4000" -> "RECURSIVE"
      [] w = "0x8000" -> "ERRORCHECK"
      [] OTHER -> "NORMAL"

Live(w) == w \in Cells /\ heap[w].state = "live"

-----------------------------------------------------------------------------
(* The game.                                                               *)

\* A thread relocks a recursive mutex, or an errorcheck mutex by mistake; what
\* it does not do is lock a normal mutex twice.
MayRelock(t) ==
    /\ held[t] < MaxDepth
    /\ IF Live(real_ptr) THEN heap[real_ptr].kind # "NORMAL" ELSE FALSE

Call(t) ==
    /\ pc[t] = "idle"
    /\ usable
    /\ t = Creator \/ started
    /\ \/ /\ held[t] > 0 => MayRelock(t)
          /\ op' = [op EXCEPT ![t] = "lock"]
       \/ /\ held[t] < MaxDepth
          /\ op' = [op EXCEPT ![t] = "trylock"]
    /\ Goto(t, "check")
    /\ UNCHANGED <<real_ptr, heap, kind, obj, held, started, usable>>

\* pthread_mutex_init_soloader, before anyone uses the mutex.
CallInit ==
    /\ pc[Creator] = "idle"
    /\ held[Creator] = 0
    /\ ~started
    /\ op' = [op EXCEPT ![Creator] = "init"]
    /\ Goto(Creator, "check")
    /\ UNCHANGED <<real_ptr, heap, kind, obj, held, started, usable>>

\* The creator starts the other threads once the mutex works.
StartThreads ==
    /\ ~started
    /\ pc[Creator] = "idle"
    /\ usable
    /\ real_ptr \notin Statics
    /\ started' = TRUE
    /\ UNCHANGED <<real_ptr, heap, pc, op, kind, obj, held, usable>>

-----------------------------------------------------------------------------
(* _mutex_t_static_init, which pthread_mutex_init, _lock and _trylock call. *)

\* _mutex_t_static_init returns: pthread_mutex_init is done, the others go on.
Return(t) ==
    IF op[t] = "init"
    THEN Goto(t, "idle") /\ usable' = TRUE
    ELSE Goto(t, "use") /\ usable' = usable

\* The word is looked at first ...
Check(t) ==
    /\ pc[t] = "check"
    /\ IF IsInitialized(real_ptr)
       THEN Return(t)
       ELSE Goto(t, "kind") /\ usable' = usable
    /\ UNCHANGED <<real_ptr, heap, op, kind, obj, held, started>>

\* ... and again for the kind: that of the attribute for pthread_mutex_init,
\* else that of the static initializer, if it is still there.
ChooseKind(t) ==
    /\ pc[t] = "kind"
    /\ \E k \in Kinds \cup {StaticKind(real_ptr)} :
          /\ op[t] # "init" => k = StaticKind(real_ptr)
          /\ kind' = [kind EXCEPT ![t] = k]
    /\ Goto(t, "alloc")
    /\ UNCHANGED <<real_ptr, heap, op, obj, held, started, usable>>

\* The address malloc returns is in the word before there is a mutex at it.
Allocate(t) ==
    /\ pc[t] = "alloc"
    /\ \E c \in Cells :
          /\ heap[c].state = "free"
          /\ heap' = [heap EXCEPT ![c] = Cell("raw", "NORMAL", Nobody, 0)]
          /\ real_ptr' = c
    /\ Goto(t, "create")
    /\ UNCHANGED <<op, kind, obj, held, started, usable>>

\* pthread_mutex_init on whatever address the word holds now.
Create(t) ==
    /\ pc[t] = "create"
    /\ heap' = [heap EXCEPT ![real_ptr] = Cell("live", kind[t], Nobody, 0)]
    /\ Return(t)
    /\ UNCHANGED <<real_ptr, op, kind, obj, held, started>>

-----------------------------------------------------------------------------
(* The operations proper.                                                  *)

\* lock and trylock read the word once more and enter Vita's function.
Use(t) ==
    /\ pc[t] = "use"
    /\ IF Live(real_ptr)
       THEN /\ obj' = [obj EXCEPT ![t] = real_ptr]
            /\ Goto(t, op[t])
       ELSE /\ obj' = obj
            /\ Goto(t, "crashed")
    /\ UNCHANGED <<real_ptr, heap, op, kind, held, started, usable>>

\* Vita's mutex is taken when it is free, or again when it is recursive.
Acquire(t) ==
    /\ pc[t] \in {"lock", "trylock"}
    /\ LET x == heap[obj[t]] IN
          /\ \/ x.owner = Nobody
             \/ x.owner = t /\ x.kind = "RECURSIVE"
          /\ heap' = [heap EXCEPT
                         ![obj[t]] = Cell(x.state, x.kind, t, x.count + 1)]
    /\ held' = [held EXCEPT ![t] = @ + 1]
    /\ Goto(t, "idle")
    /\ UNCHANGED <<real_ptr, op, kind, obj, started, usable>>

\* trylock gives up on a mutex that is held; lock only where the mutex is an
\* errorcheck mutex the thread holds itself.
GiveUp(t) ==
    /\ LET x == heap[obj[t]] IN
          \/ /\ pc[t] = "trylock"
             /\ x.owner # Nobody
             /\ ~(x.owner = t /\ x.kind = "RECURSIVE")
          \/ /\ pc[t] = "lock"
             /\ x.owner = t
             /\ x.kind = "ERRORCHECK"
    /\ Goto(t, "idle")
    /\ UNCHANGED <<real_ptr, heap, op, kind, obj, held, started, usable>>

\* Vita's mutex x after an unlock by t: a recursive or errorcheck mutex of
\* somebody else is left alone.
Released(x, t) ==
    IF x.owner # t /\ x.kind # "NORMAL" THEN x
    ELSE IF x.count > 1 THEN Cell(x.state, x.kind, x.owner, x.count - 1)
    ELSE Cell(x.state, x.kind, Nobody, 0)

\* pthread_mutex_unlock_soloader creates nothing.  The game unlocks what it
\* locked, but Vita's mutex may be another one by now.
Unlock(t) ==
    /\ pc[t] = "idle"
    /\ held[t] > 0
    /\ held' = [held EXCEPT ![t] = @ - 1]
    /\ IF Live(real_ptr)
       THEN /\ heap' = [heap EXCEPT ![real_ptr] = Released(@, t)]
            /\ pc' = pc
       ELSE /\ heap' = heap
            /\ Goto(t, "crashed")
    /\ UNCHANGED <<real_ptr, op, kind, obj, started, usable>>

\* pthread_mutex_destroy_soloader, once the game no longer uses the mutex: the
\* other threads have been joined, and the word is back at 0.
Destroy ==
    /\ \A t \in Threads : pc[t] = "idle" /\ held[t] = 0
    /\ usable
    /\ Live(real_ptr)
    /\ heap' = [heap EXCEPT ![real_ptr] = FreeCell]
    /\ real_ptr' = "0"
    /\ started' = ~Handoff
    /\ usable' = FALSE
    /\ UNCHANGED <<pc, op, kind, obj, held>>

\* One step of the bridge on behalf of t, up to a lock it has to wait for.
Bridge(t) ==
    \/ Check(t) \/ ChooseKind(t) \/ Allocate(t) \/ Create(t) \/ Use(t)
    \/ GiveUp(t)

Next ==
    \/ CallInit
    \/ StartThreads
    \/ Destroy
    \/ \E t \in Threads : Call(t) \/ Bridge(t) \/ Acquire(t) \/ Unlock(t)

Spec == Init /\ [][Next]_vars

LastUnlock(t) == held[t] = 1 /\ Unlock(t)

(* Threads are scheduled; a thread that comes back from the bridge again   *)
(* and again with the mutex held unlocks it at last, and as often as it    *)
(* locked it; and Vita hands a mutex that is freed again and again to each *)
(* of its waiters.                                                         *)
FairSpec ==
    /\ Spec
    /\ \A t \in Threads :
          /\ WF_vars(Bridge(t))
          /\ SF_vars(Acquire(t))
          /\ SF_vars(Unlock(t))
          /\ SF_vars(LastUnlock(t))

-----------------------------------------------------------------------------
(* Properties                                                              *)

\* Every variable keeps its type, and an init never goes on to Vita's lock.
TypeOK ==
    /\ real_ptr \in Statics \cup Cells \cup {"garbage"}
    /\ heap \in [Cells -> [state : {"free", "raw", "live"}, kind : Kinds,
                           owner : Threads \cup {Nobody}, count : Nat]]
    /\ pc \in [Threads -> {"idle", "check", "kind", "alloc", "create", "use",
                           "lock", "trylock", "crashed"}]
    /\ op \in [Threads -> {"lock", "trylock", "init"}]
    /\ kind \in [Threads -> Kinds]
    /\ obj \in [Threads -> Cells \cup {Nobody}]
    /\ held \in [Threads -> Nat]
    /\ started \in BOOLEAN
    /\ usable \in BOOLEAN
    /\ \A t \in Threads : pc[t] = "use" => op[t] # "init"

\* The bridge is a mutex: two threads never both hold it, and it is released
\* as often as it was locked.
Ideal == INSTANCE IdealMutex WITH depth <- held

IdealSpec == Ideal!Spec

\* A lock or trylock operates on a Vita mutex that has been created and that
\* the word points to: what pthr.c says of the word, "after bridging, that word
\* contains a real Vita pthread pointer" (42-43), when an operation relies on it.
UsesRealMutex ==
    \A t \in Threads :
        /\ pc[t] = "use" => Live(real_ptr)
        /\ pc[t] \in {"lock", "trylock"} => obj[t] = real_ptr /\ Live(obj[t])
        /\ pc[t] # "crashed"

\* No Vita mutex is left behind: every allocated cell is the word's, over any
\* number of creations and destructions.
NothingLeaks == \A c \in Cells : heap[c].state # "free" => real_ptr = c

\* Vita's view of the mutex and the game's agree: its owner is the thread that
\* believes to hold it, as many times as it believes.
OwnerAgrees ==
    Live(real_ptr) =>
        \A t \in Threads :
            held[t] = IF heap[real_ptr].owner = t THEN heap[real_ptr].count
                                                  ELSE 0

(* The inductive strengthening of the invariants above, for a mutex that   *)
(* is handed over and starts from a static initializer.                    *)

\* Until the threads are started only Creator runs the bridge; from then on
\* the mutex is there and nobody creates one.
HandoverInv ==
    /\ ~started =>
          \A t \in Threads \ {Creator} : pc[t] = "idle" /\ held[t] = 0
    /\ started =>
          /\ Live(real_ptr)
          /\ \A t \in Threads :
                /\ pc[t] \notin {"kind", "alloc", "create"}
                /\ pc[t] = "check" => op[t] # "init"

\* The word is a static initializer or the one cell that is not free, which
\* holds a mutex except between its allocation and its creation.
WordInv ==
    /\ real_ptr # "garbage"
    /\ pc[Creator] \in {"kind", "alloc"} => real_ptr \in Statics
    /\ pc[Creator] = "create" => real_ptr \in Cells
    /\ real_ptr \in Cells =>
          heap[real_ptr].state = IF pc[Creator] = "create" THEN "raw" ELSE "live"

\* A mutex is held by its owner alone; where there is no mutex nobody holds it.
HeldInv ==
    /\ Live(real_ptr) =>
          (heap[real_ptr].owner = Nobody <=> heap[real_ptr].count = 0)
    /\ ~Live(real_ptr) => \A t \in Threads : held[t] = 0

MutexInv ==
    /\ HandoverInv /\ WordInv /\ HeldInv
    /\ UsesRealMutex /\ NothingLeaks /\ OwnerAgrees

\* A thread that waits for the mutex gets it.
LockIsGranted ==
    \A t \in Threads : pc[t] = "check" /\ op[t] = "lock" ~> pc[t] = "idle"

=============================================================================

------------------------------- MODULE ThreadAttr -------------------------------
(***************************************************************************)
(* Thread attributes and pthread_create in reimpl/pthr.c: a Bionic         *)
(* attribute is a magic number and a pointer to a Vita attribute, which    *)
(* the first call on it allocates.  Bionic's JOINABLE and DETACHED are 0   *)
(* and 1, pthread-embedded's are 1 and 0.                                  *)
(***************************************************************************)
EXTENDS Integers

CONSTANT MaxAttrs      \* bound of the attributes allocated

VARIABLES
  magic,         \* whether attr->magic is 0x42424242
  real_ptr,      \* the Vita attribute: its detach state and stack size
  allocated,     \* Vita attributes allocated and not freed
  wish,          \* the detach state the engine set last, in Bionic's terms
  thread         \* the last thread created

attrVars == <<magic, real_ptr, allocated, wish, thread>>

VitaDefault == [state |-> 1, stack |-> "default"]
NoThread == [state |-> -1, stack |-> "none", asked |-> -1]

AttrInit ==
  /\ magic = FALSE
  /\ real_ptr = VitaDefault
  /\ allocated = 0
  /\ wish = 0
  /\ thread = NoThread

\* _attr_t_static_init, as every call on an attribute begins.
_attr_t_static_init ==
  /\ allocated < MaxAttrs \/ magic
  /\ magic' = TRUE
  /\ allocated' = IF magic THEN allocated ELSE allocated + 1
Vita == IF magic THEN real_ptr ELSE VitaDefault

pthread_attr_init ==
  /\ ~magic              \* POSIX forbids a second init
  /\ _attr_t_static_init
  /\ real_ptr' = Vita
  /\ wish' = 0
  /\ UNCHANGED thread

pthread_attr_destroy ==
  /\ magic
  /\ magic' = FALSE
  /\ allocated' = allocated - 1
  /\ wish' = 0
  /\ UNCHANGED <<real_ptr, thread>>

Swapped(state) == IF state = 0 THEN 1 ELSE 0      \* !state
pthread_attr_setdetachstate ==
  /\ _attr_t_static_init
  /\ \E state \in {0, 1} :
       /\ real_ptr' = [Vita EXCEPT !.state = Swapped(state)]
       /\ wish' = state
  /\ UNCHANGED thread

pthread_attr_setstacksize ==
  /\ _attr_t_static_init
  /\ real_ptr' = [Vita EXCEPT !.stack = "asked"]
  /\ UNCHANGED <<wish, thread>>

\* Threads get 512 KiB, whatever the attribute said, and the attribute keeps
\* that size.
pthread_create ==
  \/ /\ thread' = [state |-> VitaDefault.state, stack |-> "512 KiB", asked |-> 0]
     /\ UNCHANGED <<magic, real_ptr, allocated, wish>>
  \/ /\ _attr_t_static_init
     /\ real_ptr' = [Vita EXCEPT !.stack = "512 KiB"]
     /\ thread' = [state |-> real_ptr'.state, stack |-> real_ptr'.stack, asked |-> wish]
     /\ UNCHANGED wish

AttrNext ==
  \/ pthread_attr_init \/ pthread_attr_destroy \/ pthread_attr_setdetachstate
  \/ pthread_attr_setstacksize \/ pthread_create

------------------------------------------------------------------------------
\* A thread is joinable exactly if the engine asked for that since it last
\* initialized the attribute, or asked for nothing, in whatever order it
\* initialized, set, used and destroyed the attribute, or used it uninitialized.
DetachedAsAsked == thread # NoThread => thread.state = 1 - thread.asked

\* The bridge owns one Vita attribute while the magic is set, and none else.
AttrsOwned == allocated = IF magic THEN 1 ELSE 0
==============================================================================

------------------------------- MODULE Semaphore -------------------------------
(***************************************************************************)
(* The semaphores of reimpl/pthr.c over the Vita kernel's.  Time is a      *)
(* clock of coarse ticks; one tick stands for the 1000 us of the first     *)
(* wait, and a timeout is an unsigned number of ticks, modulo TickModulus. *)
(***************************************************************************)
EXTENDS Integers

CONSTANTS
  SemUsers,
  MaxCount,      \* bound of the units put into the semaphore
  MaxClock,      \* no call starts later
  TickModulus    \* 2^32 us, in ticks

VARIABLES
  alive,         \* between sem_init and sem_destroy
  count,         \* the kernel's count
  created,       \* what sem_init and sem_post put into it
  got,           \* waits that returned 0
  clock,
  spc            \* spc[t]: the wait t is in, until when, and its deadline

semVars == <<alive, count, created, got, clock, spc>>

Idle == [in |-> "none", until |-> 0, deadline |-> 0]
NoDeadline == -1       \* abstime = NULL
Forever == MaxClock + TickModulus + 1

SemInitial ==
  /\ alive = FALSE
  /\ count = 0 /\ created = 0 /\ got = 0 /\ clock = 0
  /\ spc = [t \in SemUsers |-> Idle]

sem_init(t) ==
  /\ ~alive /\ spc[t] = Idle /\ clock < MaxClock
  /\ alive' = TRUE
  /\ count' \in 0..1
  /\ created' = count'
  /\ got' = 0
  /\ UNCHANGED <<clock, spc>>

\* sceKernelDeleteSema makes the waits of the others fail.
sem_destroy(t) ==
  /\ alive /\ spc[t] = Idle /\ clock < MaxClock
  /\ alive' = FALSE
  /\ spc' = [u \in SemUsers |-> Idle]
  /\ UNCHANGED <<count, created, got, clock>>

\* Wakes nobody by itself: a waiter finds the count.
sem_post(t) ==
  /\ alive /\ spc[t] = Idle /\ created < MaxCount
  /\ count' = count + 1
  /\ created' = created + 1
  /\ UNCHANGED <<alive, got, clock, spc>>

Enter(t, wait, until, deadline) ==
  /\ alive /\ spc[t] = Idle /\ clock < MaxClock
  /\ spc' = [spc EXCEPT ![t] = [in |-> wait, until |-> until, deadline |-> deadline]]
  /\ UNCHANGED <<alive, count, created, got, clock>>
sem_wait(t) == Enter(t, "wait", Forever, NoDeadline)
sem_trywait(t) == Enter(t, "trywait", clock + 1, NoDeadline)
sem_timedwait(t) == \E d \in {NoDeadline} \cup 0..MaxClock :
                      Enter(t, "timedwait", clock + 1, d)

\* sceKernelWaitSema gets a unit, and the call returns 0.
Acquire(t) ==
  /\ spc[t].in # "none" /\ count > 0
  /\ count' = count - 1
  /\ got' = got + 1
  /\ spc' = [spc EXCEPT ![t] = Idle]
  /\ UNCHANGED <<alive, created, clock>>

\* The kernel's wait times out.  sem_timedwait then gives up where there is no
\* deadline or it is not past, and waits for the negative distance otherwise.
SecondWait(now, deadline) == now + ((deadline - now) % TickModulus)
Expire(t) ==
  LET w == spc[t]
  IN /\ w.in # "none" /\ clock = w.until
     /\ spc' = [spc EXCEPT ![t] =
                  IF w.in = "timedwait" /\ w.deadline # NoDeadline /\ w.deadline < clock
                  THEN [w EXCEPT !.in = "second", !.until = SecondWait(clock, w.deadline)]
                  ELSE Idle]
     /\ UNCHANGED <<alive, count, created, got, clock>>

\* Time passes when no wait is due.
Tick ==
  /\ clock < Forever - 1
  /\ \A t \in SemUsers : spc[t].in # "none" => spc[t].until > clock
  /\ clock' = clock + 1
  /\ UNCHANGED <<alive, count, created, got, spc>>

SemNext ==
  \/ Tick
  \/ \E t \in SemUsers : \/ sem_init(t) \/ sem_destroy(t) \/ sem_post(t)
                         \/ sem_wait(t) \/ sem_trywait(t) \/ sem_timedwait(t)
                         \/ Acquire(t) \/ Expire(t)

------------------------------------------------------------------------------
\* No wait takes more than it reports and none that fails takes anything: what
\* was put in is what is left and what the successful waits got, whichever of
\* the two waits of a timed wait succeeded.
UnitsConserved == alive => created = count + got

\* A trywait or a timed wait returns, also where sem_timedwait waits for a
\* negative distance taken for an unsigned one.
TimedWaitReturns ==
  \A t \in SemUsers :
    (spc[t].in \in {"trywait", "timedwait", "second"}) ~> (spc[t] = Idle)
==============================================================================

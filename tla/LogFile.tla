-------------------------------- MODULE LogFile --------------------------------
(***************************************************************************)
(* utils/logger.c: the lines of all threads go through one static buffer   *)
(* and one file.  _log_print takes a lock, which it creates on first use;  *)
(* bg2v_log_printf, which it ends in and others call directly, does not.   *)
(***************************************************************************)
EXTENDS Integers, FiniteSets

CONSTANTS
  LogThreads,
  Main           \* the thread that starts the program

ASSUME LogAssumption ==
  /\ Main \in LogThreads
  /\ {"none", "free"} \cap LogThreads = {}

VARIABLES
  lwmutex,       \* "none", "free" or the thread that holds _log_mutex
  creations,     \* how often the work area was initialized
  mutex_ready,   \* _log_mutex_ready
  file_buffer,   \* the thread whose line is in the buffer
  log_fd,        \* whether the descriptor is open
  log,           \* the last line written: its writer's, and undisturbed
  lpc,           \* where each thread is, and whether it holds the lock
  crossed,       \* crossed[t]: another thread was in bg2v_log_printf meanwhile
  started,       \* whether the other threads run yet
  early          \* history: the lock was there when they started

logVars == <<lwmutex, creations, mutex_ready, file_buffer, log_fd, log,
             lpc, crossed, started, early>>

NoLine == [own |-> TRUE, alone |-> TRUE]

LogInit ==
  /\ lwmutex = "none" /\ creations = 0 /\ mutex_ready = FALSE
  /\ file_buffer = Main
  /\ log_fd = FALSE
  /\ log = NoLine
  /\ lpc = [t \in LogThreads |-> [at |-> "out", locked |-> FALSE]]
  /\ crossed = [t \in LogThreads |-> FALSE]
  /\ started = FALSE
  /\ early = FALSE

LogGo(t, pc) == lpc' = [lpc EXCEPT ![t].at = pc]
MayLog(t) == lpc[t].at = "out" /\ (t = Main \/ started)
Writers == {t \in LogThreads : lpc[t].at \in {"open", "opening", "write"}}

\* bg2v_log_reset, which main calls before anything else runs.
bg2v_log_reset(t) ==
  /\ t = Main /\ ~started /\ lpc[t].at = "out"
  /\ log_fd' = FALSE
  /\ LogGo(t, "format")
  /\ UNCHANGED <<lwmutex, creations, mutex_ready, file_buffer, log, crossed, started, early>>

\* Start-up goes on whether or not anything was printed by then, and whether or
\* not the lock could be created for it.
StartThreads ==
  /\ ~started /\ lpc[Main].at = "out"
  /\ started' = TRUE
  /\ early' = mutex_ready
  /\ UNCHANGED <<lwmutex, creations, mutex_ready, file_buffer, log_fd,
                 log, lpc, crossed>>

CallPrintf(t) ==
  /\ MayLog(t)
  /\ LogGo(t, "format")
  /\ UNCHANGED <<lwmutex, creations, mutex_ready, file_buffer, log_fd,
                 log, crossed, started, early>>

\* _log_print: tests the flag and goes to lock or to create the lock.
CallLogPrint(t) ==
  /\ MayLog(t)
  /\ LogGo(t, IF mutex_ready THEN "lock" ELSE "create")
  /\ UNCHANGED <<lwmutex, creations, mutex_ready, file_buffer, log_fd,
                 log, crossed, started, early>>

\* Initializes the one work area again where two threads come here; a failure
\* gives the line up.
CreateLock(t) ==
  /\ lpc[t].at = "create"
  /\ \/ /\ lwmutex' = "free"
        /\ creations' = creations + 1
        /\ mutex_ready' = TRUE
        /\ LogGo(t, "lock")
     \/ /\ LogGo(t, "out")
        /\ UNCHANGED <<lwmutex, creations, mutex_ready>>
  /\ UNCHANGED <<file_buffer, log_fd, log, crossed, started, early>>

Lock(t) ==
  /\ lpc[t].at = "lock" /\ lwmutex = "free"
  /\ lwmutex' = t
  /\ lpc' = [lpc EXCEPT ![t] = [at |-> "format", locked |-> TRUE]]
  /\ UNCHANGED <<creations, mutex_ready, file_buffer, log_fd, log, crossed, started, early>>

\* The line is built in the shared buffer.
Format(t) ==
  /\ lpc[t].at = "format"
  /\ file_buffer' = t
  /\ crossed' = [u \in LogThreads |->
                   IF u = t THEN Writers # {} ELSE crossed[u] \/ u \in Writers]
  /\ LogGo(t, "open")
  /\ UNCHANGED <<lwmutex, creations, mutex_ready, log_fd, log, started, early>>

TestLogFd(t) ==
  /\ lpc[t].at = "open"
  /\ LogGo(t, IF log_fd THEN "write" ELSE "opening")
  /\ UNCHANGED <<lwmutex, creations, mutex_ready, file_buffer, log_fd,
                 log, crossed, started, early>>

OpenLog(t) ==
  /\ lpc[t].at = "opening"
  /\ log_fd' \in BOOLEAN
  /\ LogGo(t, "write")
  /\ UNCHANGED <<lwmutex, creations, mutex_ready, file_buffer, log, crossed, started, early>>

\* Writes what the buffer holds by now, and unlocks for _log_print.
StaysLocked(holder, t) == holder
AfterUnlock(holder, t) == IF holder = t THEN "free" ELSE holder
WriteLog(t) ==
  /\ lpc[t].at = "write"
  /\ log' = IF log_fd
            THEN [own |-> file_buffer = t, alone |-> ~crossed[t]]
            ELSE log
  /\ lwmutex' = IF lpc[t].locked THEN AfterUnlock(lwmutex, t) ELSE lwmutex
  /\ lpc' = [lpc EXCEPT ![t] = [at |-> "out", locked |-> FALSE]]
  /\ crossed' = [crossed EXCEPT ![t] = FALSE]
  /\ UNCHANGED <<creations, mutex_ready, file_buffer, log_fd, started, early>>

LogStep(t) == \/ CreateLock(t) \/ Format(t) \/ TestLogFd(t) \/ OpenLog(t) \/ WriteLog(t)
LogNext == \/ StartThreads
           \/ \E t \in LogThreads : \/ bg2v_log_reset(t) \/ CallPrintf(t)
                                    \/ CallLogPrint(t) \/ Lock(t) \/ LogStep(t)

------------------------------------------------------------------------------
\* Each line in the file is whole and of the thread that wrote it unless
\* another thread was in bg2v_log_printf meanwhile, which two threads that come
\* through _log_print never are while its lock was created once.
LinesAreOwn ==
  /\ log.alone => log.own
  /\ creations <= 1 => Cardinality({t \in Writers : lpc[t].locked}) <= 1

\* The lock is initialized again, under a holder, only where it was missing
\* when the threads started: nothing was printed before, or its creation failed.
LockCreatedOnce == ~started \/ early => creations <= 1

\* A thread that asks for the log lock gets it: every way out unlocks.
LogLockGranted == \A t \in LogThreads : (lpc[t].at = "lock") ~> (lpc[t].at # "lock")
==============================================================================

-------------------------- MODULE MCPthreadMutex --------------------------
(* Small instances of PthreadMutex: two threads that compete for a mutex,  *)
(* and two cells for it to be created in.                                  *)
EXTENDS PthreadMutex

CONSTANTS t1, t2, c1, c2

MCThreads == {t1, t2}
MCCells == {c1, c2}
MCStatics == Statics
MCNormal == {"0"}
=============================================================================

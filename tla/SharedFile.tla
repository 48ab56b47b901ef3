------------------------------- MODULE SharedFile -------------------------------
(***************************************************************************)
(* mmap in reimpl/mem.c: it reads a copy of the file through the caller's  *)
(* descriptor, whose offset it moves and puts back, while other threads    *)
(* may read, seek and map through the same descriptor.  Byte i of the file *)
(* is i, and -1 is a zeroed byte of the mapping.                           *)
(***************************************************************************)
EXTENDS Integers, FiniteSets

CONSTANTS
  MapThreads,
  FileLength,
  MaxLength,     \* bound of a mapping's length
  MaxOffset      \* bound of the offsets the engine uses
ASSUME FileAssumption == FileLength \in Nat /\ MaxLength \in Nat /\ MaxOffset \in Nat

VARIABLES
  offset,        \* of the shared descriptor
  maps,          \* maps[t]: the mmap call of t
  live,          \* threads whose copy is allocated
  disturbed      \* threads during whose call another moved the offset

fileVars == <<offset, maps, live, disturbed>>

NoMap == [at |-> "out", offs |-> 0, length |-> 0, original |-> 0, total |-> 0,
          data |-> <<>>, result |-> "none"]
Zeroed(length) == [i \in 0 .. length - 1 |-> -1]

FileInit ==
  /\ offset = 0
  /\ maps = [t \in MapThreads |-> NoMap]
  /\ live = {}
  /\ disturbed = {}

\* Whoever moves the offset disturbs the others' calls.
InCall == {t \in MapThreads : maps[t].at \in {"seek", "read", "restore"}}
Moves(t) == disturbed' = disturbed \cup (InCall \ {t})
Failed == [NoMap EXCEPT !.result = "failed"]
Fails(t) == maps' = [maps EXCEPT ![t] = Failed]

\* EINVAL, ENOMEM, or a zeroed allocation.
CallMmap(t) ==
  /\ maps[t].at = "out" /\ t \notin live
  /\ \E offs \in -1..MaxOffset, length \in 0..MaxLength, allocates \in BOOLEAN :
       IF length = 0 \/ offs < 0 \/ ~allocates
       THEN Fails(t) /\ UNCHANGED live
       ELSE /\ maps' = [maps EXCEPT ![t] = [NoMap EXCEPT
                          !.at = "save", !.offs = offs, !.length = length,
                          !.data = Zeroed(length)]]
            /\ live' = live \cup {t}
  /\ UNCHANGED <<offset, disturbed>>

\* lseek(fd, 0, SEEK_CUR)
SaveOffset(t) ==
  /\ maps[t].at = "save"
  /\ maps' = [maps EXCEPT ![t].at = "seek", ![t].original = offset]
  /\ disturbed' = disturbed \ {t}
  /\ UNCHANGED <<offset, live>>

SeekToMap(t) ==
  /\ maps[t].at = "seek"
  /\ \/ /\ offset' = maps[t].offs
        /\ maps' = [maps EXCEPT ![t].at = "read"]
        /\ Moves(t)
        /\ UNCHANGED live
     \/ /\ Fails(t)
        /\ live' = live \ {t}
        /\ UNCHANGED <<offset, disturbed>>

\* One read of the loop: some of the bytes, none at the end of the file, or an
\* error.  (EINTR changes nothing and is read again.)
ReadMap(t) ==
  /\ maps[t].at = "read"
  /\ LET m == maps[t]
         left == IF offset < FileLength THEN FileLength - offset ELSE 0
         most == IF left < m.length - m.total THEN left ELSE m.length - m.total
     IN \/ /\ most > 0
           /\ \E count \in 1..most :
                /\ offset' = offset + count
                /\ maps' = [maps EXCEPT ![t] = [m EXCEPT
                     !.total = @ + count,
                     !.at = IF m.total + count = m.length THEN "restore" ELSE "read",
                     !.data = [i \in DOMAIN @ |-> IF i \in m.total .. m.total + count - 1
                                                  THEN offset + i - m.total ELSE @[i]]]]
           /\ Moves(t)
        \/ /\ most = 0
           /\ maps' = [maps EXCEPT ![t].at = "restore"]
           /\ UNCHANGED <<offset, disturbed>>
        \/ /\ maps' = [maps EXCEPT ![t].at = "restore", ![t].result = "failed"]
           /\ UNCHANGED <<offset, disturbed>>
  /\ UNCHANGED live

\* lseek(fd, original, SEEK_SET); the copy is freed after an error.
LeftOffset(m) == m.offs + m.total
PutBack(m) == m.original
RestoreOffset(t) ==
  /\ maps[t].at = "restore"
  /\ offset' = PutBack(maps[t])
  /\ Moves(t)
  /\ maps' = [maps EXCEPT ![t] =
                IF @.result = "failed" THEN Failed
                ELSE [@ EXCEPT !.at = "out", !.original = 0, !.total = 0, !.result = "mapped"]]
  /\ live' = IF maps[t].result = "failed" THEN live \ {t} ELSE live

\* munmap frees the copy.
munmap(t) ==
  /\ maps[t].at = "out" /\ t \in live
  /\ live' = live \ {t}
  /\ maps' = [maps EXCEPT ![t] = NoMap]
  /\ UNCHANGED <<offset, disturbed>>

\* Another read or lseek through the same descriptor.
MoveOffset(t) ==
  /\ maps[t].at = "out"
  /\ offset' \in 0..MaxOffset
  /\ Moves(t)
  /\ UNCHANGED <<maps, live>>

FileNext == \E t \in MapThreads :
  \/ CallMmap(t) \/ SaveOffset(t) \/ SeekToMap(t) \/ ReadMap(t) \/ RestoreOffset(t)
  \/ munmap(t) \/ MoveOffset(t)

FileSpec == FileInit /\ [][FileNext]_fileVars

------------------------------------------------------------------------------
\* A mapping that nobody disturbed holds exactly the bytes asked for, with a
\* zeroed tail beyond the end of the file, however the reads were cut.
MapIsExact ==
  \A t \in MapThreads \ disturbed : maps[t].result = "mapped" =>
    \A i \in DOMAIN maps[t].data :
      maps[t].data[i] = IF maps[t].offs + i < FileLength THEN maps[t].offs + i ELSE -1

\* An undisturbed mapping, failed or not, leaves the descriptor's offset where
\* it found it.
OffsetIsPutBack ==
  [][\A t \in MapThreads \ disturbed :
       maps[t].at = "restore" /\ maps'[t].at = "out" => offset' = maps[t].original]_fileVars

\* A copy is allocated exactly while its call runs or its mapping is in use.
CopiesAreOwned ==
  live = {t \in MapThreads : maps[t].at # "out" \/ maps[t].result = "mapped"}
==============================================================================

------------------------------ MODULE LibraryProofs ------------------------------
(***************************************************************************)
(* Proofs about files: mmap, for any threads, file, lengths and offsets,   *)
(* however the reads are cut and mixed; scandir, for any threads and any    *)
(* directories; an asset of any size; and the helpers of utils.c.  Then     *)
(* about the pixels of the graphics glue, about the clocks, and about the   *)
(* dates of time64.c, for every time, every year and every zone.            *)
(***************************************************************************)
EXTENDS Files, Raster, SystemCalls, InOrderProofs, TLAPS

\* The call of one thread as a record, with its numbers.
MapRecords(Data) ==
  [at : {"out", "save", "seek", "read", "restore"}, offs : Nat, length : Nat,
   original : Nat, total : Nat, data : Data, result : {"none", "failed", "mapped"}]
IsMap(m) == \E Data : m \in MapRecords(Data)

\* The copy while it is read, and when it is done.
UpTo(m) == m.data = [i \in 0 .. m.length - 1 |-> IF i < m.total THEN m.offs + i ELSE -1]
Exact(m) == m.data = [i \in 0 .. m.length - 1 |->
                        IF m.offs + i < FileLength THEN m.offs + i ELSE -1]

\* Where a call is, its copy and the descriptor's offset fit together as long
\* as it is calm: nobody else has moved the offset since it was saved.
MapOK(m, calm, off) ==
  /\ IsMap(m)
  /\ m.at # "out" => m.length > 0 /\ m.result # "mapped"
  /\ m.at \in {"save", "seek"} => m.total = 0 /\ UpTo(m) /\ m.result = "none"
  /\ m.at = "read" => m.total < m.length /\ m.result = "none"
  /\ m.at = "read" /\ calm =>
       off = m.offs + m.total /\ UpTo(m) /\ (m.total > 0 => m.offs + m.total <= FileLength)
  /\ m.at = "restore" /\ calm => m.result = "failed" \/ Exact(m)
  /\ m.at = "out" /\ calm /\ m.result = "mapped" => Exact(m)

FileInv ==
  /\ offset \in Nat
  /\ maps = [t \in MapThreads |-> maps[t]]
  /\ \A t \in MapThreads : MapOK(maps[t], t \notin disturbed, offset)
  /\ CopiesAreOwned

\* The offset matters only to a call that reads undisturbed.
LEMMA OthersKeep ==
  ASSUME NEW m, NEW calm \in BOOLEAN, NEW off, NEW calm2 \in BOOLEAN, NEW off2,
         MapOK(m, calm, off), calm2 => calm,
         m.at \in {"seek", "read", "restore"} => ~calm2 \/ off2 = off
  PROVE  MapOK(m, calm2, off2)
BY DEF MapOK

\* No call and no mapping at first, or after a failure.
LEMMA NoMapOK ==
  ASSUME NEW calm, NEW off
  PROVE  MapOK(NoMap, calm, off) /\ MapOK(Failed, calm, off)
<1>1. NoMap \in MapRecords({<<>>}) /\ Failed \in MapRecords({<<>>})
  BY DEF MapRecords, NoMap, Failed
<1>2. /\ NoMap.at = "out" /\ NoMap.result = "none"
      /\ Failed.at = "out" /\ Failed.result = "failed"
  BY DEF NoMap, Failed
<1>. QED
  BY <1>1, <1>2 DEF MapOK, IsMap

LEMMA FileStarts == FileInit => FileInv
<1>. SUFFICES ASSUME FileInit PROVE FileInv
  OBVIOUS
<1>1. \A t \in MapThreads : maps[t] = NoMap
  BY DEF FileInit
<1>2. \A t \in MapThreads : maps[t].at = "out" /\ maps[t].result = "none"
  BY <1>1 DEF NoMap
<1>3. CopiesAreOwned
  BY <1>2 DEF FileInit, CopiesAreOwned
<1>. QED
  BY <1>1, <1>3, NoMapOK DEF FileInit, FileInv

\* The records of a call that begins, and of one that has saved the offset.
Begun(n, offs, length, data) ==
  n = [NoMap EXCEPT !.at = "save", !.offs = offs, !.length = length, !.data = data]
Filled(m, count, off) ==
  [i \in DOMAIN m.data |-> IF i \in m.total .. m.total + count - 1
                           THEN off + i - m.total ELSE m.data[i]]
ReadOn(n, m, count, off) ==
  n = [m EXCEPT !.total = @ + count,
                !.at = IF m.total + count = m.length THEN "restore" ELSE "read",
                !.data = [i \in DOMAIN @ |-> IF i \in m.total .. m.total + count - 1
                                             THEN off + i - m.total ELSE @[i]]]
Ended(n, m) == n = [m EXCEPT !.at = "restore"]
Saved(n, m, off) == n = [m EXCEPT !.at = "seek", !.original = off]

\* A record keeps its fields but for those a step sets.
LEMMA BeginFields ==
  ASSUME NEW offs \in Nat, NEW length \in Nat, NEW data, NEW n, Begun(n, offs, length, data)
  PROVE  /\ IsMap(n) /\ n.at = "save" /\ n.offs = offs /\ n.length = length
         /\ n.total = 0 /\ n.data = data /\ n.result = "none"
<1>. DEFINE D == {<<>>, data}
<1>1. NoMap \in MapRecords(D) /\ data \in D
  BY DEF NoMap, MapRecords
<1>2. NoMap.total = 0 /\ NoMap.result = "none"
  BY DEF NoMap
<1>. HIDE DEF D
<1>3. /\ n \in MapRecords(D) /\ n.at = "save" /\ n.offs = offs /\ n.length = length
      /\ n.total = NoMap.total /\ n.data = data /\ n.result = NoMap.result
  BY <1>1 DEF MapRecords, Begun
<1>. QED
  BY <1>2, <1>3 DEF IsMap

LEMMA SaveFields ==
  ASSUME NEW m, IsMap(m), NEW off \in Nat, NEW n, Saved(n, m, off)
  PROVE  /\ IsMap(n) /\ n.at = "seek" /\ n.offs = m.offs /\ n.length = m.length
         /\ n.original = off /\ n.total = m.total /\ n.data = m.data /\ n.result = m.result
<1>. PICK D : m \in MapRecords(D)
  BY DEF IsMap
<1>1. /\ n \in MapRecords(D) /\ n.at = "seek" /\ n.offs = m.offs /\ n.length = m.length
      /\ n.original = off /\ n.total = m.total /\ n.data = m.data /\ n.result = m.result
  BY DEF MapRecords, Saved
<1>. QED
  BY <1>1 DEF IsMap

LEMMA AtFields ==
  ASSUME NEW m, IsMap(m), NEW at \in {"read", "restore"}, NEW n, n = [m EXCEPT !.at = at]
  PROVE  /\ IsMap(n) /\ n.at = at /\ n.offs = m.offs /\ n.length = m.length
         /\ n.original = m.original /\ n.total = m.total /\ n.data = m.data
         /\ n.result = m.result
<1>. PICK D : m \in MapRecords(D)
  BY DEF IsMap
<1>1. /\ n \in MapRecords(D) /\ n.at = at /\ n.offs = m.offs /\ n.length = m.length
      /\ n.original = m.original /\ n.total = m.total /\ n.data = m.data
      /\ n.result = m.result
  BY DEF MapRecords
<1>. QED
  BY <1>1 DEF IsMap

LEMMA ReadFields ==
  ASSUME NEW m, IsMap(m), NEW count \in Nat, NEW off \in Nat, NEW n, ReadOn(n, m, count, off)
  PROVE  /\ IsMap(n) /\ n.offs = m.offs /\ n.length = m.length
         /\ n.at = IF m.total + count = m.length THEN "restore" ELSE "read"
         /\ n.total = m.total + count /\ n.result = m.result
         /\ n.data = Filled(m, count, off)
<1>. PICK C : m \in MapRecords(C)
  BY DEF IsMap
<1>. DEFINE data == Filled(m, count, off)
            at == IF m.total + count = m.length THEN "restore" ELSE "read"
            total == m.total + count
            D == C \cup {data}
<1>1. m \in MapRecords(D) /\ data \in D
  BY DEF MapRecords
<1>2. at \in {"read", "restore"} /\ total \in Nat
  BY DEF MapRecords
<1>3. n = [m EXCEPT !.total = total, !.at = at, !.data = data]
  BY <1>1 DEF ReadOn, MapRecords, Filled
<1>. HIDE DEF D, data, at, total
<1>4. /\ n \in MapRecords(D) /\ n.at = at /\ n.offs = m.offs /\ n.length = m.length
      /\ n.total = total /\ n.data = data /\ n.result = m.result
  BY <1>1, <1>2, <1>3 DEF MapRecords
<1>. QED
  BY <1>4 DEF IsMap, data, at, total

LEMMA ErrorFields ==
  ASSUME NEW m, IsMap(m), NEW n, n = [m EXCEPT !.at = "restore", !.result = "failed"]
  PROVE  /\ IsMap(n) /\ n.at = "restore" /\ n.length = m.length /\ n.result = "failed"
         /\ n.original = m.original
<1>. PICK D : m \in MapRecords(D)
  BY DEF IsMap
<1>1. /\ n \in MapRecords(D) /\ n.at = "restore" /\ n.length = m.length
      /\ n.result = "failed" /\ n.original = m.original
  BY DEF MapRecords
<1>. QED
  BY <1>1 DEF IsMap

LEMMA DoneFields ==
  ASSUME NEW m, IsMap(m), NEW n,
         n = [m EXCEPT !.at = "out", !.original = 0, !.total = 0, !.result = "mapped"]
  PROVE  /\ IsMap(n) /\ n.at = "out" /\ n.offs = m.offs /\ n.length = m.length
         /\ n.data = m.data /\ n.result = "mapped"
<1>. PICK D : m \in MapRecords(D)
  BY DEF IsMap
<1>1. /\ n \in MapRecords(D) /\ n.at = "out" /\ n.offs = m.offs /\ n.length = m.length
      /\ n.data = m.data /\ n.result = "mapped"
  BY DEF MapRecords
<1>. QED
  BY <1>1 DEF IsMap

------------------------------------------------------------------------------
\* A step of one thread: its own call fits again, and the calls of the others
\* are disturbed where it moved the offset.
LEMMA OneThread ==
  ASSUME FileInv, NEW t \in MapThreads, NEW n,
         maps' = [maps EXCEPT ![t] = n], offset' \in Nat,
         MapOK(n, t \notin disturbed', offset'),
         disturbed \ {t} \subseteq disturbed',
         offset' = offset \/ InCall \ {t} \subseteq disturbed',
         live' \ {t} = live \ {t},
         t \in live' <=> (n.at # "out" \/ n.result = "mapped")
  PROVE  FileInv'
<1>1. /\ maps' = [u \in MapThreads |-> maps'[u]]
      /\ \A u \in MapThreads : maps'[u] = IF u = t THEN n ELSE maps[u]
  BY DEF FileInv
<1>2. ASSUME NEW u \in MapThreads PROVE MapOK(maps'[u], u \notin disturbed', offset')
  <2>1. CASE u = t
    BY <1>1, <2>1
  <2>2. CASE u # t
    <3>. DEFINE calm == u \notin disturbed
                calm2 == u \notin disturbed'
    <3>1. MapOK(maps[u], calm, offset)
      BY DEF FileInv
    <3>2. calm2 => calm
      BY <2>2
    <3>3. maps[u].at \in {"seek", "read", "restore"} => ~calm2 \/ offset' = offset
      BY <2>2 DEF InCall
    <3>4. calm \in BOOLEAN /\ calm2 \in BOOLEAN
      OBVIOUS
    <3>. HIDE DEF calm, calm2
    <3>5. MapOK(maps[u], calm2, offset')
      BY <3>1, <3>2, <3>3, <3>4, OthersKeep
    <3>. QED
      BY <1>1, <2>2, <3>5 DEF calm2
  <2>. QED
    BY <2>1, <2>2
<1>3. CopiesAreOwned'
  <2>1. live = {u \in MapThreads : maps[u].at # "out" \/ maps[u].result = "mapped"}
    BY DEF FileInv, CopiesAreOwned
  <2>2. \A u : u \in live' <=> u \in MapThreads /\ (maps'[u].at # "out" \/ maps'[u].result = "mapped")
    BY <1>1, <2>1
  <2>. QED
    BY <2>2 DEF CopiesAreOwned
<1>. QED
  BY <1>1, <1>2, <1>3 DEF FileInv

\* What the invariant says of one thread.
LEMMA ThreadFacts ==
  ASSUME FileInv, NEW t \in MapThreads
  PROVE  /\ IsMap(maps[t]) /\ MapOK(maps[t], t \notin disturbed, offset)
         /\ maps[t].offs \in Nat /\ maps[t].length \in Nat
         /\ maps[t].original \in Nat /\ maps[t].total \in Nat
         /\ t \in live <=> (maps[t].at # "out" \/ maps[t].result = "mapped")
<1>1. MapOK(maps[t], t \notin disturbed, offset) /\ IsMap(maps[t])
  BY DEF FileInv, MapOK
<1>2. PICK D : maps[t] \in MapRecords(D)
  BY <1>1 DEF IsMap
<1>3. /\ maps[t].offs \in Nat /\ maps[t].length \in Nat
      /\ maps[t].original \in Nat /\ maps[t].total \in Nat
  BY <1>2 DEF MapRecords
<1>. QED
  BY <1>1, <1>3 DEF FileInv, CopiesAreOwned

LEMMA CallKeeps ==
  ASSUME FileInv, NEW t \in MapThreads, CallMmap(t)
  PROVE  FileInv'
<1>. PICK offs \in -1..MaxOffset, length \in 0..MaxLength, allocates \in BOOLEAN :
       IF length = 0 \/ offs < 0 \/ ~allocates
       THEN Fails(t) /\ UNCHANGED live
       ELSE /\ maps' = [maps EXCEPT ![t] = [NoMap EXCEPT
                          !.at = "save", !.offs = offs, !.length = length,
                          !.data = Zeroed(length)]]
            /\ live' = live \cup {t}
  BY DEF CallMmap
<1>0. UNCHANGED <<offset, disturbed>> /\ t \notin live /\ offset \in Nat
  BY DEF CallMmap, FileInv
<1>1. CASE length = 0 \/ offs < 0 \/ ~allocates
  <2>1. maps' = [maps EXCEPT ![t] = Failed] /\ live' = live
    BY <1>1 DEF Fails
  <2>2. Failed.at = "out" /\ Failed.result = "failed"
    BY DEF Failed, NoMap
  <2>. QED
    BY <1>0, <2>1, <2>2, NoMapOK, OneThread
<1>2. CASE ~(length = 0 \/ offs < 0 \/ ~allocates)
  <2>. DEFINE data == Zeroed(length)
  <2>. HIDE DEF data
  <2>0. PICK n : n = [NoMap EXCEPT !.at = "save", !.offs = offs, !.length = length,
                                   !.data = data]
    OBVIOUS
  <2>1. offs \in Nat /\ length \in Nat /\ length > 0
    BY <1>2, FileAssumption
  <2>2. maps' = [maps EXCEPT ![t] = n] /\ live' = live \cup {t}
    BY <1>2, <2>0 DEF data
  <2>3. /\ IsMap(n) /\ n.at = "save" /\ n.offs = offs /\ n.length = length
        /\ n.total = 0 /\ n.data = data /\ n.result = "none"
    <3>1. Begun(n, offs, length, data)
      BY <2>0 DEF Begun
    <3>. QED
      BY <2>1, <3>1, BeginFields
  <2>4. UpTo(n)
    BY <2>1, <2>3 DEF UpTo, Zeroed, data
  <2>5. MapOK(n, t \notin disturbed', offset')
    BY <2>1, <2>3, <2>4 DEF MapOK
  <2>. QED
    BY <1>0, <2>2, <2>3, <2>5, OneThread
<1>. QED
  BY <1>1, <1>2

LEMMA SaveKeeps ==
  ASSUME FileInv, NEW t \in MapThreads, SaveOffset(t)
  PROVE  FileInv'
<1>. DEFINE m == maps[t]
<1>0. PICK n : n = [maps[t] EXCEPT !.at = "seek", !.original = offset]
  OBVIOUS
<1>1. /\ maps[t].at = "save" /\ disturbed' = disturbed \ {t}
      /\ UNCHANGED <<offset, live>> /\ offset \in Nat
  BY DEF SaveOffset, FileInv
<1>2. maps' = [maps EXCEPT ![t] = n]
  BY <1>0 DEF SaveOffset, FileInv
<1>3. /\ IsMap(n) /\ n.at = "seek" /\ n.offs = m.offs /\ n.length = m.length
      /\ n.total = m.total /\ n.data = m.data /\ n.result = m.result
  <2>1. IsMap(m) /\ Saved(n, m, offset)
    BY <1>0, ThreadFacts DEF Saved
  <2>. QED
    BY <1>1, <2>1, SaveFields
<1>4. MapOK(n, t \notin disturbed', offset')
  BY <1>1, <1>3, ThreadFacts DEF MapOK, UpTo
<1>. QED
  BY <1>1, <1>2, <1>3, <1>4, ThreadFacts, OneThread

LEMMA SeekKeeps ==
  ASSUME FileInv, NEW t \in MapThreads, SeekToMap(t)
  PROVE  FileInv'
<1>. DEFINE m == maps[t]
<1>0. m.at = "seek" /\ offset \in Nat
  BY DEF SeekToMap, FileInv
<1>1. CASE offset' = m.offs /\ maps' = [maps EXCEPT ![t].at = "read"] /\ Moves(t) /\ UNCHANGED live
  <2>0. PICK n : n = [maps[t] EXCEPT !.at = "read"]
    OBVIOUS
  <2>1. maps' = [maps EXCEPT ![t] = n]
    BY <1>1, <2>0 DEF FileInv
  <2>2. /\ IsMap(n) /\ n.at = "read" /\ n.offs = m.offs /\ n.length = m.length
        /\ n.total = m.total /\ n.data = m.data /\ n.result = m.result
    BY <2>0, ThreadFacts, AtFields
  <2>3. MapOK(n, t \notin disturbed', offset')
    BY <1>0, <1>1, <2>2, ThreadFacts DEF MapOK, UpTo
  <2>4. offset' \in Nat /\ disturbed \subseteq disturbed' /\ InCall \ {t} \subseteq disturbed'
    BY <1>1, ThreadFacts DEF Moves
  <2>. QED
    BY <1>0, <1>1, <2>1, <2>2, <2>3, <2>4, ThreadFacts, OneThread
<1>2. CASE Fails(t) /\ live' = live \ {t} /\ UNCHANGED <<offset, disturbed>>
  <2>1. Failed.at = "out" /\ Failed.result = "failed"
    BY DEF Failed, NoMap
  <2>. QED
    BY <1>0, <1>2, <2>1, NoMapOK, OneThread DEF Fails
<1>. QED
  BY <1>1, <1>2 DEF SeekToMap

\* munmap, and another read or seek of the file.
LEMMA OutsideKeeps ==
  ASSUME FileInv, NEW t \in MapThreads, munmap(t) \/ MoveOffset(t)
  PROVE  FileInv'
<1>1. CASE munmap(t)
  <2>1. NoMap.at = "out" /\ NoMap.result = "none"
    BY DEF NoMap
  <2>. QED
    BY <1>1, <2>1, NoMapOK, OneThread DEF munmap, FileInv
<1>2. CASE MoveOffset(t)
  <2>1. maps' = [maps EXCEPT ![t] = maps[t]] /\ live' = live /\ offset' \in Nat
    BY <1>2, FileAssumption DEF MoveOffset, FileInv
  <2>2. disturbed \subseteq disturbed' /\ InCall \ {t} \subseteq disturbed'
        /\ (t \in disturbed' <=> t \in disturbed)
    BY <1>2 DEF MoveOffset, Moves
  <2>3. maps[t].at = "out"
    BY <1>2 DEF MoveOffset
  <2>4. MapOK(maps[t], t \notin disturbed', offset')
    BY <2>2, <2>3, ThreadFacts DEF MapOK
  <2>. QED
    BY <2>1, <2>2, <2>4, ThreadFacts, OneThread
<1>. QED
  BY <1>1, <1>2

\* The copy is kept where it was read without disturbance, freed after an error.
LEMMA RestoreKeeps ==
  ASSUME FileInv, NEW t \in MapThreads, RestoreOffset(t)
  PROVE  FileInv'
<1>. DEFINE m == maps[t]
<1>0. m.at = "restore" /\ offset' = m.original /\ offset' \in Nat /\ Moves(t)
  BY ThreadFacts DEF RestoreOffset, PutBack
<1>1. disturbed \subseteq disturbed' /\ InCall \ {t} \subseteq disturbed'
      /\ (t \in disturbed' <=> t \in disturbed)
  BY <1>0 DEF Moves
<1>2. CASE m.result = "failed"
  <2>1. Failed.at = "out" /\ Failed.result = "failed"
    BY DEF Failed, NoMap
  <2>2. maps' = [maps EXCEPT ![t] = Failed] /\ live' = live \ {t}
    BY <1>2 DEF RestoreOffset, FileInv
  <2>. QED
    BY <1>0, <1>1, <2>1, <2>2, NoMapOK, OneThread
<1>3. CASE m.result # "failed"
  <2>0. PICK n : n = [maps[t] EXCEPT !.at = "out", !.original = 0, !.total = 0, !.result = "mapped"]
    OBVIOUS
  <2>1. maps' = [maps EXCEPT ![t] = n] /\ live' = live
    BY <1>3, <2>0 DEF RestoreOffset, FileInv
  <2>2. /\ IsMap(n) /\ n.at = "out" /\ n.offs = m.offs /\ n.length = m.length
        /\ n.data = m.data /\ n.result = "mapped"
    BY <2>0, ThreadFacts, DoneFields
  <2>3. MapOK(n, t \notin disturbed', offset')
    BY <1>0, <1>1, <1>3, <2>2, ThreadFacts DEF MapOK, Exact
  <2>. QED
    BY <1>0, <1>1, <2>1, <2>2, <2>3, ThreadFacts, OneThread
<1>. QED
  BY <1>2, <1>3

\* Some bytes arrive: they are those of the file at their place in the copy.
LEMMA BytesArrive ==
  ASSUME FileInv, NEW t \in MapThreads, maps[t].at = "read", NEW n,
         NEW count \in Nat, count > 0, ReadOn(n, maps[t], count, offset),
         count <= maps[t].length - maps[t].total,
         offset + count <= FileLength, NEW calm, calm => t \notin disturbed
  PROVE  MapOK(n, calm, offset + count)
<1>. PICK m : m = maps[t]
  OBVIOUS
<1>0. offset \in Nat /\ m.total \in Nat /\ m.offs \in Nat /\ m.length \in Nat
  BY ThreadFacts DEF FileInv
<1>1. MapOK(m, t \notin disturbed, offset) /\ IsMap(m) /\ ReadOn(n, m, count, offset)
  BY ThreadFacts
<1>2. /\ IsMap(n) /\ n.offs = m.offs /\ n.length = m.length
      /\ n.at = IF m.total + count = m.length THEN "restore" ELSE "read"
      /\ n.total = m.total + count /\ n.result = m.result
      /\ n.data = Filled(m, count, offset)
  BY <1>0, <1>1, ReadFields
<1>3. m.result = "none" /\ m.total < m.length
  BY <1>1 DEF MapOK
<1>4. ASSUME calm PROVE UpTo(n) /\ offset + count = n.offs + n.total
  <2>1. offset = m.offs + m.total /\ UpTo(m)
    BY <1>1, <1>4 DEF MapOK
  <2>2. m.data = [i \in 0 .. m.length - 1 |-> IF i < m.total THEN m.offs + i ELSE -1]
    BY <2>1 DEF UpTo
  <2>3. n.data = [i \in 0 .. m.length - 1 |-> IF i < m.total + count THEN m.offs + i ELSE -1]
    <3>1. DOMAIN m.data = 0 .. m.length - 1
      BY <2>2
    <3>2. ASSUME NEW i \in 0 .. m.length - 1
          PROVE  (IF i \in m.total .. m.total + count - 1 THEN offset + i - m.total ELSE m.data[i])
                   = IF i < m.total + count THEN m.offs + i ELSE -1
      <4>1. m.data[i] = IF i < m.total THEN m.offs + i ELSE -1
        BY <2>2
      <4>. QED
        BY <1>0, <2>1, <4>1
    <3>. QED
      BY <1>2, <3>1, <3>2 DEF Filled
  <2>4. offset + count = n.offs + n.total
    BY <1>0, <1>2, <2>1
  <2>5. UpTo(n)
    <3>1. n.length = m.length /\ n.total = m.total + count /\ n.offs = m.offs
      BY <1>2
    <3>. QED
      BY <2>3, <3>1 DEF UpTo
  <2>. QED
    BY <2>4, <2>5
<1>5. n.at = "restore" /\ calm => Exact(n)
  <2>. SUFFICES ASSUME n.at = "restore", calm PROVE Exact(n)
    OBVIOUS
  <2>1. n.total = n.length /\ n.offs + n.length <= FileLength
    BY <1>0, <1>2, <1>4
  <2>2. \A i \in 0 .. n.length - 1 : (IF i < n.total THEN n.offs + i ELSE -1) =
          IF n.offs + i < FileLength THEN n.offs + i ELSE -1
    BY <1>0, <1>2, <2>1, FileAssumption
  <2>. QED
    BY <1>4, <2>2 DEF UpTo, Exact
<1>. QED
  BY <1>0, <1>2, <1>3, <1>4, <1>5 DEF MapOK

\* The file has ended: what was not read stays zero.
LEMMA FileEnds ==
  ASSUME FileInv, NEW t \in MapThreads, maps[t].at = "read", NEW n,
         Ended(n, maps[t]), offset >= FileLength,
         NEW calm, calm => t \notin disturbed
  PROVE  MapOK(n, calm, offset) /\ n.at = "restore" /\ n.result = "none"
<1>. PICK m : m = maps[t]
  OBVIOUS
<1>0. offset \in Nat /\ m.total \in Nat /\ m.offs \in Nat /\ m.length \in Nat
  BY ThreadFacts DEF FileInv
<1>1. MapOK(m, t \notin disturbed, offset) /\ IsMap(m) /\ Ended(n, m)
  BY ThreadFacts
<1>2. /\ IsMap(n) /\ n.at = "restore" /\ n.offs = m.offs /\ n.length = m.length
      /\ n.total = m.total /\ n.data = m.data /\ n.result = m.result
  BY <1>1, AtFields DEF Ended
<1>3. m.result = "none" /\ m.total < m.length
  BY <1>1 DEF MapOK
<1>4. ASSUME calm PROVE Exact(n)
  <2>1. offset = m.offs + m.total /\ UpTo(m) /\ (m.total > 0 => m.offs + m.total <= FileLength)
    BY <1>1, <1>4 DEF MapOK
  <2>2. \A i \in 0 .. m.length - 1 : (IF i < m.total THEN m.offs + i ELSE -1) =
          IF m.offs + i < FileLength THEN m.offs + i ELSE -1
    BY <1>0, <2>1, FileAssumption
  <2>3. n.data = [i \in 0 .. m.length - 1 |-> IF m.offs + i < FileLength THEN m.offs + i ELSE -1]
    BY <1>2, <2>1, <2>2 DEF UpTo
  <2>. QED
    BY <1>2, <2>3 DEF Exact
<1>. QED
  BY <1>0, <1>2, <1>3, <1>4 DEF MapOK

\* One read: bytes, the end of the file or an error.
LEMMA ReadKeeps ==
  ASSUME FileInv, NEW t \in MapThreads, ReadMap(t)
  PROVE  FileInv'
<1>. DEFINE left == IF offset < FileLength THEN FileLength - offset ELSE 0
            room == maps[t].length - maps[t].total
            most == IF left < room THEN left ELSE room
<1>0. /\ maps[t].at = "read" /\ live' = live /\ offset \in Nat
      /\ maps[t].total \in Nat /\ maps[t].length \in Nat /\ FileLength \in Nat
      /\ maps[t].total < maps[t].length /\ maps[t].result = "none"
  BY ThreadFacts, FileAssumption DEF ReadMap, FileInv, MapOK
<1>1. ASSUME NEW count \in 1..most, offset' = offset + count, Moves(t), most > 0,
             NEW n, maps' = [maps EXCEPT ![t] = n], ReadOn(n, maps[t], count, offset)
      PROVE  FileInv'
  <2>1. count \in Nat /\ count > 0 /\ count <= room /\ offset + count <= FileLength
    BY <1>0, <1>1
  <2>2. disturbed \subseteq disturbed' /\ InCall \ {t} \subseteq disturbed'
    BY <1>1 DEF Moves
  <2>. DEFINE calm == t \notin disturbed'
  <2>3. calm => t \notin disturbed
    BY <2>2
  <2>. HIDE DEF calm
  <2>4. MapOK(n, calm, offset + count)
    BY <1>0, <1>1, <2>1, <2>3, BytesArrive
  <2>5. n.at \in {"read", "restore"}
    BY <1>1, <2>1, <1>0, ThreadFacts, ReadFields
  <2>6. offset' \in Nat
    BY <1>0, <1>1, <2>1
  <2>. QED
    BY <1>0, <1>1, <2>2, <2>4, <2>5, <2>6, ThreadFacts, OneThread DEF calm
<1>2. ASSUME most = 0, NEW n, maps' = [maps EXCEPT ![t] = n], Ended(n, maps[t]),
             UNCHANGED <<offset, disturbed>>
      PROVE  FileInv'
  <2>1. offset >= FileLength
    BY <1>0, <1>2
  <2>. DEFINE calm == t \notin disturbed
  <2>2. MapOK(n, calm, offset) /\ n.at = "restore" /\ n.result = "none"
    BY <1>0, <1>2, <2>1, FileEnds
  <2>. QED
    BY <1>0, <1>2, <2>2, ThreadFacts, OneThread
<1>3. ASSUME NEW n, maps' = [maps EXCEPT ![t] = n], UNCHANGED <<offset, disturbed>>,
             n = [maps[t] EXCEPT !.at = "restore", !.result = "failed"]
      PROVE  FileInv'
  <2>0. IsMap(maps[t])
    BY ThreadFacts
  <2>1. /\ IsMap(n) /\ n.at = "restore" /\ n.length = maps[t].length /\ n.result = "failed"
    BY <1>3, <2>0, ErrorFields, Zenon
  <2>2. n.length > 0
    BY <1>0, <2>1
  <2>3. MapOK(n, t \notin disturbed', offset')
    BY <2>1, <2>2 DEF MapOK
  <2>. QED
    BY <1>0, <1>3, <2>1, <2>3, ThreadFacts, OneThread
<1>. DEFINE Told(count) ==
              [maps[t] EXCEPT
                 !.total = @ + count,
                 !.at = IF maps[t].total + count = maps[t].length THEN "restore" ELSE "read",
                 !.data = [i \in DOMAIN @ |->
                             IF i \in maps[t].total .. maps[t].total + count - 1
                             THEN offset + i - maps[t].total ELSE @[i]]]
            Closed == [maps[t] EXCEPT !.at = "restore"]
            Broken == [maps[t] EXCEPT !.at = "restore", !.result = "failed"]
<1>4. CASE /\ most > 0 /\ Moves(t)
           /\ \E count \in 1..most : offset' = offset + count
                                     /\ maps' = [maps EXCEPT ![t] = Told(count)]
  <2>1. PICK count \in 1..most : offset' = offset + count
                               /\ maps' = [maps EXCEPT ![t] = Told(count)]
    BY <1>4
  <2>2. ReadOn(Told(count), maps[t], count, offset)
    BY DEF ReadOn
  <2>. HIDE DEF Told, most
  <2>. QED
    BY <1>1, <1>4, <2>1, <2>2
<1>5. CASE most = 0 /\ maps' = [maps EXCEPT ![t] = Closed] /\ UNCHANGED <<offset, disturbed>>
  <2>1. Ended(Closed, maps[t])
    BY DEF Ended
  <2>. HIDE DEF Closed, most
  <2>. QED
    BY <1>2, <1>5, <2>1
<1>6. CASE maps' = [maps EXCEPT ![t] = Broken] /\ UNCHANGED <<offset, disturbed>>
  BY <1>3, <1>6
<1>7. \/ /\ most > 0 /\ Moves(t)
         /\ \E count \in 1..most : offset' = offset + count
                                   /\ maps' = [maps EXCEPT ![t] = Told(count)]
      \/ most = 0 /\ maps' = [maps EXCEPT ![t] = Closed] /\ UNCHANGED <<offset, disturbed>>
      \/ maps' = [maps EXCEPT ![t] = Broken] /\ UNCHANGED <<offset, disturbed>>
  BY ZenonT(60) DEF ReadMap
<1>. QED
  BY <1>4, <1>5, <1>6, <1>7

LEMMA FileKeeps == FileInv /\ [FileNext]_fileVars => FileInv'
<1>. SUFFICES ASSUME FileInv, [FileNext]_fileVars PROVE FileInv'
  OBVIOUS
<1>1. ASSUME NEW t \in MapThreads, CallMmap(t) PROVE FileInv'
  BY <1>1, CallKeeps
<1>2. ASSUME NEW t \in MapThreads, SaveOffset(t) PROVE FileInv'
  BY <1>2, SaveKeeps
<1>3. ASSUME NEW t \in MapThreads, SeekToMap(t) PROVE FileInv'
  BY <1>3, SeekKeeps
<1>4. ASSUME NEW t \in MapThreads, ReadMap(t) PROVE FileInv'
  BY <1>4, ReadKeeps
<1>5. ASSUME NEW t \in MapThreads, RestoreOffset(t) PROVE FileInv'
  BY <1>5, RestoreKeeps
<1>6. ASSUME NEW t \in MapThreads, munmap(t) \/ MoveOffset(t) PROVE FileInv'
  BY <1>6, OutsideKeeps
<1>7. CASE UNCHANGED fileVars
  BY <1>7 DEF fileVars, FileInv, CopiesAreOwned
<1>. QED
  BY <1>1, <1>2, <1>3, <1>4, <1>5, <1>6, <1>7 DEF FileNext

\* A mapping nobody disturbed holds the bytes of the file and zeros behind its
\* end, and a copy lives as long as its call or its mapping.
LEMMA FileInvImplies == FileInv => MapIsExact /\ CopiesAreOwned
<1>. SUFFICES ASSUME FileInv, NEW t \in MapThreads \ disturbed, maps[t].result = "mapped",
                     NEW i \in DOMAIN maps[t].data
              PROVE  maps[t].data[i] = IF maps[t].offs + i < FileLength
                                       THEN maps[t].offs + i ELSE -1
  BY DEF MapIsExact, FileInv
<1>1. MapOK(maps[t], t \notin disturbed, offset)
  BY DEF FileInv
<1>2. Exact(maps[t])
  BY <1>1 DEF MapOK
<1>. QED
  BY <1>2 DEF Exact

\* Only its own last step takes a call from putting back to being over.
LEMMA OffsetReturns ==
  ASSUME FileInv, FileNext, NEW t \in MapThreads, maps[t].at = "restore", maps'[t].at = "out"
  PROVE  offset' = maps[t].original
<1>. PICK u \in MapThreads :
       \/ CallMmap(u) \/ SaveOffset(u) \/ SeekToMap(u) \/ ReadMap(u) \/ RestoreOffset(u)
       \/ munmap(u) \/ MoveOffset(u)
  BY DEF FileNext
<1>1. DOMAIN maps = MapThreads
  BY DEF FileInv
<1>2. CASE RestoreOffset(u)
  <2>1. u # t => maps'[t] = maps[t]
    BY <1>2 DEF RestoreOffset
  <2>2. u = t
    BY <2>1
  <2>. QED
    BY <1>2, <2>2 DEF RestoreOffset, PutBack
<1>3. CASE CallMmap(u) \/ SaveOffset(u) \/ SeekToMap(u) \/ ReadMap(u) \/ munmap(u)
  <2>1. u # t
    BY <1>3 DEF CallMmap, SaveOffset, SeekToMap, ReadMap, munmap
  <2>2. maps'[t] = maps[t]
    <3>1. CASE CallMmap(u)
      <4>1. \E n : maps' = [maps EXCEPT ![u] = n]
        BY <3>1, Zenon DEF CallMmap, Fails
      <4>. QED
        BY <2>1, <4>1
    <3>2. CASE SaveOffset(u) \/ SeekToMap(u) \/ munmap(u)
      <4>1. CASE SaveOffset(u)
        <5>1. maps' = [maps EXCEPT ![u] = [maps[u] EXCEPT !.at = "seek", !.original = offset]]
          BY <4>1 DEF SaveOffset, FileInv
        <5>. QED
          BY <2>1, <5>1
      <4>2. CASE SeekToMap(u)
        <5>1. \/ maps' = [maps EXCEPT ![u] = [maps[u] EXCEPT !.at = "read"]]
              \/ maps' = [maps EXCEPT ![u] = Failed]
          BY <4>2 DEF SeekToMap, Fails, FileInv
        <5>2. PICK n : maps' = [maps EXCEPT ![u] = n]
          BY <5>1
        <5>. QED
          BY <2>1, <5>2
      <4>3. CASE munmap(u)
        BY <2>1, <4>3 DEF munmap
      <4>. QED
        BY <3>2, <4>1, <4>2, <4>3
    <3>3. CASE ReadMap(u)
      <4>1. \E n : maps' = [maps EXCEPT ![u] = n]
        BY <3>3, <1>1 DEF ReadMap
      <4>. QED
        BY <2>1, <4>1
    <3>. QED
      BY <1>3, <3>1, <3>2, <3>3
  <2>. QED
    BY <2>2
<1>4. CASE MoveOffset(u)
  BY <1>4 DEF MoveOffset
<1>. QED
  BY <1>2, <1>3, <1>4
------------------------------------------------------------------------------
(* scandir.                                                                *)

ScanRecords ==
  [at : {"out", "alloc", "read", "failure", "set", "sort", "clear", "return"},
   left : Int, count : Nat, capacity : Nat, dir : BOOLEAN, array : BOOLEAN,
   entries : Nat, order : {"none", "own", "foreign", "crash"},
   result : {"none", "failed", "list"}]

\* What a call owns, by where it is.
ScanOwns(s) ==
  /\ s.at = "out" => ~s.dir /\ (s.array <=> s.result = "list")
  /\ s.at # "out" => s.result = "none"
  /\ s.at = "alloc" => s.dir /\ ~s.array /\ s.count = 0
  /\ s.at \in {"read", "failure"} => s.dir /\ s.array
  /\ s.at \in {"set", "sort", "clear", "return"} => ~s.dir /\ s.array
ScanCounts(s) ==
  /\ s.array => s.count <= s.capacity
  /\ s.at = "read" => s.capacity >= 1
  /\ s.entries = IF s.result = "failed" THEN 0 ELSE s.count
\* Whose comparator has been called: a call that sorts undisturbed has its own
\* in the global.
ScanSorts(s, alone, mine) ==
  /\ s.at \in {"alloc", "read", "failure", "set"} => s.order = "none"
  /\ alone => s.order \in {"none", "own"}
  /\ s.at = "sort" /\ alone => mine

ScanInv ==
  /\ scan \in [Scanners -> ScanRecords]
  /\ \A t \in Scanners : ScanOwns(scan[t]) /\ ScanCounts(scan[t])
  /\ \A t \in Scanners : ScanSorts(scan[t], t \notin mixed, scandir_compare = t)

LEMMA ScanInvInit == ScanInit => ScanInv
<1>. SUFFICES ASSUME ScanInit PROVE ScanInv
  OBVIOUS
<1>1. NoScan \in ScanRecords /\ ScanOwns(NoScan) /\ ScanCounts(NoScan)
  BY DEF NoScan, ScanRecords, ScanOwns, ScanCounts
<1>2. NoScan.order = "none" /\ NoScan.at = "out"
  BY DEF NoScan
<1>. QED
  BY <1>1, <1>2 DEF ScanInit, ScanInv, ScanSorts

\* A step of one call that leaves the global alone.
LEMMA QuietStep ==
  ASSUME ScanInv, NEW t \in Scanners, NEW s \in ScanRecords, Step(t, s), Quiet,
         ScanOwns(s), ScanCounts(s), ScanSorts(s, t \notin mixed, scandir_compare = t)
  PROVE  ScanInv'
BY DEF ScanInv, Step, Quiet

\* The same where the calls that are sorting are known to be mixed.
LEMMA MixingStep ==
  ASSUME ScanInv, NEW t \in Scanners, NEW s \in ScanRecords, Step(t, s),
         ScanOwns(s), ScanCounts(s), ScanSorts(s, t \notin mixed', scandir_compare' = t),
         \A u \in Scanners : u # t /\ u \notin mixed' => u \notin mixed /\ scan[u].at # "sort"
  PROVE  ScanInv'
<1>1. scan' \in [Scanners -> ScanRecords]
  BY DEF ScanInv, Step
<1>2. \A u \in Scanners : scan'[u] = IF u = t THEN s ELSE scan[u]
  BY DEF ScanInv, Step
<1>3. \A u \in Scanners : ScanOwns(scan'[u]) /\ ScanCounts(scan'[u])
  BY <1>2 DEF ScanInv
<1>4. ASSUME NEW u \in Scanners
      PROVE  ScanSorts(scan'[u], u \notin mixed', scandir_compare' = u)
  <2>1. CASE u = t
    BY <1>2, <2>1
  <2>2. CASE u # t
    <3>1. ScanSorts(scan[u], u \notin mixed, scandir_compare = u) /\ scan'[u] = scan[u]
      BY <1>2, <2>2 DEF ScanInv
    <3>2. u \notin mixed' => u \notin mixed /\ scan[u].at # "sort"
      BY <2>2
    <3>. QED
      BY <3>1, <3>2 DEF ScanSorts
  <2>. QED
    BY <2>1, <2>2
<1>. QED
  BY <1>1, <1>3, <1>4 DEF ScanInv

LEMMA OpenDirKeeps ==
  ASSUME ScanInv, NEW t \in Scanners, OpenDir(t)
  PROVE  ScanInv'
<1>0. NoScan \in ScanRecords
  BY DEF NoScan, ScanRecords
<1>1. Quiet
  BY DEF OpenDir
<1>2. ASSUME NEW n \in 0..MaxEntries,
             Step(t, [NoScan EXCEPT !.at = "alloc", !.left = n, !.dir = TRUE])
      PROVE  ScanInv'
  <2>1. PICK s : s = [NoScan EXCEPT !.at = "alloc", !.left = n, !.dir = TRUE]
    OBVIOUS
  <2>2. s \in ScanRecords
    <3>1. n \in Int
      BY ScanAssumption
    <3>. QED
      BY <1>0, <2>1, <3>1 DEF ScanRecords
  <2>3. ScanOwns(s) /\ ScanCounts(s) /\ ScanSorts(s, t \notin mixed, scandir_compare = t)
    BY <2>1 DEF NoScan, ScanOwns, ScanCounts, ScanSorts
  <2>. QED
    BY <1>1, <1>2, <2>1, <2>2, <2>3, QuietStep
<1>3. ASSUME Step(t, [NoScan EXCEPT !.result = "failed"])
      PROVE  ScanInv'
  <2>1. PICK s : s = [NoScan EXCEPT !.result = "failed"]
    OBVIOUS
  <2>2. s \in ScanRecords
    BY <1>0, <2>1 DEF ScanRecords
  <2>3. ScanOwns(s) /\ ScanCounts(s) /\ ScanSorts(s, t \notin mixed, scandir_compare = t)
    BY <2>1 DEF NoScan, ScanOwns, ScanCounts, ScanSorts
  <2>. QED
    BY <1>1, <1>3, <2>1, <2>2, <2>3, QuietStep
<1>. QED
  BY <1>2, <1>3 DEF OpenDir

LEMMA AllocateKeeps ==
  ASSUME ScanInv, NEW t \in Scanners, AllocateEntries(t)
  PROVE  ScanInv'
<1>1. Quiet /\ scan[t].at = "alloc"
  BY DEF AllocateEntries
<1>2. /\ scan[t] \in ScanRecords /\ ScanOwns(scan[t]) /\ ScanCounts(scan[t])
      /\ ScanSorts(scan[t], t \notin mixed, scandir_compare = t)
  BY DEF ScanInv
<1>3. PICK s : /\ Step(t, s)
               /\ \/ s = [scan[t] EXCEPT !.at = "read", !.capacity = FirstCapacity, !.array = TRUE]
                  \/ s = [scan[t] EXCEPT !.at = "out", !.dir = FALSE, !.result = "failed"]
  BY DEF AllocateEntries
<1>4. s \in ScanRecords
  BY <1>2, <1>3, ScanAssumption DEF ScanRecords
<1>5. ScanOwns(s)
  BY <1>1, <1>2, <1>3 DEF ScanRecords, ScanOwns
<1>6. /\ s.count = 0 /\ s.entries = 0 /\ s.order = "none"
      /\ s.at = "read" => s.capacity = FirstCapacity
      /\ s.at = "out" => ~s.array
      /\ s.at \in {"read", "out"}
  BY <1>1, <1>2, <1>3 DEF ScanRecords, ScanOwns, ScanCounts, ScanSorts
<1>7. ScanCounts(s) /\ ScanSorts(s, t \notin mixed, scandir_compare = t)
  BY <1>6, ScanAssumption DEF ScanCounts, ScanSorts
<1>. QED
  BY <1>1, <1>3, <1>4, <1>5, <1>7, QuietStep

LEMMA ReadEntryKeeps ==
  ASSUME ScanInv, NEW t \in Scanners, ReadEntry(t)
  PROVE  ScanInv'
<1>1. Quiet /\ scan[t].at = "read"
  BY DEF ReadEntry
<1>2. /\ scan[t] \in ScanRecords /\ ScanOwns(scan[t]) /\ ScanCounts(scan[t])
      /\ ScanSorts(scan[t], t \notin mixed, scandir_compare = t)
  BY DEF ScanInv
<1>. DEFINE cap == IF IsFull(scan[t]) THEN 2 * scan[t].capacity ELSE scan[t].capacity
<1>3. PICK s :
        /\ Step(t, s)
        /\ \/ s = [scan[t] EXCEPT !.left = @ - 1]
           \/ s = [scan[t] EXCEPT !.at = "failure", !.left = @ - 1]
           \/ s = [scan[t] EXCEPT !.left = @ - 1, !.count = @ + 1, !.entries = @ + 1,
                                  !.capacity = cap]
  BY DEF ReadEntry
<1>4. CASE s = [scan[t] EXCEPT !.left = @ - 1] \/ s = [scan[t] EXCEPT !.at = "failure", !.left = @ - 1]
  <2>0. scan[t].left - 1 \in Int
    BY <1>2 DEF ScanRecords
  <2>1. s \in ScanRecords
    BY <1>2, <1>4, <2>0 DEF ScanRecords
  <2>2. ScanOwns(s) /\ ScanCounts(s) /\ ScanSorts(s, t \notin mixed, scandir_compare = t)
    BY <1>1, <1>2, <1>4 DEF ScanRecords, ScanOwns, ScanCounts, ScanSorts
  <2>. QED
    BY <1>1, <1>3, <2>1, <2>2, QuietStep
<1>5. CASE s = [scan[t] EXCEPT !.left = @ - 1, !.count = @ + 1, !.entries = @ + 1,
                               !.capacity = cap]
  <2>1. /\ scan[t].count \in Nat /\ scan[t].capacity \in Nat /\ scan[t].capacity >= 1
        /\ scan[t].count <= scan[t].capacity
    BY <1>1, <1>2 DEF ScanRecords, ScanOwns, ScanCounts
  <2>2. cap \in Nat /\ cap >= 1 /\ scan[t].count + 1 <= cap
    BY <2>1 DEF IsFull
  <2>. HIDE DEF cap
  <2>0. /\ scan[t].left - 1 \in Int /\ scan[t].count + 1 \in Nat /\ scan[t].entries + 1 \in Nat
        /\ s = [scan[t] EXCEPT !.left = @ - 1, !.count = @ + 1, !.entries = @ + 1, !.capacity = cap]
    BY <1>2, <1>5 DEF ScanRecords
  <2>3. s \in ScanRecords
    BY <1>2, <2>0, <2>2 DEF ScanRecords
  <2>4. /\ s.at = "read" /\ s.count = scan[t].count + 1 /\ s.capacity = cap
        /\ s.entries = scan[t].entries + 1 /\ s.dir = scan[t].dir /\ s.array = scan[t].array
        /\ s.result = scan[t].result /\ s.order = scan[t].order
    BY <1>1, <1>2, <1>5 DEF ScanRecords
  <2>5. ScanOwns(s) /\ ScanSorts(s, t \notin mixed, scandir_compare = t)
    BY <1>1, <1>2, <2>4 DEF ScanOwns, ScanSorts
  <2>6. ScanCounts(s)
    BY <1>1, <1>2, <2>2, <2>4 DEF ScanOwns, ScanCounts
  <2>. QED
    BY <1>1, <1>3, <2>3, <2>5, <2>6, QuietStep
<1>. QED
  BY <1>3, <1>4, <1>5

LEMMA ClosingKeeps ==
  ASSUME ScanInv, NEW t \in Scanners, Failure(t) \/ CloseDir(t) \/ ReturnList(t)
  PROVE  ScanInv'
<1>1. Quiet /\ scan[t].at \in {"failure", "read", "return"}
  BY DEF Failure, CloseDir, ReturnList
<1>2. /\ scan[t] \in ScanRecords /\ ScanOwns(scan[t]) /\ ScanCounts(scan[t])
      /\ ScanSorts(scan[t], t \notin mixed, scandir_compare = t)
  BY DEF ScanInv
<1>3. CASE Failure(t)
  <2>1. PICK s : /\ Step(t, s)
                 /\ s = [scan[t] EXCEPT !.at = "out", !.dir = FALSE, !.array = FALSE,
                                        !.entries = 0, !.result = "failed"]
    BY <1>3 DEF Failure
  <2>2. s \in ScanRecords
    BY <1>2, <2>1 DEF ScanRecords
  <2>3. ScanOwns(s) /\ ScanCounts(s) /\ ScanSorts(s, t \notin mixed, scandir_compare = t)
    BY <1>1, <1>2, <2>1 DEF ScanRecords, ScanOwns, ScanCounts, ScanSorts
  <2>. QED
    BY <1>1, <2>1, <2>2, <2>3, QuietStep
<1>4. CASE CloseDir(t)
  <2>0. PICK at \in {"set", "return"} : Step(t, [scan[t] EXCEPT !.dir = FALSE, !.at = at])
    BY <1>4 DEF CloseDir
  <2>1. PICK s : Step(t, s) /\ s = [scan[t] EXCEPT !.dir = FALSE, !.at = at]
    BY <2>0
  <2>2. s \in ScanRecords
    BY <1>2, <2>1 DEF ScanRecords
  <2>3. scan[t].at = "read"
    BY <1>4 DEF CloseDir
  <2>4. ScanOwns(s) /\ ScanCounts(s) /\ ScanSorts(s, t \notin mixed, scandir_compare = t)
    BY <2>3, <1>2, <2>1 DEF ScanRecords, ScanOwns, ScanCounts, ScanSorts
  <2>. QED
    BY <1>1, <2>1, <2>2, <2>4, QuietStep
<1>5. CASE ReturnList(t)
  <2>1. PICK s : Step(t, s) /\ s = [scan[t] EXCEPT !.at = "out", !.result = "list"]
    BY <1>5 DEF ReturnList
  <2>2. s \in ScanRecords
    BY <1>2, <2>1 DEF ScanRecords
  <2>3. scan[t].at = "return"
    BY <1>5 DEF ReturnList
  <2>4. ScanOwns(s) /\ ScanCounts(s) /\ ScanSorts(s, t \notin mixed, scandir_compare = t)
    BY <2>3, <1>2, <2>1 DEF ScanRecords, ScanOwns, ScanCounts, ScanSorts
  <2>. QED
    BY <1>1, <2>1, <2>2, <2>4, QuietStep
<1>. QED
  BY <1>3, <1>4, <1>5

LEMMA SetKeeps ==
  ASSUME ScanInv, NEW t \in Scanners, SetCompare(t)
  PROVE  ScanInv'
<1>0. /\ scan[t] \in ScanRecords /\ ScanOwns(scan[t]) /\ ScanCounts(scan[t])
      /\ ScanSorts(scan[t], t \notin mixed, scandir_compare = t) /\ scan[t].at = "set"
  BY DEF ScanInv, SetCompare
<1>1. PICK s : Step(t, s) /\ s = [scan[t] EXCEPT !.at = "sort"]
  BY DEF SetCompare
<1>2. s \in ScanRecords
  BY <1>0, <1>1 DEF ScanRecords
<1>3. scandir_compare' = t
  BY DEF SetCompare
<1>4. ScanOwns(s) /\ ScanCounts(s) /\ ScanSorts(s, t \notin mixed', scandir_compare' = t)
  BY <1>0, <1>1, <1>3 DEF ScanRecords, ScanOwns, ScanCounts, ScanSorts
<1>5. \A u \in Scanners : u # t /\ u \notin mixed' => u \notin mixed /\ scan[u].at # "sort"
  BY DEF SetCompare
<1>. QED
  BY <1>1, <1>2, <1>4, <1>5, MixingStep

LEMMA CompareKeeps ==
  ASSUME ScanInv, NEW t \in Scanners, Compare(t)
  PROVE  ScanInv'
<1>0. /\ scan[t] \in ScanRecords /\ ScanOwns(scan[t]) /\ ScanCounts(scan[t])
      /\ ScanSorts(scan[t], t \notin mixed, scandir_compare = t) /\ scan[t].at = "sort"
  BY DEF ScanInv, Compare
<1>. DEFINE sorted == CASE scan[t].order \in {"crash", "foreign"} -> scan[t].order
                        [] scandir_compare = Nobody -> "crash"
                        [] scandir_compare # t -> "foreign"
                        [] OTHER -> "own"
<1>9. PICK at \in {"clear", "sort"} : Step(t, [scan[t] EXCEPT !.order = sorted, !.at = at])
  BY DEF Compare
<1>1. PICK s : Step(t, s) /\ s = [scan[t] EXCEPT !.order = sorted, !.at = at]
  BY <1>9
<1>2. sorted \in {"none", "own", "foreign", "crash"}
  OBVIOUS
<1>3. ASSUME t \notin mixed PROVE sorted = "own"
  <2>1. scandir_compare = t /\ scan[t].order \in {"none", "own"}
    BY <1>0, <1>3 DEF ScanSorts
  <2>2. t # Nobody
    BY ScanAssumption DEF Nobody
  <2>. QED
    BY <2>1, <2>2
<1>. HIDE DEF sorted
<1>4. s \in ScanRecords
  BY <1>0, <1>1, <1>2 DEF ScanRecords
<1>5. ScanOwns(s) /\ ScanCounts(s)
  BY <1>0, <1>1 DEF ScanRecords, ScanOwns, ScanCounts
<1>6. s.order = sorted /\ s.at \in {"clear", "sort"}
  BY <1>0, <1>1 DEF ScanRecords
<1>7. ScanSorts(s, t \notin mixed, scandir_compare = t)
  BY <1>0, <1>3, <1>6 DEF ScanSorts
<1>8. Quiet
  BY DEF Compare
<1>. QED
  BY <1>1, <1>4, <1>5, <1>7, <1>8, QuietStep

LEMMA ClearKeeps ==
  ASSUME ScanInv, NEW t \in Scanners, ClearCompare(t)
  PROVE  ScanInv'
<1>0. /\ scan[t] \in ScanRecords /\ ScanOwns(scan[t]) /\ ScanCounts(scan[t])
      /\ ScanSorts(scan[t], t \notin mixed, scandir_compare = t) /\ scan[t].at = "clear"
  BY DEF ScanInv, ClearCompare
<1>1. PICK s : Step(t, s) /\ s = [scan[t] EXCEPT !.at = "return"]
  BY DEF ClearCompare
<1>2. s \in ScanRecords
  BY <1>0, <1>1 DEF ScanRecords
<1>3. mixed \subseteq mixed'
  BY DEF ClearCompare
<1>4. ScanOwns(s) /\ ScanCounts(s)
  BY <1>0, <1>1 DEF ScanRecords, ScanOwns, ScanCounts
<1>5. s.order = scan[t].order /\ s.at = "return"
  BY <1>0, <1>1 DEF ScanRecords
<1>6. ScanSorts(s, t \notin mixed', scandir_compare' = t)
  BY <1>0, <1>3, <1>5 DEF ScanSorts
<1>7. \A u \in Scanners : u # t /\ u \notin mixed' => u \notin mixed /\ scan[u].at # "sort"
  BY DEF ClearCompare
<1>. QED
  BY <1>1, <1>2, <1>4, <1>6, <1>7, MixingStep

LEMMA FreeKeeps ==
  ASSUME ScanInv, NEW t \in Scanners, FreeList(t)
  PROVE  ScanInv'
<1>1. Step(t, NoScan) /\ mixed' = mixed \ {t} /\ scandir_compare' = scandir_compare
  BY DEF FreeList
<1>2. NoScan \in ScanRecords /\ ScanOwns(NoScan) /\ ScanCounts(NoScan)
  BY DEF NoScan, ScanRecords, ScanOwns, ScanCounts
<1>3. NoScan.order = "none" /\ NoScan.at = "out"
  BY DEF NoScan
<1>4. scan' = [scan EXCEPT ![t] = NoScan]
  BY <1>1 DEF Step
<1>. QED
  BY <1>1, <1>2, <1>3, <1>4 DEF ScanInv, ScanSorts

LEMMA ScanInvKept ==
  ASSUME ScanInv, [ScanNext]_scanVars
  PROVE  ScanInv'
<1>1. CASE UNCHANGED scanVars
  BY <1>1 DEF scanVars, ScanInv
<1>. QED
  BY <1>1, OpenDirKeeps, AllocateKeeps, ReadEntryKeeps, ClosingKeeps, SetKeeps, CompareKeeps,
     ClearKeeps, FreeKeeps DEF ScanNext

LEMMA ScanInvImplies == ScanInv => SortedByOwn /\ ScanOwnsNothing
<1>. SUFFICES ASSUME ScanInv PROVE SortedByOwn /\ ScanOwnsNothing
  OBVIOUS
<1>1. SortedByOwn
  BY DEF ScanInv, ScanSorts, SortedByOwn
<1>2. ASSUME NEW t \in Scanners
      PROVE  /\ scan[t].array => scan[t].count <= scan[t].capacity
             /\ scan[t].entries = IF scan[t].result = "failed" THEN 0 ELSE scan[t].count
             /\ scan[t].at = "out" => ~scan[t].dir /\ (scan[t].array = (scan[t].result = "list"))
  <2>1. ScanOwns(scan[t]) /\ ScanCounts(scan[t]) /\ scan[t].array \in BOOLEAN
    BY DEF ScanInv, ScanRecords
  <2>. QED
    BY <2>1 DEF ScanOwns, ScanCounts
<1>. QED
  BY <1>1, <1>2 DEF ScanOwnsNothing

------------------------------------------------------------------------------
(* Assets.                                                                 *)

AssetInv ==
  /\ asset \in [bytesRead : Nat, fileSize : Int, opened : BOOLEAN]
  /\ position \in Nat /\ handles \in Nat
  /\ asset.fileSize = -1 => ~asset.opened
  /\ OneHandle
  /\ asset.opened /\ ~sought => asset.bytesRead = position
  /\ eof => position >= asset.fileSize
  /\ ZeroIsEnd

LEMMA AssetInvInit == AssetInit => AssetInv
BY DEF AssetInit, AssetInv, NoAsset, OneHandle, ZeroIsEnd

\* Bytes arrive, or the call fails or finds the end of the file.
LEMMA AssetReadKeeps ==
  ASSUME AssetInv, AAsset_read
  PROVE  AssetInv'
<1>. DEFINE left == IF position < asset.fileSize THEN asset.fileSize - position ELSE 0
            most(count) == IF count < left THEN count ELSE left
<1>0. /\ asset.bytesRead \in Nat /\ asset.fileSize \in Int /\ asset.opened \in BOOLEAN
      /\ position \in Nat /\ handles' = handles /\ sought' = sought /\ left \in Nat
  BY DEF AssetInv, AAsset_read
<1>1. CASE ~asset.opened
  <2>1. UNCHANGED <<asset, position, eof>> /\ Said("read", -1)
    BY <1>1 DEF AAsset_read
  <2>2. returned' # [call |-> "read", value |-> 0]
    BY <2>1 DEF Said
  <2>. QED
    BY <1>0, <2>1, <2>2 DEF AssetInv, OneHandle, ZeroIsEnd
<1>2. CASE asset.opened
  <2>0. PICK count \in 0 .. MaxSize + 1 : \E part \in 0..most(count) :
          /\ position' = position + part
          /\ eof' = (eof \/ (count > left /\ part = left))
          /\ asset' = [asset EXCEPT !.bytesRead = IF part > 0 THEN Counted(@, part) ELSE @]
          /\ Said("read", CASE part > 0 -> part
                            [] part = 0 /\ eof' -> 0
                            [] OTHER -> -1)
    BY <1>2 DEF AAsset_read
  <2>1. PICK part \in 0..most(count) :
          /\ position' = position + part
          /\ eof' = (eof \/ (count > left /\ part = left))
          /\ asset' = [asset EXCEPT !.bytesRead = IF part > 0 THEN Counted(@, part) ELSE @]
          /\ Said("read", CASE part > 0 -> part
                            [] part = 0 /\ eof' -> 0
                            [] OTHER -> -1)
    BY <2>0
  <2>2. count \in Nat /\ part \in Nat /\ part <= left
    BY <1>0, <2>1, AssetAssumption
  <2>. HIDE DEF left, most
  <2>3. asset' = [asset EXCEPT !.bytesRead = asset.bytesRead + part]
    <3>1. (IF part > 0 THEN asset.bytesRead + part ELSE asset.bytesRead) = asset.bytesRead + part
      BY <1>0, <2>2
    <3>. QED
      BY <2>1, <3>1 DEF Counted
  <2>4. /\ asset' \in [bytesRead : Nat, fileSize : Int, opened : BOOLEAN]
        /\ asset'.bytesRead = asset.bytesRead + part
        /\ asset'.fileSize = asset.fileSize /\ asset'.opened = asset.opened
    <3>1. asset.bytesRead + part \in Nat
      BY <1>0, <2>2
    <3>. QED
      BY <2>3, <3>1 DEF AssetInv
  <2>5. position' \in Nat /\ position' >= position
    BY <1>0, <2>1, <2>2
  <2>6. ASSUME eof'
        PROVE  position' >= asset.fileSize
    <3>1. CASE eof
      BY <1>0, <2>5, <3>1 DEF AssetInv
    <3>2. CASE ~eof
      <4>1. part = left
        BY <2>1, <2>6, <3>2
      <4>. QED
        BY <1>0, <2>1, <4>1 DEF left
    <3>. QED
      BY <3>1, <3>2
  <2>7. ASSUME returned' = [call |-> "read", value |-> 0]
        PROVE  eof'
    <3>1. 0 = CASE part > 0 -> part
                [] part = 0 /\ eof' -> 0
                [] OTHER -> -1
      BY <2>1, <2>7 DEF Said
    <3>2. CASE part > 0
      BY <2>2, <3>1, <3>2
    <3>3. CASE part = 0
      <4>1. ~(part > 0)
        BY <3>3
      <4>2. ~eof' => 0 = -1
        BY <3>1, <3>3, <4>1
      <4>. QED
        BY <4>2
    <3>. QED
      BY <2>2, <3>2, <3>3
  <2>8. asset'.opened /\ ~sought' => asset'.bytesRead = position'
    <3>1. asset.opened /\ ~sought => asset.bytesRead + part = position + part
      BY DEF AssetInv
    <3>. QED
      BY <1>0, <2>1, <2>4, <3>1
  <2>9. OneHandle' /\ handles' \in Nat /\ (asset'.fileSize = -1 => ~asset'.opened)
    BY <1>0, <2>4 DEF AssetInv, OneHandle
  <2>10. ZeroIsEnd'
    BY <2>4, <2>6, <2>7 DEF ZeroIsEnd
  <2>11. eof' => position' >= asset'.fileSize
    BY <2>4, <2>6
  <2>. QED
    BY <2>4, <2>5, <2>8, <2>9, <2>10, <2>11 DEF AssetInv
<1>. QED
  BY <1>0, <1>1, <1>2

LEMMA AssetInvKept ==
  ASSUME AssetInv, [AssetNext]_assetVars
  PROVE  AssetInv'
<1>0. /\ asset.bytesRead \in Nat /\ asset.fileSize \in Int /\ asset.opened \in BOOLEAN
      /\ position \in Nat /\ handles \in Nat
  BY DEF AssetInv
<1>1. CASE AAssetManager_open
  <2>1. asset = NoAsset
    BY <1>1 DEF AAssetManager_open
  <2>2. returned' # [call |-> "read", value |-> 0]
    BY <1>1 DEF AAssetManager_open, Said
  <2>3. CASE UNCHANGED <<asset, position, eof, handles, sought>>
    BY <2>2, <2>3 DEF AssetInv, OneHandle, ZeroIsEnd
  <2>4. ASSUME NEW size \in 0..MaxSize,
               asset' = [bytesRead |-> 0, fileSize |-> size, opened |-> TRUE],
               position' = 0, eof' = FALSE, handles' = handles + 1, sought' = FALSE
        PROVE  AssetInv'
    <3>1. size \in Nat
      BY <2>4, AssetAssumption
    <3>2. handles = 0
      BY <2>1 DEF AssetInv, OneHandle, NoAsset
    <3>3. /\ asset' \in [bytesRead : Nat, fileSize : Int, opened : BOOLEAN]
          /\ asset'.bytesRead = 0 /\ asset'.fileSize = size /\ asset'.opened
      BY <2>4, <3>1
    <3>. QED
      BY <2>2, <2>4, <3>1, <3>2, <3>3 DEF AssetInv, OneHandle, ZeroIsEnd
  <2>. QED
    BY <1>1, <2>3, <2>4 DEF AAssetManager_open
<1>2. CASE AAsset_read
  BY <1>2, AssetReadKeeps
<1>3. CASE AAsset_seek
  <2>1. asset' = asset /\ handles' = handles
    BY <1>3 DEF AAsset_seek
  <2>2. returned' # [call |-> "read", value |-> 0]
    BY <1>3 DEF AAsset_seek, Said
  <2>3. CASE UNCHANGED <<position, eof, sought>>
    BY <2>1, <2>2, <2>3 DEF AssetInv, OneHandle, ZeroIsEnd
  <2>4. CASE position' \in 0..MaxSize /\ eof' = FALSE /\ sought' = TRUE
    <3>1. position' \in Nat
      BY <2>4, AssetAssumption
    <3>. QED
      BY <2>1, <2>2, <2>4, <3>1 DEF AssetInv, OneHandle, ZeroIsEnd
  <2>. QED
    BY <1>3, <2>3, <2>4 DEF AAsset_seek
<1>4. CASE AAsset_getRemainingLength \/ AAsset_getLength
  <2>1. UNCHANGED <<asset, position, eof, handles, sought>>
    BY <1>4 DEF AAsset_getRemainingLength, AAsset_getLength
  <2>2. returned' # [call |-> "read", value |-> 0]
    BY <1>4 DEF AAsset_getRemainingLength, AAsset_getLength, Said
  <2>. QED
    BY <2>1, <2>2 DEF AssetInv, OneHandle, ZeroIsEnd
<1>5. CASE AAsset_openFileDescriptor
  <2>1. UNCHANGED <<position, eof, sought>>
    BY <1>5 DEF AAsset_openFileDescriptor
  <2>2. returned' # [call |-> "read", value |-> 0]
    BY <1>5 DEF AAsset_openFileDescriptor, Said
  <2>3. /\ asset' \in [bytesRead : Nat, fileSize : Int, opened : BOOLEAN]
        /\ ~asset'.opened /\ asset'.fileSize = asset.fileSize
    BY <1>5 DEF AAsset_openFileDescriptor, AssetInv
  <2>4. handles' = 0
    BY <1>5 DEF AAsset_openFileDescriptor, AssetInv, OneHandle
  <2>. QED
    BY <2>1, <2>2, <2>3, <2>4 DEF AssetInv, OneHandle, ZeroIsEnd
<1>6. CASE AAsset_close
  <2>1. UNCHANGED <<position, eof, sought>> /\ asset' = NoAsset
    BY <1>6 DEF AAsset_close
  <2>2. returned' # [call |-> "read", value |-> 0]
    BY <1>6 DEF AAsset_close, Said
  <2>3. handles' = 0
    BY <1>6 DEF AAsset_close, AssetInv, OneHandle
  <2>4. /\ NoAsset \in [bytesRead : Nat, fileSize : Int, opened : BOOLEAN]
        /\ ~NoAsset.opened /\ NoAsset.fileSize = -1
    BY DEF NoAsset
  <2>. QED
    BY <1>0, <2>1, <2>2, <2>3, <2>4 DEF AssetInv, OneHandle, ZeroIsEnd
<1>7. CASE UNCHANGED assetVars
  BY <1>7 DEF assetVars, AssetInv, OneHandle, ZeroIsEnd
<1>. QED
  BY <1>1, <1>2, <1>3, <1>4, <1>5, <1>6, <1>7 DEF AssetNext

LEMMA AssetInvImplies == AssetInv => RemainingIsLeft /\ OneHandle /\ ZeroIsEnd
<1>. SUFFICES ASSUME AssetInv PROVE RemainingIsLeft
  BY DEF AssetInv
<1>1. asset.opened /\ ~sought => asset.bytesRead = position
  BY DEF AssetInv
<1>. QED
  BY <1>1 DEF RemainingIsLeft

------------------------------------------------------------------------------
(* The helpers of utils.c.                                                 *)

UtilsInv ==
  /\ leaked \in Nat
  /\ handle => upc \in {"load_size", "load_read", "save_write"}
  /\ upc # "idle" => result = "none"
  /\ upc \notin {"idle", "save_write"} => target = before
  /\ upc \in {"save_open", "save_write"} => buffer = "whole" \/ cut
  /\ upc \in {"copy_exists", "mkpath"} => op = "copy"
  /\ upc \in {"load_exists", "load_size", "load_read"} => op # "save"
  /\ CopyTellsTruth

LEMMA UtilsInvInit == UtilsInit => UtilsInv
BY DEF UtilsInit, UtilsInv, CopyTellsTruth

LEMMA UtilsInvKept ==
  ASSUME UtilsInv, [UtilsNext]_utilsVars
  PROVE  UtilsInv'
<1>. USE DEF UtilsInv, CopyTellsTruth, Return
<1>1. CASE CallUtils
  BY <1>1 DEF CallUtils
<1>2. CASE CopyExists
  BY <1>2 DEF CopyExists
<1>3. CASE file_mkpath
  BY <1>3 DEF file_mkpath
<1>4. CASE LoadOpen
  BY <1>4 DEF LoadOpen
<1>5. CASE LoadSize
  BY <1>5 DEF LoadSize
<1>6. CASE LoadRead
  BY <1>6 DEF LoadRead
<1>7. CASE SaveOpen
  BY <1>7 DEF SaveOpen
<1>8. CASE SaveWrite
  BY <1>8 DEF SaveWrite
<1>9. CASE FreeBuffer
  BY <1>9 DEF FreeBuffer
<1>10. CASE Kill
  BY <1>10 DEF Kill
<1>11. CASE SourceChanges
  BY <1>11 DEF SourceChanges
<1>12. CASE UNCHANGED utilsVars
  BY <1>12 DEF utilsVars
<1>. QED
  BY <1>1, <1>2, <1>3, <1>4, <1>5, <1>6, <1>7, <1>8, <1>9, <1>10, <1>11, <1>12 DEF UtilsNext

\* A buffer is lost by file_copy where it cannot open its target, and by no
\* other step.
LEMMA LeakStep ==
  ASSUME UtilsInv, UtilsNext, leaked' > leaked
  PROVE  op = "copy" /\ result' = "false" /\ target' = before
<1>1. leaked \in Nat /\ ~(leaked > leaked) /\ ~(0 > leaked)
  BY DEF UtilsInv
<1>2. SaveOpen
  <2>1. leaked' # leaked /\ leaked' # 0
    BY <1>1
  <2>. QED
    BY <2>1, Zenon DEF UtilsNext, CallUtils, CopyExists, file_mkpath, LoadOpen, LoadSize, LoadRead,
                SaveWrite, FreeBuffer, Kill, SourceChanges
<1>3. leaked' # leaked
  BY <1>1
<1>4. op = "copy" /\ result' = "false" /\ target' = target /\ upc = "save_open"
  BY <1>2, <1>3 DEF SaveOpen, Return
<1>. QED
  BY <1>4 DEF UtilsInv

------------------------------------------------------------------------------
(* Together.                                                               *)

FilesInv == FileInv /\ ScanInv /\ AssetInv /\ UtilsInv

LEMMA FilesKept == FilesSpec => []FilesInv
<1>1. FileInit /\ ScanInit /\ AssetInit /\ UtilsInit => FilesInv
  BY FileStarts, ScanInvInit, AssetInvInit, UtilsInvInit DEF FilesInv
<1>2. FilesInv /\ [FileNext]_fileVars /\ [ScanNext]_scanVars /\ [AssetNext]_assetVars
        /\ [UtilsNext]_utilsVars => FilesInv'
  BY FileKeeps, ScanInvKept, AssetInvKept, UtilsInvKept DEF FilesInv
<1>. QED
  BY <1>1, <1>2, PTL DEF FilesSpec, FileSpec

\* A mapping nobody disturbed holds the file's bytes and a copy lives as long as
\* it is used; an asset knows what is left; a scan that sorts alone uses its own
\* comparator and no call leaves a directory open; a helper reports what it did
\* and closes its file: for any threads, files, directories and assets, and
\* however the reads are cut.
THEOREM FilesStayExact == FilesSpec => []FilesAreExact
<1>1. FilesInv => FilesAreExact
  <2>. SUFFICES ASSUME FilesInv PROVE FilesAreExact
    OBVIOUS
  <2>1. CopyTellsTruth /\ HandleIsClosed
    BY DEF FilesInv, UtilsInv, HandleIsClosed
  <2>. QED
    BY <2>1, FileInvImplies, ScanInvImplies, AssetInvImplies DEF FilesInv, FilesAreExact
<1>. QED
  BY FilesKept, <1>1, PTL

\* mmap puts the offset back unless it was disturbed, and only a copy whose
\* target cannot be opened loses a buffer.
THEOREM FileStepsCleanUp == FilesSpec => StepsCleanUp
<1>1. FilesInv /\ [FileNext]_fileVars =>
        [\A t \in MapThreads \ disturbed :
           maps[t].at = "restore" /\ maps'[t].at = "out" => offset' = maps[t].original]_fileVars
  BY OffsetReturns DEF FilesInv
<1>2. FilesInv /\ [UtilsNext]_utilsVars =>
        [leaked' > leaked => op = "copy" /\ result' = "false" /\ target' = before]_utilsVars
  BY LeakStep DEF FilesInv
<1>. QED
  BY FilesKept, <1>1, <1>2, PTL DEF FilesSpec, FileSpec, StepsCleanUp, OffsetIsPutBack, LeakIsFailedSave

------------------------------------------------------------------------------
(* Pixels.                                                                 *)
\* A clipped rectangle covers what its rectangle covers of the screen.
LEMMA ClippedCovers ==
  ASSUME NEW x \in Int, NEW y \in Int, NEW w \in Nat, NEW h \in Nat,
         NEW px \in Int, NEW py \in Int
  PROVE  Covers(pointer_clear_rect(Rect(x, y, w, h)), px, py)
           <=> Covers(Rect(x, y, w, h), px, py) /\ OnScreen(px, py)
<1>1. /\ pointer_clear_rect(Rect(x, y, w, h)).x = IF x < 0 THEN 0 ELSE x
      /\ pointer_clear_rect(Rect(x, y, w, h)).w =
           IF x < 0 THEN IF w + x > Width THEN Width ELSE w + x
           ELSE IF x + w > Width THEN Width - x ELSE w
  BY ScreenAssumption DEF pointer_clear_rect, Rect
<1>2. /\ pointer_clear_rect(Rect(x, y, w, h)).y = IF y < 0 THEN 0 ELSE y
      /\ pointer_clear_rect(Rect(x, y, w, h)).h =
           IF y < 0 THEN IF h + y > Height THEN Height ELSE h + y
           ELSE IF y + h > Height THEN Height - y ELSE h
  BY ScreenAssumption DEF pointer_clear_rect, Rect
<1>3. LET r == pointer_clear_rect(Rect(x, y, w, h))
      IN r.x <= px /\ px < r.x + r.w <=> x <= px /\ px < x + w /\ px \in 0 .. Width - 1
  BY <1>1, ScreenAssumption
<1>4. LET r == pointer_clear_rect(Rect(x, y, w, h))
      IN r.y <= py /\ py < r.y + r.h <=> y <= py /\ py < y + h /\ py \in 0 .. Height - 1
  BY <1>2, ScreenAssumption
<1>. QED
  BY <1>3, <1>4 DEF Covers, OnScreen, Rect

\* Rows of b places: the place r of row q is found again by division.
LEMMA RowAndPlace ==
  ASSUME NEW b \in Nat \ {0}, NEW q \in Nat, NEW r \in 0 .. b - 1
  PROVE  (q * b + r) \div b = q /\ (q * b + r) % b = r
<1>. DEFINE n == q * b + r
            d == n \div b
            m == n % b
<1>1. n \in Nat /\ d \in Int /\ m \in 0 .. b - 1 /\ n = b * d + m
  OBVIOUS
<1>2. CASE d < q
  <2>1. (q - d) * b >= b
    BY <1>1, <1>2
  <2>. QED
    BY <2>1, <1>1
<1>3. CASE d > q
  <2>1. (d - q) * b >= b
    BY <1>1, <1>3
  <2>. QED
    BY <2>1, <1>1
<1>4. CASE d = q
  BY <1>1, <1>4
<1>. QED
  BY <1>1, <1>2, <1>3, <1>4

\* A place of c rows of b places each is one of b * c.
LEMMA PlaceInRows ==
  ASSUME NEW b \in Nat \ {0}, NEW c \in Nat \ {0}, NEW q \in 0 .. c - 1, NEW r \in 0 .. b - 1
  PROVE  q * b + r \in 0 .. b * c - 1
<1>1. q * b \in Nat /\ b * c \in Nat
  OBVIOUS
<1>2. (c - 1 - q) * b >= 0
  OBVIOUS
<1>3. q * b + b <= b * c
  BY <1>2
<1>. QED
  BY <1>1, <1>3

\* And the other way: every one of b * c places is in a row.
LEMMA RowOfPlace ==
  ASSUME NEW b \in Nat \ {0}, NEW c \in Nat \ {0}, NEW n \in 0 .. b * c - 1
  PROVE  /\ n \div b \in 0 .. c - 1
         /\ n % b \in 0 .. b - 1
         /\ n = (n \div b) * b + (n % b)
<1>. DEFINE d == n \div b
            m == n % b
<1>1. n \in Nat /\ d \in Int /\ m \in 0 .. b - 1 /\ n = b * d + m
  OBVIOUS
<1>2. d >= 0
  <2>. SUFFICES ASSUME d < 0 PROVE FALSE
    BY <1>1
  <2>1. (0 - d) * b >= b
    BY <1>1
  <2>. QED BY <2>1, <1>1
<1>3. d < c
  <2>. SUFFICES ASSUME d >= c PROVE FALSE
    BY <1>1
  <2>1. (d - c) * b >= 0
    BY <1>1
  <2>2. n < b * c /\ b * c \in Int
    OBVIOUS
  <2>. QED BY <2>1, <2>2, <1>1
<1>4. b * d = d * b
  BY <1>1
<1>. HIDE DEF d, m
<1>5. d \in 0 .. c - 1 /\ m \in 0 .. b - 1 /\ n = d * b + m
  BY <1>1, <1>2, <1>3, <1>4
<1>. QED
  BY <1>5 DEF d, m

\* A length and the blocks of four it takes.
LEMMA BlocksOf ==
  ASSUME NEW w \in Nat \ {0}
  PROVE  /\ Blocks(w) \in Nat \ {0}
         /\ \A x \in 0 .. w - 1 : /\ x \div 4 \in 0 .. Blocks(w) - 1
                                 /\ x % 4 \in 0 .. 3
                                 /\ x = (x \div 4) * 4 + (x % 4)
         /\ \A b \in Nat, i \in 0 .. 3 :
              /\ (b * 4 + i) \div 4 = b
              /\ (b * 4 + i) % 4 = i
  BY DEF Blocks

\* The block at the offset of a place in the rows of blocks is the one there.
LEMMA BlockAt ==
  ASSUME NEW w \in Nat \ {0}, NEW h,
         NEW by \in Nat, NEW bx \in 0 .. Blocks(w) - 1
  PROVE  BlockPixels(w, h, 8 * (by * Blocks(w) + bx)) = PixelsOfBlock(w, h, bx, by)
<1>. DEFINE b == Blocks(w)
            n == by * b + bx
<1>1. b \in Nat \ {0}
  BY BlocksOf
<1>2. by * b \in Nat /\ bx \in Nat
  BY <1>1
<1>. HIDE DEF b
<1>3. n \in Nat
  BY <1>2
<1>4. bx \in 0 .. b - 1
  BY DEF b
<1>5. n \div b = by /\ n % b = bx
  BY <1>1, <1>4, RowAndPlace
<1>. HIDE DEF n
<1>6. (8 * n) \div 8 = n
  BY <1>3
<1>7. BlockPixels(w, h, 8 * n) = PixelsOfBlock(w, h, n % Blocks(w), n \div Blocks(w))
  BY <1>6, Zenon DEF BlockPixels
<1>. QED
  BY <1>5, <1>7, Zenon DEF n, b

\* No write is beside the image or from another place.
LEMMA WritesAreWanted ==
  ASSUME NEW w \in Nat \ {0}, NEW h \in Nat \ {0}
  PROVE  Writes(w, h) \subseteq Wanted(w, h)
<1>. SUFFICES ASSUME NEW o \in Offsets(w, h), NEW p \in BlockPixels(w, h, o)
              PROVE  <<p[1], o, p[2]>> \in Wanted(w, h)
  BY DEF Writes
<1>1. Blocks(w) \in Nat \ {0} /\ Blocks(h) \in Nat \ {0}
  BY BlocksOf
<1>2. PICK n \in 0 .. Blocks(w) * Blocks(h) - 1 : o = 8 * n
  BY DEF Offsets
<1>. DEFINE by == n \div Blocks(w)
            bx == n % Blocks(w)
<1>3. /\ by \in 0 .. Blocks(h) - 1
      /\ bx \in 0 .. Blocks(w) - 1
      /\ n = by * Blocks(w) + bx
  BY <1>1, RowOfPlace
<1>. HIDE DEF by, bx
<1>4. p \in PixelsOfBlock(w, h, bx, by)
  <2>1. by \in Nat
    BY <1>1, <1>3
  <2>2. BlockPixels(w, h, o) = PixelsOfBlock(w, h, bx, by)
    BY <2>1, <1>2, <1>3, BlockAt, Zenon
  <2>. QED
    BY <2>2
<1>5. PICK x \in {i \in 0 .. 3 : bx * 4 + i < w} :
        \E y \in {i \in 0 .. 3 : by * 4 + i < h} :
          p = <<(by * 4 + y) * w + (bx * 4 + x), y * 4 + x>>
  BY <1>4 DEF PixelsOfBlock
<1>6. PICK y \in {i \in 0 .. 3 : by * 4 + i < h} :
          p = <<(by * 4 + y) * w + (bx * 4 + x), y * 4 + x>>
  BY <1>5
<1>. DEFINE px == bx * 4 + x
            py == by * 4 + y
<1>7. px \in 0 .. w - 1 /\ py \in 0 .. h - 1
  BY <1>1, <1>3
<1>8. px \div 4 = bx /\ px % 4 = x /\ py \div 4 = by /\ py % 4 = y
  BY <1>3
<1>9. p[1] = py * w + px /\ p[2] = 4 * y + x
  <2>1. p[1] = (by * 4 + y) * w + (bx * 4 + x) /\ p[2] = y * 4 + x
    BY <1>6
  <2>. QED
    BY <2>1
<1>10. o = 8 * (by * Blocks(w) + bx)
  BY <1>2, <1>3
<1>. HIDE DEF px, py
<1>11. <<p[1], o, p[2]>> =
         <<py * w + px, 8 * ((py \div 4) * Blocks(w) + (px \div 4)),
           4 * (py % 4) + (px % 4)>>
  BY <1>8, <1>9, <1>10
<1>. QED
  BY <1>7, <1>11 DEF Wanted

\* Every pixel of the image is written.
LEMMA WantedAreWritten ==
  ASSUME NEW w \in Nat \ {0}, NEW h \in Nat \ {0}
  PROVE  Wanted(w, h) \subseteq Writes(w, h)
<1>. SUFFICES ASSUME NEW px \in 0 .. w - 1, NEW py \in 0 .. h - 1
              PROVE  <<py * w + px, 8 * ((py \div 4) * Blocks(w) + (px \div 4)),
                       4 * (py % 4) + (px % 4)>> \in Writes(w, h)
  BY DEF Wanted
<1>. DEFINE by == py \div 4
            bx == px \div 4
            y == py % 4
            x == px % 4
            n == by * Blocks(w) + bx
<1>1. /\ Blocks(w) \in Nat \ {0}
      /\ bx \in 0 .. Blocks(w) - 1 /\ x \in 0 .. 3 /\ px = bx * 4 + x
  BY BlocksOf
<1>2. /\ Blocks(h) \in Nat \ {0}
      /\ by \in 0 .. Blocks(h) - 1 /\ y \in 0 .. 3 /\ py = by * 4 + y
  BY BlocksOf
<1>. HIDE DEF by, bx, y, x
<1>3. n \in 0 .. Blocks(w) * Blocks(h) - 1
  BY <1>1, <1>2, PlaceInRows
<1>4. 8 * n \in Offsets(w, h)
  BY <1>3 DEF Offsets
<1>5. <<py * w + px, y * 4 + x>> \in BlockPixels(w, h, 8 * n)
  <2>1. x \in {i \in 0 .. 3 : bx * 4 + i < w} /\ y \in {i \in 0 .. 3 : by * 4 + i < h}
    BY <1>1, <1>2
  <2>2. <<(by * 4 + y) * w + (bx * 4 + x), y * 4 + x>> \in PixelsOfBlock(w, h, bx, by)
    BY <2>1 DEF PixelsOfBlock
  <2>3. by \in Nat
    BY <1>2
  <2>4. BlockPixels(w, h, 8 * n) = PixelsOfBlock(w, h, bx, by)
    BY <2>3, <1>1, BlockAt, Zenon
  <2>. QED
    BY <2>2, <2>4, <1>1, <1>2
<1>6. y * 4 + x = 4 * y + x
  BY <1>1, <1>2
<1>. HIDE DEF n
<1>7. <<py * w + px, 8 * n, 4 * y + x>> \in Writes(w, h)
  BY <1>4, <1>5, <1>6 DEF Writes
<1>. QED
  BY <1>7 DEF by, bx, y, x, n

\* The last block ends where the data the check asks for ends.
LEMMA BlocksFit ==
  ASSUME NEW w \in Nat \ {0}, NEW h \in Nat \ {0}, NEW o \in Offsets(w, h)
  PROVE  o + 8 <= expected_size(w, h)
<1>1. Blocks(w) \in Nat \ {0} /\ Blocks(h) \in Nat \ {0}
  BY BlocksOf
<1>. DEFINE k == Blocks(w) * Blocks(h)
<1>2. k \in Nat
  BY <1>1
<1>3. expected_size(w, h) = k * 8
  BY DEF expected_size
<1>4. PICK n \in 0 .. k - 1 : o = 8 * n
  BY DEF Offsets
<1>. HIDE DEF k
<1>. QED
  BY <1>2, <1>3, <1>4

\* What a call keeps is what it was given and what it did.
PixelsInv ==
  \/ pixels = Nothing
  \/ \E p \in Places :
       pixels = [op |-> "pointer", at |-> p,
                 cleared |-> [i \in 1..4 |-> pointer_clear_rect(CrossAt(p[1], p[2])[i])]]
  \/ \E im \in Images :
       pixels = [op |-> "etc2", im |-> im, refused |-> etc2_refused(im[1], im[2], im[3])]

LEMMA PixelsKept == PixelsSpec => []PixelsInv
<1>1. PixelsInit => PixelsInv
  BY DEF PixelsInit, PixelsInv
<1>2. PixelsInv /\ [PixelsNext]_pixels => PixelsInv'
  BY DEF PixelsInv, PixelsNext, CallPointer, CallDecode, PixelsReturn
<1>. QED
  BY <1>1, <1>2, PTL DEF PixelsSpec

\* Wherever the pointer is, each rectangle of its cross is clipped to the pixels
\* of it that are on the screen.
LEMMA CrossClipped == PixelsInv => CrossIsClipped
<1>. SUFFICES ASSUME PixelsInv, pixels.op = "pointer", NEW i \in 1 .. 4,
                     NEW px \in -9 .. Width + 9, NEW py \in -9 .. Height + 9
              PROVE  LET r == CrossAt(pixels.at[1], pixels.at[2])[i]
                     IN Covers(pixels.cleared[i], px, py)
                          <=> Covers(r, px, py) /\ OnScreen(px, py)
  BY DEF CrossIsClipped
<1>1. PICK p \in Places :
        pixels = [op |-> "pointer", at |-> p,
                 cleared |-> [j \in 1..4 |-> pointer_clear_rect(CrossAt(p[1], p[2])[j])]]
  BY DEF PixelsInv, Nothing
<1>2. p[1] \in Int /\ p[2] \in Int /\ px \in Int /\ py \in Int
  BY PixelsAssumption, ScreenAssumption
<1>. DEFINE r == CrossAt(p[1], p[2])[i]
<1>3. pixels.at = p /\ pixels.cleared[i] = pointer_clear_rect(r)
  BY <1>1
<1>4. PICK x \in Int : \E y \in Int : \E w \in Nat : \E h \in Nat : r = Rect(x, y, w, h)
  <2>. DEFINE gy == Height - 1 - p[2]
  <2>1. gy \in Int
    BY <1>2, ScreenAssumption
  <2>2. /\ i = 1 => r = Rect(p[1] - 7, gy - 1, 15, 3)
        /\ i = 2 => r = Rect(p[1] - 1, gy - 7, 3, 15)
        /\ i = 3 => r = Rect(p[1] - 5, gy, 11, 1)
        /\ i = 4 => r = Rect(p[1], gy - 5, 1, 11)
    BY DEF CrossAt
  <2>. HIDE DEF gy, r
  <2>3. CASE i = 1
    BY <2>1, <2>2, <2>3, <1>2
  <2>4. CASE i = 2
    BY <2>1, <2>2, <2>4, <1>2
  <2>5. CASE i = 3
    BY <2>1, <2>2, <2>5, <1>2
  <2>6. CASE i = 4
    BY <2>1, <2>2, <2>6, <1>2
  <2>. QED
    BY <2>3, <2>4, <2>5, <2>6
<1>5. PICK y \in Int : \E w \in Nat : \E h \in Nat : r = Rect(x, y, w, h)
  BY <1>4
<1>6. PICK w \in Nat : \E h \in Nat : r = Rect(x, y, w, h)
  BY <1>5
<1>7. PICK h \in Nat : r = Rect(x, y, w, h)
  BY <1>6
<1>. HIDE DEF r
<1>8. Covers(pointer_clear_rect(r), px, py) <=> Covers(r, px, py) /\ OnScreen(px, py)
  BY <1>2, <1>7, ClippedCovers
<1>. QED
  BY <1>3, <1>8 DEF r

\* An image that is not refused has a width, a height and all its blocks.
LEMMA ImageDecoded == PixelsInv => DecodeCoversImage
<1>. SUFFICES ASSUME PixelsInv, pixels.op = "etc2", ~pixels.refused
              PROVE  DecodeCoversImage
  BY DEF DecodeCoversImage
<1>1. PICK im \in Images :
        pixels = [op |-> "etc2", im |-> im, refused |-> etc2_refused(im[1], im[2], im[3])]
  BY DEF PixelsInv, Nothing
<1>2. im[1] \in Int /\ im[2] \in Int /\ im[3] \in Int
  BY PixelsAssumption
<1>3. pixels.im = im /\ ~etc2_refused(im[1], im[2], im[3])
  BY <1>1
<1>4. /\ im[1] \in Nat \ {0} /\ im[2] \in Nat \ {0}
      /\ ~(im[3] < expected_size(im[1], im[2]))
  BY <1>2, <1>3 DEF etc2_refused
<1>5. ASSUME NEW o \in Offsets(im[1], im[2])
      PROVE  o + 8 <= im[3]
  <2>1. o + 8 <= expected_size(im[1], im[2])
    BY <1>4, BlocksFit
  <2>2. o \in Int /\ expected_size(im[1], im[2]) \in Int
    BY <1>4, BlocksOf DEF Offsets, expected_size
  <2>. QED
    BY <1>2, <1>4, <2>1, <2>2
<1>6. Writes(im[1], im[2]) = Wanted(im[1], im[2])
  BY <1>4, WritesAreWanted, WantedAreWritten
<1>. QED
  BY <1>3, <1>5, <1>6 DEF DecodeCoversImage

\* The pointer's rectangles and the blocks of a texture cover the pixels they
\* should and no others, for every screen, every place of the pointer and every
\* image.
THEOREM RasterStaysExact == PixelsSpec => []RasterIsExact
<1>1. PixelsInv => RasterIsExact
  BY CrossClipped, ImageDecoded DEF RasterIsExact
<1>. QED
  BY <1>1, PixelsKept, PTL

------------------------------------------------------------------------------
(* Clocks.                                                                 *)
\* The clocks are numbers, and a monotonic reading is of a moment that is past,
\* the one before it of an earlier one.
Monotone(r, p) == p \in Nat /\ r.sec = Timespec(p).sec /\ r.nsec = Timespec(p).nsec

\* A real-time reading is off the Unix time by what __epoch is short of.
OffByEpoch(r) == r.id = "REALTIME" => r.unix \in Int /\ r.sec = r.unix + 9506

SysInv ==
  /\ proctime \in Nat /\ rtc \in Nat
  /\ reading.id \in {"none", "MONOTONIC", "REALTIME"}
  /\ reading.id # "none" => reading.nsec \in Nat /\ reading.nsec < 1000 * Second
  /\ reading.id = "MONOTONIC" =>
       \E p \in Nat : /\ p <= proctime /\ Monotone(reading, p)
                      /\ previous.id = "MONOTONIC" =>
                           \E q \in Nat : q <= p /\ Monotone(previous, q)
  /\ OffByEpoch(reading) /\ OffByEpoch(previous)

\* `us` microseconds are the seconds of its timespec and `u` more.
Splits(us, u) ==
  /\ u < Second
  /\ us = Timespec(us).sec * Second + u
  /\ Timespec(us).sec \in Nat
  /\ Timespec(us).nsec = u * 1000

\* A moment is its seconds and the microseconds of the next, in thousands.
LEMMA TimespecOf ==
  ASSUME NEW us \in Nat
  PROVE  \E u \in Nat : Splits(us, u)
<1>. DEFINE n == us \div Second
            u == us - n * Second
<1>1. n \in Nat /\ u \in Nat /\ u < Second
  BY DEF Second
<1>2. Timespec(us).sec = n /\ Timespec(us).nsec = u * 1000
  BY DEF Timespec
<1>3. us = n * Second + u
  BY <1>1 DEF Second
<1>. HIDE DEF n, u
<1>. QED
  BY <1>1, <1>2, <1>3 DEF Splits

LEMMA TimespecBounds ==
  ASSUME NEW us \in Nat
  PROVE  /\ Timespec(us).sec \in Nat
         /\ Timespec(us).nsec \in Nat /\ Timespec(us).nsec < 1000 * Second
BY TimespecOf DEF Second, Splits

\* What is read later is not less.
LEMMA TimespecGrows ==
  ASSUME NEW q \in Nat, NEW p \in Nat, q <= p
  PROVE  \/ Timespec(q).sec < Timespec(p).sec
         \/ Timespec(q).sec = Timespec(p).sec /\ Timespec(q).nsec <= Timespec(p).nsec
<1>1. PICK u \in Nat : Splits(q, u)
  BY TimespecOf
<1>2. PICK v \in Nat : Splits(p, v)
  BY TimespecOf
<1>. QED
  BY <1>1, <1>2 DEF Second, Splits

\* The 1969 years before 1970 are 719162 days, 9506 seconds more than __epoch.
LEMMA EpochIsShort == (DaysTo1970 - EpochDays) * 86400 - EpochSeconds = 9506
<1>1. DaysTo1970 = 719162
  BY DEF DaysTo1970, CivilDay, YearStart, IsLeapYear, MonthStart
<1>. QED
  BY <1>1 DEF EpochDays, EpochSeconds

LEMMA SysKept == SysSpec => []SysInv
<1>1. SysInit => SysInv
  BY DEF SysInit, SysInv, OffByEpoch
<1>2. SysInv /\ [SysNext]_sysVars => SysInv'
  <2>. SUFFICES ASSUME SysInv, [SysNext]_sysVars PROVE SysInv'
    OBVIOUS
  <2>1. ASSUME NEW d \in Steps, Tick(d) PROVE SysInv'
    <3>1. proctime' = proctime + d /\ rtc' = rtc + d /\ d \in Nat
          /\ reading' = reading /\ previous' = previous
      BY <2>1, SysAssumption DEF Tick
    <3>2. \A p \in Nat : p <= proctime => p <= proctime'
      BY <3>1 DEF SysInv
    <3>. QED
      BY <3>1, <3>2 DEF SysInv, Monotone, OffByEpoch
  <2>2. ASSUME NEW d \in Steps, SetClock(d) PROVE SysInv'
    BY <2>2, SysAssumption DEF SetClock, SysInv, Monotone, OffByEpoch
  <2>3. ASSUME NEW name, Sysconf(name) PROVE SysInv'
    BY <2>3 DEF Sysconf, SysInv, Monotone, OffByEpoch
  <2>4. ASSUME ReadClock("MONOTONIC") PROVE SysInv'
    <3>1. /\ previous' = reading /\ proctime' = proctime /\ rtc' = rtc
          /\ reading'.id = "MONOTONIC"
          /\ reading'.sec = Timespec(proctime).sec
          /\ reading'.nsec = Timespec(proctime).nsec
      BY <2>4 DEF ReadClock, clock_gettime, Monotonic
    <3>2. reading'.nsec \in Nat /\ reading'.nsec < 1000 * Second
      BY <3>1, TimespecBounds DEF SysInv
    <3>3. Monotone(reading', proctime) /\ proctime <= proctime'
      BY <3>1 DEF Monotone, SysInv
    <3>4. previous'.id = "MONOTONIC" => \E q \in Nat : q <= proctime /\ Monotone(previous', q)
      BY <3>1 DEF SysInv, Monotone
    <3>. QED
      BY <3>1, <3>2, <3>3, <3>4 DEF SysInv, Monotone, OffByEpoch
  <2>5. ASSUME ReadClock("REALTIME") PROVE SysInv'
    <3>. DEFINE t == Timespec(rtc)
    <3>1. /\ previous' = reading /\ proctime' = proctime /\ rtc' = rtc
          /\ reading'.id = "REALTIME"
          /\ reading'.unix = rtc \div Second
          /\ reading'.sec = clock_gettime("REALTIME").sec
          /\ reading'.nsec = clock_gettime("REALTIME").nsec
      BY <2>5 DEF ReadClock
    <3>2. clock_gettime("REALTIME")
            = [t EXCEPT !.sec = @ + (DaysTo1970 - EpochDays) * 86400 - EpochSeconds]
      BY DEF clock_gettime, Monotonic
    <3>3. /\ clock_gettime("REALTIME").sec
               = t.sec + (DaysTo1970 - EpochDays) * 86400 - EpochSeconds
          /\ clock_gettime("REALTIME").nsec = t.nsec
      BY <3>2 DEF Timespec
    <3>4. t.sec = rtc \div Second /\ t.sec \in Nat /\ t.nsec \in Nat /\ t.nsec < 1000 * Second
      BY TimespecBounds DEF SysInv, Timespec
    <3>5. /\ DaysTo1970 \in Int /\ EpochDays \in Int /\ EpochSeconds \in Int
      BY DEF DaysTo1970, CivilDay, YearStart, IsLeapYear, MonthStart, EpochDays, EpochSeconds
    <3>. HIDE DEF t
    <3>6. reading'.unix \in Int /\ reading'.sec = reading'.unix + 9506
      BY <3>1, <3>3, <3>4, <3>5, EpochIsShort
    <3>7. OffByEpoch(reading') /\ OffByEpoch(previous')
      BY <3>1, <3>6 DEF SysInv, OffByEpoch
    <3>. QED
      BY <3>1, <3>3, <3>4, <3>7 DEF SysInv
  <2>6. ASSUME UNCHANGED sysVars PROVE SysInv'
    BY <2>6 DEF sysVars, SysInv, Monotone, OffByEpoch
  <2>. QED
    BY <2>1, <2>2, <2>3, <2>4, <2>5, <2>6 DEF SysNext
<1>. QED
  BY <1>1, <1>2, PTL DEF SysSpec

\* Monotonic readings never go back, and real-time readings move as the system's
\* clock does, whatever the clocks do and whenever they are read.
THEOREM ClocksStayTrue == SysSpec => []ClocksAreTrue
<1>1. SysInv => ClocksAreTrue
  <2>. SUFFICES ASSUME SysInv PROVE ClocksAreTrue
    OBVIOUS
  <2>1. ASSUME reading.id = "MONOTONIC", previous.id = "MONOTONIC"
        PROVE  \/ previous.sec < reading.sec
               \/ previous.sec = reading.sec /\ previous.nsec <= reading.nsec
    <3>1. PICK p \in Nat : /\ Monotone(reading, p)
                           /\ \E q \in Nat : q <= p /\ Monotone(previous, q)
      BY <2>1 DEF SysInv
    <3>2. PICK q \in Nat : q <= p /\ Monotone(previous, q)
      BY <3>1
    <3>. QED
      BY <3>1, <3>2, TimespecGrows DEF Monotone
  <2>2. RealtimeFollowsClock
    BY DEF SysInv, OffByEpoch, RealtimeFollowsClock
  <2>. QED
    BY <2>1, <2>2 DEF SysInv, ClocksAreTrue, ClocksAdvance
<1>. QED
  BY <1>1, SysKept, PTL

------------------------------------------------------------------------------
(* The calendar.  A year is known by the day it starts on, a date by its     *)
(* year, its month and its day; the loops of time64.c are each shown to stop  *)
(* at the year or the month that holds the day.                              *)
\* A set of numbers that holds 0, and with a number the next, holds them all.
LEMMA CountUp ==
  ASSUME NEW S \in SUBSET Nat, 0 \in S, \A n \in S : n + 1 \in S
  PROVE  S = Nat
<1>. SUFFICES ASSUME NEW N \in Nat, N \notin S PROVE FALSE
  OBVIOUS
<1>. DEFINE T == {n \in 0..N : n \notin S}
<1>1. IsFiniteSet(0..N)
  BY FS_Interval
<1>2. IsFiniteSet(T) /\ T \in SUBSET Int /\ T # {}
  BY <1>1, FS_Subset
<1>3. PICK m \in T : \A n \in T : m <= n
  BY <1>2, HaveEnds
<1>4. m # 0 /\ m - 1 \in 0..N /\ m - 1 \notin T
  BY <1>3
<1>5. m - 1 \in S /\ (m - 1) + 1 = m
  BY <1>4
<1>. QED
  BY <1>3, <1>5

\* Years have 366 days or 365, and 400 of them always as many.
LEMMA YearStep ==
  ASSUME NEW y \in Int
  PROVE  /\ YearStart(y) \in Int
         /\ YearStart(y + 1) = YearStart(y) + (IF IsLeapYear(y) THEN 366 ELSE 365)
<1>1. YearStart(y) \in Int
  BY DEF YearStart
<1>2. /\ y \div 4 - (y - 1) \div 4 = IF y % 4 = 0 THEN 1 ELSE 0
      /\ y \div 100 - (y - 1) \div 100 = IF y % 100 = 0 THEN 1 ELSE 0
      /\ y \div 400 - (y - 1) \div 400 = IF y % 400 = 0 THEN 1 ELSE 0
  OBVIOUS
<1>3. (y % 400 = 0 => y % 100 = 0) /\ (y % 100 = 0 => y % 4 = 0)
  OBVIOUS
<1>4. (y + 1) - 1 = y
  OBVIOUS
<1>. QED
  BY <1>1, <1>2, <1>3, <1>4 DEF YearStart, IsLeapYear

\* Four hundred years on, the calendar is the same, 146097 days later.
LEMMA YearCycle ==
  ASSUME NEW y \in Int, NEW c \in Int
  PROVE  /\ YearStart(y + 400 * c) = YearStart(y) + 146097 * c
         /\ IsLeapYear(y + 400 * c) = IsLeapYear(y)
<1>1. /\ (y - 1 + 400 * c) \div 4 = (y - 1) \div 4 + 100 * c
      /\ (y - 1 + 400 * c) \div 100 = (y - 1) \div 100 + 4 * c
      /\ (y - 1 + 400 * c) \div 400 = (y - 1) \div 400 + c
  OBVIOUS
<1>2. /\ (y + 400 * c) % 4 = y % 4
      /\ (y + 400 * c) % 100 = y % 100
      /\ (y + 400 * c) % 400 = y % 400
  OBVIOUS
<1>3. (y + 400 * c) - 1 = y - 1 + 400 * c
  OBVIOUS
<1>. QED
  BY <1>1, <1>2, <1>3 DEF YearStart, IsLeapYear

\* n years have at least 365 * n days and at most 366 * n.
LEMMA YearsGrow ==
  ASSUME NEW a \in Int, NEW b \in Int, a <= b
  PROVE  365 * (b - a) <= YearStart(b) - YearStart(a)
         /\ YearStart(b) - YearStart(a) <= 366 * (b - a)
<1>. DEFINE S == {n \in Nat : /\ 365 * n <= YearStart(a + n) - YearStart(a)
                              /\ YearStart(a + n) - YearStart(a) <= 366 * n}
<1>1. 0 \in S
  BY YearStep
<1>2. ASSUME NEW n \in S PROVE n + 1 \in S
  <2>1. a + n \in Int /\ a + (n + 1) = (a + n) + 1
    OBVIOUS
  <2>2. /\ YearStart(a + n) \in Int /\ YearStart(a) \in Int
        /\ YearStart((a + n) + 1) = YearStart(a + n)
             + (IF IsLeapYear(a + n) THEN 366 ELSE 365)
    BY <2>1, YearStep
  <2>. QED
    BY <2>1, <2>2
<1>3. S = Nat
  <2>. HIDE DEF S
  <2>1. S \in SUBSET Nat
    BY DEF S
  <2>. QED
    BY <1>1, <1>2, <2>1, CountUp
<1>4. b - a \in Nat /\ a + (b - a) = b
  OBVIOUS
<1>5. b - a \in S
  <2>. HIDE DEF S
  <2>. QED
    BY <1>3, <1>4
<1>. QED
  BY <1>4, <1>5

\* A later year does not start earlier.
LEMMA YearsInOrder ==
  ASSUME NEW a \in Int, NEW b \in Int, a <= b
  PROVE  YearStart(a) <= YearStart(b)
<1>1. 365 * (b - a) <= YearStart(b) - YearStart(a)
  BY YearsGrow
<1>2. YearStart(a) \in Int /\ YearStart(b) \in Int /\ 365 * (b - a) >= 0
  BY YearStep
<1>. QED
  BY <1>1, <1>2

\* Every day lies in one year.
LEMMA OneYear ==
  ASSUME NEW day \in Int, NEW y \in Int, NEW z \in Int,
         YearStart(y) <= day, day < YearStart(y + 1),
         YearStart(z) <= day, day < YearStart(z + 1)
  PROVE  y = z
<1>0. \A a \in Int : YearStart(a) \in Int
  BY YearStep
<1>1. CASE y < z
  <2>1. y + 1 \in Int /\ y + 1 <= z
    BY <1>1
  <2>2. 365 * (z - (y + 1)) <= YearStart(z) - YearStart(y + 1)
    BY <2>1, YearsGrow
  <2>. QED
    BY <1>0, <2>1, <2>2
<1>2. CASE z < y
  <2>1. z + 1 \in Int /\ z + 1 <= y
    BY <1>2
  <2>2. 365 * (y - (z + 1)) <= YearStart(y) - YearStart(z + 1)
    BY <2>1, YearsGrow
  <2>. QED
    BY <1>0, <2>1, <2>2
<1>. QED
  BY <1>1, <1>2

\* Within an era, the guess is never two years off.
LEMMA YearGuessed ==
  ASSUME NEW r \in Nat, r < 146097
  PROVE  LET y == (r * 4) \div 1461 + 1970
         IN YearStart(y - 1) <= r /\ r < YearStart(y + 2)
<1>. DEFINE n == (r * 4) \div 1461
<1>1. n \in 0..399 /\ 1461 * n <= 4 * r /\ 4 * r < 1461 * n + 1461
  BY SMT
<1>. HIDE DEF n
<1>2. /\ YearStart((n + 1970) - 1) <= r /\ r < YearStart((n + 1970) + 2)
  <2>1. /\ 4 * ((n + 1968) \div 4) <= n + 1968 /\ n + 1968 < 4 * ((n + 1968) \div 4) + 4
        /\ 4 * ((n + 1971) \div 4) <= n + 1971 /\ n + 1971 < 4 * ((n + 1971) \div 4) + 4
    BY <1>1
  <2>2. /\ (n + 1968) \div 100 \in 19..23 /\ (n + 1968) \div 400 \in 4..5
        /\ (n + 1971) \div 100 \in 19..23 /\ (n + 1971) \div 400 \in 4..5
    BY <1>1
  <2>3. ((n + 1970) - 1) - 1 = n + 1968 /\ ((n + 1970) + 2) - 1 = n + 1971
    BY <1>1
  <2>4. 365 * (n + 1968) + (n + 1968) \div 4 - (n + 1968) \div 100 + (n + 1968) \div 400
          - 719162 <= r
    BY <1>1, <2>1, <2>2
  <2>5. r < 365 * (n + 1971) + (n + 1971) \div 4 - (n + 1971) \div 100 + (n + 1971) \div 400
          - 719162
    BY <1>1, <2>1, <2>2
  <2>. QED
    BY <2>3, <2>4, <2>5 DEF YearStart
<1>. QED
  BY <1>2 DEF n

\* The year of a day is found: it starts no later, and the next one after it.
LEMMA YearFound ==
  ASSUME NEW day \in Int
  PROVE  /\ YearOf(day) \in Int
         /\ YearStart(YearOf(day)) <= day /\ day < YearStart(YearOf(day) + 1)
<1>. DEFINE c == day \div 146097
            r == day % 146097
            g == (r * 4) \div 1461 + 1970
            guess == 400 * c + (r * 4) \div 1461 + 1970
            Has(y) == YearStart(y) <= day /\ day < YearStart(y + 1)
<1>1. c \in Int /\ r \in Nat /\ r < 146097 /\ day = 146097 * c + r
  OBVIOUS
<1>. HIDE DEF c, r
<1>2. g \in Int /\ guess = g + 400 * c
  BY <1>1
<1>3. YearStart(g - 1) <= r /\ r < YearStart(g + 2)
  BY <1>1, YearGuessed
<1>. HIDE DEF g, guess
<1>4. \A y \in Int : /\ YearStart(y) \in Int
                     /\ YearStart(y + 400 * c) = YearStart(y) + 146097 * c
  BY <1>1, YearStep, YearCycle
<1>5. /\ (g - 1) + 400 * c = guess - 1 /\ g + 400 * c = guess
      /\ (g + 1) + 400 * c = guess + 1 /\ (g + 2) + 400 * c = guess + 2
      /\ g - 1 \in Int /\ g \in Int /\ g + 1 \in Int /\ g + 2 \in Int /\ guess \in Int
  BY <1>1, <1>2
<1>6. YearStart(guess - 1) <= day /\ day < YearStart(guess + 2)
  BY <1>1, <1>3, <1>4, <1>5
<1>7. Has(guess - 1) \/ Has(guess) \/ Has(guess + 1)
  <2>1. (guess - 1) + 1 = guess /\ (guess + 1) + 1 = guess + 2
    BY <1>5
  <2>2. YearStart(guess) \in Int /\ YearStart(guess + 1) \in Int
    BY <1>4, <1>5
  <2>. QED
    BY <1>6, <2>1, <2>2
<1>8. \E y \in guess - 2 .. guess + 2 : Has(y)
  BY <1>5, <1>7
<1>9. YearOf(day) \in guess - 2 .. guess + 2 /\ Has(YearOf(day))
  BY <1>8 DEF YearOf, guess, c, r
<1>. QED
  BY <1>5, <1>9

\* A time is a day and a second of it, of either sign.
IsSecond(s) == s \in Nat /\ s < 86400
IsTime(t) == \E d \in Int, s \in Nat : IsSecond(s) /\ t = TimeOf(d, s)

CarryDays(s) == s \div 86400
CarrySecs(s) == s % 86400

\* A second of the day carries no day.
LEMMA CarryNone ==
  ASSUME NEW s \in Nat, IsSecond(s)
  PROVE  CarryDays(s) = 0 /\ CarrySecs(s) = s
BY DEF IsSecond, CarryDays, CarrySecs

\* What TimeOf makes of a day and of any number of seconds after its midnight.
LEMMA TimeParts ==
  ASSUME NEW d \in Int, NEW s \in Nat
  PROVE  /\ CarryDays(s) \in Nat /\ CarrySecs(s) \in Nat /\ IsSecond(CarrySecs(s))
         /\ FloorDay(TimeOf(d, s)) = d + CarryDays(s)
         /\ FloorSec(TimeOf(d, s)) = CarrySecs(s)
         /\ TimeOf(d, s) = TimeOf(d + CarryDays(s), CarrySecs(s))
         /\ IsTime(TimeOf(d, s))
<1>. DEFINE q == CarryDays(s)
            r == CarrySecs(s)
            e == d + q
<1>1. q \in Nat /\ r \in Nat /\ r < 86400
  BY DEF CarryDays, CarrySecs
<1>2. TimeOf(d, s) = IF e < 0 /\ r > 0 THEN [day |-> e + 1, sec |-> r - 86400]
                                       ELSE [day |-> e, sec |-> r]
  BY DEF TimeOf, CarryDays, CarrySecs
<1>3. IsSecond(r)
  BY <1>1 DEF IsSecond
<1>. HIDE DEF q, r
<1>4. e \in Int
  BY <1>1
<1>. HIDE DEF e
<1>5. TimeOf(e, r) = IF e < 0 /\ r > 0 THEN [day |-> e + 1, sec |-> r - 86400]
                                       ELSE [day |-> e, sec |-> r]
  <2>1. r \div 86400 = 0 /\ r % 86400 = r /\ e + 0 = e
    BY <1>1, <1>4
  <2>. QED
    BY <2>1, SMT DEF TimeOf
<1>6. TimeOf(d, s) = TimeOf(e, r)
  BY <1>2, <1>5, SMT
<1>7. FloorDay(TimeOf(d, s)) = e /\ FloorSec(TimeOf(d, s)) = r
  BY <1>1, <1>2, <1>4, SMT DEF FloorDay, FloorSec
<1>8. IsTime(TimeOf(d, s))
  BY <1>1, <1>3, <1>4, <1>6 DEF IsTime
<1>. QED
  BY <1>1, <1>3, <1>6, <1>7, <1>8 DEF q, r, e

\* A time has one day and one second of it, from which its fields follow.
LEMMA TimeFacts ==
  ASSUME NEW t, IsTime(t)
  PROVE  /\ FloorDay(t) \in Int /\ FloorSec(t) \in Nat /\ IsSecond(FloorSec(t))
         /\ t = TimeOf(FloorDay(t), FloorSec(t))
         /\ t.day = (IF FloorDay(t) < 0 /\ FloorSec(t) > 0 THEN FloorDay(t) + 1 ELSE FloorDay(t))
         /\ t.sec = (IF FloorDay(t) < 0 /\ FloorSec(t) > 0 THEN FloorSec(t) - 86400
                                                       ELSE FloorSec(t))
<1>1. PICK d \in Int, s \in Nat : IsSecond(s) /\ t = TimeOf(d, s)
  BY DEF IsTime
<1>2. CarryDays(s) = 0 /\ CarrySecs(s) = s /\ d + 0 = d
  BY <1>1, CarryNone
<1>3. FloorDay(t) = d /\ FloorSec(t) = s
  BY <1>1, <1>2, TimeParts
<1>4. s \div 86400 = 0 /\ s % 86400 = s
  BY <1>1 DEF IsSecond
<1>5. /\ t.day = (IF d < 0 /\ s > 0 THEN d + 1 ELSE d)
      /\ t.sec = (IF d < 0 /\ s > 0 THEN s - 86400 ELSE s)
  BY <1>1, <1>2, <1>4, SMT DEF TimeOf
<1>. QED
  BY <1>1, <1>3, <1>5

\* The months lie one behind the other, in leap years and in the others.
YearLength(leap) == IF leap THEN 366 ELSE 365
InMonth(leap, mon, yday) ==
  /\ mon \in 0..11
  /\ MonthStart(leap, mon) <= yday
  /\ yday < MonthStart(leap, mon) + days_in_month(leap)[mon + 1]

\* The formula for the starts of the months is the table of the source.
LEMMA MonthTable ==
  ASSUME NEW leap \in BOOLEAN
  PROVE  /\ \A m \in 0..11 : MonthStart(leap, m) = julian_days_by_month(leap)[m + 1]
         /\ julian_days_by_month(TRUE)
              = <<0, 31, 60, 91, 121, 152, 182, 213, 244, 274, 305, 335>>
         /\ julian_days_by_month(FALSE)
              = <<0, 31, 59, 90, 120, 151, 181, 212, 243, 273, 304, 334>>
         /\ days_in_month(TRUE) = <<31, 29, 31, 30, 31, 30, 31, 31, 30, 31, 30, 31>>
         /\ days_in_month(FALSE) = <<31, 28, 31, 30, 31, 30, 31, 31, 30, 31, 30, 31>>
<1>1. CASE leap = TRUE
  BY <1>1 DEF MonthStart, julian_days_by_month, days_in_month
<1>2. CASE leap = FALSE
  BY <1>2 DEF MonthStart, julian_days_by_month, days_in_month
<1>. QED
  BY <1>1, <1>2

\* Every month starts where the one before it ends, and December ends the year.
LEMMA MonthsLaid ==
  ASSUME NEW leap \in BOOLEAN
  PROVE  /\ \A m \in 0..11 : /\ MonthStart(leap, m) \in 0..335
                             /\ days_in_month(leap)[m + 1] \in 28..31
         /\ MonthStart(leap, 0) = 0
         /\ \A m \in 0..10 : MonthStart(leap, m + 1)
                               = MonthStart(leap, m) + days_in_month(leap)[m + 1]
         /\ MonthStart(leap, 11) + days_in_month(leap)[12] = YearLength(leap)
         /\ days_in_month(leap)[12] = 31 /\ days_in_month(leap)[1] = 31
<1>. DEFINE S == julian_days_by_month(leap)
            D == days_in_month(leap)
<1>0. \A m \in 0..11 : MonthStart(leap, m) = S[m + 1]
  BY MonthTable
<1>1. \/ /\ S = <<0, 31, 60, 91, 121, 152, 182, 213, 244, 274, 305, 335>>
         /\ D = <<31, 29, 31, 30, 31, 30, 31, 31, 30, 31, 30, 31>>
         /\ YearLength(leap) = 366
      \/ /\ S = <<0, 31, 59, 90, 120, 151, 181, 212, 243, 273, 304, 334>>
         /\ D = <<31, 28, 31, 30, 31, 30, 31, 31, 30, 31, 30, 31>>
         /\ YearLength(leap) = 365
  <2>1. CASE leap = TRUE
    <3>1. YearLength(leap) = 366
      BY <2>1 DEF YearLength
    <3>. QED
      BY <2>1, <3>1, MonthTable, Zenon
  <2>2. CASE leap = FALSE
    <3>1. YearLength(leap) = 365
      BY <2>2 DEF YearLength
    <3>. QED
      BY <2>2, <3>1, MonthTable, Zenon
  <2>. QED
    BY <2>1, <2>2
<1>. HIDE DEF S, D
<1>2. \A m \in 0..11 : S[m + 1] \in 0..335 /\ D[m + 1] \in 28..31
  BY <1>1
<1>3. \A m \in 0..10 : S[m + 2] = S[m + 1] + D[m + 1]
  BY <1>1
<1>4. S[1] = 0 /\ S[12] + D[12] = YearLength(leap) /\ D[12] = 31 /\ D[1] = 31
  BY <1>1
<1>5. /\ MonthStart(leap, 0) = S[1] /\ MonthStart(leap, 11) = S[12]
      /\ \A m \in 0..10 : MonthStart(leap, m + 1) = S[m + 2]
  BY <1>0
<1>6. \A m \in 0..10 : m \in 0..11 /\ (m + 1) + 1 = m + 2
  OBVIOUS
<1>7. \A m \in 0..11 : MonthStart(leap, m) \in 0..335 /\ D[m + 1] \in 28..31
  BY <1>0, <1>2
<1>8. \A m \in 0..10 : MonthStart(leap, m + 1) = MonthStart(leap, m) + D[m + 1]
  BY <1>0, <1>3, <1>5, <1>6
<1>9. MonthStart(leap, 11) + D[12] = YearLength(leap)
  BY <1>4, <1>5
<1>10. MonthStart(leap, 0) = 0
  BY <1>4, <1>5
<1>. QED
  BY <1>4, <1>7, <1>8, <1>9, <1>10 DEF D

\* A later month starts no earlier than an earlier one ends.
LEMMA MonthsGrow ==
  ASSUME NEW leap \in BOOLEAN, NEW m \in 0..11, NEW k \in 0..11, m < k
  PROVE  MonthStart(leap, m) + days_in_month(leap)[m + 1] <= MonthStart(leap, k)
<1>0. \A n \in 0..10 : /\ MonthStart(leap, n) \in Int /\ MonthStart(leap, n + 1) \in Int
                       /\ MonthStart(leap, n) < MonthStart(leap, n + 1)
                       /\ MonthStart(leap, n + 1)
                            = MonthStart(leap, n) + days_in_month(leap)[n + 1]
  BY MonthsLaid
<1>1. \A n \in 0..10 : MonthStart(leap, m + 1) <= MonthStart(leap, n) \/ n <= m
  BY <1>0
<1>. QED
  BY <1>0, <1>1

\* A day of the year lies in no more than one month.
LEMMA OneMonth ==
  ASSUME NEW leap \in BOOLEAN, NEW yday \in Int, NEW m, NEW k,
         InMonth(leap, m, yday), InMonth(leap, k, yday)
  PROVE  m = k
<1>1. m \in 0..11 /\ k \in 0..11
  BY DEF InMonth
<1>2. CASE m < k
  BY <1>1, <1>2, MonthsGrow, MonthsLaid DEF InMonth
<1>3. CASE k < m
  BY <1>1, <1>3, MonthsGrow, MonthsLaid DEF InMonth
<1>. QED
  BY <1>1, <1>2, <1>3

\* The month of a day of the year is found.
LEMMA MonthFound ==
  ASSUME NEW leap \in BOOLEAN, NEW yday \in Nat, yday < YearLength(leap)
  PROVE  InMonth(leap, MonthOf(leap, yday), yday)
<1>. DEFINE S(m) == MonthStart(leap, m)
            Has(m) == S(m) <= yday /\ (m < 11 => yday < S(m + 1))
<1>1. /\ S(0) = 0
      /\ \A m \in 0..11 : S(m) \in Nat
      /\ \A m \in 0..10 : S(m + 1) = S(m) + days_in_month(leap)[m + 1]
      /\ S(11) + days_in_month(leap)[12] = YearLength(leap)
  BY MonthsLaid
<1>. HIDE DEF S
<1>2. \E m \in 0..11 : Has(m)
  <2>. SUFFICES ASSUME \A m \in 0..11 : ~Has(m) PROVE FALSE
    OBVIOUS
  <2>1. \A m \in 0..10 : S(m) <= yday => S(m + 1) <= yday
    BY <1>1
  <2>2. S(11) <= yday
    BY <1>1, <2>1
  <2>. QED
    BY <2>2
<1>3. MonthOf(leap, yday) \in 0..11 /\ Has(MonthOf(leap, yday))
  BY <1>2 DEF MonthOf, S
<1>. QED
  BY <1>1, <1>3 DEF InMonth, S

\* The date of a day by its year and month, and the second of the day.
IsDate(y, mon, day) ==
  /\ y \in Int /\ day \in Int
  /\ YearStart(y) <= day /\ day < YearStart(y + 1)
  /\ InMonth(IsLeapYear(y), mon, day - YearStart(y))
Date(y, mon, day, s) ==
  [sec |-> s % 60, min |-> (s \div 60) % 60, hour |-> s \div 3600,
   mday |-> day - YearStart(y) - MonthStart(IsLeapYear(y), mon) + 1, mon |-> mon,
   year |-> y - 1900, wday |-> (day + 4) % 7, yday |-> day - YearStart(y)]

\* Every day has a date.
LEMMA DateHas ==
  ASSUME NEW day \in Int
  PROVE  LET y == YearOf(day)
         IN IsDate(y, MonthOf(IsLeapYear(y), day - YearStart(y)), day)
<1>. DEFINE y == YearOf(day)
            yday == day - YearStart(y)
            leap == IsLeapYear(y)
<1>1. y \in Int /\ YearStart(y) <= day /\ day < YearStart(y + 1)
  BY YearFound
<1>2. YearStart(y) \in Int /\ YearStart(y + 1) = YearStart(y) + YearLength(leap)
  BY <1>1, YearStep DEF YearLength
<1>3. leap \in BOOLEAN
  BY DEF IsLeapYear
<1>. HIDE DEF y, leap
<1>4. yday \in Nat /\ yday < YearLength(leap)
  BY <1>1, <1>2, <1>3 DEF YearLength
<1>5. InMonth(leap, MonthOf(leap, yday), yday)
  BY <1>3, <1>4, MonthFound
<1>. QED
  BY <1>1, <1>5 DEF IsDate, y, leap

\* What a date of a day is found to be, it is by definition.
LEMMA CivilIs ==
  ASSUME NEW t, NEW y, NEW mon, NEW day, IsDate(y, mon, day), FloorDay(t) = day
  PROVE  Civil(t) = Date(y, mon, day, FloorSec(t))
<1>. DEFINE z == YearOf(day)
            m == MonthOf(IsLeapYear(z), day - YearStart(z))
<1>1. IsDate(z, m, day) /\ day \in Int
  BY DateHas DEF IsDate
<1>2. Civil(t) = Date(z, m, day, FloorSec(t))
  BY DEF Civil, Date
<1>. HIDE DEF z, m
<1>3. z = y
  BY <1>1, OneYear DEF IsDate
<1>4. YearStart(y) \in Int /\ IsLeapYear(y) \in BOOLEAN /\ day - YearStart(y) \in Int
  BY YearStep DEF IsDate, IsLeapYear
<1>5. m = mon
  BY <1>1, <1>3, <1>4, OneMonth DEF IsDate
<1>. QED
  BY <1>2, <1>3, <1>5

\* tm_year and its year leap together.
LEMMA LeapAlike ==
  ASSUME NEW y \in Int
  PROVE  IS_LEAP(y - 1900) = IsLeapYear(y) /\ IsLeapYear(y) \in BOOLEAN
<1>1. (y - 1900) + 1900 = y
  OBVIOUS
<1>2. /\ CMod(y, 4) = 0 <=> y % 4 = 0
      /\ CMod(y, 100) = 0 <=> y % 100 = 0
      /\ CMod(y, 400) = 0 <=> y % 400 = 0
  BY DEF CMod, CDiv
<1>3. (y % 400 = 0 => y % 100 = 0) /\ (y % 100 = 0 => y % 4 = 0)
  OBVIOUS
<1>4. IS_LEAP(y - 1900) \in BOOLEAN /\ IsLeapYear(y) \in BOOLEAN
  BY DEF IS_LEAP, IsLeapYear
<1>5. IS_LEAP(y - 1900) <=> IsLeapYear(y)
  BY <1>1, <1>2, <1>3 DEF IS_LEAP, IsLeapYear
<1>. QED
  BY <1>4, <1>5

\* An interval and its last number.
LEMMA UpToNext ==
  ASSUME NEW lo \in Int, NEW q \in Int, lo <= q
  PROVE  lo .. q = (lo .. q - 1) \cup {q}
<1>1. ASSUME NEW x \in lo .. q PROVE x \in (lo .. q - 1) \cup {q}
  OBVIOUS
<1>2. ASSUME NEW x \in lo .. q - 1 PROVE x \in lo .. q
  OBVIOUS
<1>3. q \in lo .. q
  OBVIOUS
<1>. QED
  BY <1>1, <1>2, <1>3

\* The years a loop over tm_year adds up have the length of the calendar's.
LEMMA YearsAdd ==
  ASSUME NEW a \in Int, NEW b \in Int, a <= b
  PROVE  DaysOfYears(a, b) = YearStart(b + 1900) - YearStart(a + 1900)
<1>. DEFINE lo == -((-a) \div 4)
            L(c) == {q \in lo .. (c - 1) \div 4 : IS_LEAP(4 * q)}
            S == {n \in Nat : /\ IsFiniteSet(L(a + n))
                              /\ Cardinality(L(a + n)) \in Nat
                              /\ 365 * n + Cardinality(L(a + n))
                                   = YearStart((a + n) + 1900) - YearStart(a + 1900)}
<1>0. lo \in Int /\ 4 * lo >= a /\ 4 * lo < a + 4
  OBVIOUS
<1>. HIDE DEF lo
<1>1. 0 \in S
  <2>1. a + 0 = a /\ (a - 1) \div 4 < lo /\ (a - 1) \div 4 \in Int
    BY <1>0
  <2>2. L(a + 0) = {}
    BY <1>0, <2>1
  <2>3. YearStart(a + 1900) \in Int
    BY YearStep
  <2>. HIDE DEF L
  <2>. QED
    BY <2>1, <2>2, <2>3, FS_EmptySet
<1>2. ASSUME NEW n \in S PROVE n + 1 \in S
  <2>. DEFINE c == a + n
              y == c + 1900
  <2>1. /\ n \in Nat /\ c \in Int /\ c >= a /\ y \in Int
        /\ a + (n + 1) = c + 1 /\ (c + 1) + 1900 = y + 1 /\ y - 1900 = c
    OBVIOUS
  <2>2. /\ IsFiniteSet(L(c)) /\ Cardinality(L(c)) \in Nat
        /\ 365 * n + Cardinality(L(c)) = YearStart(y) - YearStart(a + 1900)
    OBVIOUS
  <2>. HIDE DEF c, y
  <2>3. /\ YearStart(y) \in Int /\ YearStart(a + 1900) \in Int
        /\ YearStart(y + 1) = YearStart(y) + (IF IS_LEAP(c) THEN 366 ELSE 365)
    BY <2>1, YearStep, LeapAlike
  <2>4. /\ IsFiniteSet(L(c + 1))
        /\ Cardinality(L(c + 1)) = Cardinality(L(c)) + (IF IS_LEAP(c) THEN 1 ELSE 0)
    <3>0. (c + 1) - 1 = c
      BY <2>1
    <3>1. CASE c % 4 = 0 /\ IS_LEAP(c)
      <4>. DEFINE q == c \div 4
      <4>1. q \in Int /\ 4 * q = c /\ q >= lo /\ (c - 1) \div 4 = q - 1
        BY <1>0, <2>1, <3>1
      <4>. HIDE DEF q
      <4>2. c \div 4 = q
        BY DEF q
      <4>5. L(c + 1) = {x \in lo .. q : IS_LEAP(4 * x)}
        BY <3>0, <4>2
      <4>6. L(c) = {x \in lo .. q - 1 : IS_LEAP(4 * x)}
        BY <4>1
      <4>7. lo .. q = (lo .. q - 1) \cup {q}
        BY <1>0, <4>1, UpToNext
      <4>8. q \notin lo .. q - 1
        BY <1>0, <4>1
      <4>9. IS_LEAP(4 * q) <=> IS_LEAP(c)
        BY <4>1
      <4>3. L(c + 1) = L(c) \cup {q} /\ q \notin L(c)
        BY <3>1, <4>5, <4>6, <4>7, <4>8, <4>9
      <4>. HIDE DEF L
      <4>. QED
        BY <2>2, <3>1, <4>3, FS_AddElement
    <3>2. CASE c % 4 = 0 /\ ~IS_LEAP(c)
      <4>. DEFINE q == c \div 4
      <4>1. q \in Int /\ 4 * q = c /\ q >= lo /\ (c - 1) \div 4 = q - 1
        BY <1>0, <2>1, <3>2
      <4>. HIDE DEF q
      <4>2. c \div 4 = q
        BY DEF q
      <4>5. L(c + 1) = {x \in lo .. q : IS_LEAP(4 * x)}
        BY <3>0, <4>2
      <4>6. L(c) = {x \in lo .. q - 1 : IS_LEAP(4 * x)}
        BY <4>1
      <4>7. lo .. q = (lo .. q - 1) \cup {q}
        BY <1>0, <4>1, UpToNext
      <4>8. q \notin lo .. q - 1
        BY <1>0, <4>1
      <4>9. IS_LEAP(4 * q) <=> IS_LEAP(c)
        BY <4>1
      <4>3. L(c + 1) = L(c)
        BY <3>2, <4>5, <4>6, <4>7, <4>8, <4>9
      <4>. HIDE DEF L
      <4>. QED
        BY <2>2, <3>2, <4>3
    <3>3. CASE c % 4 # 0
      <4>1. (c - 1) \div 4 = c \div 4
        BY <2>1, <3>3
      <4>2. ~IS_LEAP(c)
        BY <2>1, <3>3 DEF IS_LEAP, CMod, CDiv
      <4>3. L(c + 1) = L(c)
        BY <3>0, <4>1
      <4>. HIDE DEF L
      <4>. QED
        BY <2>2, <4>2, <4>3
    <3>. QED
      BY <3>1, <3>2, <3>3
  <2>. HIDE DEF L
  <2>. QED
    BY <2>1, <2>2, <2>3, <2>4
<1>3. b - a \in Nat /\ a + (b - a) = b
  OBVIOUS
<1>4. b - a \in S
  <2>. HIDE DEF S
  <2>1. S \in SUBSET Nat
    BY DEF S
  <2>. QED
    BY <1>1, <1>2, <1>3, <2>1, CountUp
<1>5. 365 * (b - a) + Cardinality(L(b)) = YearStart(b + 1900) - YearStart(a + 1900)
  BY <1>3, <1>4
<1>. QED
  BY <1>5 DEF DaysOfYears, lo

\* The loops over years end in the year of the day.
LEMMA YearUpIs ==
  ASSUME NEW year \in Int, NEW m \in Nat, NEW z \in Int,
         YearStart(z) <= YearStart(year + 1900) + m,
         YearStart(year + 1900) + m < YearStart(z + 1)
  PROVE  YearUp(m, year) = [m |-> (YearStart(year + 1900) + m) - YearStart(z),
                            year |-> z - 1900]
<1>. DEFINE a == year + 1900
            Fits(n) == /\ DaysOfYears(year, year + n) <= m
                       /\ m < DaysOfYears(year, year + n + 1)
            N == CHOOSE n \in m \div 366 .. m \div 365 : Fits(n)
            k == z - a
<1>0. a \in Int /\ a + k = z /\ k \in Int
  OBVIOUS
<1>1. \A y \in Int : YearStart(y) \in Int
  BY YearStep
<1>2. k >= 0
  <2>. SUFFICES ASSUME k < 0 PROVE FALSE
    BY <1>0
  <2>1. z + 1 \in Int /\ z + 1 <= a
    BY <1>0
  <2>2. YearStart(z + 1) <= YearStart(a)
    BY <1>0, <2>1, YearsInOrder
  <2>. QED
    BY <1>0, <1>1, <2>1, <2>2
<1>3. \A n \in Nat : DaysOfYears(year, year + n) = YearStart(a + n) - YearStart(a)
  <2>. SUFFICES ASSUME NEW n \in Nat
                PROVE  DaysOfYears(year, year + n) = YearStart(a + n) - YearStart(a)
    OBVIOUS
  <2>1. year + n \in Int /\ year <= year + n /\ (year + n) + 1900 = a + n
    OBVIOUS
  <2>. QED
    BY <2>1, YearsAdd
<1>. HIDE DEF a, k
<1>4. \A n \in Nat : Fits(n) <=> /\ YearStart(a + n) <= YearStart(a) + m
                                 /\ YearStart(a) + m < YearStart((a + n) + 1)
  <2>. SUFFICES ASSUME NEW n \in Nat
                PROVE  Fits(n) <=> /\ YearStart(a + n) <= YearStart(a) + m
                                   /\ YearStart(a) + m < YearStart((a + n) + 1)
    OBVIOUS
  <2>1. /\ n + 1 \in Nat /\ (year + n) + 1 = year + (n + 1) /\ a + (n + 1) = (a + n) + 1
        /\ a + n \in Int /\ (a + n) + 1 \in Int
    BY <1>0
  <2>2. DaysOfYears(year, year + n + 1) = YearStart((a + n) + 1) - YearStart(a)
    <3>1. DaysOfYears(year, year + (n + 1)) = YearStart(a + (n + 1)) - YearStart(a)
      BY <1>3, <2>1
    <3>. QED
      BY <2>1, <3>1
  <2>3. YearStart(a) \in Int /\ YearStart(a + n) \in Int /\ YearStart((a + n) + 1) \in Int
    BY <1>0, <1>1, <2>1
  <2>. QED
    BY <1>3, <2>2, <2>3
<1>5. k \in m \div 366 .. m \div 365 /\ Fits(k)
  <2>1. YearStart(a) + m = YearStart(year + 1900) + m
    BY DEF a
  <2>2. Fits(k)
    BY <1>0, <1>2, <1>4, <2>1
  <2>3. 365 * k <= YearStart(z) - YearStart(a)
    <3>1. a <= z /\ z - a = k
      BY <1>0, <1>2
    <3>. QED
      BY <1>0, <3>1, YearsGrow
  <2>4. YearStart(z + 1) - YearStart(a) <= 366 * (k + 1)
    <3>1. a <= z + 1 /\ (z + 1) - a = k + 1 /\ z + 1 \in Int
      BY <1>0, <1>2
    <3>2. YearStart(z + 1) - YearStart(a) <= 366 * ((z + 1) - a)
      BY <1>0, <3>1, YearsGrow
    <3>. QED
      BY <3>1, <3>2
  <2>5. 365 * k <= m /\ m < 366 * (k + 1)
    BY <1>0, <1>1, <2>1, <2>3, <2>4
  <2>6. k <= m \div 365 /\ m \div 366 <= k
    BY <1>0, <2>5
  <2>. QED
    BY <1>0, <2>2, <2>6
<1>. HIDE DEF Fits
<1>6. N \in m \div 366 .. m \div 365 /\ Fits(N)
  BY <1>5
<1>. HIDE DEF N
<1>7. N \in Nat
  <2>1. m \div 366 \in Nat /\ m \div 365 \in Nat
    OBVIOUS
  <2>. QED
    BY <1>6, <2>1
<1>8. a + N = z
  <2>1. a + N \in Int /\ YearStart(a) + m \in Int /\ YearStart(a) + m = YearStart(year + 1900) + m
    BY <1>0, <1>1, <1>7 DEF a
  <2>. QED
    BY <1>4, <1>6, <1>7, <2>1, OneYear
<1>9. DaysOfYears(year, year + N) = YearStart(z) - YearStart(a)
  BY <1>3, <1>7, <1>8
<1>10. YearUp(m, year) = [m |-> m - DaysOfYears(year, year + N), year |-> year + N]
  BY DEF YearUp, N, Fits
<1>11. year + N = z - 1900
  BY <1>0, <1>7, <1>8 DEF a
<1>. QED
  BY <1>0, <1>1, <1>9, <1>10, <1>11 DEF a

\* The loop downwards stops at the year of the day it looks for, too.
LEMMA YearDownIs ==
  ASSUME NEW year \in Int, NEW m \in Int, m < 0, NEW z \in Int,
         YearStart(z) <= YearStart(year + 1901) + m,
         YearStart(year + 1901) + m < YearStart(z + 1)
  PROVE  YearDown(m, year) = [m |-> (YearStart(year + 1901) + m) - YearStart(z + 1),
                              year |-> z - 1900]
<1>. DEFINE a == year + 1901
            Fits(n) == /\ DaysOfYears(year + 1 - n, year + 1) < -m
                       /\ -m <= DaysOfYears(year - n, year + 1)
            N == CHOOSE n \in (-m - 1) \div 366 .. (-m - 1) \div 365 : Fits(n)
            k == a - 1 - z
<1>0. a \in Int /\ a - 1 - k = z /\ k \in Int /\ a - k = z + 1
  OBVIOUS
<1>1. \A y \in Int : YearStart(y) \in Int
  BY YearStep
<1>2. k >= 0
  <2>. SUFFICES ASSUME k < 0 PROVE FALSE
    BY <1>0
  <2>1. a <= z
    BY <1>0
  <2>2. YearStart(a) <= YearStart(z)
    BY <1>0, <2>1, YearsInOrder
  <2>. QED
    BY <1>0, <1>1, <2>1, <2>2
<1>3. \A n \in Nat :
        /\ DaysOfYears(year + 1 - n, year + 1) = YearStart(a) - YearStart(a - n)
        /\ DaysOfYears(year - n, year + 1) = YearStart(a) - YearStart(a - 1 - n)
  <2>. SUFFICES ASSUME NEW n \in Nat
       PROVE /\ DaysOfYears(year + 1 - n, year + 1) = YearStart(a) - YearStart(a - n)
             /\ DaysOfYears(year - n, year + 1) = YearStart(a) - YearStart(a - 1 - n)
    OBVIOUS
  <2>1. /\ year + 1 - n \in Int /\ year + 1 - n <= year + 1 /\ (year + 1 - n) + 1900 = a - n
        /\ year - n \in Int /\ year - n <= year + 1 /\ (year - n) + 1900 = a - 1 - n
        /\ (year + 1) + 1900 = a /\ year + 1 \in Int
    OBVIOUS
  <2>. QED
    BY <2>1, YearsAdd
<1>. HIDE DEF a, k
<1>4. \A n \in Nat : Fits(n) <=> /\ YearStart(a - 1 - n) <= YearStart(a) + m
                                 /\ YearStart(a) + m < YearStart((a - 1 - n) + 1)
  <2>. SUFFICES ASSUME NEW n \in Nat
                PROVE  Fits(n) <=> /\ YearStart(a - 1 - n) <= YearStart(a) + m
                                   /\ YearStart(a) + m < YearStart((a - 1 - n) + 1)
    OBVIOUS
  <2>1. a - n \in Int /\ a - 1 - n \in Int /\ (a - 1 - n) + 1 = a - n
    BY <1>0
  <2>. QED
    BY <1>0, <1>1, <1>3, <2>1
<1>5. k \in (-m - 1) \div 366 .. (-m - 1) \div 365 /\ Fits(k)
  <2>1. YearStart(a) + m = YearStart(year + 1901) + m
    BY DEF a
  <2>2. Fits(k)
    BY <1>0, <1>2, <1>4, <2>1
  <2>3. 365 * k <= YearStart(a) - YearStart(z + 1)
    <3>1. z + 1 <= a /\ a - (z + 1) = k /\ z + 1 \in Int
      BY <1>0, <1>2
    <3>. QED
      BY <1>0, <3>1, YearsGrow
  <2>4. YearStart(a) - YearStart(z) <= 366 * (k + 1)
    <3>1. z <= a /\ a - z = k + 1
      BY <1>0, <1>2
    <3>. QED
      BY <1>0, <3>1, YearsGrow
  <2>0. z + 1 \in Int
    OBVIOUS
  <2>5. 365 * k <= -m - 1 /\ -m - 1 < 366 * (k + 1)
    BY <1>0, <1>1, <2>0, <2>1, <2>3, <2>4
  <2>6. k <= (-m - 1) \div 365 /\ (-m - 1) \div 366 <= k
    BY <1>0, <2>5
  <2>. QED
    BY <1>0, <2>2, <2>6
<1>. HIDE DEF Fits
<1>6. N \in (-m - 1) \div 366 .. (-m - 1) \div 365 /\ Fits(N)
  BY <1>5
<1>. HIDE DEF N
<1>7. N \in Nat
  <2>1. (-m - 1) \div 366 \in Nat /\ (-m - 1) \div 365 \in Nat
    OBVIOUS
  <2>. QED
    BY <1>6, <2>1
<1>8. a - 1 - N = z
  <2>1. a - 1 - N \in Int /\ YearStart(a) + m \in Int
        /\ YearStart(a) + m = YearStart(year + 1901) + m
    BY <1>0, <1>1, <1>7 DEF a
  <2>. QED
    BY <1>4, <1>6, <1>7, <2>1, OneYear
<1>9. DaysOfYears(year + 1 - N, year + 1) = YearStart(a) - YearStart(z + 1)
  <2>1. a - N = z + 1
    BY <1>0, <1>7, <1>8
  <2>. QED
    BY <1>3, <1>7, <2>1
<1>10. YearDown(m, year) = [m |-> m + DaysOfYears(year + 1 - N, year + 1), year |-> year - N]
  BY DEF YearDown, N, Fits
<1>11. year - N = z - 1900
  BY <1>0, <1>7, <1>8 DEF a
<1>12. z + 1 \in Int
  OBVIOUS
<1>. QED
  BY <1>0, <1>1, <1>9, <1>10, <1>11, <1>12 DEF a

\* The lengths of the months up to one are where it starts.
LEMMA MonthsAdd ==
  ASSUME NEW leap \in BOOLEAN
  PROVE  /\ \A i, j \in 0..11 : DaysOfMonths(leap, i, j) = MonthStart(leap, j) - MonthStart(leap, i)
         /\ \A i \in 0..11 : DaysOfMonths(leap, i, 12) = YearLength(leap) - MonthStart(leap, i)
         /\ DaysOfMonths(leap, 12, 12) = 0
<1>. DEFINE D == days_in_month(leap)
            T == [n \in 0..12 |-> IF n = 12 THEN YearLength(leap) ELSE MonthStart(leap, n)]
            sums == CHOOSE f : f = [n \in 0..12 |-> IF n = 0 THEN 0 ELSE f[n - 1] + D[n]]
<1>1. /\ \A m \in 0..11 : MonthStart(leap, m) \in Int /\ D[m + 1] \in Int
      /\ MonthStart(leap, 0) = 0
      /\ \A m \in 0..10 : MonthStart(leap, m + 1) = MonthStart(leap, m) + D[m + 1]
      /\ MonthStart(leap, 11) + D[12] = YearLength(leap)
  BY MonthsLaid
<1>. HIDE DEF D
<1>2. T[0] = 0
  BY <1>1
<1>3. \A n \in 1..12 : T[n] = T[n - 1] + D[n]
  <2>. SUFFICES ASSUME NEW n \in 1..12 PROVE T[n] = T[n - 1] + D[n]
    OBVIOUS
  <2>1. CASE n = 12
    BY <1>1, <2>1
  <2>2. CASE n # 12
    <3>1. n - 1 \in 0..10 /\ (n - 1) + 1 = n
      BY <2>2
    <3>2. MonthStart(leap, n) = MonthStart(leap, n - 1) + D[n]
      BY <1>1, <3>1
    <3>. QED
      BY <2>2, <3>1, <3>2
  <2>. QED
    BY <2>1, <2>2
<1>4. T = [n \in 0..12 |-> T[n]]
  OBVIOUS
<1>. HIDE DEF T
<1>5. T = [n \in 0..12 |-> IF n = 0 THEN 0 ELSE T[n - 1] + D[n]]
  <2>1. \A n \in 0..12 : T[n] = IF n = 0 THEN 0 ELSE T[n - 1] + D[n]
    BY <1>2, <1>3
  <2>. QED
    BY <1>4, <2>1
<1>6. sums = [n \in 0..12 |-> IF n = 0 THEN 0 ELSE sums[n - 1] + D[n]]
  BY <1>5
<1>. HIDE DEF sums
<1>7. /\ sums[0] = 0
      /\ \A n \in 1..12 : sums[n] = sums[n - 1] + D[n]
  BY <1>6
<1>8. \A n \in 0..12 : sums[n] = T[n]
  <2>1. sums[0] = T[0] /\ sums[1] = T[1] /\ sums[2] = T[2] /\ sums[3] = T[3]
    BY <1>2, <1>3, <1>7
  <2>2. sums[4] = T[4] /\ sums[5] = T[5] /\ sums[6] = T[6]
    BY <1>3, <1>7, <2>1
  <2>3. sums[7] = T[7] /\ sums[8] = T[8] /\ sums[9] = T[9]
    BY <1>3, <1>7, <2>2
  <2>4. sums[10] = T[10] /\ sums[11] = T[11] /\ sums[12] = T[12]
    BY <1>3, <1>7, <2>3
  <2>. QED
    BY <2>1, <2>2, <2>3, <2>4
<1>9. \A i, j \in 0..12 : DaysOfMonths(leap, i, j) = T[j] - T[i]
  <2>1. \A i, j : DaysOfMonths(leap, i, j) = sums[j] - sums[i]
    BY DEF DaysOfMonths, sums, D
  <2>. QED
    BY <1>8, <2>1
<1>10. /\ \A m \in 0..11 : T[m] = MonthStart(leap, m)
       /\ T[12] = YearLength(leap)
  BY DEF T
<1>11. YearLength(leap) \in Int /\ (\A m \in 0..11 : m \in 0..12)
  BY DEF YearLength
<1>12. \A i, j \in 0..11 : DaysOfMonths(leap, i, j) = MonthStart(leap, j) - MonthStart(leap, i)
  BY <1>9, <1>10, <1>11
<1>13. \A i \in 0..11 : DaysOfMonths(leap, i, 12) = YearLength(leap) - MonthStart(leap, i)
  BY <1>9, <1>10, <1>11
<1>14. DaysOfMonths(leap, 12, 12) = 0
  BY <1>9, <1>10, <1>11
<1>. QED
  BY <1>12, <1>13, <1>14

\* The loop over the months stops at the month of the day.
LEMMA MonthUpIs ==
  ASSUME NEW leap \in BOOLEAN, NEW mon, NEW yday \in Int, InMonth(leap, mon, yday)
  PROVE  MonthUp(yday, leap) = [m |-> yday - MonthStart(leap, mon), mon |-> mon]
<1>. DEFINE Fits(k) == DaysOfMonths(leap, 0, k) <= yday /\ yday < DaysOfMonths(leap, 0, k + 1)
            M == CHOOSE k \in 0..11 : Fits(k)
<1>1. \A k \in 0..11 : Fits(k) <=> InMonth(leap, k, yday)
  <2>. SUFFICES ASSUME NEW k \in 0..11 PROVE Fits(k) <=> InMonth(leap, k, yday)
    OBVIOUS
  <2>1. DaysOfMonths(leap, 0, k) = MonthStart(leap, k)
    BY MonthsAdd, MonthsLaid
  <2>2. DaysOfMonths(leap, 0, k + 1) = MonthStart(leap, k) + days_in_month(leap)[k + 1]
    <3>1. CASE k = 11
      BY <3>1, MonthsAdd, MonthsLaid
    <3>2. CASE k # 11
      <4>1. k + 1 \in 0..11 /\ k \in 0..10
        BY <3>2
      <4>. QED
        BY <4>1, MonthsAdd, MonthsLaid
    <3>. QED
      BY <3>1, <3>2
  <2>. QED
    BY <2>1, <2>2 DEF InMonth
<1>2. mon \in 0..11
  BY DEF InMonth
<1>. HIDE DEF Fits
<1>3. M \in 0..11 /\ Fits(M)
  BY <1>1, <1>2
<1>. HIDE DEF M
<1>4. M = mon
  BY <1>1, <1>3, OneMonth
<1>5. DaysOfMonths(leap, 0, mon) = MonthStart(leap, mon)
  BY <1>2, MonthsAdd, MonthsLaid
<1>. QED
  BY <1>4, <1>5 DEF MonthUp, M, Fits

\* So does the loop that counts down from December.
LEMMA MonthDownIs ==
  ASSUME NEW leap \in BOOLEAN, NEW mon, NEW yday \in Int, InMonth(leap, mon, yday)
  PROVE  MonthDown(yday - YearLength(leap), leap)
           = [m |-> yday - MonthStart(leap, mon), mon |-> mon]
<1>. DEFINE m == yday - YearLength(leap)
            Fits(k) == /\ DaysOfMonths(leap, k + 1, 12) < -m
                       /\ -m <= DaysOfMonths(leap, k, 12)
            M == CHOOSE k \in 0..11 : Fits(k)
<1>0. YearLength(leap) \in Int /\ m \in Int
  BY DEF YearLength
<1>1. \A k \in 0..11 : Fits(k) <=> InMonth(leap, k, yday)
  <2>. SUFFICES ASSUME NEW k \in 0..11 PROVE Fits(k) <=> InMonth(leap, k, yday)
    OBVIOUS
  <2>0. MonthStart(leap, k) \in Int /\ days_in_month(leap)[k + 1] \in Int
    BY MonthsLaid
  <2>1. DaysOfMonths(leap, k, 12) = YearLength(leap) - MonthStart(leap, k)
    BY MonthsAdd
  <2>2. DaysOfMonths(leap, k + 1, 12)
          = YearLength(leap) - (MonthStart(leap, k) + days_in_month(leap)[k + 1])
    <3>1. CASE k = 11
      BY <1>0, <2>0, <3>1, MonthsAdd, MonthsLaid
    <3>2. CASE k # 11
      <4>1. k + 1 \in 0..11 /\ k \in 0..10
        BY <3>2
      <4>. QED
        BY <4>1, MonthsAdd, MonthsLaid
    <3>. QED
      BY <3>1, <3>2
  <2>. QED
    BY <1>0, <2>0, <2>1, <2>2 DEF InMonth
<1>2. mon \in 0..11
  BY DEF InMonth
<1>. HIDE DEF Fits
<1>3. M \in 0..11 /\ Fits(M)
  BY <1>1, <1>2
<1>. HIDE DEF M
<1>4. M = mon
  BY <1>1, <1>3, OneMonth
<1>5. DaysOfMonths(leap, mon, 12) = YearLength(leap) - MonthStart(leap, mon)
  BY <1>2, MonthsAdd
<1>6. m + DaysOfMonths(leap, mon, 12) = yday - MonthStart(leap, mon)
  BY <1>0, <1>2, <1>5, MonthsLaid
<1>. QED
  BY <1>4, <1>6 DEF MonthDown, M, Fits

\* What the remainders lend each other gives the second of the day and the day.
LEMMA Borrowed ==
  ASSUME NEW t, IsTime(t)
  PROVE  WRAP(CMod(t.sec, 60), CMod(CDiv(t.sec, 60), 60), CDiv(t.sec, 3600), t.day)
           = [sec |-> FloorSec(t) % 60, min |-> (FloorSec(t) \div 60) % 60,
              hour |-> FloorSec(t) \div 3600, day |-> FloorDay(t)]
<1>. DEFINE d == FloorDay(t)
            s == FloorSec(t)
<1>1. /\ d \in Int /\ s \in Nat /\ s < 86400
      /\ t.day = (IF d < 0 /\ s > 0 THEN d + 1 ELSE d)
      /\ t.sec = (IF d < 0 /\ s > 0 THEN s - 86400 ELSE s)
  BY TimeFacts DEF IsSecond
<1>. HIDE DEF d, s
<1>2. CASE ~(d < 0 /\ s > 0)
  <2>1. t.sec = s /\ t.day = d
    BY <1>1, <1>2
  <2>2. /\ CMod(t.sec, 60) = s % 60
        /\ CMod(CDiv(t.sec, 60), 60) = (s \div 60) % 60
        /\ CDiv(t.sec, 3600) = s \div 3600
    BY <1>1, <2>1 DEF CMod, CDiv
  <2>3. s % 60 \in Nat /\ (s \div 60) % 60 \in Nat /\ s \div 3600 \in Nat
    BY <1>1
  <2>. QED
    BY <1>1, <2>1, <2>2, <2>3 DEF WRAP, Borrow, d, s
<1>3. CASE d < 0 /\ s > 0
  <2>. DEFINE u == 86400 - s
              h == u \div 3600
              i == (u \div 60) % 60
              c == u % 60
  <2>1. t.sec = -u /\ t.day = d + 1 /\ u \in Nat /\ u > 0 /\ u < 86400
    BY <1>1, <1>3
  <2>2. s = 86400 - u
    BY <1>1
  <2>. HIDE DEF u
  <2>3. /\ h \in 0..23 /\ i \in 0..59 /\ c \in 0..59
        /\ u = 3600 * h + 60 * i + c
    BY <2>1
  <2>4. /\ CMod(t.sec, 60) = -c
        /\ CMod(CDiv(t.sec, 60), 60) = -i
        /\ CDiv(t.sec, 3600) = -h
    BY <2>1 DEF CMod, CDiv
  <2>. HIDE DEF h, i, c
  <2>5. \E c1, i1, h1 \in Int :
          /\ c1 \in 0..59 /\ i1 \in 0..59 /\ h1 \in 0..23
          /\ s = 3600 * h1 + 60 * i1 + c1
          /\ WRAP(-c, -i, -h, d + 1) = [sec |-> c1, min |-> i1, hour |-> h1, day |-> d]
    <3>. DEFINE bc == IF c > 0 THEN 1 ELSE 0
                j == -i - bc
                bj == IF j < 0 THEN 1 ELSE 0
                k == -h - bj
                c1 == -c + 60 * bc
                i1 == j + 60 * bj
                h1 == k + 24
    <3>1. Borrow(-c) = bc /\ Borrow(j) = bj /\ bc \in 0..1 /\ j \in Int /\ bj \in 0..1
      BY <2>3 DEF Borrow
    <3>2. k < 0 /\ k \in Int
      BY <2>1, <2>3
    <3>3. Borrow(k) = 1
      BY <3>2 DEF Borrow
    <3>4. /\ c1 \in 0..59 /\ i1 \in 0..59 /\ h1 \in 0..23
          /\ s = 3600 * h1 + 60 * i1 + c1
      BY <2>1, <2>2, <2>3
    <3>5. WRAP(-c, -i, -h, d + 1) = [sec |-> c1, min |-> i1, hour |-> h1, day |-> d]
      <4>1. -i - Borrow(-c) = j /\ -h - Borrow(j) = k
        BY <3>1
      <4>. HIDE DEF bc, j, bj, k
      <4>2. WRAP(-c, -i, -h, d + 1)
              = [sec |-> -c + 60 * Borrow(-c), min |-> j + 60 * Borrow(j),
                 hour |-> k + 24 * Borrow(k), day |-> (d + 1) - Borrow(k)]
        BY <4>1 DEF WRAP
      <4>3. (d + 1) - 1 = d
        BY <1>1
      <4>. QED
        BY <3>1, <3>3, <4>2, <4>3
    <3>. HIDE DEF bc, j, bj, k, c1, i1, h1
    <3>. QED
      BY <3>4, <3>5
  <2>6. PICK c1, i1, h1 \in Int :
          /\ c1 \in 0..59 /\ i1 \in 0..59 /\ h1 \in 0..23
          /\ s = 3600 * h1 + 60 * i1 + c1
          /\ WRAP(-c, -i, -h, d + 1) = [sec |-> c1, min |-> i1, hour |-> h1, day |-> d]
    BY <2>5
  <2>7. s % 60 = c1 /\ (s \div 60) % 60 = i1 /\ s \div 3600 = h1
    BY <2>6
  <2>. QED
    BY <2>1, <2>4, <2>6, <2>7 DEF d, s
<1>. QED
  BY <1>2, <1>3

\* The two years that the loops are counted from, and the length of an era.
LEMMA TwoStarts ==
  /\ YearStart(1970) = 0 /\ YearStart(2008) = CHEAT_DAYS /\ CHEAT_DAYS = 13879
  /\ days_in_gregorian_cycle = 146097
  BY DEF YearStart, CHEAT_DAYS, days_in_gregorian_cycle

\* Whichever of them is taken, the days counted from it name the same day.
LEMMA CountedIs ==
  ASSUME NEW d \in Int
  PROVE  LET c == CountedFrom(d)
         IN /\ c.m \in Int /\ c.year \in Int
            /\ YearStart(c.year + 1900) + c.m = d
            /\ c.m < 0 => c.year = 70
<1>1. CASE d >= CHEAT_DAYS
  BY <1>1, TwoStarts DEF CountedFrom, CHEAT_YEARS
<1>2. CASE ~(d >= CHEAT_DAYS)
  BY <1>2, TwoStarts DEF CountedFrom, CHEAT_YEARS
<1>. QED
  BY <1>1, <1>2

\* The loops over years, whole cycles first, give the year of the day and what
\* is left of it, or missing to its end.
LEMMA YearLoopIs ==
  ASSUME NEW m \in Int, NEW year \in Int, NEW y \in Int, NEW d \in Int,
         YearStart(year + 1900) + m = d, YearStart(y) <= d, d < YearStart(y + 1)
  PROVE  YearLoop(m, year) = [m |-> IF m >= 0 THEN d - YearStart(y) ELSE d - YearStart(y + 1),
                              year |-> y - 1900]
<1>. DEFINE cycles == CDiv(m, days_in_gregorian_cycle) + Borrow(m)
            m1 == m - cycles * days_in_gregorian_cycle
<1>1. /\ cycles \in Int /\ m1 = m - 146097 * cycles /\ m1 \in Int
      /\ m >= 0 => m1 >= 0
      /\ m < 0 => m1 < 0
  BY TwoStarts DEF CDiv, Borrow
<1>2. YearLoop(m, year) = IF m >= 0 THEN YearUp(m1, year + cycles * 400)
                                    ELSE YearDown(m1, year - 1 + cycles * 400)
  BY DEF YearLoop
<1>. HIDE DEF cycles, m1
<1>3. YearStart((year + 1900) + 400 * cycles) + m1 = d
  <2>1. YearStart(year + 1900) \in Int /\ year + 1900 \in Int
    BY YearStep
  <2>2. YearStart((year + 1900) + 400 * cycles) = YearStart(year + 1900) + 146097 * cycles
    BY <1>1, <2>1, YearCycle
  <2>. QED
    BY <1>1, <2>1, <2>2
<1>4. CASE m >= 0
  <2>. DEFINE z == year + cycles * 400
  <2>1. z \in Int /\ z + 1900 = (year + 1900) + 400 * cycles /\ m1 \in Nat
    BY <1>1, <1>4
  <2>. HIDE DEF z
  <2>2. YearStart(z + 1900) + m1 = d
    BY <1>3, <2>1
  <2>3. YearUp(m1, z) = [m |-> (YearStart(z + 1900) + m1) - YearStart(y), year |-> y - 1900]
    BY <2>1, <2>2, YearUpIs
  <2>4. YearLoop(m, year) = YearUp(m1, z)
    BY <1>2, <1>4 DEF z
  <2>5. YearLoop(m, year) = [m |-> d - YearStart(y), year |-> y - 1900]
    BY <2>2, <2>3, <2>4
  <2>. QED
    BY <1>4, <2>5
<1>5. CASE m < 0
  <2>. DEFINE z == year - 1 + cycles * 400
  <2>1. z \in Int /\ z + 1901 = (year + 1900) + 400 * cycles /\ m1 < 0
    BY <1>1, <1>5
  <2>. HIDE DEF z
  <2>2. YearStart(z + 1901) + m1 = d
    BY <1>3, <2>1
  <2>3. YearDown(m1, z) = [m |-> (YearStart(z + 1901) + m1) - YearStart(y + 1), year |-> y - 1900]
    BY <1>1, <2>1, <2>2, YearDownIs
  <2>4. ~(m >= 0)
    BY <1>5
  <2>5. YearLoop(m, year) = YearDown(m1, z)
    BY <1>2, <2>4 DEF z
  <2>6. YearLoop(m, year) = [m |-> d - YearStart(y + 1), year |-> y - 1900]
    BY <2>2, <2>3, <2>5
  <2>. QED
    BY <2>4, <2>6
<1>. QED
  BY <1>4, <1>5

\* The four loops of gmtime64_r together find the date of the day.
LEMMA DateLoopsIs ==
  ASSUME NEW d, NEW y, NEW mon, IsDate(y, mon, d)
  PROVE  DateLoops(d) =
           [year |-> y - 1900, mon |-> mon,
            mday |-> d - YearStart(y) - MonthStart(IsLeapYear(y), mon) + 1,
            yday |-> d - YearStart(y)]
<1>. DEFINE c == CountedFrom(d)
            found == YearLoop(c.m, c.year)
            leap == IS_LEAP(found.year)
            n == IF c.m >= 0 THEN MonthUp(found.m, leap) ELSE MonthDown(found.m, leap)
            yday == d - YearStart(y)
            start == MonthStart(IsLeapYear(y), mon)
<1>1. /\ y \in Int /\ d \in Int /\ YearStart(y) <= d /\ d < YearStart(y + 1)
      /\ InMonth(IsLeapYear(y), mon, yday) /\ mon \in 0..11
  BY DEF IsDate, InMonth
<1>2. /\ IsLeapYear(y) \in BOOLEAN /\ IS_LEAP(y - 1900) = IsLeapYear(y)
      /\ YearStart(y) \in Int
      /\ YearStart(y + 1) = YearStart(y) + YearLength(IsLeapYear(y))
      /\ YearLength(IsLeapYear(y)) \in Int
  BY <1>1, LeapAlike, YearStep DEF YearLength
<1>3. DateLoops(d) = [year |-> found.year, mon |-> n.mon, mday |-> n.m + 1,
                      yday |-> julian_days_by_month(leap)[n.mon + 1] + n.m]
  BY DEF DateLoops
<1>4. c.m \in Int /\ c.year \in Int /\ YearStart(c.year + 1900) + c.m = d
  BY <1>1, CountedIs
<1>. HIDE DEF c
<1>5. found = [m |-> IF c.m >= 0 THEN d - YearStart(y) ELSE d - YearStart(y + 1),
               year |-> y - 1900]
  BY <1>1, <1>4, YearLoopIs
<1>. HIDE DEF found
<1>6. /\ found.year = y - 1900
      /\ found.m = IF c.m >= 0 THEN yday ELSE yday - YearLength(IsLeapYear(y))
  BY <1>1, <1>2, <1>5
<1>7. leap = IsLeapYear(y) /\ yday \in Int /\ start \in Int
  BY <1>1, <1>2, <1>6, MonthsLaid
<1>. HIDE DEF leap, yday, start
<1>8. n = [m |-> yday - start, mon |-> mon]
  <2>1. MonthUp(yday, leap) = [m |-> yday - start, mon |-> mon]
    BY <1>1, <1>2, <1>7, MonthUpIs DEF start
  <2>2. MonthDown(yday - YearLength(leap), leap) = [m |-> yday - start, mon |-> mon]
    BY <1>1, <1>2, <1>7, MonthDownIs DEF start
  <2>. QED
    BY <1>6, <1>7, <2>1, <2>2
<1>. HIDE DEF n
<1>9. julian_days_by_month(leap)[mon + 1] = start
  <2>1. \A k \in 0..11 : MonthStart(leap, k) = julian_days_by_month(leap)[k + 1]
    <3>1. leap \in BOOLEAN
      BY <1>2, <1>7
    <3>. QED
      BY <3>1, MonthTable
  <2>. QED
    BY <1>1, <1>7, <2>1 DEF start
<1>10. n.mon = mon /\ n.m = yday - start /\ start + (yday - start) = yday
  BY <1>7, <1>8
<1>11. DateLoops(d) = [year |-> y - 1900, mon |-> mon, mday |-> yday - start + 1, yday |-> yday]
  BY <1>3, <1>6, <1>9, <1>10
<1>. QED
  BY <1>11 DEF yday, start

\* gmtime64_r finds the year, the month and the second that the day has.
LEMMA GmtimeIs ==
  ASSUME NEW t, IsTime(t), NEW y, NEW mon, IsDate(y, mon, FloorDay(t))
  PROVE  gmtime64_r(t) = Date(y, mon, FloorDay(t), FloorSec(t))
<1>. DEFINE w == WRAP(CMod(t.sec, 60), CMod(CDiv(t.sec, 60), 60), CDiv(t.sec, 3600), t.day)
            date == DateLoops(w.day)
<1>1. gmtime64_r(t) =
        [sec |-> w.sec, min |-> w.min, hour |-> w.hour, mday |-> date.mday,
         mon |-> date.mon, year |-> date.year, wday |-> (w.day + 4) % 7,
         yday |-> date.yday]
  BY DEF gmtime64_r
<1>2. w = [sec |-> FloorSec(t) % 60, min |-> (FloorSec(t) \div 60) % 60,
           hour |-> FloorSec(t) \div 3600, day |-> FloorDay(t)]
  BY Borrowed
<1>. HIDE DEF w
<1>3. date = [year |-> y - 1900, mon |-> mon,
              mday |-> FloorDay(t) - YearStart(y) - MonthStart(IsLeapYear(y), mon) + 1,
              yday |-> FloorDay(t) - YearStart(y)]
  BY <1>2, DateLoopsIs
<1>. HIDE DEF date
<1>. QED
  BY <1>1, <1>2, <1>3 DEF Date

\* Hours, minutes and seconds of a second of the day, and back.
LEMMA SecondsOf ==
  ASSUME NEW s \in Nat, IsSecond(s)
  PROVE  /\ s % 60 \in 0..59 /\ (s \div 60) % 60 \in 0..59 /\ s \div 3600 \in 0..23
         /\ (s \div 3600) * 3600 + ((s \div 60) % 60) * 60 + (s % 60) = s
  BY DEF IsSecond

\* A date of the calendar passes the assertions of check_tm.
LEMMA DateChecks ==
  ASSUME NEW y, NEW mon, NEW day, IsDate(y, mon, day), NEW s \in Nat, IsSecond(s)
  PROVE  check_tm(Date(y, mon, day, s))
<1>. DEFINE leap == IsLeapYear(y)
            yday == day - YearStart(y)
            start == MonthStart(leap, mon)
            D == days_in_month(leap)[mon + 1]
            tm == Date(y, mon, day, s)
<1>1. /\ y \in Int /\ day \in Int /\ YearStart(y) <= day /\ day < YearStart(y + 1)
      /\ mon \in 0..11 /\ start <= yday /\ yday < start + D
  BY DEF IsDate, InMonth
<1>2. /\ IS_LEAP(y - 1900) = leap /\ leap \in BOOLEAN
      /\ YearStart(y) \in Int /\ YearStart(y + 1) = YearStart(y) + YearLength(leap)
  BY <1>1, LeapAlike, YearStep DEF YearLength
<1>3. start \in Int /\ D \in Int
  BY <1>1, <1>2, MonthsLaid
<1>4. /\ tm.sec = s % 60 /\ tm.min = (s \div 60) % 60 /\ tm.hour = s \div 3600
      /\ tm.mday = yday - start + 1 /\ tm.mon = mon /\ tm.year = y - 1900
      /\ tm.wday = (day + 4) % 7 /\ tm.yday = yday
  BY DEF Date
<1>5. length_of_year(tm.year) = YearLength(leap)
  BY <1>2, <1>4 DEF length_of_year, YearLength
<1>6. days_in_month(IS_LEAP(tm.year))[tm.mon + 1] = D
  BY <1>2, <1>4
<1>. HIDE DEF tm, D, leap, start
<1>7. tm.mday >= 1 /\ tm.mday <= D /\ tm.yday >= 0 /\ tm.yday <= YearLength(leap)
  BY <1>1, <1>2, <1>3, <1>4 DEF YearLength
<1>8. tm.sec \in 0..61 /\ tm.min \in 0..59 /\ tm.hour \in 0..23
  BY <1>4, SecondsOf
<1>9. tm.wday \in 0..6 /\ tm.mon \in 0..11
  BY <1>1, <1>4
<1>. QED
  BY <1>5, <1>6, <1>7, <1>8, <1>9 DEF check_tm, tm

\* A record with the fields of a date that timegm64 and mktime read.
TimeFields(date) ==
  /\ date.year \in Int /\ date.mon \in 0..11 /\ date.mday \in Int
  /\ date.hour * 3600 + date.min * 60 + date.sec \in Nat
SecondOf(date) == date.hour * 3600 + date.min * 60 + date.sec

\* timegm64 counts the days of the calendar, whole cycles of years first.
LEMMA TimegmIs ==
  ASSUME NEW date, TimeFields(date)
  PROVE  timegm64(date)
           = TimeOf(CivilDay(date.year + 1900, date.mon, date.mday), SecondOf(date))
<1>. DEFINE year == date.year
            y == year + 1900
            cycles == IF year > 100 \/ year < -300 THEN CDiv(year - 100, 400) ELSE 0
            orig == year - cycles * 400
            years == IF orig >= 70 THEN DaysOfYears(70, orig) ELSE -DaysOfYears(orig, 70)
            start == julian_days_by_month(IS_LEAP(orig))[date.mon + 1]
            days == cycles * days_in_gregorian_cycle + years + start + date.mday - 1
<1>0. timegm64(date) = TimeOf(days, SecondOf(date))
  BY Zenon DEF timegm64, SecondOf
<1>1. year \in Int /\ date.mon \in 0..11 /\ date.mday \in Int
  BY DEF TimeFields
<1>. HIDE DEF year
<1>2. cycles \in Int
  BY <1>1 DEF CDiv
<1>. HIDE DEF cycles
<1>3. orig \in Int /\ orig + 1900 = y - 400 * cycles /\ y \in Int
      /\ (orig + 1900) - 1900 = orig /\ orig + 1900 \in Int
      /\ y = (orig + 1900) + 400 * cycles
  BY <1>1, <1>2
<1>. HIDE DEF orig, y
<1>4. years = YearStart(orig + 1900)
  <2>1. YearStart(orig + 1900) \in Int /\ YearStart(1970) = 0 /\ 70 + 1900 = 1970
    BY <1>3, YearStep, TwoStarts
  <2>2. CASE orig >= 70
    <3>1. DaysOfYears(70, orig) = YearStart(orig + 1900) - YearStart(70 + 1900)
      BY <1>3, <2>2, YearsAdd
    <3>. QED
      BY <2>1, <2>2, <3>1
  <2>3. CASE ~(orig >= 70)
    <3>1. orig <= 70
      BY <1>3, <2>3
    <3>2. DaysOfYears(orig, 70) = YearStart(70 + 1900) - YearStart(orig + 1900)
      BY <1>3, <3>1, YearsAdd
    <3>. QED
      BY <2>1, <2>3, <3>2
  <2>. QED
    BY <2>2, <2>3
<1>5. /\ YearStart(y) = YearStart(orig + 1900) + 146097 * cycles
      /\ IsLeapYear(y) = IsLeapYear(orig + 1900)
      /\ YearStart(orig + 1900) \in Int
  BY <1>2, <1>3, YearCycle, YearStep
<1>6. IS_LEAP(orig) = IsLeapYear(y) /\ IsLeapYear(y) \in BOOLEAN
  BY <1>3, <1>5, LeapAlike
<1>7. start = MonthStart(IsLeapYear(y), date.mon) /\ start \in Int
  <2>1. \A m \in 0..11 : /\ MonthStart(IsLeapYear(y), m)
                               = julian_days_by_month(IsLeapYear(y))[m + 1]
                         /\ MonthStart(IsLeapYear(y), m) \in Int
    <3>. DEFINE leap == IsLeapYear(y)
    <3>1. leap \in BOOLEAN
      BY <1>6
    <3>. HIDE DEF leap
    <3>2. \A m \in 0..11 : MonthStart(leap, m) = julian_days_by_month(leap)[m + 1]
      BY <3>1, MonthTable
    <3>3. \A m \in 0..11 : MonthStart(leap, m) \in Int
      BY <3>1, MonthsLaid
    <3>. QED
      BY <3>2, <3>3 DEF leap
  <2>. QED
    BY <1>1, <1>6, <2>1
<1>. HIDE DEF years, start
<1>8. days = YearStart(y) + MonthStart(IsLeapYear(y), date.mon) + date.mday - 1
  BY <1>1, <1>2, <1>4, <1>5, <1>7, TwoStarts
<1>9. days = CivilDay(y, date.mon, date.mday)
  BY <1>8 DEF CivilDay
<1>. QED
  BY <1>0, <1>9 DEF y, year

\* The day that a date of the calendar names, and the fields of such a date.
LEMMA DayOfDate ==
  ASSUME NEW y, NEW mon, NEW day, IsDate(y, mon, day), NEW s \in Nat, IsSecond(s)
  PROVE  LET date == Date(y, mon, day, s)
         IN /\ TimeFields(date) /\ SecondOf(date) = s
            /\ date.year = y - 1900 /\ date.year + 1900 = y /\ date.mon = mon
            /\ CivilDay(y, mon, date.mday) = day
<1>. DEFINE date == Date(y, mon, day, s)
            start == MonthStart(IsLeapYear(y), mon)
<1>1. y \in Int /\ day \in Int /\ mon \in 0..11
  BY DEF IsDate, InMonth
<1>2. YearStart(y) \in Int /\ start \in Int
  <2>1. IsLeapYear(y) \in BOOLEAN
    BY DEF IsLeapYear
  <2>. QED
    BY <1>1, <2>1, YearStep, MonthsLaid
<1>3. /\ date.year = y - 1900 /\ date.mon = mon /\ date.mday = day - YearStart(y) - start + 1
      /\ date.hour = s \div 3600 /\ date.min = (s \div 60) % 60 /\ date.sec = s % 60
  BY DEF Date
<1>. HIDE DEF date
<1>4. SecondOf(date) = s
  BY <1>3, SecondsOf DEF SecondOf
<1>5. date.mday \in Int /\ date.year \in Int /\ date.year + 1900 = y
  BY <1>1, <1>2, <1>3
<1>6. TimeFields(date)
  BY <1>1, <1>3, <1>4, <1>5 DEF TimeFields, SecondOf
<1>7. YearStart(y) + start + date.mday - 1 = day
  <2>. HIDE DEF start
  <2>. QED
    BY <1>1, <1>2, <1>3
<1>. QED
  BY <1>3, <1>4, <1>5, <1>6, <1>7 DEF CivilDay, date

\* gmtime64_r is the calendar, passes check_tm, and timegm64 undoes it.
LEMMA GmtimeIsTrue ==
  ASSUME NEW t, IsTime(t)
  PROVE  gmtime64_r(t) = Civil(t) /\ check_tm(gmtime64_r(t)) /\ timegm64(gmtime64_r(t)) = t
<1>1. PICK y, mon : IsDate(y, mon, FloorDay(t))
  <2>1. FloorDay(t) \in Int
    BY TimeFacts
  <2>. QED
    BY <2>1, DateHas
<1>2. FloorSec(t) \in Nat /\ IsSecond(FloorSec(t)) /\ t = TimeOf(FloorDay(t), FloorSec(t))
  BY TimeFacts
<1>. DEFINE date == Date(y, mon, FloorDay(t), FloorSec(t))
<1>3. gmtime64_r(t) = date /\ Civil(t) = date
  BY <1>1, GmtimeIs, CivilIs
<1>4. check_tm(date)
  BY <1>1, <1>2, DateChecks
<1>5. /\ TimeFields(date) /\ SecondOf(date) = FloorSec(t)
      /\ CivilDay(date.year + 1900, date.mon, date.mday) = FloorDay(t)
  BY <1>1, <1>2, DayOfDate
<1>. HIDE DEF date
<1>6. timegm64(date) = t
  BY <1>2, <1>5, TimegmIs
<1>. QED
  BY <1>3, <1>4, <1>6

\* The years of the tables of safe years, and what they are told from.
LEMMA SafeYearPicks ==
  ASSUME NEW y \in Int, y \notin 1971..2037
  PROVE  /\ safe_year(y) \in 1971..2037
         /\ \E j \in Int :
              safe_year(y) = y + 16 * ((y - 1) \div 100 - (y - 1) \div 400 - 15)
                             + (IF y % 100 = 0 /\ y % 400 # 0 THEN 11 ELSE 0)
                             + (IF (y - 1) % 100 = 0 /\ (y - 1) % 400 # 0 THEN 17 ELSE 0)
                             + 28 * j
<1>. DEFINE K == (y - 1) \div 100 - (y - 1) \div 400 - 15
            e0 == IF y % 100 = 0 /\ y % 400 # 0 THEN 11 ELSE 0
            e1 == IF (y - 1) % 100 = 0 /\ (y - 1) % 400 # 0 THEN 17 ELSE 0
            low == y < MIN_SAFE_YEAR
            u == y + cycle_offset(y) - (IF low THEN 8 ELSE 0)
                 + (IF is_exception_century(y) THEN 11 ELSE 0)
                 + (IF is_exception_century(y - 1) THEN 17 ELSE 0)
            n == u % 28
<1>1. cycle_offset(y) = 16 * K
  <2>1. CASE y > 2000
    <3>1. CDiv(y - 2001, 100) = (y - 1) \div 100 - 20 /\ CDiv(y - 2001, 400) = (y - 1) \div 400 - 5
      BY <2>1 DEF CDiv
    <3>. QED
      BY <2>1, <3>1 DEF cycle_offset
  <2>2. CASE ~(y > 2000)
    <3>1. CDiv(y - 2000, 100) = (y - 1) \div 100 - 19 /\ CDiv(y - 2000, 400) = (y - 1) \div 400 - 4
      BY <2>2 DEF CDiv
    <3>. QED
      BY <2>2, <3>1 DEF cycle_offset
  <2>. QED
    BY <2>1, <2>2
<1>2. \A z \in Int : is_exception_century(z) <=> z % 100 = 0 /\ z % 400 # 0
  BY DEF is_exception_century, CMod, CDiv
<1>3. /\ is_exception_century(y) <=> y % 100 = 0 /\ y % 400 # 0
      /\ is_exception_century(y - 1) <=> (y - 1) % 100 = 0 /\ (y - 1) % 400 # 0
  BY <1>2
<1>4. K \in Int /\ e0 \in {0, 11} /\ e1 \in {0, 17}
  OBVIOUS
<1>5. u = y + 16 * K - (IF low THEN 8 ELSE 0) + e0 + e1
  BY <1>1, <1>3
<1>. HIDE DEF K, e0, e1
<1>6. u \in Int
  BY <1>4, <1>5
<1>7. safe_year(y) = IF low THEN safe_years_low(n) ELSE safe_years_high(n)
  BY DEF safe_year, MIN_SAFE_YEAR, MAX_SAFE_YEAR
<1>. HIDE DEF u
<1>8. n \in 0..27 /\ u = 28 * (u \div 28) + n /\ u \div 28 \in Int
  BY <1>6
<1>. HIDE DEF n
<1>9. PICK v \in Int : v = u \div 28
  BY <1>8
<1>. DEFINE Picked == /\ safe_year(y) \in 1971..2037
                      /\ \E j \in Int : safe_year(y) = y + 16 * K + e0 + e1 + 28 * j
<1>10. ASSUME low PROVE Picked
  <2>1. safe_year(y) = IF n < 3 THEN 1996 + n ELSE 1968 + n
    BY <1>7, <1>10 DEF safe_years_low
  <2>2. u = y + 16 * K - 8 + e0 + e1
    BY <1>5, <1>10
  <2>3. CASE n < 3
    <3>1. safe_year(y) = 1996 + n
      BY <2>1, <2>3
    <3>2. PICK j \in Int : j = 71 - v
      BY <1>9
    <3>3. 1996 + n = y + 16 * K + e0 + e1 + 28 * j
      BY <1>4, <1>8, <1>9, <2>2, <3>2
    <3>4. safe_year(y) \in 1971..2037
      BY <1>8, <2>3, <3>1
    <3>. QED
      BY <3>1, <3>3, <3>4
  <2>4. CASE ~(n < 3)
    <3>1. safe_year(y) = 1968 + n
      BY <2>1, <2>4
    <3>2. PICK j \in Int : j = 70 - v
      BY <1>9
    <3>3. 1968 + n = y + 16 * K + e0 + e1 + 28 * j
      BY <1>4, <1>8, <1>9, <2>2, <3>2
    <3>4. safe_year(y) \in 1971..2037
      BY <1>8, <2>4, <3>1
    <3>. QED
      BY <3>1, <3>3, <3>4
  <2>. QED
    BY <2>3, <2>4
<1>11. ASSUME ~low PROVE Picked
  <2>1. safe_year(y) = IF n < 22 THEN 2016 + n ELSE 1988 + n
    BY <1>7, <1>11 DEF safe_years_high
  <2>2. u = y + 16 * K + e0 + e1
    BY <1>4, <1>5, <1>11
  <2>3. CASE n < 22
    <3>1. safe_year(y) = 2016 + n
      BY <2>1, <2>3
    <3>2. PICK j \in Int : j = 72 - v
      BY <1>9
    <3>3. 2016 + n = y + 16 * K + e0 + e1 + 28 * j
      BY <1>4, <1>8, <1>9, <2>2, <3>2
    <3>4. safe_year(y) \in 1971..2037
      BY <1>8, <2>3, <3>1
    <3>. QED
      BY <3>1, <3>3, <3>4
  <2>4. CASE ~(n < 22)
    <3>1. safe_year(y) = 1988 + n
      BY <2>1, <2>4
    <3>2. PICK j \in Int : j = 71 - v
      BY <1>9
    <3>3. 1988 + n = y + 16 * K + e0 + e1 + 28 * j
      BY <1>4, <1>8, <1>9, <2>2, <3>2
    <3>4. safe_year(y) \in 1971..2037
      BY <1>8, <2>4, <3>1
    <3>. QED
      BY <3>1, <3>3, <3>4
  <2>. QED
    BY <2>3, <2>4
<1>12. Picked
  BY <1>10, <1>11
<1>. QED
  BY <1>12 DEF K, e0, e1

\* A safe year starts on the weekday of the year it stands for; it and the year
\* before it leap as theirs do.
LEMMA SafeYearIs ==
  ASSUME NEW y \in Int
  PROVE  LET s == safe_year(y)
         IN /\ s \in 1971..2037
            /\ IsLeapYear(s) = IsLeapYear(y)
            /\ IsLeapYear(s - 1) = IsLeapYear(y - 1)
            /\ \E k \in Int : YearStart(s) = YearStart(y) + 7 * k
<1>1. CASE y \in 1971..2037
  <2>1. safe_year(y) = y
    BY <1>1 DEF safe_year, MIN_SAFE_YEAR, MAX_SAFE_YEAR
  <2>2. YearStart(y) = YearStart(y) + 7 * 0
    BY YearStep
  <2>. QED
    BY <1>1, <2>1, <2>2
<1>2. CASE y \notin 1971..2037
  <2>. DEFINE p == y - 1
              K == p \div 100 - p \div 400 - 15
              e0 == y % 100 = 0 /\ y % 400 # 0
              e1 == p % 100 = 0 /\ p % 400 # 0
              s == safe_year(y)
  <2>1. /\ s \in 1971..2037
        /\ \E j \in Int : s = y + 16 * K + (IF e0 THEN 11 ELSE 0) + (IF e1 THEN 17 ELSE 0) + 28 * j
    BY <1>2, SafeYearPicks
  <2>. HIDE DEF s
  <2>2. PICK j \in Int :
          s = y + 16 * K + (IF e0 THEN 11 ELSE 0) + (IF e1 THEN 17 ELSE 0) + 28 * j
    BY <2>1
  <2>3. p \in Int /\ K \in Int /\ p \div 100 - p \div 400 = K + 15 /\ y = p + 1
    OBVIOUS
  <2>4. YearStart(y) = 365 * p + p \div 4 - K - 15 - 719162
    BY <2>3 DEF YearStart
  <2>5. YearStart(s) = 365 * (s - 1) + (s - 1) \div 4 - 15 - 719162
    <3>1. (s - 1) \div 100 - (s - 1) \div 400 = 15
      BY <2>1
    <3>. QED
      BY <2>1, <3>1 DEF YearStart
  <2>6. /\ IsLeapYear(s) <=> s % 4 = 0
        /\ IsLeapYear(s - 1) <=> (s - 1) % 4 = 0
    BY <2>1 DEF IsLeapYear
  <2>7. /\ IsLeapYear(y) <=> y % 4 = 0 /\ ~e0
        /\ IsLeapYear(p) <=> p % 4 = 0 /\ ~e1
    BY DEF IsLeapYear
  <2>8. (e0 => y % 4 = 0) /\ (e1 => p % 4 = 0) /\ ~(e0 /\ e1)
    OBVIOUS
  <2>9. s - 1 = p + 16 * K + (IF e0 THEN 11 ELSE 0) + (IF e1 THEN 17 ELSE 0) + 28 * j
    BY <2>2, <2>3
  <2>. HIDE DEF p, K, e0, e1
  <2>10. CASE e0
    <3>1. s - 1 = p + 16 * K + 11 + 28 * j /\ y % 4 = 0
      BY <2>3, <2>8, <2>9, <2>10
    <3>2. p % 4 = 3
      BY <2>3, <3>1
    <3>3. (s - 1) \div 4 = p \div 4 + 4 * K + 3 + 7 * j
      BY <2>3, <3>1, <3>2
    <3>4. YearStart(s) = YearStart(y) + 7 * (835 * K + 574 + 1461 * j)
      BY <2>3, <2>4, <2>5, <3>1, <3>3
    <3>5. (s - 1) % 4 = 2 /\ s % 4 = 3
      BY <2>1, <2>3, <3>1, <3>2
    <3>6. ~IsLeapYear(s) /\ ~IsLeapYear(s - 1) /\ ~IsLeapYear(y) /\ ~IsLeapYear(p)
      BY <2>6, <2>7, <2>10, <3>2, <3>5
    <3>7. 835 * K + 574 + 1461 * j \in Int
      BY <2>3
    <3>. QED
      BY <2>1, <3>4, <3>6, <3>7 DEF p, s, IsLeapYear
  <2>11. CASE e1
    <3>1. s - 1 = p + 16 * K + 17 + 28 * j /\ p % 4 = 0
      BY <2>3, <2>8, <2>9, <2>11
    <3>2. y % 4 = 1
      BY <2>3, <3>1
    <3>3. (s - 1) \div 4 = p \div 4 + 4 * K + 4 + 7 * j
      BY <2>3, <3>1
    <3>4. YearStart(s) = YearStart(y) + 7 * (835 * K + 887 + 1461 * j)
      BY <2>3, <2>4, <2>5, <3>1, <3>3
    <3>5. (s - 1) % 4 = 1 /\ s % 4 = 2
      BY <2>1, <2>3, <3>1
    <3>6. ~IsLeapYear(s) /\ ~IsLeapYear(s - 1) /\ ~IsLeapYear(y) /\ ~IsLeapYear(p)
      BY <2>6, <2>7, <2>11, <3>2, <3>5
    <3>7. 835 * K + 887 + 1461 * j \in Int
      BY <2>3
    <3>. QED
      BY <2>1, <3>4, <3>6, <3>7 DEF p, s, IsLeapYear
  <2>12. CASE ~e0 /\ ~e1
    <3>1. s - 1 = p + 16 * K + 28 * j
      BY <2>3, <2>9, <2>12
    <3>2. (s - 1) \div 4 = p \div 4 + 4 * K + 7 * j
      BY <2>3, <3>1
    <3>3. YearStart(s) = YearStart(y) + 7 * (835 * K + 1461 * j)
      BY <2>3, <2>4, <2>5, <3>1, <3>2
    <3>4. (s - 1) % 4 = p % 4 /\ s % 4 = y % 4
      BY <2>1, <2>3, <3>1
    <3>5. (IsLeapYear(s) <=> IsLeapYear(y)) /\ (IsLeapYear(s - 1) <=> IsLeapYear(p))
      BY <2>6, <2>7, <2>12, <3>4
    <3>6. 835 * K + 1461 * j \in Int
      BY <2>3
    <3>7. IsLeapYear(s) = IsLeapYear(y) /\ IsLeapYear(s - 1) = IsLeapYear(p)
      BY <3>5 DEF IsLeapYear
    <3>. QED
      BY <2>1, <3>3, <3>6, <3>7 DEF p, s
  <2>. QED
    BY <2>10, <2>11, <2>12
<1>. QED
  BY <1>1, <1>2

\* The years around a safe year start on the weekdays of those around its year.
LEMMA SafeYearIsTrue ==
  ASSUME NEW y \in Int
  PROVE  LET s == safe_year(y)
         IN /\ s \in MIN_SAFE_YEAR..MAX_SAFE_YEAR
            /\ IsLeapYear(s) = IsLeapYear(y)
            /\ \A d \in -1..1 : FirstWeekday(s + d) = FirstWeekday(y + d)
<1>. DEFINE s == safe_year(y)
<1>1. /\ s \in 1971..2037
      /\ IsLeapYear(s) = IsLeapYear(y)
      /\ IsLeapYear(s - 1) = IsLeapYear(y - 1)
      /\ \E k \in Int : YearStart(s) = YearStart(y) + 7 * k
  BY SafeYearIs
<1>. HIDE DEF s
<1>2. PICK k \in Int : YearStart(s) = YearStart(y) + 7 * k
  BY <1>1
<1>3. \A z \in Int : /\ YearStart(z) \in Int
                     /\ YearStart(z + 1) = YearStart(z) + (IF IsLeapYear(z) THEN 366 ELSE 365)
  BY YearStep
<1>4. \A d \in -1..1 : YearStart(s + d) = YearStart(y + d) + 7 * k
  <2>1. YearStart(s + 1) = YearStart(y + 1) + 7 * k
    BY <1>1, <1>2, <1>3
  <2>2. YearStart(s - 1) = YearStart(y - 1) + 7 * k
    <3>1. (s - 1) + 1 = s /\ (y - 1) + 1 = y /\ s - 1 \in Int /\ y - 1 \in Int
      BY <1>1
    <3>2. /\ YearStart(s) = YearStart(s - 1) + (IF IsLeapYear(s - 1) THEN 366 ELSE 365)
          /\ YearStart(y) = YearStart(y - 1) + (IF IsLeapYear(y - 1) THEN 366 ELSE 365)
          /\ YearStart(s - 1) \in Int /\ YearStart(y - 1) \in Int
      BY <1>3, <3>1
    <3>. QED
      BY <1>1, <1>2, <3>2
  <2>3. s + (-1) = s - 1 /\ y + (-1) = y - 1 /\ s + 0 = s /\ y + 0 = y
    BY <1>1
  <2>. QED
    BY <1>2, <2>1, <2>2, <2>3
<1>5. ASSUME NEW d \in -1..1 PROVE FirstWeekday(s + d) = FirstWeekday(y + d)
  <2>1. YearStart(y + d) \in Int /\ YearStart(s + d) = YearStart(y + d) + 7 * k
    BY <1>3, <1>4
  <2>2. ((YearStart(y + d) + 7 * k) + 4) % 7 = (YearStart(y + d) + 4) % 7
    BY <2>1
  <2>. QED
    BY <2>1, <2>2 DEF FirstWeekday
<1>. QED
  BY <1>1, <1>5 DEF s, MIN_SAFE_YEAR, MAX_SAFE_YEAR

\* The distance of a year from its safe year.  Counting down, the lengths of the
\* wrong years add up to the right sum: the two years at the ends are as long.
LEMMA DaysBetween ==
  ASSUME NEW y \in Int, NEW s \in 1971..2037, y \notin 1971..2037,
         IsLeapYear(y) = IsLeapYear(s)
  PROVE  days_between_years(y, s) = YearStart(y) - YearStart(s)
<1>0. /\ \A z \in Int : YearStart(z) \in Int /\ (z - 1900) + 1900 = z
      /\ days_in_gregorian_cycle = 146097
  BY YearStep, TwoStarts
<1>1. CASE y > 2400
  <2>. DEFINE cycles == CDiv(y - 2400, 400)
              left == y - cycles * 400
  <2>1. cycles \in Int /\ left \in Int /\ left >= 2400 /\ y = left + 400 * cycles
    BY <1>1 DEF CDiv
  <2>2. days_between_years(y, s) =
          cycles * days_in_gregorian_cycle + DaysOfYears(s - 1900, left - 1900)
    BY <1>1 DEF days_between_years
  <2>. HIDE DEF cycles, left
  <2>3. DaysOfYears(s - 1900, left - 1900) = YearStart(left) - YearStart(s)
    <3>1. s - 1900 \in Int /\ left - 1900 \in Int /\ s - 1900 <= left - 1900
      BY <2>1
    <3>2. (s - 1900) + 1900 = s /\ (left - 1900) + 1900 = left
      BY <2>1
    <3>. QED
      BY <3>1, <3>2, YearsAdd
  <2>4. YearStart(y) = YearStart(left) + 146097 * cycles
    BY <2>1, YearCycle
  <2>. QED
    BY <1>0, <2>1, <2>2, <2>3, <2>4
<1>2. CASE y > s /\ ~(y > 2400)
  <2>1. days_between_years(y, s) =
          0 * days_in_gregorian_cycle + DaysOfYears(s - 1900, y - 1900)
    <3>1. ~(y < 1600) /\ y + 0 * 400 = y
      BY <1>2
    <3>. QED
      BY <1>2, <3>1 DEF days_between_years
  <2>2. DaysOfYears(s - 1900, y - 1900) = YearStart(y) - YearStart(s)
    <3>1. s - 1900 \in Int /\ y - 1900 \in Int /\ s - 1900 <= y - 1900
      BY <1>2
    <3>2. (s - 1900) + 1900 = s /\ (y - 1900) + 1900 = y
      OBVIOUS
    <3>. QED
      BY <3>1, <3>2, YearsAdd
  <2>. QED
    BY <1>0, <2>1, <2>2
<1>3. CASE ~(y > s)
  <2>. DEFINE cycles == IF y < 1600 THEN CDiv(y - 1600, 400) ELSE 0
              left == y + cycles * 400
              loop == DaysOfYears(left + 1 - 1900, s + 1 - 1900)
  <2>1. cycles \in Int /\ left \in Int /\ left <= s /\ left = y + 400 * cycles
    BY <1>3 DEF CDiv
  <2>2. days_between_years(y, s) = -(cycles * days_in_gregorian_cycle + loop)
    <3>1. ~(y > 2400)
      BY <1>3
    <3>. QED
      BY <1>3, <3>1 DEF days_between_years
  <2>. HIDE DEF cycles, left
  <2>3. loop = YearStart(s + 1) - YearStart(left + 1)
    <3>1. /\ left + 1 - 1900 \in Int /\ s + 1 - 1900 \in Int
          /\ left + 1 - 1900 <= s + 1 - 1900
          /\ (left + 1 - 1900) + 1900 = left + 1 /\ (s + 1 - 1900) + 1900 = s + 1
      BY <2>1
    <3>. QED
      BY <3>1, YearsAdd
  <2>. HIDE DEF loop
  <2>4. /\ YearStart(left) = YearStart(y) + 146097 * cycles
        /\ IsLeapYear(left) = IsLeapYear(s)
    BY <2>1, YearCycle
  <2>5. /\ YearStart(s + 1) = YearStart(s) + (IF IsLeapYear(s) THEN 366 ELSE 365)
        /\ YearStart(left + 1) = YearStart(left) + (IF IsLeapYear(s) THEN 366 ELSE 365)
    BY <2>1, <2>4, YearStep
  <2>6. loop = YearStart(s) - YearStart(left)
    BY <1>0, <2>1, <2>3, <2>5
  <2>7. YearStart(s) \in Int /\ YearStart(y) \in Int /\ YearStart(left) \in Int
    BY <1>0, <2>1
  <2>. QED
    BY <1>0, <2>1, <2>2, <2>4, <2>6, <2>7
<1>. QED
  BY <1>1, <1>2, <1>3

\* The local time of a zone, which is at most one day away: how many days that
\* are, and the second of the day.
IsZone(z) == z \in Int /\ -86400 <= z /\ z <= 86400
ShiftDays(s, z) == CarryDays(s + 86400 + z) - 1
ShiftSecs(s, z) == CarrySecs(s + 86400 + z)

\* The day and the second that a time has in a zone.
LEMMA ShiftParts ==
  ASSUME NEW d \in Int, NEW s \in Nat, IsSecond(s), NEW z, IsZone(z)
  PROVE  /\ ShiftDays(s, z) \in -1..1
         /\ ShiftSecs(s, z) \in Nat /\ IsSecond(ShiftSecs(s, z))
         /\ Shift(TimeOf(d, s), z) = TimeOf(d + ShiftDays(s, z), ShiftSecs(s, z))
         /\ FloorDay(Shift(TimeOf(d, s), z)) = d + ShiftDays(s, z)
         /\ FloorSec(Shift(TimeOf(d, s), z)) = ShiftSecs(s, z)
         /\ IsTime(Shift(TimeOf(d, s), z))
<1>. DEFINE n == s + 86400 + z
            t == TimeOf(d, s)
            u == d - 1
            q == CarryDays(n)
            r == CarrySecs(n)
<1>1. n \in Nat /\ u \in Int /\ q \in 0..2
  BY SMT DEF IsZone, IsSecond, CarryDays
<1>2. FloorDay(t) = d /\ FloorSec(t) = s
  <2>1. d + 0 = d
    OBVIOUS
  <2>. QED
    BY <2>1, TimeParts, CarryNone
<1>. HIDE DEF t
<1>3. Shift(t, z) = TimeOf(u, n)
  BY <1>2 DEF Shift
<1>4. ShiftDays(s, z) = q - 1 /\ ShiftSecs(s, z) = r
  BY DEF ShiftDays, ShiftSecs
<1>. HIDE DEF n
<1>5. /\ FloorDay(TimeOf(u, n)) = u + q /\ FloorSec(TimeOf(u, n)) = r
      /\ TimeOf(u, n) = TimeOf(u + q, r) /\ IsTime(TimeOf(u, n))
      /\ r \in Nat /\ IsSecond(r)
  BY <1>1, TimeParts
<1>. HIDE DEF q, r
<1>6. u + q = d + ShiftDays(s, z) /\ ShiftDays(s, z) \in -1..1
  BY <1>1, <1>4
<1>. HIDE DEF u
<1>. QED
  BY <1>3, <1>4, <1>5, <1>6 DEF t

\* A shift and the shift back.
LEMMA ShiftBack ==
  ASSUME NEW d \in Int, NEW s \in Nat, IsSecond(s), NEW z, IsZone(z)
  PROVE  /\ IsZone(-z)
         /\ ShiftDays(ShiftSecs(s, z), -z) = -ShiftDays(s, z)
         /\ ShiftSecs(ShiftSecs(s, z), -z) = s
         /\ Shift(Shift(TimeOf(d, s), z), -z) = TimeOf(d, s)
<1>. DEFINE n == s + 86400 + z
            q == CarryDays(n)
            r == CarrySecs(n)
            m == r + 86400 + (-z)
<1>1. n \in Nat /\ n < 259200 /\ z \in Int
  BY SMT DEF IsZone, IsSecond
<1>2. q \in 0..2 /\ r \in Nat /\ r < 86400 /\ n = 86400 * q + r
  BY <1>1, SMT DEF CarryDays, CarrySecs
<1>3. IsZone(-z)
  BY DEF IsZone
<1>4. ShiftSecs(s, z) = r /\ ShiftDays(s, z) = q - 1
  BY DEF ShiftSecs, ShiftDays
<1>5. ShiftSecs(r, -z) = CarrySecs(m) /\ ShiftDays(r, -z) = CarryDays(m) - 1
  BY DEF ShiftSecs, ShiftDays
<1>6. n = s + 86400 + z
  OBVIOUS
<1>. HIDE DEF n, q, r
<1>7. m = 86400 * (2 - q) + s
  BY <1>1, <1>2, <1>6, SMT
<1>8. CarryDays(m) = 2 - q /\ CarrySecs(m) = s
  BY <1>2, <1>7, SMT DEF IsSecond, CarryDays, CarrySecs
<1>. HIDE DEF m
<1>9. ShiftDays(r, -z) = -(q - 1) /\ ShiftSecs(r, -z) = s
  BY <1>2, <1>5, <1>8
<1>10. Shift(Shift(TimeOf(d, s), z), -z) = TimeOf(d, s)
  <2>1. /\ Shift(TimeOf(d, s), z) = TimeOf(d + ShiftDays(s, z), ShiftSecs(s, z))
        /\ ShiftDays(s, z) \in -1..1 /\ ShiftSecs(s, z) \in Nat /\ IsSecond(ShiftSecs(s, z))
    BY ShiftParts
  <2>2. d + ShiftDays(s, z) \in Int /\ (d + ShiftDays(s, z)) + -ShiftDays(s, z) = d
    BY <2>1
  <2>3. Shift(TimeOf(d + ShiftDays(s, z), ShiftSecs(s, z)), -z)
          = TimeOf((d + ShiftDays(s, z)) + ShiftDays(ShiftSecs(s, z), -z),
                   ShiftSecs(ShiftSecs(s, z), -z))
    BY <1>3, <2>1, <2>2, ShiftParts
  <2>. QED
    BY <1>4, <1>9, <2>1, <2>2, <2>3
<1>. QED
  BY <1>3, <1>4, <1>9, <1>10

\* mktime64 finds the time of a local date, by way of the safe year if libc cannot
\* convert the year itself.
LEMMA MktimeIsTrue ==
  ASSUME NEW t, IsTime(t), NEW z, IsZone(z)
  PROVE  mktime64(Civil(Shift(t, z)), z) = t
<1>1. PICK d \in Int, s \in Nat : IsSecond(s) /\ t = TimeOf(d, s)
  BY DEF IsTime
<1>. DEFINE e == ShiftDays(s, z)
            r == ShiftSecs(s, z)
            day == d + e
<1>2. /\ e \in -1..1 /\ r \in Nat /\ IsSecond(r)
      /\ Shift(t, z) = TimeOf(day, r) /\ FloorDay(Shift(t, z)) = day /\ FloorSec(Shift(t, z)) = r
  BY <1>1, ShiftParts
<1>3. /\ IsZone(-z) /\ ShiftDays(r, -z) = -e /\ ShiftSecs(r, -z) = s
      /\ Shift(TimeOf(day, r), -z) = t
  BY <1>1, <1>2, ShiftBack
<1>. HIDE DEF e, r
<1>4. day \in Int
  BY <1>2
<1>. HIDE DEF day
<1>5. PICK y, mon : IsDate(y, mon, day)
  BY <1>4, DateHas
<1>. DEFINE date == Date(y, mon, day, r)
            safe == safe_year(y)
            other == [date EXCEPT !.year = safe - 1900]
            w == CivilDay(safe, mon, date.mday)
<1>6. Civil(Shift(t, z)) = date
  BY <1>2, <1>5, CivilIs
<1>7. /\ TimeFields(date) /\ SecondOf(date) = r
      /\ date.year + 1900 = y /\ date.mon = mon /\ CivilDay(y, mon, date.mday) = day
  BY <1>2, <1>5, DayOfDate
<1>8. /\ other.year = safe - 1900 /\ other.mon = date.mon /\ other.mday = date.mday
      /\ other.hour = date.hour /\ other.min = date.min /\ other.sec = date.sec
  BY DEF Date
<1>9. date.mday \in Int /\ mon \in 0..11 /\ y \in Int
  BY <1>5, <1>7 DEF TimeFields, IsDate, InMonth
<1>. HIDE DEF date, other
<1>10. mktime(date, z) = t
  BY <1>3, <1>7 DEF mktime, SecondOf
<1>11. CASE y \in 1971..2037
  BY <1>6, <1>7, <1>10, <1>11 DEF mktime64, MIN_SAFE_YEAR, MAX_SAFE_YEAR
<1>12. CASE y \notin 1971..2037
  <2>1. safe \in 1971..2037 /\ IsLeapYear(safe) = IsLeapYear(y)
    BY <1>9, SafeYearIs
  <2>. HIDE DEF safe
  <2>2. days_between_years(y, safe) = YearStart(y) - YearStart(safe)
    BY <1>9, <1>12, <2>1, DaysBetween
  <2>3. YearStart(y) \in Int /\ YearStart(safe) \in Int /\ MonthStart(IsLeapYear(y), mon) \in Int
    <3>1. IsLeapYear(y) \in BOOLEAN
      BY DEF IsLeapYear
    <3>. QED
      BY <1>9, <2>1, <3>1, YearStep, MonthsLaid
  <2>4. w \in Int /\ w + (YearStart(y) - YearStart(safe)) = day
    <3>. DEFINE start == MonthStart(IsLeapYear(y), mon)
    <3>1. w = YearStart(safe) + start + date.mday - 1 /\ day = YearStart(y) + start + date.mday - 1
      BY <1>7, <2>1 DEF CivilDay
    <3>. HIDE DEF start, w
    <3>2. start \in Int
      BY <2>3 DEF start
    <3>. QED
      BY <1>9, <2>3, <3>1, <3>2
  <2>. HIDE DEF w
  <2>5. mktime(other, z) = Shift(TimeOf(w, r), -z)
    <3>1. (safe - 1900) + 1900 = safe
      BY <2>1
    <3>. QED
      BY <1>7, <1>8, <3>1 DEF mktime, SecondOf, w
  <2>6. FloorDay(mktime(other, z)) = w + -e /\ FloorSec(mktime(other, z)) = s
    BY <1>2, <1>3, <2>4, <2>5, ShiftParts
  <2>7. mktime64(date, z) = TimeOf(FloorDay(mktime(other, z)) + days_between_years(y, safe),
                                   FloorSec(mktime(other, z)))
    BY <1>7, <1>12 DEF mktime64, MIN_SAFE_YEAR, MAX_SAFE_YEAR, other, safe
  <2>8. (w + -e) + (YearStart(y) - YearStart(safe)) = d
    BY <1>1, <1>2, <2>3, <2>4 DEF day
  <2>. QED
    BY <1>1, <1>6, <2>2, <2>6, <2>7, <2>8
<1>. QED
  BY <1>11, <1>12

\* The dates of two days that follow each other: in one year, or across its turn.
Beside(y, mon, y2, mon2, day2) ==
  \/ y2 = y /\ mon2 - mon # 11 /\ mon2 - mon # -11
  \/ y2 = y - 1 /\ mon2 = 11 /\ mon = 0
  \/ y2 = y + 1 /\ mon2 = 0 /\ mon = 11 /\ day2 = YearStart(y2)

\* No two days that follow each other are further apart.
LEMMA DatesBeside ==
  ASSUME NEW y, NEW mon, NEW day, IsDate(y, mon, day), NEW e \in -1..1,
         NEW y2, NEW mon2, IsDate(y2, mon2, day + e)
  PROVE  Beside(y, mon, y2, mon2, day + e)
<1>. DEFINE leap == IsLeapYear(y)
            leap2 == IsLeapYear(y2)
            a == YearStart(y)
            b == YearStart(y2)
<1>1. /\ y \in Int /\ day \in Int /\ a \in Int /\ a <= day /\ day < a + YearLength(leap)
      /\ YearStart(y + 1) = a + YearLength(leap) /\ InMonth(leap, mon, day - a)
  BY YearStep DEF IsDate, YearLength
<1>2. /\ y2 \in Int /\ b \in Int /\ b <= day + e /\ day + e < b + YearLength(leap2)
      /\ YearStart(y2 + 1) = b + YearLength(leap2) /\ InMonth(leap2, mon2, (day + e) - b)
  BY YearStep DEF IsDate, YearLength
<1>3. leap \in BOOLEAN /\ leap2 \in BOOLEAN
  BY DEF IsLeapYear
<1>4. /\ y2 < y => b + YearLength(leap2) <= a
      /\ y < y2 => a + YearLength(leap) <= b
  <2>1. y2 < y => YearStart(y2 + 1) <= YearStart(y)
    BY <1>1, <1>2, YearsInOrder
  <2>2. y < y2 => YearStart(y + 1) <= YearStart(y2)
    BY <1>1, <1>2, YearsInOrder
  <2>. QED
    BY <1>1, <1>2, <2>1, <2>2
<1>5. /\ y2 = y => b = a /\ leap2 = leap
      /\ YearStart(y) = a /\ YearStart(y2) = b
  OBVIOUS
<1>6. \A l \in BOOLEAN :
        /\ InMonth(l, 0, 0) /\ InMonth(l, 11, YearLength(l) - 1) /\ YearLength(l) \in {365, 366}
        /\ \A yday \in Int : /\ InMonth(l, 0, yday) => yday < 31
                             /\ InMonth(l, 11, yday) => yday >= 334
        /\ \A m, yday : InMonth(l, m, yday) => m \in 0..11
  <2>. SUFFICES ASSUME NEW l \in BOOLEAN
                PROVE  /\ InMonth(l, 0, 0) /\ InMonth(l, 11, YearLength(l) - 1)
                       /\ YearLength(l) \in {365, 366}
                       /\ \A yday \in Int : /\ InMonth(l, 0, yday) => yday < 31
                                            /\ InMonth(l, 11, yday) => yday >= 334
                       /\ \A m, yday : InMonth(l, m, yday) => m \in 0..11
    OBVIOUS
  <2>1. /\ MonthStart(l, 0) = 0 /\ days_in_month(l)[1] = 31 /\ days_in_month(l)[12] = 31
        /\ MonthStart(l, 11) \in Int /\ MonthStart(l, 11) + 31 = YearLength(l)
        /\ YearLength(l) \in {365, 366}
    BY MonthsLaid DEF YearLength
  <2>2. 0 + 1 = 1 /\ 11 + 1 = 12 /\ 0 \in 0..11 /\ 11 \in 0..11
    OBVIOUS
  <2>3. YearLength(l) - 1 = MonthStart(l, 11) + 30 /\ MonthStart(l, 11) >= 334
    BY <2>1
  <2>. QED
    BY <2>1, <2>2, <2>3 DEF InMonth
<1>. HIDE DEF leap, leap2, a, b
<1>7. CASE y2 = y
  <2>1. (day + e) - b = (day - a) + e /\ day - a \in Int /\ (day + e) - b \in Int
    BY <1>1, <1>5, <1>7
  <2>2. mon \in 0..11 /\ mon2 \in 0..11
    BY <1>1, <1>2, <1>3, <1>6
  <2>3. ~(mon2 = 11 /\ mon = 0)
    <3>. SUFFICES ASSUME mon2 = 11, mon = 0 PROVE FALSE
      OBVIOUS
    <3>1. day - a < 31 /\ (day + e) - b >= 334
      BY <1>1, <1>2, <1>3, <1>6, <2>1
    <3>. QED
      BY <1>1, <2>1, <3>1
  <2>4. ~(mon2 = 0 /\ mon = 11)
    <3>. SUFFICES ASSUME mon2 = 0, mon = 11 PROVE FALSE
      OBVIOUS
    <3>1. (day + e) - b < 31 /\ day - a >= 334
      BY <1>1, <1>2, <1>3, <1>6, <2>1
    <3>. QED
      BY <1>1, <2>1, <3>1
  <2>. QED
    BY <1>7, <2>2, <2>3, <2>4 DEF Beside
<1>8. CASE y2 < y
  <2>1. /\ day = a /\ day + e = day - 1 /\ b + YearLength(leap2) = a
        /\ (day + e) - b = YearLength(leap2) - 1 /\ day - a = 0
    <3>. YearLength(leap2) \in Int
      BY <1>3, <1>6
    <3>. QED
      BY <1>1, <1>2, <1>4, <1>8
  <2>2. mon = 0 /\ mon2 = 11
    <3>. YearLength(leap2) - 1 \in Int
      BY <1>3, <1>6
    <3>. QED
      BY <1>1, <1>2, <1>3, <1>6, <2>1, OneMonth
  <2>3. y2 + 1 = y
    <3>1. YearStart(y2 + 1) = a
      BY <1>2, <2>1
    <3>2. YearStart((y2 + 1) + 1) > a
      BY <1>2, <3>1, YearStep
    <3>3. ~(y2 + 1 < y)
      <4>. SUFFICES ASSUME y2 + 1 < y PROVE FALSE
        OBVIOUS
      <4>1. YearStart((y2 + 1) + 1) <= YearStart(y) /\ YearStart((y2 + 1) + 1) \in Int
        BY <1>1, <1>2, YearsInOrder, YearStep
      <4>. QED
        BY <1>1, <1>5, <3>2, <4>1
    <3>. QED
      BY <1>1, <1>2, <1>8, <3>3
  <2>. QED
    BY <1>1, <1>2, <2>2, <2>3 DEF Beside
<1>9. CASE y < y2
  <2>1. /\ day + e = b /\ a + YearLength(leap) = b
        /\ day - a = YearLength(leap) - 1 /\ (day + e) - b = 0
    <3>. YearLength(leap) \in Int
      BY <1>3, <1>6
    <3>. QED
      BY <1>1, <1>2, <1>4, <1>9
  <2>2. mon = 11 /\ mon2 = 0
    <3>. YearLength(leap) - 1 \in Int
      BY <1>3, <1>6
    <3>. QED
      BY <1>1, <1>2, <1>3, <1>6, <2>1, OneMonth
  <2>3. y + 1 = y2
    <3>1. YearStart(y + 1) = b
      BY <1>1, <2>1
    <3>2. YearStart((y + 1) + 1) > b
      BY <1>1, <1>2, <3>1, YearStep
    <3>3. ~(y + 1 < y2)
      <4>. SUFFICES ASSUME y + 1 < y2 PROVE FALSE
        OBVIOUS
      <4>1. YearStart((y + 1) + 1) <= YearStart(y2) /\ YearStart((y + 1) + 1) \in Int
        BY <1>1, <1>2, YearsInOrder, YearStep
      <4>. QED
        BY <1>2, <1>5, <3>2, <4>1
    <3>. QED
      BY <1>1, <1>2, <1>9, <3>3
  <2>. QED
    BY <1>5, <2>1, <2>2, <2>3 DEF Beside
<1>. QED
  BY <1>1, <1>2, <1>7, <1>8, <1>9 DEF Beside

\* What localtime64_r asks libc about instead of a year out of its reach: a date
\* of a year that has the same calendar, a whole number of weeks away.
LEMMA SafeDateIs ==
  ASSUME NEW y, NEW mon, NEW day, IsDate(y, mon, day), NEW s \in Nat, IsSecond(s)
  PROVE  \E v \in Int, k \in Int :
           /\ IsDate(v, mon, day + 7 * k)
           /\ YearStart(v) = YearStart(y) + 7 * k
           /\ IsLeapYear(v) = IsLeapYear(y) /\ IsLeapYear(v - 1) = IsLeapYear(y - 1)
           /\ SafeDate(Date(y, mon, day, s)).mon = mon
           /\ timegm64(SafeDate(Date(y, mon, day, s))) = TimeOf(day + 7 * k, s)
<1>. DEFINE date == Date(y, mon, day, s)
            safe == SafeDate(date)
            start == MonthStart(IsLeapYear(y), mon)
            Picked(v, k) ==
              /\ IsDate(v, mon, day + 7 * k)
              /\ YearStart(v) = YearStart(y) + 7 * k
              /\ IsLeapYear(v) = IsLeapYear(y) /\ IsLeapYear(v - 1) = IsLeapYear(y - 1)
              /\ safe.mon = mon
              /\ timegm64(safe) = TimeOf(day + 7 * k, s)
<1>1. /\ TimeFields(date) /\ SecondOf(date) = s /\ date.year = y - 1900
      /\ date.year + 1900 = y /\ date.mon = mon /\ CivilDay(y, mon, date.mday) = day
  BY DayOfDate
<1>2. /\ y \in Int /\ day \in Int /\ mon \in 0..11 /\ YearStart(y) \in Int
      /\ start \in Int /\ date.mday \in Int
  <2>1. IsLeapYear(y) \in BOOLEAN
    BY DEF IsLeapYear
  <2>. QED
    BY <1>1, <2>1, YearStep, MonthsLaid DEF IsDate, InMonth, TimeFields
<1>3. ASSUME safe = date PROVE \E v \in Int, k \in Int : Picked(v, k)
  <2>1. timegm64(date) = TimeOf(day, s)
    BY <1>1, TimegmIs
  <2>. HIDE DEF date, safe
  <2>2. day + 7 * 0 = day /\ YearStart(y) = YearStart(y) + 7 * 0 /\ 0 \in Int
    BY <1>2
  <2>3. IsDate(y, mon, day + 7 * 0) /\ TimeOf(day + 7 * 0, s) = TimeOf(day, s)
    BY <2>2
  <2>4. Picked(y, 0)
    BY <1>1, <1>3, <2>1, <2>2, <2>3
  <2>. HIDE DEF Picked
  <2>. QED
    BY <1>2, <2>4
<1>4. ASSUME safe # date PROVE \E v \in Int, k \in Int : Picked(v, k)
  <2>. DEFINE v == safe_year(y)
  <2>1. safe = [date EXCEPT !.year = v - 1900]
    <3>1. safe = IF date.year > 2037 - 1900 \/ date.year < 1970 - 1900
                 THEN [date EXCEPT !.year = safe_year(date.year + 1900) - 1900] ELSE date
      BY DEF SafeDate
    <3>. HIDE DEF date, safe
    <3>. QED
      BY <1>1, <1>4, <3>1
  <2>2. /\ v \in 1971..2037 /\ IsLeapYear(v) = IsLeapYear(y) /\ IsLeapYear(v - 1) = IsLeapYear(y - 1)
        /\ \E k \in Int : YearStart(v) = YearStart(y) + 7 * k
    BY <1>2, SafeYearIs
  <2>3. /\ safe.year = v - 1900 /\ safe.mon = mon /\ safe.mday = date.mday
        /\ safe.hour = date.hour /\ safe.min = date.min /\ safe.sec = date.sec
    BY <2>1 DEF Date
  <2>. HIDE DEF v, safe, date
  <2>9. v \in Int
    BY <2>2
  <2>4. PICK k \in Int : YearStart(v) = YearStart(y) + 7 * k
    BY <2>2
  <2>5. YearStart(v + 1) = YearStart(y + 1) + 7 * k
    <3>1. /\ YearStart(v + 1) = YearStart(v) + (IF IsLeapYear(v) THEN 366 ELSE 365)
          /\ YearStart(y + 1) = YearStart(y) + (IF IsLeapYear(y) THEN 366 ELSE 365)
      BY <1>2, <2>9, YearStep
    <3>. QED
      BY <1>2, <2>2, <2>4, <3>1
  <2>6. IsDate(v, mon, day + 7 * k)
    <3>1. (day + 7 * k) - YearStart(v) = day - YearStart(y)
      BY <1>2, <2>4
    <3>2. YearStart(y + 1) \in Int
      BY <1>2, YearStep
    <3>3. YearStart(v) <= day + 7 * k /\ day + 7 * k < YearStart(v + 1)
      BY <1>2, <2>4, <2>5, <3>2 DEF IsDate
    <3>. QED
      BY <1>2, <2>2, <2>9, <3>1, <3>3 DEF IsDate
  <2>7. CivilDay(v, mon, date.mday) = day + 7 * k
    <3>1. /\ CivilDay(v, mon, date.mday) = YearStart(v) + start + date.mday - 1
          /\ day = YearStart(y) + start + date.mday - 1
      BY <1>1, <2>2 DEF CivilDay
    <3>. HIDE DEF start
    <3>2. start \in Int
      BY <1>2 DEF start
    <3>. QED
      BY <1>2, <2>4, <3>1, <3>2
  <2>8. timegm64(safe) = TimeOf(day + 7 * k, s)
    <3>1. (v - 1900) + 1900 = v /\ v - 1900 \in Int
      BY <2>2
    <3>2. TimeFields(safe) /\ SecondOf(safe) = s
      BY <1>1, <1>2, <2>3, <3>1 DEF TimeFields, SecondOf
    <3>. QED
      BY <1>1, <2>3, <2>7, <3>1, <3>2, TimegmIs
  <2>10. Picked(v, k)
    BY <2>2, <2>3, <2>4, <2>6, <2>8
  <2>. HIDE DEF Picked
  <2>. QED
    BY <2>9, <2>10
<1>5. \E v \in Int, k \in Int : Picked(v, k)
  BY <1>3, <1>4
<1>. QED
  BY <1>5

\* A day or less from the same date of two years with the same calendar: the same
\* date again, in the same year or in the year beside it.
LEMMA SameBeside ==
  ASSUME NEW y, NEW mon, NEW day, IsDate(y, mon, day), NEW e \in -1..1,
         NEW y2, NEW mon2, IsDate(y2, mon2, day + e),
         NEW v \in Int, NEW k \in Int, YearStart(v) = YearStart(y) + 7 * k,
         IsLeapYear(v) = IsLeapYear(y), IsLeapYear(v - 1) = IsLeapYear(y - 1)
  PROVE  \E u \in Int :
           /\ IsDate(u, mon2, (day + 7 * k) + e)
           /\ YearStart(u) = YearStart(y2) + 7 * k
           /\ MonthStart(IsLeapYear(u), mon2) = MonthStart(IsLeapYear(y2), mon2)
<1>. DEFINE Goal == \E u \in Int :
                      /\ IsDate(u, mon2, (day + 7 * k) + e)
                      /\ YearStart(u) = YearStart(y2) + 7 * k
                      /\ MonthStart(IsLeapYear(u), mon2) = MonthStart(IsLeapYear(y2), mon2)
<1>1. /\ y \in Int /\ day \in Int /\ y2 \in Int /\ day + e \in Int
      /\ YearStart(y2) <= day + e /\ day + e < YearStart(y2 + 1)
      /\ InMonth(IsLeapYear(y2), mon2, (day + e) - YearStart(y2))
  BY DEF IsDate
<1>2. \A z \in Int : /\ YearStart(z) \in Int
                     /\ YearStart(z + 1) = YearStart(z) + (IF IsLeapYear(z) THEN 366 ELSE 365)
  BY YearStep
<1>3. \/ y2 = y
      \/ y2 = y - 1
      \/ y2 = y + 1 /\ mon2 = 0 /\ day + e = YearStart(y2)
  <2>1. Beside(y, mon, y2, mon2, day + e)
    BY DatesBeside
  <2>. QED
    BY <2>1 DEF Beside
<1>4. ASSUME NEW u \in Int, YearStart(u) = YearStart(y2) + 7 * k,
             IsLeapYear(u) = IsLeapYear(y2)
      PROVE  Goal
  <2>1. YearStart(u + 1) = YearStart(y2 + 1) + 7 * k
    <3>1. /\ YearStart(u + 1) = YearStart(u) + (IF IsLeapYear(u) THEN 366 ELSE 365)
          /\ YearStart(y2 + 1) = YearStart(y2) + (IF IsLeapYear(y2) THEN 366 ELSE 365)
      BY <1>1, <1>2, <1>4
    <3>2. YearStart(y2) \in Int
      BY <1>1, <1>2
    <3>. QED
      BY <1>4, <3>1, <3>2
  <2>2. YearStart(y2) \in Int /\ YearStart(y2 + 1) \in Int
    BY <1>1, <1>2
  <2>3. /\ ((day + 7 * k) + e) - YearStart(u) = (day + e) - YearStart(y2)
        /\ YearStart(u) <= (day + 7 * k) + e /\ (day + 7 * k) + e < YearStart(u + 1)
        /\ (day + 7 * k) + e \in Int
    BY <1>1, <1>4, <2>1, <2>2
  <2>4. IsDate(u, mon2, (day + 7 * k) + e)
    BY <1>1, <1>4, <2>3 DEF IsDate
  <2>. QED
    BY <1>4, <2>4
<1>5. CASE y2 = y
  BY <1>4, <1>5
<1>6. CASE y2 = y - 1
  <2>1. /\ v - 1 \in Int /\ y - 1 \in Int /\ (v - 1) + 1 = v /\ (y - 1) + 1 = y
    BY <1>1
  <2>2. /\ YearStart(v) = YearStart(v - 1) + (IF IsLeapYear(v - 1) THEN 366 ELSE 365)
        /\ YearStart(y) = YearStart(y - 1) + (IF IsLeapYear(y - 1) THEN 366 ELSE 365)
        /\ YearStart(v - 1) \in Int /\ YearStart(y - 1) \in Int
    BY <1>2, <2>1
  <2>3. YearStart(v - 1) = YearStart(y - 1) + 7 * k
    BY <2>2
  <2>. QED
    BY <1>4, <1>6, <2>1, <2>3
<1>7. CASE y2 = y + 1 /\ mon2 = 0 /\ day + e = YearStart(y2)
  <2>. DEFINE u == v + 1
  <2>1. /\ u \in Int /\ YearStart(u) \in Int /\ YearStart(y2) \in Int
        /\ YearStart(u) = YearStart(v) + (IF IsLeapYear(v) THEN 366 ELSE 365)
        /\ YearStart(y2) = YearStart(y) + (IF IsLeapYear(y) THEN 366 ELSE 365)
        /\ YearStart(u + 1) = YearStart(u) + (IF IsLeapYear(u) THEN 366 ELSE 365)
        /\ YearStart(y) \in Int
    BY <1>1, <1>2, <1>7
  <2>2. IsLeapYear(u) \in BOOLEAN /\ IsLeapYear(y2) \in BOOLEAN
    BY DEF IsLeapYear
  <2>3. /\ MonthStart(IsLeapYear(u), 0) = 0 /\ MonthStart(IsLeapYear(y2), 0) = 0
        /\ days_in_month(IsLeapYear(u))[1] = 31
    BY <2>2, MonthsLaid
  <2>. HIDE DEF u
  <2>4. YearStart(u) = YearStart(y2) + 7 * k
    BY <2>1
  <2>5. /\ (day + 7 * k) + e = YearStart(u) /\ (day + 7 * k) + e \in Int
        /\ ((day + 7 * k) + e) - YearStart(u) = 0
    BY <1>1, <1>7, <2>1, <2>4
  <2>6. InMonth(IsLeapYear(u), 0, 0)
    BY <2>3 DEF InMonth
  <2>7. IsDate(u, 0, (day + 7 * k) + e)
    BY <2>1, <2>5, <2>6 DEF IsDate
  <2>. QED
    BY <1>7, <2>1, <2>3, <2>4, <2>7
<1>. QED
  BY <1>3, <1>5, <1>6, <1>7

\* The corrections of localtime64_r put the date back into its own year.
LEMMA TurnedBack ==
  ASSUME NEW y \in Int, NEW mon \in 0..11, NEW y2, NEW mon2, NEW day2,
         Beside(y, mon, y2, mon2, day2), IsDate(y2, mon2, day2),
         NEW u \in Int, NEW k \in Int, YearStart(u) = YearStart(y2) + 7 * k,
         MonthStart(IsLeapYear(u), mon2) = MonthStart(IsLeapYear(y2), mon2),
         NEW s
  PROVE  TurnOfYear(Date(u, mon2, day2 + 7 * k, s), y - 1900, mon2 - mon)
           = Date(y2, mon2, day2, s)
<1>. DEFINE local == Date(u, mon2, day2 + 7 * k, s)
            diff == mon2 - mon
            year == (y - 1900) + (CASE diff = 11 -> -1 [] diff = -11 -> 1 [] OTHER -> 0)
            yday == IF ~IS_LEAP(year) /\ local.yday = 365 THEN 364 ELSE local.yday
            start == MonthStart(IsLeapYear(y2), mon2)
<1>1. /\ y2 \in Int /\ day2 \in Int /\ mon2 \in 0..11 /\ YearStart(y2) \in Int
      /\ start \in Int
      /\ YearStart(y2) <= day2
      /\ day2 < YearStart(y2) + (IF IsLeapYear(y2) THEN 366 ELSE 365)
  <2>1. y2 \in Int /\ IsLeapYear(y2) \in BOOLEAN
    BY DEF IsDate, IsLeapYear
  <2>. QED
    BY <2>1, YearStep, MonthsLaid DEF IsDate, InMonth
<1>2. year = y2 - 1900
  BY <1>1 DEF Beside
<1>3. IS_LEAP(year) = IsLeapYear(y2)
  BY <1>1, <1>2, LeapAlike
<1>4. local.yday = day2 - YearStart(y2)
  <2>1. local.yday = (day2 + 7 * k) - YearStart(u)
    BY DEF Date
  <2>. HIDE DEF local
  <2>. QED
    BY <1>1, <2>1
<1>5. yday = day2 - YearStart(y2)
  <2>. HIDE DEF local, year
  <2>. QED
    BY <1>1, <1>3, <1>4
<1>6. TurnOfYear(local, y - 1900, diff) = [local EXCEPT !.year = year, !.yday = yday]
  BY DEF TurnOfYear, Date
<1>. HIDE DEF yday, year, diff, start
<1>7. /\ (day2 + 7 * k) - YearStart(u) = day2 - YearStart(y2)
      /\ ((day2 + 7 * k) + 4) % 7 = (day2 + 4) % 7
      /\ ((day2 + 7 * k) - YearStart(u)) - MonthStart(IsLeapYear(u), mon2) + 1
           = (day2 - YearStart(y2)) - start + 1
  <2>1. (day2 + 7 * k) - YearStart(u) = day2 - YearStart(y2)
    BY <1>1
  <2>2. ((day2 + 7 * k) + 4) % 7 = (day2 + 4) % 7
    BY <1>1
  <2>. QED
    BY <2>1, <2>2 DEF start
<1>8. local = [sec |-> s % 60, min |-> (s \div 60) % 60, hour |-> s \div 3600,
               mday |-> (day2 - YearStart(y2)) - start + 1, mon |-> mon2,
               year |-> u - 1900, wday |-> (day2 + 4) % 7, yday |-> day2 - YearStart(y2)]
  BY <1>7 DEF Date
<1>. HIDE DEF local
<1>9. [local EXCEPT !.year = year, !.yday = yday] =
        [sec |-> s % 60, min |-> (s \div 60) % 60, hour |-> s \div 3600,
         mday |-> (day2 - YearStart(y2)) - start + 1, mon |-> mon2,
         year |-> y2 - 1900, wday |-> (day2 + 4) % 7, yday |-> day2 - YearStart(y2)]
  <2>. DEFINE sec == s % 60
              min == (s \div 60) % 60
              hour == s \div 3600
              mday == (day2 - YearStart(y2)) - start + 1
              wday == (day2 + 4) % 7
              yd == day2 - YearStart(y2)
              other == u - 1900
              own == y2 - 1900
  <2>1. /\ local = [sec |-> sec, min |-> min, hour |-> hour, mday |-> mday, mon |-> mon2,
                    year |-> other, wday |-> wday, yday |-> yd]
        /\ year = own /\ yday = yd
    BY <1>2, <1>5, <1>8
  <2>. HIDE DEF sec, min, hour, mday, wday, yd, other, own
  <2>2. [local EXCEPT !.year = year, !.yday = yday] =
          [sec |-> sec, min |-> min, hour |-> hour, mday |-> mday, mon |-> mon2,
           year |-> own, wday |-> wday, yday |-> yd]
    <3>1. [local EXCEPT !.year = year, !.yday = yday]
            = [[local EXCEPT !.year = year] EXCEPT !.yday = yday]
      OBVIOUS
    <3>2. [local EXCEPT !.year = own] =
            [sec |-> sec, min |-> min, hour |-> hour, mday |-> mday, mon |-> mon2,
             year |-> own, wday |-> wday, yday |-> yd]
      BY <2>1
    <3>. DEFINE turned == [local EXCEPT !.year = own]
    <3>. HIDE DEF turned
    <3>3. [turned EXCEPT !.yday = yd] =
            [sec |-> sec, min |-> min, hour |-> hour, mday |-> mday, mon |-> mon2,
             year |-> own, wday |-> wday, yday |-> yd]
      BY <3>2 DEF turned
    <3>. QED
      BY <2>1, <3>1, <3>3 DEF turned
  <2>. QED
    BY <2>2 DEF sec, min, hour, mday, wday, yd, own
<1>. QED
  BY <1>6, <1>9 DEF Date, start, local, diff

\* The local date of a time that libc cannot convert itself.
LEMMA LocalIs ==
  ASSUME NEW t, IsTime(t), NEW z, IsZone(z)
  PROVE  LocalOfGm(gmtime64_r(t), z) = Civil(Shift(t, z))
<1>1. PICK day \in Int, s \in Nat : IsSecond(s) /\ t = TimeOf(day, s)
  BY DEF IsTime
<1>. DEFINE e == ShiftDays(s, z)
            r == ShiftSecs(s, z)
            day2 == day + e
<1>2. FloorDay(t) = day /\ FloorSec(t) = s
  <2>1. day + 0 = day
    OBVIOUS
  <2>. QED
    BY <1>1, <2>1, TimeParts, CarryNone
<1>3. /\ e \in -1..1 /\ r \in Nat /\ IsSecond(r)
      /\ FloorDay(Shift(t, z)) = day2 /\ FloorSec(Shift(t, z)) = r
  BY <1>1, ShiftParts
<1>4. day2 \in Int
  BY <1>3
<1>5. PICK y, mon : IsDate(y, mon, day)
  BY DateHas
<1>6. PICK y2, mon2 : IsDate(y2, mon2, day2)
  BY <1>4, DateHas
<1>. DEFINE gm == Date(y, mon, day, s)
            safe == SafeDate(gm)
            local == LOCALTIME_R(timegm64(safe), z)
<1>7. gmtime64_r(t) = gm /\ Civil(Shift(t, z)) = Date(y2, mon2, day2, r)
  <2>1. gmtime64_r(t) = gm
    BY <1>1, <1>2, <1>5, GmtimeIs
  <2>2. Civil(Shift(t, z)) = Date(y2, mon2, day2, r)
    BY <1>3, <1>6, CivilIs
  <2>. QED
    BY <2>1, <2>2
<1>8. PICK v \in Int, k \in Int :
        /\ IsDate(v, mon, day + 7 * k)
        /\ YearStart(v) = YearStart(y) + 7 * k
        /\ IsLeapYear(v) = IsLeapYear(y) /\ IsLeapYear(v - 1) = IsLeapYear(y - 1)
        /\ safe.mon = mon
        /\ timegm64(safe) = TimeOf(day + 7 * k, s)
  BY <1>1, <1>5, SafeDateIs
<1>9. Beside(y, mon, y2, mon2, day2)
  BY <1>3, <1>5, <1>6, DatesBeside
<1>10. PICK u \in Int :
         /\ IsDate(u, mon2, (day + 7 * k) + e)
         /\ YearStart(u) = YearStart(y2) + 7 * k
         /\ MonthStart(IsLeapYear(u), mon2) = MonthStart(IsLeapYear(y2), mon2)
  BY <1>3, <1>5, <1>6, <1>8, SameBeside
<1>11. gm.year = y - 1900 /\ y \in Int /\ mon \in 0..11
  BY <1>5 DEF Date, IsDate, InMonth
<1>. HIDE DEF gm, safe, local, e, r
<1>12. local = Date(u, mon2, day2 + 7 * k, r)
  <2>. DEFINE w == day + 7 * k
  <2>1. w \in Int /\ w + e = day2 + 7 * k
    BY <1>3
  <2>. HIDE DEF w
  <2>2. /\ FloorDay(Shift(TimeOf(w, s), z)) = w + e
        /\ FloorSec(Shift(TimeOf(w, s), z)) = r
    BY <1>1, <2>1, ShiftParts DEF e, r
  <2>3. local = Civil(Shift(TimeOf(w, s), z))
    BY <1>8 DEF local, LOCALTIME_R, w
  <2>4. IsDate(u, mon2, w + e)
    BY <1>10 DEF w
  <2>5. local = Date(u, mon2, w + e, r)
    BY <2>2, <2>3, <2>4, CivilIs
  <2>. QED
    BY <2>1, <2>5
<1>13. local.mon = mon2
  BY <1>12 DEF Date
<1>14. TurnOfYear(local, y - 1900, mon2 - mon) = Date(y2, mon2, day2, r)
  <2>. HIDE DEF day2
  <2>1. TurnOfYear(Date(u, mon2, day2 + 7 * k, r), y - 1900, mon2 - mon)
          = Date(y2, mon2, day2, r)
    BY <1>6, <1>9, <1>10, <1>11, TurnedBack
  <2>. QED
    BY <1>12, <2>1
<1>15. LocalOfGm(gm, z) = TurnOfYear(local, y - 1900, mon2 - mon)
  BY <1>8, <1>11, <1>13 DEF LocalOfGm, LocalOfSafe, Corrected, local, safe
<1>. QED
  BY <1>7, <1>14, <1>15

\* localtime64_r gives the date of the local time, and one that check_tm accepts.
LEMMA LocaltimeIsTrue ==
  ASSUME NEW t, IsTime(t), NEW z, IsZone(z)
  PROVE  /\ localtime64_r(t, z) = Civil(Shift(t, z))
         /\ check_tm(localtime64_r(t, z))
         /\ localtime64_r(t, z).mday \in 1..31 /\ localtime64_r(t, z).year \in Int
<1>. DEFINE u == Shift(t, z)
<1>1. localtime64_r(t, z) = Civil(u)
  BY LocalIs DEF localtime64_r, LOCALTIME_R
<1>2. IsTime(u)
  <2>1. PICK d \in Int, s \in Nat : IsSecond(s) /\ t = TimeOf(d, s)
    BY DEF IsTime
  <2>. QED
    BY <2>1, ShiftParts
<1>. HIDE DEF u
<1>3. FloorDay(u) \in Int /\ FloorSec(u) \in Nat /\ IsSecond(FloorSec(u))
  BY <1>2, TimeFacts
<1>4. PICK y, mon : IsDate(y, mon, FloorDay(u))
  BY <1>3, DateHas
<1>. DEFINE date == Date(y, mon, FloorDay(u), FloorSec(u))
<1>5. Civil(u) = date
  BY <1>4, CivilIs
<1>6. check_tm(date)
  BY <1>3, <1>4, DateChecks
<1>7. date.mday \in 1..31 /\ date.year \in Int
  <2>1. TimeFields(date) /\ date.mon \in 0..11
    BY <1>3, <1>4, DayOfDate DEF TimeFields
  <2>2. IS_LEAP(date.year) \in BOOLEAN
    BY DEF IS_LEAP
  <2>3. days_in_month(IS_LEAP(date.year))[date.mon + 1] \in 28..31
    BY <2>1, <2>2, MonthsLaid
  <2>. HIDE DEF date
  <2>. QED
    BY <1>6, <2>1, <2>3 DEF check_tm, TimeFields
<1>. QED
  BY <1>1, <1>5, <1>6, <1>7 DEF u

\* A number below 100, 1000 or 10000 has no more than two, three or four digits.
LEMMA DigitsUpTo ==
  ASSUME NEW n \in Int, NEW m \in 1..3, NEW value \in Int,
         value = (IF n < 0 THEN -n ELSE n), value < Tens[m + 1]
  PROVE  Digits(n) \in 1 .. (1 + m) + Borrow(n)
<1>. DEFINE S == {k \in 1..9 : value >= Tens[k]}
<1>1. S \subseteq 1..m
  <2>. SUFFICES ASSUME NEW k \in 1..9, value >= Tens[k] PROVE k \in 1..m
    OBVIOUS
  <2>1. \A i, j \in 1..9 : i <= j => Tens[i] <= Tens[j] /\ Tens[i] \in Int
    BY SMT DEF Tens
  <2>2. ~(m + 1 <= k)
    <3>. SUFFICES ASSUME m + 1 <= k PROVE FALSE
      OBVIOUS
    <3>1. m + 1 \in 1..9
      OBVIOUS
    <3>2. Tens[m + 1] <= Tens[k] /\ Tens[m + 1] \in Int /\ Tens[k] \in Int
      BY <2>1, <3>1
    <3>. QED
      BY <3>2
  <2>. QED
    BY <2>2
<1>. HIDE DEF S
<1>2. IsFiniteSet(1..m) /\ Cardinality(1..m) = m
  <2>1. 1 \in Int /\ m \in Int /\ ~(1 > m) /\ m - 1 + 1 = m
    OBVIOUS
  <2>. QED
    BY <2>1, FS_Interval
<1>3. IsFiniteSet(S) /\ Cardinality(S) <= m /\ Cardinality(S) \in Nat
  BY <1>1, <1>2, FS_Subset, FS_CardinalityType
<1>4. Digits(n) = 1 + Cardinality(S) + Borrow(n)
  BY DEF Digits, S
<1>. QED
  BY <1>3, <1>4 DEF Borrow

\* The line of a local date of the years -999..9999 fits its buffer.
LEMMA LineFits ==
  ASSUME NEW date, check_tm(date), date.mday \in 1..31, date.year \in Int,
         -999 <= date.year + 1900, date.year + 1900 <= 9999
  PROVE  asctime64_r(date) \in 1..25
<1>. DEFINE year == 1900 + date.year
            mday == date.mday
<1>1. Tens[1 + 1] = 100 /\ Tens[2 + 1] = 1000 /\ Tens[3 + 1] = 10000
  BY SMT DEF Tens
<1>2. year \in Int /\ year >= -999 /\ year <= 9999 /\ mday \in 1..31
  <2>. DEFINE y == date.year
  <2>1. y \in Int /\ -999 <= y + 1900 /\ y + 1900 <= 9999 /\ year = 1900 + y
    OBVIOUS
  <2>. HIDE DEF y, year
  <2>. QED
    BY <2>1
<1>3. asctime64_r(date) = 7 + (IF Digits(mday) > 3 THEN Digits(mday) ELSE 3)
                          + 10 + Digits(year) + 1
  BY <1>2 DEF asctime64_r, check_tm
<1>. HIDE DEF year, mday
<1>4. Digits(mday) \in 1..2
  <2>1. Digits(mday) \in 1 .. (1 + 1) + Borrow(mday)
    BY <1>1, <1>2, DigitsUpTo
  <2>. QED
    BY <1>2, <2>1 DEF Borrow
<1>5. Digits(year) \in 1..4
  <2>1. CASE year < 0
    <3>1. -year \in Int /\ -year < Tens[2 + 1]
      BY <1>1, <1>2
    <3>2. Digits(year) \in 1 .. (1 + 2) + Borrow(year)
      BY <1>2, <2>1, <3>1, DigitsUpTo
    <3>. QED
      BY <2>1, <3>2 DEF Borrow
  <2>2. CASE ~(year < 0)
    <3>1. Digits(year) \in 1 .. (1 + 3) + Borrow(year)
      BY <1>1, <1>2, <2>2, DigitsUpTo
    <3>. QED
      BY <2>2, <3>1 DEF Borrow
  <2>. QED
    BY <2>1, <2>2
<1>. QED
  BY <1>3, <1>4, <1>5

\* What was asked last, with the answer the code gives to it: the arguments are
\* such as the constants allow.
CalendarInv ==
  \/ converted = NotAsked
  \/ \E t \in Times :
       converted = [op |-> "gmtime64", time |-> t, date |-> gmtime64_r(t)]
  \/ \E t \in Times, z \in Zones :
       converted = [op |-> "localtime64", time |-> t, zone |-> z,
                    date |-> localtime64_r(t, z), line |-> ctime64(t, z)]
  \/ \E t \in Times, z \in Zones :
       converted = [op |-> "mktime64", date |-> Civil(Shift(t, z)), zone |-> z,
                    want |-> t, time |-> mktime64(Civil(Shift(t, z)), z)]
  \/ \E y \in Years : converted = [op |-> "safe_year", year |-> y, safe |-> safe_year(y)]

\* The times are times, the zones at most a day away.
LEMMA Arguments ==
  /\ \A t \in Times : IsTime(t)
  /\ \A z \in Zones : IsZone(z)
  /\ \A y \in Years : y \in Int
<1>1. ASSUME NEW t \in Times PROVE IsTime(t)
  <2>1. PICK d \in Days, s \in Seconds : t = TimeOf(d, s)
    BY DEF Times
  <2>2. d \in Int /\ s \in Nat
    BY CalendarAssumption
  <2>. QED
    BY <2>1, <2>2, TimeParts
<1>. QED
  BY <1>1, CalendarAssumption DEF IsZone

\* The answers that the invariant holds on to are the calendar's.
LEMMA AnswersAreTrue == CalendarInv => CalendarIsTrue
<1>. SUFFICES ASSUME CalendarInv PROVE CalendarIsTrue
  OBVIOUS
<1>. USE DEF CalendarIsTrue, GmtimeIsTheDate, LocaltimeIsShifted, CtimeFits, MktimeInverts,
             SafeYearMatches
<1>1. CASE converted = NotAsked
  <2>1. converted.op = "none"
    BY <1>1 DEF NotAsked
  <2>. QED
    BY <2>1
<1>2. ASSUME NEW t \in Times,
             converted = [op |-> "gmtime64", time |-> t, date |-> gmtime64_r(t)]
      PROVE  CalendarIsTrue
  <2>1. converted.op = "gmtime64" /\ converted.time = t /\ converted.date = gmtime64_r(t)
    BY <1>2
  <2>2. gmtime64_r(t) = Civil(t) /\ check_tm(gmtime64_r(t)) /\ timegm64(gmtime64_r(t)) = t
    BY Arguments, GmtimeIsTrue
  <2>. QED
    BY <2>1, <2>2
<1>3. ASSUME NEW t \in Times, NEW z \in Zones,
             converted = [op |-> "localtime64", time |-> t, zone |-> z,
                          date |-> localtime64_r(t, z), line |-> ctime64(t, z)]
      PROVE  CalendarIsTrue
  <2>. DEFINE date == localtime64_r(t, z)
  <2>1. /\ converted.op = "localtime64" /\ converted.time = t /\ converted.zone = z
        /\ converted.date = date /\ converted.line = asctime64_r(date)
    BY <1>3 DEF ctime64
  <2>2. /\ date = Civil(Shift(t, z)) /\ check_tm(date)
        /\ date.mday \in 1..31 /\ date.year \in Int
    BY Arguments, LocaltimeIsTrue
  <2>. HIDE DEF date
  <2>3. ASSUME -999 <= date.year + 1900, date.year + 1900 <= 9999
        PROVE  asctime64_r(date) \in 1..25
    BY <2>2, <2>3, LineFits
  <2>. QED
    BY <2>1, <2>2, <2>3
<1>4. ASSUME NEW t \in Times, NEW z \in Zones,
             converted = [op |-> "mktime64", date |-> Civil(Shift(t, z)), zone |-> z,
                          want |-> t, time |-> mktime64(Civil(Shift(t, z)), z)]
      PROVE  CalendarIsTrue
  <2>1. /\ converted.op = "mktime64" /\ converted.want = t
        /\ converted.time = mktime64(Civil(Shift(t, z)), z)
    BY <1>4
  <2>2. mktime64(Civil(Shift(t, z)), z) = t
    BY Arguments, MktimeIsTrue
  <2>. QED
    BY <2>1, <2>2
<1>5. ASSUME NEW y \in Years,
             converted = [op |-> "safe_year", year |-> y, safe |-> safe_year(y)]
      PROVE  CalendarIsTrue
  <2>1. converted.op = "safe_year" /\ converted.year = y /\ converted.safe = safe_year(y)
    BY <1>5
  <2>2. LET s == safe_year(y)
        IN /\ s \in MIN_SAFE_YEAR..MAX_SAFE_YEAR
           /\ IsLeapYear(s) = IsLeapYear(y)
           /\ \A d \in -1..1 : FirstWeekday(s + d) = FirstWeekday(y + d)
    BY Arguments, SafeYearIsTrue
  <2>. QED
    BY <2>1, <2>2
<1>. HIDE DEF CalendarIsTrue
<1>. QED
  BY <1>1, <1>2, <1>3, <1>4, <1>5 DEF CalendarInv

\* Every call leaves its answer behind.
LEMMA CalendarStep == CalendarInv /\ [CalendarNext]_converted => CalendarInv'
<1>. SUFFICES ASSUME CalendarInv, [CalendarNext]_converted PROVE CalendarInv'
  OBVIOUS
<1>1. CASE CallGmtime
  BY <1>1 DEF CallGmtime, CalendarInv
<1>2. CASE CallLocaltime
  BY <1>2 DEF CallLocaltime, CalendarInv
<1>3. CASE CallMktime
  BY <1>3 DEF CallMktime, CalendarInv
<1>4. CASE CallSafeYear
  BY <1>4 DEF CallSafeYear, CalendarInv
<1>5. CASE TimeReturns
  BY <1>5 DEF TimeReturns, CalendarInv
<1>6. CASE UNCHANGED converted
  BY <1>6 DEF CalendarInv
<1>. QED
  BY <1>1, <1>2, <1>3, <1>4, <1>5, <1>6 DEF CalendarNext

\* The conversions of time64.c give the calendar's dates: for every time, whatever
\* its sign and however far away, for every year and for every zone up to a day
\* from Greenwich.
THEOREM DatesStayTrue == CalendarSpec => []CalendarIsTrue
<1>1. CalendarInit => CalendarInv
  BY DEF CalendarInit, CalendarInv
<1>. QED
  BY <1>1, CalendarStep, AnswersAreTrue, PTL DEF CalendarSpec

\* Together, the conversions and the clocks.
THEOREM TimesStayTrue == TimesSpec => []TimesAreTrue
BY DatesStayTrue, ClocksStayTrue, PTL DEF TimesSpec, TimesAreTrue
==============================================================================

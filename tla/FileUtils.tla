------------------------------- MODULE FileUtils -------------------------------
(***************************************************************************)
(* file_copy and the helpers it is made of in utils/utils.c, with every    *)
(* call of the C library failing, or coming up short, where it can.  The   *)
(* program may be killed between two steps.                                *)
(***************************************************************************)
EXTENDS Integers

CONSTANT MaxLeaks      \* bound of the buffers leaked

VARIABLES
  upc,           \* the helper and step that comes next
  op,            \* what the engine called: copy, load, save, size or sha1
  source,        \* the source file: "none", "empty" or "full"
  target,        \* the target file: "none", "old", "part" or "new"
  before,        \* the target file when the call began
  handle,        \* whether a FILE is open
  buffer,        \* "none", or what the loaded buffer holds: "part" or "whole"
  leaked,        \* buffers that nobody can free any more
  cut,           \* whether a read or a write was cut short unnoticed
  result         \* what the call returned

utilsVars == <<upc, op, source, target, before, handle, buffer, leaked, cut, result>>

UtilsInit ==
  /\ upc = "idle" /\ op = "none"
  /\ source \in {"none", "empty", "full"}
  /\ target \in {"none", "old"} /\ before = target
  /\ handle = FALSE /\ buffer = "none" /\ leaked = 0 /\ cut = FALSE
  /\ result = "none"

Return(value) == upc' = "idle" /\ result' = value

CallUtils ==
  /\ upc = "idle" /\ buffer = "none"
  /\ \E o \in {"copy", "load", "save", "size", "sha1"} :
       /\ op' = o
       /\ upc' = CASE o = "copy" -> "copy_exists" [] o = "save" -> "save_open"
                   [] OTHER -> "load_exists"
       /\ buffer' = IF o = "save" THEN "whole" ELSE "none"
  /\ before' = target /\ cut' = FALSE /\ result' = "none"
  /\ UNCHANGED <<source, target, handle, leaked>>

\* file_copy's own test of the source, then file_mkpath, one mkdir per
\* directory: a directory that exists is fine, any other error is not.
CopyExists ==
  /\ upc = "copy_exists"
  /\ IF source = "none" THEN Return("false") ELSE upc' = "mkpath" /\ UNCHANGED result
  /\ UNCHANGED <<op, source, target, before, handle, buffer, leaked, cut>>

file_mkpath ==
  /\ upc = "mkpath"
  /\ \/ upc' = "load_exists" /\ UNCHANGED result
     \/ Return("false")
  /\ UNCHANGED <<op, source, target, before, handle, buffer, leaked, cut>>

\* file_load and file_size test and open the source.
LoadOpen ==
  /\ upc = "load_exists"
  /\ \/ source # "none" /\ handle' = TRUE /\ upc' = "load_size" /\ UNCHANGED result
     \/ Return("false") /\ UNCHANGED handle
  /\ UNCHANGED <<op, source, target, before, buffer, leaked, cut>>

LoadSize ==
  /\ upc = "load_size"
  /\ CASE op = "size" -> Return("true") /\ handle' = FALSE
       [] source = "empty" -> Return("false") /\ handle' = FALSE
       [] OTHER -> \/ upc' = "load_read" /\ UNCHANGED <<handle, result>>
                   \/ Return("false") /\ handle' = FALSE       \* malloc fails
  /\ UNCHANGED <<op, source, target, before, buffer, leaked, cut>>

\* What fread and fwrite did is not looked at.
LoadRead ==
  /\ upc = "load_read"
  /\ buffer' \in {"whole", "part"}
  /\ cut' = (buffer' = "part")
  /\ handle' = FALSE
  /\ IF op = "copy" THEN upc' = "save_open" /\ UNCHANGED result ELSE Return("true")
  /\ UNCHANGED <<op, source, target, before, leaked>>

SaveOpen ==
  /\ upc = "save_open"
  /\ \/ /\ handle' = TRUE
        /\ target' = "part"         \* "wb" empties it
        /\ upc' = "save_write"
        /\ UNCHANGED <<buffer, leaked, result>>
     \/ /\ Return("false")
        /\ IF op = "copy"
           THEN buffer' = "none" /\ leaked < MaxLeaks /\ leaked' = leaked + 1
           ELSE buffer' = "none" /\ UNCHANGED leaked
        /\ UNCHANGED <<handle, target>>
  /\ UNCHANGED <<op, source, before, cut>>

SaveWrite ==
  /\ upc = "save_write"
  /\ \E all \in BOOLEAN :
       /\ target' = IF all /\ buffer = "whole" THEN "new" ELSE "part"
       /\ cut' = (cut \/ ~all)
  /\ handle' = FALSE
  /\ buffer' = "none"
  /\ Return("true")
  /\ UNCHANGED <<op, source, before, leaked>>

\* The caller of file_load frees its buffer, and file_sha1sum its own.
FreeBuffer ==
  /\ upc = "idle" /\ buffer # "none"
  /\ buffer' = "none"
  /\ UNCHANGED <<upc, op, source, target, before, handle, leaked, cut, result>>

\* The program is killed: the files stay as they are.
Kill ==
  /\ upc # "idle"
  /\ upc' = "idle" /\ handle' = FALSE /\ buffer' = "none" /\ leaked' = 0
  /\ result' = "killed"
  /\ UNCHANGED <<op, source, target, before, cut>>

\* Another program removes or replaces the source between two steps.
SourceChanges ==
  /\ source' \in {"none", "empty", "full"}
  /\ UNCHANGED <<upc, op, target, before, handle, buffer, leaked, cut, result>>

UtilsNext ==
  \/ CallUtils \/ CopyExists \/ file_mkpath \/ LoadOpen \/ LoadSize \/ LoadRead
  \/ SaveOpen \/ SaveWrite \/ FreeBuffer \/ Kill \/ SourceChanges

------------------------------------------------------------------------------
\* A copy that returns true has written all of the source, unless the C
\* library cut it short; one that returns false has left the target alone.  A
\* kill in between leaves a cut file, as there is no temporary one.
CopyTellsTruth ==
  /\ op \in {"copy", "save"} /\ result = "true" => target = "new" \/ cut
  /\ op \in {"copy", "save"} /\ result = "false" => target = before

\* Every way out of the helpers has closed the file it opened.
HandleIsClosed == upc = "idle" => ~handle

\* A buffer is only forgotten by a copy that could not open its target.
LeakIsFailedSave ==
  [][leaked' > leaked => op = "copy" /\ result' = "false" /\ target' = before]_utilsVars
==============================================================================

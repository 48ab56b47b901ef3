--------------------------------- MODULE Bindings ---------------------------------
(***************************************************************************)
(* What the engine's imports are bound to (dynlib.c).  An object the engine *)
(* gets from one function and hands to another has the layout of the        *)
(* library that made it; a function of another library takes it for         *)
(* something else.  Rows whose arguments are plain numbers or bytes are     *)
(* left out.                                                                *)
(***************************************************************************)
EXTENDS Integers, FiniteSets

VARIABLES
  sce_io,      \* USE_SCELIBC_IO, on unless the build turns it off
  objects,     \* what the engine holds: [kind, maker, lib]
  clashes      \* functions that were given an object of another library
bindVars == <<sce_io, objects, clashes>>

\* The rows bound to a *_soloader of the bridge, and those bound to libc's own.
TrylockIsLibc == {"pthread_mutex_init", "pthread_mutex_lock", "pthread_mutex_unlock",
  "pthread_mutex_destroy"}
MutexRows == {"pthread_mutex_init", "pthread_mutex_lock", "pthread_mutex_trylock",
  "pthread_mutex_unlock", "pthread_mutex_destroy"}
ThreadRows == MutexRows \cup
  {"pthread_cond_init", "pthread_cond_wait", "pthread_cond_timedwait", "pthread_cond_signal",
   "pthread_cond_broadcast", "pthread_cond_destroy", "pthread_attr_init",
   "pthread_attr_setdetachstate", "pthread_attr_setstacksize", "pthread_attr_destroy",
   "pthread_create", "pthread_join", "pthread_detach", "pthread_self", "pthread_equal",
   "pthread_kill", "pthread_setschedparam", "pthread_mutexattr_init",
   "pthread_mutexattr_settype", "pthread_mutexattr_destroy",
   "sem_init", "sem_wait", "sem_trywait", "sem_timedwait", "sem_post", "sem_destroy"}
IoRows == {"opendir", "readdir", "readdir_r", "closedir", "scandir", "stat", "fstat"}
\* The rows USE_SCELIBC_IO switches; fopen_soloader and fclose_soloader, the
\* rows of fopen and fclose, switch with them.
SwitchedRows == {"fopen", "fclose", "fdopen", "feof", "ferror", "fflush", "fgetc", "fgetpos",
  "fgets", "fileno", "fputc", "fputs", "fread", "freopen", "fseek", "fsetpos", "ftell", "fwide",
  "fwrite", "getc", "getwc", "putc", "putwc", "setvbuf", "ungetc", "ungetwc",
  "fprintf", "fscanf", "vfprintf"}
\* Rows on the same objects that are libc's own in every build: they take a
\* stream, as __srget and __swbuf do for the macros of stdio.h, or make one, or
\* fill a buffer.  stdio stands for __sF, the copies resolve_imports takes of
\* stdin, stdout and stderr.
LibcStreamUsers == {"fseeko", "ftello", "rewind", "__srget", "__swbuf"}
LibcStreams == {"tmpfile", "stdio"}

Library(row) ==
  CASE row \in ThreadRows \cup IoRows -> "bridge"
    [] row \in SwitchedRows -> IF sce_io THEN "SceLibc" ELSE "libc"
    [] OTHER -> "libc"

Kinds == {"FILE", "DIR", "stat", "mutex", "cond", "attr", "sem", "thread", "mutexattr"}
\* Who makes such an object and who is handed one; "engine" reads it itself,
\* as Android lays it out.
Makers(kind) ==
  CASE kind = "FILE" -> {"fopen", "fdopen", "freopen"} \cup LibcStreams
    [] kind = "DIR" -> {"opendir"}
    [] kind = "stat" -> {"stat", "fstat", "lstat"}
    [] kind = "mutex" -> {"pthread_mutex_init"}
    [] kind = "cond" -> {"pthread_cond_init"}
    [] kind = "attr" -> {"pthread_attr_init"}
    [] kind = "sem" -> {"sem_init"}
    [] kind = "thread" -> {"pthread_create", "pthread_self"}
    [] kind = "mutexattr" -> {"pthread_mutexattr_init"}
Users(kind) ==
  CASE kind = "FILE" -> (SwitchedRows \ {"fopen", "fdopen"}) \cup LibcStreamUsers
    [] kind = "DIR" -> {"readdir", "readdir_r", "closedir"}
    [] kind = "stat" -> {"engine"}
    [] kind = "mutex" -> {"pthread_mutex_lock", "pthread_mutex_trylock", "pthread_mutex_unlock",
                          "pthread_mutex_destroy", "pthread_cond_wait"}
    [] kind = "cond" -> {"pthread_cond_wait", "pthread_cond_timedwait", "pthread_cond_signal",
                         "pthread_cond_broadcast", "pthread_cond_destroy"}
    [] kind = "attr" -> {"pthread_create", "pthread_attr_setdetachstate",
                         "pthread_attr_setstacksize", "pthread_attr_destroy"}
    [] kind = "sem" -> {"sem_wait", "sem_trywait", "sem_timedwait", "sem_post", "sem_destroy"}
    [] kind = "thread" -> {"pthread_join", "pthread_detach", "pthread_equal", "pthread_kill",
                           "pthread_setschedparam"}
    [] kind = "mutexattr" -> {"pthread_mutex_init", "pthread_mutexattr_settype",
                              "pthread_mutexattr_destroy"}
LibraryOf(user) == IF user = "engine" THEN "bridge" ELSE Library(user)

Make(kind, maker) ==
  /\ maker \in Makers(kind)
  /\ objects' = {[kind |-> kind, maker |-> maker, lib |-> Library(maker)]}
  /\ UNCHANGED <<sce_io, clashes>>

Use(o, user) ==
  /\ user \in Users(o.kind)
  /\ clashes' = IF LibraryOf(user) # o.lib THEN {<<o.maker, user>>} ELSE {}
  /\ UNCHANGED <<sce_io, objects>>

BindInit ==
  /\ sce_io \in BOOLEAN
  /\ objects = {} /\ clashes = {}

BindNext ==
  \/ \E kind \in Kinds : \E maker \in Makers(kind) : Make(kind, maker)
  \/ \E o \in objects : \E user \in Users(o.kind) : Use(o, user)

------------------------------------------------------------------------------
\* An object goes only to functions of the library that made it.  The one
\* exception every build has is lstat, whose buffer keeps libc's layout; with
\* SceLibc's stdio also the streams that libc makes, which the switched
\* functions are handed, and the streams of SceLibc, which the five functions
\* left to libc are handed: exactly where one of the two is libc's.
BindingsAgree ==
  \A c \in clashes :
    \/ c[1] = "lstat"
    \/ sce_io /\ (c[1] \in LibcStreams <=> c[2] \notin LibcStreamUsers)
==============================================================================

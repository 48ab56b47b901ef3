------------------------------- MODULE ErrnoTable -------------------------------
(***************************************************************************)
(* reimpl/errno.c.  newlib keeps one errno per thread; the engine's errno  *)
(* is the bionic field of the row that translates it, in one table that    *)
(* all threads share and that is not const: __errno_soloader returns a     *)
(* pointer into it, through which the engine reads and also writes.        *)
(***************************************************************************)
EXTENDS Integers, Sequences, FiniteSets

CONSTANTS
  ErrnoThreads,
  errno_translation,     \* rows [newlib, bionic, strerror]
  UnknownErrnos,         \* newlib errors without a row
  StoredCodes            \* what the engine assigns to errno

ASSUME TableAssumption ==
  /\ Len(errno_translation) \in Nat \ {0}
  /\ DOMAIN errno_translation = 1..Len(errno_translation)
  /\ UnknownErrnos \cap {errno_translation[i].newlib : i \in DOMAIN errno_translation} = {}

VARIABLES
  newlib_errno,  \* of each thread
  bionic,        \* bionic[i]: the field of row i
  pointer,       \* pointer[t]: the row __errno_soloader returned to t, or 0
  stored,        \* stored[i]: whether anyone has stored into row i
  seen           \* seen[t]: what t has just read

errnoVars == <<newlib_errno, bionic, pointer, stored, seen>>

Rows == DOMAIN errno_translation
NewlibErrnos == {errno_translation[i].newlib : i \in Rows} \cup UnknownErrnos
Unread == [code |-> -1, text |-> "", text_r |-> ""]

ErrnoInit ==
  /\ newlib_errno = [t \in ErrnoThreads |-> errno_translation[1].newlib]
  /\ bionic = [i \in Rows |-> errno_translation[i].bionic]
  /\ pointer = [t \in ErrnoThreads |-> 0]
  /\ stored = [i \in Rows |-> FALSE]
  /\ seen = [t \in ErrnoThreads |-> Unread]

First(S) == CHOOSE i \in S : \A j \in S : i <= j
Last(S) == CHOOSE i \in S : \A j \in S : j <= i
OrFirstRow(S, pick(_)) == IF S = {} THEN 1 ELSE pick(S)

\* A call of the thread fails, or a newlib function sets errno.
CallFails(t) ==
  /\ pointer[t] = 0
  /\ seen' = [seen EXCEPT ![t] = Unread]
  /\ \E e \in NewlibErrnos : newlib_errno' = [newlib_errno EXCEPT ![t] = e]
  /\ UNCHANGED <<bionic, pointer, stored>>

\* __errno_soloader: the first row of the thread's errno, row 1 for none.
FirstRowAlways(e) == 1
RowOf(e) == OrFirstRow({i \in Rows : errno_translation[i].newlib = e}, First)
__errno_soloader(t) ==
  /\ pointer' = [pointer EXCEPT ![t] = RowOf(newlib_errno[t])]
  /\ seen' = [seen EXCEPT ![t] = Unread]
  /\ UNCHANGED <<newlib_errno, bionic, stored>>

\* The engine reads or writes through the pointer it has just been given.
\* strerror_soloader takes the first row with the code, strerror_r_soloader
\* the last; they search the fields as they are now.
strerror(code) == errno_translation[OrFirstRow({i \in Rows : bionic[i] = code}, First)].strerror
strerror_r(code) == errno_translation[OrFirstRow({i \in Rows : bionic[i] = code}, Last)].strerror

LoadErrno(t) ==
  /\ pointer[t] # 0
  /\ seen' = [seen EXCEPT ![t] = [code |-> bionic[pointer[t]],
                                  text |-> strerror(bionic[pointer[t]]),
                                  text_r |-> strerror_r(bionic[pointer[t]])]]
  /\ pointer' = [pointer EXCEPT ![t] = 0]
  /\ UNCHANGED <<newlib_errno, bionic, stored>>

StoreErrno(t) ==
  /\ pointer[t] # 0
  /\ \E code \in StoredCodes : bionic' = [bionic EXCEPT ![pointer[t]] = code]
  /\ stored' = [stored EXCEPT ![pointer[t]] = TRUE]
  /\ seen' = [seen EXCEPT ![t] = Unread]
  /\ pointer' = [pointer EXCEPT ![t] = 0]
  /\ UNCHANGED newlib_errno

ErrnoNext == \E t \in ErrnoThreads :
  CallFails(t) \/ __errno_soloader(t) \/ LoadErrno(t) \/ StoreErrno(t)

------------------------------------------------------------------------------
\* Every thread reads the translation of its own error, whatever fails in the
\* others between its two steps, unless a store hit the row of that very error;
\* and where nobody stores, strerror and strerror_r describe that error, unless
\* rows share its code.
OwnErrorIsRead ==
  \A t \in ErrnoThreads : seen[t] # Unread =>
    \E i \in Rows :
      /\ \/ errno_translation[i].newlib = newlib_errno[t]
         \/ newlib_errno[t] \in UnknownErrnos /\ i = 1
      /\ ~stored[i] => seen[t].code = errno_translation[i].bionic
      /\ (\A k \in Rows : ~stored[k]) =>
            \/ /\ seen[t].text = errno_translation[i].strerror
               /\ seen[t].text_r = seen[t].text
            \/ \E j \in Rows \ {i} :
                 errno_translation[j].bionic = errno_translation[i].bionic
==============================================================================

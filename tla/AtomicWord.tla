------------------------------- MODULE AtomicWord -------------------------------
(***************************************************************************)
(* The atomic operations the engine takes from reimpl/sys.c.  Each thread  *)
(* holds one token and exchanges it for the word's: __atomic_swap reads    *)
(* the word and compares and swaps until nothing came in between, and      *)
(* __atomic_cmpxchg does so once.                                          *)
(***************************************************************************)
EXTENDS Integers

CONSTANT Swappers
ASSUME SwappersAssumption == 0 \notin Swappers

VARIABLES
  aword,         \* the shared word: a token
  token,         \* token[t]: the one t holds
  old_value,     \* old_value[t]: what t read
  apc            \* apc[t]: "idle" or "swap"

atomicVars == <<aword, token, old_value, apc>>
Tokens == Swappers \cup {0}

AtomicInit ==
  /\ aword = 0
  /\ token = [t \in Swappers |-> t]
  /\ old_value = [t \in Swappers |-> 0]
  /\ apc = [t \in Swappers |-> "idle"]

\* old_value = *ptr
ReadWord(t) ==
  /\ apc[t] = "idle"
  /\ old_value' = [old_value EXCEPT ![t] = aword]
  /\ apc' = [apc EXCEPT ![t] = "swap"]
  /\ UNCHANGED <<aword, token>>

\* __sync_val_compare_and_swap: stores only where the word is still the same,
\* and goes round the loop otherwise.
SwapsAnyway(word, old) == TRUE
Swaps(word, old) == word = old
Compare_and_swap(t) ==
  /\ apc[t] = "swap"
  /\ IF Swaps(aword, old_value[t])
     THEN /\ token' = [token EXCEPT ![t] = old_value[t]]
          /\ aword' = token[t]
     ELSE UNCHANGED <<aword, token>>
  /\ apc' = [apc EXCEPT ![t] = "idle"]
  /\ UNCHANGED old_value

\* __atomic_cmpxchg: 0, and the exchange made, where the word is as expected.
__atomic_cmpxchg(t) ==
  /\ apc[t] = "idle"
  /\ \E expected \in Tokens :
       /\ aword = expected
       /\ token' = [token EXCEPT ![t] = expected]
       /\ aword' = token[t]
  /\ UNCHANGED <<old_value, apc>>

AtomicNext ==
  \E t \in Swappers : ReadWord(t) \/ Compare_and_swap(t) \/ __atomic_cmpxchg(t)
AtomicSpec == AtomicInit /\ [][AtomicNext]_atomicVars

------------------------------------------------------------------------------
\* However the swaps interleave, also where the word has changed and changed
\* back in between, no token is lost and none is held twice.
TokensAreExchanged ==
  /\ \A t \in Swappers : token[t] # aword
  /\ \A t, u \in Swappers : t # u => token[t] # token[u]
==============================================================================

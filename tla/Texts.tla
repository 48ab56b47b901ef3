------------------------------- MODULE Texts -------------------------------
(***************************************************************************)
(* The texts a player types, as far as the bridge can tell them apart:     *)
(* whose bytes they are and how many of them are left.                     *)
(***************************************************************************)
EXTENDS Naturals

CONSTANTS
    Words,     \* what the player may type
    NoWord,    \* the word of an empty buffer
    Lengths    \* the byte lengths of the texts the keyboard returns

ASSUME TextAssumption ==
    /\ NoWord \notin Words
    /\ Lengths \subseteq Nat \ {0}

Text == [word : Words, len : Nat \ {0}]

Empty == [word |-> NoWord, len |-> 0]

MaybeText == Text \cup {Empty}

\* What the keyboard dialog hands back when ENTER closes it; closing it
\* otherwise, or with nothing typed, gives Empty.
Typed == [word : Words, len : Lengths] \cup {Empty}

\* strncpy(dst, t, k) followed by dst[k] = '\0': the first k bytes of t.
Cut(t, k) == IF t.len > k THEN [t EXCEPT !.len = k] ELSE t
=============================================================================

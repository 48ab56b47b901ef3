----------------------------- MODULE TextEntry -----------------------------
(***************************************************************************)
(* What the keyboard bridge promises: a text the player confirms on the    *)
(* Vita keyboard reaches the name field of the game, once, whole and in    *)
(* the order it was typed.  There is no thread, flag or frame here: one    *)
(* keyboard, one text held back until the keyboard has left the screen,    *)
(* and a mailbox of one place between the player and the game.             *)
(* TextInput implements it.                                                *)
(***************************************************************************)
EXTENDS Texts

CONSTANT
    Room       \* how many bytes of a text the mailbox keeps

VARIABLES
    keyboard,  \* TRUE while the keyboard is on the screen
    held,      \* the confirmed text not delivered yet, or Empty
    mailbox,   \* the text delivered and not assigned yet, or Empty
    field      \* the text of the game's name field

vars == <<keyboard, held, mailbox, field>>

Init ==
    /\ keyboard = FALSE
    /\ held = Empty
    /\ mailbox = Empty
    /\ field = Empty

\* The keyboard opens only when no earlier text is still held back.
Open ==
    /\ ~keyboard
    /\ held = Empty
    /\ keyboard' = TRUE
    /\ UNCHANGED <<held, mailbox, field>>

\* The player closes it; cancelling confirms Empty.
Close ==
    /\ keyboard
    /\ keyboard' = FALSE
    /\ held' \in MaybeText
    /\ UNCHANGED <<mailbox, field>>

\* Delivery never overwrites a text the game has not seen.
Deliver ==
    /\ held # Empty
    /\ mailbox = Empty
    /\ mailbox' = Cut(held, Room)
    /\ held' = Empty
    /\ UNCHANGED <<keyboard, field>>

Assign ==
    /\ mailbox # Empty
    /\ field' = mailbox
    /\ mailbox' = Empty
    /\ UNCHANGED <<keyboard, held>>

Next == Open \/ Close \/ Deliver \/ Assign

Spec == Init /\ [][Next]_vars
=============================================================================

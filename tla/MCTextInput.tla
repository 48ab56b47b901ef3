---------------------------- MODULE MCTextInput ----------------------------
(* A small instance of TextInput: two words, as a text that fits every      *)
(* buffer and as one that both buffers cut.                                 *)
EXTENDS TextInput

CONSTANTS w1, w2

MCWords == {w1, w2}
MCLengths == {1, 4}
=============================================================================

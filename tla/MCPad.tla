------------------------------- MODULE MCPad -------------------------------
(* A small instance of Pad: the two buttons that share a key, two of the eight *)
(* directions, and a screen of which the pointer can touch every edge.      *)
EXTENDS Pad

MCTwoMapped == <<"CIRCLE", "SELECT">>
MCTwoKeyOf == [b \in {"CIRCLE", "SELECT"} |-> "BACK"]
MCDirections == {<<1, 0>>, <<-1, -1>>}
MCStart == <<9, 9>>
MCTouches == {<<9, 9>>, <<0, 14>>}
=============================================================================

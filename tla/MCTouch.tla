------------------------------ MODULE MCTouch ------------------------------
(* Small instances of Touch, with the distances of main.c.  From the first  *)
(* point the second is within the slop of 16 pixels and the third is not    *)
(* although it is in each coordinate; the fourth is on the selection button *)
(* and farther than the pan cap.                                            *)
EXTENDS Touch

MCPoints == {<<600, 400>>, <<610, 410>>, <<612, 412>>, <<900, 400>>}
MCFewPoints == {<<600, 400>>, <<612, 412>>, <<900, 400>>}
MCIds == {0, 1}
MCOnButton(p) == p[1] >= 880 /\ p[2] >= 380 /\ p[2] =< 470
=============================================================================

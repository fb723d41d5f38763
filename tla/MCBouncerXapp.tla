----------------------------- MODULE MCBouncerXapp -----------------------------
(* BouncerXapp with two gNBs and lists of up to three entries, one with a repetition. *)
EXTENDS BouncerXapp
CONSTANTS g1, g2

MCIds      == {g1, g2}
MCGnbLists == {<<>>, <<g1>>, <<g1, g2>>, <<g1, g2, g1>>}
================================================================================

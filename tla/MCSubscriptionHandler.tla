------------------------- MODULE MCSubscriptionHandler -------------------------
(* SubscriptionHandler with two calling threads, one receiver and two gNBs. *)
EXTENDS SubscriptionHandler
CONSTANTS c1, c2, r1, g1, g2

MCCallers   == {c1, c2}
MCReceivers == {r1}
MCIds       == {g1, g2}
================================================================================

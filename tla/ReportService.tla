----------------------------- MODULE ReportService -----------------------------
(***************************************************************************)
(* What the simulated E2 nodes promise the RIC for each subscription       *)
(* request, whatever instance or connection serves it: a request is        *)
(* answered at most once, its answer comes before its indications, and at  *)
(* most MaxInd indications follow, one at a time.  A request may also be   *)
(* dropped, and then neither an answer nor an indication ever comes.       *)
(***************************************************************************)
EXTENDS Naturals

CONSTANTS Requests,  \* identifiers of subscription requests
          MaxInd     \* indications per request

VARIABLE served      \* served[r]: the stage of r and the indications sent for it

Stage(name, n) == [stage |-> name, indications |-> n]

Init == served = [r \in Requests |-> Stage("unasked", 0)]

Become(r, old, new) == served[r] = old /\ served' = [served EXCEPT ![r] = new]

Ask(r)     == Become(r, Stage("unasked", 0), Stage("asked", 0))
Drop(r)    == Become(r, Stage("asked", 0), Stage("dropped", 0))
Respond(r) == Become(r, Stage("asked", 0), Stage("answered", 0))

Indicate(r) ==
  \E n \in 0..(MaxInd - 1) : Become(r, Stage("answered", n), Stage("answered", n + 1))

Next == \E r \in Requests : Ask(r) \/ Drop(r) \/ Respond(r) \/ Indicate(r)

Spec == Init /\ [][Next]_served
================================================================================

------------------------- MODULE SubscriptionLifecycle -------------------------
(***************************************************************************)
(* What the Bouncer's SubscriptionHandler promises its xApp for each       *)
(* transaction identifier, without threads, locks or tables: an identifier *)
(* is registered, its request is transmitted at most once, a request that  *)
(* could not be transmitted is withdrawn and may be tried again, and a     *)
(* transmitted request is answered at most once and never taken back.      *)
(* After clear() the handler promises nothing any more.                    *)
(***************************************************************************)
CONSTANT Ids       \* transaction identifiers (the xApp uses the gNB names)

VARIABLE life      \* life[id]: where the request of id stands

Stages == {"absent", "registered", "sent", "accepted", "refused", "forgotten"}

Init == life = [id \in Ids |-> "absent"]

Move(id, from, to) == life[id] = from /\ life' = [life EXCEPT ![id] = to]

Register(id) == Move(id, "absent", "registered")
Withdraw(id) == Move(id, "registered", "absent")
Send(id)     == Move(id, "registered", "sent")
Accept(id)   == Move(id, "sent", "accepted")
Refuse(id)   == Move(id, "sent", "refused")

Forget == life' = [id \in Ids |-> "forgotten"]

Next ==
  \/ \E id \in Ids : Register(id) \/ Withdraw(id) \/ Send(id) \/ Accept(id) \/ Refuse(id)
  \/ Forget

Spec == Init /\ [][Next]_life
================================================================================

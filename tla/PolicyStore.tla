------------------------------ MODULE PolicyStore ------------------------------
(***************************************************************************)
(* What the Robot xApp promises the RIC about the policies it keeps: a     *)
(* request takes effect at most once and in one step, between the moment   *)
(* it is sent and the moment it is answered; one that succeeded has taken  *)
(* effect, and one that failed may have.  There are no messages,           *)
(* goroutines or separate reads here.                                      *)
(***************************************************************************)
EXTENDS Naturals, Sequences

CONSTANTS Policies,    \* policy instances
          Requests     \* request numbers, from 1

VARIABLES sent,        \* the requests sent: an operation on a policy
          stage,       \* stage[r]: how far request r is
          store        \* store[p]: the request whose text p holds, 0 when there is none

Init ==
  /\ sent = <<>>
  /\ stage = [r \in Requests |-> "unsent"]
  /\ store = [p \in Policies |-> 0]

Become(r, from, to) == stage[r] = from /\ stage' = [stage EXCEPT ![r] = to]

Effect(r) ==
  [store EXCEPT ![sent[r].policy] = IF sent[r].op = "CREATE" THEN r ELSE 0]

Send(r, op, p) ==
  /\ r = Len(sent) + 1
  /\ Become(r, "unsent", "pending")
  /\ sent' = Append(sent, [op |-> op, policy |-> p])
  /\ UNCHANGED store

Apply(r) ==
  /\ Become(r, "pending", "applied")
  /\ sent[r].op \in {"CREATE", "DELETE"}
  /\ store' = Effect(r)
  /\ UNCHANGED sent

\* A request of another operation fails without effect.
Fail(r) ==
  /\ Become(r, "pending", "failed")
  /\ UNCHANGED store \/ (sent[r].op \in {"CREATE", "DELETE"} /\ store' = Effect(r))
  /\ UNCHANGED sent

Succeed(r) == Become(r, "applied", "succeeded") /\ UNCHANGED <<sent, store>>

Next ==
  \E r \in Requests :
    \/ \E op \in {"CREATE", "DELETE", "other"}, p \in Policies : Send(r, op, p)
    \/ Apply(r) \/ Fail(r) \/ Succeed(r)

Spec == Init /\ [][Next]_<<sent, stage, store>>
================================================================================

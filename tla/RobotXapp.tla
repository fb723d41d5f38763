------------------------------- MODULE RobotXapp -------------------------------
(***************************************************************************)
(* The Robot xApp, robot-xapp.go: Consume starts a goroutine for each A1   *)
(* policy message, and the goroutine stores or deletes the policy in the   *)
(* shared data layer (SDL), counts, and hands the A1 response to RMR.      *)
(*                                                                         *)
(* RMR and the SDL are external: RMR delivers messages in order, and a     *)
(* call to the SDL that reports an error may or may not have been applied. *)
(* Requests are numbered as they are sent; the payload of request r is     *)
(* the text r, so the store tells which request it holds.  sdlKey is       *)
(* one-to-one (the type is a number), so a policy is its key.              *)
(***************************************************************************)
EXTENDS Naturals, Sequences

CONSTANTS
  Policies,     \* policy instances: a type and an instance id
  MaxRequests   \* bound: A1 messages sent to the xApp

ASSUME RobotAssumption == MaxRequests \in Nat

Requests == 1..MaxRequests

VARIABLES
  sent,      \* the A1 messages sent so far
  inbox,     \* the ones RMR holds for the xApp, in order
  pc,        \* where the goroutine of each request is
  answer,    \* the status each A1 response carries, "none" before there is one
  store,     \* the SDL: the text stored for each policy, 0 for none
  metrics,   \* the counters
  before     \* before[r]: the requests that were over when r was sent

vars == <<sent, inbox, pc, answer, store, metrics, before>>

Counters == {"PolicyCreates", "dbStores", "dbStoreFailures", "PolicyDeletes", "dbDeletes",
             "dbDeleteFailures", "NonexistentPolicyDeletes", "MessagesSent"}

\* What a goroutine may find out, and then answers.
Outcomes == {"stored", "notstored", "deleted", "notdeleted", "missing"}

\* Mutant: a creation is answered like a deletion, with the past participle.
Status_Created(outcome) ==
  CASE outcome = "stored" -> "CREATED"
    [] outcome = "deleted" -> "DELETED"
    [] outcome \in {"notstored", "notdeleted", "missing"} -> "ERROR"

Status(outcome) ==
  CASE outcome = "stored" -> "OK"
    [] outcome = "deleted" -> "DELETED"
    [] outcome \in {"notstored", "notdeleted", "missing"} -> "ERROR"

Counted(outcome) ==
  CASE outcome = "stored" -> {"PolicyCreates", "dbStores"}
    [] outcome = "notstored" -> {"dbStoreFailures"}
    [] outcome = "deleted" -> {"PolicyDeletes", "dbDeletes"}
    [] outcome = "notdeleted" -> {"dbDeleteFailures"}
    [] outcome = "missing" -> {"NonexistentPolicyDeletes"}

\* "other" stands for any other operation, message type, or text that is no JSON: Consume
\* looks at none of them.
Operations == {"CREATE", "DELETE", "other"}

Sent == 1..Len(sent)

Over == {r \in Requests : pc[r] \in {"answered", "ignored"}}

TypeOK ==
  /\ sent \in Seq([op : Operations, policy : Policies]) /\ Len(sent) <= MaxRequests
  /\ inbox \in Seq(Requests)
  /\ pc \in [Requests -> {"unsent", "queued", "create", "delete", "found", "answered", "ignored"}
                           \cup Outcomes]
  /\ answer \in [Requests -> {"none", "OK", "DELETED", "ERROR"}]
  /\ store \in [Policies -> 0..MaxRequests]
  /\ metrics \in [Counters -> Nat]
  /\ before \in [Requests -> SUBSET Requests]

Init ==
  /\ sent = <<>> /\ inbox = <<>>
  /\ pc = [r \in Requests |-> "unsent"]
  /\ answer = [r \in Requests |-> "none"]
  /\ store = [p \in Policies |-> 0]
  /\ metrics = [c \in Counters |-> 0]
  /\ before = [r \in Requests |-> {}]

Goto(r, from, to) == pc[r] = from /\ pc' = [pc EXCEPT ![r] = to]

--------------------------------------------------------------------------------
(* The RIC: it may wait for an answer before the next request, or not. *)

A1Send(op, p) ==
  LET r == Len(sent) + 1
  IN  /\ r <= MaxRequests
      /\ sent' = Append(sent, [op |-> op, policy |-> p])
      /\ inbox' = Append(inbox, r)
      /\ pc' = [pc EXCEPT ![r] = "queued"]
      /\ before' = [before EXCEPT ![r] = Over]
      /\ UNCHANGED <<answer, store, metrics>>

--------------------------------------------------------------------------------
(* The xApp *)

\* Mutant: no case for DELETE.
Started_CreateOnly(op) ==
  CASE op = "CREATE" -> "create" [] op \in {"DELETE", "other"} -> "ignored"

Started(op) ==
  CASE op = "CREATE" -> "create" [] op = "DELETE" -> "delete" [] op = "other" -> "ignored"

Consume ==
  /\ inbox # <<>>
  /\ Goto(Head(inbox), "queued", Started(sent[Head(inbox)].op))
  /\ inbox' = Tail(inbox)
  /\ UNCHANGED <<sent, answer, store, metrics, before>>

\* Mutant: the error of the store is not looked at.
CreatePolicy_Unchecked(r) ==
  /\ Goto(r, "create", "stored")
  /\ store' \in {store, [store EXCEPT ![sent[r].policy] = r]}
  /\ UNCHANGED <<sent, inbox, answer, metrics, before>>

CreatePolicy(r) ==
  LET written == [store EXCEPT ![sent[r].policy] = r]
  IN  /\ \/ Goto(r, "create", "stored") /\ store' = written
         \/ Goto(r, "create", "notstored") /\ store' \in {store, written}
      /\ UNCHANGED <<sent, inbox, answer, metrics, before>>

\* Mutant: a policy is deleted without a look whether it exists.
ReadPolicy_Blind(r) ==
  /\ Goto(r, "delete", "found")
  /\ UNCHANGED <<sent, inbox, answer, store, metrics, before>>

\* DeletePolicy looks for the policy; its read may fail, and then finds nothing.
ReadPolicy(r) ==
  /\ \/ Goto(r, "delete", "found") /\ store[sent[r].policy] # 0
     \/ Goto(r, "delete", "missing")
  /\ UNCHANGED <<sent, inbox, answer, store, metrics, before>>

\* Mutant: the policy is deleted after the answer that it was.
DeletePolicy_Late(r) ==
  /\ \/ Goto(r, "found", "deleted") /\ UNCHANGED store
     \/ Goto(r, "found", "notdeleted") /\ UNCHANGED store
  /\ UNCHANGED <<sent, inbox, answer, metrics, before>>

\* The delete that follows it in DeletePolicy, whatever the store holds by then.
DeletePolicy(r) ==
  LET removed == [store EXCEPT ![sent[r].policy] = 0]
  IN  /\ \/ Goto(r, "found", "deleted") /\ store' = removed
         \/ Goto(r, "found", "notdeleted") /\ store' \in {store, removed}
      /\ UNCHANGED <<sent, inbox, answer, metrics, before>>

\* The counters and the response.  Nothing in the program reads the counters, and whether
\* RMR sent the message is not looked at.
SendA1Response(r) ==
  /\ pc[r] \in Outcomes
  /\ Goto(r, pc[r], "answered")
  /\ answer' = [answer EXCEPT ![r] = Status(pc[r])]
  /\ metrics' = [c \in Counters |-> metrics[c] +
                   IF c \in Counted(pc[r]) \cup {"MessagesSent"} THEN 1 ELSE 0]
  /\ UNCHANGED <<sent, inbox, store, before>>

--------------------------------------------------------------------------------
Goroutine(r) == CreatePolicy(r) \/ ReadPolicy(r) \/ DeletePolicy(r) \/ SendA1Response(r)

Next ==
  \/ \E op \in Operations, p \in Policies : A1Send(op, p)
  \/ Consume
  \/ \E r \in Requests : Goroutine(r)

\* The receiving thread and every goroutine run; the RIC need not send anything.
Spec == Init /\ [][Next]_vars /\ WF_vars(Consume) /\ \A r \in Requests : WF_vars(Goroutine(r))

--------------------------------------------------------------------------------
(* Properties *)

OK(r)      == answer[r] = "OK"
Deleted(r) == answer[r] = "DELETED"

\* A request that succeeded wipes out everything that was over before it was sent: no
\* policy text of an earlier request comes back behind its answer.
NoResurrection ==
  \A r \in Sent : OK(r) \/ Deleted(r) => store[sent[r].policy] \notin before[r]

\* A client that sends requests for a policy one at a time reads its own writes: when all
\* other requests for it were over before r was sent, the store is what r answered.
OneAtATime ==
  \A r \in Sent :
    (\A q \in Sent : sent[q].policy = sent[r].policy => q = r \/ q \in before[r]) =>
      /\ OK(r) => store[sent[r].policy] = r
      /\ Deleted(r) => store[sent[r].policy] = 0

\* Two deletions of one policy may both report DELETED when they overlap; when the second
\* was sent after the first was over, somebody created the policy again meanwhile.
DeletedTwiceNeedsCreate ==
  \A d, e \in Sent :
    Deleted(d) /\ Deleted(e) /\ sent[d].policy = sent[e].policy /\ d \in before[e] =>
      \E c \in Sent :
        sent[c] = [op |-> "CREATE", policy |-> sent[d].policy] /\ c \notin before[d]

\* How far request r is, as a client sees it.
Stage(r) ==
  CASE pc[r] = "unsent" -> "unsent"
    [] pc[r] \in {"queued", "create", "delete", "found"} -> "pending"
    [] pc[r] \in {"stored", "deleted"} -> "applied"
    [] pc[r] = "answered" /\ answer[r] # "ERROR" -> "succeeded"
    [] OTHER -> "failed"

Policy == INSTANCE PolicyStore WITH stage <- [r \in Requests |-> Stage(r)]

\* Each request takes effect at most once and in one step, between the moment it is sent
\* and the moment it is answered, although a deletion reads the store first and deletes in
\* a second call, while other goroutines store and delete.
ImplementsPolicyStore == Policy!Spec

\* Every CREATE and DELETE gets its response, whatever the store does.
RequestsAnswered ==
  \A r \in Requests :
    pc[r] = "queued" ~> (answer[r] # "none" \/ (r \in Sent /\ sent[r].op = "other"))
================================================================================

---------------------------- MODULE RobotXappProofs ----------------------------
(***************************************************************************)
(* Proofs about RobotXapp for any policies and any number of requests:     *)
(* type correctness, what an answered request may still find in the store, *)
(* and the refinement of PolicyStore.                                      *)
(***************************************************************************)
EXTENDS RobotXapp, TLAPS

\* The requests sent are the ones with a goroutine or a place in the inbox; each goroutine
\* does what its message asks, and its answer says so.
GoroutinesAgree ==
  \A r \in Requests :
    /\ r \in Sent <=> pc[r] # "unsent"
    /\ pc[r] \in {"create", "stored", "notstored"} => sent[r].op = "CREATE"
    /\ pc[r] \in {"delete", "found", "deleted", "notdeleted", "missing"} => sent[r].op = "DELETE"
    /\ answer[r] # "none" => pc[r] = "answered"
    /\ OK(r) => sent[r].op = "CREATE"
    /\ Deleted(r) => sent[r].op = "DELETE"

\* What the store holds was put there by a creation of that policy that has done so.
StoreHolds ==
  \A p \in Policies : store[p] # 0 =>
    /\ store[p] \in Sent
    /\ sent[store[p]] = [op |-> "CREATE", policy |-> p]
    /\ pc[store[p]] \notin {"unsent", "queued", "create"}

Created(r) == pc[r] = "stored" \/ OK(r)
Removed(r) == pc[r] = "deleted" \/ Deleted(r)

BeforeIsOver == \A r \in Sent : before[r] \subseteq Over

\* A request that took effect keeps out what was over before it.
StoreIsNew ==
  \A r \in Sent : Created(r) \/ Removed(r) => store[sent[r].policy] \notin before[r]

\* A created policy is missing only when another request for it was not over before.
MissingHasRival ==
  \A r \in Sent : Created(r) /\ store[sent[r].policy] = 0 =>
    \E q \in Sent : sent[q].policy = sent[r].policy /\ q # r /\ q \notin before[r]

\* A policy found, although it was deleted before, was created again.
FoundIsCreated ==
  \A e \in Sent : pc[e] = "found" \/ Removed(e) =>
    \A d \in before[e] : Deleted(d) /\ sent[d].policy = sent[e].policy =>
      \E c \in Sent : sent[c] = [op |-> "CREATE", policy |-> sent[d].policy] /\ c \notin before[d]

Effects == BeforeIsOver /\ StoreIsNew /\ MissingHasRival /\ FoundIsCreated

IInv == TypeOK /\ GoroutinesAgree /\ StoreHolds /\ Effects

--------------------------------------------------------------------------------
(* Type correctness and the agreement of goroutines and messages *)

\* The initial state satisfies the invariant.
LEMMA InitIInv == Init => IInv
BY RobotAssumption
   DEF Init, IInv, TypeOK, GoroutinesAgree, StoreHolds, Effects, BeforeIsOver, StoreIsNew,
       MissingHasRival, FoundIsCreated, Sent, Requests, OK, Deleted, Created, Removed

\* A message sent is a message.
LEMMA Messages ==
  TypeOK =>
    \A r \in Sent : /\ r \in Requests /\ r # 0
                    /\ sent[r].op \in Operations /\ sent[r].policy \in Policies
                    /\ sent[r] = [op |-> sent[r].op, policy |-> sent[r].policy]
<1> SUFFICES ASSUME TypeOK, NEW r \in Sent
             PROVE  /\ r \in Requests /\ r # 0
                    /\ sent[r].op \in Operations /\ sent[r].policy \in Policies
                    /\ sent[r] = [op |-> sent[r].op, policy |-> sent[r].policy]
  OBVIOUS
<1>1. ASSUME NEW S, sent \in Seq(S) PROVE sent[r] \in S
  BY <1>1 DEF Sent
<1>2. sent[r] \in [op : Operations, policy : Policies]
  BY <1>1 DEF TypeOK
<1> QED
  BY <1>2, RobotAssumption DEF TypeOK, Sent, Requests

\* Sending a message adds it behind the others; every other step leaves them alone.
LEMMA SentGrows ==
  ASSUME TypeOK, NEW op, NEW p, A1Send(op, p)
  PROVE  LET r == Len(sent) + 1
         IN  /\ r \in Requests /\ r \notin Sent /\ Sent' = Sent \cup {r}
             /\ sent'[r] = [op |-> op, policy |-> p]
             /\ \A q \in Sent : sent'[q] = sent[q]
             /\ pc' = [pc EXCEPT ![r] = "queued"]
             /\ before' = [before EXCEPT ![r] = Over]
             /\ UNCHANGED <<answer, store, metrics>>
<1> DEFINE m == [op |-> op, policy |-> p]
<1>1. ASSUME NEW S, sent \in Seq(S)
      PROVE  /\ Len(sent) \in Nat /\ Len(Append(sent, m)) = Len(sent) + 1
             /\ Append(sent, m)[Len(sent) + 1] = m
             /\ \A q \in 1..Len(sent) : Append(sent, m)[q] = sent[q]
  <2> HIDE DEF m
  <2> QED
    BY <1>1
<1>2. /\ Len(sent) \in Nat /\ Len(Append(sent, m)) = Len(sent) + 1
      /\ Append(sent, m)[Len(sent) + 1] = m
      /\ \A q \in 1..Len(sent) : Append(sent, m)[q] = sent[q]
  BY <1>1 DEF TypeOK
<1>3. sent' = Append(sent, m) /\ Len(sent) + 1 <= MaxRequests
  BY DEF A1Send
<1>4. Len(sent)' = Len(sent) + 1
  BY <1>2, <1>3
<1> QED
  BY <1>2, <1>3, <1>4, RobotAssumption DEF A1Send, Sent, Requests

\* Each step keeps the types of the variables.
LEMMA TypeStep == TypeOK /\ GoroutinesAgree /\ [Next]_vars => TypeOK'
<1> SUFFICES ASSUME TypeOK, GoroutinesAgree, [Next]_vars PROVE TypeOK'
  OBVIOUS
<1> USE RobotAssumption DEF TypeOK, Requests, Outcomes, Goto
<1>1. ASSUME NEW op \in Operations, NEW p \in Policies, A1Send(op, p) PROVE TypeOK'
  BY <1>1 DEF A1Send, Over
<1>2. ASSUME Consume PROVE TypeOK'
  <2>1. Head(inbox) \in Sent
    BY <1>2 DEF Consume, GoroutinesAgree
  <2>2. sent[Head(inbox)].op \in Operations
    BY <2>1, Messages
  <2> QED
    BY <1>2, <2>2 DEF Consume, Started, Operations
<1>3. ASSUME NEW r \in Requests, CreatePolicy(r) PROVE TypeOK'
  <2>1. r \in 0..MaxRequests
    BY <1>3
  <2>2. [store EXCEPT ![sent[r].policy] = r] \in [Policies -> 0..MaxRequests]
    BY <2>1
  <2>3. store' \in [Policies -> 0..MaxRequests]
    BY <1>3, <2>2 DEF CreatePolicy
  <2> QED
    BY <1>3, <2>3 DEF CreatePolicy
<1>4. ASSUME NEW r \in Requests, ReadPolicy(r) PROVE TypeOK'
  BY <1>4 DEF ReadPolicy
<1>5. ASSUME NEW r \in Requests, DeletePolicy(r) PROVE TypeOK'
  <2>1. 0 \in 0..MaxRequests
    OBVIOUS
  <2>2. [store EXCEPT ![sent[r].policy] = 0] \in [Policies -> 0..MaxRequests]
    BY <2>1
  <2>3. store' \in [Policies -> 0..MaxRequests]
    BY <1>5, <2>2 DEF DeletePolicy
  <2> QED
    BY <1>5, <2>3 DEF DeletePolicy
<1>6. ASSUME NEW r \in Requests, SendA1Response(r) PROVE TypeOK'
  BY <1>6 DEF SendA1Response, Status
<1>7. CASE UNCHANGED vars
  BY <1>7 DEF vars
<1> QED
  BY <1>1, <1>2, <1>3, <1>4, <1>5, <1>6, <1>7 DEF Next, Goroutine

\* Each step keeps goroutines, messages and answers in agreement.
LEMMA AgreeStep == TypeOK /\ GoroutinesAgree /\ [Next]_vars => GoroutinesAgree'
<1> SUFFICES ASSUME TypeOK, GoroutinesAgree, [Next]_vars PROVE GoroutinesAgree'
  OBVIOUS
<1>0. UNCHANGED sent => Sent' = Sent
  BY DEF Sent
<1> USE <1>0 DEF TypeOK, GoroutinesAgree, Outcomes, Goto, OK, Deleted
<1>1. ASSUME NEW op \in Operations, NEW p \in Policies, A1Send(op, p) PROVE GoroutinesAgree'
  <2> DEFINE n == Len(sent) + 1
  <2>1. /\ n \in Requests /\ n \notin Sent /\ Sent' = Sent \cup {n}
        /\ sent'[n] = [op |-> op, policy |-> p]
        /\ \A q \in Sent : sent'[q] = sent[q]
        /\ pc' = [pc EXCEPT ![n] = "queued"] /\ answer' = answer
    BY <1>1, SentGrows
  <2> HIDE DEF n
  <2> QED
    BY <2>1
<1>2. ASSUME Consume PROVE GoroutinesAgree'
  <2>1. Head(inbox) \in Sent
    BY <1>2 DEF Consume
  <2>2. sent[Head(inbox)].op \in Operations
    BY <2>1, Messages
  <2> QED
    BY <1>2, <2>2 DEF Consume, Started, Operations
<1>3. ASSUME NEW r \in Requests, CreatePolicy(r) PROVE GoroutinesAgree'
  BY <1>3 DEF CreatePolicy
<1>4. ASSUME NEW r \in Requests, ReadPolicy(r) PROVE GoroutinesAgree'
  BY <1>4 DEF ReadPolicy
<1>5. ASSUME NEW r \in Requests, DeletePolicy(r) PROVE GoroutinesAgree'
  BY <1>5 DEF DeletePolicy
<1>6. ASSUME NEW r \in Requests, SendA1Response(r) PROVE GoroutinesAgree'
  BY <1>6 DEF SendA1Response, Status
<1>7. CASE UNCHANGED vars
  BY <1>7 DEF vars
<1> QED
  BY <1>1, <1>2, <1>3, <1>4, <1>5, <1>6, <1>7 DEF Next, Goroutine

--------------------------------------------------------------------------------
(* What the steps do, request by request and policy by policy *)

\* Only request r moves, and the messages, answers and earlier requests stay.
Moves(r) ==
  /\ \A q \in Requests : q # r => pc'[q] = pc[q]
  /\ UNCHANGED <<sent, before>> /\ Sent' = Sent

LEMMA ConsumeDoes ==
  ASSUME TypeOK, GoroutinesAgree, Consume
  PROVE  \E r \in Sent : /\ Moves(r) /\ pc[r] = "queued" /\ UNCHANGED <<answer, store>>
                         /\ pc'[r] \in {"create", "delete", "ignored"}
<1>1. Head(inbox) \in Requests /\ pc[Head(inbox)] = "queued"
  BY DEF TypeOK, Consume, Goto
<1>2. Head(inbox) \in Sent
  BY <1>1 DEF GoroutinesAgree
<1>3. sent[Head(inbox)].op \in Operations
  BY <1>2, Messages
<1>4. pc' = [pc EXCEPT ![Head(inbox)] = Started(sent[Head(inbox)].op)]
  BY DEF Consume, Goto
<1> QED
  BY <1>1, <1>2, <1>3, <1>4 DEF TypeOK, Consume, Started, Operations, Moves, Sent

LEMMA CreateDoes ==
  ASSUME TypeOK, GoroutinesAgree, NEW r \in Requests, CreatePolicy(r)
  PROVE  /\ Moves(r) /\ r \in Sent /\ r # 0 /\ UNCHANGED answer
         /\ sent[r].policy \in Policies
         /\ sent[r] = [op |-> "CREATE", policy |-> sent[r].policy]
         /\ pc[r] = "create" /\ pc'[r] \in {"stored", "notstored"}
         /\ \A p \in Policies : store'[p] = store[p] \/ (p = sent[r].policy /\ store'[p] = r)
         /\ pc'[r] = "stored" => store'[sent[r].policy] = r
<1>1. pc[r] = "create" /\ r \in Sent /\ sent[r].op = "CREATE"
  BY DEF CreatePolicy, Goto, GoroutinesAgree
<1>2. /\ r # 0 /\ sent[r].policy \in Policies
      /\ sent[r] = [op |-> "CREATE", policy |-> sent[r].policy]
  BY <1>1, Messages
<1>3. /\ pc' = [pc EXCEPT ![r] = "stored"] \/ pc' = [pc EXCEPT ![r] = "notstored"]
      /\ pc' = [pc EXCEPT ![r] = "stored"] => store' = [store EXCEPT ![sent[r].policy] = r]
      /\ store' = store \/ store' = [store EXCEPT ![sent[r].policy] = r]
      /\ UNCHANGED <<sent, answer, before>>
  <2> DEFINE written == [store EXCEPT ![sent[r].policy] = r]
  <2>1. \/ pc' = [pc EXCEPT ![r] = "stored"] /\ store' = written
        \/ pc' = [pc EXCEPT ![r] = "notstored"] /\ store' \in {store, written}
    BY DEF CreatePolicy, Goto
  <2>2. [pc EXCEPT ![r] = "stored"][r] # [pc EXCEPT ![r] = "notstored"][r]
    BY DEF TypeOK
  <2> QED
    BY <2>1, <2>2 DEF CreatePolicy
<1>4. store \in [Policies -> 0..MaxRequests]
  BY DEF TypeOK
<1>5. \A p \in Policies : store'[p] = store[p] \/ (p = sent[r].policy /\ store'[p] = r)
  BY <1>3, <1>4
<1>6. pc = [q \in Requests |-> pc[q]]
  BY DEF TypeOK
<1>7. Moves(r) /\ pc'[r] \in {"stored", "notstored"}
  BY <1>3, <1>6 DEF Moves, Sent
<1>8. pc'[r] = "stored" => store'[sent[r].policy] = r
  BY <1>2, <1>3, <1>4, <1>6
<1> QED
  BY <1>1, <1>2, <1>3, <1>5, <1>7, <1>8

LEMMA ReadDoes ==
  ASSUME TypeOK, GoroutinesAgree, NEW r \in Requests, ReadPolicy(r)
  PROVE  /\ Moves(r) /\ r \in Sent /\ UNCHANGED <<answer, store>>
         /\ sent[r].policy \in Policies
         /\ pc[r] = "delete" /\ pc'[r] \in {"found", "missing"}
         /\ pc'[r] = "found" => store[sent[r].policy] # 0
<1>1. pc[r] = "delete" /\ r \in Sent
  BY DEF ReadPolicy, Goto, GoroutinesAgree
<1> QED
  BY <1>1, Messages DEF TypeOK, ReadPolicy, Goto, Moves, Sent

LEMMA DeleteDoes ==
  ASSUME TypeOK, GoroutinesAgree, NEW r \in Requests, DeletePolicy(r)
  PROVE  /\ Moves(r) /\ r \in Sent /\ UNCHANGED answer
         /\ sent[r].policy \in Policies /\ sent[r].op = "DELETE"
         /\ pc[r] = "found" /\ pc'[r] \in {"deleted", "notdeleted"}
         /\ \A p \in Policies : store'[p] = store[p] \/ (p = sent[r].policy /\ store'[p] = 0)
         /\ pc'[r] = "deleted" => store'[sent[r].policy] = 0
<1>1. pc[r] = "found" /\ r \in Sent /\ sent[r].op = "DELETE"
  BY DEF DeletePolicy, Goto, GoroutinesAgree
<1>2. sent[r].policy \in Policies
  BY <1>1, Messages
<1>3. /\ pc' = [pc EXCEPT ![r] = "deleted"] \/ pc' = [pc EXCEPT ![r] = "notdeleted"]
      /\ pc' = [pc EXCEPT ![r] = "deleted"] => store' = [store EXCEPT ![sent[r].policy] = 0]
      /\ store' = store \/ store' = [store EXCEPT ![sent[r].policy] = 0]
      /\ UNCHANGED <<sent, answer, before>>
  <2> DEFINE removed == [store EXCEPT ![sent[r].policy] = 0]
  <2>1. \/ pc' = [pc EXCEPT ![r] = "deleted"] /\ store' = removed
        \/ pc' = [pc EXCEPT ![r] = "notdeleted"] /\ store' \in {store, removed}
    BY DEF DeletePolicy, Goto
  <2>2. [pc EXCEPT ![r] = "deleted"][r] # [pc EXCEPT ![r] = "notdeleted"][r]
    BY DEF TypeOK
  <2> QED
    BY <2>1, <2>2 DEF DeletePolicy
<1>4. store \in [Policies -> 0..MaxRequests]
  BY DEF TypeOK
<1>5. \A p \in Policies : store'[p] = store[p] \/ (p = sent[r].policy /\ store'[p] = 0)
  BY <1>3, <1>4
<1>6. pc = [q \in Requests |-> pc[q]]
  BY DEF TypeOK
<1>7. Moves(r) /\ pc'[r] \in {"deleted", "notdeleted"}
  BY <1>3, <1>6 DEF Moves, Sent
<1>8. pc'[r] = "deleted" => store'[sent[r].policy] = 0
  BY <1>2, <1>3, <1>4, <1>6
<1> QED
  BY <1>1, <1>2, <1>3, <1>5, <1>7, <1>8

LEMMA AnswerDoes ==
  ASSUME TypeOK, GoroutinesAgree, NEW r \in Requests, SendA1Response(r)
  PROVE  /\ Moves(r) /\ r \in Sent /\ UNCHANGED store
         /\ pc[r] \in Outcomes /\ pc'[r] = "answered"
         /\ \A q \in Requests : q # r => answer'[q] = answer[q]
         /\ answer'[r] = Status(pc[r])
         /\ answer'[r] = "OK" <=> pc[r] = "stored"
         /\ answer'[r] = "DELETED" <=> pc[r] = "deleted"
<1>1. pc[r] \in Outcomes /\ r \in Sent
  BY DEF SendA1Response, GoroutinesAgree, Outcomes
<1> QED
  BY <1>1 DEF TypeOK, SendA1Response, Goto, Moves, Sent, Status, Outcomes

--------------------------------------------------------------------------------
(* What the store holds *)

\* Each step keeps the store to policies that a request for them created.
LEMMA StoreStep == TypeOK /\ GoroutinesAgree /\ StoreHolds /\ [Next]_vars => StoreHolds'
<1> SUFFICES ASSUME TypeOK, GoroutinesAgree, StoreHolds, [Next]_vars PROVE StoreHolds'
  OBVIOUS
<1>0. \A p \in Policies : store[p] # 0 => store[p] \in Requests
  BY Messages DEF StoreHolds
<1>1. ASSUME NEW op \in Operations, NEW p \in Policies, A1Send(op, p) PROVE StoreHolds'
  <2> DEFINE n == Len(sent) + 1
  <2>1. /\ n \notin Sent /\ Sent' = Sent \cup {n} /\ n \in Requests
        /\ \A q \in Sent : sent'[q] = sent[q]
        /\ pc' = [pc EXCEPT ![n] = "queued"] /\ store' = store
    BY <1>1, SentGrows
  <2> HIDE DEF n
  <2>2. \A q \in Requests : q # n => pc'[q] = pc[q]
    BY <2>1 DEF TypeOK
  <2> QED
    BY <1>0, <2>1, <2>2 DEF StoreHolds
<1>2. ASSUME Consume PROVE StoreHolds'
  BY <1>0, <1>2, ConsumeDoes DEF StoreHolds, Moves
<1>3. ASSUME NEW r \in Requests, CreatePolicy(r) PROVE StoreHolds'
  <2>1. ASSUME NEW p \in Policies, store'[p] # 0
        PROVE  /\ store'[p] \in Sent /\ sent[store'[p]] = [op |-> "CREATE", policy |-> p]
               /\ pc'[store'[p]] \notin {"unsent", "queued", "create"}
    <3>1. CASE store'[p] = store[p]
      <4>1. /\ store[p] \in Requests /\ store[p] \in Sent
            /\ sent[store[p]] = [op |-> "CREATE", policy |-> p]
            /\ pc[store[p]] \notin {"unsent", "queued", "create"}
        BY <1>0, <2>1, <3>1 DEF StoreHolds
      <4>2. pc'[store[p]] \notin {"unsent", "queued", "create"}
        BY <1>3, <4>1, CreateDoes DEF Moves
      <4> QED
        BY <3>1, <4>1, <4>2
    <3>2. CASE p = sent[r].policy /\ store'[p] = r
      BY <1>3, <3>2, CreateDoes
    <3> QED
      BY <1>3, <3>1, <3>2, CreateDoes
  <2> QED
    BY <1>3, <2>1, CreateDoes DEF StoreHolds, Moves
<1>4. ASSUME NEW r \in Requests, ReadPolicy(r) PROVE StoreHolds'
  BY <1>0, <1>4, ReadDoes DEF StoreHolds, Moves
<1>5. ASSUME NEW r \in Requests, DeletePolicy(r) PROVE StoreHolds'
  BY <1>0, <1>5, DeleteDoes DEF StoreHolds, Moves
<1>6. ASSUME NEW r \in Requests, SendA1Response(r) PROVE StoreHolds'
  BY <1>0, <1>6, AnswerDoes DEF StoreHolds, Moves
<1>7. CASE UNCHANGED vars
  BY <1>7 DEF vars, StoreHolds, Sent
<1> QED
  BY <1>1, <1>2, <1>3, <1>4, <1>5, <1>6, <1>7 DEF Next, Goroutine

--------------------------------------------------------------------------------
(* What an answered request may find in the store *)

\* Sending a request disturbs none of the earlier ones.
LEMMA EffectsSend ==
  ASSUME IInv, NEW op \in Operations, NEW p \in Policies, A1Send(op, p)
  PROVE  Effects'
<1>1. PICK n \in Requests :
        /\ n \notin Sent /\ Sent' = Sent \cup {n}
        /\ \A q \in Sent : sent'[q] = sent[q]
        /\ pc' = [pc EXCEPT ![n] = "queued"] /\ before' = [before EXCEPT ![n] = Over]
        /\ UNCHANGED <<answer, store>>
  BY SentGrows DEF IInv
<1>2. /\ pc'[n] = "queued" /\ before'[n] = Over
      /\ \A q \in Requests : q # n => pc'[q] = pc[q] /\ before'[q] = before[q]
  BY <1>1 DEF IInv, TypeOK
<1>3. pc[n] = "unsent" /\ answer[n] = "none" /\ n \notin Over
  BY <1>1 DEF IInv, TypeOK, GoroutinesAgree, Over
<1>4. Over' = Over /\ Over \subseteq Sent
  BY <1>1, <1>2, <1>3 DEF Over, IInv, GoroutinesAgree
<1>5. \A r \in Sent : r \in Requests /\ r # n /\ before[r] \subseteq Sent
  BY <1>1, <1>4, Messages DEF IInv, Effects, BeforeIsOver
<1>6. /\ \A r \in Sent : (Created(r)' <=> Created(r)) /\ (Removed(r)' <=> Removed(r))
      /\ \A d \in Requests : Deleted(d)' <=> Deleted(d)
      /\ ~Created(n)' /\ ~Removed(n)'
  BY <1>1, <1>2, <1>3, <1>5 DEF Created, Removed, OK, Deleted
<1>7. BeforeIsOver'
  BY <1>1, <1>2, <1>4, <1>5 DEF IInv, Effects, BeforeIsOver
<1>8. StoreIsNew'
  BY <1>1, <1>2, <1>5, <1>6 DEF IInv, Effects, StoreIsNew
<1>9. MissingHasRival'
  BY <1>1, <1>2, <1>5, <1>6 DEF IInv, Effects, MissingHasRival
<1>10. FoundIsCreated'
  <2> SUFFICES ASSUME NEW e \in Sent', (pc[e] = "found" \/ Removed(e))',
                      NEW d \in before'[e], Deleted(d)', sent'[d].policy = sent'[e].policy
               PROVE  \E c \in Sent' : /\ sent'[c] = [op |-> "CREATE", policy |-> sent'[d].policy]
                                       /\ c \notin before'[d]
    BY DEF FoundIsCreated
  <2>1. e \in Sent /\ e # n /\ (pc[e] = "found" \/ Removed(e))
    BY <1>1, <1>2, <1>5, <1>6
  <2>2. d \in before[e] /\ d \in Sent /\ d # n /\ Deleted(d) /\ sent[d].policy = sent[e].policy
    BY <1>1, <1>2, <1>5, <1>6, <2>1
  <2>3. PICK c \in Sent : sent[c] = [op |-> "CREATE", policy |-> sent[d].policy] /\ c \notin before[d]
    BY <2>1, <2>2 DEF IInv, Effects, FoundIsCreated
  <2> QED
    BY <1>1, <1>2, <1>5, <2>2, <2>3
<1> QED
  BY <1>7, <1>8, <1>9, <1>10 DEF Effects

\* A step of one goroutine, that may store or delete its own policy, keeps every request
\* that took effect ahead of the earlier ones.
LEMMA EffectsMove ==
  ASSUME IInv, NEW m \in Sent, Moves(m), m \notin Over,
         \A q \in Requests : q # m => answer'[q] = answer[q],
         \A p \in Policies :
           store'[p] = store[p] \/ (p = sent[m].policy /\ store'[p] \in {m, 0}),
         Created(m)' => \/ Created(m) /\ store'[sent[m].policy] = store[sent[m].policy]
                        \/ store'[sent[m].policy] = m,
         Removed(m)' => Removed(m) \/ store'[sent[m].policy] = 0,
         (pc[m] = "found")' \/ Removed(m)' =>
           pc[m] = "found" \/ Removed(m) \/ store[sent[m].policy] # 0
  PROVE  Effects'
<1>1. /\ m \in Requests /\ 0 \notin Requests /\ m # 0
      /\ \A r \in Sent : r \in Requests /\ sent[r].policy \in Policies
  <2>1. 0 \notin Requests
    BY RobotAssumption DEF Requests
  <2> QED
    BY <2>1, Messages DEF IInv
<1>2. Sent' = Sent /\ sent' = sent /\ before' = before
  BY DEF Moves
<1>3. /\ \A r \in Sent : r # m => (Created(r)' <=> Created(r)) /\ (Removed(r)' <=> Removed(r))
      /\ \A r \in Requests : r # m => (Deleted(r)' <=> Deleted(r))
  BY <1>1 DEF Moves, Created, Removed, OK, Deleted
<1>4. Over \subseteq Over' /\ Over \subseteq Requests
  BY DEF Moves, Over
<1>5. \A r \in Sent : before[r] \subseteq Over /\ m \notin before[r] /\ 0 \notin before[r]
  BY <1>1, <1>4 DEF IInv, Effects, BeforeIsOver
<1>6. BeforeIsOver'
  BY <1>2, <1>4, <1>5 DEF BeforeIsOver
<1>7. StoreIsNew'
  <2> SUFFICES ASSUME NEW r \in Sent, Created(r)' \/ Removed(r)'
               PROVE  store'[sent[r].policy] \notin before[r]
    BY <1>2 DEF StoreIsNew
  <2>1. CASE store'[sent[r].policy] \in {m, 0}
    BY <1>5, <2>1
  <2>2. CASE store'[sent[r].policy] = store[sent[r].policy] /\ (Created(r) \/ Removed(r))
    BY <2>2 DEF IInv, Effects, StoreIsNew
  <2> QED
    BY <1>1, <1>3, <2>1, <2>2
<1>8. MissingHasRival'
  <2> SUFFICES ASSUME NEW r \in Sent, Created(r)', store'[sent[r].policy] = 0
               PROVE  \E q \in Sent : sent[q].policy = sent[r].policy /\ q # r /\ q \notin before[r]
    BY <1>2 DEF MissingHasRival
  <2>1. Created(r)
    BY <1>1, <1>3
  <2>2. CASE store[sent[r].policy] = 0
    BY <2>1, <2>2 DEF IInv, Effects, MissingHasRival
  <2>3. CASE store[sent[r].policy] # 0
    BY <1>1, <1>5, <2>3
  <2> QED
    BY <2>2, <2>3
<1>9. FoundIsCreated'
  <2> SUFFICES ASSUME NEW e \in Sent, (pc[e] = "found")' \/ Removed(e)',
                      NEW d \in before[e], Deleted(d)', sent[d].policy = sent[e].policy
               PROVE  \E c \in Sent : /\ sent[c] = [op |-> "CREATE", policy |-> sent[d].policy]
                                      /\ c \notin before[d]
    BY <1>2 DEF FoundIsCreated
  <2>1. d # m /\ d \in Over /\ Deleted(d)
    BY <1>3, <1>4, <1>5
  <2>2. d \in Sent
    BY <2>1 DEF IInv, GoroutinesAgree, Over
  <2>3. CASE pc[e] = "found" \/ Removed(e)
    BY <2>1, <2>3 DEF IInv, Effects, FoundIsCreated
  <2>4. CASE store[sent[e].policy] # 0
    <3>1. store[sent[d].policy] \notin before[d]
      BY <2>1, <2>2 DEF IInv, Effects, StoreIsNew, Removed
    <3> QED
      BY <1>1, <2>2, <2>4, <3>1 DEF IInv, StoreHolds
  <2> QED
    BY <1>1, <1>3, <2>3, <2>4 DEF Moves
<1> QED
  BY <1>6, <1>7, <1>8, <1>9 DEF Effects

\* Each step keeps the effects of the requests that have answered, or are about to.
LEMMA EffectsStep == IInv /\ [Next]_vars => Effects'
<1> SUFFICES ASSUME IInv, [Next]_vars PROVE Effects'
  OBVIOUS
<1>0. TypeOK /\ GoroutinesAgree
  BY DEF IInv
<1>1. ASSUME NEW op \in Operations, NEW p \in Policies, A1Send(op, p) PROVE Effects'
  BY <1>1, EffectsSend
<1>2. ASSUME Consume PROVE Effects'
  <2>1. PICK r \in Sent : /\ Moves(r) /\ pc[r] = "queued" /\ UNCHANGED <<answer, store>>
                          /\ pc'[r] \in {"create", "delete", "ignored"}
    BY <1>0, <1>2, ConsumeDoes
  <2> QED
    BY <1>0, <2>1, EffectsMove, Messages DEF Over, Created, Removed, OK, Deleted, GoroutinesAgree
<1>3. ASSUME NEW r \in Requests, CreatePolicy(r) PROVE Effects'
  <2>1. ~Removed(r)' /\ r \notin Over /\ (Created(r)' => pc'[r] = "stored")
    BY <1>0, <1>3, CreateDoes DEF Over, Created, Removed, OK, Deleted, GoroutinesAgree
  <2> QED
    BY <1>0, <1>3, <2>1, CreateDoes, EffectsMove
<1>4. ASSUME NEW r \in Requests, ReadPolicy(r) PROVE Effects'
  <2>1. ~Removed(r)' /\ r \notin Over /\ ~Created(r)'
    BY <1>0, <1>4, ReadDoes DEF Over, Created, Removed, OK, Deleted, GoroutinesAgree
  <2> QED
    BY <1>0, <1>4, <2>1, ReadDoes, EffectsMove
<1>5. ASSUME NEW r \in Requests, DeletePolicy(r) PROVE Effects'
  <2>1. (Removed(r)' => pc'[r] = "deleted") /\ r \notin Over /\ ~Created(r)'
    BY <1>0, <1>5, DeleteDoes DEF Over, Created, Removed, OK, Deleted, GoroutinesAgree
  <2> QED
    BY <1>0, <1>5, <2>1, DeleteDoes, EffectsMove
<1>6. ASSUME NEW r \in Requests, SendA1Response(r) PROVE Effects'
  <2>1. (Removed(r)' => Removed(r)) /\ r \notin Over /\ (Created(r)' => Created(r))
    BY <1>0, <1>6, AnswerDoes DEF Over, Created, Removed, OK, Deleted, Outcomes
  <2> QED
    BY <1>0, <1>6, <2>1, AnswerDoes, EffectsMove
<1>7. CASE UNCHANGED vars
  BY <1>7 DEF vars, IInv, Effects, BeforeIsOver, StoreIsNew, MissingHasRival, FoundIsCreated,
              Sent, Over, Created, Removed, OK, Deleted
<1> QED
  BY <1>1, <1>2, <1>3, <1>4, <1>5, <1>6, <1>7 DEF Next, Goroutine

--------------------------------------------------------------------------------
(* Theorems *)

\* The invariant holds in every reachable state.
LEMMA Invariance == Spec => []IInv
<1>1. IInv /\ [Next]_vars => IInv'
  BY TypeStep, AgreeStep, StoreStep, EffectsStep DEF IInv
<1> QED
  BY <1>1, InitIInv, PTL DEF Spec

\* Each variable of the xApp, the store and the transport keeps its type.
THEOREM TypeCorrect == Spec => []TypeOK
<1>1. IInv => TypeOK
  BY DEF IInv
<1> QED
  BY <1>1, Invariance, PTL

\* Behind the answer of a request that succeeded, no text of a request that was over before
\* it was sent comes back, however the goroutines of later requests interleave.
THEOREM NoResurrectionHolds == Spec => []NoResurrection
<1>1. IInv => NoResurrection
  BY Messages DEF IInv, Effects, StoreIsNew, NoResurrection, Created, Removed
<1> QED
  BY <1>1, Invariance, PTL

\* A client that sends its requests for a policy one at a time finds in the store what the
\* last one answered.
THEOREM OneAtATimeHolds == Spec => []OneAtATime
<1>1. IInv => OneAtATime
  <2> SUFFICES ASSUME IInv, NEW r \in Sent,
                      \A q \in Sent : sent[q].policy = sent[r].policy => q = r \/ q \in before[r]
               PROVE  /\ OK(r) => store[sent[r].policy] = r
                      /\ Deleted(r) => store[sent[r].policy] = 0
    BY DEF OneAtATime
  <2>1. sent[r].policy \in Policies /\ r \in Requests /\ r # 0
    BY Messages DEF IInv
  <2> DEFINE held == store[sent[r].policy]
  <2>2. held # 0 => held \in Sent /\ sent[held].op = "CREATE" /\ sent[held].policy = sent[r].policy
    <3>1. \A t \in Policies : store[t] # 0 =>
            store[t] \in Sent /\ sent[store[t]] = [op |-> "CREATE", policy |-> t]
      BY DEF IInv, StoreHolds
    <3>2. held # 0 => held \in Sent /\ sent[held] = [op |-> "CREATE", policy |-> sent[r].policy]
      BY <2>1, <3>1
    <3> QED
      BY <3>2
  <2>3. OK(r) \/ Deleted(r) => held \notin before[r]
    BY DEF IInv, Effects, StoreIsNew, Created, Removed
  <2>4. OK(r) => held # 0
    BY DEF IInv, Effects, MissingHasRival, Created
  <2>5. Deleted(r) => sent[r].op = "DELETE"
    BY <2>1 DEF IInv, GoroutinesAgree
  <2> HIDE DEF held
  <2>6. (OK(r) => held = r) /\ (Deleted(r) => held = 0)
    BY <2>2, <2>3, <2>4, <2>5
  <2> QED
    BY <2>6 DEF held
<1> QED
  BY <1>1, Invariance, PTL

\* Of two deletions of a policy, the second sent after the first was over, both report that
\* they deleted it only if it was created again.
THEOREM DeletedTwiceHolds == Spec => []DeletedTwiceNeedsCreate
<1>1. IInv => DeletedTwiceNeedsCreate
  BY DEF IInv, Effects, FoundIsCreated, DeletedTwiceNeedsCreate, Removed
<1> QED
  BY <1>1, Invariance, PTL

--------------------------------------------------------------------------------
(* Refinement *)

Stages == [r \in Requests |-> Stage(r)]

\* A step that changes how far one request is, is that request's step of the policy store.
LEMMA BecomeOne ==
  ASSUME NEW r \in Requests, NEW from, NEW to, Stage(r) = from, Stage(r)' = to,
         \A q \in Requests : q # r => Stage(q)' = Stage(q)
  PROVE  Policy!Become(r, from, to)
<1>1. Stages[r] = from /\ Stages' = [Stages EXCEPT ![r] = to]
  BY DEF Stages
<1> QED
  BY <1>1 DEF Policy!Become, Stages

\* A goroutine's step leaves the stage of the other requests as it was.
LEMMA OthersStay ==
  ASSUME NEW r \in Requests, Moves(r), \A q \in Requests : q # r => answer'[q] = answer[q]
  PROVE  \A q \in Requests : q # r => Stage(q)' = Stage(q)
BY DEF Moves, Stage

\* Sending a request is the policy store's Send.
LEMMA SendRefines ==
  ASSUME IInv, NEW op \in Operations, NEW p \in Policies, A1Send(op, p)
  PROVE  Policy!Next
<1>1. PICK n \in Requests :
        /\ n = Len(sent) + 1 /\ n \notin Sent
        /\ pc' = [pc EXCEPT ![n] = "queued"]
        /\ UNCHANGED <<answer, store>>
  BY SentGrows DEF IInv
<1>2. pc'[n] = "queued" /\ pc[n] = "unsent" /\ \A q \in Requests : q # n => pc'[q] = pc[q]
  BY <1>1 DEF IInv, TypeOK, GoroutinesAgree
<1>3. /\ Stage(n) = "unsent" /\ Stage(n)' = "pending"
      /\ \A q \in Requests : q # n => Stage(q)' = Stage(q)
  BY <1>1, <1>2 DEF Stage
<1>4. Policy!Become(n, "unsent", "pending")
  BY <1>3, BecomeOne
<1>5. Policy!Send(n, op, p)
  BY <1>1, <1>4 DEF A1Send, Policy!Send
<1> QED
  BY <1>5 DEF Policy!Next, Operations

\* Every step of the xApp is a step of the policy store, or leaves it as it is.
LEMMA RefinementStep == IInv /\ [Next]_vars => Policy!Next \/ UNCHANGED <<sent, Stages, store>>
<1> SUFFICES ASSUME IInv, [Next]_vars PROVE Policy!Next \/ UNCHANGED <<sent, Stages, store>>
  OBVIOUS
<1>0. TypeOK /\ GoroutinesAgree
  BY DEF IInv
<1>a. \A r \in Sent : r \in Requests
  BY <1>0, Messages
<1>1. ASSUME NEW op \in Operations, NEW p \in Policies, A1Send(op, p) PROVE Policy!Next
  BY <1>1, SendRefines
<1>2. ASSUME Consume PROVE Policy!Next \/ UNCHANGED <<sent, Stages, store>>
  <2>1. PICK r \in Sent : /\ Moves(r) /\ pc[r] = "queued" /\ UNCHANGED <<answer, store>>
                          /\ pc'[r] \in {"create", "delete", "ignored"}
    BY <1>0, <1>2, ConsumeDoes
  <2>2. \A q \in Requests : q # r => Stage(q)' = Stage(q)
    BY <1>a, <2>1, OthersStay
  <2>3. CASE pc'[r] = "ignored"
    <3>1. Stage(r) = "pending" /\ Stage(r)' = "failed"
      BY <2>1, <2>3 DEF Stage
    <3>2. Policy!Become(r, "pending", "failed")
      BY <1>a, <2>2, <3>1, BecomeOne
    <3> QED
      BY <1>a, <2>1, <3>2 DEF Moves, Policy!Fail, Policy!Next
  <2>4. CASE pc'[r] # "ignored"
    <3>1. Stage(r)' = Stage(r)
      BY <2>1, <2>4 DEF Stage
    <3> QED
      BY <2>1, <2>2, <3>1 DEF Moves, Stages
  <2> QED
    BY <2>3, <2>4
<1>3. ASSUME NEW r \in Requests, CreatePolicy(r) PROVE Policy!Next
  <2>1. \A q \in Requests : q # r => Stage(q)' = Stage(q)
    BY <1>0, <1>3, CreateDoes, OthersStay
  <2>2. /\ sent[r].op = "CREATE" /\ UNCHANGED sent
        /\ pc[r] = "create" /\ pc'[r] \in {"stored", "notstored"}
    <3>1. pc[r] = "create" /\ pc'[r] \in {"stored", "notstored"} /\ UNCHANGED sent
      BY <1>0, <1>3, CreateDoes DEF Moves
    <3> QED
      BY <1>0, <3>1 DEF GoroutinesAgree
  <2>3. /\ UNCHANGED store \/ store' = Policy!Effect(r)
        /\ pc'[r] = "stored" => store' = Policy!Effect(r)
    BY <1>0, <1>3, <2>2 DEF CreatePolicy, Policy!Effect, Goto, TypeOK
  <2>4. CASE pc'[r] = "stored"
    <3>1. Policy!Become(r, "pending", "applied")
      BY <2>1, <2>2, <2>4, BecomeOne DEF Stage
    <3> QED
      BY <2>2, <2>3, <2>4, <3>1 DEF Policy!Apply, Policy!Next
  <2>5. CASE pc'[r] = "notstored"
    <3>1. Policy!Become(r, "pending", "failed")
      BY <2>1, <2>2, <2>5, BecomeOne DEF Stage
    <3> QED
      BY <2>2, <2>3, <3>1 DEF Policy!Fail, Policy!Next
  <2> QED
    BY <2>2, <2>4, <2>5
<1>4. ASSUME NEW r \in Requests, ReadPolicy(r) PROVE Policy!Next \/ UNCHANGED <<sent, Stages, store>>
  <2>1. \A q \in Requests : q # r => Stage(q)' = Stage(q)
    BY <1>0, <1>4, ReadDoes, OthersStay
  <2>2. /\ UNCHANGED <<sent, store>>
        /\ pc[r] = "delete" /\ pc'[r] \in {"found", "missing"}
    BY <1>0, <1>4, ReadDoes DEF Moves
  <2>3. CASE pc'[r] = "found"
    <3>1. Stage(r)' = Stage(r)
      BY <2>2, <2>3 DEF Stage
    <3> QED
      BY <2>1, <2>2, <3>1 DEF Stages
  <2>4. CASE pc'[r] = "missing"
    <3>1. Policy!Become(r, "pending", "failed")
      BY <2>1, <2>2, <2>4, BecomeOne DEF Stage
    <3> QED
      BY <2>2, <3>1 DEF Policy!Fail, Policy!Next
  <2> QED
    BY <2>2, <2>3, <2>4
<1>5. ASSUME NEW r \in Requests, DeletePolicy(r) PROVE Policy!Next
  <2>1. \A q \in Requests : q # r => Stage(q)' = Stage(q)
    BY <1>0, <1>5, DeleteDoes, OthersStay
  <2>2. /\ sent[r].op = "DELETE" /\ UNCHANGED sent
        /\ pc[r] = "found" /\ pc'[r] \in {"deleted", "notdeleted"}
    BY <1>0, <1>5, DeleteDoes DEF Moves
  <2>3. /\ UNCHANGED store \/ store' = Policy!Effect(r)
        /\ pc'[r] = "deleted" => store' = Policy!Effect(r)
    BY <1>0, <1>5, <2>2 DEF DeletePolicy, Policy!Effect, Goto, TypeOK
  <2>4. CASE pc'[r] = "deleted"
    <3>1. Policy!Become(r, "pending", "applied")
      BY <2>1, <2>2, <2>4, BecomeOne DEF Stage
    <3> QED
      BY <2>2, <2>3, <2>4, <3>1 DEF Policy!Apply, Policy!Next
  <2>5. CASE pc'[r] = "notdeleted"
    <3>1. Policy!Become(r, "pending", "failed")
      BY <2>1, <2>2, <2>5, BecomeOne DEF Stage
    <3> QED
      BY <2>2, <2>3, <3>1 DEF Policy!Fail, Policy!Next
  <2> QED
    BY <2>2, <2>4, <2>5
<1>6. ASSUME NEW r \in Requests, SendA1Response(r) PROVE Policy!Next \/ UNCHANGED <<sent, Stages, store>>
  <2>1. \A q \in Requests : q # r => Stage(q)' = Stage(q)
    BY <1>0, <1>6, AnswerDoes, OthersStay
  <2>2. /\ UNCHANGED <<sent, store>> /\ pc[r] \in Outcomes /\ pc'[r] = "answered"
        /\ answer'[r] = Status(pc[r])
    BY <1>0, <1>6, AnswerDoes DEF Moves
  <2>3. CASE pc[r] \in {"stored", "deleted"}
    <3>1. Policy!Become(r, "applied", "succeeded")
      BY <2>1, <2>2, <2>3, BecomeOne DEF Stage, Status
    <3> QED
      BY <2>2, <3>1 DEF Policy!Succeed, Policy!Next
  <2>4. CASE pc[r] \notin {"stored", "deleted"}
    <3>1. Stage(r)' = Stage(r)
      BY <2>2, <2>4 DEF Stage, Status, Outcomes
    <3> QED
      BY <2>1, <2>2, <3>1 DEF Stages
  <2> QED
    BY <2>3, <2>4
<1>7. CASE UNCHANGED vars
  BY <1>7 DEF vars, Stages, Stage
<1> QED
  BY <1>1, <1>2, <1>3, <1>4, <1>5, <1>6, <1>7 DEF Next, Goroutine

\* The xApp keeps its policies as a store does in which each request takes effect at most
\* once, in one step, before it is answered.
THEOREM Refinement == Spec => ImplementsPolicyStore
<1>1. Init => Policy!Init
  BY RobotAssumption DEF Init, Policy!Init, Stage, Requests
<1>2. IInv /\ [Next]_vars => [Policy!Next]_<<sent, Stages, store>>
  BY RefinementStep
<1> QED
  BY <1>1, <1>2, Invariance, PTL DEF Spec, ImplementsPolicyStore, Policy!Spec, Stages
================================================================================

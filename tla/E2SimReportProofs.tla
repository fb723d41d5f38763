-------------------------- MODULE E2SimReportProofs ---------------------------
(***************************************************************************)
(* The kpm_sim process implements ReportService, for any number of         *)
(* instances: whatever they do to the descriptor they share, each request  *)
(* is in one place, and the messages about it are counted on all wires.    *)
(***************************************************************************)
EXTENDS E2SimProcessProofs, FiniteSetTheorems

Rids == 1..MaxRequests

--------------------------------------------------------------------------------
(* The messages on the wires *)

\* Where the messages of a type about a request are: Count is the number of these.
Cells(type, r) ==
  UNION {{c} \X {n \in DOMAIN wire[c] : wire[c][n].type = type /\ wire[c][n].rid = r}
           : c \in Nodes}

Answers(r) == Count("RICsubscriptionResponse", r)
Inds(r)    == Count("RICindication", r)

Kinds == {"RICsubscriptionResponse", "RICindication"}

WireType == wire \in [Nodes -> Seq(Outgoing)]

LEMMA CountCells == \A type, r : Count(type, r) = Cardinality(Cells(type, r))
BY DEF Count, Cells

\* A cell is a connection and a position.
LEMMA InCells ==
  \A type, r, x : x \in Cells(type, r) <=>
    \E c \in Nodes : \E n \in DOMAIN wire[c] :
      x = <<c, n>> /\ wire[c][n].type = type /\ wire[c][n].rid = r
BY DEF Cells

\* A message that is sent takes a new cell of its own type and request.
LEMMA SendCells ==
  ASSUME WireType, client_fd \in Nodes, NEW m \in Outgoing, sctp_send_data(m),
         NEW type \in Kinds, NEW r
  PROVE  /\ WireType'
         /\ \/ /\ m.type = type /\ m.rid = r
               /\ \E x : x \notin Cells(type, r) /\ Cells(type, r)' = Cells(type, r) \cup {x}
            \/ /\ ~ (m.type = type /\ m.rid = r)
               /\ Cells(type, r)' = Cells(type, r)
<1> DEFINE w == wire[client_fd]
           k == Len(w) + 1
<1>1. w \in Seq(Outgoing) /\ Len(w) \in Nat
  BY DEF WireType
<1>2. /\ Append(w, m) \in Seq(Outgoing)
      /\ DOMAIN Append(w, m) = 1..k /\ DOMAIN w = 1..Len(w)
      /\ Append(w, m)[k] = m
      /\ \A n \in 1..Len(w) : Append(w, m)[n] = w[n]
  BY <1>1
<1>3. wire' = [wire EXCEPT ![client_fd] = Append(w, m)]
  BY DEF sctp_send_data
<1>4. WireType'
  BY <1>2, <1>3 DEF WireType
<1>5. \A c \in Nodes : c # client_fd => wire'[c] = wire[c]
  BY <1>3 DEF WireType
<1>6. wire'[client_fd] = Append(w, m)
  BY <1>3 DEF WireType
<1>7. k \in 1..k /\ k \notin 1..Len(w) /\ 1..k = 1..Len(w) \cup {k}
  BY <1>1
<1> HIDE DEF w, k
<1>8. \A x : x \in Cells(type, r)' <=>
        \E c \in Nodes : \E n \in DOMAIN wire'[c] :
          x = <<c, n>> /\ wire'[c][n].type = type /\ wire'[c][n].rid = r
  BY DEF Cells
<1>9. \A x : x \in Cells(type, r)' <=>
        x \in Cells(type, r) \/ (x = <<client_fd, k>> /\ m.type = type /\ m.rid = r)
  <2>1. ASSUME NEW c \in Nodes, c # client_fd, NEW x
        PROVE  (\E n \in DOMAIN wire'[c] :
                  x = <<c, n>> /\ wire'[c][n].type = type /\ wire'[c][n].rid = r)
               <=> (\E n \in DOMAIN wire[c] :
                  x = <<c, n>> /\ wire[c][n].type = type /\ wire[c][n].rid = r)
    BY <1>5, <2>1
  <2>2. ASSUME NEW x
        PROVE  (\E n \in DOMAIN wire'[client_fd] :
                  x = <<client_fd, n>> /\ wire'[client_fd][n].type = type
                  /\ wire'[client_fd][n].rid = r)
               <=> \/ \E n \in DOMAIN wire[client_fd] :
                        x = <<client_fd, n>> /\ wire[client_fd][n].type = type
                        /\ wire[client_fd][n].rid = r
                   \/ x = <<client_fd, k>> /\ m.type = type /\ m.rid = r
    <3>1. DOMAIN wire'[client_fd] = DOMAIN wire[client_fd] \cup {k}
      BY <1>2, <1>6, <1>7 DEF w
    <3>2. wire'[client_fd][k] = m
      BY <1>2, <1>6
    <3>3. \A n \in DOMAIN wire[client_fd] : wire'[client_fd][n] = wire[client_fd][n]
      BY <1>2, <1>6 DEF w
    <3> QED
      BY <3>1, <3>2, <3>3
  <2> QED
    BY <1>8, <2>1, <2>2, InCells
<1>10. <<client_fd, k>> \notin Cells(type, r)
  <2>1. k \notin DOMAIN wire[client_fd]
    BY <1>2, <1>7 DEF w
  <2> QED
    BY <2>1, InCells
<1> QED
  <2>1. CASE m.type = type /\ m.rid = r
    BY <1>4, <1>9, <1>10, <2>1
  <2>2. CASE ~ (m.type = type /\ m.rid = r)
    <3>1. Cells(type, r)' = Cells(type, r)
      BY <1>9, <2>2
    <3> QED
      BY <1>4, <2>2, <3>1
  <2> QED
    BY <2>1, <2>2

--------------------------------------------------------------------------------
(* The invariant: each request is in one place, and the count of its messages agrees *)

Busy      == {"handling", "reporting", "indicated", "awaiting"}
Reporting == {"reporting", "indicated", "awaiting"}

\* The request a thread works for.
Hand(i) == IF pc[i] \in Busy THEN msg[i].rid ELSE 0

Queued(c, n) == to_sim[c][n].rid

\* A request is on its way once, or in the hands of one thread, and has been asked.
Distinct ==
  /\ \A c, d \in Nodes : \A m \in 1..Len(to_sim[c]), n \in 1..Len(to_sim[d]) :
       Queued(c, m) = Queued(d, n) /\ Queued(c, m) # 0 => c = d /\ m = n
  /\ \A i, c \in Nodes : \A n \in 1..Len(to_sim[c]) : Queued(c, n) = Hand(i) => Hand(i) = 0
  /\ \A i, j \in Nodes : Hand(i) = Hand(j) /\ Hand(i) # 0 => i = j
  /\ \A c \in Nodes : \A n \in 1..Len(to_sim[c]) : Queued(c, n) <= requests
  /\ \A i \in Nodes : Hand(i) <= requests

\* What has been sent about a request.
Tally(r) ==
  /\ \A type \in Kinds : IsFiniteSet(Cells(type, r))
  /\ Answers(r) \in {0, 1} /\ Inds(r) \in 0..MaxInd
  /\ Answers(r) = 0 => Inds(r) = 0
  /\ Unserved(r) \/ r > requests => Answers(r) = 0
  /\ \A i \in Nodes : pc[i] \in Reporting /\ msg[i].rid = r =>
       Answers(r) = 1 /\ Inds(r) + left[i] <= MaxInd

ReportInv == IInv /\ WireType /\ Distinct /\ \A r \in Rids : Tally(r)

\* Where a request is when it is not yet served.
LEMMA UnservedIs ==
  ASSUME IInv, NEW r \in Rids
  PROVE  Unserved(r) <=>
           \/ \E c \in Nodes : \E n \in 1..Len(to_sim[c]) : Queued(c, n) = r
           \/ \E i \in Nodes : pc[i] = "handling" /\ Hand(i) = r
<1>1. \A c \in Nodes : DOMAIN to_sim[c] = 1..Len(to_sim[c])
  BY DEF IInv, MessageType
<1> QED
  BY <1>1 DEF Unserved, Queued, Hand, Busy

\* What ReportService sees of a request.
LEMMA ServedIs ==
  ASSUME NEW r \in Rids, Tally(r)
  PROVE  Served(r) =
           [stage |-> IF Answers(r) = 1 THEN "answered"
                      ELSE IF Unserved(r) THEN "asked"
                      ELSE IF r <= requests THEN "dropped" ELSE "unasked",
            indications |-> Inds(r)]
BY ProcessAssumption DEF Served, Tally, Answers, Inds, Rids

\* The same of the next state.
LEMMA ServedWillBe ==
  ASSUME NEW r \in Rids, Tally(r)'
  PROVE  Served(r)' =
           [stage |-> IF Answers(r)' = 1 THEN "answered"
                      ELSE IF Unserved(r)' THEN "asked"
                      ELSE IF r <= requests' THEN "dropped" ELSE "unasked",
            indications |-> Inds(r)']
BY ProcessAssumption DEF Served, Tally, Answers, Inds, Rids

LEMMA UnservedWillBe ==
  ASSUME IInv', NEW r \in Rids
  PROVE  Unserved(r)' <=>
           \/ \E c \in Nodes : \E n \in 1..Len(to_sim'[c]) : Queued(c, n)' = r
           \/ \E i \in Nodes : pc'[i] = "handling" /\ Hand(i)' = r
<1>1. \A c \in Nodes : DOMAIN to_sim'[c] = 1..Len(to_sim'[c])
  BY DEF IInv, MessageType
<1> QED
  BY <1>1 DEF Unserved, Queued, Hand, Busy

--------------------------------------------------------------------------------
(* What a step does to the counts and to the queues *)

Hits(m, type, r) == IF m.type = type /\ m.rid = r THEN 1 ELSE 0

LEMMA SendCounts ==
  ASSUME ReportInv, NEW m \in Outgoing, sctp_send_data(m), NEW r \in Rids
  PROVE  /\ WireType'
         /\ \A type \in Kinds : IsFiniteSet(Cells(type, r)')
         /\ Answers(r)' = Answers(r) + Hits(m, "RICsubscriptionResponse", r)
         /\ Inds(r)' = Inds(r) + Hits(m, "RICindication", r)
<1>1. client_fd \in Nodes
  BY DEF sctp_send_data, ReportInv, IInv, ProcessType
<1>2. ASSUME NEW type \in Kinds
      PROVE  /\ WireType' /\ IsFiniteSet(Cells(type, r)')
             /\ Cardinality(Cells(type, r)') = Cardinality(Cells(type, r)) + Hits(m, type, r)
  <2>1. IsFiniteSet(Cells(type, r))
    BY DEF ReportInv, Tally
  <2>2. Cardinality(Cells(type, r)) \in Nat
    BY <2>1, FS_CardinalityType
  <2>3. WireType /\ WireType'
    BY <1>1, SendCells DEF ReportInv
  <2>4. CASE /\ m.type = type /\ m.rid = r
             /\ \E x : x \notin Cells(type, r) /\ Cells(type, r)' = Cells(type, r) \cup {x}
    BY <2>1, <2>3, <2>4, FS_AddElement DEF Hits
  <2>5. CASE ~ (m.type = type /\ m.rid = r) /\ Cells(type, r)' = Cells(type, r)
    BY <2>1, <2>2, <2>3, <2>5 DEF Hits
  <2> QED
    BY <1>1, <2>3, <2>4, <2>5, SendCells
<1>3. \A type \in Kinds : Count(type, r)' = Cardinality(Cells(type, r)')
  BY DEF Count, Cells
<1>4. \A type \in Kinds : Count(type, r) = Cardinality(Cells(type, r))
  BY CountCells
<1>5. {"RICsubscriptionResponse", "RICindication"} \subseteq Kinds
  BY DEF Kinds
<1> QED
  BY <1>2, <1>3, <1>4, <1>5 DEF Answers, Inds

\* A message that no count is about, or none.
SendsOther ==
  \/ UNCHANGED wire
  \/ \E m \in Outgoing : m.type \notin Kinds /\ sctp_send_data(m)

LEMMA OtherCounts ==
  ASSUME ReportInv, SendsOther
  PROVE  /\ WireType'
         /\ \A r \in Rids :
              /\ \A type \in Kinds : IsFiniteSet(Cells(type, r)')
              /\ Answers(r)' = Answers(r)
              /\ Inds(r)' = Inds(r)
<1>1. CASE UNCHANGED wire
  <2>1. wire' = wire
    BY <1>1
  <2>2. \A type, r : Cells(type, r)' = Cells(type, r) /\ Count(type, r)' = Count(type, r)
    BY <2>1 DEF Cells, Count
  <2>3. WireType'
    BY <2>1 DEF ReportInv, WireType
  <2> QED
    BY <2>2, <2>3 DEF ReportInv, Tally, Answers, Inds
<1>2. CASE \E m \in Outgoing : m.type \notin Kinds /\ sctp_send_data(m)
  <2>1. PICK m \in Outgoing : m.type \notin Kinds /\ sctp_send_data(m)
    BY <1>2
  <2>2. \A r \in Rids : Hits(m, "RICsubscriptionResponse", r) = 0 /\ Hits(m, "RICindication", r) = 0
    BY <2>1 DEF Hits, Kinds
  <2>3. \A r \in Rids : Answers(r) \in Int /\ Inds(r) \in Int
    BY DEF ReportInv, Tally
  <2>4. client_fd \in Nodes
    BY <2>1 DEF sctp_send_data, ReportInv, IInv, ProcessType
  <2>5. WireType'
    BY <2>1, <2>4, SendCells DEF ReportInv, Kinds
  <2>6. ASSUME NEW r \in Rids
        PROVE  /\ \A type \in Kinds : IsFiniteSet(Cells(type, r)')
               /\ Answers(r)' = Answers(r)
               /\ Inds(r)' = Inds(r)
    BY <2>1, <2>2, <2>3, SendCounts
  <2> QED
    BY <2>5, <2>6
<1> QED
  BY <1>1, <1>2 DEF SendsOther

\* A message joins the queue of a connection.
LEMMA QueueGrows ==
  ASSUME IInv, NEW c \in Nodes, NEW m \in Messages,
         to_sim' = [to_sim EXCEPT ![c] = Append(@, m)]
  PROVE  /\ \A d \in Nodes : \A n \in 1..Len(to_sim'[d]) :
              \/ d = c /\ n = Len(to_sim[c]) + 1 /\ Queued(d, n)' = m.rid
              \/ n \in 1..Len(to_sim[d]) /\ Queued(d, n)' = Queued(d, n)
         /\ \A d \in Nodes : \A n \in 1..Len(to_sim[d]) :
              n \in 1..Len(to_sim'[d]) /\ Queued(d, n)' = Queued(d, n)
         /\ Len(to_sim[c]) + 1 \in 1..Len(to_sim'[c])
         /\ to_sim'[c][Len(to_sim[c]) + 1].rid = m.rid
<1>1. to_sim \in [Nodes -> Seq(Messages)]
  BY DEF IInv, MessageType
<1>2. to_sim[c] \in Seq(Messages) /\ Len(to_sim[c]) \in Nat
  BY <1>1
<1>3. /\ Len(Append(to_sim[c], m)) = Len(to_sim[c]) + 1
      /\ Append(to_sim[c], m)[Len(to_sim[c]) + 1] = m
      /\ \A n \in 1..Len(to_sim[c]) : Append(to_sim[c], m)[n] = to_sim[c][n]
  BY <1>2
<1>4. to_sim'[c] = Append(to_sim[c], m) /\ \A d \in Nodes : d # c => to_sim'[d] = to_sim[d]
  BY <1>1
<1>5. ASSUME NEW n \in 1..Len(to_sim'[c])
      PROVE  \/ n = Len(to_sim[c]) + 1 /\ Queued(c, n)' = m.rid
             \/ n \in 1..Len(to_sim[c]) /\ Queued(c, n)' = Queued(c, n)
  BY <1>2, <1>3, <1>4 DEF Queued
<1>6. ASSUME NEW n \in 1..Len(to_sim[c])
      PROVE  n \in 1..Len(to_sim'[c]) /\ Queued(c, n)' = Queued(c, n)
  BY <1>2, <1>3, <1>4 DEF Queued
<1>7. \A d \in Nodes : d # c =>
        Len(to_sim'[d]) = Len(to_sim[d]) /\ \A n : Queued(d, n)' = Queued(d, n)
  BY <1>4 DEF Queued
<1>8. Len(to_sim[c]) + 1 \in 1..Len(to_sim'[c]) /\ to_sim'[c][Len(to_sim[c]) + 1].rid = m.rid
  <2>1. Len(to_sim[c]) + 1 \in 1..Len(to_sim'[c])
    BY <1>2, <1>3, <1>4
  <2>2. to_sim'[c][Len(to_sim[c]) + 1] = m
    BY <1>3, <1>4
  <2> QED
    BY <2>1, <2>2
<1> QED
  BY <1>5, <1>6, <1>7, <1>8

\* The first message of a connection is taken.
LEMMA QueueShrinks ==
  ASSUME IInv, NEW c \in Nodes, to_sim[c] # <<>>, to_sim' = [to_sim EXCEPT ![c] = Tail(@)]
  PROVE  /\ \A d \in Nodes : \A n \in 1..Len(to_sim'[d]) :
              \/ d = c /\ n + 1 \in 1..Len(to_sim[d]) /\ Queued(d, n)' = Queued(d, n + 1)
              \/ d # c /\ n \in 1..Len(to_sim[d]) /\ Queued(d, n)' = Queued(d, n)
         /\ \A d \in Nodes : \A n \in 1..Len(to_sim[d]) :
              \/ d = c /\ n = 1
              \/ d = c /\ n - 1 \in 1..Len(to_sim'[d]) /\ Queued(d, n - 1)' = Queued(d, n)
              \/ d # c /\ n \in 1..Len(to_sim'[d]) /\ Queued(d, n)' = Queued(d, n)
         /\ 1 \in 1..Len(to_sim[c]) /\ Head(to_sim[c]) = to_sim[c][1]
         /\ Head(to_sim[c]) \in Messages
<1>1. to_sim \in [Nodes -> Seq(Messages)]
  BY DEF IInv, MessageType
<1>2. to_sim[c] \in Seq(Messages) /\ Len(to_sim[c]) \in Nat /\ Len(to_sim[c]) > 0
  BY <1>1
<1>3. /\ Len(Tail(to_sim[c])) = Len(to_sim[c]) - 1
      /\ \A n \in 1..(Len(to_sim[c]) - 1) : Tail(to_sim[c])[n] = to_sim[c][n + 1]
      /\ Head(to_sim[c]) = to_sim[c][1]
      /\ to_sim[c][1] \in Messages
  BY <1>2
<1>4. to_sim'[c] = Tail(to_sim[c]) /\ \A d \in Nodes : d # c => to_sim'[d] = to_sim[d]
  BY <1>1
<1>5. ASSUME NEW n \in 1..Len(to_sim'[c])
      PROVE  n + 1 \in 1..Len(to_sim[c]) /\ Queued(c, n)' = Queued(c, n + 1)
  <2>0. Len(to_sim'[c]) = Len(to_sim[c]) - 1
    BY <1>3, <1>4
  <2>1. n \in 1..(Len(to_sim[c]) - 1) /\ n + 1 \in 1..Len(to_sim[c])
    BY <1>2, <2>0
  <2>2. to_sim'[c][n] = to_sim[c][n + 1]
    BY <1>3, <1>4, <2>1
  <2> QED
    BY <2>1, <2>2 DEF Queued
<1>6. ASSUME NEW n \in 1..Len(to_sim[c])
      PROVE  n = 1 \/ (n - 1 \in 1..Len(to_sim'[c]) /\ Queued(c, n - 1)' = Queued(c, n))
  <2> SUFFICES ASSUME n # 1
               PROVE  n - 1 \in 1..Len(to_sim'[c]) /\ Queued(c, n - 1)' = Queued(c, n)
    OBVIOUS
  <2>1. n - 1 \in 1..(Len(to_sim[c]) - 1) /\ n - 1 \in 1..Len(to_sim'[c]) /\ (n - 1) + 1 = n
    BY <1>2, <1>3, <1>4
  <2>2. to_sim'[c][n - 1] = to_sim[c][n]
    BY <1>3, <1>4, <2>1
  <2> QED
    BY <2>1, <2>2 DEF Queued
<1>7. \A d \in Nodes : d # c =>
        Len(to_sim'[d]) = Len(to_sim[d]) /\ \A n : Queued(d, n)' = Queued(d, n)
  BY <1>4 DEF Queued
<1>8. 1 \in 1..Len(to_sim[c])
  BY <1>2
<1> QED
  BY <1>3, <1>5, <1>6, <1>7, <1>8

--------------------------------------------------------------------------------
(* What a step does to what ReportService sees *)

ServedMap == [r \in 1..MaxRequests |-> Served(r)]

\* A request whose messages and place stay is served as before.
LEMMA SameServed ==
  ASSUME NEW r \in Rids, Tally(r), Tally(r)', Answers(r)' = Answers(r), Inds(r)' = Inds(r),
         Unserved(r)' <=> Unserved(r), r <= requests' <=> r <= requests
  PROVE  Served(r)' = Served(r)
BY ServedIs, ServedWillBe

LEMMA MoveServed ==
  ASSUME NEW r \in Rids, \A q \in Rids \ {r} : Served(q)' = Served(q)
  PROVE  Reports!Become(r, Served(r), Served(r)')
BY DEF Reports!Become, Rids

LEMMA StayServed ==
  ASSUME \A q \in Rids : Served(q)' = Served(q)
  PROVE  UNCHANGED ServedMap
BY DEF ServedMap, Rids

--------------------------------------------------------------------------------
(* The kinds of steps *)

\* No thread starts to work for a request, and the one that handles a request does so still.
QuietThreads ==
  \A i \in Nodes :
    /\ Hand(i)' \in {Hand(i), 0}
    /\ pc'[i] = "handling" <=> pc[i] = "handling"
    /\ pc[i] = "handling" => Hand(i)' = Hand(i)
    /\ pc'[i] \in Reporting => pc[i] \in Reporting /\ msg'[i] = msg[i] /\ left'[i] = left[i]

\* No request joins or leaves a queue.
QuietQueues ==
  \/ UNCHANGED to_sim
  \/ \E c \in Nodes : to_sim' = [to_sim EXCEPT ![c] = Append(@, Control)]

LEMMA KeptQueues ==
  ASSUME ReportInv, QuietQueues
  PROVE  /\ \A d \in Nodes : \A n \in 1..Len(to_sim'[d]) :
              Queued(d, n)' = 0 \/ (n \in 1..Len(to_sim[d]) /\ Queued(d, n)' = Queued(d, n))
         /\ \A d \in Nodes : \A n \in 1..Len(to_sim[d]) :
              n \in 1..Len(to_sim'[d]) /\ Queued(d, n)' = Queued(d, n)
<1>1. CASE UNCHANGED to_sim
  BY <1>1 DEF Queued
<1>2. CASE \E c \in Nodes : to_sim' = [to_sim EXCEPT ![c] = Append(@, Control)]
  <2>1. PICK c \in Nodes : to_sim' = [to_sim EXCEPT ![c] = Append(@, Control)]
    BY <1>2
  <2>2. Control \in Messages /\ Control.rid = 0
    BY Values DEF Control
  <2>3. IInv
    BY DEF ReportInv
  <2>4. /\ \A d \in Nodes : \A n \in 1..Len(to_sim'[d]) :
              \/ d = c /\ n = Len(to_sim[c]) + 1 /\ Queued(d, n)' = Control.rid
              \/ n \in 1..Len(to_sim[d]) /\ Queued(d, n)' = Queued(d, n)
        /\ \A d \in Nodes : \A n \in 1..Len(to_sim[d]) :
              n \in 1..Len(to_sim'[d]) /\ Queued(d, n)' = Queued(d, n)
    BY <2>1, <2>2, <2>3, QueueGrows
  <2> QED
    BY <2>2, <2>4
<1> QED
  BY <1>1, <1>2 DEF QuietQueues

\* What the numbers are.
LEMMA Numbers ==
  ASSUME IInv
  PROVE  /\ requests \in Nat
         /\ \A i \in Nodes : Hand(i) \in Nat /\ msg[i].rid \in 0..MaxRequests
         /\ \A c \in Nodes : \A n \in 1..Len(to_sim[c]) : Queued(c, n) \in 0..MaxRequests
<1>1. \A m \in Messages : m.rid \in 0..MaxRequests
  BY DEF Messages
<1>2. \A c \in Nodes : \A n \in 1..Len(to_sim[c]) : to_sim[c][n] \in Messages
  BY DEF IInv, MessageType
<1>3. requests \in Nat /\ \A i \in Nodes : msg[i] \in Messages
  BY DEF IInv, MessageType, ProcessType
<1> QED
  BY <1>1, <1>2, <1>3, ProcessAssumption DEF Hand, Queued

\* Steps that move no request and send nothing about one.
LEMMA QuietStep ==
  ASSUME ReportInv, IInv', QuietThreads, QuietQueues, SendsOther, UNCHANGED requests
  PROVE  ReportInv' /\ UNCHANGED ServedMap
<1> USE DEF ReportInv
<1>1. /\ \A d \in Nodes : \A n \in 1..Len(to_sim'[d]) :
              Queued(d, n)' = 0 \/ (n \in 1..Len(to_sim[d]) /\ Queued(d, n)' = Queued(d, n))
      /\ \A d \in Nodes : \A n \in 1..Len(to_sim[d]) :
              n \in 1..Len(to_sim'[d]) /\ Queued(d, n)' = Queued(d, n)
  BY KeptQueues
<1>n. requests \in Nat /\ (\A i \in Nodes : Hand(i) \in Nat)
  BY Numbers
<1>2. Distinct'
  <2>1. ASSUME NEW c \in Nodes, NEW d \in Nodes, NEW m \in 1..Len(to_sim'[c]),
               NEW n \in 1..Len(to_sim'[d]), Queued(c, m)' = Queued(d, n)', Queued(c, m)' # 0
        PROVE  c = d /\ m = n
    <3>1. m \in 1..Len(to_sim[c]) /\ Queued(c, m)' = Queued(c, m)
      BY <1>1, <2>1
    <3>2. n \in 1..Len(to_sim[d]) /\ Queued(d, n)' = Queued(d, n)
      BY <1>1, <2>1
    <3> QED
      BY <2>1, <3>1, <3>2 DEF Distinct
  <2>2. ASSUME NEW i \in Nodes, NEW c \in Nodes, NEW n \in 1..Len(to_sim'[c]),
               Queued(c, n)' = Hand(i)', Hand(i)' # 0
        PROVE  FALSE
    <3>1. n \in 1..Len(to_sim[c]) /\ Queued(c, n)' = Queued(c, n)
      BY <1>1, <2>2
    <3>2. Hand(i)' = Hand(i)
      BY <2>2 DEF QuietThreads
    <3> QED
      BY <2>2, <3>1, <3>2 DEF Distinct
  <2>3. \A i, j \in Nodes : Hand(i)' = Hand(j)' /\ Hand(i)' # 0 => i = j
    BY DEF QuietThreads, Distinct
  <2>4. \A c \in Nodes : \A n \in 1..Len(to_sim'[c]) : Queued(c, n)' <= requests'
    BY <1>1, <1>n DEF Distinct
  <2>5. \A i \in Nodes : Hand(i)' <= requests'
    BY <1>n DEF QuietThreads, Distinct
  <2> QED
    BY <2>1, <2>2, <2>3, <2>4, <2>5 DEF Distinct
<1>3. ASSUME NEW r \in Rids PROVE Unserved(r)' <=> Unserved(r)
  <2>1. r # 0
    BY DEF Rids
  <2>2. (\E c \in Nodes : \E n \in 1..Len(to_sim'[c]) : Queued(c, n)' = r)
        <=> (\E c \in Nodes : \E n \in 1..Len(to_sim[c]) : Queued(c, n) = r)
    BY <1>1, <2>1
  <2>3. (\E i \in Nodes : pc'[i] = "handling" /\ Hand(i)' = r)
        <=> (\E i \in Nodes : pc[i] = "handling" /\ Hand(i) = r)
    BY DEF QuietThreads
  <2> QED
    BY <2>2, <2>3, UnservedIs, UnservedWillBe
<1>4. WireType' /\ \A r \in Rids :
              /\ \A type \in Kinds : IsFiniteSet(Cells(type, r)')
              /\ Answers(r)' = Answers(r)
              /\ Inds(r)' = Inds(r)
  BY OtherCounts
<1>5. ASSUME NEW r \in Rids PROVE Tally(r)'
  <2>1. Tally(r)
    OBVIOUS
  <2>2. \A i \in Nodes : pc'[i] \in Reporting /\ msg'[i].rid = r =>
          Answers(r)' = 1 /\ Inds(r)' + left'[i] <= MaxInd
    BY <1>4, <2>1 DEF QuietThreads, Tally
  <2> QED
    BY <1>3, <1>4, <2>1, <2>2 DEF Tally
<1>6. \A r \in Rids : Served(r)' = Served(r)
  BY <1>3, <1>4, <1>5, SameServed
<1> QED
  BY <1>2, <1>4, <1>5, <1>6, StayServed

\* The thread that handles a message is done with it without a report: if the message was a
\* request, it is dropped.
LEMMA FinishStep ==
  ASSUME ReportInv, IInv', NEW i \in Nodes, pc[i] = "handling",
         NEW p \in Points \ Busy, Goto(i, p), SendsOther, UNCHANGED <<msg, left, to_sim, requests>>
  PROVE  ReportInv' /\ [Reports!Next]_ServedMap
<1> USE DEF ReportInv
<1>n. /\ requests \in Nat /\ (\A j \in Nodes : Hand(j) \in Nat)
      /\ Hand(i) = msg[i].rid /\ msg[i].rid \in 0..MaxRequests
  BY Numbers DEF Hand, Busy
<1>1. /\ pc'[i] = p /\ Hand(i)' = 0
      /\ \A j \in Nodes : j # i => pc'[j] = pc[j] /\ Hand(j)' = Hand(j)
  BY DEF Goto, IInv, ThreadType, Hand, Busy
<1>2. \A c \in Nodes : Len(to_sim'[c]) = Len(to_sim[c]) /\ \A n : Queued(c, n)' = Queued(c, n)
  BY DEF Queued
<1>3. Distinct'
  BY <1>n, <1>1, <1>2 DEF Distinct
<1>4. WireType' /\ \A r \in Rids :
              /\ \A type \in Kinds : IsFiniteSet(Cells(type, r)')
              /\ Answers(r)' = Answers(r)
              /\ Inds(r)' = Inds(r)
  BY OtherCounts
<1>5. ASSUME NEW r \in Rids
      PROVE  Unserved(r)' <=> Unserved(r) /\ r # Hand(i)
  <2>1. (\E c \in Nodes : \E n \in 1..Len(to_sim'[c]) : Queued(c, n)' = r)
        <=> (\E c \in Nodes : \E n \in 1..Len(to_sim[c]) : Queued(c, n) = r)
    BY <1>2
  <2>2. r # 0
    BY DEF Rids
  <2>3. (\E j \in Nodes : pc'[j] = "handling" /\ Hand(j)' = r)
        <=> (\E j \in Nodes : pc[j] = "handling" /\ Hand(j) = r) /\ r # Hand(i)
    BY <1>1, <2>2 DEF Distinct, Busy
  <2>4. r = Hand(i) => ~ \E c \in Nodes : \E n \in 1..Len(to_sim[c]) : Queued(c, n) = r
    BY <2>2 DEF Distinct
  <2> QED
    BY <2>1, <2>3, <2>4, UnservedIs, UnservedWillBe
<1>6. ASSUME NEW r \in Rids PROVE Tally(r)'
  <2>1. Tally(r)
    OBVIOUS
  <2>2. \A j \in Nodes : pc'[j] \in Reporting /\ msg'[j].rid = r =>
          Answers(r)' = 1 /\ Inds(r)' + left'[j] <= MaxInd
    BY <1>1, <1>4, <2>1 DEF Tally, Reporting, Busy
  <2> QED
    BY <1>4, <1>5, <2>1, <2>2 DEF Tally
<1>7. \A r \in Rids : r # Hand(i) => Served(r)' = Served(r)
  BY <1>4, <1>5, <1>6, SameServed
<1>8. ReportInv'
  BY <1>3, <1>4, <1>6
<1>9. CASE Hand(i) = 0
  <2>1. \A r \in Rids : r # 0
    BY DEF Rids
  <2> QED
    BY <1>7, <1>8, <1>9, <2>1, StayServed
<1>10. CASE Hand(i) # 0
  <2>1. PICK r \in Rids : r = Hand(i)
    BY <1>n, <1>10, ProcessAssumption DEF Rids
  <2>2. Unserved(r) /\ Tally(r) /\ Tally(r)' /\ ~ Unserved(r)'
    BY <1>5, <1>6, <2>1, UnservedIs
  <2>3. r <= requests
    BY <2>1 DEF Distinct
  <2>4. Answers(r) = 0 /\ Inds(r) = 0
    BY <2>2 DEF Tally
  <2>5. Served(r) = Reports!Stage("asked", 0)
    BY <2>1, <2>2, <2>4, ServedIs DEF Reports!Stage
  <2>6. Served(r)' = Reports!Stage("dropped", 0)
    BY <1>4, <2>1, <2>2, <2>3, <2>4, ServedWillBe DEF Reports!Stage
  <2>7. Reports!Drop(r)
    <3>1. Reports!Become(r, Served(r), Served(r)')
      BY <1>7, <2>1, MoveServed
    <3> QED
      BY <2>5, <2>6, <3>1 DEF Reports!Drop
  <2> QED
    BY <1>8, <2>1, <2>7 DEF Reports!Next, Rids
<1> QED
  BY <1>9, <1>10

\* What is left when a message about request h, or about none, leaves a queue.
Shortened(h) ==
  /\ h \in 0..MaxRequests /\ h <= requests
  /\ \A i \in Nodes : Hand(i) = h => h = 0
  /\ \A c, d \in Nodes : \A m \in 1..Len(to_sim'[c]), n \in 1..Len(to_sim'[d]) :
       Queued(c, m)' = Queued(d, n)' /\ Queued(c, m)' # 0 => c = d /\ m = n
  /\ \A c \in Nodes : \A n \in 1..Len(to_sim'[c]) :
       /\ Queued(c, n)' <= requests
       /\ Queued(c, n)' # 0 => Queued(c, n)' # h
       /\ \A i \in Nodes : Queued(c, n)' = Hand(i) => Hand(i) = 0
  /\ \A r \in Rids :
       (\E c \in Nodes : \E n \in 1..Len(to_sim[c]) : Queued(c, n) = r)
       <=> r = h \/ (\E c \in Nodes : \E n \in 1..Len(to_sim'[c]) : Queued(c, n)' = r)

LEMMA ShortQueues ==
  ASSUME ReportInv, NEW k \in Nodes, to_sim[k] # <<>>, to_sim' = [to_sim EXCEPT ![k] = Tail(@)],
         NEW h, h = Queued(k, 1)
  PROVE  Shortened(h) /\ Head(to_sim[k]) \in Messages /\ Head(to_sim[k]).rid = h
<1> USE DEF ReportInv
<1>1. /\ \A d \in Nodes : \A n \in 1..Len(to_sim'[d]) :
           \/ d = k /\ n + 1 \in 1..Len(to_sim[d]) /\ Queued(d, n)' = Queued(d, n + 1)
           \/ d # k /\ n \in 1..Len(to_sim[d]) /\ Queued(d, n)' = Queued(d, n)
      /\ \A d \in Nodes : \A n \in 1..Len(to_sim[d]) :
           \/ d = k /\ n = 1
           \/ d = k /\ n - 1 \in 1..Len(to_sim'[d]) /\ Queued(d, n - 1)' = Queued(d, n)
           \/ d # k /\ n \in 1..Len(to_sim'[d]) /\ Queued(d, n)' = Queued(d, n)
      /\ 1 \in 1..Len(to_sim[k]) /\ Head(to_sim[k]) = to_sim[k][1]
      /\ Head(to_sim[k]) \in Messages
  BY QueueShrinks
<1> DEFINE old(d, n) == IF d = k THEN n + 1 ELSE n
<1>2. \A d \in Nodes : \A n \in 1..Len(to_sim'[d]) :
        /\ old(d, n) \in 1..Len(to_sim[d]) /\ Queued(d, n)' = Queued(d, old(d, n))
        /\ ~ (d = k /\ old(d, n) = 1)
  BY <1>1
<1>3. \A d \in Nodes : \A m, n \in 1..Len(to_sim'[d]) : old(d, m) = old(d, n) => m = n
  OBVIOUS
<1> HIDE DEF old
<1>4. h \in 0..MaxRequests /\ h <= requests /\ Head(to_sim[k]).rid = h
  BY <1>1, Numbers DEF Queued, Distinct
<1>5. \A i \in Nodes : Hand(i) = h => h = 0
  BY <1>1 DEF Distinct
<1>6. ASSUME NEW c \in Nodes, NEW d \in Nodes, NEW m \in 1..Len(to_sim'[c]),
             NEW n \in 1..Len(to_sim'[d]), Queued(c, m)' = Queued(d, n)', Queued(c, m)' # 0
      PROVE  c = d /\ m = n
  <2>1. c = d /\ old(c, m) = old(d, n)
    BY <1>2, <1>6 DEF Distinct
  <2> QED
    BY <1>3, <2>1
<1>7. ASSUME NEW c \in Nodes, NEW n \in 1..Len(to_sim'[c])
      PROVE  /\ Queued(c, n)' <= requests
             /\ Queued(c, n)' # 0 => Queued(c, n)' # h
             /\ \A i \in Nodes : Queued(c, n)' = Hand(i) => Hand(i) = 0
  <2>1. PICK m \in 1..Len(to_sim[c]) : Queued(c, n)' = Queued(c, m) /\ ~ (c = k /\ m = 1)
    BY <1>2
  <2>2. Queued(c, m) <= requests /\ \A i \in Nodes : Queued(c, m) = Hand(i) => Hand(i) = 0
    BY DEF Distinct
  <2>3. Queued(c, m) # 0 => Queued(c, m) # h
    BY <1>1, <2>1 DEF Distinct
  <2> QED
    BY <2>1, <2>2, <2>3
<1>8. ASSUME NEW r \in Rids
      PROVE  (\E c \in Nodes : \E n \in 1..Len(to_sim[c]) : Queued(c, n) = r)
             <=> r = h \/ (\E c \in Nodes : \E n \in 1..Len(to_sim'[c]) : Queued(c, n)' = r)
  <2>1. ASSUME NEW c \in Nodes, NEW n \in 1..Len(to_sim[c]), Queued(c, n) = r
        PROVE  r = h \/ (\E d \in Nodes : \E m \in 1..Len(to_sim'[d]) : Queued(d, m)' = r)
    <3>1. CASE c = k /\ n = 1
      BY <2>1, <3>1
    <3>2. CASE c = k /\ n - 1 \in 1..Len(to_sim'[c]) /\ Queued(c, n - 1)' = Queued(c, n)
      <4>1. PICK m \in 1..Len(to_sim'[c]) : m = n - 1
        BY <3>2
      <4>2. Queued(c, m)' = r
        BY <2>1, <3>2, <4>1
      <4> QED
        BY <4>2
    <3>3. CASE c # k /\ n \in 1..Len(to_sim'[c]) /\ Queued(c, n)' = Queued(c, n)
      BY <2>1, <3>3
    <3> QED
      BY <1>1, <3>1, <3>2, <3>3
  <2>2. ASSUME NEW c \in Nodes, NEW n \in 1..Len(to_sim'[c]), Queued(c, n)' = r
        PROVE  \E d \in Nodes : \E m \in 1..Len(to_sim[d]) : Queued(d, m) = r
    BY <1>2, <2>2
  <2> QED
    BY <1>1, <2>1, <2>2
<1> QED
  BY <1>1, <1>4, <1>5, <1>6, <1>7, <1>8 DEF Shortened

\* A message that is taken for the answer to an indication is never handled: if it was a
\* request, it is dropped.
LEMMA AnswerStep ==
  ASSUME ReportInv, IInv', NEW i \in Nodes, ReceiveAnswer(i)
  PROVE  ReportInv' /\ [Reports!Next]_ServedMap
<1>k. PICK k \in Nodes : k = on[i]
  BY DEF ReceiveAnswer, ReportInv, IInv, Placed, Blocked
<1>h. PICK h : h = Queued(k, 1)
  OBVIOUS
<1>0. /\ to_sim[k] # <<>> /\ to_sim' = [to_sim EXCEPT ![k] = Tail(@)]
      /\ pc[i] = "awaiting" /\ Goto(i, "reporting")
      /\ UNCHANGED <<msg, left, wire, requests>>
  BY <1>k DEF ReceiveAnswer, Take, ric_vars
<1>1. Shortened(h)
  BY <1>0, <1>h, ShortQueues
<1> USE DEF ReportInv
<1>n. requests \in Nat /\ (\A j \in Nodes : Hand(j) \in Nat)
  BY Numbers
<1>2. /\ pc'[i] = "reporting" /\ Hand(i)' = Hand(i)
      /\ \A j \in Nodes : j # i => pc'[j] = pc[j] /\ Hand(j)' = Hand(j)
  BY <1>0 DEF Goto, IInv, ThreadType, Hand, Busy
<1>3. Distinct'
  <2>1. \A j \in Nodes : Hand(j)' \in {Hand(j), 0}
    BY <1>2
  <2> QED
    BY <1>0, <1>1, <1>n, <2>1 DEF Distinct, Shortened
<1>4. WireType' /\ \A r \in Rids :
              /\ \A type \in Kinds : IsFiniteSet(Cells(type, r)')
              /\ Answers(r)' = Answers(r)
              /\ Inds(r)' = Inds(r)
  BY <1>0, OtherCounts DEF SendsOther
<1>5. ASSUME NEW r \in Rids
      PROVE  /\ Unserved(r)' <=> Unserved(r) /\ r # h
             /\ r = h => Unserved(r)
  <2>1. r # 0
    BY DEF Rids
  <2>2. (\E j \in Nodes : pc'[j] = "handling" /\ Hand(j)' = r)
        <=> (\E j \in Nodes : pc[j] = "handling" /\ Hand(j) = r)
    BY <1>0, <1>2
  <2>3. r = h => ~ \E j \in Nodes : Hand(j) = r
    BY <1>1, <2>1 DEF Shortened
  <2>4. r = h => ~ \E c \in Nodes : \E n \in 1..Len(to_sim'[c]) : Queued(c, n)' = r
    BY <1>1, <2>1 DEF Shortened
  <2>5. Unserved(r) <=> \/ \E c \in Nodes : \E n \in 1..Len(to_sim[c]) : Queued(c, n) = r
                        \/ \E j \in Nodes : pc[j] = "handling" /\ Hand(j) = r
    BY UnservedIs
  <2>6. Unserved(r)' <=> \/ \E c \in Nodes : \E n \in 1..Len(to_sim'[c]) : Queued(c, n)' = r
                         \/ \E j \in Nodes : pc'[j] = "handling" /\ Hand(j)' = r
    BY UnservedWillBe
  <2>7. (\E c \in Nodes : \E n \in 1..Len(to_sim[c]) : Queued(c, n) = r)
        <=> r = h \/ (\E c \in Nodes : \E n \in 1..Len(to_sim'[c]) : Queued(c, n)' = r)
    BY <1>1 DEF Shortened
  <2> QED
    BY <2>2, <2>3, <2>4, <2>5, <2>6, <2>7
<1>6. ASSUME NEW r \in Rids PROVE Tally(r)'
  <2>1. Tally(r)
    OBVIOUS
  <2>2. \A j \in Nodes : pc'[j] \in Reporting => pc[j] \in Reporting
    BY <1>0, <1>2 DEF Reporting
  <2>3. \A j \in Nodes : pc'[j] \in Reporting /\ msg'[j].rid = r =>
          Answers(r)' = 1 /\ Inds(r)' + left'[j] <= MaxInd
    BY <1>0, <1>4, <2>1, <2>2 DEF Tally
  <2> QED
    BY <1>0, <1>4, <1>5, <2>1, <2>3 DEF Tally
<1>7. \A r \in Rids : r # h => Served(r)' = Served(r)
  BY <1>0, <1>4, <1>5, <1>6, SameServed
<1>8. ReportInv'
  BY <1>3, <1>4, <1>6
<1>9. CASE h = 0
  <2>1. \A r \in Rids : r # 0
    BY DEF Rids
  <2> QED
    BY <1>7, <1>8, <1>9, <2>1, StayServed
<1>10. CASE h # 0
  <2>1. h \in Rids
    BY <1>1, <1>10, ProcessAssumption DEF Rids, Shortened
  <2>2. Unserved(h) /\ Tally(h) /\ Tally(h)' /\ ~ Unserved(h)'
    BY <1>5, <1>6, <2>1
  <2>4. Answers(h) = 0 /\ Inds(h) = 0
    BY <2>2 DEF Tally
  <2>5. Served(h) = Reports!Stage("asked", 0)
    BY <2>1, <2>2, <2>4, ServedIs DEF Reports!Stage
  <2>6. Served(h)' = Reports!Stage("dropped", 0)
    BY <1>0, <1>1, <1>4, <2>1, <2>2, <2>4, ServedWillBe DEF Reports!Stage, Shortened
  <2>7. Reports!Drop(h)
    <3>1. Reports!Become(h, Served(h), Served(h)')
      BY <1>7, <2>1, MoveServed
    <3> QED
      BY <2>5, <2>6, <3>1 DEF Reports!Drop
  <2> QED
    BY <1>8, <2>1, <2>7 DEF Reports!Next, Rids
<1> QED
  BY <1>9, <1>10

\* A request that is received moves from the queue into the hands of the thread.
LEMMA ReceiveStep ==
  ASSUME ReportInv, IInv', NEW i \in Nodes, Receive(i)
  PROVE  ReportInv' /\ UNCHANGED ServedMap
<1>k. PICK k \in Nodes : k = on[i]
  BY DEF Receive, ReportInv, IInv, Placed, Blocked
<1>h. PICK h : h = Queued(k, 1)
  OBVIOUS
<1>0. /\ to_sim[k] # <<>> /\ to_sim' = [to_sim EXCEPT ![k] = Tail(@)]
      /\ pc[i] = "receiving" /\ Goto(i, "handling")
      /\ msg' = [msg EXCEPT ![i] = Head(to_sim[k])]
      /\ UNCHANGED <<left, wire, requests>>
  BY <1>k DEF Receive, Take, ric_vars
<1>1. Shortened(h) /\ Head(to_sim[k]).rid = h
  BY <1>0, <1>h, ShortQueues
<1> USE DEF ReportInv
<1>n. requests \in Nat /\ (\A j \in Nodes : Hand(j) \in Nat)
  BY Numbers
<1>2. /\ pc'[i] = "handling" /\ Hand(i) = 0 /\ Hand(i)' = h
      /\ \A j \in Nodes : j # i => pc'[j] = pc[j] /\ msg'[j] = msg[j] /\ Hand(j)' = Hand(j)
  BY <1>0, <1>1 DEF Goto, IInv, ThreadType, MessageType, Hand, Busy
<1>3. Distinct'
  <2>1. ASSUME NEW j \in Nodes, NEW c \in Nodes, NEW n \in 1..Len(to_sim'[c]),
               Queued(c, n)' = Hand(j)', Hand(j)' # 0
        PROVE  FALSE
    <3>1. CASE j = i
      BY <1>1, <1>2, <2>1, <3>1 DEF Shortened
    <3>2. CASE j # i
      BY <1>1, <1>2, <2>1, <3>2 DEF Shortened
    <3> QED
      BY <3>1, <3>2
  <2>2. \A j, l \in Nodes : Hand(j)' = Hand(l)' /\ Hand(j)' # 0 => j = l
    BY <1>1, <1>2 DEF Shortened, Distinct
  <2>3. \A j \in Nodes : Hand(j)' <= requests'
    BY <1>0, <1>1, <1>2 DEF Shortened, Distinct
  <2> QED
    BY <1>0, <1>1, <2>1, <2>2, <2>3 DEF Distinct, Shortened
<1>4. WireType' /\ \A r \in Rids :
              /\ \A type \in Kinds : IsFiniteSet(Cells(type, r)')
              /\ Answers(r)' = Answers(r)
              /\ Inds(r)' = Inds(r)
  BY <1>0, OtherCounts DEF SendsOther
<1>5. ASSUME NEW r \in Rids PROVE Unserved(r)' <=> Unserved(r)
  <2>1. r # 0
    BY DEF Rids
  <2>2. (\E j \in Nodes : pc'[j] = "handling" /\ Hand(j)' = r)
        <=> r = h \/ (\E j \in Nodes : pc[j] = "handling" /\ Hand(j) = r)
    BY <1>0, <1>2
  <2>3. (\E c \in Nodes : \E n \in 1..Len(to_sim[c]) : Queued(c, n) = r)
        <=> r = h \/ (\E c \in Nodes : \E n \in 1..Len(to_sim'[c]) : Queued(c, n)' = r)
    BY <1>1 DEF Shortened
  <2>4. Unserved(r) <=> \/ \E c \in Nodes : \E n \in 1..Len(to_sim[c]) : Queued(c, n) = r
                        \/ \E j \in Nodes : pc[j] = "handling" /\ Hand(j) = r
    BY UnservedIs
  <2>5. Unserved(r)' <=> \/ \E c \in Nodes : \E n \in 1..Len(to_sim'[c]) : Queued(c, n)' = r
                         \/ \E j \in Nodes : pc'[j] = "handling" /\ Hand(j)' = r
    BY UnservedWillBe
  <2> QED
    BY <2>2, <2>3, <2>4, <2>5
<1>6. ASSUME NEW r \in Rids PROVE Tally(r)'
  <2>1. Tally(r)
    OBVIOUS
  <2>2. \A j \in Nodes : pc'[j] \in Reporting => pc[j] \in Reporting /\ msg'[j] = msg[j]
    BY <1>2 DEF Reporting
  <2>3. \A j \in Nodes : pc'[j] \in Reporting /\ msg'[j].rid = r =>
          Answers(r)' = 1 /\ Inds(r)' + left'[j] <= MaxInd
    BY <1>0, <1>4, <2>1, <2>2 DEF Tally
  <2> QED
    BY <1>0, <1>4, <1>5, <2>1, <2>3 DEF Tally
<1>7. \A r \in Rids : Served(r)' = Served(r)
  BY <1>0, <1>4, <1>5, <1>6, SameServed
<1> QED
  BY <1>3, <1>4, <1>6, <1>7, StayServed

\* What the steps of a report have in common: thread i goes on working for its request.
LEMMA ReportStep ==
  ASSUME ReportInv, IInv', NEW i \in Nodes, pc[i] \in {"handling", "reporting"},
         NEW p \in Reporting, Goto(i, p), UNCHANGED <<msg, to_sim, requests>>
  PROVE  /\ Distinct'
         /\ Hand(i) = msg[i].rid /\ Hand(i) \in 0..MaxRequests /\ Hand(i) <= requests
         /\ pc'[i] = p /\ \A j \in Nodes : j # i => pc'[j] = pc[j]
         /\ \A j \in Nodes : pc[j] \in Reporting => Hand(j) = msg[j].rid
         /\ \A j \in Nodes : j # i /\ Hand(j) = Hand(i) => Hand(i) = 0
         /\ \A r \in Rids : Unserved(r)' <=> Unserved(r) /\ (pc[i] = "handling" => r # Hand(i))
<1> USE DEF ReportInv
<1>1. /\ pc'[i] = p /\ Hand(i)' = Hand(i) /\ Hand(i) = msg[i].rid
      /\ \A j \in Nodes : j # i => pc'[j] = pc[j] /\ Hand(j)' = Hand(j)
  BY DEF Goto, IInv, ThreadType, Hand, Busy, Reporting
<1>2. \A c \in Nodes : Len(to_sim'[c]) = Len(to_sim[c]) /\ \A n : Queued(c, n)' = Queued(c, n)
  BY DEF Queued
<1>3. Distinct'
  BY <1>1, <1>2 DEF Distinct
<1>4. Hand(i) \in 0..MaxRequests /\ Hand(i) <= requests
  BY <1>1, Numbers DEF Distinct
<1>5. ASSUME NEW r \in Rids
      PROVE  Unserved(r)' <=> Unserved(r) /\ (pc[i] = "handling" => r # Hand(i))
  <2>1. (\E c \in Nodes : \E n \in 1..Len(to_sim'[c]) : Queued(c, n)' = r)
        <=> (\E c \in Nodes : \E n \in 1..Len(to_sim[c]) : Queued(c, n) = r)
    BY <1>2
  <2>2. r # 0
    BY DEF Rids
  <2>3. (\E j \in Nodes : pc'[j] = "handling" /\ Hand(j)' = r)
        <=> /\ \E j \in Nodes : pc[j] = "handling" /\ Hand(j) = r
            /\ pc[i] = "handling" => r # Hand(i)
    BY <1>1, <2>2 DEF Distinct, Reporting
  <2>4. r = Hand(i) => ~ \E c \in Nodes : \E n \in 1..Len(to_sim[c]) : Queued(c, n) = r
    BY <2>2 DEF Distinct
  <2>5. Unserved(r) <=> \/ \E c \in Nodes : \E n \in 1..Len(to_sim[c]) : Queued(c, n) = r
                        \/ \E j \in Nodes : pc[j] = "handling" /\ Hand(j) = r
    BY UnservedIs
  <2>6. Unserved(r)' <=> \/ \E c \in Nodes : \E n \in 1..Len(to_sim'[c]) : Queued(c, n)' = r
                         \/ \E j \in Nodes : pc'[j] = "handling" /\ Hand(j)' = r
    BY UnservedWillBe
  <2> QED
    BY <2>1, <2>3, <2>4, <2>5, <2>6
<1>6. \A j \in Nodes : pc[j] \in Reporting => Hand(j) = msg[j].rid
  BY DEF Hand, Reporting, Busy
<1>7. \A j \in Nodes : j # i /\ Hand(j) = Hand(i) => Hand(i) = 0
  BY DEF Distinct
<1> QED
  BY <1>1, <1>3, <1>4, <1>5, <1>6, <1>7

\* The answer to a subscription request.
LEMMA RespondStep ==
  ASSUME ReportInv, IInv', NEW i \in Nodes, callback_kpm_subscription_request(i)
  PROVE  ReportInv' /\ [Reports!Next]_ServedMap
<1> DEFINE m == [type |-> "RICsubscriptionResponse", rid |-> msg[i].rid,
                 accepted |-> accepted(msg[i].body.actions)]
<1>m. m \in Outgoing /\ m.type = "RICsubscriptionResponse" /\ m.rid = msg[i].rid
  <2>1. msg[i].rid \in 0..MaxRequests /\ msg[i].body \in Bodies
    BY DEF ReportInv, IInv, MessageType, Messages, Bodies
  <2> QED
    BY <2>1 DEF Outgoing
<1>0. /\ pc[i] = "handling" /\ Goto(i, "reporting") /\ sctp_send_data(m)
      /\ left' = [left EXCEPT ![i] = IF trace.first THEN MaxInd ELSE 0]
      /\ UNCHANGED <<msg, to_sim, requests>>
  BY DEF callback_kpm_subscription_request, ric_vars
<1> HIDE DEF m
<1>1. /\ Distinct'
      /\ Hand(i) = msg[i].rid /\ Hand(i) \in 0..MaxRequests /\ Hand(i) <= requests
      /\ pc'[i] = "reporting" /\ \A j \in Nodes : j # i => pc'[j] = pc[j]
      /\ \A j \in Nodes : pc[j] \in Reporting => Hand(j) = msg[j].rid
      /\ \A j \in Nodes : j # i /\ Hand(j) = Hand(i) => Hand(i) = 0
      /\ \A r \in Rids : Unserved(r)' <=> Unserved(r) /\ r # Hand(i)
  BY <1>0, ReportStep DEF Reporting
<1>2. ASSUME NEW r \in Rids
      PROVE  /\ WireType'
             /\ \A type \in Kinds : IsFiniteSet(Cells(type, r)')
             /\ Answers(r)' = Answers(r) + (IF r = Hand(i) THEN 1 ELSE 0)
             /\ Inds(r)' = Inds(r)
  <2>1. Hits(m, "RICsubscriptionResponse", r) = (IF r = Hand(i) THEN 1 ELSE 0)
        /\ Hits(m, "RICindication", r) = 0
    BY <1>1, <1>m DEF Hits
  <2>2. Inds(r) \in Int
    BY DEF ReportInv, Tally
  <2> QED
    BY <1>0, <1>m, <2>1, <2>2, SendCounts
<1> USE DEF ReportInv
<1>w. WireType'
  BY <1>0, <1>m, SendCells DEF IInv, ProcessType, sctp_send_data, Kinds
<1>3. Hand(i) # 0 => Hand(i) \in Rids
  BY <1>1, ProcessAssumption DEF Rids
<1>4. Hand(i) # 0 => Unserved(Hand(i)) /\ Answers(Hand(i)) = 0 /\ Inds(Hand(i)) = 0
  BY <1>0, <1>3, UnservedIs DEF Tally
<1>l. left'[i] \in 0..MaxInd /\ \A j \in Nodes : j # i => left'[j] = left[j]
  BY <1>0, ProcessAssumption DEF IInv, ThreadType
<1>5. ASSUME NEW r \in Rids PROVE Tally(r)'
  <2>1. Tally(r) /\ r # 0 /\ Answers(r) \in {0, 1} /\ Inds(r) \in 0..MaxInd
    BY DEF Tally, Rids
  <2>2. CASE r = Hand(i)
    <3>1. Answers(r)' = 1 /\ Inds(r)' = 0 /\ r <= requests /\ ~ Unserved(r)'
      BY <1>1, <1>2, <1>4, <2>1, <2>2
    <3>2. \A j \in Nodes : pc'[j] \in Reporting /\ msg'[j].rid = r => j = i
      BY <1>0, <1>1, <2>1, <2>2
    <3>3. requests' = requests /\ requests \in Nat /\ r \in Nat
      BY <1>0, Numbers DEF Rids
    <3> QED
      BY <1>2, <1>l, <3>1, <3>2, <3>3, ProcessAssumption DEF Tally
  <2>3. CASE r # Hand(i)
    <3>1. Answers(r)' = Answers(r) /\ Inds(r)' = Inds(r)
      BY <1>2, <2>1, <2>3
    <3>2. \A j \in Nodes : pc'[j] \in Reporting /\ msg'[j].rid = r =>
            pc[j] \in Reporting /\ msg[j].rid = r /\ left'[j] = left[j]
      BY <1>0, <1>1, <1>l, <2>3
    <3> QED
      BY <1>0, <1>1, <1>2, <2>1, <3>1, <3>2 DEF Tally
  <2> QED
    BY <2>2, <2>3
<1>6. \A r \in Rids : Answers(r) \in {0, 1}
  BY DEF Tally
<1>7. \A r \in Rids : r # Hand(i) => Served(r)' = Served(r)
  BY <1>0, <1>1, <1>2, <1>5, <1>6, SameServed
<1>8. ReportInv'
  BY <1>1, <1>w, <1>5
<1>9. CASE Hand(i) = 0
  <2>1. \A r \in Rids : r # 0
    BY DEF Rids
  <2> QED
    BY <1>7, <1>8, <1>9, <2>1, StayServed
<1>10. CASE Hand(i) # 0
  <2>1. PICK r \in Rids : r = Hand(i)
    BY <1>3, <1>10
  <2>2. Served(r) = Reports!Stage("asked", 0)
    BY <1>4, <1>10, <2>1, ServedIs DEF Reports!Stage
  <2>3. Answers(r)' = 1 /\ Inds(r)' = 0
    BY <1>2, <1>4, <1>10, <2>1
  <2>4. Served(r)' = Reports!Stage("answered", 0)
    BY <1>5, <2>3, ServedWillBe DEF Reports!Stage
  <2>5. Reports!Respond(r)
    <3>1. Reports!Become(r, Served(r), Served(r)')
      BY <1>7, <2>1, MoveServed
    <3> QED
      BY <2>2, <2>4, <3>1 DEF Reports!Respond
  <2> QED
    BY <1>8, <2>5 DEF Reports!Next, Rids
<1> QED
  BY <1>9, <1>10

\* The next indication of a report.
LEMMA IndicateStep ==
  ASSUME ReportInv, IInv', NEW i \in Nodes, run_report_loop(i)
  PROVE  ReportInv' /\ [Reports!Next]_ServedMap
<1> DEFINE m == [type |-> "RICindication", rid |-> msg[i].rid,
                 action |-> reqActionId(msg[i].body.actions),
                 seq |-> MaxInd - left[i] + 1]
<1>l. left[i] \in 1..MaxInd
  BY ProcessAssumption DEF run_report_loop, ReportInv, IInv, ThreadType
<1>m. m \in Outgoing /\ m.type = "RICindication" /\ m.rid = msg[i].rid
  <2>1. msg[i].rid \in 0..MaxRequests /\ msg[i].body \in Bodies
    BY DEF ReportInv, IInv, MessageType, Messages, Bodies
  <2>2. MaxInd - left[i] + 1 \in 1..MaxInd
    BY <1>l, ProcessAssumption
  <2> QED
    BY <2>1, <2>2 DEF Outgoing
<1>0. /\ pc[i] = "reporting" /\ Goto(i, "indicated") /\ sctp_send_data(m)
      /\ left' = [left EXCEPT ![i] = @ - 1] /\ UNCHANGED <<msg, to_sim, requests>>
  BY DEF run_report_loop, ric_vars
<1> HIDE DEF m
<1>1. /\ Distinct'
      /\ Hand(i) = msg[i].rid /\ Hand(i) \in 0..MaxRequests /\ Hand(i) <= requests
      /\ pc'[i] = "indicated" /\ \A j \in Nodes : j # i => pc'[j] = pc[j]
      /\ \A j \in Nodes : pc[j] \in Reporting => Hand(j) = msg[j].rid
      /\ \A j \in Nodes : j # i /\ Hand(j) = Hand(i) => Hand(i) = 0
      /\ \A r \in Rids : Unserved(r)' <=> Unserved(r)
  BY <1>0, ReportStep DEF Reporting
<1>2. ASSUME NEW r \in Rids
      PROVE  /\ WireType'
             /\ \A type \in Kinds : IsFiniteSet(Cells(type, r)')
             /\ Answers(r)' = Answers(r)
             /\ Inds(r)' = Inds(r) + (IF r = Hand(i) THEN 1 ELSE 0)
  <2>1. Hits(m, "RICindication", r) = (IF r = Hand(i) THEN 1 ELSE 0)
        /\ Hits(m, "RICsubscriptionResponse", r) = 0
    BY <1>1, <1>m DEF Hits
  <2>2. Answers(r) \in Int
    BY DEF ReportInv, Tally
  <2> QED
    BY <1>0, <1>m, <2>1, <2>2, SendCounts
<1> USE DEF ReportInv
<1>w. WireType'
  BY <1>0, <1>m, SendCells DEF IInv, ProcessType, sctp_send_data, Kinds
<1>3. Hand(i) # 0 => Hand(i) \in Rids
  BY <1>1, ProcessAssumption DEF Rids
<1>4. Hand(i) # 0 => Answers(Hand(i)) = 1 /\ Inds(Hand(i)) + left[i] <= MaxInd
  BY <1>0, <1>1, <1>3 DEF Tally, Reporting
<1>e. left'[i] = left[i] - 1 /\ \A j \in Nodes : j # i => left'[j] = left[j]
  BY <1>0 DEF IInv, ThreadType
<1>n. requests' = requests /\ requests \in Nat
  BY <1>0, Numbers
<1>5. ASSUME NEW r \in Rids PROVE Tally(r)'
  <2>1. Tally(r) /\ r # 0 /\ r \in Nat /\ Answers(r) \in {0, 1} /\ Inds(r) \in 0..MaxInd
    BY DEF Tally, Rids
  <2>2. CASE r = Hand(i)
    <3>1. Answers(r)' = 1 /\ Inds(r)' + left'[i] <= MaxInd /\ Inds(r)' \in 0..MaxInd
      BY <1>2, <1>4, <1>e, <1>l, <2>1, <2>2, ProcessAssumption
    <3>2. \A j \in Nodes : pc'[j] \in Reporting /\ msg'[j].rid = r => j = i
      BY <1>0, <1>1, <2>1, <2>2
    <3>3. ~ Unserved(r)' /\ r <= requests'
      BY <1>1, <1>4, <1>n, <2>1, <2>2 DEF Tally
    <3> QED
      BY <1>2, <1>n, <2>1, <3>1, <3>2, <3>3 DEF Tally
  <2>3. CASE r # Hand(i)
    <3>1. Answers(r)' = Answers(r) /\ Inds(r)' = Inds(r)
      BY <1>2, <2>1, <2>3
    <3>2. \A j \in Nodes : pc'[j] \in Reporting /\ msg'[j].rid = r =>
            pc[j] \in Reporting /\ msg[j].rid = r /\ left'[j] = left[j]
      BY <1>0, <1>1, <1>e, <2>3
    <3> QED
      BY <1>0, <1>1, <1>2, <2>1, <3>1, <3>2 DEF Tally
  <2> QED
    BY <2>2, <2>3
<1>6. \A r \in Rids : Inds(r) \in Int
  BY DEF Tally
<1>7. \A r \in Rids : r # Hand(i) => Served(r)' = Served(r)
  BY <1>0, <1>1, <1>2, <1>5, <1>6, SameServed
<1>8. ReportInv'
  BY <1>1, <1>w, <1>5
<1>9. CASE Hand(i) = 0
  <2>1. \A r \in Rids : r # 0
    BY DEF Rids
  <2> QED
    BY <1>7, <1>8, <1>9, <2>1, StayServed
<1>10. CASE Hand(i) # 0
  <2>1. PICK r \in Rids : r = Hand(i)
    BY <1>3, <1>10
  <2>n. PICK n \in 0..(MaxInd - 1) : n = Inds(r)
    BY <1>4, <1>10, <1>l, <2>1, ProcessAssumption DEF Tally
  <2>2. Served(r) = Reports!Stage("answered", n)
    BY <1>4, <1>10, <2>1, <2>n, ServedIs DEF Reports!Stage
  <2>3. Answers(r)' = 1 /\ Inds(r)' = n + 1
    BY <1>2, <1>4, <1>10, <2>1, <2>n
  <2>4. Served(r)' = Reports!Stage("answered", n + 1)
    BY <1>5, <2>3, ServedWillBe DEF Reports!Stage
  <2>5. Reports!Indicate(r)
    <3>1. Reports!Become(r, Served(r), Served(r)')
      BY <1>7, <2>1, MoveServed
    <3> QED
      BY <2>2, <2>4, <3>1 DEF Reports!Indicate
  <2> QED
    BY <1>8, <2>5 DEF Reports!Next, Rids
<1> QED
  BY <1>9, <1>10

\* The RIC sends the next message: it may be a subscription request.
LEMMA AskStep ==
  ASSUME ReportInv, IInv', NEW c \in Nodes, NEW body \in Inputs, RicSend(c, body)
  PROVE  ReportInv' /\ [Reports!Next]_ServedMap
<1>i. IInv
  BY DEF ReportInv
<1>n. requests \in Nat /\ (\A j \in Nodes : Hand(j) \in Nat)
  BY <1>i, Numbers
<1>r. PICK r : r = requests + 1
  OBVIOUS
<1>0. /\ requests' = r /\ r \in Rids
      /\ to_sim' = [to_sim EXCEPT ![c] = Append(@, [body |-> body, rid |-> r])]
      /\ UNCHANGED <<pc, msg, left, wire>>
  BY <1>n, <1>r, ProcessAssumption DEF RicSend, thread_vars, Rids
<1>1. [body |-> body, rid |-> r] \in Messages /\ [body |-> body, rid |-> r].rid = r
  BY <1>0 DEF Messages, Rids
<1>2. /\ \A d \in Nodes : \A n \in 1..Len(to_sim'[d]) :
           \/ d = c /\ n = Len(to_sim[c]) + 1 /\ Queued(d, n)' = r
           \/ n \in 1..Len(to_sim[d]) /\ Queued(d, n)' = Queued(d, n)
      /\ \A d \in Nodes : \A n \in 1..Len(to_sim[d]) :
           n \in 1..Len(to_sim'[d]) /\ Queued(d, n)' = Queued(d, n)
      /\ \E n \in 1..Len(to_sim'[c]) : Queued(c, n)' = r
  <2>1. PICK m \in Messages : m = [body |-> body, rid |-> r]
    BY <1>1
  <2>2. to_sim' = [to_sim EXCEPT ![c] = Append(@, m)] /\ m.rid = r
    BY <1>0, <2>1
  <2>3. /\ \A d \in Nodes : \A n \in 1..Len(to_sim'[d]) :
             \/ d = c /\ n = Len(to_sim[c]) + 1 /\ Queued(d, n)' = m.rid
             \/ n \in 1..Len(to_sim[d]) /\ Queued(d, n)' = Queued(d, n)
        /\ \A d \in Nodes : \A n \in 1..Len(to_sim[d]) :
             n \in 1..Len(to_sim'[d]) /\ Queued(d, n)' = Queued(d, n)
        /\ Len(to_sim[c]) + 1 \in 1..Len(to_sim'[c])
        /\ to_sim'[c][Len(to_sim[c]) + 1].rid = m.rid
    BY <1>i, <2>2, QueueGrows
  <2>4. PICK n \in 1..Len(to_sim'[c]) : to_sim'[c][n].rid = r
    BY <2>2, <2>3
  <2>5. Queued(c, n)' = r
    BY <2>4 DEF Queued
  <2> QED
    BY <2>2, <2>3, <2>5
<1> USE DEF ReportInv
<1>3. \A j \in Nodes : pc'[j] = pc[j] /\ Hand(j)' = Hand(j)
  BY <1>0 DEF Hand
<1>4. /\ \A d \in Nodes : \A n \in 1..Len(to_sim[d]) :
           Queued(d, n) \in Nat /\ Queued(d, n) < r /\ Queued(d, n) # r
      /\ \A j \in Nodes : Hand(j) < r /\ Hand(j) # r
  <2>1. r \in Nat /\ \A x \in Nat : x <= requests => x < r /\ x # r
    BY <1>n, <1>r
  <2>2. \A d \in Nodes : \A n \in 1..Len(to_sim[d]) :
          Queued(d, n) \in Nat /\ Queued(d, n) <= requests
    BY Numbers DEF Distinct
  <2>3. \A j \in Nodes : Hand(j) <= requests
    BY DEF Distinct
  <2> QED
    BY <1>n, <2>1, <2>2, <2>3
<1>d. /\ \A a, d \in Nodes : \A m \in 1..Len(to_sim[a]), n \in 1..Len(to_sim[d]) :
           Queued(a, m) = Queued(d, n) /\ Queued(a, m) # 0 => a = d /\ m = n
      /\ \A j, d \in Nodes : \A n \in 1..Len(to_sim[d]) : Queued(d, n) = Hand(j) => Hand(j) = 0
  BY DEF Distinct
<1>5. Distinct'
  <2>1. ASSUME NEW a \in Nodes, NEW d \in Nodes, NEW m \in 1..Len(to_sim'[a]),
               NEW n \in 1..Len(to_sim'[d]), Queued(a, m)' = Queued(d, n)', Queued(a, m)' # 0
        PROVE  a = d /\ m = n
    <3>1. CASE Queued(a, m)' = r
      <4>1. a = c /\ m = Len(to_sim[c]) + 1
        BY <1>2, <1>4, <3>1
      <4>2. d = c /\ n = Len(to_sim[c]) + 1
        BY <1>2, <1>4, <2>1, <3>1
      <4> QED
        BY <4>1, <4>2
    <3>2. CASE Queued(a, m)' # r
      <4>1. m \in 1..Len(to_sim[a]) /\ Queued(a, m)' = Queued(a, m)
        BY <1>2, <3>2
      <4>2. n \in 1..Len(to_sim[d]) /\ Queued(d, n)' = Queued(d, n)
        BY <1>2, <2>1, <3>2
      <4>3. Queued(a, m) = Queued(d, n) /\ Queued(a, m) # 0
        BY <2>1, <4>1, <4>2
      <4> QED
        BY <1>d, <4>1, <4>2, <4>3
    <3> QED
      BY <3>1, <3>2
  <2>2. ASSUME NEW j \in Nodes, NEW d \in Nodes, NEW n \in 1..Len(to_sim'[d]),
               Queued(d, n)' = Hand(j)', Hand(j)' # 0
        PROVE  FALSE
    BY <1>2, <1>3, <1>4, <1>d, <2>2
  <2>3. \A j, l \in Nodes : Hand(j)' = Hand(l)' /\ Hand(j)' # 0 => j = l
    BY <1>3 DEF Distinct
  <2>4. \A d \in Nodes : \A n \in 1..Len(to_sim'[d]) : Queued(d, n)' <= requests'
    BY <1>0, <1>2, <1>4, <1>n, <1>r
  <2>5. \A j \in Nodes : Hand(j)' <= requests'
    BY <1>0, <1>3, <1>4, <1>n, <1>r
  <2> QED
    BY <2>1, <2>2, <2>3, <2>4, <2>5 DEF Distinct
<1>6. WireType' /\ \A q \in Rids :
              /\ \A type \in Kinds : IsFiniteSet(Cells(type, q)')
              /\ Answers(q)' = Answers(q)
              /\ Inds(q)' = Inds(q)
  BY <1>0, OtherCounts DEF SendsOther
<1>7. ASSUME NEW q \in Rids PROVE Unserved(q)' <=> Unserved(q) \/ q = r
  <2>1. (\E d \in Nodes : \E n \in 1..Len(to_sim'[d]) : Queued(d, n)' = q)
        <=> q = r \/ (\E d \in Nodes : \E n \in 1..Len(to_sim[d]) : Queued(d, n) = q)
    BY <1>2
  <2>2. (\E j \in Nodes : pc'[j] = "handling" /\ Hand(j)' = q)
        <=> (\E j \in Nodes : pc[j] = "handling" /\ Hand(j) = q)
    BY <1>3
  <2> QED
    BY <2>1, <2>2, UnservedIs, UnservedWillBe
<1>8. Answers(r) = 0 /\ Inds(r) = 0 /\ r > requests /\ ~ Unserved(r)
  <2>1. r > requests /\ Tally(r)
    BY <1>0, <1>n, <1>r
  <2>2. ~ Unserved(r)
    BY <1>0, <1>4, UnservedIs
  <2> QED
    BY <2>1, <2>2 DEF Tally
<1>9. ASSUME NEW q \in Rids, q # r
      PROVE  q <= requests' <=> q <= requests
  BY <1>0, <1>n, <1>r, <1>9 DEF Rids
<1>10. ASSUME NEW q \in Rids PROVE Tally(q)'
  <2>1. Tally(q)
    OBVIOUS
  <2>2. Unserved(q)' \/ q > requests' => Answers(q)' = 0
    <3>1. CASE q = r
      BY <1>6, <1>8, <3>1
    <3>2. CASE q # r
      <4>1. q > requests' => q > requests
        BY <1>0, <1>n, <1>9, <3>2 DEF Rids
      <4> QED
        BY <1>6, <1>7, <2>1, <3>2, <4>1 DEF Tally
    <3> QED
      BY <3>1, <3>2
  <2>3. \A j \in Nodes : pc'[j] \in Reporting /\ msg'[j].rid = q =>
          Answers(q)' = 1 /\ Inds(q)' + left'[j] <= MaxInd
    BY <1>0, <1>6, <2>1 DEF Tally
  <2> QED
    BY <1>6, <2>1, <2>2, <2>3 DEF Tally
<1>11. \A q \in Rids \ {r} : Served(q)' = Served(q)
  BY <1>6, <1>7, <1>9, <1>10, SameServed
<1>12. Served(r) = Reports!Stage("unasked", 0)
  BY <1>0, <1>8, <1>n, <1>r, ServedIs DEF Reports!Stage
<1>13. Served(r)' = Reports!Stage("asked", 0)
  BY <1>0, <1>6, <1>7, <1>8, <1>10, ServedWillBe DEF Reports!Stage
<1>14. Reports!Ask(r)
  <2>1. Reports!Become(r, Served(r), Served(r)')
    BY <1>0, <1>11, MoveServed
  <2> QED
    BY <1>12, <1>13, <2>1 DEF Reports!Ask
<1> QED
  BY <1>0, <1>5, <1>6, <1>10, <1>14 DEF Reports!Next, Rids

\* A thread moves on between the requests, or goes on with its report.
LEMMA OneMoves ==
  ASSUME IInv, NEW i \in Nodes, NEW p \in Points \ {"handling"}, pc[i] # "handling", Goto(i, p),
         p \in Reporting => pc[i] \in Reporting, UNCHANGED left,
         \A j \in Nodes : j # i \/ p \in Reporting => msg'[j] = msg[j]
  PROVE  QuietThreads
<1>1. pc'[i] = p /\ \A j \in Nodes : j # i => pc'[j] = pc[j] /\ msg'[j] = msg[j]
  BY DEF Goto, IInv, ThreadType
<1>2. \A j \in Nodes : j # i => Hand(j)' = Hand(j)
  BY <1>1 DEF Hand
<1>3. Hand(i)' \in {Hand(i), 0}
  BY <1>1 DEF Hand, Busy, Reporting
<1> QED
  BY <1>1, <1>2, <1>3 DEF QuietThreads, Reporting

\* Every step is a step of ReportService or a stutter.
LEMMA ReportServiceStep ==
  ASSUME ReportInv, IInv', [Next]_vars
  PROVE  ReportInv' /\ [Reports!Next]_ServedMap
<1>i. IInv
  BY DEF ReportInv
<1>q. ASSUME QuietThreads, QuietQueues, SendsOther, UNCHANGED requests
      PROVE  ReportInv' /\ [Reports!Next]_ServedMap
  BY <1>q, QuietStep
<1>s. ASSUME UNCHANGED <<pc, msg, left>> PROVE QuietThreads
  BY <1>s DEF QuietThreads, Hand
<1>0. CASE UNCHANGED vars
  BY <1>0, <1>q, <1>s DEF vars, thread_vars, ric_vars, QuietQueues, SendsOther
<1>1. CASE process = "up" /\ pthread_create
  <2>1. CASE creating' = "worked" /\ created' = created + 1 /\ Goto(created + 1, "starting")
    <3>1. created + 1 \in Nodes /\ pc[created + 1] = "none"
      BY <1>1, <1>i, ProcessAssumption DEF pthread_create, IInv, ProcessType, Uncreated, Nodes
    <3>2. QuietThreads
      BY <1>1, <1>i, <2>1, <3>1, OneMoves DEF pthread_create, Reporting, Points
    <3> QED
      BY <1>1, <1>q, <3>2 DEF pthread_create, ric_vars, QuietQueues, SendsOther
  <2>2. CASE UNCHANGED pc
    BY <1>1, <1>q, <1>s, <2>2 DEF pthread_create, ric_vars, QuietQueues, SendsOther
  <2> QED
    BY <1>1, <2>1, <2>2 DEF pthread_create, Goto
<1>2. CASE process = "up" /\ next_plmnId
  BY <1>2, <1>q, <1>s DEF next_plmnId, thread_vars, ric_vars, QuietQueues, SendsOther
<1>3. ASSUME NEW i \in Nodes, initparam(i) \/ sctp_start_client(i) \/ EndReport(i)
      PROVE  ReportInv' /\ [Reports!Next]_ServedMap
  <2>1. PICK p \in {"connecting", "connected", "loop"} : Goto(i, p)
    BY <1>3 DEF initparam, sctp_start_client, EndReport
  <2>2. QuietThreads
    BY <1>3, <1>i, <2>1, OneMoves DEF initparam, sctp_start_client, EndReport, Reporting, Points
  <2> QED
    BY <1>3, <1>q, <2>2 DEF initparam, sctp_start_client, EndReport, ric_vars, QuietQueues,
       SendsOther
<1>4. ASSUME NEW i \in Nodes, ConnectFails(i) \/ exit_1(i)
      PROVE  ReportInv' /\ [Reports!Next]_ServedMap
  BY <1>4, <1>q, <1>s
     DEF ConnectFails, exit_1, thread_vars, ric_vars, QuietQueues, SendsOther
<1>5. ASSUME NEW i \in Nodes, SendSetup(i) PROVE ReportInv' /\ [Reports!Next]_ServedMap
  <2>1. [type |-> "E2setup", plmn |-> plmn[i]] \in Outgoing
    BY <1>i DEF IInv, ThreadType, Outgoing
  <2>2. SendsOther
    <3>1. PICK m \in Outgoing : m.type = "E2setup" /\ sctp_send_data(m)
      BY <1>5, <2>1 DEF SendSetup
    <3> QED
      BY <3>1 DEF SendsOther, Kinds
  <2>3. QuietThreads
    BY <1>5, <1>i, OneMoves DEF SendSetup, Reporting, Points
  <2> QED
    BY <1>5, <1>q, <2>2, <2>3 DEF SendSetup, ric_vars, QuietQueues
<1>6. ASSUME NEW i \in Nodes, SendSubscription(i) PROVE ReportInv' /\ [Reports!Next]_ServedMap
  <2>1. [type |-> "RICsubscriptionRequest", rid |-> msg[i].rid] \in Outgoing
    BY <1>i, Numbers DEF Outgoing
  <2>2. SendsOther
    <3>1. PICK m \in Outgoing : m.type = "RICsubscriptionRequest" /\ sctp_send_data(m)
      BY <1>6, <2>1 DEF SendSubscription
    <3> QED
      BY <3>1 DEF SendsOther, Kinds
  <2>3. QuietThreads
    BY <1>6, <1>i, OneMoves DEF SendSubscription, Reporting, Points
  <2> QED
    BY <1>6, <1>q, <2>2, <2>3 DEF SendSubscription, ric_vars, QuietQueues
<1>7. ASSUME NEW i \in Nodes, EnterReceive(i) PROVE ReportInv' /\ [Reports!Next]_ServedMap
  <2>1. CASE pc[i] = "loop" /\ Goto(i, "receiving") /\ msg' = [msg EXCEPT ![i] = Nothing]
    <3>1. \A j \in Nodes : j # i => msg'[j] = msg[j]
      BY <1>i, <2>1 DEF IInv, MessageType
    <3>2. QuietThreads
      BY <1>7, <1>i, <2>1, <3>1, OneMoves DEF EnterReceive, Reporting, Points, Blocked
    <3> QED
      BY <1>7, <1>q, <3>2 DEF EnterReceive, ric_vars, QuietQueues, SendsOther
  <2>2. CASE pc[i] = "indicated" /\ Goto(i, "awaiting") /\ UNCHANGED msg
    <3>1. QuietThreads
      BY <1>7, <1>i, <2>2, OneMoves DEF EnterReceive, Reporting, Points, Blocked
    <3> QED
      BY <1>7, <1>q, <3>1 DEF EnterReceive, ric_vars, QuietQueues, SendsOther
  <2> QED
    BY <1>7, <2>1, <2>2 DEF EnterReceive
<1>8. ASSUME NEW i \in Nodes, ReceiveEnd(i) PROVE ReportInv' /\ [Reports!Next]_ServedMap
  <2>1. PICK p \in {"ended", "reporting"} :
          Goto(i, p) /\ (p = "reporting" => pc[i] = "awaiting")
    BY <1>8 DEF ReceiveEnd, Blocked
  <2>2. QuietThreads
    BY <1>8, <1>i, <2>1, OneMoves DEF ReceiveEnd, Reporting, Points, Blocked
  <2> QED
    BY <1>8, <1>q, <2>2 DEF ReceiveEnd, ric_vars, QuietQueues, SendsOther
<1>9. ASSUME NEW i \in Nodes,
             e2ap_handle_E2SeviceRequest(i) \/ e2ap_handle_E2SetupRequest(i) \/ Ignore(i)
      PROVE  ReportInv' /\ [Reports!Next]_ServedMap
  <2>1. PICK p \in {"loop", "resubscribing"} : Goto(i, p)
    BY <1>9 DEF e2ap_handle_E2SeviceRequest, e2ap_handle_E2SetupRequest, Reply, Ignore
  <2>2. p \in Points \ Busy
    BY <2>1 DEF Points, Busy
  <2>3. SendsOther
    <3>1. CASE Ignore(i)
      BY <3>1 DEF Ignore, SendsOther
    <3>2. CASE e2ap_handle_E2SeviceRequest(i) \/ e2ap_handle_E2SetupRequest(i)
      <4>1. PICK type \in {"RICserviceUpdate", "E2setupResponse"} :
              sctp_send_data([type |-> type, rid |-> msg[i].rid])
        BY <3>2 DEF e2ap_handle_E2SeviceRequest, e2ap_handle_E2SetupRequest, Reply
      <4>2. [type |-> type, rid |-> msg[i].rid] \in Outgoing
        BY <1>i, <4>1, Numbers DEF Outgoing
      <4>3. PICK m \in Outgoing : m.type = type /\ sctp_send_data(m)
        BY <4>1, <4>2
      <4> QED
        BY <4>1, <4>3 DEF SendsOther, Kinds
    <3> QED
      BY <1>9, <3>1, <3>2
  <2>4. pc[i] = "handling" /\ UNCHANGED <<msg, left, to_sim, requests>>
    BY <1>9 DEF e2ap_handle_E2SeviceRequest, e2ap_handle_E2SetupRequest, Reply, Ignore, ric_vars
  <2> QED
    BY <2>1, <2>2, <2>3, <2>4, FinishStep
<1>10. ASSUME NEW c \in Nodes, RicControl(c) PROVE ReportInv' /\ [Reports!Next]_ServedMap
  BY <1>10, <1>q, <1>s DEF RicControl, thread_vars, QuietQueues, SendsOther
<1>11. ASSUME NEW c \in Nodes, RicClose(c) PROVE ReportInv' /\ [Reports!Next]_ServedMap
  BY <1>11, <1>q, <1>s DEF RicClose, thread_vars, QuietQueues, SendsOther
<1>12. ASSUME NEW i \in Nodes, Thread(i) PROVE ReportInv' /\ [Reports!Next]_ServedMap
  BY <1>12, <1>3, <1>4, <1>5, <1>6, <1>7, <1>8, <1>9, ReceiveStep, AnswerStep, RespondStep,
     IndicateStep DEF Thread
<1>13. CASE Ric
  BY <1>10, <1>11, <1>13, AskStep DEF Ric
<1> QED
  BY <1>0, <1>1, <1>2, <1>12, <1>13 DEF Next, Main

\* No request has been asked, and no message sent.
LEMMA ReportServiceInit == Init => ReportInv /\ Reports!Init
<1> SUFFICES ASSUME Init PROVE ReportInv /\ Reports!Init
  OBVIOUS
<1>1. IInv /\ WireType
  BY InvariantInit DEF Init, WireType
<1>2. \A type, r : Cells(type, r) = {}
  BY DEF Cells, Init
<1>3. \A r : Answers(r) = 0 /\ Inds(r) = 0
  BY <1>2, CountCells, FS_EmptySet DEF Answers, Inds
<1>4. Distinct
  BY DEF Init, Distinct, Hand, Busy
<1>5. \A r \in Rids : ~ Unserved(r)
  BY DEF Init, Unserved
<1>6. \A r \in Rids : Tally(r)
  <2>1. \A i \in Nodes : pc[i] \notin Reporting
    BY DEF Init, Reporting
  <2> QED
    BY <1>2, <1>3, <1>5, <2>1, FS_EmptySet, ProcessAssumption DEF Tally
<1>7. \A r \in Rids : Served(r) = Reports!Stage("unasked", 0)
  BY <1>3, <1>5, <1>6, ServedIs DEF Init, Rids, Reports!Stage
<1>8. Reports!Init
  BY <1>7 DEF Reports!Init, Rids
<1> QED
  BY <1>1, <1>4, <1>6, <1>8 DEF ReportInv

\* However many instances share the descriptor, the process keeps the promise of ReportService.
THEOREM ReportsImplemented == Spec => ImplementsReportService
<1>1. Init => ReportInv /\ Reports!Init
  BY ReportServiceInit
<1>2. IInv' /\ ReportInv /\ [Next]_vars => ReportInv' /\ [Reports!Next]_ServedMap
  BY ReportServiceStep
<1> QED
  BY <1>1, <1>2, Invariance, PTL DEF Spec, ImplementsReportService, Reports!Spec, ServedMap
================================================================================

-------------------------- MODULE E2SimProcessProofs --------------------------
(***************************************************************************)
(* What holds of the kpm_sim process for any number of instances, any      *)
(* messages of the RIC, and any number of them and of indications.         *)
(***************************************************************************)
EXTENDS E2SimProcess, TLAPS

\* The number main() has reached, between one pthread_create and the next.
Counted ==
  \/ creating = "worked" /\ created >= 1 /\ plmnId = created
  \/ creating = "no" /\ plmnId = created + 1
  \/ /\ creating = "failed" /\ created < Instances
     /\ plmnId = created + 1 \/ (process = "exited" /\ plmnId = created + 2)

\* A blocked thread waits on a connection.
Placed == \A i \in Nodes : pc[i] \in Blocked => on[i] \in Nodes

\* A thread that has not connected has no connection, or was refused one.
Before == {"none", "starting", "connecting"}

Unconnected ==
  \A i \in Nodes : pc[i] \in Before =>
    ric[i] = "none" \/ (ric[i] = "refused" /\ process = "exited")

\* A thread that main() has not created yet has done nothing.
Uncreated == \A i \in Nodes : i > created => pc[i] = "none"

\* Unless something failed, client_fd names an open descriptor once anybody has connected.
Trouble == creating = "failed" \/ \E i \in Nodes : ric[i] \in {"refused", "closed"}

Sound == ~ Trouble => \A i \in Nodes : pc[i] \notin Before => client_fd \in fds

\* The type invariant in three parts: the process, its threads, and the messages.
ProcessType ==
  /\ process \in {"up", "exited"}
  /\ created \in 0..Instances
  /\ creating \in {"no", "worked", "failed"}
  /\ plmnId \in 1..(Instances + 1)
  /\ callbacks \subseteq {"kpm"}
  /\ client_fd \in 0..Instances
  /\ fds \subseteq Nodes
  /\ requests \in 0..MaxRequests
  /\ trace \in Traces

ThreadType ==
  /\ pc \in [Nodes -> Points]
  /\ plmn \in [Nodes -> 0..(Instances + 1)]
  /\ on \in [Nodes -> 0..Instances]
  /\ left \in [Nodes -> 0..MaxInd]
  /\ ric \in [Nodes -> {"none", "open", "refused", "closed"}]

MessageType ==
  /\ msg \in [Nodes -> Messages]
  /\ to_sim \in [Nodes -> Seq(Messages)]
  /\ wire = [c \in Nodes |-> wire[c]]

\* What the loop clears its buffer with, and what the RIC answers indications with.
LEMMA Values == Nothing \in Messages /\ Control \in Messages
BY ProcessAssumption DEF Nothing, Control, Messages

\* The three parts are the type invariant.
LEMMA TypeParts == TypeOK <=> ProcessType /\ ThreadType /\ MessageType
BY DEF TypeOK, ProcessType, ThreadType, MessageType

\* The inductive invariant.
IInv ==
  /\ ProcessType /\ ThreadType /\ MessageType
  /\ Counted /\ Placed /\ Unconnected /\ Uncreated /\ Sound

\* Each step keeps the invariant: main() keeps the count, sctp_start_client makes the shared
\* descriptor good, and only the failure of something makes it bad again.
LEMMA InvariantStep == IInv /\ [Next]_vars => IInv'
<1> SUFFICES ASSUME IInv, [Next]_vars PROVE IInv'
  OBVIOUS
<1> USE ProcessAssumption DEF IInv
<1>0. CASE UNCHANGED vars
  BY <1>0 DEF vars, main_vars, thread_vars, ric_vars, ProcessType, ThreadType, MessageType,
     Counted, Placed, Unconnected, Before, Uncreated, Sound, Trouble
<1>1. ASSUME process = "up", pthread_create PROVE IInv'
  <2>1. MessageType'
    BY <1>1 DEF pthread_create, MessageType
  <2>2. ProcessType'
    BY <1>1 DEF pthread_create, ric_vars, ProcessType, Nodes
  <2>3. ThreadType'
    BY <1>1 DEF pthread_create, ric_vars, Goto, ThreadType, Nodes, Points
  <2>4. Counted'
    BY <1>1 DEF pthread_create, Counted, ProcessType
  <2>5. Placed'
    BY <1>1 DEF pthread_create, Goto, Placed, ThreadType, Blocked, Nodes
  <2>6. Unconnected'
    <3>1. ric' = ric /\ process' = process
      BY <1>1 DEF pthread_create, ric_vars
    <3>2. pc' = pc \/ (created + 1 \in Nodes /\ pc' = [pc EXCEPT ![created + 1] = "starting"])
      BY <1>1 DEF pthread_create, Goto, ProcessType, Nodes
    <3>3. created + 1 \in Nodes => pc[created + 1] = "none"
      BY DEF Uncreated, ProcessType, Nodes
    <3> QED
      BY <3>1, <3>2, <3>3 DEF Unconnected, ThreadType, Before
  <2>7. Uncreated'
    BY <1>1 DEF pthread_create, Goto, ProcessType, ThreadType, Uncreated, Nodes
  <2>8. Sound'
    BY <1>1 DEF pthread_create, ric_vars, Goto, Sound, ThreadType, Trouble, Before
  <2> QED
    BY <2>1, <2>2, <2>3, <2>4, <2>5, <2>6, <2>7, <2>8
<1>2. ASSUME process = "up", next_plmnId PROVE IInv'
  <2>1. ThreadType' /\ MessageType' /\ Placed' /\ Uncreated'
    BY <1>2 DEF next_plmnId, thread_vars, ric_vars, ThreadType, MessageType, Placed,
       Uncreated, Nodes, Points, Blocked
  <2>2. ProcessType'
    BY <1>2 DEF next_plmnId, ric_vars, ProcessType, Counted, Nodes
  <2>3. Counted'
    BY <1>2 DEF next_plmnId, Counted, ProcessType
  <2>4. Unconnected'
    BY <1>2 DEF next_plmnId, thread_vars, ric_vars, Unconnected, Before
  <2>5. Sound'
    BY <1>2 DEF next_plmnId, thread_vars, ric_vars, Sound, Trouble, Before
  <2> QED
    BY <2>1, <2>2, <2>3, <2>4, <2>5
<1>3. ASSUME process = "up", NEW i \in Nodes, initparam(i) PROVE IInv'
  <2>1. MessageType' /\ Counted'
    BY <1>3 DEF initparam, main_vars, MessageType, Counted
  <2>2. ProcessType'
    BY <1>3 DEF initparam, main_vars, ric_vars, ProcessType, Nodes
  <2>3. ThreadType'
    <3>1. plmn' = [plmn EXCEPT ![i] = plmnId] /\ plmnId \in 0..(Instances + 1)
      BY <1>3 DEF initparam, ProcessType
    <3>2. pc' \in [Nodes -> Points] /\ on' = on /\ left' = left /\ ric' = ric
      BY <1>3 DEF initparam, Goto, ric_vars, ThreadType, Points
    <3> QED
      BY <3>1, <3>2 DEF ThreadType
  <2>4. Placed'
    BY <1>3 DEF initparam, Goto, Placed, Blocked, Nodes
  <2>5. Unconnected'
    BY <1>3 DEF initparam, ric_vars, Goto, Unconnected, Before
  <2>6. Uncreated'
    BY <1>3 DEF initparam, main_vars, Goto, Uncreated, Nodes
  <2>7. Sound'
    BY <1>3 DEF initparam, main_vars, ric_vars, Goto, Sound, Trouble, Before
  <2> QED
    BY <2>1, <2>2, <2>3, <2>4, <2>5, <2>6, <2>7
<1>4. ASSUME process = "up", NEW i \in Nodes, sctp_start_client(i) PROVE IInv'
  <2>1. MessageType' /\ Counted'
    BY <1>4 DEF sctp_start_client, main_vars, MessageType, Counted
  <2>2. ProcessType'
    BY <1>4 DEF sctp_start_client, main_vars, ProcessType, Nodes
  <2>3. ThreadType'
    BY <1>4 DEF sctp_start_client, Goto, ThreadType, Nodes, Points
  <2>4. Placed'
    BY <1>4 DEF sctp_start_client, Goto, Placed, Blocked, Nodes
  <2>5. Unconnected'
    BY <1>4 DEF sctp_start_client, Goto, Unconnected, ThreadType, Before
  <2>6. Uncreated'
    BY <1>4 DEF sctp_start_client, main_vars, Goto, Uncreated, Nodes
  <2>7. Sound'
    BY <1>4 DEF sctp_start_client, main_vars, Goto, ProcessType, ThreadType, Unconnected,
       Sound, Trouble, Before
  <2> QED
    BY <2>1, <2>2, <2>3, <2>4, <2>5, <2>6, <2>7
<1>5. ASSUME process = "up", NEW i \in Nodes, ConnectFails(i) PROVE IInv'
  <2>1. MessageType' /\ Placed' /\ Uncreated'
    BY <1>5 DEF ConnectFails, main_vars, thread_vars, MessageType, Placed, Uncreated, Blocked,
       Nodes
  <2>2. ProcessType'
    BY <1>5 DEF ConnectFails, main_vars, ProcessType, Nodes
  <2>3. ThreadType'
    BY <1>5 DEF ConnectFails, thread_vars, ThreadType, Nodes, Points
  <2>4. Counted'
    BY <1>5 DEF ConnectFails, main_vars, Counted
  <2>5. Unconnected'
    BY <1>5 DEF ConnectFails, thread_vars, Unconnected, Before
  <2>6. Sound'
    BY <1>5 DEF ConnectFails, main_vars, thread_vars, Sound, ThreadType, Trouble, Before
  <2> QED
    BY <2>1, <2>2, <2>3, <2>4, <2>5, <2>6
<1>6. ASSUME process = "up", NEW i \in Nodes, SendSetup(i) PROVE IInv'
  <2>1. ProcessType' /\ Counted'
    BY <1>6 DEF SendSetup, main_vars, ric_vars, ProcessType, Counted, Nodes
  <2>2. ThreadType'
    BY <1>6 DEF SendSetup, ric_vars, Goto, ThreadType, Nodes, Points
  <2>3. MessageType'
    BY <1>6 DEF SendSetup, sctp_send_data, MessageType
  <2>4. Placed'
    BY <1>6 DEF SendSetup, Goto, Placed, Blocked, Nodes
  <2>5. Unconnected'
    BY <1>6 DEF SendSetup, ric_vars, Goto, Unconnected, Before
  <2>6. Uncreated'
    BY <1>6 DEF SendSetup, main_vars, Goto, Uncreated, Nodes
  <2>7. Sound'
    BY <1>6 DEF SendSetup, main_vars, ric_vars, Goto, Sound, Trouble, Before
  <2> QED
    BY <2>1, <2>2, <2>3, <2>4, <2>5, <2>6, <2>7
<1>7. ASSUME process = "up", NEW i \in Nodes, EnterReceive(i) PROVE IInv'
  <2>1. ProcessType' /\ Counted'
    BY <1>7 DEF EnterReceive, main_vars, ric_vars, ProcessType, Counted, Nodes
  <2>2. ThreadType'
    <3>1. on' = [on EXCEPT ![i] = client_fd] /\ client_fd \in 0..Instances
      BY <1>7 DEF EnterReceive, ProcessType
    <3>2. pc' \in [Nodes -> Points]
      BY <1>7 DEF EnterReceive, Goto, ThreadType, Points, Blocked
    <3>3. plmn' = plmn /\ left' = left /\ ric' = ric
      BY <1>7 DEF EnterReceive, ric_vars
    <3> QED
      BY <3>1, <3>2, <3>3 DEF ThreadType
  <2>3. MessageType'
    <3>1. msg' = msg \/ msg' = [msg EXCEPT ![i] = Nothing]
      BY <1>7 DEF EnterReceive
    <3> QED
      BY <1>7, <3>1, Values DEF MessageType, EnterReceive
  <2>4. Placed'
    <3>1. on' = [on EXCEPT ![i] = client_fd] /\ left' = left /\ client_fd \in Nodes
      BY <1>7 DEF EnterReceive, ProcessType
    <3>2. pc' = [pc EXCEPT ![i] = "receiving"] \/ pc' = [pc EXCEPT ![i] = "awaiting"]
      BY <1>7 DEF EnterReceive, Goto
    <3> QED
      BY <3>1, <3>2 DEF Placed, ThreadType, Blocked
  <2>5. Unconnected'
    BY <1>7 DEF EnterReceive, ric_vars, Goto, Unconnected, ThreadType, Before
  <2>6. Uncreated'
    BY <1>7 DEF EnterReceive, main_vars, Goto, Uncreated, ThreadType, Nodes
  <2>7. Sound'
    <3>1. UNCHANGED <<process, client_fd, fds, creating, ric>>
      BY <1>7 DEF EnterReceive, main_vars, ric_vars
    <3>2. pc[i] \notin Before
      BY <1>7 DEF EnterReceive, Before
    <3>3. pc' = [pc EXCEPT ![i] = "receiving"] \/ pc' = [pc EXCEPT ![i] = "awaiting"]
      BY <1>7 DEF EnterReceive, Goto
    <3> QED
      BY <3>1, <3>2, <3>3 DEF ThreadType, Sound, Trouble, Before
  <2> QED
    BY <2>1, <2>2, <2>3, <2>4, <2>5, <2>6, <2>7
<1>8. ASSUME process = "up", NEW i \in Nodes, Receive(i) PROVE IInv'
  <2>1. ProcessType' /\ Counted'
    BY <1>8 DEF Receive, main_vars, ric_vars, ProcessType, Counted, Nodes
  <2>2. ThreadType'
    <3>1. on' = [on EXCEPT ![i] = 0] /\ plmn' = plmn /\ left' = left /\ ric' = ric
      BY <1>8 DEF Receive, Take, ric_vars
    <3>2. pc' \in [Nodes -> Points]
      BY <1>8 DEF Receive, Goto, ThreadType, Points
    <3> QED
      BY <3>1, <3>2 DEF ThreadType, Nodes
  <2>3. MessageType'
    <3>1. on[i] \in Nodes /\ to_sim[on[i]] \in Seq(Messages) /\ to_sim[on[i]] # <<>>
      BY <1>8 DEF Receive, Take, Blocked, Placed, MessageType
    <3>2. Head(to_sim[on[i]]) \in Messages /\ Tail(to_sim[on[i]]) \in Seq(Messages)
      BY <3>1
    <3> QED
      BY <1>8, <3>1, <3>2 DEF Receive, Take, MessageType
  <2>4. Placed'
    BY <1>8 DEF Receive, Take, Goto, Placed, ThreadType, Blocked, Nodes
  <2>5. Unconnected'
    BY <1>8 DEF Receive, ric_vars, Goto, Unconnected, Before
  <2>6. Uncreated'
    BY <1>8 DEF Receive, main_vars, Goto, Uncreated, Nodes
  <2>7. Sound'
    BY <1>8 DEF Receive, main_vars, ric_vars, Goto, Sound, Trouble, Before
  <2> QED
    BY <2>1, <2>2, <2>3, <2>4, <2>5, <2>6, <2>7
<1>9. ASSUME process = "up", NEW i \in Nodes, ReceiveAnswer(i) PROVE IInv'
  <2>1. ProcessType' /\ Counted'
    BY <1>9 DEF ReceiveAnswer, main_vars, ric_vars, ProcessType, Counted, Nodes
  <2>2. ThreadType'
    <3>1. on' = [on EXCEPT ![i] = 0] /\ plmn' = plmn /\ left' = left /\ ric' = ric
      BY <1>9 DEF ReceiveAnswer, Take, ric_vars
    <3>2. pc' \in [Nodes -> Points]
      BY <1>9 DEF ReceiveAnswer, Goto, ThreadType, Points
    <3> QED
      BY <3>1, <3>2 DEF ThreadType, Nodes
  <2>3. MessageType'
    <3>1. on[i] \in Nodes /\ to_sim[on[i]] \in Seq(Messages) /\ to_sim[on[i]] # <<>>
      BY <1>9 DEF ReceiveAnswer, Take, Blocked, Placed, MessageType
    <3>2. Tail(to_sim[on[i]]) \in Seq(Messages)
      BY <3>1
    <3> QED
      BY <1>9, <3>1, <3>2 DEF ReceiveAnswer, Take, MessageType
  <2>4. Placed'
    BY <1>9 DEF ReceiveAnswer, Take, Goto, Placed, ThreadType, Blocked, Nodes
  <2>5. Unconnected'
    BY <1>9 DEF ReceiveAnswer, ric_vars, Goto, Unconnected, ThreadType, Before
  <2>6. Uncreated'
    BY <1>9 DEF ReceiveAnswer, main_vars, Goto, Uncreated, Nodes
  <2>7. Sound'
    BY <1>9 DEF ReceiveAnswer, main_vars, ric_vars, Goto, Sound, ThreadType,
       Trouble, Before
  <2> QED
    BY <2>1, <2>2, <2>3, <2>4, <2>5, <2>6, <2>7
<1>10. ASSUME process = "up", NEW i \in Nodes, ReceiveEnd(i) PROVE IInv'
  <2>1. MessageType' /\ Counted'
    BY <1>10 DEF ReceiveEnd, main_vars, MessageType, Counted
  <2>2. ProcessType'
    BY <1>10 DEF ReceiveEnd, main_vars, ric_vars, ProcessType, Nodes
  <2>3. ThreadType'
    BY <1>10 DEF ReceiveEnd, ric_vars, Goto, ThreadType, Nodes, Points
  <2>4. Placed'
    BY <1>10 DEF ReceiveEnd, Goto, Placed, ThreadType, Blocked, Nodes
  <2>5. Unconnected'
    BY <1>10 DEF ReceiveEnd, ric_vars, Goto, Unconnected, ThreadType, Before
  <2>6. Uncreated'
    <3>1. pc[i] # "none" /\ created' = created
      BY <1>10 DEF ReceiveEnd, Blocked, main_vars
    <3>2. \A j \in Nodes : j # i => pc'[j] = pc[j]
      BY <1>10 DEF ReceiveEnd, Goto, ThreadType
    <3> QED
      BY <3>1, <3>2 DEF Uncreated
  <2>7. Sound'
    <3>1. ric[on[i]] = "closed" /\ on[i] \in Nodes /\ ric' = ric
      BY <1>10 DEF ReceiveEnd, Placed, ric_vars
    <3> QED
      BY <3>1 DEF Sound, Trouble
  <2> QED
    BY <2>1, <2>2, <2>3, <2>4, <2>5, <2>6, <2>7
<1>11. ASSUME process = "up", NEW i \in Nodes, callback_kpm_subscription_request(i)
      PROVE  IInv'
  <2>1. ProcessType' /\ Counted'
    BY <1>11 DEF callback_kpm_subscription_request, main_vars, ric_vars, ProcessType, Counted,
       Nodes
  <2>2. ThreadType'
    <3>1. /\ left' = [left EXCEPT ![i] = IF trace.first THEN MaxInd ELSE 0]
          /\ plmn' = plmn /\ on' = on /\ ric' = ric
      BY <1>11 DEF callback_kpm_subscription_request, ric_vars
    <3>2. pc' \in [Nodes -> Points]
      BY <1>11 DEF callback_kpm_subscription_request, Goto, ThreadType, Points
    <3>3. (IF trace.first THEN MaxInd ELSE 0) \in 0..MaxInd
      OBVIOUS
    <3>4. left' \in [Nodes -> 0..MaxInd]
      BY <3>1, <3>3 DEF ThreadType
    <3> QED
      BY <3>1, <3>2, <3>4 DEF ThreadType
  <2>3. MessageType'
    BY <1>11 DEF callback_kpm_subscription_request, sctp_send_data, MessageType
  <2>4. Placed'
    BY <1>11 DEF callback_kpm_subscription_request, Goto, Placed, ThreadType, Blocked, Nodes
  <2>5. Unconnected'
    BY <1>11 DEF callback_kpm_subscription_request, ric_vars, Goto, Unconnected, Before
  <2>6. Uncreated'
    BY <1>11 DEF callback_kpm_subscription_request, main_vars, Goto, Uncreated, Nodes
  <2>7. Sound'
    BY <1>11 DEF callback_kpm_subscription_request, main_vars, ric_vars, Goto, Sound, Trouble,
       Before
  <2> QED
    BY <2>1, <2>2, <2>3, <2>4, <2>5, <2>6, <2>7
<1>12. ASSUME process = "up", NEW i \in Nodes, run_report_loop(i) PROVE IInv'
  <2>1. ProcessType' /\ Counted'
    BY <1>12 DEF run_report_loop, main_vars, ric_vars, ProcessType, Counted, Nodes
  <2>2. ThreadType'
    <3>1. left' = [left EXCEPT ![i] = @ - 1] /\ plmn' = plmn /\ on' = on /\ ric' = ric
      BY <1>12 DEF run_report_loop, ric_vars
    <3>2. left[i] \in 0..MaxInd /\ left[i] # 0
      BY <1>12 DEF run_report_loop, ThreadType
    <3>3. pc' \in [Nodes -> Points]
      BY <1>12 DEF run_report_loop, Goto, ThreadType, Points
    <3>4. left[i] - 1 \in 0..MaxInd
      BY <3>2
    <3>5. left' \in [Nodes -> 0..MaxInd]
      BY <3>1, <3>4 DEF ThreadType
    <3> QED
      BY <3>1, <3>3, <3>5 DEF ThreadType
  <2>3. MessageType'
    BY <1>12 DEF run_report_loop, sctp_send_data, MessageType
  <2>4. Placed'
    BY <1>12 DEF run_report_loop, Goto, Placed, ThreadType, Blocked, Nodes
  <2>5. Unconnected'
    BY <1>12 DEF run_report_loop, ric_vars, Goto, Unconnected, Before
  <2>6. Uncreated'
    BY <1>12 DEF run_report_loop, main_vars, Goto, Uncreated, Nodes
  <2>7. Sound'
    BY <1>12 DEF run_report_loop, main_vars, ric_vars, Goto, Sound, Trouble, Before
  <2> QED
    BY <2>1, <2>2, <2>3, <2>4, <2>5, <2>6, <2>7
<1>13. ASSUME process = "up", NEW i \in Nodes, e2ap_handle_E2SeviceRequest(i) PROVE IInv'
  <2>1. ProcessType' /\ Counted'
    BY <1>13 DEF e2ap_handle_E2SeviceRequest, Reply, main_vars, ric_vars, ProcessType,
       Counted, Nodes
  <2>2. ThreadType'
    BY <1>13 DEF e2ap_handle_E2SeviceRequest, Reply, ric_vars, Goto, ThreadType, Nodes, Points
  <2>3. MessageType'
    BY <1>13 DEF e2ap_handle_E2SeviceRequest, Reply, sctp_send_data, MessageType
  <2>4. Placed'
    BY <1>13 DEF e2ap_handle_E2SeviceRequest, Reply, Goto, Placed, Blocked, Nodes
  <2>5. Unconnected'
    BY <1>13 DEF e2ap_handle_E2SeviceRequest, Reply, ric_vars, Goto, Unconnected, Before
  <2>6. Uncreated'
    BY <1>13 DEF e2ap_handle_E2SeviceRequest, Reply, main_vars, Goto, Uncreated, Nodes
  <2>7. Sound'
    BY <1>13 DEF e2ap_handle_E2SeviceRequest, Reply, main_vars, ric_vars, Goto, Sound,
       Trouble, Before
  <2> QED
    BY <2>1, <2>2, <2>3, <2>4, <2>5, <2>6, <2>7
<1>14. ASSUME process = "up", NEW i \in Nodes, e2ap_handle_E2SetupRequest(i) PROVE IInv'
  <2>1. ProcessType' /\ Counted'
    BY <1>14 DEF e2ap_handle_E2SetupRequest, Reply, main_vars, ric_vars, ProcessType, Counted,
       Nodes
  <2>2. ThreadType'
    BY <1>14 DEF e2ap_handle_E2SetupRequest, Reply, ric_vars, Goto, ThreadType, Nodes, Points
  <2>3. MessageType'
    BY <1>14 DEF e2ap_handle_E2SetupRequest, Reply, sctp_send_data, MessageType
  <2>4. Placed'
    BY <1>14 DEF e2ap_handle_E2SetupRequest, Reply, Goto, Placed, Blocked, Nodes
  <2>5. Unconnected'
    BY <1>14 DEF e2ap_handle_E2SetupRequest, Reply, ric_vars, Goto, Unconnected, Before
  <2>6. Uncreated'
    BY <1>14 DEF e2ap_handle_E2SetupRequest, Reply, main_vars, Goto, Uncreated, Nodes
  <2>7. Sound'
    BY <1>14 DEF e2ap_handle_E2SetupRequest, Reply, main_vars, ric_vars, Goto, Sound, Trouble,
       Before
  <2> QED
    BY <2>1, <2>2, <2>3, <2>4, <2>5, <2>6, <2>7
<1>15. ASSUME process = "up", NEW i \in Nodes, SendSubscription(i) PROVE IInv'
  <2>1. ProcessType' /\ Counted'
    BY <1>15 DEF SendSubscription, main_vars, ric_vars, ProcessType, Counted, Nodes
  <2>2. ThreadType'
    BY <1>15 DEF SendSubscription, ric_vars, Goto, ThreadType, Nodes, Points
  <2>3. MessageType'
    BY <1>15 DEF SendSubscription, sctp_send_data, MessageType
  <2>4. Placed'
    BY <1>15 DEF SendSubscription, Goto, Placed, Blocked, Nodes
  <2>5. Unconnected'
    BY <1>15 DEF SendSubscription, ric_vars, Goto, Unconnected, Before
  <2>6. Uncreated'
    BY <1>15 DEF SendSubscription, main_vars, Goto, Uncreated, Nodes
  <2>7. Sound'
    BY <1>15 DEF SendSubscription, main_vars, ric_vars, Goto, Sound, Trouble, Before
  <2> QED
    BY <2>1, <2>2, <2>3, <2>4, <2>5, <2>6, <2>7
<1>16. ASSUME process = "up", NEW i \in Nodes, Ignore(i) PROVE IInv'
  <2>1. ProcessType' /\ MessageType' /\ Counted'
    BY <1>16 DEF Ignore, main_vars, ric_vars, ProcessType, MessageType, Counted, Nodes
  <2>2. ThreadType'
    BY <1>16 DEF Ignore, ric_vars, Goto, ThreadType, Nodes, Points
  <2>3. Placed'
    BY <1>16 DEF Ignore, Goto, Placed, Blocked, Nodes
  <2>4. Unconnected'
    BY <1>16 DEF Ignore, ric_vars, Goto, Unconnected, Before
  <2>5. Uncreated'
    BY <1>16 DEF Ignore, main_vars, Goto, Uncreated, Nodes
  <2>6. Sound'
    BY <1>16 DEF Ignore, main_vars, ric_vars, Goto, Sound, Trouble, Before
  <2> QED
    BY <2>1, <2>2, <2>3, <2>4, <2>5, <2>6
<1>17. ASSUME process = "up", NEW i \in Nodes, exit_1(i) PROVE IInv'
  <2>1. ThreadType' /\ MessageType' /\ Placed' /\ Uncreated'
    BY <1>17 DEF exit_1, main_vars, thread_vars, ric_vars, ThreadType, MessageType, Placed,
       Uncreated, Nodes, Points, Blocked
  <2>2. ProcessType'
    BY <1>17 DEF exit_1, main_vars, ric_vars, ProcessType, Nodes
  <2>3. Counted'
    BY <1>17 DEF exit_1, main_vars, Counted
  <2>4. Unconnected'
    BY <1>17 DEF exit_1, thread_vars, ric_vars, Unconnected, Before
  <2>5. Sound'
    BY <1>17 DEF exit_1, main_vars, thread_vars, ric_vars, Sound, Trouble, Before
  <2> QED
    BY <2>1, <2>2, <2>3, <2>4, <2>5
<1>18. ASSUME process = "up", NEW c \in Nodes, RicControl(c) PROVE IInv'
  <2>1. ProcessType' /\ ThreadType' /\ Counted' /\ Placed' /\ Unconnected' /\ Uncreated' /\ Sound'
    BY <1>18 DEF RicControl, main_vars, thread_vars, ProcessType, ThreadType, Counted, Placed,
       Unconnected, Uncreated, Sound, Nodes, Points, Blocked, Before, Trouble
  <2>2. MessageType'
    <3>1. to_sim[c] \in Seq(Messages)
      BY <1>18 DEF MessageType
    <3>2. Append(to_sim[c], Control) \in Seq(Messages)
      BY <3>1, Values
    <3> QED
      BY <1>18, <3>2 DEF RicControl, MessageType, thread_vars
  <2> QED
    BY <2>1, <2>2
<1>19. ASSUME process = "up", NEW c \in Nodes, RicClose(c) PROVE IInv'
  <2>1. ProcessType' /\ MessageType' /\ Counted' /\ Placed' /\ Uncreated'
    BY <1>19 DEF RicClose, main_vars, thread_vars, ProcessType, MessageType, Counted, Placed,
       Uncreated, Nodes, Blocked
  <2>2. ThreadType'
    BY <1>19 DEF RicClose, thread_vars, ThreadType, Nodes, Points
  <2>3. Unconnected'
    <3>1. ric[c] = "open"
      BY <1>19 DEF RicClose, Connected
    <3>2. pc[c] \notin Before
      BY <3>1 DEF Unconnected
    <3> QED
      BY <1>19, <3>2 DEF RicClose, ThreadType, Unconnected, thread_vars
  <2>4. Sound'
    BY <1>19 DEF RicClose, main_vars, thread_vars, Sound, Trouble, Before
  <2> QED
    BY <2>1, <2>2, <2>3, <2>4
<1>20. ASSUME process = "up", NEW c \in Nodes, NEW body \in Inputs, RicSend(c, body)
      PROVE  IInv'
  <2>1. ThreadType' /\ Counted' /\ Placed' /\ Unconnected' /\ Uncreated' /\ Sound'
    BY <1>20 DEF RicSend, main_vars, thread_vars, ThreadType, Counted, Placed, Unconnected,
       Uncreated, Sound, Nodes, Points, Blocked, Before, Trouble
  <2>2. ProcessType'
    BY <1>20 DEF RicSend, main_vars, ProcessType, Nodes
  <2>3. MessageType'
    <3> DEFINE m == [body |-> body, rid |-> requests']
    <3>1. m \in Messages
      BY <1>20 DEF RicSend, ProcessType, Messages
    <3>2. to_sim[c] \in Seq(Messages)
      BY DEF MessageType
    <3>3. Append(to_sim[c], m) \in Seq(Messages)
      BY <3>1, <3>2
    <3> QED
      BY <1>20, <3>3 DEF RicSend, MessageType, thread_vars
  <2> QED
    BY <2>1, <2>2, <2>3
<1>21. ASSUME process = "up", NEW i \in Nodes, EndReport(i) PROVE IInv'
  <2>1. ProcessType' /\ MessageType' /\ Counted'
    BY <1>21 DEF EndReport, main_vars, ric_vars, ProcessType, MessageType, Counted, Nodes
  <2>2. ThreadType'
    BY <1>21 DEF EndReport, ric_vars, Goto, ThreadType, Nodes, Points
  <2>3. Placed'
    BY <1>21 DEF EndReport, Goto, Placed, Blocked, Nodes
  <2>4. Unconnected'
    BY <1>21 DEF EndReport, ric_vars, Goto, Unconnected, Before
  <2>5. Uncreated'
    BY <1>21 DEF EndReport, main_vars, Goto, Uncreated, Nodes
  <2>6. Sound'
    BY <1>21 DEF EndReport, main_vars, ric_vars, Goto, Sound, Trouble, Before
  <2> QED
    BY <2>1, <2>2, <2>3, <2>4, <2>5, <2>6
<1> QED
  BY <1>0, <1>1, <1>2, <1>3, <1>4, <1>5, <1>6, <1>7, <1>8, <1>9, <1>10, <1>11, <1>12, <1>13,
    <1>14, <1>15, <1>16, <1>17, <1>18, <1>19, <1>20, <1>21 DEF Next, Main, Thread, Ric

\* No thread has been created yet and nothing has failed.
LEMMA InvariantInit == Init => IInv
BY ProcessAssumption, Values
   DEF Init, IInv, ProcessType, ThreadType, MessageType, Counted, Placed, Unconnected, Before,
       Uncreated, Sound, Trouble, Nodes, Points, Blocked

\* So it holds in every state the process can reach.
THEOREM Invariance == Spec => []IInv
BY InvariantInit, InvariantStep, PTL DEF Spec

\* The state of the process is well formed, for any number of instances.
THEOREM TypeCorrect == Spec => []TypeOK
<1>1. IInv => TypeOK
  BY TypeParts DEF IInv
<1> QED
  BY <1>1, Invariance, PTL

\* A connection that the RIC has closed stays closed.
LEMMA ClosedForGood == IInv /\ [Next]_vars /\ Closed => Closed'
<1> SUFFICES ASSUME IInv, [Next]_vars, NEW c \in Nodes, ric[c] = "closed"
             PROVE  ric'[c] = "closed"
  BY DEF Closed
<1>1. CASE ric' = ric
  BY <1>1
<1>2. ASSUME NEW i \in Nodes, sctp_start_client(i) \/ ConnectFails(i) PROVE ric'[c] = "closed"
  BY <1>2 DEF sctp_start_client, ConnectFails, IInv, ThreadType, Unconnected, Before
<1>3. ASSUME NEW b \in Nodes, RicClose(b) PROVE ric'[c] = "closed"
  BY <1>3 DEF RicClose, IInv, ThreadType
<1> QED
  BY <1>1, <1>2, <1>3
     DEF Next, Main, Thread, Ric, vars, ric_vars, pthread_create, next_plmnId, initparam,
         SendSetup, EnterReceive, Receive, ReceiveAnswer, ReceiveEnd,
         callback_kpm_subscription_request, run_report_loop, EndReport,
         e2ap_handle_E2SeviceRequest, e2ap_handle_E2SetupRequest, Reply, SendSubscription,
         Ignore, exit_1, RicControl, RicSend

\* A thread ends at a connection that the RIC has closed.
LEMMA EndStep ==
  IInv /\ [Next]_vars => \A i \in Nodes : pc'[i] = "ended" => pc[i] = "ended" \/ Closed
<1> SUFFICES ASSUME IInv, [Next]_vars, NEW i \in Nodes, pc'[i] = "ended", pc[i] # "ended"
             PROVE  Closed
  OBVIOUS
<1>1. PICK j \in Nodes : ReceiveEnd(j)
  BY DEF Next, Main, Thread, Ric, vars, thread_vars, Goto, IInv, ThreadType, pthread_create,
     next_plmnId, initparam, sctp_start_client, ConnectFails, SendSetup, EnterReceive, Receive,
     ReceiveAnswer, callback_kpm_subscription_request, run_report_loop, EndReport,
     e2ap_handle_E2SeviceRequest, e2ap_handle_E2SetupRequest, Reply, SendSubscription, Ignore,
     exit_1, RicControl, RicClose, RicSend
<1> QED
  BY <1>1 DEF ReceiveEnd, Closed, IInv, Placed

\* A thread calls exit(1) where it cannot go on, or when something has failed: without that
\* client_fd names an open connection, and so does what the thread is blocked on.
LEMMA ExitStep ==
  ASSUME IInv, NEW i \in Nodes, exit_1(i)
  PROVE  Closed \/ Refused \/ Stuck
<1>1. CASE Unanswerable(i) \/ TraceThrows(i)
  BY <1>1 DEF Stuck
<1>2. CASE CallFails(i)
  <2>1. pc[i] \notin Before /\ (pc[i] \in Blocked => on[i] \in Nodes)
    BY <1>2 DEF CallFails, Sending, Before, Blocked, IInv, Placed
  <2>2. ~ Trouble => client_fd \in fds /\ client_fd \in Nodes
    BY <2>1 DEF IInv, Sound, ProcessType
  <2>3. Trouble
    BY <1>2, <2>1, <2>2 DEF CallFails, Trouble
  <2> QED
    BY <2>3 DEF Trouble, Closed, Refused
<1> QED
  BY <1>1, <1>2 DEF exit_1

\* What OnlyFailuresEnd says is kept by every step.
LEMMA FailureStep == IInv /\ OnlyFailuresEnd /\ [Next]_vars => OnlyFailuresEnd'
<1> SUFFICES ASSUME IInv, OnlyFailuresEnd, [Next]_vars PROVE OnlyFailuresEnd'
  OBVIOUS
<1>1. (\E i \in Nodes : pc'[i] = "ended") => Closed'
  BY EndStep, ClosedForGood DEF OnlyFailuresEnd
<1>2. ASSUME process' = "exited" PROVE Closed' \/ Refused' \/ Stuck'
  <2>1. CASE UNCHANGED vars
    BY <1>2, <2>1 DEF vars, main_vars, thread_vars, ric_vars, OnlyFailuresEnd, Closed, Refused,
       Stuck, Unanswerable, TraceThrows, MayCall
  <2>2. CASE process = "up" /\ next_plmnId
    BY <1>2, <2>2 DEF next_plmnId, Refused
  <2>3. ASSUME NEW i \in Nodes, ConnectFails(i) PROVE Closed' \/ Refused' \/ Stuck'
    BY <2>3 DEF ConnectFails, Refused, IInv, ThreadType
  <2>4. ASSUME NEW i \in Nodes, exit_1(i) PROVE Closed' \/ Refused' \/ Stuck'
    <3>1. Closed \/ Refused \/ Stuck
      BY <2>4, ExitStep
    <3> QED
      BY <2>4, <3>1 DEF exit_1, main_vars, thread_vars, ric_vars, Closed, Refused, Stuck,
         Unanswerable, TraceThrows, MayCall
  <2>5. CASE process' = process /\ ~ UNCHANGED vars
    BY <1>2, <2>5 DEF Next, Main, Thread, Ric
  <2> QED
    BY <2>1, <2>2, <2>3, <2>4, <2>5
       DEF Next, Main, Thread, Ric, pthread_create, initparam, sctp_start_client, SendSetup,
           EnterReceive, Receive, ReceiveAnswer, ReceiveEnd,
           callback_kpm_subscription_request, run_report_loop, EndReport,
           e2ap_handle_E2SeviceRequest, e2ap_handle_E2SetupRequest, Reply, SendSubscription,
           Ignore, RicControl, RicClose, RicSend
<1> QED
  BY <1>1, <1>2 DEF OnlyFailuresEnd

\* Nothing that the threads do to the shared descriptor ends a thread, unless the RIC has
\* closed a connection, or the process, unless it has, a thread could not be created, a
\* connection was refused, or a thread is at a request or a file it cannot handle.
THEOREM OnlyFailures == Spec => []OnlyFailuresEnd
<1>1. Init => OnlyFailuresEnd
  BY DEF Init, OnlyFailuresEnd
<1> QED
  BY <1>1, FailureStep, Invariance, PTL DEF Spec

\* Before main() wakes up the PLMN id is the number of the thread it has just created;
\* afterwards it is a number that no thread has yet.
LEMMA PromptStep == IInv /\ [Next]_vars =>
  \A i \in Nodes : plmn[i] = 0 /\ plmn'[i] # 0 =>
    (plmn'[i] = i <=> created = i /\ creating = "worked")
<1> SUFFICES ASSUME IInv, [Next]_vars, NEW i \in Nodes, plmn[i] = 0, plmn'[i] # 0
             PROVE  plmn'[i] = i <=> created = i /\ creating = "worked"
  OBVIOUS
<1>1. PICK j \in Nodes : initparam(j) /\ process = "up"
  BY DEF Next, Main, Thread, Ric, vars, thread_vars, pthread_create, next_plmnId,
     sctp_start_client, ConnectFails, SendSetup, EnterReceive, Receive, ReceiveAnswer,
     ReceiveEnd, callback_kpm_subscription_request, run_report_loop, EndReport,
     e2ap_handle_E2SeviceRequest, e2ap_handle_E2SetupRequest, Reply, SendSubscription, Ignore,
     exit_1, RicControl, RicClose, RicSend
<1>2. j = i /\ plmn'[i] = plmnId
  BY <1>1 DEF initparam, IInv, ThreadType
<1>3. i <= created
  BY <1>1, <1>2, ProcessAssumption DEF initparam, IInv, Uncreated, ProcessType, Nodes
<1> QED
  BY <1>1, <1>2, <1>3, ProcessAssumption DEF IInv, Counted, ProcessType, Nodes

\* A thread announces its own PLMN id exactly when it is prompt.
THEOREM PromptOwnsPlmn == Spec => OwnPlmnIfPrompt
<1>1. IInv /\ [Next]_vars =>
        [\A i \in Nodes : plmn[i] = 0 /\ plmn'[i] # 0 =>
           (plmn'[i] = i <=> created = i /\ creating = "worked")]_vars
  BY PromptStep
<1> QED
  BY <1>1, Invariance, PTL DEF Spec, OwnPlmnIfPrompt

\* What AbandonedForGood says of a step and a connection.
StaysAbandoned(c) ==
  /\ Abandoned(c)'
  /\ wire'[c] = wire[c]
  /\ Len(to_sim'[c]) >= Len(to_sim[c])

\* An abandoned connection is not the one a thread sends on or receives on, and no step
\* makes client_fd name it again: sctp_start_client assigns a connection that was not open.
LEMMA AbandonedStep ==
  IInv /\ [Next]_vars => \A c \in Nodes : Abandoned(c) => StaysAbandoned(c)
<1> SUFFICES ASSUME IInv, [Next]_vars, NEW c \in Nodes, Abandoned(c)
             PROVE  StaysAbandoned(c)
  OBVIOUS
<1> USE DEF IInv, StaysAbandoned
<1>a. to_sim[c] \in Seq(Messages) /\ Len(to_sim[c]) \in Nat
  BY DEF MessageType
<1>b. client_fd # c /\ (\A i \in Nodes : on[i] # c) /\ ric[c] \in {"open", "closed"}
  BY DEF Abandoned
<1>c. ASSUME wire' = wire, ric' = ric, client_fd' = client_fd, to_sim'[c] = to_sim[c],
             \A i \in Nodes : on'[i] # c
      PROVE  StaysAbandoned(c)
  BY <1>a, <1>b, <1>c DEF Abandoned
<1>0. CASE UNCHANGED vars
  BY <1>0, <1>a DEF vars, thread_vars, ric_vars, Abandoned
<1>1. ASSUME process = "up", pthread_create PROVE StaysAbandoned(c)
  BY <1>1, <1>b, <1>c DEF pthread_create, ric_vars
<1>2. ASSUME process = "up", next_plmnId PROVE StaysAbandoned(c)
  BY <1>2, <1>b, <1>c DEF next_plmnId, thread_vars, ric_vars
<1>3. ASSUME process = "up", NEW i \in Nodes, initparam(i) PROVE StaysAbandoned(c)
  BY <1>3, <1>b, <1>c DEF initparam, ric_vars
<1>4. ASSUME process = "up", NEW i \in Nodes, sctp_start_client(i) PROVE StaysAbandoned(c)
  BY <1>4, <1>a, <1>b DEF sctp_start_client, ThreadType, Unconnected, Before, Abandoned
<1>5. ASSUME process = "up", NEW i \in Nodes, ConnectFails(i) PROVE StaysAbandoned(c)
  BY <1>5, <1>a, <1>b DEF ConnectFails, thread_vars, ThreadType, Unconnected, Before,
     Abandoned
<1>6. ASSUME process = "up", NEW i \in Nodes, SendSetup(i) PROVE StaysAbandoned(c)
  BY <1>6, <1>a, <1>b DEF SendSetup, sctp_send_data, ric_vars, MessageType, Abandoned
<1>7. ASSUME process = "up", NEW i \in Nodes, EnterReceive(i) PROVE StaysAbandoned(c)
  BY <1>7, <1>b, <1>c DEF EnterReceive, ric_vars, ThreadType
<1>8. ASSUME process = "up", NEW i \in Nodes, Receive(i) PROVE StaysAbandoned(c)
  <2>1. on[i] \in Nodes /\ on[i] # c
    BY <1>8, <1>b DEF Receive, Blocked, Placed
  <2>2. wire' = wire /\ ric' = ric /\ client_fd' = client_fd /\ to_sim'[c] = to_sim[c]
    BY <1>8, <2>1 DEF Receive, Take, MessageType, ric_vars
  <2>3. \A j \in Nodes : on'[j] # c
    BY <1>8, <1>b DEF Receive, Take, ThreadType, Nodes
  <2> QED
    BY <1>c, <2>2, <2>3
<1>9. ASSUME process = "up", NEW i \in Nodes, ReceiveAnswer(i) PROVE StaysAbandoned(c)
  <2>1. on[i] \in Nodes /\ on[i] # c
    BY <1>9, <1>b DEF ReceiveAnswer, Blocked, Placed
  <2>2. wire' = wire /\ ric' = ric /\ client_fd' = client_fd /\ to_sim'[c] = to_sim[c]
    BY <1>9, <2>1 DEF ReceiveAnswer, Take, MessageType, ric_vars
  <2>3. \A j \in Nodes : on'[j] # c
    BY <1>9, <1>b DEF ReceiveAnswer, Take, ThreadType, Nodes
  <2> QED
    BY <1>c, <2>2, <2>3
<1>10. ASSUME process = "up", NEW i \in Nodes, ReceiveEnd(i) PROVE StaysAbandoned(c)
  <2>1. on[i] \in Nodes /\ on[i] # c
    BY <1>10, <1>b DEF ReceiveEnd, Blocked, Placed
  <2>2. wire' = wire /\ ric' = ric /\ client_fd' = client_fd /\ to_sim'[c] = to_sim[c]
    BY <1>10, <2>1 DEF ReceiveEnd, MessageType, ric_vars
  <2>3. \A j \in Nodes : on'[j] # c
    BY <1>10, <1>b DEF ReceiveEnd, ThreadType, Nodes
  <2> QED
    BY <1>c, <2>2, <2>3
<1>11. ASSUME process = "up", NEW i \in Nodes, callback_kpm_subscription_request(i)
      PROVE  StaysAbandoned(c)
  BY <1>11, <1>a, <1>b DEF callback_kpm_subscription_request, sctp_send_data, ric_vars,
     MessageType, Abandoned
<1>12. ASSUME process = "up", NEW i \in Nodes, run_report_loop(i) PROVE StaysAbandoned(c)
  BY <1>12, <1>a, <1>b DEF run_report_loop, sctp_send_data, ric_vars, MessageType, Abandoned
<1>13. ASSUME process = "up", NEW i \in Nodes, e2ap_handle_E2SeviceRequest(i)
      PROVE  StaysAbandoned(c)
  BY <1>13, <1>a, <1>b DEF e2ap_handle_E2SeviceRequest, Reply, sctp_send_data, ric_vars,
     MessageType, Abandoned
<1>14. ASSUME process = "up", NEW i \in Nodes, e2ap_handle_E2SetupRequest(i)
      PROVE  StaysAbandoned(c)
  BY <1>14, <1>a, <1>b DEF e2ap_handle_E2SetupRequest, Reply, sctp_send_data, ric_vars,
     MessageType, Abandoned
<1>15. ASSUME process = "up", NEW i \in Nodes, SendSubscription(i) PROVE StaysAbandoned(c)
  BY <1>15, <1>a, <1>b DEF SendSubscription, sctp_send_data, ric_vars, MessageType, Abandoned
<1>16. ASSUME process = "up", NEW i \in Nodes, Ignore(i) PROVE StaysAbandoned(c)
  BY <1>16, <1>b, <1>c DEF Ignore, ric_vars
<1>17. ASSUME process = "up", NEW i \in Nodes, exit_1(i) PROVE StaysAbandoned(c)
  BY <1>17, <1>b, <1>c DEF exit_1, thread_vars, ric_vars
<1>18. ASSUME process = "up", NEW b \in Nodes, RicControl(b) PROVE StaysAbandoned(c)
  BY <1>18, <1>a, <1>b DEF RicControl, thread_vars, MessageType, Abandoned
<1>19. ASSUME process = "up", NEW b \in Nodes, RicClose(b) PROVE StaysAbandoned(c)
  BY <1>19, <1>a, <1>b DEF RicClose, thread_vars, ThreadType, Abandoned
<1>20. ASSUME process = "up", NEW b \in Nodes, NEW body \in Inputs, RicSend(b, body)
      PROVE  StaysAbandoned(c)
  BY <1>20, <1>a, <1>b DEF RicSend, thread_vars, MessageType, Abandoned
<1>21. ASSUME process = "up", NEW i \in Nodes, EndReport(i) PROVE StaysAbandoned(c)
  BY <1>21, <1>b, <1>c DEF EndReport, ric_vars
<1> QED
  BY <1>0, <1>1, <1>2, <1>3, <1>4, <1>5, <1>6, <1>7, <1>8, <1>9, <1>10, <1>11, <1>12, <1>13,
    <1>14, <1>15, <1>16, <1>17, <1>18, <1>19, <1>20, <1>21 DEF Next, Main, Thread, Ric

\* A connection that no thread uses any more is lost for good.
THEOREM Abandonment == Spec => AbandonedForGood
<1>1. IInv /\ [Next]_vars =>
        [\A c \in Nodes : Abandoned(c) =>
           /\ Abandoned(c)'
           /\ wire'[c] = wire[c]
           /\ Len(to_sim'[c]) >= Len(to_sim[c])]_vars
  BY AbandonedStep DEF StaysAbandoned
<1> QED
  BY <1>1, Invariance, PTL DEF Spec, AbandonedForGood
--------------------------------------------------------------------------------
(* A single instance: the order of its reports *)

\* What a thread may send, with what it takes from the message it handles.
Bodies == Inputs \cup {Nothing.body, Control.body}

Outgoing ==
  [type : {"E2setup"}, plmn : 0..(Instances + 1)]
  \cup [type : {"RICserviceUpdate", "E2setupResponse", "RICsubscriptionRequest"},
        rid : 0..MaxRequests]
  \cup [type : {"RICsubscriptionResponse"}, rid : 0..MaxRequests,
        accepted : {accepted(b.actions) : b \in Bodies}]
  \cup [type : {"RICindication"}, rid : 0..MaxRequests,
        action : {reqActionId(b.actions) : b \in Bodies}, seq : 1..MaxInd]

\* m can be the next message on the wire w: it is no indication, or it continues a report.
Follows(w, m) ==
  m.type = "RICindication" =>
    /\ Len(w) > 0
    /\ w[Len(w)].type \in {"RICsubscriptionResponse", "RICindication"}
    /\ w[Len(w)].rid = m.rid
    /\ w[Len(w)].type = "RICindication" => w[Len(w)].seq + 1 = m.seq

\* While it reports, the last message of the thread is the answer to the request it reports
\* for, or the indication whose number the ones left over tell; a report that sends nothing
\* has none left over from the start.
Latest ==
  pc[1] \in {"reporting", "indicated", "awaiting"} =>
    /\ Len(wire[1]) > 0
    /\ wire[1][Len(wire[1])].rid = msg[1].rid
    /\ \/ /\ wire[1][Len(wire[1])].type = "RICsubscriptionResponse"
          /\ left[1] \in {0, MaxInd}
       \/ /\ wire[1][Len(wire[1])].type = "RICindication"
          /\ wire[1][Len(wire[1])].seq = MaxInd - left[1]

\* The inductive invariant of a single instance, besides IInv.
SingleInv == wire[1] \in Seq(Outgoing) /\ Latest /\ ReportsContiguous

\* A message that may follow keeps the reports together.
LEMMA SendKeeps ==
  ASSUME Instances = 1, IInv, SingleInv, NEW m \in Outgoing, sctp_send_data(m),
         Follows(wire[1], m)
  PROVE  /\ wire'[1] \in Seq(Outgoing)
         /\ Len(wire'[1]) > 0 /\ wire'[1][Len(wire'[1])] = m
         /\ ReportsContiguous'
<1> DEFINE w == wire[1]
<1>1. w \in Seq(Outgoing) /\ Len(w) \in Nat
  BY DEF SingleInv
<1>2. wire'[1] = Append(w, m)
  BY DEF IInv, ProcessType, MessageType, sctp_send_data, Nodes
<1>3. /\ Append(w, m) \in Seq(Outgoing)
      /\ Len(Append(w, m)) = Len(w) + 1
      /\ Append(w, m)[Len(w) + 1] = m
      /\ DOMAIN Append(w, m) = 1..(Len(w) + 1)
      /\ \A n \in 1..Len(w) : Append(w, m)[n] = w[n]
  BY <1>1
<1>4. ASSUME NEW n \in 1..(Len(w) + 1), wire'[1][n].type = "RICindication"
      PROVE  /\ n > 1
             /\ wire'[1][n - 1].type \in {"RICsubscriptionResponse", "RICindication"}
             /\ wire'[1][n - 1].rid = wire'[1][n].rid
             /\ wire'[1][n - 1].type = "RICindication" =>
                  wire'[1][n - 1].seq + 1 = wire'[1][n].seq
  <2>1. CASE n = Len(w) + 1
    <3>1. wire'[1][n] = m /\ n - 1 = Len(w)
      BY <1>1, <1>2, <1>3, <2>1
    <3>2. Len(w) > 0 /\ Len(w) \in 1..Len(w)
      BY <1>1, <1>4, <3>1 DEF Follows
    <3>3. wire'[1][n - 1] = w[Len(w)]
      BY <1>2, <1>3, <3>1, <3>2
    <3> QED
      BY <1>4, <2>1, <3>1, <3>2, <3>3 DEF Follows
  <2>2. CASE n \in 1..Len(w)
    <3>1. wire'[1][n] = w[n]
      BY <1>2, <1>3, <2>2
    <3>2. DOMAIN w = 1..Len(w) /\ 1 \in Nodes
      BY <1>1 DEF Nodes
    <3>3. /\ n > 1
          /\ w[n - 1].type \in {"RICsubscriptionResponse", "RICindication"}
          /\ w[n - 1].rid = w[n].rid
          /\ w[n - 1].type = "RICindication" => w[n - 1].seq + 1 = w[n].seq
      BY <1>4, <2>2, <3>1, <3>2 DEF SingleInv, ReportsContiguous
    <3>4. n - 1 \in 1..Len(w)
      BY <1>1, <2>2, <3>3
    <3>5. wire'[1][n - 1] = w[n - 1]
      BY <1>2, <1>3, <3>4
    <3> QED
      BY <3>1, <3>3, <3>5
  <2> QED
    BY <1>1, <2>1, <2>2
<1>5. ReportsContiguous'
  <2>1. \A c \in Nodes : c = 1
    BY DEF Nodes
  <2>2. DOMAIN wire'[1] = 1..(Len(w) + 1)
    BY <1>2, <1>3
  <2> HIDE DEF w
  <2> QED
    BY <1>4, <2>1, <2>2 DEF ReportsContiguous
<1> QED
  BY <1>1, <1>2, <1>3, <1>5

\* Every step keeps it: only a report in progress sends indications.
LEMMA SingleStep ==
  ASSUME Instances = 1, IInv, SingleInv, [Next]_vars
  PROVE  SingleInv'
<1>n. Nodes = {1} /\ 1 \in Nodes
  BY DEF Nodes
<1>m. msg[1] \in Messages /\ msg[1].rid \in 0..MaxRequests /\ msg[1].body \in Bodies
  BY <1>n DEF IInv, MessageType, Messages, Bodies
<1>l. left[1] \in 0..MaxInd /\ pc[1] \in Points
  BY <1>n DEF IInv, ThreadType
<1>a. ASSUME wire' = wire, Latest' PROVE SingleInv'
  BY <1>a DEF SingleInv, ReportsContiguous
<1>q. ASSUME pc' = pc, msg' = msg, left' = left, wire' = wire PROVE SingleInv'
  BY <1>a, <1>q DEF SingleInv, Latest
<1>o. ASSUME pc'[1] \notin {"reporting", "indicated", "awaiting"}, wire' = wire PROVE SingleInv'
  BY <1>a, <1>o DEF Latest
<1>s. ASSUME NEW m \in Outgoing, sctp_send_data(m), m.type # "RICindication",
             pc'[1] \notin {"reporting", "indicated", "awaiting"}
      PROVE  SingleInv'
  BY <1>s, SendKeeps DEF SingleInv, Latest, Follows
<1>0. CASE UNCHANGED vars
  BY <1>0, <1>q DEF vars, thread_vars
<1>1. CASE pthread_create \/ next_plmnId
  <2>1. CASE pthread_create /\ pc' # pc
    BY <1>1, <1>n, <1>o, <2>1, ProcessAssumption
       DEF pthread_create, Goto, IInv, ProcessType, ThreadType, Uncreated
  <2>2. CASE pc' = pc
    BY <1>1, <1>q, <2>2 DEF pthread_create, next_plmnId, thread_vars
  <2> QED
    BY <1>1, <2>1, <2>2 DEF next_plmnId, thread_vars
<1>2. CASE initparam(1) \/ sctp_start_client(1) \/ Receive(1) \/ Ignore(1) \/ EndReport(1)
  BY <1>2, <1>l, <1>n, <1>o
     DEF initparam, sctp_start_client, Receive, Ignore, EndReport, Goto, IInv, ThreadType
<1>3. CASE ConnectFails(1) \/ exit_1(1) \/ Ric
  BY <1>3, <1>q DEF ConnectFails, exit_1, Ric, RicControl, RicClose, RicSend, thread_vars
<1>4. CASE SendSetup(1)
  <2>1. [type |-> "E2setup", plmn |-> plmn[1]] \in Outgoing
    BY <1>n DEF IInv, ThreadType, Outgoing
  <2> QED
    BY <1>4, <1>n, <1>s, <2>1 DEF SendSetup, Goto, IInv, ThreadType
<1>5. CASE EnterReceive(1)
  <2>1. CASE pc[1] = "loop" /\ Goto(1, "receiving")
    BY <1>5, <1>n, <1>o, <2>1 DEF EnterReceive, Goto, IInv, ThreadType
  <2>2. CASE pc[1] = "indicated" /\ UNCHANGED msg
    BY <1>5, <1>a, <2>2 DEF EnterReceive, SingleInv, Latest
  <2> QED
    BY <1>5, <2>1, <2>2 DEF EnterReceive
<1>6. CASE ReceiveAnswer(1)
  BY <1>6, <1>a DEF ReceiveAnswer, SingleInv, Latest
<1>7. CASE ReceiveEnd(1)
  <2>1. CASE pc[1] = "awaiting"
    BY <1>7, <1>a, <2>1 DEF ReceiveEnd, SingleInv, Latest
  <2>2. CASE pc[1] = "receiving"
    BY <1>7, <1>n, <1>o, <2>2 DEF ReceiveEnd, Goto, IInv, ThreadType
  <2> QED
    BY <1>7, <2>1, <2>2 DEF ReceiveEnd, Blocked
<1>8. CASE callback_kpm_subscription_request(1)
  <2> DEFINE m == [type |-> "RICsubscriptionResponse", rid |-> msg[1].rid,
                   accepted |-> accepted(msg[1].body.actions)]
  <2>1. m \in Outgoing /\ m.type # "RICindication"
    BY <1>m DEF Outgoing
  <2>2. /\ wire'[1] \in Seq(Outgoing)
        /\ Len(wire'[1]) > 0 /\ wire'[1][Len(wire'[1])] = m
        /\ ReportsContiguous'
    BY <1>8, <2>1, SendKeeps DEF callback_kpm_subscription_request, Follows
  <2>3. left'[1] \in {0, MaxInd} /\ msg' = msg
    BY <1>8, <1>n DEF callback_kpm_subscription_request, IInv, ThreadType
  <2>4. Latest'
    BY <2>2, <2>3 DEF Latest
  <2> QED
    BY <2>2, <2>4 DEF SingleInv
<1>9. CASE run_report_loop(1)
  <2> DEFINE m == [type |-> "RICindication", rid |-> msg[1].rid,
                   action |-> reqActionId(msg[1].body.actions),
                   seq |-> MaxInd - left[1] + 1]
  <2>1. left[1] # 0 /\ MaxInd - left[1] + 1 \in 1..MaxInd
    BY <1>9, <1>l, ProcessAssumption DEF run_report_loop
  <2>2. m \in Outgoing
    BY <1>m, <2>1 DEF Outgoing
  <2>3. Follows(wire[1], m)
    BY <1>9, <1>l, ProcessAssumption DEF run_report_loop, SingleInv, Latest, Follows
  <2>4. /\ wire'[1] \in Seq(Outgoing)
        /\ Len(wire'[1]) > 0 /\ wire'[1][Len(wire'[1])] = m
        /\ ReportsContiguous'
    BY <1>9, <2>2, <2>3, SendKeeps DEF run_report_loop
  <2>5. left'[1] = left[1] - 1 /\ msg' = msg
    BY <1>9, <1>n DEF run_report_loop, IInv, ThreadType
  <2>6. MaxInd - (left[1] - 1) = MaxInd - left[1] + 1
    BY <1>l, ProcessAssumption
  <2>7. Latest'
    BY <2>4, <2>5, <2>6 DEF Latest
  <2> QED
    BY <2>4, <2>7 DEF SingleInv
<1>10. CASE e2ap_handle_E2SeviceRequest(1)
  <2>1. [type |-> "RICserviceUpdate", rid |-> msg[1].rid] \in Outgoing
    BY <1>m DEF Outgoing
  <2> QED
    BY <1>10, <1>n, <1>s, <2>1 DEF e2ap_handle_E2SeviceRequest, Reply, Goto, IInv, ThreadType
<1>11. CASE e2ap_handle_E2SetupRequest(1)
  <2>1. [type |-> "E2setupResponse", rid |-> msg[1].rid] \in Outgoing
    BY <1>m DEF Outgoing
  <2> QED
    BY <1>11, <1>n, <1>s, <2>1 DEF e2ap_handle_E2SetupRequest, Reply, Goto, IInv, ThreadType
<1>12. CASE SendSubscription(1)
  <2>1. [type |-> "RICsubscriptionRequest", rid |-> msg[1].rid] \in Outgoing
    BY <1>m DEF Outgoing
  <2> QED
    BY <1>12, <1>n, <1>s, <2>1 DEF SendSubscription, Goto, IInv, ThreadType
<1> QED
  BY <1>n, <1>0, <1>1, <1>2, <1>3, <1>4, <1>5, <1>6, <1>7, <1>8, <1>9, <1>10, <1>11, <1>12
     DEF Next, Main, Thread

\* Nothing has been sent yet.
LEMMA SingleInit == Instances = 1 /\ Init => SingleInv
BY DEF Init, SingleInv, Latest, ReportsContiguous, Nodes

\* The reports of a single instance are never mixed, whatever the RIC sends meanwhile and
\* however many indications a report has.
THEOREM ReportsApart == Instances = 1 => (Spec => []ReportsContiguous)
<1> SUFFICES ASSUME Instances = 1 PROVE Spec => []ReportsContiguous
  OBVIOUS
<1>1. Init => SingleInv
  BY SingleInit
<1>2. IInv /\ SingleInv /\ [Next]_vars => SingleInv'
  BY SingleStep
<1>3. SingleInv => ReportsContiguous
  BY DEF SingleInv
<1> QED
  BY <1>1, <1>2, <1>3, Invariance, PTL DEF Spec
================================================================================

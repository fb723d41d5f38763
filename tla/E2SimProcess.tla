----------------------------- MODULE E2SimProcess -----------------------------
(***************************************************************************)
(* The kpm_sim process: kpm_callbacks.cpp starts one thread per simulated  *)
(* E2 node, and every thread runs the one E2Sim object.  The threads share *)
(* the record with the PLMN id, the table of callbacks and the descriptor  *)
(* client_fd, which each of them assigns when it connects and all of them  *)
(* use from then on, by reference: to send, to receive and to close.       *)
(*                                                                         *)
(* Instance i opens connection i.  A thread blocked in recv() stays with   *)
(* the connection client_fd named when it called, even if the descriptor   *)
(* is closed meanwhile.  A descriptor number is taken not to be reused.    *)
(* The RIC, at the other end of each connection, is external.              *)
(***************************************************************************)
EXTENDS Naturals, Sequences, FiniteSets

CONSTANTS
  Instances,   \* num_of_e2sim, the number of simulated nodes
  MaxInd,      \* maxInd, indications sent for a subscription
  Inputs,      \* bodies of the messages the RIC may send
  MaxRequests, \* bound: messages the RIC sends, besides its answers to indications
  Traces       \* what the measurement files may be like: "first" if all up to the first cell
               \* is there and can be read, "whole" if nothing in them makes a report throw

Nodes == 1..Instances

ASSUME ProcessAssumption ==
  /\ Instances \in Nat \ {0}
  /\ MaxInd \in Nat \ {0}
  /\ MaxRequests \in Nat
  /\ Traces \subseteq [first : BOOLEAN, whole : BOOLEAN]

VARIABLES
  process,    \* "up", or "exited" once some thread called exit(1)
  created,    \* threads main() has created
  creating,   \* main() sleeps after a pthread_create, that "worked" or "failed"; or "no"
  plmnId,     \* the field of the one struct args
  callbacks,  \* RAN functions with a subscription callback
  client_fd,  \* the global descriptor: the connection it names, 0 at first
  fds,        \* connections whose descriptor is open
  pc,         \* where each thread is
  plmn,       \* the PLMN id each thread announces, 0 before it has one
  on,         \* the connection a thread is blocked on in recv()
  msg,        \* the message a thread is handling
  left,       \* indications a thread has yet to send for it
  ric,        \* the RIC's end of each connection: "none", "open", "refused" or "closed"
  to_sim,     \* messages on their way from the RIC, per connection
  wire,       \* messages sent to the RIC, per connection
  requests,   \* messages the RIC has sent, without its answers to indications
  controls,   \* answers to indications the RIC has sent, per connection
  trace       \* the measurement files every report reads

main_vars   == <<created, creating, plmnId, trace>>
thread_vars == <<pc, plmn, on, msg, left>>
ric_vars    == <<ric, requests, controls>>
vars == <<process, main_vars, callbacks, client_fd, fds, thread_vars, to_sim, wire, ric_vars>>

Nothing == [body |-> [kind |-> "none"], rid |-> 0]
Control == [body |-> [kind |-> "control"], rid |-> 0]

Messages == [body : Inputs \cup {Nothing.body, Control.body}, rid : 0..MaxRequests]

Blocked == {"receiving", "awaiting"}
Points  == {"none", "starting", "connecting", "connected", "loop", "handling",
            "resubscribing", "reporting", "indicated", "ended"} \cup Blocked

TypeOK ==
  /\ process \in {"up", "exited"}
  /\ created \in 0..Instances
  /\ creating \in {"no", "worked", "failed"}
  /\ plmnId \in 1..(Instances + 1)
  /\ callbacks \subseteq {"kpm"}
  /\ client_fd \in 0..Instances
  /\ fds \subseteq Nodes
  /\ pc \in [Nodes -> Points]
  /\ plmn \in [Nodes -> 0..(Instances + 1)]
  /\ on \in [Nodes -> 0..Instances]
  /\ msg \in [Nodes -> Messages]
  /\ left \in [Nodes -> 0..MaxInd]
  /\ ric \in [Nodes -> {"none", "open", "refused", "closed"}]
  /\ to_sim \in [Nodes -> Seq(Messages)]
  /\ wire = [c \in Nodes |-> wire[c]]
  /\ requests \in 0..MaxRequests
  /\ trace \in Traces

Init ==
  /\ process = "up"
  /\ created = 0 /\ creating = "no" /\ plmnId = 1
  /\ callbacks = {}
  /\ client_fd = 0 /\ fds = {}
  /\ pc = [i \in Nodes |-> "none"]
  /\ plmn = [i \in Nodes |-> 0]
  /\ on = [i \in Nodes |-> 0]
  /\ msg = [i \in Nodes |-> Nothing]
  /\ left = [i \in Nodes |-> 0]
  /\ ric = [i \in Nodes |-> "none"]
  /\ to_sim = [i \in Nodes |-> <<>>]
  /\ wire = [i \in Nodes |-> <<>>]
  /\ requests = 0
  /\ controls = [i \in Nodes |-> 0]
  /\ trace \in Traces

Goto(i, point) == pc' = [pc EXCEPT ![i] = point]

--------------------------------------------------------------------------------
(* main(): every thread gets the same struct args, and its PLMN id is incremented two *)
(* seconds after each creation, when the new thread may or may not have read it.      *)

\* Mutant: one thread too many.
pthread_create_TooMany ==
  /\ creating = "no" /\ created <= Instances
  /\ creating' = "worked" /\ created' = created + 1 /\ Goto(created', "starting")
  /\ UNCHANGED <<process, plmnId, trace, callbacks, client_fd, fds, plmn, on, msg, left,
                 to_sim, wire, ric_vars>>

pthread_create ==
  /\ creating = "no" /\ created < Instances
  /\ \/ creating' = "worked" /\ created' = created + 1 /\ Goto(created', "starting")
     \/ creating' = "failed" /\ UNCHANGED <<created, pc>>
  /\ UNCHANGED <<process, plmnId, trace, callbacks, client_fd, fds, plmn, on, msg, left,
                 to_sim, wire, ric_vars>>

\* Mutant: the id is not incremented.
next_plmnId_Same ==
  /\ creating = "worked" /\ creating' = "no"
  /\ UNCHANGED <<process, created, plmnId, trace, callbacks, client_fd, fds, thread_vars,
                 to_sim, wire, ric_vars>>

next_plmnId ==
  /\ creating # "no"
  /\ plmnId' = plmnId + 1
  /\ \/ creating = "worked" /\ creating' = "no" /\ UNCHANGED process
     \/ creating = "failed" /\ process' = "exited" /\ UNCHANGED creating
  /\ UNCHANGED <<created, trace, callbacks, client_fd, fds, thread_vars, to_sim, wire,
                 ric_vars>>

--------------------------------------------------------------------------------
(* A thread: initparam() and run_loop() *)

initparam(i) ==
  /\ pc[i] = "starting"
  /\ callbacks' = callbacks \cup {"kpm"}
  /\ plmn' = [plmn EXCEPT ![i] = plmnId]
  /\ Goto(i, "connecting")
  /\ UNCHANGED <<process, main_vars, client_fd, fds, on, msg, left, to_sim, wire, ric_vars>>

sctp_start_client(i) ==
  /\ pc[i] = "connecting"
  /\ client_fd' = i
  /\ fds' = fds \cup {i}
  /\ ric' = [ric EXCEPT ![i] = "open"]
  /\ Goto(i, "connected")
  /\ UNCHANGED <<process, main_vars, callbacks, plmn, on, msg, left, to_sim, wire,
                 requests, controls>>

\* A connect() that fails ends the whole process.
ConnectFails(i) ==
  /\ pc[i] = "connecting"
  /\ ric' = [ric EXCEPT ![i] = "refused"]
  /\ process' = "exited"
  /\ UNCHANGED <<main_vars, callbacks, client_fd, fds, thread_vars, to_sim, wire,
                 requests, controls>>

\* send() on client_fd, whichever connection that is by now.
sctp_send_data(m) ==
  /\ client_fd \in fds
  /\ wire' = [wire EXCEPT ![client_fd] = Append(@, m)]

SendSetup(i) ==
  /\ pc[i] = "connected"
  /\ sctp_send_data([type |-> "E2setup", plmn |-> plmn[i]])
  /\ Goto(i, "loop")
  /\ UNCHANGED <<process, main_vars, callbacks, client_fd, fds, plmn, on, msg, left,
                 to_sim, ric_vars>>

\* Mutant: a thread receives on the connection it opened.
EnterReceive_Own(i) ==
  /\ client_fd \in fds
  /\ \/ pc[i] = "loop" /\ Goto(i, "receiving") /\ msg' = [msg EXCEPT ![i] = Nothing]
     \/ pc[i] = "indicated" /\ Goto(i, "awaiting") /\ UNCHANGED msg
  /\ on' = [on EXCEPT ![i] = i]
  /\ UNCHANGED <<process, main_vars, callbacks, client_fd, fds, plmn, left, to_sim, wire,
                 ric_vars>>

\* recv(): from the loop, which clears its buffer, or for the answer to an indication.
EnterReceive(i) ==
  /\ client_fd \in fds
  /\ \/ pc[i] = "loop" /\ Goto(i, "receiving") /\ msg' = [msg EXCEPT ![i] = Nothing]
     \/ pc[i] = "indicated" /\ Goto(i, "awaiting") /\ UNCHANGED msg
  /\ on' = [on EXCEPT ![i] = client_fd]
  /\ UNCHANGED <<process, main_vars, callbacks, client_fd, fds, plmn, left, to_sim, wire,
                 ric_vars>>

Take(i) ==
  /\ to_sim[on[i]] # <<>>
  /\ to_sim' = [to_sim EXCEPT ![on[i]] = Tail(@)]
  /\ on' = [on EXCEPT ![i] = 0]

Receive(i) ==
  /\ pc[i] = "receiving"
  /\ Take(i)
  /\ msg' = [msg EXCEPT ![i] = Head(to_sim[on[i]])]
  /\ Goto(i, "handling")
  /\ UNCHANGED <<process, main_vars, callbacks, client_fd, fds, plmn, left, wire, ric_vars>>

\* Mutant: one answer ends the report.
ReceiveAnswer_Loop(i) ==
  /\ pc[i] = "awaiting"
  /\ Take(i)
  /\ Goto(i, "loop")
  /\ UNCHANGED <<process, main_vars, callbacks, client_fd, fds, plmn, msg, left, wire,
                 ric_vars>>

\* Whatever comes first is taken for the answer to the indication, and is not handled.
ReceiveAnswer(i) ==
  /\ pc[i] = "awaiting"
  /\ Take(i)
  /\ Goto(i, "reporting")
  /\ UNCHANGED <<process, main_vars, callbacks, client_fd, fds, plmn, msg, left, wire,
                 ric_vars>>

\* Mutant: recv() gives 0 when there is nothing to receive yet.
ReceiveEnd_Early(i) ==
  /\ pc[i] \in Blocked
  /\ to_sim[on[i]] = <<>>
  /\ fds' = fds \ {client_fd}
  /\ on' = [on EXCEPT ![i] = 0]
  /\ Goto(i, IF pc[i] = "receiving" THEN "ended" ELSE "reporting")
  /\ UNCHANGED <<process, main_vars, callbacks, client_fd, plmn, msg, left, to_sim, wire,
                 ric_vars>>

\* recv() returned 0: sctp_receive_data closes the descriptor that client_fd holds now.
ReceiveEnd(i) ==
  /\ pc[i] \in Blocked
  /\ to_sim[on[i]] = <<>> /\ ric[on[i]] = "closed"
  /\ fds' = fds \ {client_fd}
  /\ on' = [on EXCEPT ![i] = 0]
  /\ Goto(i, IF pc[i] = "receiving" THEN "ended" ELSE "reporting")
  /\ UNCHANGED <<process, main_vars, callbacks, client_fd, plmn, msg, left, to_sim, wire,
                 ric_vars>>

--------------------------------------------------------------------------------
(* A thread: e2ap_handle_sctp_data() and the KPM callback *)

\* The RAN function id is read from an uninitialised variable when the request names none.
MayCall(m)   == m.body.kind = "subscription" /\ m.body.func \in callbacks \cup {"missing"}
MayRefuse(m) == m.body.kind = "subscription" /\ m.body.func \notin callbacks

\* The first REPORT action is accepted, all others are rejected.
IsReport(a) == a.type = "report"

FirstReport(actions) ==
  {n \in DOMAIN actions :
     IsReport(actions[n]) /\ \A earlier \in 1..(n - 1) : ~ IsReport(actions[earlier])}

accepted(actions) == {actions[n].id : n \in FirstReport(actions)}
rejected(actions) == {actions[n].id : n \in DOMAIN actions \ FirstReport(actions)}

\* Mutant: the list of rejected actions is a field of its own.
Encodable_Mixed(actions) == accepted(actions) # {}

\* The list of the rejected actions is written over that of the accepted ones, in one union,
\* and an empty list of accepted actions has no encoding.
Encodable(actions) == accepted(actions) # {} /\ rejected(actions) = {}

\* The loop over the actions leaves the id of the last one in reqActionId.
reqActionId(actions) == actions[Len(actions)].id

\* Mutant: the report starts without the answer.
callback_kpm_subscription_request_Silent(i) ==
  /\ pc[i] = "handling" /\ MayCall(msg[i]) /\ Encodable(msg[i].body.actions)
  /\ left' = [left EXCEPT ![i] = IF trace.first THEN MaxInd ELSE 0]
  /\ Goto(i, "reporting")
  /\ UNCHANGED <<process, main_vars, callbacks, client_fd, fds, plmn, on, msg, to_sim, wire,
                 ric_vars>>

\* The answer, and the start of run_report_loop(): indications are sent with the first cell
\* of the measurement files, so none if they name no cell.
callback_kpm_subscription_request(i) ==
  /\ pc[i] = "handling" /\ MayCall(msg[i]) /\ Encodable(msg[i].body.actions)
  /\ sctp_send_data([type |-> "RICsubscriptionResponse", rid |-> msg[i].rid,
                     accepted |-> accepted(msg[i].body.actions)])
  /\ left' = [left EXCEPT ![i] = IF trace.first THEN MaxInd ELSE 0]
  /\ Goto(i, "reporting")
  /\ UNCHANGED <<process, main_vars, callbacks, client_fd, fds, plmn, on, msg, to_sim, ric_vars>>

\* Mutant: indications are numbered downwards.
run_report_loop_Down(i) ==
  /\ pc[i] = "reporting" /\ left[i] > 0
  /\ sctp_send_data([type |-> "RICindication", rid |-> msg[i].rid,
                     action |-> reqActionId(msg[i].body.actions), seq |-> left[i]])
  /\ left' = [left EXCEPT ![i] = @ - 1]
  /\ Goto(i, "indicated")
  /\ UNCHANGED <<process, main_vars, callbacks, client_fd, fds, plmn, on, msg, to_sim, ric_vars>>

\* Mutant: indications are not counted.
run_report_loop_Endless(i) ==
  /\ pc[i] = "reporting" /\ left[i] > 0
  /\ sctp_send_data([type |-> "RICindication", rid |-> msg[i].rid,
                     action |-> reqActionId(msg[i].body.actions), seq |-> 1])
  /\ Goto(i, "indicated")
  /\ UNCHANGED <<process, main_vars, callbacks, client_fd, fds, plmn, on, msg, left, to_sim,
                 ric_vars>>

\* The next indication; encode_and_send_sctp_data then waits for an answer.
run_report_loop(i) ==
  /\ pc[i] = "reporting" /\ left[i] > 0
  /\ sctp_send_data([type |-> "RICindication", rid |-> msg[i].rid,
                     action |-> reqActionId(msg[i].body.actions),
                     seq |-> MaxInd - left[i] + 1])
  /\ left' = [left EXCEPT ![i] = @ - 1]
  /\ Goto(i, "indicated")
  /\ UNCHANGED <<process, main_vars, callbacks, client_fd, fds, plmn, on, msg, to_sim, ric_vars>>

\* The rest of the files is read and nothing more is sent.
EndReport(i) ==
  /\ pc[i] = "reporting" /\ left[i] = 0 /\ trace.whole
  /\ Goto(i, "loop")
  /\ UNCHANGED <<process, main_vars, callbacks, client_fd, fds, plmn, on, msg, left,
                 to_sim, wire, ric_vars>>

\* A service query is answered with an update; a setup request with a response and, five
\* seconds later, a subscription request.
Reply(i, kind, m, point) ==
  /\ pc[i] = "handling" /\ msg[i].body.kind = kind
  /\ sctp_send_data(m)
  /\ Goto(i, point)
  /\ UNCHANGED <<process, main_vars, callbacks, client_fd, fds, plmn, on, msg, left,
                 to_sim, ric_vars>>

e2ap_handle_E2SeviceRequest(i) ==
  Reply(i, "serviceQuery", [type |-> "RICserviceUpdate", rid |-> msg[i].rid], "loop")

e2ap_handle_E2SetupRequest(i) ==
  Reply(i, "E2setup", [type |-> "E2setupResponse", rid |-> msg[i].rid], "resubscribing")

SendSubscription(i) ==
  /\ pc[i] = "resubscribing"
  /\ sctp_send_data([type |-> "RICsubscriptionRequest", rid |-> msg[i].rid])
  /\ Goto(i, "loop")
  /\ UNCHANGED <<process, main_vars, callbacks, client_fd, fds, plmn, on, msg, left,
                 to_sim, ric_vars>>

\* An unknown RAN function, and every other message, is logged and nothing more.
Ignore(i) ==
  /\ pc[i] = "handling"
  /\ \/ MayRefuse(msg[i])
     \/ msg[i].body.kind \notin {"subscription", "serviceQuery", "E2setup"}
  /\ Goto(i, "loop")
  /\ UNCHANGED <<process, main_vars, callbacks, client_fd, fds, plmn, on, msg, left,
                 to_sim, wire, ric_vars>>

--------------------------------------------------------------------------------
(* What ends the whole process, from within a thread *)

\* encode_and_send_sctp_data exits when the answer to a subscription cannot be encoded.
Unanswerable(i) ==
  pc[i] = "handling" /\ MayCall(msg[i]) /\ ~ Encodable(msg[i].body.actions)

\* A file that is not there, is no JSON or lacks a field: no thread catches the exception.
TraceThrows(i) == pc[i] = "reporting" /\ left[i] = 0 /\ ~ trace.whole

\* A send() or recv() that fails: on a descriptor that is closed, or on a connection the RIC
\* has closed.
Sending(i) ==
  \/ pc[i] \in {"connected", "resubscribing"}
  \/ pc[i] = "reporting" /\ left[i] > 0
  \/ pc[i] = "handling" /\ (MayCall(msg[i]) \/ msg[i].body.kind \in {"serviceQuery", "E2setup"})

CallFails(i) ==
  \/ Sending(i) /\ (client_fd \notin fds \/ ric[client_fd] = "closed")
  \/ pc[i] \in {"loop", "indicated"} /\ client_fd \notin fds
  \/ pc[i] \in Blocked /\ ric[on[i]] = "closed"

exit_1(i) ==
  /\ Unanswerable(i) \/ TraceThrows(i) \/ CallFails(i)
  /\ process' = "exited"
  /\ UNCHANGED <<main_vars, callbacks, client_fd, fds, thread_vars, to_sim, wire, ric_vars>>

--------------------------------------------------------------------------------
(* The RIC: it sees a connection until it closes it, or until the simulator's last use of *)
(* it ends.                                                                               *)

Connected(c) ==
  ric[c] = "open" /\ (c \in fds \/ \E i \in Nodes : pc[i] \in Blocked /\ on[i] = c)

RicSend(c, body) ==
  /\ Connected(c)
  /\ requests < MaxRequests
  /\ requests' = requests + 1
  /\ to_sim' = [to_sim EXCEPT ![c] = Append(@, [body |-> body, rid |-> requests'])]
  /\ UNCHANGED <<process, main_vars, callbacks, client_fd, fds, thread_vars, wire, ric, controls>>

Owed(c) == Cardinality({n \in DOMAIN wire[c] : wire[c][n].type = "RICindication"}) - controls[c]

RicControl(c) ==
  /\ Connected(c) /\ Owed(c) > 0
  /\ controls' = [controls EXCEPT ![c] = @ + 1]
  /\ to_sim' = [to_sim EXCEPT ![c] = Append(@, Control)]
  /\ UNCHANGED <<process, main_vars, callbacks, client_fd, fds, thread_vars, wire, ric, requests>>

RicClose(c) ==
  /\ Connected(c)
  /\ ric' = [ric EXCEPT ![c] = "closed"]
  /\ UNCHANGED <<process, main_vars, callbacks, client_fd, fds, thread_vars, to_sim, wire,
                 requests, controls>>

--------------------------------------------------------------------------------
Main == process = "up" /\ (pthread_create \/ next_plmnId)

Thread(i) ==
  /\ process = "up"
  /\ \/ initparam(i) \/ sctp_start_client(i) \/ ConnectFails(i) \/ SendSetup(i) \/ EnterReceive(i)
     \/ Receive(i) \/ ReceiveAnswer(i) \/ ReceiveEnd(i)
     \/ callback_kpm_subscription_request(i) \/ run_report_loop(i) \/ EndReport(i)
     \/ e2ap_handle_E2SeviceRequest(i) \/ e2ap_handle_E2SetupRequest(i)
     \/ SendSubscription(i) \/ Ignore(i) \/ exit_1(i)

Ric ==
  /\ process = "up"
  /\ \E c \in Nodes : RicControl(c) \/ RicClose(c) \/ \E body \in Inputs : RicSend(c, body)

Next == Main \/ (\E i \in Nodes : Thread(i)) \/ Ric

\* The threads run, and the RIC answers the indications it gets: without the second
\* assumption a thread waits for the answer for ever.
Fairness ==
  /\ WF_vars(Main)
  /\ \A i \in Nodes : WF_vars(Thread(i)) /\ WF_vars(process = "up" /\ RicControl(i))

Spec == Init /\ [][Next]_vars /\ Fairness

--------------------------------------------------------------------------------
(* Properties, for any number of instances *)

Sent(type) ==
  {m \in UNION {{wire[c][n] : n \in DOMAIN wire[c]} : c \in Nodes} : m.type = type}

Count(type, r) ==
  Cardinality(UNION {{c} \X {n \in DOMAIN wire[c] : wire[c][n].type = type /\ wire[c][n].rid = r}
                       : c \in Nodes})

\* A request is still to be served while it is on its way or at the start of its handling.
Unserved(r) ==
  \/ \E c \in Nodes : \E n \in DOMAIN to_sim[c] : to_sim[c][n].rid = r
  \/ \E i \in Nodes : pc[i] = "handling" /\ msg[i].rid = r

Served(r) ==
  LET answers == Count("RICsubscriptionResponse", r)
  IN  [stage |-> IF answers > 0 THEN "answered"
                 ELSE IF Unserved(r) THEN "asked"
                 ELSE IF r <= requests THEN "dropped" ELSE "unasked",
       indications |-> Count("RICindication", r) + (IF answers > 1 THEN MaxInd ELSE 0)]

Reports == INSTANCE ReportService
             WITH Requests <- 1..MaxRequests, served <- [r \in 1..MaxRequests |-> Served(r)]

\* However the instances share connections, a subscription request is answered at most
\* once and before its indications, which come one at a time and are never too many; a
\* request that was taken for the answer to an indication is never served later.
ImplementsReportService == Reports!Spec

\* Whatever the threads do to client_fd, a thread ends only after the RIC has closed some
\* connection, and the process only if that, a pthread_create or a connect fails, or if a
\* thread is at a request whose answer cannot be encoded or at a file that cannot be read.
Closed  == \E c \in Nodes : ric[c] = "closed"
Refused == creating = "failed" \/ \E c \in Nodes : ric[c] = "refused"
Stuck   == \E i \in Nodes : Unanswerable(i) \/ TraceThrows(i)

OnlyFailuresEnd ==
  /\ (\E i \in Nodes : pc[i] = "ended") => Closed
  /\ process = "exited" => Closed \/ Refused \/ Stuck

\* An indication carries the id of the action that the answer to its request accepted,
\* although the callback keeps the id of the last action: whenever the two differ there is
\* no answer.
IndicationsAccepted ==
  \A ind \in Sent("RICindication") : \A resp \in Sent("RICsubscriptionResponse") :
    ind.rid = resp.rid => ind.action \in resp.accepted

\* A thread announces its own number exactly when it reads it before main() wakes up from
\* the two seconds it gives it; a slower one announces the number of a later thread.
OwnPlmnIfPrompt ==
  [][\A i \in Nodes : plmn[i] = 0 /\ plmn'[i] # 0 =>
       (plmn'[i] = i <=> created = i /\ creating = "worked")]_vars

\* A connection that client_fd no longer names and on which nobody waits is lost for good:
\* what the RIC has sent there is never read, and nothing more is sent to it.
Abandoned(c) == ric[c] \in {"open", "closed"} /\ client_fd # c /\ \A i \in Nodes : on[i] # c

AbandonedForGood ==
  [][\A c \in Nodes : Abandoned(c) =>
       /\ Abandoned(c)'
       /\ wire'[c] = wire[c]
       /\ Len(to_sim'[c]) >= Len(to_sim[c])]_vars

--------------------------------------------------------------------------------
(* Properties, for a single instance *)

\* The reports of two requests are never mixed: an indication follows the answer to its
\* own request or the indication before it, at once.
ReportsContiguous ==
  \A c \in Nodes : \A n \in DOMAIN wire[c] :
    wire[c][n].type = "RICindication" =>
      /\ n > 1
      /\ wire[c][n - 1].type \in {"RICsubscriptionResponse", "RICindication"}
      /\ wire[c][n - 1].rid = wire[c][n].rid
      /\ wire[c][n - 1].type = "RICindication" => wire[c][n - 1].seq + 1 = wire[c][n].seq

\* A request is answered or dropped, and an answered one gets all its indications if the
\* measurement files name a cell: unless the RIC closes the connection, or the process has
\* ended at a request whose answer it cannot encode or at a file it cannot read.
Disturbed == Closed \/ (process = "exited" /\ Stuck)

RequestsServed ==
  \A r \in 1..MaxRequests :
    /\ Served(r).stage = "asked" ~> Served(r).stage # "asked" \/ Disturbed
    /\ Served(r).stage = "answered" /\ trace.first ~> Served(r).indications = MaxInd \/ Disturbed

--------------------------------------------------------------------------------
(* What the documents and comments say *)

\* README: "If no callback is provided, we return an error response."
UnknownFunctionAnswered ==
  \A i \in Nodes :
    pc[i] = "loop" /\ msg[i].body.kind = "subscription" =>
      \E c \in Nodes : \E n \in DOMAIN wire[c] :
        wire[c][n].type # "E2setup" /\ wire[c][n].rid = msg[i].rid

\* The KPM callback: "We identify the first action whose type is REPORT. That is the only one
\* accepted; all others are rejected."  Then a request with a REPORT action among others is
\* answered, and is not what ends the process.
ReportAmongOthersServed ==
  process = "exited" /\ ~ Closed /\ ~ Refused /\ trace.whole =>
    \A i \in Nodes : Unanswerable(i) => accepted(msg[i].body.actions) = {}

\* sctp_receive_data: when recv() gives 0, "close the connection".  Then the simulator only
\* ever closes connections that the RIC has closed.
ClosesWhatEnded == \A c \in Nodes : ric[c] = "open" => c \in fds
================================================================================

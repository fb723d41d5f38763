------------------------------ MODULE BouncerXapp ------------------------------
(***************************************************************************)
(* The Bouncer xApp as b_xapp_main.cc runs it: the main thread waits for   *)
(* RMR, reads the gNB list, requests one subscription per entry through    *)
(* the SubscriptionHandler with a transmitter that retries RMR, and only   *)
(* then starts the receiver thread, which records subscription answers and *)
(* bounces every indication back as a control request.                     *)
(*                                                                         *)
(* H is the SubscriptionHandler with these two threads; each of its steps  *)
(* is taken together with the xApp's own.  The RIC and RMR are external:   *)
(* inbox is RMR's queue of messages for the xApp.                          *)
(***************************************************************************)
EXTENDS Naturals, Sequences

CONSTANTS
  main, rcv,      \* the two threads
  Ids,            \* gNB names
  Free, NoAnswer, \* see SubscriptionHandler
  GnbLists,       \* the gNB lists R-NIB may hold (sequences of names)
  MaxGnbs,        \* bound: the length of a list
  MaxAttempts,    \* rmrattempts: RMR send attempts per request
  MaxIndications, \* bound: indications per gNB
  MaxOthers       \* bound: other messages that reach the xApp

VARIABLES
  status_table, trans_table, data_lock, pc, req, result, calls, clears,
  transmitted, outstanding, answers, current,   \* the handler's, see there
  gnblist,      \* rnib_gnblist
  outcome,      \* what manage_subscription_request returned for gnblist[1], [2], ...
  phase,        \* main: "rmr", "rnib", "subscribing", then "running"; or "aborted"
  attempts,     \* rmr_attempts left in xapp_rmr_send
  sendbuf,      \* _xapp_send_buff: "null" or "alloc"
  inbox,        \* messages RMR holds for the xApp
  rx,           \* receiver: "off", "listening", "answering", "replying", "dead"
  rcvbuf,       \* _xapp_received_buff
  accepted,     \* gNBs whose subscription the RIC accepted
  indicated,    \* indications each gNB has sent
  bounced,      \* control requests that left the xApp, in order
  others        \* other messages that have reached the xApp

Lists == {list \in Seq(Ids) : Len(list) <= MaxGnbs}

H == INSTANCE SubscriptionHandler
       WITH Callers <- {main}, Receivers <- {rcv}, MaxCalls <- MaxGnbs, MaxClears <- 0

ASSUME BouncerAssumption ==
  /\ main # Free /\ NoAnswer \notin H!Answers
  /\ GnbLists \subseteq Lists /\ MaxGnbs \in Nat
  /\ MaxAttempts \in Nat /\ MaxIndications \in Nat /\ MaxOthers \in Nat

hvars == <<status_table, trans_table, data_lock, pc, req, result, calls, clears,
           transmitted, outstanding, answers, current>>
mvars == <<gnblist, outcome, phase, attempts, sendbuf>>
rvars == <<inbox, rx, rcvbuf>>
evars == <<accepted, indicated, bounced, others>>
vars  == <<hvars, mvars, rvars, evars>>

\* An answer is taken to fit RMR's buffer and to name its gNB: the receiver drops one that is
\* longer than MAX_RMR_RECV_SIZE or comes when the name cannot be allocated.
\* health: a health check; bad: a message that rmr_rcv_msg returns with a negative type or a
\* state other than RMR_OK; ignored: an unknown type, or longer than MAX_RMR_RECV_SIZE.
OtherKinds == {"health", "bad", "ignored"}
Indication(g, n) == [type |-> "RIC_INDICATION", id |-> g, seq |-> n]
Other(k) == [type |-> k]

TypeOK ==
  /\ H!TypeOK
  /\ gnblist \in Lists
  /\ outcome \in Seq(H!Results \ {"none"}) /\ Len(outcome) <= Len(gnblist)
  /\ phase \in {"rmr", "rnib", "subscribing", "running", "aborted"}
  /\ attempts \in 0..MaxAttempts
  /\ sendbuf \in {"null", "alloc"}
  /\ rx \in {"off", "listening", "answering", "replying", "dead"}
  /\ accepted \subseteq transmitted
  /\ indicated \in [Ids -> 0..MaxIndications]
  /\ others \in 0..MaxOthers

Init ==
  /\ H!Init
  /\ gnblist = <<>> /\ outcome = <<>> /\ phase = "rmr"
  /\ attempts = MaxAttempts /\ sendbuf = "null"
  /\ inbox = <<>> /\ rx = "off" /\ rcvbuf = NoAnswer
  /\ accepted = {} /\ indicated = [g \in Ids |-> 0] /\ bounced = <<>> /\ others = 0

--------------------------------------------------------------------------------
(* The main thread *)

\* main() asks every second whether RMR is ready, for as long as it is not.
xapp_rmr_init ==
  /\ phase = "rmr"
  /\ phase' = "rnib"
  /\ UNCHANGED <<hvars, gnblist, outcome, attempts, sendbuf, rvars, evars>>

\* Xapp::startup: every early return of set_rnib_gnblist leaves the list empty, and an entry
\* of gnb_list without a name violates an assertion.
set_rnib_gnblist ==
  /\ phase = "rnib"
  /\ \/ gnblist' \in GnbLists /\ phase' = "subscribing"
     \/ phase' = "aborted" /\ UNCHANGED gnblist
  /\ UNCHANGED <<hvars, outcome, attempts, sendbuf, rvars, evars>>

\* startup_subscribe_requests, iteration Len(outcome) + 1.
More == phase = "subscribing" /\ Len(outcome) < Len(gnblist)
Gnb  == gnblist[Len(outcome) + 1]

RequestNew ==
  /\ More /\ pc[main] = "idle"
  /\ H!Insert(main, Gnb)
  /\ UNCHANGED <<mvars, rvars, evars>>

RequestDuplicate ==
  /\ More /\ pc[main] = "idle"
  /\ H!Duplicate(main, Gnb)
  /\ outcome' = Append(outcome, "SUBSCR_ERR_DUPLICATE")
  /\ UNCHANGED <<gnblist, phase, attempts, sendbuf, rvars, evars>>

\* The transmitter starts: xapp_rmr_send allocates a buffer if it has none.
StartSend ==
  /\ More
  /\ H!Lock(main)
  /\ attempts' = MaxAttempts
  /\ sendbuf' = "alloc"
  /\ UNCHANGED <<gnblist, outcome, phase, rvars, evars>>

\* One turn of the retry loop.  RMR keeps the buffer it sent; it gives an unsent one back, or
\* null, and sending null gives null again.
SendOK ==
  /\ attempts > 0 /\ sendbuf = "alloc"
  /\ H!TransmitOK(main)
  /\ sendbuf' = "null"
  /\ UNCHANGED <<gnblist, outcome, phase, attempts, rvars, evars>>

\* Mutant: one attempt too many is counted.
SendRetry_OffByOne ==
  /\ pc[main] = "transmitting" /\ attempts >= 0
  /\ attempts' = attempts - 1
  /\ sendbuf' \in (IF sendbuf = "null" THEN {"null"} ELSE {"null", "alloc"})
  /\ UNCHANGED <<hvars, gnblist, outcome, phase, rvars, evars>>

\* Mutant: an attempt that finds no buffer is not counted.
SendRetry_NullFree ==
  /\ pc[main] = "transmitting" /\ attempts > 0
  /\ attempts' = IF sendbuf = "null" THEN attempts ELSE attempts - 1
  /\ sendbuf' \in (IF sendbuf = "null" THEN {"null"} ELSE {"null", "alloc"})
  /\ UNCHANGED <<hvars, gnblist, outcome, phase, rvars, evars>>

SendRetry ==
  /\ pc[main] = "transmitting" /\ attempts > 0
  /\ attempts' = attempts - 1
  /\ sendbuf' \in (IF sendbuf = "null" THEN {"null"} ELSE {"null", "alloc"})
  /\ UNCHANGED <<hvars, gnblist, outcome, phase, rvars, evars>>

SendGiveUp ==
  /\ attempts = 0
  /\ H!TransmitFail(main)
  /\ UNCHANGED <<mvars, rvars, evars>>

\* Mutant: whatever was returned, the loop counts a success.
RequestDone_Success ==
  /\ H!Commit(main) \/ H!Rollback(main)
  /\ outcome' = Append(outcome, "SUBSCR_SUCCESS")
  /\ UNCHANGED <<gnblist, phase, attempts, sendbuf, rvars, evars>>

\* manage_subscription_request returns, and the loop goes on to the next gNB either way.
RequestDone ==
  /\ H!Commit(main) \/ H!Rollback(main)
  /\ outcome' = Append(outcome, result'[main])
  /\ UNCHANGED <<gnblist, phase, attempts, sendbuf, rvars, evars>>

\* Mutant: the receiver starts before the requests are made, which go on beside it.
start_xapp_receiver_Early ==
  /\ phase = "subscribing" /\ rx = "off"
  /\ rx' = "listening"
  /\ UNCHANGED <<hvars, gnblist, outcome, phase, attempts, sendbuf, inbox, rcvbuf, evars>>

\* The number of threads is parsed first, although it is not used: if it is no number
\* the exception ends the process.
start_xapp_receiver ==
  /\ phase = "subscribing" /\ ~ More
  /\ \/ phase' = "running" /\ rx' = "listening"
     \/ phase' = "aborted" /\ UNCHANGED rx
  /\ UNCHANGED <<hvars, gnblist, outcome, attempts, sendbuf, inbox, rcvbuf, evars>>

--------------------------------------------------------------------------------
(* The receiver thread: xapp_rmr_receive and XappMsgHandler::operator() *)

Receive(type) ==
  /\ rx = "listening" /\ inbox # <<>>
  /\ Head(inbox).type = type
  /\ rcvbuf' = Head(inbox)
  /\ inbox' = Tail(inbox)

ReceiveSubResp ==
  /\ Receive("RIC_SUB_RESP")
  /\ H!TakeAnswer(rcv) /\ current'[rcv] = rcvbuf'
  /\ rx' = "answering"
  /\ UNCHANGED <<mvars, evars>>

RecordSubResp ==
  /\ rx = "answering"
  /\ H!manage_subscription_response(rcv)
  /\ rx' = "listening"
  /\ UNCHANGED <<mvars, inbox, rcvbuf, evars>>

\* Mutant: no case for RIC_SUB_RESP.
Ignore_SubResp ==
  /\ Receive("RIC_SUB_FAILURE") \/ Receive("ignored") \/ Receive("RIC_SUB_RESP")
  /\ UNCHANGED <<hvars, mvars, rx, evars>>

\* The switch has no case for RIC_SUB_FAILURE: the default branch drops it.
Ignore ==
  /\ Receive("RIC_SUB_FAILURE") \/ Receive("ignored")
  /\ UNCHANGED <<hvars, mvars, rx, evars>>

\* The handler rewrites the buffer in place and asks for it to be returned to its sender.
Bounce ==
  /\ Receive("RIC_INDICATION") \/ Receive("health")
  /\ rx' = "replying"
  /\ UNCHANGED <<hvars, mvars, evars>>

\* Mutant: the resend flag is not reset.
ReturnToSender_Again ==
  /\ rx = "replying"
  /\ bounced' \in {bounced} \cup
       IF rcvbuf.type = "RIC_INDICATION" THEN {Append(bounced, rcvbuf)} ELSE {}
  /\ UNCHANGED <<hvars, mvars, inbox, rx, rcvbuf, accepted, indicated, others>>

\* rmr_rts_msg may fail: its result is not looked at.
ReturnToSender ==
  /\ rx = "replying"
  /\ bounced' \in {bounced} \cup
       IF rcvbuf.type = "RIC_INDICATION" THEN {Append(bounced, rcvbuf)} ELSE {}
  /\ rx' = "listening"
  /\ UNCHANGED <<hvars, mvars, inbox, rcvbuf, accepted, indicated, others>>

\* A message that RMR could not receive ends the thread; main goes on for ever.
ReceiveBad ==
  /\ Receive("bad")
  /\ rx' = "dead"
  /\ UNCHANGED <<hvars, mvars, evars>>

--------------------------------------------------------------------------------
(* The RIC *)

RicAnswer(m) ==
  /\ H!Answer(m)
  /\ inbox' = Append(inbox, m)
  /\ accepted' = IF m.type = "RIC_SUB_RESP" THEN accepted \cup {m.id} ELSE accepted
  /\ UNCHANGED <<mvars, rx, rcvbuf, indicated, bounced, others>>

RanIndicate(g) ==
  /\ g \in accepted
  /\ indicated[g] < MaxIndications
  /\ indicated' = [indicated EXCEPT ![g] = @ + 1]
  /\ inbox' = Append(inbox, Indication(g, indicated'[g]))
  /\ UNCHANGED <<hvars, mvars, rx, rcvbuf, accepted, bounced, others>>

RicOther(k) ==
  /\ others < MaxOthers
  /\ others' = others + 1
  /\ inbox' = Append(inbox, Other(k))
  /\ UNCHANGED <<hvars, mvars, rx, rcvbuf, accepted, indicated, bounced>>

--------------------------------------------------------------------------------
MainStep ==
  \/ set_rnib_gnblist \/ RequestNew \/ RequestDuplicate \/ StartSend
  \/ SendOK \/ SendRetry \/ SendGiveUp \/ RequestDone \/ start_xapp_receiver

ReceiverStep ==
  ReceiveSubResp \/ RecordSubResp \/ Ignore \/ Bounce \/ ReturnToSender \/ ReceiveBad

RicStep ==
  (\E m \in H!Answers : RicAnswer(m)) \/ (\E g \in Ids : RanIndicate(g))
    \/ (\E k \in OtherKinds : RicOther(k))

Next == phase # "aborted" /\ (xapp_rmr_init \/ MainStep \/ ReceiverStep \/ RicStep)

\* Both threads are scheduled; RMR need never be ready, and the RIC owes the xApp nothing.
Spec == Init /\ [][Next]_vars /\ WF_vars(MainStep) /\ WF_vars(ReceiverStep)

--------------------------------------------------------------------------------
(* Properties *)

\* A gNB marked request_success is one whose subscription the RIC accepted, and no answer
\* is recorded before every request of the start-up has been made.
StatusTruthful ==
  \A g \in Ids :
    /\ status_table[g] = "request_success" => g \in accepted
    /\ status_table[g] \notin {"absent", "request_pending"} => phase = "running"

\* The start-up log is right when it ends, and stays right: SUCCESS leaves an entry for a
\* request the RIC has seen; a request is refused as a duplicate only behind a successful
\* one for the same gNB; and after ERR_TX alone the gNB has no entry.
StartupLogRight ==
  \A i \in 1..Len(outcome) :
    LET g == gnblist[i]
        kept == \E j \in 1..Len(outcome) : gnblist[j] = g /\ outcome[j] = "SUBSCR_SUCCESS"
    IN  /\ outcome[i] = "SUBSCR_SUCCESS" => g \in transmitted /\ status_table[g] # "absent"
        /\ outcome[i] = "SUBSCR_ERR_DUPLICATE" =>
             \E j \in 1..(i - 1) : gnblist[j] = g /\ outcome[j] = "SUBSCR_SUCCESS"
        /\ phase = "running" /\ ~ kept => status_table[g] = "absent" /\ g \notin transmitted

\* Control requests bounce indications: each at most once, per gNB in the order the gNB
\* sent them, and none for an indication that was never sent.
BouncesInOrder ==
  \A i, j \in 1..Len(bounced) :
    /\ bounced[i].seq \in 1..indicated[bounced[i].id]
    /\ i < j /\ bounced[i].id = bounced[j].id => bounced[i].seq < bounced[j].seq

\* No positive answer is lost on its way from the RIC to the table: it waits in RMR's queue,
\* or it is the one the receiver handles, while the entry is pending; or the entry is a success.
NoAnswerLost ==
  \A g \in accepted :
    LET answer == [type |-> "RIC_SUB_RESP", id |-> g]
        queued == \E i \in 1..Len(inbox) : inbox[i] = answer
        held   == rx = "answering" /\ current[rcv] = answer
    IN  \/ status_table[g] = "request_pending" /\ (queued \/ held)
        \/ status_table[g] = "request_success" /\ ~ queued /\ ~ held

\* Once RMR is ready the start-up ends, however RMR then answers: the receiver is started,
\* unless the gNB list or the number of threads is malformed and aborts the process.
ReceiverStarts == phase = "rnib" ~> phase \in {"running", "aborted"}

\* Every subscription the RIC accepts is marked as a success, even one accepted before the
\* receiver ran, unless a bad message has ended the receiver or the process is aborted.
AcceptedIsMarked ==
  \A g \in Ids : g \in accepted ~>
    (status_table[g] = "request_success" \/ rx = "dead" \/ phase = "aborted")

\* The user's guide: manage_subscription_request waits for the answer, or reports a
\* time-out.  Then SUBSCR_SUCCESS means that the answer is in.
SuccessMeansAnswered ==
  \A i \in 1..Len(outcome) :
    outcome[i] = "SUBSCR_SUCCESS" => status_table[gnblist[i]] # "request_pending"
================================================================================

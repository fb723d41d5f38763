--------------------------- MODULE BouncerXappProofs ---------------------------
(***************************************************************************)
(* Proofs about the Bouncer xApp for any gNB names, lists, numbers of RMR  *)
(* attempts and of messages.  The xApp's two threads take the handler's    *)
(* steps one at a time, so the invariant proved of SubscriptionHandler for *)
(* any threads holds of the xApp's handler and is used here as a fact.     *)
(***************************************************************************)
EXTENDS BouncerXapp, TLAPS

HP == INSTANCE SubscriptionHandlerProofs
        WITH Callers <- {main}, Receivers <- {rcv}, MaxCalls <- MaxGnbs, MaxClears <- 0

--------------------------------------------------------------------------------
(* The handler inside the xApp *)

HandlerOK == HP!IInv /\ clears = 0

LEMMA HandlerConstants == HP!HandlerAssumption
  BY BouncerAssumption DEF H!Answers, HP!HandlerAssumption, HP!Answers

\* What the handler's invariant says of its variables here.
LEMMA HandlerTypes ==
  ASSUME HandlerOK
  PROVE  /\ H!TypeOK
         /\ status_table \in [Ids -> H!Statuses] /\ trans_table \in SUBSET Ids
         /\ pc \in [{main} -> {"idle", "inserted", "transmitting", "sent", "unsent"}]
         /\ req \in [{main} -> Ids] /\ result \in [{main} -> H!Results]
         /\ transmitted \in SUBSET Ids /\ outstanding \in SUBSET transmitted
         /\ answers \in SUBSET H!Answers /\ current \in [{rcv} -> H!Answers \cup {NoAnswer}]
<1>1. HP!TypeOK /\ HP!OneAnswerPerId BY DEF HandlerOK, HP!IInv
<1>2. H!TypeOK
  BY <1>1 DEF HP!TypeOK, H!TypeOK, HP!Statuses, H!Statuses, HP!Results, H!Results, HP!Working, H!Working,
              HP!Answers, H!Answers
<1>3. outstanding \in SUBSET transmitted BY <1>1 DEF HP!OneAnswerPerId, HandlerOK
<1> QED BY <1>2, <1>3 DEF H!TypeOK, H!Working

\* Every step of the xApp is one of the handler, with its own threads, or leaves it alone.
LEMMA HandlerMoves ==
  ASSUME [Next]_vars, gnblist \in Seq(Ids), outcome \in Seq(H!Results)
  PROVE  [HP!Next]_(HP!vars) /\ clears' = clears
<1>i. More => Gnb \in Ids BY DEF More, Gnb
<1>u. ASSUME UNCHANGED hvars PROVE UNCHANGED HP!vars /\ clears' = clears
  BY <1>u DEF hvars, HP!vars, HP!tables, HP!ric
<1>1. ASSUME NEW id \in Ids, H!Insert(main, id) \/ H!Duplicate(main, id)
      PROVE  HP!Next /\ clears' = clears
  <2>1. HP!Insert(main, id) \/ HP!Duplicate(main, id)
    BY <1>1 DEF H!Insert, HP!Insert, H!Call, HP!Call, H!add_request_entry, HP!add_request_entry,
                H!is_request_entry, HP!is_request_entry, H!ric, HP!ric, H!Duplicate, HP!Duplicate,
                H!Return, HP!Return, H!tables, HP!tables
  <2>2. clears' = clears BY <1>1 DEF H!Insert, H!Duplicate
  <2> QED BY <2>1, <2>2 DEF HP!Next
<1>2. ASSUME H!Lock(main) \/ H!TransmitOK(main) \/ H!TransmitFail(main) \/ H!Commit(main) \/ H!Rollback(main)
      PROVE  HP!Next /\ clears' = clears
  <2>1. HP!Proceed(main)
    BY <1>2 DEF H!Lock, HP!Lock, H!TransmitOK, HP!TransmitOK, H!TransmitFail, HP!TransmitFail, H!Commit,
                HP!Commit, H!Rollback, HP!Rollback, H!Return, HP!Return, H!tables, HP!tables, H!ric, HP!ric,
                H!add_transmitter_entry, HP!add_transmitter_entry, H!delete_request_entry,
                HP!delete_request_entry, HP!Proceed
  <2>2. clears' = clears
    BY <1>2 DEF H!Lock, H!TransmitOK, H!TransmitFail, H!Commit, H!Rollback
  <2> QED BY <2>1, <2>2 DEF HP!Next
<1>3. ASSUME H!TakeAnswer(rcv) \/ H!manage_subscription_response(rcv)
      PROVE  HP!Next /\ clears' = clears
  <2>1. HP!TakeAnswer(rcv) \/ HP!manage_subscription_response(rcv)
    BY <1>3 DEF H!TakeAnswer, HP!TakeAnswer, H!manage_subscription_response, HP!manage_subscription_response,
                H!set_request_status, HP!set_request_status, H!is_request_entry, HP!is_request_entry,
                H!tables, HP!tables, H!ric, HP!ric
  <2>2. clears' = clears BY <1>3 DEF H!TakeAnswer, H!manage_subscription_response
  <2> QED BY <2>1, <2>2 DEF HP!Next
<1>4. ASSUME NEW m \in H!Answers, H!Answer(m) PROVE HP!Next /\ clears' = clears
  <2>1. HP!Answer(m) /\ m \in HP!Answers
    BY <1>4 DEF H!Answer, HP!Answer, H!Answers, HP!Answers, H!tables, HP!tables
  <2>2. clears' = clears BY <1>4 DEF H!Answer
  <2> QED BY <2>1, <2>2 DEF HP!Next
<1>5. CASE MainStep
  BY <1>i, <1>5, <1>u, <1>1, <1>2
     DEF MainStep, set_rnib_gnblist, RequestNew, RequestDuplicate, StartSend, SendOK, SendRetry, SendGiveUp,
         RequestDone, start_xapp_receiver
<1>6. CASE ReceiverStep
  BY <1>6, <1>u, <1>3
     DEF ReceiverStep, ReceiveSubResp, RecordSubResp, Ignore, Bounce, ReturnToSender, ReceiveBad
<1>7. CASE RicStep BY <1>7, <1>u, <1>4 DEF RicStep, RicAnswer, RanIndicate, RicOther
<1>8. CASE UNCHANGED vars \/ xapp_rmr_init BY <1>8, <1>u DEF vars, xapp_rmr_init
<1> QED BY <1>5, <1>6, <1>7, <1>8 DEF Next

LEMMA HandlerStep ==
  ASSUME [Next]_vars, HandlerOK, gnblist \in Seq(Ids), outcome \in Seq(H!Results)
  PROVE  HandlerOK'
<1>1. [HP!Next]_(HP!vars) /\ clears' = clears BY HandlerMoves
<1>2. HP!IInv' BY <1>1, HP!InvariantStep, HandlerConstants DEF HandlerOK
<1> QED BY <1>1, <1>2 DEF HandlerOK

--------------------------------------------------------------------------------
(* Types, and where the start-up is *)

XappTypes ==
  /\ gnblist \in Lists
  /\ outcome \in Seq(H!Results \ {"none"}) /\ Len(outcome) <= Len(gnblist)
  /\ phase \in {"rmr", "rnib", "subscribing", "running", "aborted"}
  /\ attempts \in 0..MaxAttempts
  /\ sendbuf \in {"null", "alloc"}
  /\ rx \in {"off", "listening", "answering", "replying", "dead"}
  /\ indicated \in [Ids -> 0..MaxIndications]
  /\ others \in 0..MaxOthers

\* The main thread works on the next gNB of the list, and the receiver starts when all are done.
Startup ==
  /\ phase \in {"rmr", "rnib"} => gnblist = <<>>
  /\ pc[main] # "idle" => More /\ req[main] = Gnb
  /\ phase = "running" => ~More
  /\ rx # "off" => phase = "running"

LEMMA ListTypes ==
  ASSUME XappTypes
  PROVE  /\ gnblist \in Seq(Ids) /\ outcome \in Seq(H!Results)
         /\ Len(gnblist) \in Nat /\ Len(outcome) \in Nat
         /\ More => Gnb \in Ids /\ Len(outcome) + 1 \in 1..Len(gnblist)
  BY DEF XappTypes, Lists, H!Results, More, Gnb

LEMMA AppendOutcome ==
  ASSUME XappTypes, More, NEW code \in H!Results \ {"none"}, outcome' = Append(outcome, code)
  PROVE  /\ outcome' \in Seq(H!Results \ {"none"}) /\ Len(outcome') = Len(outcome) + 1
         /\ Len(outcome') <= Len(gnblist)
         /\ \A i \in 1..Len(outcome') : outcome'[i] = IF i = Len(outcome) + 1 THEN code ELSE outcome[i]
<1>1. outcome \in Seq(H!Results \ {"none"}) BY DEF XappTypes
<1> HIDE DEF H!Results
<1>2. /\ outcome' \in Seq(H!Results \ {"none"}) /\ Len(outcome') = Len(outcome) + 1
      /\ \A i \in 1..Len(outcome') : outcome'[i] = IF i = Len(outcome) + 1 THEN code ELSE outcome[i]
  BY <1>1
<1> QED BY <1>2, ListTypes DEF More

\* What the request of the next gNB returns.
LEMMA RequestReturns ==
  ASSUME HandlerOK, RequestDone
  PROVE  /\ result'[main] = IF pc[main] = "sent" THEN "SUBSCR_SUCCESS" ELSE "SUBSCR_ERR_TX"
         /\ pc[main] \in {"sent", "unsent"} /\ pc'[main] = "idle"
  BY HandlerTypes DEF RequestDone, H!Commit, H!Rollback, H!Return

LEMMA TypesStep ==
  ASSUME HandlerOK, XappTypes, Startup, [Next]_vars
  PROVE  XappTypes' /\ Startup'
<1>t. pc \in [{main} -> {"idle", "inserted", "transmitting", "sent", "unsent"}] /\ req \in [{main} -> Ids]
  BY HandlerTypes
<1>l. /\ gnblist \in Seq(Ids) /\ Len(gnblist) \in Nat /\ Len(outcome) \in Nat
  BY ListTypes
<1>u. ASSUME UNCHANGED <<gnblist, outcome, phase, attempts, sendbuf>>, UNCHANGED <<pc, req>>,
             rx' = rx \/ rx # "off", rx' \in {"off", "listening", "answering", "replying", "dead"},
             UNCHANGED <<indicated, others>>
      PROVE  XappTypes' /\ Startup'
  BY <1>u DEF XappTypes, Startup, More, Gnb
<1>1. CASE set_rnib_gnblist
  <2>1. gnblist' \in Lists /\ outcome' = outcome /\ Len(outcome) = 0
    BY <1>1, <1>l, BouncerAssumption DEF set_rnib_gnblist, Startup, XappTypes
  <2>2. Len(gnblist') \in Nat BY <2>1 DEF Lists
  <2>3. pc'[main] = "idle" BY <1>1 DEF set_rnib_gnblist, hvars, Startup, More
  <2> QED BY <1>1, <2>1, <2>2, <2>3 DEF set_rnib_gnblist, XappTypes, Startup, rvars, evars
<1>2. CASE RequestNew
  <2>1. pc'[main] = "inserted" /\ req'[main] = Gnb
    BY <1>2, <1>t DEF RequestNew, H!Insert, H!Call
  <2> QED BY <1>2, <2>1 DEF RequestNew, mvars, rvars, evars, XappTypes, Startup, More, Gnb
<1>3. CASE RequestDuplicate
  <2>1. pc'[main] = "idle" /\ More BY <1>3, <1>t DEF RequestDuplicate, H!Duplicate, H!Return
  <2>2. outcome' \in Seq(H!Results \ {"none"}) /\ Len(outcome') <= Len(gnblist)
    <3>1. "SUBSCR_ERR_DUPLICATE" \in H!Results \ {"none"} BY DEF H!Results
    <3> QED BY <1>3, <2>1, <3>1, AppendOutcome DEF RequestDuplicate
  <2> QED BY <1>3, <2>1, <2>2 DEF RequestDuplicate, rvars, evars, XappTypes, Startup, More
<1>4. CASE StartSend
  <2>1. pc[main] # "idle" /\ UNCHANGED req BY <1>4 DEF StartSend, H!Lock
  <2>2. MaxAttempts \in 0..MaxAttempts BY BouncerAssumption
  <2> QED BY <1>4, <2>1, <2>2 DEF StartSend, rvars, evars, XappTypes, Startup, More, Gnb
<1>5. CASE SendOK
  <2>1. pc[main] # "idle" /\ UNCHANGED req BY <1>5 DEF SendOK, H!TransmitOK
  <2> QED BY <1>5, <2>1 DEF SendOK, rvars, evars, XappTypes, Startup, More, Gnb
<1>6. CASE SendRetry
  <2>1. attempts - 1 \in 0..MaxAttempts BY <1>6, BouncerAssumption DEF SendRetry, XappTypes
  <2>2. UNCHANGED <<pc, req>> BY <1>6 DEF SendRetry, hvars
  <2> QED BY <1>6, <2>1, <2>2 DEF SendRetry, rvars, evars, XappTypes, Startup, More, Gnb
<1>7. CASE SendGiveUp
  <2>1. pc[main] # "idle" /\ UNCHANGED req BY <1>7 DEF SendGiveUp, H!TransmitFail
  <2> QED BY <1>7, <2>1 DEF SendGiveUp, mvars, rvars, evars, XappTypes, Startup, More, Gnb
<1>8. CASE RequestDone
  <2>1. pc[main] # "idle" /\ pc'[main] = "idle" /\ result'[main] \in H!Results \ {"none"}
    BY <1>8, RequestReturns DEF H!Results
  <2>2. More BY <2>1 DEF Startup
  <2>3. outcome' \in Seq(H!Results \ {"none"}) /\ Len(outcome') <= Len(gnblist)
    BY <1>8, <2>1, <2>2, AppendOutcome DEF RequestDone
  <2> QED BY <1>8, <2>1, <2>2, <2>3 DEF RequestDone, rvars, evars, XappTypes, Startup, More
<1>9. CASE start_xapp_receiver
  BY <1>9 DEF start_xapp_receiver, hvars, evars, XappTypes, Startup, More
<1>10. CASE ReceiverStep
  BY <1>10, <1>u
     DEF ReceiverStep, ReceiveSubResp, RecordSubResp, Ignore, Bounce, ReturnToSender, ReceiveBad, Receive, mvars,
         evars, hvars, H!TakeAnswer, H!manage_subscription_response, XappTypes
<1>11. CASE RicStep
  <2>1. UNCHANGED <<gnblist, outcome, phase, attempts, sendbuf, rx>> /\ UNCHANGED <<pc, req>>
    BY <1>11 DEF RicStep, RicAnswer, RanIndicate, RicOther, mvars, hvars, H!Answer
  <2>2. indicated' \in [Ids -> 0..MaxIndications] /\ others' \in 0..MaxOthers
    BY <1>11, BouncerAssumption DEF RicStep, RicAnswer, RanIndicate, RicOther, XappTypes
  <2> QED BY <2>1, <2>2 DEF XappTypes, Startup, More, Gnb
<1>12. CASE UNCHANGED vars
  BY <1>12, <1>u DEF vars, mvars, evars, hvars, rvars, XappTypes
<1>13. CASE xapp_rmr_init
  BY <1>13 DEF xapp_rmr_init, hvars, rvars, evars, XappTypes, Startup, More, Gnb
<1> QED
  BY <1>1, <1>2, <1>3, <1>4, <1>5, <1>6, <1>7, <1>8, <1>9, <1>10, <1>11, <1>12, <1>13 DEF Next, MainStep

--------------------------------------------------------------------------------
(* The marks in the status table *)

\* A positive answer is one for a gNB whose subscription the RIC accepted, wherever it is.
Answered ==
  /\ accepted \subseteq transmitted
  /\ \A m \in answers : m.type = "RIC_SUB_RESP" => m.id \in accepted
  /\ current[rcv] # NoAnswer /\ current[rcv].type = "RIC_SUB_RESP" => current[rcv].id \in accepted

LEMMA MarksStep ==
  ASSUME HandlerOK, XappTypes, Startup, Answered, StatusTruthful, [Next]_vars
  PROVE  Answered' /\ StatusTruthful'
<1>t. /\ status_table \in [Ids -> H!Statuses] /\ transmitted \in SUBSET Ids /\ outstanding \in SUBSET transmitted
      /\ answers \in SUBSET H!Answers /\ current \in [{rcv} -> H!Answers \cup {NoAnswer}]
      /\ req \in [{main} -> Ids]
  BY HandlerTypes
<1>u. ASSUME UNCHANGED <<accepted, answers, current>>, transmitted \subseteq transmitted' PROVE Answered'
  BY <1>u DEF Answered
<1>v. ASSUME UNCHANGED <<accepted, status_table>>, phase = "running" => phase' = "running"
      PROVE  StatusTruthful'
  BY <1>v DEF StatusTruthful
<1>w. ASSUME NEW id \in Ids, UNCHANGED accepted, phase' = phase,
             status_table' = [status_table EXCEPT ![id] = "request_pending"]
             \/ status_table' = [status_table EXCEPT ![id] = "absent"]
      PROVE  StatusTruthful'
  BY <1>t, <1>w DEF StatusTruthful
<1>1. CASE xapp_rmr_init \/ set_rnib_gnblist \/ start_xapp_receiver
  BY <1>1, <1>u, <1>v DEF xapp_rmr_init, set_rnib_gnblist, start_xapp_receiver, hvars, evars
<1>2. CASE RequestNew
  <2>1. Gnb \in Ids BY <1>2, ListTypes DEF RequestNew
  <2> QED
    BY <1>2, <1>u, <1>w, <2>1 DEF RequestNew, mvars, evars, H!Insert, H!add_request_entry, H!ric
<1>3. CASE RequestDuplicate \/ StartSend
  BY <1>3, <1>u, <1>v DEF RequestDuplicate, StartSend, evars, H!Duplicate, H!Lock, H!tables, H!ric
<1>4. CASE SendOK
  BY <1>4, <1>u, <1>v DEF SendOK, evars, H!TransmitOK, H!tables
<1>5. CASE SendRetry \/ SendGiveUp
  BY <1>5, <1>u, <1>v DEF SendRetry, SendGiveUp, hvars, mvars, evars, H!TransmitFail, H!tables, H!ric
<1>6. CASE RequestDone
  <2>1. CASE H!Commit(main)
    BY <1>6, <1>u, <1>v, <2>1 DEF RequestDone, evars, H!Commit, H!ric
  <2>2. CASE H!Rollback(main)
    BY <1>6, <1>t, <1>u, <1>w, <2>2 DEF RequestDone, evars, H!Rollback, H!delete_request_entry, H!ric
  <2> QED BY <1>6, <2>1, <2>2 DEF RequestDone
<1>7. CASE ReceiveSubResp
  <2>1. PICK m \in answers : current' = [current EXCEPT ![rcv] = m] /\ answers' = answers \ {m}
    BY <1>7 DEF ReceiveSubResp, H!TakeAnswer
  <2>2. UNCHANGED <<accepted, transmitted, status_table, phase>>
    BY <1>7 DEF ReceiveSubResp, H!TakeAnswer, H!tables, mvars, evars
  <2>3. current'[rcv] = m BY <1>t, <2>1
  <2>4. Answered' BY <2>1, <2>2, <2>3 DEF Answered
  <2> QED BY <1>v, <2>2, <2>4
<1>8. CASE RecordSubResp
  <2>1. PICK m \in H!Answers : current[rcv] = m
    BY <1>8, <1>t DEF RecordSubResp, H!manage_subscription_response
  <2>2. /\ m.id \in Ids /\ UNCHANGED <<accepted, transmitted, answers, phase>> /\ current'[rcv] = NoAnswer
        /\ status_table' = [status_table EXCEPT ![m.id] =
                IF H!is_request_entry(m.id)
                THEN IF m.type = "RIC_SUB_RESP" THEN "request_success" ELSE "request_failed" ELSE @]
    BY <1>8, <1>t, <2>1
       DEF RecordSubResp, H!manage_subscription_response, H!set_request_status, H!Answers, mvars, evars, H!ric
  <2>3. phase = "running" BY <1>8 DEF RecordSubResp, Startup
  <2>4. Answered' BY <2>2 DEF Answered
  <2>5. m.type = "RIC_SUB_RESP" => m.id \in accepted
    <3>1. m # NoAnswer BY BouncerAssumption
    <3> QED BY <2>1, <3>1 DEF Answered
  <2>6. StatusTruthful' BY <1>t, <2>2, <2>3, <2>5 DEF StatusTruthful, H!is_request_entry
  <2> QED BY <2>4, <2>6
<1>9. CASE Ignore \/ Bounce \/ ReceiveBad \/ ReturnToSender
  BY <1>9, <1>u, <1>v DEF Ignore, Bounce, ReceiveBad, ReturnToSender, hvars, mvars, evars
<1>10. ASSUME NEW m \in H!Answers, RicAnswer(m) PROVE Answered' /\ StatusTruthful'
  <2>1. /\ m.id \in outstanding /\ answers' = answers \cup {m}
        /\ UNCHANGED <<transmitted, current, status_table, phase>>
        /\ accepted' = IF m.type = "RIC_SUB_RESP" THEN accepted \cup {m.id} ELSE accepted
    BY <1>10 DEF RicAnswer, H!Answer, H!tables, mvars
  <2> QED BY <1>t, <2>1 DEF Answered, StatusTruthful
<1>11. CASE (\E g \in Ids : RanIndicate(g)) \/ (\E k \in OtherKinds : RicOther(k))
  BY <1>11, <1>u, <1>v DEF RanIndicate, RicOther, hvars, mvars
<1>12. CASE UNCHANGED vars BY <1>12, <1>u, <1>v DEF vars, hvars, mvars, evars
<1> QED
  BY <1>1, <1>2, <1>3, <1>4, <1>5, <1>6, <1>7, <1>8, <1>9, <1>10, <1>11, <1>12
     DEF Next, MainStep, ReceiverStep, RicStep

--------------------------------------------------------------------------------
(* The start-up log *)

Kept(g) == \E j \in 1..Len(outcome) : gnblist[j] = g /\ outcome[j] = "SUBSCR_SUCCESS"

Working(g) == pc[main] # "idle" /\ req[main] = g

\* An entry is that of a request that succeeded or is being made; and the RIC has seen only those.
Log ==
  /\ \A g \in Ids : Kept(g) => g \in transmitted /\ status_table[g] # "absent"
  /\ \A g \in Ids : status_table[g] # "absent" => Kept(g) \/ Working(g)
  /\ \A g \in Ids : g \in transmitted => Kept(g) \/ (pc[main] = "sent" /\ req[main] = g)
  /\ \A i \in 1..Len(outcome) : outcome[i] = "SUBSCR_ERR_DUPLICATE" =>
        \E j \in 1..(i - 1) : gnblist[j] = gnblist[i] /\ outcome[j] = "SUBSCR_SUCCESS"

\* One more outcome keeps a gNB if it is a success.
LEMMA KeptAppend ==
  ASSUME XappTypes, More, NEW code \in H!Results \ {"none"}, outcome' = Append(outcome, code),
         UNCHANGED gnblist, NEW g \in Ids
  PROVE  Kept(g)' <=> Kept(g) \/ (code = "SUBSCR_SUCCESS" /\ Gnb = g)
<1>1. /\ Len(outcome') = Len(outcome) + 1 /\ Len(outcome) \in Nat
      /\ \A i \in 1..Len(outcome') : outcome'[i] = IF i = Len(outcome) + 1 THEN code ELSE outcome[i]
  BY AppendOutcome, ListTypes
<1>2. \A i \in 1..Len(outcome) : i \in 1..Len(outcome') /\ outcome'[i] = outcome[i] BY <1>1
<1>3. Len(outcome) + 1 \in 1..Len(outcome') /\ outcome'[Len(outcome) + 1] = code BY <1>1
<1>4. \A i \in 1..Len(outcome') : i = Len(outcome) + 1 \/ i \in 1..Len(outcome) BY <1>1
<1> QED BY <1>2, <1>3, <1>4 DEF Kept, Gnb

\* ... and the refusals of the log keep their reasons.
LEMMA RefusalsAppend ==
  ASSUME XappTypes, More, Log, NEW code \in H!Results \ {"none"}, outcome' = Append(outcome, code),
         UNCHANGED gnblist, code = "SUBSCR_ERR_DUPLICATE" => Kept(Gnb)
  PROVE  \A i \in 1..Len(outcome') : outcome'[i] = "SUBSCR_ERR_DUPLICATE" =>
           \E j \in 1..(i - 1) : gnblist'[j] = gnblist'[i] /\ outcome'[j] = "SUBSCR_SUCCESS"
<1>1. /\ Len(outcome') = Len(outcome) + 1 /\ Len(outcome) \in Nat
      /\ \A i \in 1..Len(outcome') : outcome'[i] = IF i = Len(outcome) + 1 THEN code ELSE outcome[i]
  BY AppendOutcome, ListTypes
<1>2. ASSUME NEW i \in 1..Len(outcome'), outcome'[i] = "SUBSCR_ERR_DUPLICATE"
      PROVE  \E j \in 1..(i - 1) : gnblist[j] = gnblist[i] /\ outcome'[j] = "SUBSCR_SUCCESS"
  <2>1. CASE i = Len(outcome) + 1
    <3>1. PICK j \in 1..Len(outcome) : gnblist[j] = Gnb /\ outcome[j] = "SUBSCR_SUCCESS"
      BY <1>1, <1>2, <2>1 DEF Kept
    <3>2. j \in 1..(i - 1) /\ outcome'[j] = outcome[j] /\ gnblist[i] = Gnb BY <1>1, <2>1 DEF Gnb
    <3> QED BY <3>1, <3>2
  <2>2. CASE i # Len(outcome) + 1
    <3>1. i \in 1..Len(outcome) /\ outcome'[i] = outcome[i] BY <1>1, <2>2
    <3>2. PICK j \in 1..(i - 1) : gnblist[j] = gnblist[i] /\ outcome[j] = "SUBSCR_SUCCESS"
      BY <1>2, <3>1 DEF Log
    <3>3. outcome'[j] = outcome[j] BY <1>1, <3>1
    <3> QED BY <3>2, <3>3
  <2> QED BY <2>1, <2>2
<1> QED BY <1>2

LEMMA LogStep ==
  ASSUME HandlerOK, XappTypes, Startup, Log, [Next]_vars
  PROVE  Log'
<1>t. /\ status_table \in [Ids -> H!Statuses] /\ transmitted \in SUBSET Ids
      /\ req \in [{main} -> Ids] /\ pc \in [{main} -> {"idle", "inserted", "transmitting", "sent", "unsent"}]
  BY HandlerTypes
<1>o. pc[main] # "idle" => /\ status_table[req[main]] = "request_pending"
                           /\ pc[main] # "sent" => req[main] \notin transmitted
  BY <1>t DEF HandlerOK, HP!IInv, HP!OneOwnerPerId, HP!Working
<1>s. pc[main] = "sent" => req[main] \in transmitted
  BY <1>t DEF HandlerOK, HP!IInv, HP!OneAnswerPerId
<1>u. ASSUME UNCHANGED <<outcome, gnblist, transmitted, req>>, pc'[main] # "idle" <=> pc[main] # "idle",
             pc'[main] = "sent" <=> pc[main] = "sent",
             \A g \in Ids : status_table'[g] # "absent" <=> status_table[g] # "absent"
      PROVE  Log'
  BY <1>u DEF Log, Kept, Working
<1>1. CASE set_rnib_gnblist
  <2>1. Len(outcome) = 0 /\ outcome' = outcome /\ UNCHANGED hvars
    BY <1>1, ListTypes DEF set_rnib_gnblist, Startup, XappTypes
  <2> QED BY <2>1 DEF Log, Kept, Working, hvars
<1>2. CASE RequestNew
  <2>1. /\ Gnb \in Ids /\ status_table[Gnb] = "absent" /\ status_table' = [status_table EXCEPT ![Gnb] = "request_pending"]
        /\ pc[main] = "idle" /\ pc'[main] = "inserted" /\ req'[main] = Gnb
        /\ UNCHANGED <<outcome, gnblist, transmitted>>
    BY <1>2, <1>t, ListTypes
       DEF RequestNew, H!Insert, H!Call, H!is_request_entry, H!add_request_entry, H!ric, mvars
  <2> QED BY <1>t, <2>1 DEF Log, Kept, Working
<1>3. CASE RequestDuplicate
  <2>1. /\ More /\ Gnb \in Ids /\ status_table[Gnb] # "absent" /\ pc[main] = "idle" /\ pc'[main] = "idle"
        /\ outcome' = Append(outcome, "SUBSCR_ERR_DUPLICATE") /\ UNCHANGED <<gnblist, transmitted, status_table>>
    BY <1>3, <1>t, ListTypes
       DEF RequestDuplicate, H!Duplicate, H!Return, H!is_request_entry, H!tables, H!ric
  <2>2. Kept(Gnb) BY <2>1 DEF Log, Working
  <2>3. "SUBSCR_ERR_DUPLICATE" \in H!Results \ {"none"} BY DEF H!Results
  <2>4. \A g \in Ids : Kept(g)' <=> Kept(g) BY <2>1, <2>3, KeptAppend
  <2>5. \A i \in 1..Len(outcome') : outcome'[i] = "SUBSCR_ERR_DUPLICATE" =>
           \E j \in 1..(i - 1) : gnblist'[j] = gnblist'[i] /\ outcome'[j] = "SUBSCR_SUCCESS"
    BY <2>1, <2>2, <2>3, RefusalsAppend
  <2> QED BY <2>1, <2>4, <2>5 DEF Log, Working
<1>4. CASE StartSend
  BY <1>4, <1>t, <1>u DEF StartSend, H!Lock, H!tables, H!ric
<1>5. CASE SendOK
  <2>1. /\ pc[main] = "transmitting" /\ pc'[main] = "sent" /\ transmitted' = transmitted \cup {req[main]}
        /\ UNCHANGED <<outcome, gnblist, req, status_table>>
    BY <1>5, <1>t DEF SendOK, H!TransmitOK, H!tables
  <2> QED BY <2>1 DEF Log, Kept, Working
<1>6. CASE SendRetry BY <1>6, <1>u DEF SendRetry, hvars
<1>7. CASE SendGiveUp BY <1>7, <1>t, <1>u DEF SendGiveUp, mvars, H!TransmitFail, H!tables, H!ric
<1>8. CASE RequestDone
  <2>1. /\ pc[main] \in {"sent", "unsent"} /\ pc'[main] = "idle" /\ UNCHANGED <<gnblist, transmitted>>
        /\ outcome' = Append(outcome, IF pc[main] = "sent" THEN "SUBSCR_SUCCESS" ELSE "SUBSCR_ERR_TX")
    BY <1>8, RequestReturns DEF RequestDone, H!Commit, H!Rollback, H!ric
  <2>2. More /\ req[main] = Gnb /\ Gnb \in Ids BY <2>1, ListTypes DEF Startup
  <2>3. {"SUBSCR_SUCCESS", "SUBSCR_ERR_TX"} \subseteq H!Results \ {"none"} BY DEF H!Results
  <2>4. \A g \in Ids : Kept(g)' <=> Kept(g) \/ (pc[main] = "sent" /\ Gnb = g)
    BY <2>1, <2>2, <2>3, KeptAppend
  <2>5. \A i \in 1..Len(outcome') : outcome'[i] = "SUBSCR_ERR_DUPLICATE" =>
           \E j \in 1..(i - 1) : gnblist'[j] = gnblist'[i] /\ outcome'[j] = "SUBSCR_SUCCESS"
    BY <2>1, <2>2, <2>3, RefusalsAppend
  <2>6. CASE pc[main] = "sent"
    <3>1. UNCHANGED status_table BY <1>8, <2>6 DEF RequestDone, H!Commit, H!Rollback
    <3>2. Gnb \in transmitted /\ status_table[Gnb] # "absent" BY <1>o, <1>s, <2>2, <2>6
    <3>3. \A g \in Ids : Kept(g)' <=> Kept(g) \/ Gnb = g BY <2>4, <2>6
    <3>4. \A g \in Ids : ~Working(g)' BY <2>1 DEF Working
    <3> QED BY <2>1, <2>2, <2>5, <2>6, <3>1, <3>2, <3>3, <3>4 DEF Log, Working
  <2>7. CASE pc[main] = "unsent"
    <3>1. status_table' = [status_table EXCEPT ![Gnb] = "absent"]
      BY <1>8, <2>2, <2>7 DEF RequestDone, H!Commit, H!Rollback, H!delete_request_entry
    <3>2. ~Kept(Gnb)
      <4>1. Gnb \notin transmitted BY <1>o, <2>2, <2>7
      <4> QED BY <2>2, <4>1 DEF Log
    <3> QED BY <1>t, <2>1, <2>2, <2>4, <2>5, <2>7, <3>1, <3>2 DEF Log, Working
  <2> QED BY <2>1, <2>6, <2>7
<1>9. CASE start_xapp_receiver \/ xapp_rmr_init
  BY <1>9, <1>u DEF start_xapp_receiver, xapp_rmr_init, hvars
<1>10. CASE ReceiveSubResp
  BY <1>10, <1>u DEF ReceiveSubResp, H!TakeAnswer, H!tables, mvars
<1>11. CASE RecordSubResp
  BY <1>11, <1>t, <1>u
     DEF RecordSubResp, H!manage_subscription_response, H!set_request_status, H!is_request_entry, H!ric, mvars
<1>12. CASE Ignore \/ Bounce \/ ReceiveBad \/ ReturnToSender
  BY <1>12, <1>u DEF Ignore, Bounce, ReceiveBad, ReturnToSender, hvars, mvars
<1>13. CASE RicStep
  BY <1>13, <1>u DEF RicStep, RicAnswer, RanIndicate, RicOther, H!Answer, H!tables, hvars, mvars
<1>14. CASE UNCHANGED vars BY <1>14, <1>u DEF vars, hvars, mvars
<1> QED
  BY <1>1, <1>2, <1>3, <1>4, <1>5, <1>6, <1>7, <1>8, <1>9, <1>10, <1>11, <1>12, <1>13, <1>14
     DEF Next, MainStep, ReceiverStep

--------------------------------------------------------------------------------
(* The indications, from RMR's queue to the control requests *)

Indications == [type : {"RIC_INDICATION"}, id : Ids, seq : Nat]

Messages == H!Answers \cup Indications \cup [type : OtherKinds]

IsInd(m) == m.type = "RIC_INDICATION"

\* a was sent before b, if one gNB sent both.
Before(a, b) == a.id = b.id => a.seq < b.seq

Sent(m) == m.seq \in 1..indicated[m.id]

Queues ==
  /\ inbox \in Seq(Messages) /\ bounced \in Seq(Indications)
  /\ rx = "replying" => rcvbuf \in Messages

\* What was bounced, what is being returned and what waits are in the order of sending.
Ordered ==
  /\ \A i \in 1..Len(inbox) : IsInd(inbox[i]) => Sent(inbox[i])
  /\ \A i, j \in 1..Len(inbox) : i < j /\ IsInd(inbox[i]) /\ IsInd(inbox[j]) => Before(inbox[i], inbox[j])
  /\ \A i \in 1..Len(bounced), j \in 1..Len(inbox) : IsInd(inbox[j]) => Before(bounced[i], inbox[j])
  /\ rx = "replying" /\ IsInd(rcvbuf) =>
       /\ Sent(rcvbuf)
       /\ \A j \in 1..Len(inbox) : IsInd(inbox[j]) => Before(rcvbuf, inbox[j])
       /\ \A i \in 1..Len(bounced) : Before(bounced[i], rcvbuf)
  /\ \A i \in 1..Len(bounced) : Sent(bounced[i])
  /\ \A i, j \in 1..Len(bounced) : i < j => Before(bounced[i], bounced[j])

LEMMA OrderedBounces == Ordered => BouncesInOrder
  BY DEF Ordered, BouncesInOrder, Sent, Before

LEMMA IndicationFields ==
  /\ \A m \in Messages : IsInd(m) => m \in Indications
  /\ \A m \in Indications : IsInd(m) /\ m.id \in Ids /\ m.seq \in Nat
  BY DEF Messages, Indications, IsInd, H!Answers, OtherKinds

LEMMA HeadTail ==
  ASSUME NEW S, NEW s \in Seq(S), s # <<>>
  PROVE  /\ Head(s) \in S /\ Head(s) = s[1] /\ 1 \in 1..Len(s)
         /\ Tail(s) \in Seq(S)
         /\ \A i \in 1..Len(Tail(s)) : i + 1 \in 1..Len(s) /\ 1 < i + 1 /\ Tail(s)[i] = s[i + 1]
  OBVIOUS

LEMMA Appended ==
  ASSUME NEW S, NEW s \in Seq(S), NEW x \in S
  PROVE  /\ Append(s, x) \in Seq(S) /\ Len(s) \in Nat
         /\ \A i \in 1..Len(Append(s, x)) :
              \/ i = Len(s) + 1 /\ Append(s, x)[i] = x
              \/ i \in 1..Len(s) /\ Append(s, x)[i] = s[i]
  OBVIOUS

\* The receiver takes a message.
LEMMA TakeOrdered ==
  ASSUME Queues, Ordered, rx = "listening", inbox # <<>>, rcvbuf' = Head(inbox), inbox' = Tail(inbox),
         UNCHANGED <<bounced, indicated>>
  PROVE  Queues' /\ Ordered'
<1>1. /\ Head(inbox) \in Messages /\ Head(inbox) = inbox[1] /\ 1 \in 1..Len(inbox) /\ inbox' \in Seq(Messages)
      /\ \A i \in 1..Len(inbox') : i + 1 \in 1..Len(inbox) /\ 1 < i + 1 /\ inbox'[i] = inbox[i + 1]
  BY HeadTail DEF Queues
<1>2. Queues' BY <1>1 DEF Queues
<1>3. \A m : Sent(m)' <=> Sent(m) BY DEF Sent
<1>4. \A i, j \in 1..Len(inbox') : i < j => i + 1 < j + 1 OBVIOUS
<1>5. Ordered'
  BY <1>1, <1>3, <1>4, SMTT(60) DEF Ordered, IsInd, Before
<1> QED BY <1>2, <1>5

\* A message that is no indication joins the queue.
LEMMA OtherOrdered ==
  ASSUME Queues, Ordered, NEW m \in Messages, ~IsInd(m), inbox' = Append(inbox, m),
         UNCHANGED <<rx, rcvbuf, bounced, indicated>>
  PROVE  Queues' /\ Ordered'
<1>1. /\ inbox' \in Seq(Messages)
      /\ \A i \in 1..Len(inbox') :
           \/ i = Len(inbox) + 1 /\ inbox'[i] = m
           \/ i \in 1..Len(inbox) /\ inbox'[i] = inbox[i]
  BY Appended DEF Queues
<1>2. Queues' BY <1>1 DEF Queues
<1>3. \A x : Sent(x)' <=> Sent(x) BY DEF Sent
<1>4. \A i \in 1..Len(inbox') : IsInd(inbox'[i]) => i \in 1..Len(inbox) /\ inbox'[i] = inbox[i]
  BY <1>1
<1>5. Ordered' BY <1>3, <1>4 DEF Ordered, IsInd, Before
<1> QED BY <1>2, <1>5

\* An indication joins the queue, with the next number of its gNB.
LEMMA IndicationOrdered ==
  ASSUME Queues, Ordered, XappTypes, NEW g \in Ids, indicated' = [indicated EXCEPT ![g] = @ + 1],
         inbox' = Append(inbox, Indication(g, indicated'[g])), UNCHANGED <<rx, rcvbuf, bounced>>
  PROVE  Queues' /\ Ordered'
<1>t. indicated \in [Ids -> Nat] BY BouncerAssumption DEF XappTypes
<1>p. PICK m : m = Indication(g, indicated'[g]) OBVIOUS
<1>m. m \in Messages /\ m.id = g /\ m.seq = indicated[g] + 1 /\ IsInd(m)
  BY <1>p, <1>t DEF Indication, Messages, Indications, IsInd
<1> DEFINE SentNow(x) == x.seq \in 1..indicated'[x.id]
<1>1. /\ inbox' \in Seq(Messages)
      /\ \A i \in 1..Len(inbox') :
           \/ i = Len(inbox) + 1 /\ inbox'[i] = m
           \/ i \in 1..Len(inbox) /\ inbox'[i] = inbox[i]
  BY <1>m, <1>p, Appended DEF Queues
<1>2. Queues' BY <1>1 DEF Queues
<1>3. ASSUME NEW x, x \in Indications, Sent(x) PROVE SentNow(x) /\ Before(x, m)
  <2>1. x.id \in Ids /\ x.seq \in Nat /\ x.seq \in 1..indicated[x.id] BY <1>3, IndicationFields DEF Sent
  <2>2. indicated'[x.id] = IF x.id = g THEN indicated[x.id] + 1 ELSE indicated[x.id] BY <1>t, <2>1
  <2>3. indicated[x.id] \in Nat BY <1>t, <2>1
  <2>4. SentNow(x) BY <2>1, <2>2, <2>3
  <2>5. Before(x, m) BY <1>m, <2>1, <2>3 DEF Before
  <2> QED BY <2>4, <2>5
<1>4. SentNow(m)
  <2>1. indicated[g] \in Nat /\ indicated'[g] = indicated[g] + 1 BY <1>t
  <2> QED BY <1>m, <2>1
<1>5. ASSUME NEW i \in 1..Len(inbox), IsInd(inbox[i]) PROVE SentNow(inbox[i]) /\ Before(inbox[i], m)
  <2>1. inbox[i] \in Messages BY DEF Queues
  <2>2. inbox[i] \in Indications /\ Sent(inbox[i]) BY <1>5, <2>1, IndicationFields DEF Ordered
  <2> QED BY <1>3, <2>2
<1>6. ASSUME NEW i \in 1..Len(bounced) PROVE SentNow(bounced[i]) /\ Before(bounced[i], m)
  <2>1. bounced[i] \in Indications BY DEF Queues
  <2>2. Sent(bounced[i]) BY DEF Ordered
  <2> QED BY <1>3, <2>1, <2>2
<1>7. ASSUME rx = "replying", IsInd(rcvbuf) PROVE SentNow(rcvbuf) /\ Before(rcvbuf, m)
  <2>1. rcvbuf \in Indications /\ Sent(rcvbuf) BY <1>7, IndicationFields DEF Queues, Ordered
  <2> QED BY <1>3, <2>1
<1>8. ASSUME NEW i \in 1..Len(inbox'), IsInd(inbox'[i]) PROVE SentNow(inbox'[i])
  BY <1>1, <1>4, <1>5, <1>8
<1>9. ASSUME NEW i \in 1..Len(inbox'), NEW j \in 1..Len(inbox'), i < j, IsInd(inbox'[i]), IsInd(inbox'[j])
      PROVE  Before(inbox'[i], inbox'[j])
  <2>1. i \in 1..Len(inbox) /\ inbox'[i] = inbox[i]
    <3>1. Len(inbox) \in Nat /\ (j = Len(inbox) + 1 \/ j \in 1..Len(inbox)) BY <1>1 DEF Queues
    <3> QED BY <1>1, <1>9, <3>1
  <2>2. CASE j = Len(inbox) + 1 /\ inbox'[j] = m BY <1>5, <1>9, <2>1, <2>2
  <2>3. CASE j \in 1..Len(inbox) /\ inbox'[j] = inbox[j] BY <1>9, <2>1, <2>3 DEF Ordered
  <2> QED BY <1>1, <2>2, <2>3
<1>10. ASSUME NEW i \in 1..Len(bounced), NEW j \in 1..Len(inbox'), IsInd(inbox'[j])
       PROVE  Before(bounced[i], inbox'[j])
  BY <1>1, <1>6, <1>10 DEF Ordered
<1>11. ASSUME rx = "replying", IsInd(rcvbuf), NEW j \in 1..Len(inbox'), IsInd(inbox'[j])
       PROVE  Before(rcvbuf, inbox'[j])
  BY <1>1, <1>7, <1>11 DEF Ordered
<1>12. Ordered'
  <2>1. \A i \in 1..Len(inbox') : IsInd(inbox'[i]) => SentNow(inbox'[i]) BY <1>8
  <2>2. \A i, j \in 1..Len(inbox') :
          i < j /\ IsInd(inbox'[i]) /\ IsInd(inbox'[j]) => Before(inbox'[i], inbox'[j])
    BY <1>9
  <2>3. \A i \in 1..Len(bounced), j \in 1..Len(inbox') : IsInd(inbox'[j]) => Before(bounced[i], inbox'[j])
    BY <1>10
  <2>4. rx = "replying" /\ IsInd(rcvbuf) =>
          /\ SentNow(rcvbuf)
          /\ \A j \in 1..Len(inbox') : IsInd(inbox'[j]) => Before(rcvbuf, inbox'[j])
          /\ \A i \in 1..Len(bounced) : Before(bounced[i], rcvbuf)
    BY <1>7, <1>11 DEF Ordered
  <2>5. /\ \A i \in 1..Len(bounced) : SentNow(bounced[i])
        /\ \A i, j \in 1..Len(bounced) : i < j => Before(bounced[i], bounced[j])
    BY <1>6 DEF Ordered
  <2> QED BY <2>1, <2>2, <2>3, <2>4, <2>5, SMTT(60) DEF Ordered, IsInd, Before, Sent
<1> QED BY <1>2, <1>12

\* The receiver returns what it holds, or RMR fails to.
LEMMA ReturnOrdered ==
  ASSUME Queues, Ordered, ReturnToSender
  PROVE  Queues' /\ Ordered'
<1>0. rx = "replying" /\ rx' = "listening" /\ UNCHANGED <<inbox, indicated>> BY DEF ReturnToSender
<1>s. \A x : Sent(x)' <=> Sent(x) BY <1>0 DEF Sent
<1>1. CASE bounced' = bounced
  BY <1>0, <1>1, <1>s DEF Queues, Ordered, IsInd, Before
<1>2. CASE bounced' = Append(bounced, rcvbuf) /\ IsInd(rcvbuf)
  <2>1. rcvbuf \in Indications BY <1>0, <1>2, IndicationFields DEF Queues
  <2>2. /\ bounced' \in Seq(Indications) /\ Len(bounced) \in Nat
        /\ \A i \in 1..Len(bounced') :
             \/ i = Len(bounced) + 1 /\ bounced'[i] = rcvbuf
             \/ i \in 1..Len(bounced) /\ bounced'[i] = bounced[i]
    BY <1>2, <2>1, Appended DEF Queues
  <2>3. ASSUME NEW i \in 1..Len(bounced'), NEW j \in 1..Len(bounced'), i < j
        PROVE  Before(bounced'[i], bounced'[j])
    <3>1. i \in 1..Len(bounced) /\ bounced'[i] = bounced[i]
      <4>1. j = Len(bounced) + 1 \/ j \in 1..Len(bounced) BY <2>2
      <4> QED BY <2>2, <2>3, <4>1
    <3>2. CASE j = Len(bounced) + 1 /\ bounced'[j] = rcvbuf BY <1>0, <1>2, <3>1, <3>2 DEF Ordered
    <3>3. CASE j \in 1..Len(bounced) /\ bounced'[j] = bounced[j] BY <2>3, <3>1, <3>3 DEF Ordered
    <3> QED BY <2>2, <3>2, <3>3
  <2>4. ASSUME NEW i \in 1..Len(bounced')
        PROVE  Sent(bounced'[i]) /\ \A j \in 1..Len(inbox) : IsInd(inbox[j]) => Before(bounced'[i], inbox[j])
    BY <1>0, <1>2, <2>2 DEF Ordered
  <2> QED BY <1>0, <2>2, <2>3, <2>4 DEF Queues, Ordered, IsInd, Before, Sent
<1> QED BY <1>1, <1>2 DEF ReturnToSender, IsInd

LEMMA OrderedStep ==
  ASSUME XappTypes, Queues, Ordered, HandlerOK, [Next]_vars
  PROVE  Queues' /\ Ordered'
<1>u. ASSUME UNCHANGED <<inbox, rcvbuf, bounced, indicated>>, rx' = rx \/ rx' # "replying"
      PROVE  Queues' /\ Ordered'
  <2>1. \A x : Sent(x)' <=> Sent(x) BY <1>u DEF Sent
  <2> QED BY <1>u, <2>1 DEF Queues, Ordered, IsInd, Before
<1>1. CASE xapp_rmr_init \/ MainStep
  BY <1>1, <1>u
     DEF xapp_rmr_init, MainStep, set_rnib_gnblist, RequestNew, RequestDuplicate, StartSend, SendOK, SendRetry, SendGiveUp,
         RequestDone, start_xapp_receiver, rvars, evars
<1>2. CASE ReceiveSubResp \/ Ignore \/ Bounce \/ ReceiveBad
  BY <1>2, TakeOrdered DEF ReceiveSubResp, Ignore, Bounce, ReceiveBad, Receive, evars
<1>3. CASE RecordSubResp BY <1>3, <1>u DEF RecordSubResp, evars
<1>4. CASE ReturnToSender BY <1>4, ReturnOrdered
<1>5. ASSUME NEW m \in H!Answers, RicAnswer(m) PROVE Queues' /\ Ordered'
  <2>1. m \in Messages /\ ~IsInd(m) BY DEF Messages, IsInd, H!Answers
  <2> QED BY <1>5, <2>1, OtherOrdered DEF RicAnswer
<1>6. ASSUME NEW g \in Ids, RanIndicate(g) PROVE Queues' /\ Ordered'
  BY <1>6, IndicationOrdered DEF RanIndicate
<1>7. ASSUME NEW k \in OtherKinds, RicOther(k) PROVE Queues' /\ Ordered'
  <2>1. Other(k) \in Messages /\ ~IsInd(Other(k)) BY DEF Other, Messages, IsInd, OtherKinds
  <2> QED BY <1>7, <2>1, OtherOrdered DEF RicOther
<1>8. CASE UNCHANGED vars BY <1>8, <1>u DEF vars, rvars, evars
<1> QED
  BY <1>1, <1>2, <1>3, <1>4, <1>5, <1>6, <1>7, <1>8 DEF Next, ReceiverStep, RicStep

--------------------------------------------------------------------------------
(* The positive answers, from the RIC to the table *)

Positive(g) == [type |-> "RIC_SUB_RESP", id |-> g]

IsPositive(m) == m.type = "RIC_SUB_RESP"

Queued(g) == \E i \in 1..Len(inbox) : inbox[i] = Positive(g)
Held(g)   == rx = "answering" /\ current[rcv] = Positive(g)

\* RMR's queue holds each of them once, and only those the handler has not been given.
Arriving ==
  /\ \A i \in 1..Len(inbox) : IsPositive(inbox[i]) => inbox[i] \in answers
  /\ \A i, j \in 1..Len(inbox) : i # j /\ IsPositive(inbox[i]) => inbox[i] # inbox[j]
  /\ rx = "answering" <=> current[rcv] # NoAnswer
  /\ current[rcv] # NoAnswer => IsPositive(current[rcv])

Lost(g) ==
  ~ \/ status_table[g] = "request_pending" /\ (Queued(g) \/ Held(g))
    \/ status_table[g] = "request_success" /\ ~ Queued(g) /\ ~ Held(g)

LEMMA NothingLost == NoAnswerLost <=> \A g \in accepted : ~ Lost(g)
  BY DEF NoAnswerLost, Lost, Queued, Held, Positive

LEMMA PositiveFields ==
  ASSUME NEW m \in H!Answers, IsPositive(m)
  PROVE  m = Positive(m.id) /\ m.id \in Ids
  BY DEF H!Answers, IsPositive, Positive

\* What the handler's invariant says of the answers on their way.
LEMMA OneAnswer ==
  ASSUME HandlerOK
  PROVE  /\ \A g \in transmitted : status_table[g] # "absent"
         /\ \A g \in Ids : status_table[g] \in {"request_success", "request_failed"} => g \notin outstanding
         /\ \A m \in answers : m.id \in transmitted /\ m.id \notin outstanding
         /\ \A m, n \in answers : m.id = n.id => m = n
         /\ current[rcv] # NoAnswer =>
              /\ current[rcv].id \in transmitted /\ current[rcv].id \notin outstanding
              /\ \A m \in answers : m.id # current[rcv].id
  BY DEF HandlerOK, HP!IInv, HP!OneAnswerPerId, HP!Resolved

\* Nothing about an answer changes when nothing it is in changes.
LEMMA ArrivingSame ==
  ASSUME Arriving, NoAnswerLost, UNCHANGED <<inbox, answers, current, accepted>>,
         rx' = rx \/ {rx, rx'} \cap {"answering"} = {},
         \A g \in accepted : status_table'[g] = status_table[g]
  PROVE  Arriving' /\ NoAnswerLost'
<1>1. Arriving' BY DEF Arriving
<1>2. \A g : (Queued(g)' <=> Queued(g)) /\ (Held(g)' <=> Held(g)) BY DEF Queued, Held
<1>3. \A g \in accepted : ~ Lost(g)' BY <1>2, NothingLost DEF Lost
<1>4. NoAnswerLost' <=> \A g \in accepted' : ~ Lost(g)'
  BY DEF NoAnswerLost, Lost, Queued, Held, Positive
<1> QED BY <1>1, <1>3, <1>4

\* The receiver takes a message that is no positive answer.
LEMMA ArrivingOther ==
  ASSUME Queues, Arriving, NoAnswerLost, UNCHANGED <<answers, current, accepted, status_table>>,
         rx = "listening", rx' # "answering", inbox # <<>>, ~ IsPositive(Head(inbox)), inbox' = Tail(inbox)
  PROVE  Arriving' /\ NoAnswerLost'
<1>1. /\ Head(inbox) = inbox[1] /\ Len(inbox) \in Nat
      /\ \A i \in 1..Len(inbox') : i + 1 \in 1..Len(inbox) /\ inbox'[i] = inbox[i + 1]
      /\ \A i \in 1..Len(inbox) : i # 1 => i - 1 \in 1..Len(inbox') /\ inbox'[i - 1] = inbox[i]
  BY DEF Queues
<1>2. Arriving'
  <2>1. \A i \in 1..Len(inbox') : IsPositive(inbox'[i]) => inbox'[i] \in answers'
    BY <1>1 DEF Arriving
  <2>2. ASSUME NEW i \in 1..Len(inbox'), NEW j \in 1..Len(inbox'), i # j, IsPositive(inbox'[i])
        PROVE  inbox'[i] # inbox'[j]
    <3>1. i + 1 # j + 1 BY <2>2
    <3>2. /\ i + 1 \in 1..Len(inbox) /\ inbox'[i] = inbox[i + 1]
          /\ j + 1 \in 1..Len(inbox) /\ inbox'[j] = inbox[j + 1]
      BY <1>1
    <3>3. \A a, b \in 1..Len(inbox) : a # b /\ IsPositive(inbox[a]) => inbox[a] # inbox[b] BY DEF Arriving
    <3> QED BY <2>2, <3>1, <3>2, <3>3
  <2> QED BY <2>1, <2>2 DEF Arriving, IsPositive
<1>3. ASSUME NEW g PROVE (Queued(g)' <=> Queued(g)) /\ (Held(g)' <=> Held(g))
  <2>1. inbox[1] # Positive(g) BY <1>1 DEF Positive, IsPositive
  <2> QED BY <1>1, <2>1 DEF Queued, Held
<1>4. \A g \in accepted : ~ Lost(g)' BY <1>3, NothingLost DEF Lost
<1>5. NoAnswerLost' <=> \A g \in accepted' : ~ Lost(g)'
  BY DEF NoAnswerLost, Lost, Queued, Held, Positive
<1> QED BY <1>2, <1>4, <1>5

\* A message that is no positive answer joins the queue.
LEMMA ArrivingMore ==
  ASSUME Queues, Arriving, NoAnswerLost, UNCHANGED <<current, accepted, status_table, rx>>,
         answers \subseteq answers', NEW x \in Messages, ~ IsPositive(x), inbox' = Append(inbox, x)
  PROVE  Arriving' /\ NoAnswerLost'
<1>1. /\ Len(inbox) \in Nat /\ Len(inbox') = Len(inbox) + 1 /\ inbox'[Len(inbox) + 1] = x
      /\ \A i \in 1..Len(inbox) : i \in 1..Len(inbox') /\ inbox'[i] = inbox[i]
  BY DEF Queues
<1>2. \A i \in 1..Len(inbox') : i \in 1..Len(inbox) \/ i = Len(inbox) + 1 BY <1>1
<1>3. Arriving' BY <1>1, <1>2 DEF Arriving, IsPositive
<1>4. ASSUME NEW g PROVE (Queued(g)' <=> Queued(g)) /\ (Held(g)' <=> Held(g))
  <2>1. x # Positive(g) BY DEF Positive, IsPositive
  <2> QED BY <1>1, <1>2, <2>1 DEF Queued, Held
<1>5. \A g \in accepted : ~ Lost(g)' BY <1>4, NothingLost DEF Lost
<1>6. NoAnswerLost' <=> \A g \in accepted' : ~ Lost(g)'
  BY DEF NoAnswerLost, Lost, Queued, Held, Positive
<1> QED BY <1>3, <1>5, <1>6

\* The RIC accepts a subscription: its answer is the only one for that gNB.
LEMMA ArrivingAccept ==
  ASSUME HandlerOK, Queues, Arriving, NoAnswerLost, NEW m \in H!Answers, IsPositive(m), RicAnswer(m)
  PROVE  Arriving' /\ NoAnswerLost'
<1>1. /\ m.id \in outstanding /\ answers' = answers \cup {m} /\ inbox' = Append(inbox, m)
      /\ accepted' = accepted \cup {m.id} /\ UNCHANGED <<status_table, current, rx>>
  BY DEF RicAnswer, H!Answer, H!tables, IsPositive, mvars
<1>2. m \notin answers /\ m = Positive(m.id) /\ m.id \in Ids BY <1>1, OneAnswer, PositiveFields
<1>3. /\ Len(inbox) \in Nat /\ Len(inbox') = Len(inbox) + 1 /\ inbox'[Len(inbox) + 1] = m
      /\ \A i \in 1..Len(inbox) : i \in 1..Len(inbox') /\ inbox'[i] = inbox[i]
      /\ Len(inbox) + 1 \in 1..Len(inbox')
  BY <1>1 DEF Queues, Messages
<1>4. \A i \in 1..Len(inbox') : i \in 1..Len(inbox) \/ i = Len(inbox) + 1 BY <1>3
<1>5. \A i \in 1..Len(inbox) : inbox[i] # m
  BY <1>2 DEF Arriving
<1>6. Arriving'
  <2>1. \A i \in 1..Len(inbox') : IsPositive(inbox'[i]) => inbox'[i] \in answers'
    BY <1>1, <1>3, <1>4 DEF Arriving
  <2>2. ASSUME NEW i \in 1..Len(inbox'), NEW j \in 1..Len(inbox'), i # j, IsPositive(inbox'[i])
        PROVE  inbox'[i] # inbox'[j]
    BY <1>3, <1>4, <1>5, <2>2 DEF Arriving
  <2> QED BY <1>1, <2>1, <2>2 DEF Arriving
<1>7. ASSUME NEW g, g # m.id PROVE (Queued(g)' <=> Queued(g)) /\ (Held(g)' <=> Held(g))
  <2>1. m # Positive(g) BY <1>2, <1>7 DEF Positive
  <2> QED BY <1>1, <1>3, <1>4, <2>1 DEF Queued, Held
<1>8. Queued(m.id)' BY <1>2, <1>3 DEF Queued
<1>9. status_table[m.id] = "request_pending"
  BY <1>1, <1>2, OneAnswer, HandlerTypes DEF H!Statuses
<1>10. \A g \in accepted' : ~ Lost(g)' BY <1>1, <1>7, <1>8, <1>9, NothingLost DEF Lost
<1>11. NoAnswerLost' <=> \A g \in accepted' : ~ Lost(g)'
  BY DEF NoAnswerLost, Lost, Queued, Held, Positive
<1> QED BY <1>6, <1>10, <1>11

\* The handler is given the answer at the head of the queue.
LEMMA ArrivingTaken ==
  ASSUME HandlerOK, Queues, Arriving, NoAnswerLost, ReceiveSubResp
  PROVE  Arriving' /\ NoAnswerLost'
<1>m. PICK m : m = Head(inbox) OBVIOUS
<1>1. /\ rx = "listening" /\ rx' = "answering" /\ inbox # <<>> /\ inbox' = Tail(inbox)
      /\ current'[rcv] = m /\ IsPositive(m) /\ UNCHANGED <<status_table, accepted>>
  BY <1>m DEF ReceiveSubResp, Receive, H!TakeAnswer, H!tables, evars, IsPositive
<1>2. /\ m = inbox[1] /\ Len(inbox) \in Nat /\ 1 \in 1..Len(inbox)
      /\ \A i \in 1..Len(inbox') : i + 1 \in 1..Len(inbox) /\ i + 1 # 1 /\ inbox'[i] = inbox[i + 1]
      /\ \A i \in 1..Len(inbox) : i # 1 => i - 1 \in 1..Len(inbox') /\ inbox'[i - 1] = inbox[i]
  BY <1>1, <1>m DEF Queues
<1>3. m \in answers /\ m \in H!Answers BY <1>1, <1>2, HandlerTypes DEF Arriving
<1>4. m = Positive(m.id) /\ m.id \in Ids /\ m # NoAnswer BY <1>1, <1>3, PositiveFields, BouncerAssumption
<1>5. answers' = answers \ {m}
  <2>1. PICK n \in answers : current' = [current EXCEPT ![rcv] = n] /\ answers' = answers \ {n}
    BY DEF ReceiveSubResp, H!TakeAnswer
  <2>2. n = m BY <1>1, <2>1, HandlerTypes
  <2> QED BY <2>1, <2>2
<1>6. \A i \in 1..Len(inbox') : inbox'[i] # m BY <1>1, <1>2 DEF Arriving
<1>7. Arriving'
  <2>1. \A i \in 1..Len(inbox') : IsPositive(inbox'[i]) => inbox'[i] \in answers'
    BY <1>2, <1>5, <1>6 DEF Arriving
  <2>2. ASSUME NEW i \in 1..Len(inbox'), NEW j \in 1..Len(inbox'), i # j, IsPositive(inbox'[i])
        PROVE  inbox'[i] # inbox'[j]
    <3>1. i + 1 # j + 1 BY <2>2
    <3>2. /\ i + 1 \in 1..Len(inbox) /\ inbox'[i] = inbox[i + 1]
          /\ j + 1 \in 1..Len(inbox) /\ inbox'[j] = inbox[j + 1]
      BY <1>2
    <3>3. \A a, b \in 1..Len(inbox) : a # b /\ IsPositive(inbox[a]) => inbox[a] # inbox[b] BY DEF Arriving
    <3> QED BY <2>2, <3>1, <3>2, <3>3
  <2> QED BY <1>1, <1>4, <2>1, <2>2 DEF Arriving
<1>8. ASSUME NEW g, g # m.id PROVE (Queued(g)' <=> Queued(g)) /\ ~ Held(g)' /\ ~ Held(g)
  <2>1. m # Positive(g) BY <1>4, <1>8 DEF Positive
  <2> QED BY <1>1, <1>2, <2>1 DEF Queued, Held
<1>9. Queued(m.id) /\ Held(m.id)' BY <1>1, <1>2, <1>4 DEF Queued, Held
<1>10. \A g \in accepted' : ~ Lost(g)' BY <1>1, <1>8, <1>9, NothingLost DEF Lost
<1>11. NoAnswerLost' <=> \A g \in accepted' : ~ Lost(g)'
  BY DEF NoAnswerLost, Lost, Queued, Held, Positive
<1> QED BY <1>7, <1>10, <1>11

\* The handler records the answer it was given.
LEMMA ArrivingRecorded ==
  ASSUME HandlerOK, Answered, Queues, Arriving, NoAnswerLost, RecordSubResp
  PROVE  Arriving' /\ NoAnswerLost'
<1>1. PICK m \in H!Answers : current[rcv] = m
  BY HandlerTypes DEF RecordSubResp, H!manage_subscription_response
<1>2. m # NoAnswer /\ IsPositive(m) /\ m = Positive(m.id) /\ m.id \in Ids
  BY <1>1, BouncerAssumption, PositiveFields DEF Arriving
<1>3. /\ rx = "answering" /\ rx' = "listening" /\ current'[rcv] = NoAnswer
      /\ UNCHANGED <<inbox, answers, accepted, transmitted>>
  BY HandlerTypes DEF RecordSubResp, H!manage_subscription_response, H!ric, evars
<1>4. status_table' = [status_table EXCEPT ![m.id] = "request_success"]
  <2>1. H!is_request_entry(m.id) BY <1>1, <1>2, OneAnswer DEF H!is_request_entry
  <2> QED BY <1>1, <1>2, <2>1
          DEF RecordSubResp, H!manage_subscription_response, H!set_request_status, IsPositive
<1>5. Arriving' BY <1>3 DEF Arriving
<1>6. \A g : (Queued(g)' <=> Queued(g)) /\ ~ Held(g)' BY <1>3 DEF Queued, Held
<1>7. \A g : g # m.id => ~ Held(g)
  BY <1>1, <1>2 DEF Held, Positive
<1>8. ~ Queued(m.id)
  <2>1. \A n \in answers : n # m BY <1>1, <1>2, OneAnswer
  <2> QED BY <1>2, <2>1 DEF Queued, Arriving
<1>9. accepted \subseteq Ids /\ status_table \in [Ids -> H!Statuses]
  BY HandlerTypes DEF Answered
<1>10. \A g \in accepted' : ~ Lost(g)'
  BY <1>2, <1>3, <1>4, <1>6, <1>7, <1>8, <1>9, NothingLost DEF Lost
<1>11. NoAnswerLost' <=> \A g \in accepted' : ~ Lost(g)'
  BY DEF NoAnswerLost, Lost, Queued, Held, Positive
<1> QED BY <1>5, <1>10, <1>11

LEMMA ArrivingStep ==
  ASSUME HandlerOK, XappTypes, Answered, Queues, Arriving, NoAnswerLost, Startup, [Next]_vars
  PROVE  Arriving' /\ NoAnswerLost'
<1>t. /\ status_table \in [Ids -> H!Statuses] /\ accepted \subseteq transmitted /\ transmitted \subseteq Ids
      /\ req \in [{main} -> Ids]
  BY HandlerTypes DEF Answered
<1>a. \A g \in accepted : status_table[g] # "absent" /\ g \in Ids BY <1>t, OneAnswer
<1>1. CASE xapp_rmr_init \/ set_rnib_gnblist \/ RequestDuplicate \/ StartSend \/ SendOK \/ SendRetry \/ SendGiveUp
  BY <1>1, ArrivingSame
     DEF xapp_rmr_init, set_rnib_gnblist, RequestDuplicate, StartSend, SendOK, SendRetry, SendGiveUp, H!Duplicate, H!Lock,
         H!TransmitOK, H!TransmitFail, H!tables, H!ric, hvars, mvars, rvars, evars
<1>2. CASE RequestNew
  <2>1. Gnb \in Ids BY <1>2, ListTypes DEF RequestNew
  <2>2. \A g \in accepted : status_table'[g] = status_table[g]
    BY <1>2, <1>a, <1>t, <2>1 DEF RequestNew, H!Insert, H!is_request_entry, H!add_request_entry
  <2> QED BY <1>2, <2>2, ArrivingSame DEF RequestNew, H!Insert, H!ric, rvars, evars
<1>3. CASE RequestDone
  <2>1. \A g \in accepted : status_table'[g] = status_table[g]
    <3>1. CASE H!Commit(main) BY <3>1 DEF H!Commit
    <3>2. CASE H!Rollback(main)
      <4>1. req[main] \notin transmitted
        BY <1>t, <3>2 DEF H!Rollback, HandlerOK, HP!IInv, HP!OneOwnerPerId, HP!Working
      <4> QED BY <1>a, <1>t, <3>2, <4>1 DEF H!Rollback, H!delete_request_entry
    <3> QED BY <1>3, <3>1, <3>2 DEF RequestDone
  <2> QED BY <1>3, <2>1, ArrivingSame DEF RequestDone, H!Commit, H!Rollback, H!ric, rvars, evars
<1>4. CASE start_xapp_receiver
  <2>1. rx # "answering" BY <1>4 DEF start_xapp_receiver, Startup
  <2> QED BY <1>4, <2>1, ArrivingSame DEF start_xapp_receiver, hvars, evars
<1>5. CASE ReceiveSubResp BY <1>5, ArrivingTaken
<1>6. CASE RecordSubResp BY <1>6, ArrivingRecorded
<1>7. CASE Ignore \/ Bounce \/ ReceiveBad
  BY <1>7, ArrivingOther DEF Ignore, Bounce, ReceiveBad, Receive, IsPositive, hvars, evars
<1>8. CASE ReturnToSender BY <1>8, ArrivingSame DEF ReturnToSender, hvars
<1>9. ASSUME NEW m \in H!Answers, RicAnswer(m) PROVE Arriving' /\ NoAnswerLost'
  <2>1. CASE IsPositive(m) BY <1>9, <2>1, ArrivingAccept
  <2>2. CASE ~ IsPositive(m)
    <3>1. m \in Messages BY DEF Messages
    <3> QED BY <1>9, <2>2, <3>1, ArrivingMore DEF RicAnswer, H!Answer, H!tables, IsPositive
  <2> QED BY <2>1, <2>2
<1>10. ASSUME NEW g \in Ids, RanIndicate(g) PROVE Arriving' /\ NoAnswerLost'
  <2>1. PICK x : x = Indication(g, indicated'[g]) OBVIOUS
  <2>2. x \in Messages /\ ~ IsPositive(x)
    <3>1. indicated'[g] \in Nat BY <1>10, BouncerAssumption DEF RanIndicate, XappTypes
    <3> QED BY <2>1, <3>1 DEF Indication, Messages, Indications, IsPositive
  <2> QED BY <1>10, <2>1, <2>2, ArrivingMore DEF RanIndicate, hvars
<1>11. ASSUME NEW k \in OtherKinds, RicOther(k) PROVE Arriving' /\ NoAnswerLost'
  <2>1. Other(k) \in Messages /\ ~ IsPositive(Other(k)) BY DEF Other, Messages, IsPositive, OtherKinds
  <2> QED BY <1>11, <2>1, ArrivingMore DEF RicOther, hvars
<1>12. CASE UNCHANGED vars BY <1>12, ArrivingSame DEF vars, hvars, rvars, evars
<1> QED
  BY <1>1, <1>2, <1>3, <1>4, <1>5, <1>6, <1>7, <1>8, <1>9, <1>10, <1>11, <1>12
     DEF Next, MainStep, ReceiverStep, RicStep

--------------------------------------------------------------------------------
(* The theorems *)

Inv ==
  /\ HandlerOK /\ XappTypes /\ Startup /\ Answered /\ StatusTruthful /\ Log /\ Queues /\ Ordered
  /\ Arriving /\ NoAnswerLost

\* What all the parts say together holds in every reachable state.
THEOREM Invariance == Spec => []Inv
<1>1. Init => Inv
  <2> SUFFICES ASSUME Init PROVE Inv OBVIOUS
  <2>1. HandlerOK
    <3>1. HP!Init /\ clears = 0 BY DEF Init, H!Init, HP!Init
    <3>2. HP!IInv
      BY <3>1, HandlerConstants
         DEF HP!Init, HP!IInv, HP!TypeOK, HP!LockHeld, HP!OneOwnerPerId, HP!TablesAgree, HP!OneAnswerPerId,
             HP!Statuses, HP!Results, HP!Working, HP!Holding, HP!Resolved, HP!is_request_entry,
             HP!HandlerAssumption
    <3> QED BY <3>1, <3>2 DEF HandlerOK
  <2>2. <<>> \in Seq(Ids) /\ <<>> \in Seq(H!Results \ {"none"}) /\ Len(<<>>) = 0 OBVIOUS
  <2>3. XappTypes /\ Startup
    BY <2>2, BouncerAssumption DEF Init, H!Init, XappTypes, Startup, Lists, More
  <2>4. Answered /\ StatusTruthful /\ Log
    BY <2>2, BouncerAssumption DEF Init, H!Init, Answered, StatusTruthful, Log, Kept, Working
  <2>5. Queues /\ Ordered BY <2>2 DEF Init, Queues, Ordered
  <2>6. Arriving /\ NoAnswerLost
    BY <2>2 DEF Init, H!Init, Arriving, NoAnswerLost
  <2> QED BY <2>1, <2>3, <2>4, <2>5, <2>6 DEF Inv
<1>2. Inv /\ [Next]_vars => Inv'
  <2> SUFFICES ASSUME Inv, [Next]_vars PROVE Inv' OBVIOUS
  <2>1. HandlerOK' BY ListTypes, HandlerStep DEF Inv
  <2>2. XappTypes' /\ Startup' BY TypesStep DEF Inv
  <2>3. Answered' /\ StatusTruthful' BY MarksStep DEF Inv
  <2>4. Log' BY LogStep DEF Inv
  <2>5. Queues' /\ Ordered' BY OrderedStep DEF Inv
  <2>6. Arriving' /\ NoAnswerLost' BY ArrivingStep DEF Inv
  <2> QED BY <2>1, <2>2, <2>3, <2>4, <2>5, <2>6 DEF Inv
<1> QED BY <1>1, <1>2, PTL DEF Spec

\* Every variable keeps its type; what the RIC accepted, it was sent.
THEOREM TypeCorrect == Spec => []TypeOK
<1>1. Inv => TypeOK
  <2> SUFFICES ASSUME Inv PROVE TypeOK OBVIOUS
  <2>1. H!TypeOK BY HandlerTypes DEF Inv
  <2> QED BY <2>1 DEF Inv, XappTypes, Answered, TypeOK
<1> QED BY <1>1, Invariance, PTL

\* A gNB is marked a success only when the RIC accepted its subscription, and no mark is set
\* before the start-up has made every request.
THEOREM StatusTruthfulHolds == Spec => []StatusTruthful
BY Invariance, PTL DEF Inv

\* The start-up log tells what the tables and the RIC hold, however RMR answered.
THEOREM StartupLogRightHolds == Spec => []StartupLogRight
<1>1. Inv => StartupLogRight
  <2> SUFFICES ASSUME Inv, NEW i \in 1..Len(outcome)
               PROVE  LET g == gnblist[i]
                          kept == \E j \in 1..Len(outcome) : gnblist[j] = g /\ outcome[j] = "SUBSCR_SUCCESS"
                      IN  /\ outcome[i] = "SUBSCR_SUCCESS" => g \in transmitted /\ status_table[g] # "absent"
                          /\ outcome[i] = "SUBSCR_ERR_DUPLICATE" =>
                               \E j \in 1..(i - 1) : gnblist[j] = g /\ outcome[j] = "SUBSCR_SUCCESS"
                          /\ phase = "running" /\ ~ kept => status_table[g] = "absent" /\ g \notin transmitted
    BY DEF StartupLogRight
  <2>1. gnblist[i] \in Ids /\ Log BY ListTypes DEF Inv, XappTypes
  <2>2. outcome[i] = "SUBSCR_SUCCESS" => Kept(gnblist[i]) BY DEF Kept
  <2>3. phase = "running" => pc[main] = "idle" BY DEF Inv, Startup
  <2> QED BY <2>1, <2>2, <2>3 DEF Log, Kept, Working
<1> QED BY <1>1, Invariance, PTL

\* Every indication is bounced at most once, and those of a gNB in the order it sent them.
THEOREM BouncesInOrderHolds == Spec => []BouncesInOrder
<1>1. Inv => BouncesInOrder BY OrderedBounces DEF Inv
<1> QED BY <1>1, Invariance, PTL

\* An answer that accepts a subscription is never lost between the RIC and the status table:
\* until the table says so it waits in RMR's queue or in the receiver's hands, once.
THEOREM NoAnswerLostHolds == Spec => []NoAnswerLost
BY Invariance, PTL DEF Inv

\* In the xApp too, whatever the threads and the RIC do, a gNB's subscription goes through the
\* stages of the lifecycle: it is sent at most once, and never taken back once it is sent.
THEOREM XappKeepsLifecycle == Spec => H!ImplementsLifecycle
<1>1. Init => H!Lifecycle!Init
  BY DEF Init, H!Init, H!Lifecycle!Init, H!Stages, H!Stage
<1>2. Inv /\ [Next]_vars => [H!Lifecycle!Next]_(H!Stages)
  <2> SUFFICES ASSUME Inv, [Next]_vars PROVE [H!Lifecycle!Next]_(H!Stages)
    OBVIOUS
  <2>1. [HP!Next]_(HP!vars)
    BY ListTypes, HandlerMoves DEF Inv
  <2>2. [HP!Lifecycle!Next]_(HP!Stages)
    BY <2>1, HP!RefinementStep, HandlerConstants DEF Inv, HandlerOK
  <2>3. H!Stages = HP!Stages /\ H!Stages' = HP!Stages'
    BY DEF H!Stages, HP!Stages, H!Stage, HP!Stage
  <2>4. HP!Lifecycle!Next => H!Lifecycle!Next
    BY <2>3
       DEF H!Lifecycle!Next, HP!Lifecycle!Next, H!Lifecycle!Register, HP!Lifecycle!Register,
           H!Lifecycle!Withdraw, HP!Lifecycle!Withdraw, H!Lifecycle!Send, HP!Lifecycle!Send,
           H!Lifecycle!Accept, HP!Lifecycle!Accept, H!Lifecycle!Refuse, HP!Lifecycle!Refuse,
           H!Lifecycle!Forget, HP!Lifecycle!Forget, H!Lifecycle!Move, HP!Lifecycle!Move
  <2> QED
    BY <2>2, <2>3, <2>4
<1> QED
  BY <1>1, <1>2, Invariance, PTL DEF Spec, H!ImplementsLifecycle, H!Lifecycle!Spec
================================================================================

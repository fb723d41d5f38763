-------------------------- MODULE SubscriptionHandler --------------------------
(***************************************************************************)
(* class SubscriptionHandler of the Bouncer xApp (xapp-mgmt/subs_mgmt):    *)
(* the table of subscription requests and the table of their transmitters, *)
(* shared by the threads that request subscriptions and the threads that   *)
(* handle the answers, under one mutex.                                    *)
(*                                                                         *)
(* manage_subscription_request takes the mutex twice: once to insert the   *)
(* entry, and again to transmit and record the transmitter.  Between the   *)
(* two any other thread may run; the second section keeps the mutex while  *)
(* the transmitter runs, which can take seconds.  A section that does not  *)
(* block is one action guarded by the mutex being free; the section around *)
(* the transmitter is the actions Lock, Transmit and Commit or Rollback.   *)
(***************************************************************************)
EXTENDS Naturals

CONSTANTS
  Callers,     \* threads that call manage_subscription_request
  Receivers,   \* threads that call manage_subscription_response
  Ids,         \* transaction identifiers (gNB names)
  Free,        \* value of the mutex when nobody holds it
  NoAnswer,    \* a receiver that is handling nothing
  MaxCalls,    \* bound: calls per caller
  MaxClears    \* bound: calls of clear()

Answers == [type : {"RIC_SUB_RESP", "RIC_SUB_FAILURE"}, id : Ids]

ASSUME HandlerAssumption ==
  /\ Free \notin Callers
  /\ NoAnswer \notin Answers
  /\ MaxCalls \in Nat
  /\ MaxClears \in Nat

VARIABLES
  status_table,  \* id -> status, "absent" where the map has no entry
  trans_table,   \* ids with a recorded transmitter
  data_lock,     \* the caller that holds the mutex, or Free
  pc,            \* where each caller is in manage_subscription_request
  req,           \* the id of each caller's last call
  result,        \* what each caller's last call returned
  calls,         \* calls made by each caller
  clears,        \* calls of clear() so far
  transmitted,   \* ids whose request has ever reached the RIC
  outstanding,   \* ids whose request the RIC has not answered yet
  answers,       \* answers on their way to the xApp
  current        \* the answer each receiver is handling

tables == <<status_table, trans_table>>
ric    == <<transmitted, outstanding, answers>>
vars   == <<tables, data_lock, pc, req, result, calls, clears, ric, current>>

Statuses == {"absent", "request_pending", "request_success", "request_failed"}
Results  == {"none", "SUBSCR_SUCCESS", "SUBSCR_ERR_TX", "SUBSCR_ERR_DUPLICATE"}

\* A caller between its insertion and its return, and one that holds the mutex.
Working == {"inserted", "transmitting", "sent", "unsent"}
Holding == {"transmitting", "sent", "unsent"}

TypeOK ==
  /\ status_table \in [Ids -> Statuses]
  /\ trans_table \in SUBSET Ids
  /\ data_lock \in Callers \cup {Free}
  /\ pc \in [Callers -> {"idle"} \cup Working]
  /\ req \in [Callers -> Ids]
  /\ result \in [Callers -> Results]
  /\ calls \in [Callers -> Nat]
  /\ clears \in Nat
  /\ transmitted \in SUBSET Ids
  /\ outstanding \in SUBSET Ids
  /\ answers \in SUBSET Answers
  /\ current \in [Receivers -> Answers \cup {NoAnswer}]

Init ==
  /\ status_table = [id \in Ids |-> "absent"]
  /\ trans_table = {}
  /\ data_lock = Free
  /\ pc = [c \in Callers |-> "idle"]
  /\ req \in [Callers -> Ids]
  /\ result = [c \in Callers |-> "none"]
  /\ calls = [c \in Callers |-> 0]
  /\ clears = 0
  /\ transmitted = {} /\ outstanding = {} /\ answers = {}
  /\ current = [r \in Receivers |-> NoAnswer]

--------------------------------------------------------------------------------
(* The tables *)

is_request_entry(id) == status_table[id] # "absent"

add_request_entry(id) == status_table' = [status_table EXCEPT ![id] = "request_pending"]

\* Mutant: the entry stays.
delete_request_entry_Keep(id) ==
  /\ trans_table' = trans_table \ {id}
  /\ UNCHANGED status_table

delete_request_entry(id) ==
  /\ status_table' = [status_table EXCEPT ![id] = "absent"]
  /\ trans_table' = trans_table \ {id}

\* A transmitter that is already there stays.
add_transmitter_entry(id) == trans_table' = trans_table \cup {id}

set_request_status(id, status) ==
  status_table' = [status_table EXCEPT ![id] = IF is_request_entry(id) THEN status ELSE @]

--------------------------------------------------------------------------------
(* manage_subscription_request *)

Return(c, code) ==
  /\ pc' = [pc EXCEPT ![c] = "idle"]
  /\ result' = [result EXCEPT ![c] = code]

Call(c, id) ==
  /\ pc[c] = "idle"
  /\ calls[c] < MaxCalls
  /\ data_lock = Free
  /\ calls' = [calls EXCEPT ![c] = @ + 1]
  /\ req' = [req EXCEPT ![c] = id]

\* Mutant: no look-up before the insertion.
Insert_Always(c, id) ==
  /\ Call(c, id)
  /\ add_request_entry(id)
  /\ pc' = [pc EXCEPT ![c] = "inserted"]
  /\ result' = [result EXCEPT ![c] = "none"]
  /\ UNCHANGED <<trans_table, data_lock, clears, ric, current>>

Insert(c, id) ==
  /\ Call(c, id)
  /\ ~ is_request_entry(id)
  /\ add_request_entry(id)
  /\ pc' = [pc EXCEPT ![c] = "inserted"]
  /\ result' = [result EXCEPT ![c] = "none"]
  /\ UNCHANGED <<trans_table, data_lock, clears, ric, current>>

Duplicate(c, id) ==
  /\ Call(c, id)
  /\ is_request_entry(id)
  /\ Return(c, "SUBSCR_ERR_DUPLICATE")
  /\ UNCHANGED <<tables, data_lock, clears, ric, current>>

\* Mutant: the transmitter runs without the mutex of another caller being respected.
Lock_Steal(c) ==
  /\ pc[c] = "inserted"
  /\ data_lock' = c
  /\ pc' = [pc EXCEPT ![c] = "transmitting"]
  /\ UNCHANGED <<tables, req, result, calls, clears, ric, current>>

Lock(c) ==
  /\ pc[c] = "inserted"
  /\ data_lock = Free
  /\ data_lock' = c
  /\ pc' = [pc EXCEPT ![c] = "transmitting"]
  /\ UNCHANGED <<tables, req, result, calls, clears, ric, current>>

\* tx() returned true: the request is on its way and the RIC may answer it at once.
TransmitOK(c) ==
  /\ pc[c] = "transmitting"
  /\ pc' = [pc EXCEPT ![c] = "sent"]
  /\ transmitted' = transmitted \cup {req[c]}
  /\ outstanding' = outstanding \cup {req[c]}
  /\ UNCHANGED <<tables, data_lock, req, result, calls, clears, answers, current>>

\* Mutant: a failure is reported although the message has left.
TransmitFail_Sent(c) ==
  /\ pc[c] = "transmitting"
  /\ pc' = [pc EXCEPT ![c] = "unsent"]
  /\ transmitted' = transmitted \cup {req[c]}
  /\ outstanding' = outstanding \cup {req[c]}
  /\ UNCHANGED <<tables, data_lock, req, result, calls, clears, answers, current>>

\* tx() returned false: nothing left the xApp.
TransmitFail(c) ==
  /\ pc[c] = "transmitting"
  /\ pc' = [pc EXCEPT ![c] = "unsent"]
  /\ UNCHANGED <<tables, data_lock, req, result, calls, clears, ric, current>>

Commit(c) ==
  /\ pc[c] = "sent"
  /\ add_transmitter_entry(req[c])
  /\ data_lock' = Free
  /\ Return(c, "SUBSCR_SUCCESS")
  /\ UNCHANGED <<status_table, req, calls, clears, ric, current>>

\* Mutant: the error path returns with the mutex.
Rollback_NoUnlock(c) ==
  /\ pc[c] = "unsent"
  /\ delete_request_entry(req[c])
  /\ Return(c, "SUBSCR_ERR_TX")
  /\ UNCHANGED <<data_lock, req, calls, clears, ric, current>>

Rollback(c) ==
  /\ pc[c] = "unsent"
  /\ delete_request_entry(req[c])
  /\ data_lock' = Free
  /\ Return(c, "SUBSCR_ERR_TX")
  /\ UNCHANGED <<req, calls, clears, ric, current>>

--------------------------------------------------------------------------------
(* manage_subscription_response, clear, and the RIC *)

\* A receiver takes an answer and sleeps a second before it takes the mutex.
TakeAnswer(r) ==
  /\ current[r] = NoAnswer
  /\ \E m \in answers : current' = [current EXCEPT ![r] = m] /\ answers' = answers \ {m}
  /\ UNCHANGED <<tables, data_lock, pc, req, result, calls, clears, transmitted, outstanding>>

\* Mutant: the message type is stored as the status.
manage_subscription_response_Type(r) ==
  /\ current[r] # NoAnswer
  /\ data_lock = Free
  /\ set_request_status(current[r].id, current[r].type)
  /\ current' = [current EXCEPT ![r] = NoAnswer]
  /\ UNCHANGED <<trans_table, data_lock, pc, req, result, calls, clears, ric>>

\* Mutant: a failure changes no status.
manage_subscription_response_NoFailure(r) ==
  /\ current[r] # NoAnswer
  /\ data_lock = Free
  /\ IF current[r].type = "RIC_SUB_RESP"
       THEN set_request_status(current[r].id, "request_success")
       ELSE UNCHANGED status_table
  /\ current' = [current EXCEPT ![r] = NoAnswer]
  /\ UNCHANGED <<trans_table, data_lock, pc, req, result, calls, clears, ric>>

manage_subscription_response(r) ==
  /\ current[r] # NoAnswer
  /\ data_lock = Free
  /\ set_request_status(current[r].id,
       IF current[r].type = "RIC_SUB_RESP" THEN "request_success" ELSE "request_failed")
  /\ current' = [current EXCEPT ![r] = NoAnswer]
  /\ UNCHANGED <<trans_table, data_lock, pc, req, result, calls, clears, ric>>

\* clear() empties the status table only: the transmitters stay.
clear ==
  /\ clears < MaxClears
  /\ data_lock = Free
  /\ status_table' = [id \in Ids |-> "absent"]
  /\ clears' = clears + 1
  /\ UNCHANGED <<trans_table, data_lock, pc, req, result, calls, ric, current>>

\* The RIC answers a request once, with success or failure, or never.
Answer(m) ==
  /\ m.id \in outstanding
  /\ outstanding' = outstanding \ {m.id}
  /\ answers' = answers \cup {m}
  /\ UNCHANGED <<tables, data_lock, pc, req, result, calls, clears, transmitted, current>>

--------------------------------------------------------------------------------
Proceed(c) == Lock(c) \/ TransmitOK(c) \/ TransmitFail(c) \/ Commit(c) \/ Rollback(c)

Next ==
  \/ \E c \in Callers, id \in Ids : Insert(c, id) \/ Duplicate(c, id)
  \/ \E c \in Callers : Proceed(c)
  \/ \E r \in Receivers : TakeAnswer(r) \/ manage_subscription_response(r)
  \/ \E m \in Answers : Answer(m)
  \/ clear

\* A thread that can run does run.  Nothing is assumed about who wins the mutex, about
\* new calls, about clear(), or about the RIC.
Fairness ==
  /\ \A c \in Callers : WF_vars(Proceed(c))
  /\ \A r \in Receivers : WF_vars(TakeAnswer(r)) /\ WF_vars(manage_subscription_response(r))

Spec == Init /\ [][Next]_vars /\ Fairness

--------------------------------------------------------------------------------
(* Properties *)

\* Mutual exclusion of the long section: the mutex names exactly the caller inside it,
\* so no answer is applied and nobody inserts while a transmitter runs.
LockHeld == \A c \in Callers : data_lock = c <=> pc[c] \in Holding

\* Until clear() is called, an entry belongs to one caller from its insertion to the
\* caller's return, across the gap where the mutex is free: no second caller works on the
\* same id, the entry is still there and pending, and the RIC has not seen the request
\* before this caller transmits it.
OneOwnerPerId ==
  clears = 0 =>
    \A c \in Callers : pc[c] \in Working =>
      /\ status_table[req[c]] = "request_pending"
      /\ pc[c] # "sent" => req[c] \notin transmitted
      /\ \A d \in Callers : pc[d] \in Working /\ req[d] = req[c] => d = c

\* Until clear() is called, the two tables agree: an id has a transmitter exactly when it
\* has an entry that no caller is still working on, and such an entry is exactly one
\* whose request has reached the RIC.  An answered entry is therefore never one whose
\* caller could still delete it.
TablesAgree ==
  clears = 0 =>
    \A id \in Ids :
      LET owned == \E c \in Callers : pc[c] \in Working /\ req[c] = id
      IN  /\ id \in trans_table <=> is_request_entry(id) /\ ~ owned
          /\ id \in trans_table => id \in transmitted

\* Where the request of an id stands, seen from outside the handler.
Stage(id) ==
  IF clears > 0 THEN "forgotten"
  ELSE IF status_table[id] = "absent" THEN "absent"
  ELSE IF status_table[id] = "request_success" THEN "accepted"
  ELSE IF status_table[id] = "request_failed" THEN "refused"
  ELSE IF id \in transmitted THEN "sent" ELSE "registered"

Stages == [id \in Ids |-> Stage(id)]

Lifecycle == INSTANCE SubscriptionLifecycle WITH life <- Stages

\* The handler, with its threads, two critical sections and two tables, implements the
\* lifecycle: one transmission per id, one answer per transmission, no answer lost to a
\* failing duplicate.
ImplementsLifecycle == Lifecycle!Spec

\* Every call returns: the mutex is never lost, in spite of the unfair mutex.
CallsReturn == \A c \in Callers : pc[c] \in Working ~> pc[c] = "idle"

\* Every answer that reaches the xApp is applied to its entry, unless clear() took it.
AnswersApplied ==
  \A id \in Ids :
    (\E m \in answers : m.id = id)
      ~> (clears > 0 \/ status_table[id] \in {"request_success", "request_failed"})
================================================================================

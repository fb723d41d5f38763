----------------------- MODULE SubscriptionHandlerProofs -----------------------
(***************************************************************************)
(* Proofs about SubscriptionHandler for any number of callers, receivers   *)
(* and identifiers and any bounds: type correctness, mutual exclusion, the *)
(* ownership of entries, the agreement of the tables, and the refinement   *)
(* of SubscriptionLifecycle.                                               *)
(***************************************************************************)
EXTENDS SubscriptionHandler, TLAPS

Resolved == {"request_success", "request_failed"}

Owned(id) == \E c \in Callers : pc[c] \in Working /\ req[c] = id

\* An id waits for at most one answer, in at most one place: at the RIC, on its way, or in
\* a receiver's hand; and only an id that was transmitted and has an entry does.
OneAnswerPerId ==
  clears = 0 =>
    /\ outstanding \subseteq transmitted
    /\ \A id \in transmitted : status_table[id] # "absent"
    /\ \A m \in answers : m.id \in transmitted /\ m.id \notin outstanding
    /\ \A m, n \in answers : m.id = n.id => m = n
    /\ \A r \in Receivers : current[r] # NoAnswer =>
         /\ current[r].id \in transmitted
         /\ current[r].id \notin outstanding
         /\ \A m \in answers : m.id # current[r].id
    /\ \A r, q \in Receivers :
         current[r] # NoAnswer /\ current[q] # NoAnswer /\ current[r].id = current[q].id => r = q
    /\ \A id \in Ids : status_table[id] \in Resolved =>
         /\ id \in transmitted
         /\ id \notin outstanding
         /\ \A m \in answers : m.id # id
         /\ \A r \in Receivers : current[r] # NoAnswer => current[r].id # id
    /\ \A c \in Callers : pc[c] = "sent" => req[c] \in transmitted

IInv == TypeOK /\ LockHeld /\ OneOwnerPerId /\ TablesAgree /\ OneAnswerPerId

--------------------------------------------------------------------------------
(* Type correctness *)

\* Each step keeps the types of the variables.
LEMMA TypeStep == TypeOK /\ [Next]_vars => TypeOK'
<1> SUFFICES ASSUME TypeOK, [Next]_vars PROVE TypeOK'
  OBVIOUS
<1> USE HandlerAssumption DEF TypeOK, Statuses, Results, Working, ric, tables
<1>1. ASSUME NEW c \in Callers, NEW id \in Ids, Insert(c, id) PROVE TypeOK'
  BY <1>1 DEF Insert, Call, add_request_entry
<1>2. ASSUME NEW c \in Callers, NEW id \in Ids, Duplicate(c, id) PROVE TypeOK'
  BY <1>2 DEF Duplicate, Call, Return
<1>3. ASSUME NEW c \in Callers, Lock(c) PROVE TypeOK'
  BY <1>3 DEF Lock
<1>4. ASSUME NEW c \in Callers, TransmitOK(c) PROVE TypeOK'
  BY <1>4 DEF TransmitOK
<1>5. ASSUME NEW c \in Callers, TransmitFail(c) PROVE TypeOK'
  BY <1>5 DEF TransmitFail
<1>6. ASSUME NEW c \in Callers, Commit(c) PROVE TypeOK'
  BY <1>6 DEF Commit, add_transmitter_entry, Return
<1>7. ASSUME NEW c \in Callers, Rollback(c) PROVE TypeOK'
  BY <1>7 DEF Rollback, Return, delete_request_entry
<1>8. ASSUME NEW r \in Receivers, TakeAnswer(r) PROVE TypeOK'
  BY <1>8 DEF TakeAnswer
<1>9. ASSUME NEW r \in Receivers, manage_subscription_response(r) PROVE TypeOK'
  BY <1>9 DEF manage_subscription_response, set_request_status
<1>10. ASSUME NEW m \in Answers, Answer(m) PROVE TypeOK'
  BY <1>10 DEF Answer
<1>11. CASE clear
  BY <1>11 DEF clear
<1>12. CASE UNCHANGED vars
  BY <1>12 DEF vars
<1> QED
  BY <1>1, <1>2, <1>3, <1>4, <1>5, <1>6, <1>7, <1>8, <1>9, <1>10, <1>11, <1>12
     DEF Next, Proceed

\* Every variable keeps its type, whatever the threads, the RIC and clear() do.
THEOREM TypeCorrect == Spec => []TypeOK
<1>1. Init => TypeOK
  BY HandlerAssumption DEF Init, TypeOK, Statuses, Results
<1> QED
  BY <1>1, TypeStep, PTL DEF Spec


--------------------------------------------------------------------------------
(* The inductive invariant *)

\* Each step keeps the invariant: the entry a caller inserted is safe in the gap because
\* nobody else can insert over it, delete it, or receive an answer for a request that has
\* not been transmitted; and inside the long section because the mutex is held.
LEMMA InvariantStep == IInv /\ [Next]_vars => IInv'
<1> SUFFICES ASSUME IInv, [Next]_vars PROVE IInv'
  OBVIOUS
<1> USE HandlerAssumption DEF IInv
<1>t. TypeOK'
  BY TypeStep
<1>1. ASSUME NEW c \in Callers, NEW id \in Ids, Insert(c, id) PROVE IInv'
  <2>1. LockHeld'
    BY <1>1 DEF TypeOK, LockHeld, Working, Holding, is_request_entry, tables, ric, Insert, Call, add_request_entry
  <2>2. OneOwnerPerId'
    BY <1>1 DEF TypeOK, OneOwnerPerId, LockHeld, TablesAgree, OneAnswerPerId, Working, Holding, is_request_entry, tables, ric, Insert, Call, add_request_entry
  <2>3. TablesAgree'
    BY <1>1 DEF TypeOK, TablesAgree, OneOwnerPerId, OneAnswerPerId, LockHeld, Working, Holding, is_request_entry, tables, ric, Insert, Call, add_request_entry
  <2>4. OneAnswerPerId'
    BY <1>1 DEF TypeOK, OneAnswerPerId, OneOwnerPerId, TablesAgree, Resolved, Working, is_request_entry, tables, ric, Insert, Call, add_request_entry, Answers
  <2> QED
    BY <1>t, <2>1, <2>2, <2>3, <2>4
<1>2. ASSUME NEW c \in Callers, NEW id \in Ids, Duplicate(c, id) PROVE IInv'
  <2>1. LockHeld'
    BY <1>2 DEF TypeOK, LockHeld, Working, Holding, is_request_entry, tables, ric, Duplicate, Call, Return
  <2>2. OneOwnerPerId'
    BY <1>2 DEF TypeOK, OneOwnerPerId, LockHeld, TablesAgree, OneAnswerPerId, Working, Holding, is_request_entry, tables, ric, Duplicate, Call, Return
  <2>3. TablesAgree'
    BY <1>2 DEF TypeOK, TablesAgree, OneOwnerPerId, OneAnswerPerId, LockHeld, Working, Holding, is_request_entry, tables, ric, Duplicate, Call, Return
  <2>4. OneAnswerPerId'
    BY <1>2 DEF TypeOK, OneAnswerPerId, OneOwnerPerId, TablesAgree, Resolved, Working, is_request_entry, tables, ric, Duplicate, Call, Return, Answers
  <2> QED
    BY <1>t, <2>1, <2>2, <2>3, <2>4
<1>3. ASSUME NEW c \in Callers, Lock(c) PROVE IInv'
  <2>1. LockHeld'
    BY <1>3 DEF TypeOK, LockHeld, Working, Holding, is_request_entry, tables, ric, Lock
  <2>2. OneOwnerPerId'
    BY <1>3 DEF TypeOK, OneOwnerPerId, LockHeld, TablesAgree, OneAnswerPerId, Working, Holding, is_request_entry, tables, ric, Lock
  <2>3. TablesAgree'
    BY <1>3 DEF TypeOK, TablesAgree, OneOwnerPerId, OneAnswerPerId, LockHeld, Working, Holding, is_request_entry, tables, ric, Lock
  <2>4. OneAnswerPerId'
    BY <1>3 DEF TypeOK, OneAnswerPerId, OneOwnerPerId, TablesAgree, Resolved, Working, is_request_entry, tables, ric, Lock, Answers
  <2> QED
    BY <1>t, <2>1, <2>2, <2>3, <2>4
<1>4. ASSUME NEW c \in Callers, TransmitOK(c) PROVE IInv'
  <2>1. LockHeld'
    BY <1>4 DEF TypeOK, LockHeld, Working, Holding, is_request_entry, tables, ric, TransmitOK
  <2>2. OneOwnerPerId'
    BY <1>4 DEF TypeOK, OneOwnerPerId, LockHeld, TablesAgree, OneAnswerPerId, Working, Holding, is_request_entry, tables, ric, TransmitOK
  <2>3. TablesAgree'
    BY <1>4 DEF TypeOK, TablesAgree, OneOwnerPerId, OneAnswerPerId, LockHeld, Working, Holding, is_request_entry, tables, ric, TransmitOK
  <2>4. OneAnswerPerId'
    BY <1>4 DEF TypeOK, OneAnswerPerId, OneOwnerPerId, TablesAgree, Resolved, Working, is_request_entry, tables, ric, TransmitOK, Answers
  <2> QED
    BY <1>t, <2>1, <2>2, <2>3, <2>4
<1>5. ASSUME NEW c \in Callers, TransmitFail(c) PROVE IInv'
  <2>1. LockHeld'
    BY <1>5 DEF TypeOK, LockHeld, Working, Holding, is_request_entry, tables, ric, TransmitFail
  <2>2. OneOwnerPerId'
    BY <1>5 DEF TypeOK, OneOwnerPerId, LockHeld, TablesAgree, OneAnswerPerId, Working, Holding, is_request_entry, tables, ric, TransmitFail
  <2>3. TablesAgree'
    BY <1>5 DEF TypeOK, TablesAgree, OneOwnerPerId, OneAnswerPerId, LockHeld, Working, Holding, is_request_entry, tables, ric, TransmitFail
  <2>4. OneAnswerPerId'
    BY <1>5 DEF TypeOK, OneAnswerPerId, OneOwnerPerId, TablesAgree, Resolved, Working, is_request_entry, tables, ric, TransmitFail, Answers
  <2> QED
    BY <1>t, <2>1, <2>2, <2>3, <2>4
<1>6. ASSUME NEW c \in Callers, Commit(c) PROVE IInv'
  <2>1. LockHeld'
    BY <1>6 DEF TypeOK, LockHeld, Working, Holding, is_request_entry, tables, ric, Commit, add_transmitter_entry, Return
  <2>2. OneOwnerPerId'
    BY <1>6 DEF TypeOK, OneOwnerPerId, LockHeld, TablesAgree, OneAnswerPerId, Working, Holding, is_request_entry, tables, ric, Commit, add_transmitter_entry, Return
  <2>3. TablesAgree'
    BY <1>6 DEF TypeOK, TablesAgree, OneOwnerPerId, OneAnswerPerId, LockHeld, Working, Holding, is_request_entry, tables, ric, Commit, add_transmitter_entry, Return
  <2>4. OneAnswerPerId'
    BY <1>6 DEF TypeOK, OneAnswerPerId, OneOwnerPerId, TablesAgree, Resolved, Working, is_request_entry, tables, ric, Commit, add_transmitter_entry, Return, Answers
  <2> QED
    BY <1>t, <2>1, <2>2, <2>3, <2>4
<1>7. ASSUME NEW c \in Callers, Rollback(c) PROVE IInv'
  <2>1. LockHeld'
    BY <1>7 DEF TypeOK, LockHeld, Working, Holding, is_request_entry, tables, ric, Rollback, Return, delete_request_entry
  <2>2. OneOwnerPerId'
    BY <1>7 DEF TypeOK, OneOwnerPerId, LockHeld, TablesAgree, OneAnswerPerId, Working, Holding, is_request_entry, tables, ric, Rollback, Return, delete_request_entry
  <2>3. TablesAgree'
    BY <1>7 DEF TypeOK, TablesAgree, OneOwnerPerId, OneAnswerPerId, LockHeld, Working, Holding, is_request_entry, tables, ric, Rollback, Return, delete_request_entry
  <2>4. OneAnswerPerId'
    BY <1>7 DEF TypeOK, OneAnswerPerId, OneOwnerPerId, TablesAgree, Resolved, Working, is_request_entry, tables, ric, Rollback, Return, delete_request_entry, Answers
  <2> QED
    BY <1>t, <2>1, <2>2, <2>3, <2>4
<1>8. ASSUME NEW r \in Receivers, TakeAnswer(r) PROVE IInv'
  <2>1. LockHeld'
    BY <1>8 DEF TypeOK, LockHeld, Working, Holding, is_request_entry, tables, ric, TakeAnswer
  <2>2. OneOwnerPerId'
    BY <1>8 DEF TypeOK, OneOwnerPerId, LockHeld, TablesAgree, OneAnswerPerId, Working, Holding, is_request_entry, tables, ric, TakeAnswer
  <2>3. TablesAgree'
    BY <1>8 DEF TypeOK, TablesAgree, OneOwnerPerId, OneAnswerPerId, LockHeld, Working, Holding, is_request_entry, tables, ric, TakeAnswer
  <2>4. OneAnswerPerId'
    BY <1>8 DEF TypeOK, OneAnswerPerId, OneOwnerPerId, TablesAgree, Resolved, Working, is_request_entry, tables, ric, TakeAnswer, Answers
  <2> QED
    BY <1>t, <2>1, <2>2, <2>3, <2>4
<1>9. ASSUME NEW r \in Receivers, manage_subscription_response(r) PROVE IInv'
  <2>1. LockHeld'
    BY <1>9 DEF TypeOK, LockHeld, Working, Holding, is_request_entry, tables, ric, manage_subscription_response, set_request_status
  <2>2. OneOwnerPerId'
    BY <1>9 DEF TypeOK, OneOwnerPerId, LockHeld, TablesAgree, OneAnswerPerId, Working, Holding, is_request_entry, tables, ric, manage_subscription_response, set_request_status
  <2>3. TablesAgree'
    BY <1>9 DEF TypeOK, TablesAgree, OneOwnerPerId, OneAnswerPerId, LockHeld, Working, Holding, is_request_entry, tables, ric, manage_subscription_response, set_request_status
  <2>4. OneAnswerPerId'
    BY <1>9 DEF TypeOK, OneAnswerPerId, OneOwnerPerId, TablesAgree, Resolved, Working, is_request_entry, tables, ric, manage_subscription_response, set_request_status, Answers
  <2> QED
    BY <1>t, <2>1, <2>2, <2>3, <2>4
<1>10. ASSUME NEW m \in Answers, Answer(m) PROVE IInv'
  <2>1. LockHeld'
    BY <1>10 DEF TypeOK, LockHeld, Working, Holding, is_request_entry, tables, ric, Answer
  <2>2. OneOwnerPerId'
    BY <1>10 DEF TypeOK, OneOwnerPerId, LockHeld, TablesAgree, OneAnswerPerId, Working, Holding, is_request_entry, tables, ric, Answer
  <2>3. TablesAgree'
    BY <1>10 DEF TypeOK, TablesAgree, OneOwnerPerId, OneAnswerPerId, LockHeld, Working, Holding, is_request_entry, tables, ric, Answer
  <2>4. OneAnswerPerId'
    BY <1>10 DEF TypeOK, OneAnswerPerId, OneOwnerPerId, TablesAgree, Resolved, Working, is_request_entry, tables, ric, Answer, Answers
  <2> QED
    BY <1>t, <2>1, <2>2, <2>3, <2>4
<1>11. CASE clear
  <2>1. LockHeld'
    BY <1>11 DEF TypeOK, LockHeld, Working, Holding, is_request_entry, tables, ric, clear
  <2>2. OneOwnerPerId'
    BY <1>11 DEF TypeOK, OneOwnerPerId, LockHeld, TablesAgree, OneAnswerPerId, Working, Holding, is_request_entry, tables, ric, clear
  <2>3. TablesAgree'
    BY <1>11 DEF TypeOK, TablesAgree, OneOwnerPerId, OneAnswerPerId, LockHeld, Working, Holding, is_request_entry, tables, ric, clear
  <2>4. OneAnswerPerId'
    BY <1>11 DEF TypeOK, OneAnswerPerId, OneOwnerPerId, TablesAgree, Resolved, Working, is_request_entry, tables, ric, clear, Answers
  <2> QED
    BY <1>t, <2>1, <2>2, <2>3, <2>4
<1>12. CASE UNCHANGED vars
  <2>1. LockHeld'
    BY <1>12 DEF TypeOK, LockHeld, Working, Holding, is_request_entry, tables, ric, vars
  <2>2. OneOwnerPerId'
    BY <1>12 DEF TypeOK, OneOwnerPerId, LockHeld, TablesAgree, OneAnswerPerId, Working, Holding, is_request_entry, tables, ric, vars
  <2>3. TablesAgree'
    BY <1>12 DEF TypeOK, TablesAgree, OneOwnerPerId, OneAnswerPerId, LockHeld, Working, Holding, is_request_entry, tables, ric, vars
  <2>4. OneAnswerPerId'
    BY <1>12 DEF TypeOK, OneAnswerPerId, OneOwnerPerId, TablesAgree, Resolved, Working, is_request_entry, tables, ric, vars, Answers
  <2> QED
    BY <1>t, <2>1, <2>2, <2>3, <2>4
<1> QED
  BY <1>1, <1>2, <1>3, <1>4, <1>5, <1>6, <1>7, <1>8, <1>9, <1>10, <1>11, <1>12 DEF Next, Proceed

\* The inductive invariant holds in every reachable state.
THEOREM Invariance == Spec => []IInv
<1>1. Init => IInv
  BY HandlerAssumption
     DEF Init, IInv, TypeOK, LockHeld, OneOwnerPerId, TablesAgree, OneAnswerPerId, Statuses,
         Results, Working, Holding, Resolved, is_request_entry
<1> QED
  BY <1>1, InvariantStep, PTL DEF Spec

\* The mutex names exactly the caller whose transmitter is running.
THEOREM MutualExclusion == Spec => []LockHeld
BY Invariance, PTL DEF IInv

\* Until clear() is called, no other caller touches the entry a caller has inserted.
THEOREM Ownership == Spec => []OneOwnerPerId
BY Invariance, PTL DEF IInv

\* Until clear() is called, the status table and the transmitter table agree.
THEOREM TablesConsistent == Spec => []TablesAgree
BY Invariance, PTL DEF IInv

--------------------------------------------------------------------------------
(* Refinement *)

\* Changing the entry of one id moves the stage of that id alone.
LEMMA MoveOne ==
  ASSUME NEW id \in Ids, \A i \in Ids \ {id} : Stage(i)' = Stage(i)
  PROVE  Stages' = [Stages EXCEPT ![id] = Stage(id)']
BY DEF Stages

\* A step that leaves the status table, the transmissions and clear() alone is a stutter,
\* and after clear() every step is.
LEMMA Stutter ==
  ASSUME TypeOK, \/ UNCHANGED <<status_table, transmitted, clears>>
                 \/ clears > 0 /\ UNCHANGED clears
  PROVE  UNCHANGED Stages
BY DEF Stages, Stage, TypeOK

\* Every step of the handler is a step of the lifecycle or a stutter.
LEMMA RefinementStep == IInv /\ [Next]_vars => [Lifecycle!Next]_Stages
<1> SUFFICES ASSUME IInv, [Next]_vars PROVE Lifecycle!Next \/ UNCHANGED Stages
  OBVIOUS
<1>0. TypeOK /\ TypeOK'
  BY TypeStep DEF IInv
<1>1. CASE clears > 0 /\ UNCHANGED clears
  BY <1>0, <1>1, Stutter
<1>2. CASE clear
  <2>1. clears' > 0
    BY <1>0, <1>2 DEF clear, TypeOK
  <2> QED
    BY <2>1 DEF Lifecycle!Next, Lifecycle!Forget, Stages, Stage
<1>3. ASSUME clears = 0, clears' = 0, NEW c \in Callers, NEW id \in Ids, Insert(c, id)
      PROVE  Lifecycle!Next
  <2>1. Stage(id) = "absent" /\ Stage(id)' = "registered"
    BY <1>0, <1>3 DEF Insert, Call, add_request_entry, is_request_entry, Stage, TypeOK, IInv,
                      OneAnswerPerId, ric
  <2>2. \A i \in Ids \ {id} : Stage(i)' = Stage(i)
    BY <1>0, <1>3 DEF Insert, add_request_entry, Stage, TypeOK, ric
  <2> QED
    BY <2>1, <2>2, MoveOne DEF Lifecycle!Next, Lifecycle!Register, Lifecycle!Move, Stages
<1>4. ASSUME clears = 0, clears' = 0, NEW c \in Callers, TransmitOK(c)
      PROVE  Lifecycle!Next
  <2> PICK id \in Ids : req[c] = id
    BY <1>0 DEF TypeOK
  <2>1. Stage(id) = "registered" /\ Stage(id)' = "sent"
    BY <1>0, <1>4 DEF TransmitOK, Stage, TypeOK, IInv, OneOwnerPerId, Working, tables
  <2>2. \A i \in Ids \ {id} : Stage(i)' = Stage(i)
    BY <1>0, <1>4 DEF TransmitOK, Stage, TypeOK, tables
  <2> QED
    BY <2>1, <2>2, MoveOne DEF Lifecycle!Next, Lifecycle!Send, Lifecycle!Move, Stages
<1>5. ASSUME clears = 0, clears' = 0, NEW c \in Callers, Rollback(c)
      PROVE  Lifecycle!Next
  <2> PICK id \in Ids : req[c] = id
    BY <1>0 DEF TypeOK
  <2>1. Stage(id) = "registered" /\ Stage(id)' = "absent"
    BY <1>0, <1>5 DEF Rollback, delete_request_entry, Stage, TypeOK, IInv, OneOwnerPerId, Working
  <2>2. \A i \in Ids \ {id} : Stage(i)' = Stage(i)
    BY <1>0, <1>5 DEF Rollback, delete_request_entry, Stage, TypeOK, ric
  <2> QED
    BY <2>1, <2>2, MoveOne DEF Lifecycle!Next, Lifecycle!Withdraw, Lifecycle!Move, Stages
<1>6. ASSUME clears = 0, clears' = 0, NEW r \in Receivers, manage_subscription_response(r)
      PROVE  Lifecycle!Next
  <2> PICK id \in Ids : current[r].id = id
    BY <1>0, <1>6 DEF TypeOK, Answers, manage_subscription_response
  <2>1. Stage(id) = "sent" /\ Stage(id)' \in {"accepted", "refused"}
    BY <1>0, <1>6 DEF manage_subscription_response, set_request_status, is_request_entry, Stage,
                      TypeOK, IInv, OneAnswerPerId, Resolved, Statuses, Answers, ric
  <2>2. \A i \in Ids \ {id} : Stage(i)' = Stage(i)
    BY <1>0, <1>6 DEF manage_subscription_response, set_request_status, Stage, TypeOK, ric
  <2> QED
    BY <2>1, <2>2, MoveOne
       DEF Lifecycle!Next, Lifecycle!Accept, Lifecycle!Refuse, Lifecycle!Move, Stages
<1>7. CASE UNCHANGED <<status_table, transmitted, clears>>
  BY <1>0, <1>7, Stutter
<1>8. CASE clears = 0
  <2> USE <1>8 DEF tables, ric
  <2>1. ASSUME NEW c \in Callers, NEW id \in Ids, Insert(c, id) \/ Duplicate(c, id)
        PROVE  Lifecycle!Next \/ UNCHANGED Stages
    BY <2>1, <1>3, <1>7 DEF Insert, Duplicate, Call
  <2>2. ASSUME NEW c \in Callers, Proceed(c) PROVE Lifecycle!Next \/ UNCHANGED Stages
    BY <2>2, <1>4, <1>5, <1>7 DEF Proceed, Lock, TransmitOK, TransmitFail, Commit, add_transmitter_entry, Rollback
  <2>3. ASSUME NEW r \in Receivers, TakeAnswer(r) \/ manage_subscription_response(r)
        PROVE  Lifecycle!Next \/ UNCHANGED Stages
    BY <2>3, <1>6, <1>7 DEF TakeAnswer, manage_subscription_response
  <2>4. ASSUME NEW m \in Answers, Answer(m) PROVE Lifecycle!Next \/ UNCHANGED Stages
    BY <2>4, <1>7 DEF Answer
  <2>5. CASE UNCHANGED vars
    BY <2>5, <1>7 DEF vars
  <2> QED
    BY <1>2, <2>1, <2>2, <2>3, <2>4, <2>5 DEF Next
<1>9. CASE clears # 0
  <2>1. clears > 0
    BY <1>0, <1>9 DEF TypeOK
  <2>2. CASE UNCHANGED clears
    BY <1>1, <2>1, <2>2
  <2>3. UNCHANGED clears \/ clear
    BY DEF Next, Proceed, Insert, Duplicate, Call, Lock, TransmitOK, TransmitFail, Commit, add_transmitter_entry, Rollback,
           TakeAnswer, manage_subscription_response, Answer, vars
  <2> QED
    BY <1>2, <2>2, <2>3
<1> QED
  BY <1>8, <1>9

\* The handler implements the lifecycle its callers rely on.
THEOREM Refinement == Spec => ImplementsLifecycle
<1>1. Init => Lifecycle!Init
  BY HandlerAssumption DEF Init, Lifecycle!Init, Stages, Stage
<1> QED
  BY <1>1, RefinementStep, Invariance, PTL DEF Spec, ImplementsLifecycle, Lifecycle!Spec
================================================================================

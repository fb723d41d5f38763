---------------------------- MODULE PowderRunProofs ----------------------------
(***************************************************************************)
(* Proofs about PowderRun for any number of login attempts: type           *)
(* correctness, no login before the experiment is ready, what the exit     *)
(* codes tell, and that only the waiting is without a bound.               *)
(***************************************************************************)
EXTENDS PowderRun, TLAPS

\* The status is READY exactly when the last call said so, and only a script that has the
\* address of a ready experiment gets to its steps.
Progress ==
  /\ status = "READY" <=> heard = "ready"
  /\ pc \in {"start", "first"} => status = "NOT_STARTED"
  /\ service = "none" => pc \in {"start", "returned", "exited"} /\ status # "READY"
  /\ pc = "manifests" => status = "READY"
  /\ pc \in {"start", "first", "poll", "manifests", "returned"} => done = 0 /\ retry_count = 0
  /\ pc = "ssh" => program = "run_profile_example" /\ status = "READY" /\ ipv4 = "address" /\ retry_count < MaxAttempts

IInv == TypeOK /\ Progress /\ HostNeedsReady /\ ExitTells

\* The script has seven steps.
LEMMA ScriptLength == Len(Script) = 7
BY DEF Script

\* The invariant holds initially, and every step of portal and process keeps it.
LEMMA Inductive == (Init => IInv) /\ (IInv /\ [Next]_vars => IInv')
<1>1. ASSUME Init PROVE IInv
  BY <1>1, PowderAssumption, ScriptLength
     DEF Init, IInv, TypeOK, Progress, HostNeedsReady, ExitTells, Reports
<1>2. ASSUME IInv, [Next]_vars PROVE IInv'
  <2> USE <1>2, PowderAssumption, ScriptLength
      DEF IInv, TypeOK, Progress, HostNeedsReady, ExitTells, Reports, experiment, ssh, Exit
  <2>1. ASSUME NEW to \in Reports, Proceed(to) PROVE IInv'
    BY <2>1 DEF Proceed
  <2>2. CASE StartExperiment
    BY <2>2 DEF StartExperiment
  <2>3. ASSUME HearStatus, UNCHANGED <<program, env, service, ssh>>,
               pc = "first" \/ (pc = "poll" /\ Waits(status))
        PROVE  IInv'
    <3>1. service \in Reports
      BY <2>3
    <3>2. /\ status' \in {"NOT_STARTED", "PROVISIONING", "PROVISIONED", "READY", "FAILED"}
          /\ status' = "READY" <=> service = "ready"
      BY <2>3, <3>1 DEF HearStatus, Understood, Waits
    <3> QED
      BY <2>3, <3>1, <3>2 DEF HearStatus
  <2>4. CASE FirstStatus
    BY <2>3, <2>4 DEF FirstStatus, StatusFails
  <2>5. CASE Poll
    BY <2>3, <2>5 DEF Poll, StatusFails, Waits
  <2>6. CASE GetManifests
    BY <2>6 DEF GetManifests
  <2>7. CASE Finish
    <3>1. TypeOK'
      BY <2>7 DEF Finish, Reachable
    <3>2. /\ pc = "returned" /\ pc' \in {"ssh", "exited"}
          /\ pc' = "ssh" =>
               program = "run_profile_example" /\ status = "READY" /\ ipv4 = "address"
          /\ UNCHANGED <<program, service, experiment, ssh>>
      BY <2>7 DEF Finish, Reachable
    <3>3. Progress'
      BY <3>2, 0 < MaxAttempts
    <3>4. HostNeedsReady' /\ ExitTells'
      BY <2>7 DEF Finish, Reachable
    <3> QED
      BY <3>1, <3>3, <3>4
  <2>8. CASE Open
    BY <2>8 DEF Open, At
  <2>9. CASE Command
    <3>1. answered' \in BOOLEAN
      BY <2>9, Zenon DEF Command
    <3>2. TypeOK'
      BY <2>9, <3>1 DEF Command, At
    <3> QED
      BY <2>9, <3>2 DEF Command, At
  <2>10. CASE Close
    BY <2>10 DEF Close, At
  <2>11. CASE Succeed
    BY <2>11 DEF Succeed
  <2>12. CASE UNCHANGED vars
    BY <2>12 DEF vars
  <2> QED
    BY <2>1, <2>2, <2>4, <2>5, <2>6, <2>7, <2>8, <2>9, <2>10, <2>11, <2>12 DEF Next, Process
<1> QED
  BY <1>1, <1>2

LEMMA Invariance == Spec => []IInv
BY Inductive, PTL DEF Spec

\* The variables of the run keep their types; a login is tried MaxAttempts times at most.
THEOREM TypeCorrect == Spec => []TypeOK
<1>1. IInv => TypeOK
  BY DEF IInv
<1> QED
  BY <1>1, Invariance, PTL

\* No host is touched before the portal said that the experiment is ready and gave its
\* address.
THEOREM HostNeedsReadyHolds == Spec => []HostNeedsReady
<1>1. IInv => HostNeedsReady
  BY DEF IInv
<1> QED
  BY <1>1, Invariance, PTL

\* What a caller may conclude from the exit code, for any number of attempts.
THEOREM ExitTellsHolds == Spec => []ExitTells
<1>1. IInv => ExitTells
  BY DEF IInv
<1> QED
  BY <1>1, Invariance, PTL

--------------------------------------------------------------------------------
(* How many steps are left *)

\* Attempts are counted while a login is tried, and only then.
Attempting ==
  pc = "ssh" /\ retry_count > 0 => done < Len(Script) /\ Script[done + 1] = "open"

LEMMA AttemptingStep == IInv /\ Attempting /\ [Next]_vars => Attempting'
<1> SUFFICES ASSUME IInv, Attempting, [Next]_vars PROVE Attempting'
  OBVIOUS
<1> USE ScriptLength DEF Attempting, ssh
<1>1. ASSUME NEW to \in Reports, Proceed(to) PROVE Attempting'
  BY <1>1 DEF Proceed
<1>2. CASE StartExperiment \/ FirstStatus \/ Poll \/ GetManifests
  BY <1>2 DEF StartExperiment, FirstStatus, Poll, GetManifests, HearStatus, Exit
<1>3. CASE Finish
  BY <1>3 DEF Finish, IInv, Progress, TypeOK
<1>4. CASE Open
  BY <1>4 DEF Open, At, Exit
<1>5. CASE Command \/ Close
  BY <1>5 DEF Command, Close, At, IInv, TypeOK
<1>6. CASE Succeed
  BY <1>6 DEF Succeed, Exit
<1>7. CASE UNCHANGED vars
  BY <1>7 DEF vars
<1> QED
  BY <1>1, <1>2, <1>3, <1>4, <1>5, <1>6, <1>7 DEF Next, Process

\* The attempts that are left over all steps of the script to come.
AttemptsLeft == (Len(Script) - done) * MaxAttempts - retry_count

LEMMA AttemptsAreLeft ==
  IInv /\ Attempting /\ pc # "exited" => AttemptsLeft \in Nat
<1> SUFFICES ASSUME IInv, Attempting, pc # "exited" PROVE AttemptsLeft \in Nat
  OBVIOUS
<1>1. MaxAttempts \in Nat /\ MaxAttempts > 0 /\ retry_count \in 0..MaxAttempts /\ done \in 0..7
  BY PowderAssumption, ScriptLength DEF IInv, TypeOK
<1>2. done < 7 \/ retry_count = 0
  BY <1>1, ScriptLength DEF Attempting, IInv, Progress, TypeOK
<1>3. (7 - done) * MaxAttempts \in Nat /\ (done < 7 => (7 - done) * MaxAttempts >= MaxAttempts)
  <2>1. done \in {0, 1, 2, 3, 4, 5, 6, 7}
    BY <1>1
  <2> QED
    BY <1>1, <2>1
<1> QED
  BY <1>1, <1>2, <1>3, ScriptLength DEF AttemptsLeft

LEMMA AttemptsAreLeftNext == (IInv /\ Attempting /\ pc # "exited" => AttemptsLeft \in Nat)'
BY AttemptsAreLeft, PTL

\* A step of the script that is behind leaves fewer attempts.
LEMMA StepBehind ==
  ASSUME IInv, Attempting, pc = "ssh", done < Len(Script), done' = done + 1, retry_count' \in {0, retry_count}
  PROVE  AttemptsLeft' < AttemptsLeft
<1>1. /\ MaxAttempts \in Nat /\ done \in 0..6 /\ retry_count \in Nat /\ retry_count < MaxAttempts
  BY PowderAssumption, ScriptLength DEF IInv, TypeOK, Progress
<1>2. (7 - done) * MaxAttempts \in Nat
  <2>1. done \in {0, 1, 2, 3, 4, 5, 6}
    BY <1>1
  <2> QED
    BY <1>1, <2>1
<1>3. (7 - (done + 1)) * MaxAttempts = (7 - done) * MaxAttempts - MaxAttempts
  <2>1. done \in {0, 1, 2, 3, 4, 5, 6}
    BY <1>1
  <2> QED
    BY <1>1, <2>1
<1>4. AttemptsLeft = (7 - done) * MaxAttempts - retry_count
  BY ScriptLength DEF AttemptsLeft
<1>5. AttemptsLeft' = (7 - (done + 1)) * MaxAttempts - retry_count'
  BY ScriptLength DEF AttemptsLeft
<1>6. retry_count' \in Nat
  BY <1>1
<1>7. PICK n \in Nat : n = (7 - done) * MaxAttempts
  BY <1>2
<1> HIDE DEF AttemptsLeft
<1>8. AttemptsLeft = n - retry_count
  BY <1>4, <1>7
<1>9. AttemptsLeft' = (n - MaxAttempts) - retry_count'
  BY <1>3, <1>5, <1>7
<1>10. ASSUME NEW a \in Nat, NEW m \in Nat, NEW r \in Nat, NEW q \in Nat, r < m
       PROVE  (a - m) - q < a - r
  BY <1>10
<1> QED
  BY <1>1, <1>6, <1>7, <1>8, <1>9, <1>10

\* The places of a process that has not exited, in the order it comes to them.
Before ==
  [start |-> 7, first |-> 6, poll |-> IF status \in {"PROVISIONING", "PROVISIONED"} THEN 5 ELSE 3,
   manifests |-> 4, returned |-> 2, ssh |-> 1][pc]

LEMMA StepsLeftIs ==
  StepsLeft = IF pc = "exited" THEN 0 ELSE Before + AttemptsLeft
BY DEF StepsLeft, Before, AttemptsLeft

LEMMA BeforeIs ==
  IInv /\ pc # "exited" =>
         /\ Before \in 1..7
         /\ pc = "start" => Before = 7
         /\ pc = "first" => Before = 6
         /\ pc = "poll" => Before = IF status \in {"PROVISIONING", "PROVISIONED"} THEN 5 ELSE 3
         /\ pc = "manifests" => Before = 4
         /\ pc = "returned" => Before = 2
         /\ pc = "ssh" => Before = 1
BY DEF Before, IInv, TypeOK

\* One step of the process, in any reachable state.
LEMMA ProcessStep ==
  ASSUME IInv, Attempting, Process, IInv', Attempting'
  PROVE  \/ StepsLeft \in Nat /\ StepsLeft' \in Nat /\ StepsLeft' < StepsLeft
         \/ pc = "poll" /\ pc' = "poll" /\ heard' \notin {"ready", "failed"}
<1>1. pc # "exited"
  BY DEF Process, StartExperiment, FirstStatus, Poll, GetManifests, Finish, Open, Command, Close, Succeed, At
<1>2. AttemptsLeft \in Nat /\ Before \in 1..7 /\ StepsLeft = Before + AttemptsLeft
  BY <1>1, AttemptsAreLeft, BeforeIs, StepsLeftIs
<1>a. pc' # "exited" => AttemptsLeft' \in Nat
  BY AttemptsAreLeftNext
<1>b. pc' # "exited" =>
        /\ Before' \in 1..7
        /\ pc' = "first" => Before' = 6
        /\ pc' = "poll" => Before' = IF status' \in {"PROVISIONING", "PROVISIONED"} THEN 5 ELSE 3
        /\ pc' = "manifests" => Before' = 4
        /\ pc' = "returned" => Before' = 2
        /\ pc' = "ssh" => Before' = 1
  BY DEF Before, IInv, TypeOK
<1>c. StepsLeft' = IF pc' = "exited" THEN 0 ELSE Before' + AttemptsLeft'
  BY DEF StepsLeft, Before, AttemptsLeft
<1>3. pc' # "exited" =>
        AttemptsLeft' \in Nat /\ Before' \in 1..7 /\ StepsLeft' = Before' + AttemptsLeft'
  BY <1>a, <1>b, <1>c
<1>4. CASE pc' = "exited"
  <2>1. StepsLeft' = 0
    BY <1>4, <1>c
  <2> QED
    BY <1>2, <2>1
<1>5. ASSUME pc' # "exited", AttemptsLeft' = AttemptsLeft, Before' < Before
      PROVE  StepsLeft \in Nat /\ StepsLeft' \in Nat /\ StepsLeft' < StepsLeft
  BY <1>2, <1>3, <1>5
<1>6. ASSUME pc' # "exited", pc = "ssh", pc' = "ssh", AttemptsLeft' < AttemptsLeft
      PROVE  StepsLeft \in Nat /\ StepsLeft' \in Nat /\ StepsLeft' < StepsLeft
  <2>1. Before = 1 /\ Before' = 1
    BY <1>6, <1>b, BeforeIs
  <2> QED
    BY <1>2, <1>3, <1>6, <2>1
<1>7. CASE pc' # "exited"
  <2>s. UNCHANGED ssh => AttemptsLeft' = AttemptsLeft
    BY DEF ssh, AttemptsLeft
  <2>1. CASE StartExperiment
    <3>1. Before = 7 /\ Before' < 7
      BY <1>7, <2>1, <1>b, BeforeIs DEF StartExperiment
    <3> QED
      BY <1>5, <1>7, <2>1, <2>s, <3>1 DEF StartExperiment
  <2>2. CASE FirstStatus
    <3>1. Before = 6 /\ Before' < 6
      BY <1>7, <2>2, <1>b, BeforeIs DEF FirstStatus, HearStatus, Exit
    <3> QED
      BY <1>5, <1>7, <2>2, <2>s, <3>1 DEF FirstStatus
  <2>3. CASE Poll
    <3>1. UNCHANGED ssh /\ pc = "poll" /\ pc' \in {"poll", "manifests", "returned"}
      BY <2>3 DEF Poll, HearStatus
    <3>2. CASE ~ Waits(status)
      <4>1. Before = 3 /\ Before' = 2
        BY <1>7, <2>3, <3>1, <3>2, <1>b, BeforeIs DEF Poll, Waits
      <4> QED
        BY <1>5, <1>7, <2>s, <3>1, <4>1
    <3>3. CASE Waits(status) /\ StatusFails /\ pc' = pc
      BY <3>1, <3>3 DEF StatusFails
    <3>4. CASE Waits(status) /\ HearStatus
      <4>1. Before = 5
        BY <3>1, <3>4, <1>1, <1>b, BeforeIs DEF Waits
      <4>2. CASE heard' \in {"ready", "failed"}
        <5>1. Before' < 5
          BY <1>7, <3>1, <3>4, <4>2, <1>b, BeforeIs DEF HearStatus, Understood
        <5> QED
          BY <1>5, <1>7, <2>s, <3>1, <4>1, <5>1
      <4>3. CASE heard' \notin {"ready", "failed"}
        <5>1. service \in Reports
          BY <3>1 DEF IInv, Progress, TypeOK
        <5>2. status' # "READY"
          BY <3>4, <4>3, <5>1 DEF HearStatus, Understood, Waits, Reports
        <5> QED
          BY <3>1, <3>4, <4>3, <5>2 DEF HearStatus
      <4> QED
        BY <4>2, <4>3
    <3> QED
      BY <2>3, <3>2, <3>3, <3>4 DEF Poll
  <2>4. CASE GetManifests
    <3>1. pc = "manifests" /\ pc' = "poll" /\ status' = "READY" /\ UNCHANGED ssh
      BY <1>7, <2>4 DEF GetManifests, Exit, IInv, Progress
    <3>2. Before = 4 /\ Before' = 3
      BY <1>1, <1>7, <3>1, <1>b, BeforeIs
    <3> QED
      BY <1>5, <1>7, <2>s, <3>1, <3>2
  <2>5. CASE Finish
    <3>1. Before = 2 /\ Before' = 1 /\ UNCHANGED ssh
      BY <1>1, <1>7, <2>5, <1>b, BeforeIs DEF Finish, Exit
    <3> QED
      BY <1>5, <1>7, <2>s, <3>1
  <2>6. CASE Open
    <3>1. CASE done' = done + 1 /\ retry_count' = 0
      BY <1>6, <1>7, <2>6, <3>1, StepBehind DEF Open, At, Exit
    <3>2. CASE done' = done /\ retry_count' = retry_count + 1
      <4>1. AttemptsLeft' = AttemptsLeft - 1
        <5>1. /\ retry_count \in Nat /\ MaxAttempts \in Nat /\ done \in {0, 1, 2, 3, 4, 5, 6, 7}
              /\ AttemptsLeft = (7 - done) * MaxAttempts - retry_count
          BY ScriptLength, PowderAssumption DEF AttemptsLeft, IInv, TypeOK
        <5>2. AttemptsLeft' = (7 - done) * MaxAttempts - (retry_count + 1)
          BY <3>2, ScriptLength DEF AttemptsLeft
        <5> QED
          BY <5>1, <5>2
      <4> QED
        BY <1>2, <1>6, <1>7, <2>6, <4>1 DEF Open, At, Exit
    <3> QED
      BY <1>7, <2>6, <3>1, <3>2 DEF Open, Exit
  <2>7. CASE Command \/ Close
    BY <1>6, <1>7, <2>7, StepBehind DEF Command, Close, At
  <2>8. CASE Succeed
    BY <1>7, <2>8 DEF Succeed, Exit
  <2> QED
    BY <2>1, <2>2, <2>3, <2>4, <2>5, <2>6, <2>7, <2>8 DEF Process
<1> QED
  BY <1>4, <1>7

\* Each step of the process leaves fewer to come, for any limit on the logins; only a call that
\* hears neither that the experiment is ready nor that it failed may be made without end.
THEOREM OnlyWaitingRepeatsHolds == Spec => OnlyWaitingRepeats
<1>1. Init => Attempting
  BY DEF Init, Attempting
<1>2. Spec => []Attempting
  BY <1>1, Invariance, AttemptingStep, PTL DEF Spec
<1> DEFINE OneStep ==
      Process =>
        \/ StepsLeft \in Nat /\ StepsLeft' \in Nat /\ StepsLeft' < StepsLeft
        \/ pc = "poll" /\ pc' = "poll" /\ heard' \notin {"ready", "failed"}
<1>3. IInv /\ Attempting /\ IInv' /\ Attempting' /\ [Next]_vars => [OneStep]_vars
  BY ProcessStep
<1> QED
  BY <1>2, <1>3, Invariance, PTL DEF Spec, OnlyWaitingRepeats
================================================================================

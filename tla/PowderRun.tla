------------------------------- MODULE PowderRun -------------------------------
(***************************************************************************)
(* Powder experiment control: start-profile.py starts an experiment on the *)
(* Powder platform and exits with how that went; run_profile_example.py    *)
(* then logs in to the experiment's host and runs commands there.          *)
(*                                                                         *)
(* External: the Powder portal, whose calls may fail at any time and which *)
(* moves the experiment on by itself, and the host behind ssh.  Log        *)
(* messages, names and the texts of the commands are left out; an uncaught *)
(* Python exception ends the process with exit code 1.                     *)
(***************************************************************************)
EXTENDS Naturals, Sequences

CONSTANT MaxAttempts   \* logins open() tries (ssh.py: 4)

ASSUME PowderAssumption == MaxAttempts \in Nat \ {0}

\* What the portal may say of an experiment; "other" is any text the code does not look for.
Reports == {"other", "provisioning", "provisioned", "ready", "failed"}

\* What run_profile_example.py does on the host.
Script == <<"open", "command", "close", "open", "command", "command", "close">>

VARIABLES
  program,     \* the script that runs
  env,         \* the environment variables the process finds
  service,     \* the experiment, as the portal knows it
  pc,          \* where the process is
  status,      \* PowderExperiment.status
  ipv4,        \* PowderExperiment.ipv4
  heard,       \* what the last status call told
  done,        \* the steps of Script that are behind
  retry_count, \* of open()
  answered,    \* whether every command so far saw its prompt again
  code         \* exit code

vars == <<program, env, service, pc, status, ipv4, heard, done, retry_count, answered, code>>

experiment == <<status, ipv4, heard>>
ssh == <<done, retry_count, answered>>

TypeOK ==
  /\ program \in {"start-profile", "run_profile_example"}
  /\ env \subseteq {"USER", "KEYPWORD"}
  /\ service \in Reports \cup {"none"}
  /\ pc \in {"start", "first", "poll", "manifests", "returned", "ssh", "exited"}
  /\ status \in {"NOT_STARTED", "PROVISIONING", "PROVISIONED", "READY", "FAILED"}
  /\ ipv4 \in {"None", "address"}
  /\ heard \in Reports \cup {"nothing", "rpc_failed"}
  /\ done \in 0..Len(Script) /\ retry_count \in 0..MaxAttempts
  /\ answered \in BOOLEAN
  /\ code \in 0..2

Init ==
  /\ program \in {"start-profile", "run_profile_example"} /\ env \in SUBSET {"USER", "KEYPWORD"}
  /\ service = "none" /\ pc = "start"
  /\ status = "NOT_STARTED" /\ ipv4 = "None" /\ heard = "nothing"
  /\ done = 0 /\ retry_count = 0 /\ answered = TRUE
  /\ code = 0

Exit(c) == pc' = "exited" /\ code' = c

--------------------------------------------------------------------------------
(* The portal *)

\* An experiment that was accepted goes on, and may fail or be taken down at any time.
Proceed(to) ==
  /\ \/ service \in {"other", "provisioning"} /\ to \in {"provisioning", "provisioned", "failed"}
     \/ service = "provisioned" /\ to \in {"ready", "failed"}
     \/ service = "ready" /\ to = "other"
  /\ service' = to
  /\ UNCHANGED <<program, env, pc, experiment, ssh, code>>

--------------------------------------------------------------------------------
(* start_and_wait *)

\* A call that failed may have started the experiment.
StartExperiment ==
  /\ pc = "start"
  /\ \/ pc' = "first" /\ UNCHANGED status /\ service' \in {"other", "provisioning"}
     \/ pc' = "returned" /\ status' = "FAILED" /\ service' \in {"none", "provisioning"}
  /\ UNCHANGED <<program, env, ipv4, heard, ssh, code>>

\* Mutant: a provisioned experiment counts as ready.
Understood_Early(report) ==
  CASE report \in {"ready", "provisioned"} -> "READY"
    [] report = "provisioning" -> "PROVISIONING"
    [] report = "failed" -> "FAILED"
    [] report = "other" -> status

Understood(report) ==
  CASE report = "ready" -> "READY"
    [] report = "provisioning" -> "PROVISIONING"
    [] report = "provisioned" -> "PROVISIONED"
    [] report = "failed" -> "FAILED"
    [] report = "other" -> status

\* Mutant: a failed experiment is waited for too.
Waits_Failed(st) == st \in {"PROVISIONING", "PROVISIONED", "FAILED"}

\* still_provisioning
Waits(st) == st \in {"PROVISIONING", "PROVISIONED"}

\* _get_status, up to the call for the manifests of a ready experiment.
HearStatus ==
  /\ heard' = service
  /\ status' = Understood(service)
  /\ pc' = IF status' = "READY" THEN "manifests" ELSE "poll"
  /\ UNCHANGED <<ipv4, code>>

StatusFails == heard' = "rpc_failed" /\ UNCHANGED <<status, ipv4>>

\* The attribute still_provisioning, read next, exists only after a status was heard.
FirstStatus ==
  /\ pc = "first"
  /\ HearStatus \/ (StatusFails /\ Exit(1))
  /\ UNCHANGED <<program, env, service, ssh>>

\* poll_count never grows: only the status ends the loop.
Poll ==
  /\ pc = "poll"
  /\ \/ Waits(status) /\ (HearStatus \/ (StatusFails /\ UNCHANGED <<pc, code>>))
     \/ ~Waits(status) /\ pc' = "returned" /\ UNCHANGED <<experiment, code>>
  /\ UNCHANGED <<program, env, service, ssh>>

\* _get_manifests and _parse_manifests: without manifests there is nothing to iterate over,
\* and a list of nodes has no client_id; an empty set of manifests leaves no address.
GetManifests ==
  /\ pc = "manifests"
  /\ \/ pc' = "poll" /\ ipv4' \in {ipv4, "address"} /\ UNCHANGED code
     \/ Exit(1) /\ ipv4' \in {ipv4, "address"}
  /\ UNCHANGED <<program, env, service, status, heard, ssh>>

--------------------------------------------------------------------------------
(* The scripts *)

Reachable == status = "READY" /\ ipv4 = "address"

\* Mutant: the host is tried whatever became of the experiment.
Finish_Anyway ==
  /\ pc = "returned"
  /\ IF program = "start-profile"
     THEN Exit(IF status = "READY" THEN 0 ELSE 1)
     ELSE pc' = "ssh" /\ UNCHANGED code
  /\ UNCHANGED <<program, env, service, experiment, ssh>>

\* start-profile.py exits; run_profile_example.py needs an address to go on, and a user.
Finish ==
  /\ pc = "returned"
  /\ \/ program = "start-profile" /\ Exit(IF status = "READY" THEN 0 ELSE 1)
     \/ program # "start-profile" /\ ~Reachable /\ Exit(2)
     \/ program # "start-profile" /\ Reachable /\ "USER" \in env /\ pc' = "ssh" /\ UNCHANGED code
     \/ program # "start-profile" /\ Reachable /\ "USER" \notin env /\ Exit(1)
  /\ UNCHANGED <<program, env, service, experiment, ssh>>

At(step) == pc = "ssh" /\ done < Len(Script) /\ Script[done + 1] = step

\* Mutant: one attempt more than the limit.
Open_OnceMore ==
  /\ At("open")
  /\ \/ done' = done + 1 /\ retry_count' = 0 /\ UNCHANGED <<pc, code>>
     \/ /\ retry_count' = retry_count + 1 /\ UNCHANGED done
        /\ IF retry_count' = MaxAttempts + 1 THEN Exit(1) ELSE UNCHANGED <<pc, code>>
     \/ "KEYPWORD" \notin env /\ Exit(1) /\ UNCHANGED <<done, retry_count>>
  /\ UNCHANGED <<program, env, service, experiment, answered>>

\* One attempt of open(): it logs in, it fails, or the passphrase of the key is wanted and
\* there is none.  "Last login" with the right address counts as a login even when the
\* session ends there.  The next session counts its attempts afresh.
Open ==
  /\ At("open")
  /\ \/ done' = done + 1 /\ retry_count' = 0 /\ UNCHANGED <<pc, code>>
     \/ /\ retry_count' = retry_count + 1 /\ UNCHANGED done
        /\ IF retry_count' = MaxAttempts THEN Exit(1) ELSE UNCHANGED <<pc, code>>
     \/ "KEYPWORD" \notin env /\ Exit(1) /\ UNCHANGED <<done, retry_count>>
  /\ UNCHANGED <<program, env, service, experiment, answered>>

\* command(): the prompt, the end of the session or a timeout; nobody looks which.
Command ==
  /\ At("command")
  /\ answered' \in {answered, FALSE}
  /\ done' = done + 1
  /\ UNCHANGED <<program, env, service, pc, experiment, retry_count, code>>

\* close(): what the host answers is not looked at either.
Close ==
  /\ At("close")
  /\ done' = done + 1
  /\ UNCHANGED <<program, env, service, pc, experiment, retry_count, answered, code>>

\* _start_powder_experiment returns nothing, which counts as success.
Succeed ==
  /\ pc = "ssh" /\ done = Len(Script)
  /\ Exit(0)
  /\ UNCHANGED <<program, env, service, experiment, ssh>>

--------------------------------------------------------------------------------
Process ==
  \/ StartExperiment \/ FirstStatus \/ Poll \/ GetManifests
  \/ Finish \/ Open \/ Command \/ Close \/ Succeed

Next == Process \/ \E to \in Reports : Proceed(to)

\* Every step of the process ends: pexpect has timeouts, and a call to the portal returns.
\* The experiment need not get anywhere.
Spec == Init /\ [][Next]_vars /\ WF_vars(Process)

--------------------------------------------------------------------------------
(* Properties *)

\* Nothing is tried on a host before the portal said that the experiment is ready and gave
\* the address, in this run.
HostNeedsReady ==
  done > 0 \/ retry_count > 0 =>
    program = "run_profile_example" /\ heard = "ready" /\ status = "READY" /\ ipv4 = "address"

\* What a caller may conclude from the exit code: with 0 the experiment was ready, and
\* run_profile_example.py went through all its steps; with 2 it did not touch a host; and
\* when it exits with 1 the experiment was ready, or the portal did not answer.
ExitTells ==
  pc = "exited" =>
    /\ code = 0 => heard = "ready" /\ (program = "run_profile_example" => done = Len(Script))
    /\ code = 2 => program = "run_profile_example" /\ done = 0 /\ retry_count = 0
    /\ code = 2 /\ heard = "ready" => ipv4 = "None"
    /\ code = 1 /\ program = "run_profile_example" => heard \in {"ready", "rpc_failed"}

\* A bound on the steps of the process still to come, calls that only wait aside.
StepsLeft ==
  LET waiting == status \in {"PROVISIONING", "PROVISIONED"}
      before  == [start |-> 7, first |-> 6, poll |-> IF waiting THEN 5 ELSE 3, manifests |-> 4,
                  returned |-> 2, ssh |-> 1]
  IN  IF pc = "exited" THEN 0 ELSE before[pc] + (Len(Script) - done) * MaxAttempts - retry_count

\* Every step of the process brings its end nearer, whatever portal and host do: the only one
\* that may be taken again and again is a call that hears neither success nor failure.
OnlyWaitingRepeats ==
  [][Process =>
       \/ StepsLeft \in Nat /\ StepsLeft' \in Nat /\ StepsLeft' < StepsLeft
       \/ pc = "poll" /\ pc' = "poll" /\ heard' \notin {"ready", "failed"}]_vars

\* The comment beside TEST_SUCCEEDED: all steps succeeded.
SucceededMeansAllSteps ==
  pc = "exited" /\ code = 0 /\ program = "run_profile_example" => answered

\* A run ends, unless the portal goes on for ever saying neither that the experiment is
\* ready nor that it failed: there is no other limit on the waiting.
RunEnds ==
  <>(pc = "exited") \/ <>[](pc = "poll" /\ heard \notin {"ready", "failed"})
================================================================================

# Formal models of the O-RAN SC integration-test tools

This directory holds TLA+ models of the programs in `it/test`: what they are, what is
checked about them with TLC, and what is proved with TLAPS. Paths are relative to the
repository; `Bouncer/` stands for `src/ric_benchmarking/Bouncer/src/` and `e2sim/` for
`src/ric_benchmarking/e2-interface/e2sim/`.

## 1. The system

The repository is a tool box for testing a near-real-time RIC. The programs in it with a logic
of their own are below; the rest is generated ASN.1 code, superseded copies, Ansible, charts
and Robot Framework scripts.

| Component | State it keeps | Operations | What is hard about it |
|---|---|---|---|
| **Bouncer xApp**, subscription handler (`Bouncer/xapp-mgmt/subs_mgmt.*`) | status table, transmitter table, one mutex | `manage_subscription_request`, `manage_subscription_response`, `clear` | the request takes the mutex twice, with a gap between; the second section sends while holding it; the answer races the commit |
| **Bouncer xApp**, start-up and messages (`b_xapp_main.cc`, `xapp.cc`, `xapp-utils/`, `msgs_proc.cc`) | gNB list, send and receive buffers, RMR's queue | subscribe to each gNB with retries, start the receiver, record answers, bounce indications | answers before the receiver exists; retries on a buffer RMR took away; one bad message ends the receiver; results not looked at; the wait for RMR has no limit, and a flawed configuration aborts |
| **E2 simulator** for benchmarking (`e2sim/src`, `kpm_callbacks.cpp`) | one `E2Sim` object, one global `client_fd`, one `struct args`, for N threads | connect, E2 setup, receive and dispatch, KPM subscription callback, report loop | N instances share the descriptor, the callbacks and the PLMN id; the report runs in the receiving thread and swallows messages; `exit(1)` in a thread ends all, also for an answer that cannot be encoded |
| **E2/RIC simulators** (`src/simulators/e2sim`) | one socket | setup handshake, subscription, endless indications | the report never gives the socket back; any failed call ends the process |
| **Workload generators** (`src/simulators/workload_generators/e2e_testing`) | arrays of time stamps and latencies, a sequence number | `wg_setup`, generator and receiver, in one thread or two | unsynchronised arrays used round and round, stamp stored after the send |
| **Powder control** (`src/XTesting/powder-control`) | experiment status and address, ssh session | start and poll, log in, run commands | poll limit that never counts; results not looked at |
| **Robot xApp** (`src/ric_robot_suite/xapp`) | policies in the store, counters | create and delete A1 policies | one goroutine per message; a deletion is two calls to the store |

They interact through the RIC: the RIC forwards the Bouncer's subscription requests to the E2
simulators, their indications to the Bouncer, and its control requests back to them. The RIC
itself (E2 termination, RMR, A1, the store) is not in the repository and is modelled as the
environment: it may do anything its protocol allows, at any time.

What makes each component correct:

* *Subscription handler*: one request per gNB reaches the RIC, whatever the threads do; a
  failed transmission leaves no trace; an answer is recorded once and not lost; the mutex is
  always given back.
* *Bouncer*: the start-up log tells the truth; each accepted subscription ends up marked; no
  bounce is invented, repeated or reordered.
* *E2 simulator*: each subscription request is answered before its indications, which come in
  order, carry the accepted action and are never too many; a request is answered or dropped, or the
  process ends for one of a few named reasons, and sharing the descriptor is none of them.
* *Robot xApp*: each request takes effect at most once, between its arrival and its answer; what
  was answered is what the store holds, and nothing older comes back.
* *Powder control*: no host is touched before the experiment is ready; the exit code tells what
  happened; a run ends.
* *Simulators and generators*: a latency is computed from the stamp of the message that was
  answered; `cdf.csv` holds the latest latencies; reports go on.

## 2. Modules

| Module | Models |
|---|---|
| `SubscriptionLifecycle` | the abstract promise of the handler per gNB: registered, sent, answered, or withdrawn |
| `SubscriptionHandler` | `subs_mgmt.hpp`/`.cc` with any number of calling and receiving threads |
| `SubscriptionHandlerProofs` | theorems about it |
| `BouncerXapp` | (theorems: `BouncerXappProofs`) the whole xApp: `main()`, RMR sending and receiving, and the dispatcher, composed with an instance of `SubscriptionHandler` |
| `ReportService` | the abstract promise of the simulator per subscription request: asked, answered or dropped, then indications one at a time |
| `E2SimProcess` | the `kpm_sim` process with any number of simulated nodes |
| `E2SimProcessProofs` | theorems about it; `E2SimReportProofs`: that it implements `ReportService` |
| `PolicyStore` | the abstract promise of the Robot xApp per request: pending, applied or failed, answered |
| `RobotXapp` | `robot-xapp.go`: a goroutine per message over the shared data layer; `RobotXappProofs`: theorems |
| `PowderRun` | one run of `start-profile.py` or `run_profile_example.py`; `PowderRunProofs`: theorems |
| `SctpAssociation` | one association between a server and a client, as `e2sim_sctp.cpp` uses it |
| `E2Simulators` | `e2sim` and `ricsim` at its ends, and an arbitrary RIC; extends `SctpAssociation` |
| `WorkloadGenerator` | `wg_serial` and `wg_concur` as further servers; extends `E2Simulators`; `WorkloadGeneratorProofs` and, on `cdf.csv`, `LatencyFileProofs`: theorems |
| `MC...` | the values TLC uses for the constants, where a `.cfg` alone cannot give them |

### SubscriptionHandler

`status_table` and `trans_table` are the two maps (the second as a set of ids: the transmitter
objects carry nothing the code looks at again), `data_lock` the mutex. One action is one
critical section: `Insert` and `Duplicate` the first section of
`manage_subscription_request`, `manage_subscription_response` and `clear` whole. The second
section of the request blocks in the transmitter, so it is `Lock`, then `TransmitOK` or
`TransmitFail`, then `Commit` or `Rollback`, with the mutex held in between. The one-second
sleep of `manage_subscription_response` before it locks is `TakeAnswer`, after which anything
may happen. `transmitted`, `outstanding` and `answers` are the RIC's side. A transmitter that
reports failure is taken to have sent nothing.

### BouncerXapp

`phase` is the place of `main()`. It first waits for RMR, without a limit (`xapp_rmr_init`, for which
no fairness is assumed), then reads the gNB list: each early return of `set_rnib_gnblist` leaves the
list empty, and an entry that is no object or has no `inventory_name` violates an assertion and aborts
the process (`phase = "aborted"`, after which nothing happens). `start_xapp_receiver` includes the `std::stoi` of the
number of threads before it, which may throw and end the process too. In between `main()` goes through the list: `outcome` records what each call returned, which the code logs. The
transmitter is `xapp_rmr_send`: `attempts` counts down and `sendbuf` follows the buffer RMR
takes or gives back, or does not give back. The receiver exists only from
`start_xapp_receiver` on, so what the RIC sent before waits in `inbox`. Each handler step is
conjoined with the handler module's own action (`H!Lock(main)` and so on). What
`rmr_rts_msg` returns is not looked at, so a bounce may vanish. `RIC_SUB_FAILURE` has no case in the
dispatcher and is dropped with the unknown types. Of the messages that the dispatcher drops because they are longer
than `MAX_RMR_RECV_SIZE`, an answer to a subscription is none in the model (it has a few bytes), nor does `calloc` fail for the
gNB's name; `SIGINT` and `SIGTERM`, which end the process at any time, are left out.

### E2SimProcess

One thread per simulated node; `pc` is the place in `run_loop` and the callback. Connection
`i` is the one instance `i` opens. `client_fd` is the global, assigned by
`sctp_start_client` and used through a reference by every `send`, `recv` and `close`.
A thread blocked in `recv()` stays with the connection it called it on (`on[i]`); `ReceiveEnd`
closes what `client_fd` names by then. `connect()` and the assignment are one action: until
`client_fd` is assigned nobody can use the new connection. Descriptor numbers are not reused
in the model. `run_report_loop` sends one indication and waits for any message as its answer;
`left` counts down from `MaxInd` (`maxInd` in the code).

A subscription request is its list of actions. `FirstReport` is the one action the callback accepts, `rejected` the
others. `encode_e2apv1.cpp` line 500 writes an empty list of rejected actions over the accepted ones, in the same
union, and `RICaction-Admitted-List` cannot be empty; nor have the items of the rejected list the
cause they must have. So the answer is `Encodable` only when there is a REPORT action and nothing was rejected,
which leaves the requests with a single REPORT action; any other that reaches the callback ends the process in
`e2ap_asn1c_encode_pdu` (`Unanswerable`, one of the three reasons of `exit_1`). `run_report_loop` reads two JSON files: `trace`
says of them, for the whole run, whether they can be read up to a first cell (`first`: without it nothing is
sent) and whether nothing in them throws (`whole`: if something does, the exception leaves the thread and the process ends,
after the indications or instead of them). `CallFails` is a `send()` or `recv()` that fails.
 `get_function_id_from_subscription` returns an
uninitialised value when the request names no function, so both `MayCall` and `MayRefuse`
hold then. The sleeps are not modelled except as steps: a thread may always be slower
than a sleep, which is how `OwnPlmnIfPrompt` meets main()'s two seconds.

### RobotXapp

Requests are numbered in the order RMR delivers them. `Consume` takes one from `inbox` and starts
its goroutine, whose place is `pc[r]`: `CreatePolicy` is one call to the store; `DeletePolicy` in the code is
a read (`ReadPolicy`) and then a deletion (`DeletePolicy`), with everybody else's calls in
between; `SendA1Response` counts and answers. The text stored by request `r` is `r`, so the store tells whose it holds. A
call to the store that reports an error may or may not have been applied. `before[r]`
is a ghost: what was over when `r` was sent.

### PowderRun

`pc` is the place in `start_and_wait`, `_get_status` and the script; `service` is the experiment as
the portal has it, which moves by itself (`Proceed`). A failed `_get_status` leaves the status as it
was, and in the first round, where `still_provisioning` does not exist yet, ends the process
with an exception. `Script` is the sequence of ssh calls `run_profile_example.py` makes; each `Open`
is one attempt.

### SctpAssociation, E2Simulators, WorkloadGenerator

The association keeps messages whole and in order; a `send` waits when the other end does not
read; calls on a closed socket or a closed association exit the process, as `sctp_send_data` and
`sctp_receive_data` do. In `E2Simulators`, `todo[e]` is what the process at `e` is going to send
before it receives again; the two endless loops of the handlers are `Again`, which puts the next
indication where the last one was. In `WorkloadGenerator`, `gen` and `rcv` are the places of
`wg_generator` and `wg_receiver`, two threads in `wg_concur` and two calls in one thread in
`wg_serial`. `GenSend` and `Stamp` are apart, as the stamp is stored after the send. The receiver
checks the stamp, reads its clock, then the two halves of the stamp in separate steps, so a stamp can be
replaced between any two of them. A stamp is the number of the message it was taken for.

## 3. Runs

Distinct states in brackets.

| Run | Bounds | Question |
|---|---|---|
| `handler` (about 108 000) | 2 callers, 1 receiver, 2 gNBs, 2 calls per caller, 1 `clear` | does the gap between the two sections lose or repeat anything? |
| `bouncer` (112 000) | 2 gNBs, lists of 0 to 3 entries with one repetition, 2 attempts, 2 indications per gNB, 1 other message | do the log, the table and the bounces agree with what the RIC saw? |
| `e2sim_one` (214 000) | 1 node, 3 messages of 8 kinds, 2 indications each, 4 kinds of files | is every request answered and reported in order, or dropped, or what else? |
| `e2sim_two` (1 223 000) | 2 nodes, 2 requests of 2 kinds, 1 indication each, files good or not there | what survives of that when two nodes fight over `client_fd`? |
| `robot` (337 000) | 1 policy, 4 requests | what does an answer say of the store? |
| `powder` | 4 logins, as in `ssh.py` | when is a host touched, what does the exit code tell, does a run end? |
| `simulators` (67 000) | arrays of 2, numbers up to 3, 6 messages, queues of 2, 3 messages of the RIC's own | which stamp is a latency computed from? what is in `cdf.csv`? what goes on, what ends? |

Two callers and two gNBs give a race on one id and independence of two; two calls per caller
give the retry after a failure. A list of three with a repetition gives a duplicate after a
success, after a failure, and after an entry in between. Three requests to one node arrive
before, between and after the two indications of another; the code's own `maxInd` is 1 (a
comment mentions 500). The subscription requests of `e2sim_one` have a REPORT action alone, a REPORT action
among others, no REPORT action, an unknown function and no function; those of `e2sim_two` are one that is answered and one that
ends the process. The files are good, without a cell, flawed behind the first cell, or not to be read. With two nodes the steal of the descriptor happens at every point of the other
thread, and a third adds only a second steal. Four requests for one policy are two rounds of
creation and deletion, the least for a deletion that overlaps another and a creation; requests for different policies
touch nothing in common but the counters. Six messages over arrays of two
entries are three rounds; the sequence number of `wg_serial` starts over, and that of `wg_concur`
reaches the largest that can be encoded. The run was repeated with numbers up to 4 and 7 messages. Deadlock is not checked: the calls, requests and
indications are bounded, and a process that has exited does nothing.

Properties, run by run:

* `handler`: `LockHeld` (the mutex names exactly the thread in the long section);
  `OneOwnerPerId` (across the gap an entry stays pending and has one owner); `TablesAgree`
  (the two tables agree except while an owner works); `ImplementsLifecycle` (refinement);
  `CallsReturn` and `AnswersApplied` (liveness).
* `bouncer`: `StatusTruthful`, `StartupLogRight`, `BouncesInOrder`; `NoAnswerLost` (between the
  RIC and the table a positive answer is in one place, and its entry waits for it); `ReceiverStarts`
  (once RMR is ready, `main()` starts the receiver or aborts; the retry loop ends even when RMR takes the buffer away) and `AcceptedIsMarked` (an
  answer that came before the receiver is still recorded, if the receiver starts and lives).
* `e2sim_one`: `ReportsContiguous`, `ImplementsReportService`; `IndicationsAccepted` (an indication carries the
  accepted action, although the callback keeps the id of the last one: when the two differ there is no answer); and `RequestsServed`
  (liveness: a request is answered or dropped, and reported in full, unless the RIC closed the connection or
  the process ended at an answer it could not encode or a file it could not read).
* `e2sim_two`: `ImplementsReportService` again, now across connections; `OnlyFailuresEnd`
  (sharing the descriptor alone ends nothing: a thread ends only after the RIC closed a connection, the process only
  then, after a `pthread_create` or `connect()` that failed, or at such an answer or file); `OwnPlmnIfPrompt` (a node announces
  its own PLMN id exactly when it reads it before main() goes on); `AbandonedForGood` (the
  connection that lost `client_fd` is never read or written again).
* `robot`: `NoResurrection` (behind the answer to a successful request, nothing that was over before it
  was sent comes back); `OneAtATime` (a client that waits for each answer reads its own writes);
  `DeletedTwiceNeedsCreate`; `ImplementsPolicyStore` (refinement); `RequestsAnswered` (liveness).
* `powder`: `HostNeedsReady`, `ExitTells`; `RunEnds` (unless the portal
  for ever says neither ready nor failed: the code's own limit on polls is never reached);
  `OnlyWaitingRepeats` (each step uses up a bounded measure, a status call that hears no verdict excepted).
* `simulators`: `SerialIsExact` (`wg_serial` uses the stamp of the answered message);
  `OldStampOnlyInWindow` (`wg_concur` meets an old stamp only between a send and the store of its
  stamp); `CsvIsLatest` (the file has no latency from an earlier round); `ConcurEnds`, `ReportsGoOn`
  (liveness).

Fairness. Threads, goroutines and scripts that can run do run (weak fairness of each); nothing is
assumed of who wins the mutex, of new calls, of RMR, of the store's and the portal's results, or
of an external RIC. Two assumptions go beyond that. `E2SimProcess` assumes that
the RIC answers the indications it gets, since the simulator waits for that
without a time-out; `RequestsServed` is claimed only while no connection is closed and the process has not ended as
said above. That RMR is ever ready is not assumed. `PowderRun`
assumes that every step of the script ends: `pexpect` has time-outs and a call to the portal returns.

External parties are restricted in these ways only: the RIC of a workload generator answers the generator's
messages in order, at most once each, and never answers the offers `wg_setup` made; RMR delivers in
order; descriptor numbers are not reused.

### Where the documentation says something else

Each of these runs checks one sentence of the documentation and TLC finds it false of the code.

| Run | Sentence | What the code does |
|---|---|---|
| `bouncer_timeout` | user guide: the request waits for the response or reports a time-out | returns success without waiting: "the wait functionality has been removed" |
| `e2sim_error_response` | README: without a callback "we return an error response" | prints a line, sends nothing |
| `e2sim_rejected` | comment: the first REPORT action is "the only one accepted; all others are rejected" | exits while encoding the answer as soon as one action is rejected |
| `e2sim_close` | comment: 0 from `recv()` closes the connection | closes the one `client_fd` names by then |
| `powder_steps` | comment: exit code 0 is "all steps succeeded" | exits with 0 although a command never saw its prompt |

Seen while modelling, without a run of their own: the Robot xApp declares the counters
`DuplicatePolicyCreates`, `PolicyUpdates` and `MessagesReceived` and never increments them;
`simulators/e2sim/e2sim.cpp` (line 37) says the agent restarts after a disconnection, and it returns from
`main`; its report loops never receive again, so nothing sent to it after a subscription is
read; `wg_setup` takes any first message for a setup request; a latency of `wg_concur` can be
negative or made of the halves of two stamps; the KPM callback keeps the id of the last action for
the indications (line 864), which `IndicationsAccepted` holds in spite of, and would not if rejected actions were encoded
as meant.

## 4. Proofs

All theorems hold for every value of the constants, from the modules' named assumptions
alone (`HandlerAssumption`, `BouncerAssumption` and so on: markers such as "free" are not threads,
bounds are numbers, arrays and queues have an entry).

**Subscription handler** (`SubscriptionHandlerProofs`). `TypeCorrect`, `MutualExclusion` (`LockHeld`), `Ownership` (`OneOwnerPerId`),
`TablesConsistent` (`TablesAgree`) and `Refinement` (`ImplementsLifecycle`). None of the last three is
inductive alone. What is missing is where an answer can be: `OneAnswerPerId` says that an id waits for
at most one answer in one place (at the RIC, on its way, or in a receiver's hand), and only when it
was transmitted and has an entry. With that, an answer can only
meet an entry whose owner has already transmitted, so a rollback never deletes an answered
entry. The refinement maps each id's state to its stage; every step moves one id or stutters
(`MoveOne`, `Stutter`), and `clear()` maps to `Forget`.

**Bouncer** (`BouncerXappProofs`). `TypeCorrect`, `StatusTruthfulHolds`, `StartupLogRightHolds`, `BouncesInOrderHolds`,
`NoAnswerLostHolds`, `XappKeepsLifecycle`. Every step
of the xApp that touches the tables contains a step of the handler, so the handler's own inductive invariant
comes along through an instance of its proof module. On top of it: where `main()` is in
the list and which ids it has been through, where each answer is (RIC, `inbox`, the receiver's hand), that
the log so far is right, and that the indications waiting and bounced are in the
order they were sent. `NoAnswerLost` ties three views of an answer together: RMR's queue, the handler's
`answers` and the receiver's hand. It needs `Arriving`: the queue holds a positive answer once and only
while the handler has not been given it, and the receiver's hand is full exactly while it answers. An entry
that is taken back was never transmitted, so it was never accepted. `XappKeepsLifecycle` is the composed
refinement: each step of the xApp is one of the handler or leaves it alone (`HandlerMoves`), so it is a
step of the lifecycle or a stutter.

**E2 simulator** (`E2SimProcessProofs`, `E2SimReportProofs`). `TypeCorrect`, `OnlyFailures` (`OnlyFailuresEnd`),
`Abandonment` (`AbandonedForGood`), `PromptOwnsPlmn` (`OwnPlmnIfPrompt`). The inductive invariant adds: main()'s count and the PLMN id move together
(`Counted`); a blocked thread waits on a connection (`Placed`); a thread that has not connected
has no connection (`Unconnected`) and one not created has done nothing (`Uncreated`); and, while
nothing has failed, `client_fd` names an open descriptor once anyone has connected (`Sound`). `Sound`
is why sharing the descriptor ends nobody: it is always some open connection. `OnlyFailures` rests on it:
a thread that exits is at an unanswerable request or an unreadable file, or, by `Sound`, something has failed before
(`ExitStep`); once the process has exited nothing moves, so the reason stays to be seen. The abandonment
needs `Unconnected`: `sctp_start_client` can only assign a connection that was not open before.
`ReportsApart` is `ReportsContiguous` for a single node (`Instances = 1`): with one thread the last messages of the wire
follow one another as the place of that thread demands (`SingleInv`); with two nodes the property is not claimed.
`ReportsImplemented` is the refinement of `ReportService`, for any number of nodes. The mapping counts
messages on the wires, so the invariant says that each request is in one place, a queue or
one thread's hand (`Distinct`), and that the numbers of its answers and indications, on all wires
together, are those of that place (`Tally`). Each action is one of a few kinds of step (nothing of a request moves, a request is
sent, received, answered, reported on, finished), and each kind maps to one abstract step or
a stutter.

**Robot xApp** (`RobotXappProofs`). `TypeCorrect`, `NoResurrectionHolds`, `OneAtATimeHolds`,
`DeletedTwiceHolds`, `Refinement` (`ImplementsPolicyStore`). The invariant states the
properties for what a goroutine has done, not only for what it has answered: the text in the store was put
there by a creation of that policy (`StoreHolds`) and is not one of those over before a request that took effect
(`StoreIsNew`); a created policy is missing only when another request for it was under way
(`MissingHasRival`); a policy found after a deletion was created again (`FoundIsCreated`). The refinement holds
because the deletion is one call: what the read before it saw does not matter.

**Powder** (`PowderRunProofs`). `TypeCorrect`, `HostNeedsReadyHolds`, `ExitTellsHolds`, from what each
place in the script implies of `status`, `heard` and `ipv4`. `OnlyWaitingRepeatsHolds` is the safety half of
`RunEnds`: `StepsLeft` ranks the places and counts the attempts of the sessions to come; it stays a
natural number because attempts are counted only while a login is tried (`Attempting`).

**Workload generators** (`WorkloadGeneratorProofs`). `TypeCorrect`, `OldStampOnlyInWindowHolds`, `SerialIsExactHolds`. For both
generators: for a message on its way, and for the answer in the receiver's hand, the stamp at its index is its own or
newer, unless it was sent last and its stamp is still to be stored (`AllStamped`), given which threads
exist (`Threads`). For `wg_serial` one more fact carries the rest: there is never more than one message of the
generator between send and receipt (`Alone`), so its stamp and no other is at its index when it is measured
(`Measured`). That needs to know that nothing else reaches the receiver: `wg_setup` is over and its
subscription was the last request (`Plans`, `Order`).

**Latency file** (`LatencyFileProofs`). `CsvIsLatestHolds`. The entries of `latency_v` are determined by the
number `k` of answers behind and by where the next one goes (`LatestSerial`, `LatestConcur`). An index is a
number modulo the array size, so the proof begins with quotient and remainder for any size: the
next number has the next index or starts over (`NextIndex`). For `wg_serial`, whose messages go one at a
time, the sequence number says which `k` that is (`SerialFile`). In `wg_concur` answers come while
messages go out: there the numbers on their way are exactly `k + 1` to `produced`, in order, the answers ahead
of what the RIC has not read (`InFlight`), so the next answer is the one entry `Index(k)` is due for
(`ConcurFile`). An entry is left empty only when the stamp was not there yet, which happens in the first
round over the array alone (`Counted`, `Measures`). That only an external RIC answers a generator
(`OnlyRicAnswers`) settles the other pairs of programs.

**Only model-checked**: the liveness properties (`CallsReturn`, `AnswersApplied`, `ReceiverStarts`,
`AcceptedIsMarked`, `RequestsServed`, `RequestsAnswered`, `RunEnds`, `ConcurEnds`, `ReportsGoOn`), as
fairness is outside the proofs' reach. Every other property of the passing runs is a theorem;
`ReportsContiguous` is proved, as it is checked, for one node.

## 5. Not modelled

* Contents of messages: encoding, decoding, KPM values, time stamps beyond their order. Exceptions are the
  action list and the function id of a subscription request, and whether its answer can be encoded, which decide something.
* The registration of callbacks into an unsynchronised `std::map` is atomic in the model; the
  data race is listed as a hazard.
* In the Bouncer: the signal handler, shutdown and subscription deletion, which `main()` never reaches, A1
  policies, the RNIB library.
* In the simulators: `e2ap_handle_RICSubscriptionRequest`, `sctp_send_data_X2AP` and, in Powder
  control, `terminate()` and `copy()`: nothing calls them. The rate of the generators only delays a send, which
  the interleavings cover. `powder/rpc` is not in the repository.
* The composition of the Bouncer and the benchmarking E2 simulator through the RIC. The RIC between
  them is not in the repository, and each module already lets it lose, delay and
  answer as it likes; a composition would only restrict that.
* The Robot Framework suites and their Python utilities, which are sequential scripts over client
  libraries; the ASN.1 encoders, which are straight-line code; deployment files.
* The generated ASN.1 code and the superseded simulators under `e2sim/previous`. Several copies of that
  generated code make up nearly all of the lines of the repository, so the models, which cover the programs of its own
  logic, stand for a small share of the lines counted.

## 6. What could come next

A `robot` instance with two policies (the proofs cover any number, `RequestsAnswered` does not); a
clock in `WorkloadGenerator` that says by how much a latency can be wrong; `terminate()` once a script
calls it.

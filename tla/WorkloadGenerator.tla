-------------------------- MODULE WorkloadGenerator ----------------------------
(***************************************************************************)
(* The generators of simulators/workload_generators/e2e_testing, each the  *)
(* server of one RIC: wg_setup, then a generator that sends numbered       *)
(* messages and stores in msg_ts when it did, and a receiver that takes    *)
(* the answer with the same number and computes the latency.  wg_serial    *)
(* alternates the two in one thread; wg_concur runs two threads over the   *)
(* same arrays, without a lock.                                            *)
(*                                                                         *)
(* Time is left out.  A time stamp is the number of the message it was     *)
(* taken for (produced, a ghost, counts the messages), and the receiver's  *)
(* clock is the number of the last stamp taken when it was read.           *)
(*                                                                         *)
(* The external RIC answers messages of the generator in the order it      *)
(* reads them, once each or not at all, and never the offers of wg_setup.  *)
(***************************************************************************)
EXTENDS E2Simulators

CONSTANTS
  NUM_SAMPLE,    \* entries of the arrays (2000)
  MaxMessages    \* bound: messages a generator sends

ASSUME GeneratorAssumption == NUM_SAMPLE \in Nat \ {0} /\ MaxMessages \in Nat

VARIABLES
  gen,        \* the generator: "idle", or before it may "send", "stamp" or call the receiver ("wait")
  rcv,        \* the receiver: "idle", or before it may "receive", "check" the stamp for NULL, read
              \* the "clock", the stamp's tv_sec ("sec") or its tv_nsec ("nsec")
  count,      \* the sequence number of the next message
  produced,   \* ghost: messages sent
  held,       \* the answer in the receiver's hands: its numbers, the clock and the seconds it read
  msg_ts,     \* msg_ts[i]: the stamp, 0 for NULL
  latency_v,  \* latency_v[i]: the answer it was computed for (0 for none), and what from
  cdf,        \* ghost: for which answers cdf.csv has latencies, and at which answer it was written
  lost        \* ghost: a message of the generator was not answered

generator == <<gen, rcv, count, produced, held, msg_ts, latency_v, cdf, lost>>

vars == <<simulators, generator>>

Indices == 0 .. NUM_SAMPLE - 1

Index(seq) == seq % NUM_SAMPLE

NoLatency == [of |-> 0, clock |-> 0, sec |-> 0, nsec |-> 0]

Nothing == [seq |-> 0, nr |-> 0, clock |-> 0, sec |-> 0]

Wg == Running("server") /\ program["server"] # "e2sim"

Serial == program["server"] = "wg_serial"

Step(s) == At("server") = s

Init ==
  /\ InitSimulators
  /\ gen = "idle" /\ rcv = "idle" /\ count = 0 /\ produced = 0 /\ held = Nothing
  /\ msg_ts = [i \in Indices |-> 0]
  /\ latency_v = [i \in Indices |-> NoLatency]
  /\ cdf = [at |-> 0, of |-> [i \in Indices |-> 0]]
  /\ lost = FALSE

--------------------------------------------------------------------------------
\* wg_setup: the first message, whatever it is, has a set-up response and an offer as answers, and
\* every other one an offer, until one is a subscription request.
Setup ==
  /\ Wg /\ Got("server") /\ Head(to["server"]).type # "garbage"
  /\ \/ /\ Step("first")
        /\ Do("server", <<"ENDCX2SetupResponse", "RICsubscriptionResponse", "offered">>)
        /\ UNCHANGED <<gen, rcv>>
     \/ /\ Step("offered") /\ Head(to["server"]).type # "RICsubscriptionRequest"
        /\ Do("server", <<"RICsubscriptionResponse", "offered">>)
        /\ UNCHANGED <<gen, rcv>>
     \/ /\ Step("offered") /\ Head(to["server"]).type = "RICsubscriptionRequest"
        /\ Do("server", <<"generate">>)
        /\ gen' = "send"
        /\ rcv' = IF Serial THEN "idle" ELSE "receive"
  /\ UNCHANGED <<program, ricSent, count, produced, held, msg_ts, latency_v, cdf, lost>>

\* Mutant: wg_concur starts over when the numbers are used up.
Next_Wraps(c) == IF (Serial /\ c > NUM_SAMPLE) \/ c > MaxSeq THEN 0 ELSE c

\* The number of the next message: wg_serial starts over after NUM_SAMPLE.
NextCount(c) == IF Serial /\ c > NUM_SAMPLE THEN 0 ELSE c

\* Mutant: a number that is too large is encoded all the same.
GenSend_Unchecked ==
  /\ Wg /\ gen = "send" /\ produced < MaxMessages
  /\ Sent("server", [type |-> "RICsubscriptionResponse", seq |-> NextCount(count),
                     nr |-> produced + 1])
  /\ count' = NextCount(count)
  /\ produced' = produced + 1
  /\ gen' = "stamp"
  /\ UNCHANGED <<program, todo, ricSent, rcv, held, msg_ts, latency_v, cdf, lost>>

\* wg_generator, up to sctp_send_data.
GenSend ==
  /\ Wg /\ gen = "send" /\ NextCount(count) <= MaxSeq /\ produced < MaxMessages
  /\ Sent("server", [type |-> "RICsubscriptionResponse", seq |-> NextCount(count),
                     nr |-> produced + 1])
  /\ count' = NextCount(count)
  /\ produced' = produced + 1
  /\ gen' = "stamp"
  /\ UNCHANGED <<program, todo, ricSent, rcv, held, msg_ts, latency_v, cdf, lost>>

\* The number cannot be encoded: e2ap_asn1c_encode_pdu exits.
EncodeFails ==
  /\ Wg /\ gen = "send" /\ NextCount(count) > MaxSeq
  /\ Exit("server")
  /\ UNCHANGED <<program, todo, ricSent, generator>>

GenError == Wg /\ gen = "send" /\ SendFails("server") /\ UNCHANGED <<program, todo, ricSent, generator>>

\* Mutant: the stamp goes where the next message's belongs.
Stamp_Next ==
  /\ Wg /\ gen = "stamp"
  /\ msg_ts' = [msg_ts EXCEPT ![Index(count + 1)] = produced]
  /\ count' = count + 1
  /\ gen' = IF Serial THEN "wait" ELSE "send"
  /\ rcv' = IF Serial THEN "receive" ELSE rcv
  /\ UNCHANGED <<simulators, produced, held, latency_v, cdf, lost>>

\* Mutant: wg_serial, too, sends the next message while the receiver waits.
Stamp_Ahead ==
  /\ Wg /\ gen = "stamp"
  /\ msg_ts' = [msg_ts EXCEPT ![Index(count)] = produced]
  /\ count' = count + 1
  /\ gen' = "send"
  /\ rcv' = IF Serial THEN "receive" ELSE rcv
  /\ UNCHANGED <<simulators, produced, held, latency_v, cdf, lost>>

\* The rest of the turn: the stamp is stored after the message is sent, and wg_serial calls the
\* receiver.
Stamp ==
  /\ Wg /\ gen = "stamp"
  /\ msg_ts' = [msg_ts EXCEPT ![Index(count)] = produced]
  /\ count' = count + 1
  /\ gen' = IF Serial THEN "wait" ELSE "send"
  /\ rcv' = IF Serial THEN "receive" ELSE rcv
  /\ UNCHANGED <<simulators, produced, held, latency_v, cdf, lost>>

--------------------------------------------------------------------------------
WgReceives == Wg /\ (Step("first") \/ Step("offered") \/ rcv = "receive")

\* The loops around sctp_receive_data call it again after it has closed the socket.
WgDisconnected == WgReceives /\ GotEnd("server") /\ UNCHANGED <<program, todo, ricSent, generator>>

WgReceiveError ==
  WgReceives /\ ReceiveFails("server") /\ UNCHANGED <<program, todo, ricSent, generator>>

WgUndecodable ==
  /\ WgReceives /\ fd["server"] = "open" /\ to["server"] # <<>> /\ Head(to["server"]).type = "garbage"
  /\ Exit("server")
  /\ UNCHANGED <<program, todo, ricSent, generator>>

Dump(at) == [at |-> at, of |-> [i \in Indices |-> latency_v[i].of]]

\* Mutant: the last entry is left out of the loop that writes the file.
RcvReceive_Short ==
  /\ Wg /\ rcv = "receive" /\ Got("server") /\ Head(to["server"]).type # "garbage"
  /\ LET m == Head(to["server"]) IN
       /\ held' = [Nothing EXCEPT !.seq = m.seq, !.nr = m.nr]
       /\ cdf' = IF Index(m.seq) = 0
                 THEN [Dump(m.nr) EXCEPT !.of[NUM_SAMPLE - 1] = cdf.of[NUM_SAMPLE - 1]]
                 ELSE cdf
  /\ rcv' = "check"
  /\ UNCHANGED <<program, todo, ricSent, gen, count, produced, msg_ts, latency_v, lost>>

\* wg_receiver: an answer, and cdf.csv when it is one for index 0.
RcvReceive ==
  /\ Wg /\ rcv = "receive" /\ Got("server") /\ Head(to["server"]).type # "garbage"
  /\ LET m == Head(to["server"]) IN
       /\ held' = [Nothing EXCEPT !.seq = m.seq, !.nr = m.nr]
       /\ cdf' = IF Index(m.seq) = 0 THEN Dump(m.nr) ELSE cdf
  /\ rcv' = "check"
  /\ UNCHANGED <<program, todo, ricSent, gen, count, produced, msg_ts, latency_v, lost>>

\* The receiver returns to wg_serial's loop, or starts over.
Turn ==
  /\ rcv' = IF Serial THEN "idle" ELSE "receive"
  /\ gen' = IF Serial THEN "send" ELSE gen
  /\ held' = Nothing

RcvCheck ==
  /\ Wg /\ rcv = "check"
  /\ IF msg_ts[Index(held.seq)] = 0 THEN Turn ELSE rcv' = "clock" /\ UNCHANGED <<gen, held>>
  /\ UNCHANGED <<simulators, count, produced, msg_ts, latency_v, cdf, lost>>

\* The last stamp taken.
Now == IF gen = "stamp" THEN produced - 1 ELSE produced

RcvClock ==
  /\ Wg /\ rcv = "clock"
  /\ held' = [held EXCEPT !.clock = Now]
  /\ rcv' = "sec"
  /\ UNCHANGED <<simulators, gen, count, produced, msg_ts, latency_v, cdf, lost>>

RcvSec ==
  /\ Wg /\ rcv = "sec"
  /\ held' = [held EXCEPT !.sec = msg_ts[Index(held.seq)]]
  /\ rcv' = "nsec"
  /\ UNCHANGED <<simulators, gen, count, produced, msg_ts, latency_v, cdf, lost>>

RcvStore ==
  /\ Wg /\ rcv = "nsec"
  /\ latency_v' = [latency_v EXCEPT ![Index(held.seq)] =
                     [of |-> held.nr, clock |-> held.clock, sec |-> held.sec,
                      nsec |-> msg_ts[Index(held.seq)]]]
  /\ Turn
  /\ UNCHANGED <<simulators, count, produced, msg_ts, cdf, lost>>

--------------------------------------------------------------------------------
\* The external RIC takes a message, and answers it when it is one of a generator.
RicReads ==
  /\ Ric /\ Got("client")
  /\ lost' = (lost \/ Head(to["client"]).nr # 0)
  /\ UNCHANGED <<program, todo, ricSent, gen, rcv, count, produced, held, msg_ts, latency_v, cdf>>

RicAnswers ==
  /\ Ric /\ fd["client"] = "open" /\ to["client"] # <<>> /\ Head(to["client"]).nr # 0
  /\ ~Gone("server") /\ Len(to["server"]) < MaxQueue
  /\ to' = [to EXCEPT !["client"] = Tail(@), !["server"] = Append(@, Head(to["client"]))]
  /\ UNCHANGED <<process, fd, program, todo, ricSent, generator>>

--------------------------------------------------------------------------------
Generator == GenSend \/ EncodeFails \/ GenError \/ Stamp

Receiver ==
  \/ WgDisconnected \/ WgReceiveError \/ WgUndecodable
  \/ RcvReceive \/ RcvCheck \/ RcvClock \/ RcvSec \/ RcvStore

External ==
  \/ RicSend /\ UNCHANGED generator
  \/ RicLeaves /\ UNCHANGED generator
  \/ RicReads
  \/ RicAnswers

Next ==
  \/ \E e \in Ends : Simulator(e) /\ UNCHANGED generator
  \/ Setup \/ Generator \/ Receiver \/ External

\* The threads of the simulators and generators run; nothing is assumed of an external RIC.
Fairness ==
  /\ \A e \in Ends : WF_vars(Simulator(e) /\ UNCHANGED generator)
  /\ WF_vars(Setup) /\ WF_vars(Generator) /\ WF_vars(Receiver)

Spec == Init /\ [][Next]_vars /\ Fairness

--------------------------------------------------------------------------------
Messages == [type : Types, seq : 0 .. Fixed, nr : Nat]

Steps == Types \cup {"receive", "first", "offered", "generate"}

\* Type invariant: a message has a number that can be encoded, or that of the XML files, no send
\* goes beyond what the association holds, and no index beyond the arrays.
TypeOK ==
  /\ process \in [Ends -> {"running", "exited"}] /\ fd \in [Ends -> {"open", "closed"}]
  /\ to \in [Ends -> Seq(Messages)] /\ \A e \in Ends : Len(to[e]) <= MaxQueue
  /\ program \in [Ends -> Servers \cup Clients]
  /\ todo \in [Ends -> Seq(Steps)]
  /\ ricSent \in Seq(Types)
  /\ gen \in {"idle", "send", "stamp", "wait"}
  /\ rcv \in {"idle", "receive", "check", "clock", "sec", "nsec"}
  /\ count \in Nat /\ produced \in Nat /\ lost \in BOOLEAN
  /\ held \in [seq : Nat, nr : Nat, clock : Nat, sec : Nat]
  /\ msg_ts \in [Indices -> Nat]
  /\ latency_v \in [Indices -> [of : Nat, clock : Nat, sec : Nat, nsec : Nat]]
  /\ cdf \in [at : Nat, of : [Indices -> Nat]]

\* wg_serial: a latency is computed from the stamp of the very message that was answered, and from
\* a clock that was read after it, although the same array entry serves many messages.
SerialIsExact ==
  Serial => \A i \in Indices :
              LET l == latency_v[i] IN l.of # 0 => l.sec = l.of /\ l.nsec = l.of /\ l.clock >= l.of

\* wg_concur: the receiver finds the stamp of an earlier message, or none, for the answer it holds
\* only between the send of that very message and the store of its stamp; so an answer to any
\* earlier message, however late, has its own stamp or a newer one.
OldStampOnlyInWindow ==
  (rcv \in {"check", "clock", "sec", "nsec"} /\ msg_ts[Index(held.seq)] < held.nr) =>
    gen = "stamp" /\ held.nr = produced

\* As long as every message is answered, cdf.csv holds latencies of the last NUM_SAMPLE messages
\* before the one it was written at, none of them from an earlier round of the array; entries are
\* missing in the first round only.
CsvIsLatest ==
  (~lost /\ cdf.at # 0) =>
    \A i \in Indices : IF cdf.of[i] = 0 THEN cdf.at <= NUM_SAMPLE + 1
                       ELSE cdf.of[i] < cdf.at /\ cdf.of[i] >= cdf.at - NUM_SAMPLE

\* wg_concur does not last: whatever the RIC does, the process ends (its numbers are used up, or
\* the RIC has gone or sent something it cannot decode), unless the RIC reads no more.
ConcurEnds ==
  (program["server"] = "wg_concur" /\ gen # "idle")
    ~> (process["server"] = "exited" \/ [](Len(to["client"]) = MaxQueue))

\* e2sim and ricsim: once connected, ricsim is sent both types of indication for ever.
ReportsGoOn ==
  (program["server"] = "e2sim" /\ program["client"] = "ricsim") =>
    \A type \in {"type1", "type2"} :
      []<>(to["client"] # <<>> /\ Head(to["client"]).type = type)
================================================================================

------------------------ MODULE WorkloadGeneratorProofs ------------------------
(***************************************************************************)
(* What holds of the simulators and workload generators for every size of  *)
(* the arrays, every limit of the sequence number and every queue.         *)
(***************************************************************************)
EXTENDS WorkloadGenerator, TLAPS

--------------------------------------------------------------------------------
(* Sequences *)

LEMMA AppendProps ==
  ASSUME NEW S, NEW s \in Seq(S), NEW x \in S
  PROVE  /\ Append(s, x) \in Seq(S) /\ Len(Append(s, x)) = Len(s) + 1
         /\ \A i \in 1 .. Len(s) + 1 : Append(s, x)[i] = IF i = Len(s) + 1 THEN x ELSE s[i]
  OBVIOUS

LEMMA TailProps ==
  ASSUME NEW S, NEW s \in Seq(S), s # <<>>
  PROVE  /\ Head(s) \in S /\ Head(s) = s[1] /\ Len(s) \in Nat \ {0}
         /\ Tail(s) \in Seq(S) /\ Len(Tail(s)) = Len(s) - 1
         /\ \A i \in 1 .. Len(s) - 1 : Tail(s)[i] = s[i + 1]
  OBVIOUS

LEMMA ConcatType ==
  ASSUME NEW S, NEW s \in Seq(S), NEW t \in Seq(S)
  PROVE  s \o t \in Seq(S)
  OBVIOUS

\* The index of a message is one of the arrays'.
LEMMA IndexType ==
  ASSUME NEW seq \in Nat
  PROVE  Index(seq) \in Indices
  BY GeneratorAssumption DEF Index, Indices

--------------------------------------------------------------------------------
(* The variables keep their types; by part, since most actions touch one. *)

AssociationOK ==
  /\ process \in [Ends -> {"running", "exited"}] /\ fd \in [Ends -> {"open", "closed"}]
  /\ to \in [Ends -> Seq(Messages)] /\ \A e \in Ends : Len(to[e]) <= MaxQueue

SimulatorsOK ==
  /\ program \in [Ends -> Servers \cup Clients]
  /\ todo \in [Ends -> Seq(Steps)]
  /\ ricSent \in Seq(Types)

GeneratorOK ==
  /\ gen \in {"idle", "send", "stamp", "wait"}
  /\ rcv \in {"idle", "receive", "check", "clock", "sec", "nsec"}
  /\ count \in Nat /\ produced \in Nat /\ lost \in BOOLEAN
  /\ held \in [seq : Nat, nr : Nat, clock : Nat, sec : Nat]
  /\ msg_ts \in [Indices -> Nat]
  /\ latency_v \in [Indices -> [of : Nat, clock : Nat, sec : Nat, nsec : Nat]]
  /\ cdf \in [at : Nat, of : [Indices -> Nat]]
  /\ gen = "stamp" => produced > 0

LEMMA Parts == AssociationOK /\ SimulatorsOK /\ GeneratorOK => TypeOK
  BY DEF TypeOK, AssociationOK, SimulatorsOK, GeneratorOK

LEMMA MessageTypes ==
  /\ \A type \in Types : Plain(type) \in Messages
  /\ \A type \in Types : Reply(type) \in Seq(Types) /\ Again(type) \in Seq(Types)
  /\ Types \subseteq Steps
  /\ \A m \in Messages : m.type \in Types /\ m.seq \in Nat /\ m.nr \in Nat
  /\ Fixed \in Nat
<1>1. Fixed \in Nat BY SimulatorAssumption DEF Fixed
<1>2. \A type \in Types : Plain(type) \in Messages
  BY <1>1 DEF Plain, Messages
<1>a. /\ {"X2SetupResponse", "ResourceStatusRequest", "ENDCX2SetupResponse", "RICsubscriptionResponse",
           "ResourceStatusResponse", "ResourceStatusUpdate", "type1", "type2"} \subseteq Types
  BY DEF Types, Requests, Indications
<1>b. ASSUME NEW S
      PROVE  <<>> \in Seq(S) /\ \A x, y \in S : <<x>> \in Seq(S) /\ <<x, y>> \in Seq(S)
  OBVIOUS
<1>3. \A type \in Types : Reply(type) \in Seq(Types)
  BY <1>a, <1>b DEF Reply
<1>4. \A type \in Types : Again(type) \in Seq(Types)
  BY <1>a, <1>b DEF Again
<1>5. \A m \in Messages : m.type \in Types /\ m.seq \in Nat /\ m.nr \in Nat
  BY <1>1 DEF Messages
<1> QED BY <1>1, <1>2, <1>3, <1>4, <1>5 DEF Steps

\* Each way to use the association keeps its types.
LEMMA AssociationSteps ==
  ASSUME AssociationOK, NEW e \in Ends, NEW m \in Messages,
         Exit(e) \/ Sent(e, m) \/ Got(e) \/ GotEnd(e) \/ SendFails(e) \/ ReceiveFails(e)
  PROVE  AssociationOK'
<1>0. Peer(e) \in Ends BY DEF Peer, Ends
<1>1. CASE Exit(e) BY <1>1 DEF AssociationOK, Exit
<1>2. CASE Sent(e, m)
  <2>1. to[Peer(e)] \in Seq(Messages) BY <1>0 DEF AssociationOK
  <2>2. Append(to[Peer(e)], m) \in Seq(Messages) /\ Len(Append(to[Peer(e)], m)) = Len(to[Peer(e)]) + 1
    BY <2>1, AppendProps
  <2>3. Len(to[Peer(e)]) < MaxQueue /\ Len(to[Peer(e)]) \in Nat BY <1>2, <2>1 DEF Sent
  <2> QED BY <1>0, <1>2, <2>1, <2>2, <2>3, QueueAssumption DEF Sent, AssociationOK
<1>3. CASE Got(e)
  <2>1. to[e] \in Seq(Messages) /\ to[e] # <<>> BY <1>3 DEF AssociationOK, Got
  <2>2. Tail(to[e]) \in Seq(Messages) /\ Len(Tail(to[e])) = Len(to[e]) - 1 /\ Len(to[e]) \in Nat
    BY <2>1, TailProps
  <2> QED BY <1>3, <2>1, <2>2, QueueAssumption DEF Got, AssociationOK
<1>4. CASE GotEnd(e) BY <1>4 DEF AssociationOK, GotEnd
<1>5. CASE SendFails(e) BY <1>5 DEF AssociationOK, SendFails, Exit
<1>6. CASE ReceiveFails(e) BY <1>6 DEF AssociationOK, ReceiveFails, Exit
<1> QED BY <1>1, <1>2, <1>3, <1>4, <1>5, <1>6

LEMMA InitTypes ==
  ASSUME Init
  PROVE  AssociationOK /\ SimulatorsOK /\ GeneratorOK
<1>1. AssociationOK
  BY QueueAssumption DEF Init, InitSimulators, Connected, AssociationOK
<1>2. SimulatorsOK
  <2>a. {"ENDCX2SetupRequest", "receive", "RICsubscriptionRequest", "first"} \subseteq Steps
    BY DEF Steps, Types, Requests, Indications
  <2>b. ASSUME NEW S
        PROVE  <<>> \in Seq(S) /\ \A x, y, z \in S : <<x>> \in Seq(S) /\ <<x, y, z>> \in Seq(S)
    OBVIOUS
  <2>1. todo \in [Ends -> Seq(Steps)]
    BY <2>a, <2>b DEF Init, InitSimulators
  <2> QED BY <2>1 DEF Init, InitSimulators, SimulatorsOK, Servers, Clients
<1>3. GeneratorOK
  BY DEF Init, GeneratorOK, NoLatency, Nothing
<1> QED BY <1>1, <1>2, <1>3

LEMMA SimulatorTypes ==
  ASSUME AssociationOK, SimulatorsOK, NEW e \in Ends, Simulator(e)
  PROVE  AssociationOK' /\ SimulatorsOK'
<1>0. Types \subseteq Steps BY MessageTypes
<1>1. CASE HandleMessage(e)
  <2>1. to[e] \in Seq(Messages) /\ to[e] # <<>> BY <1>1 DEF HandleMessage, Got, AssociationOK
  <2>2. Head(to[e]) \in Messages BY <2>1, TailProps
  <2>3. Reply(Head(to[e]).type) \in Seq(Steps)
    <3>1. Reply(Head(to[e]).type) \in Seq(Types) BY <2>2, MessageTypes
    <3>2. ASSUME NEW S, NEW T, S \subseteq T, NEW s \in Seq(S) PROVE s \in Seq(T) BY <3>2
    <3> QED BY <1>0, <3>1, <3>2
  <2>4. Rest(e) \in Seq(Steps)
    <3>1. todo[e] \in Seq(Steps) BY DEF SimulatorsOK
    <3>2. CASE todo[e] = <<>> BY <3>1, <3>2 DEF Rest
    <3>3. CASE todo[e] # <<>> BY <3>1, <3>3, TailProps DEF Rest
    <3> QED BY <3>2, <3>3
  <2>5. Reply(Head(to[e]).type) \o Rest(e) \in Seq(Steps) BY <2>3, <2>4, ConcatType
  <2>6. AssociationOK' BY <1>1, <2>2, AssociationSteps DEF HandleMessage
  <2> QED BY <1>1, <2>5, <2>6 DEF HandleMessage, Do, SimulatorsOK
<1>2. CASE Undecodable(e)
  BY <1>2 DEF Undecodable, Exit, AssociationOK, SimulatorsOK
<1>3. CASE Disconnected(e)
  <2>1. Rest(e) \in Seq(Steps)
    <3>1. todo[e] \in Seq(Steps) BY DEF SimulatorsOK
    <3>2. CASE todo[e] = <<>> BY <3>1, <3>2 DEF Rest
    <3>3. CASE todo[e] # <<>> BY <3>1, <3>3, TailProps DEF Rest
    <3> QED BY <3>2, <3>3
  <2>2. SimulatorsOK' BY <1>3, <2>1 DEF Disconnected, Do, SimulatorsOK
  <2>3. AssociationOK' BY <1>3 DEF Disconnected, AssociationOK
  <2> QED BY <2>2, <2>3
<1>4. CASE ReceiveError(e)
  BY <1>4 DEF ReceiveError, ReceiveFails, Exit, AssociationOK, SimulatorsOK
<1>5. CASE SendNext(e)
  <2>1. At(e) \in Types BY <1>5 DEF SendNext, Sends
  <2>2. todo[e] \in Seq(Steps) /\ todo[e] # <<>>
    BY <1>5, <2>1 DEF SimulatorsOK, At, Types, Requests, Indications
  <2>3. Again(At(e)) \in Seq(Steps)
    <3>1. Again(At(e)) \in Seq(Types) BY <2>1, MessageTypes
    <3>2. ASSUME NEW S, NEW T, S \subseteq T, NEW s \in Seq(S) PROVE s \in Seq(T) BY <3>2
    <3> QED BY <1>0, <3>1, <3>2
  <2>4. Again(At(e)) \o Tail(todo[e]) \in Seq(Steps) BY <2>2, <2>3, TailProps, ConcatType
  <2>5. Plain(At(e)) \in Messages BY <2>1, MessageTypes
  <2>6. AssociationOK' BY <1>5, <2>5, AssociationSteps DEF SendNext
  <2> QED BY <1>5, <2>4, <2>6 DEF SendNext, Do, SimulatorsOK
<1>6. CASE SendError(e)
  BY <1>6 DEF SendError, SendFails, Exit, AssociationOK, SimulatorsOK
<1> QED BY <1>1, <1>2, <1>3, <1>4, <1>5, <1>6 DEF Simulator

LEMMA ExternalTypes ==
  ASSUME AssociationOK, SimulatorsOK, GeneratorOK, External
  PROVE  AssociationOK' /\ SimulatorsOK' /\ GeneratorOK'
<1>0. "client" \in Ends /\ "server" \in Ends BY DEF Ends
<1>1. CASE RicSend /\ UNCHANGED generator
  <2>1. PICK type \in Requests \cup {"garbage"} :
          Sent("client", Plain(type)) /\ ricSent' = Append(ricSent, type)
    BY <1>1 DEF RicSend
  <2>2. type \in Types BY DEF Types
  <2>3. Plain(type) \in Messages BY <2>2, MessageTypes
  <2>4. AssociationOK' BY <1>0, <2>1, <2>3, AssociationSteps
  <2>5. ricSent' \in Seq(Types) BY <2>1, <2>2, AppendProps DEF SimulatorsOK
  <2> QED BY <1>1, <2>4, <2>5 DEF RicSend, SimulatorsOK, GeneratorOK, generator
<1>2. CASE RicLeaves /\ UNCHANGED generator
  BY <1>2 DEF RicLeaves, Exit, AssociationOK, SimulatorsOK, GeneratorOK, generator
<1>3. CASE RicReads
  <2>1. PICK m \in Messages : TRUE BY MessageTypes DEF Types
  <2>2. AssociationOK' BY <1>0, <1>3, <2>1, AssociationSteps DEF RicReads
  <2> QED BY <1>3, <2>2 DEF RicReads, SimulatorsOK, GeneratorOK
<1>4. CASE RicAnswers
  <2>1. to["client"] \in Seq(Messages) /\ to["client"] # <<>> /\ to["server"] \in Seq(Messages)
    BY <1>0, <1>4 DEF RicAnswers, AssociationOK
  <2>2. /\ Head(to["client"]) \in Messages /\ Tail(to["client"]) \in Seq(Messages)
        /\ Len(to["client"]) \in Nat /\ Len(Tail(to["client"])) = Len(to["client"]) - 1
    BY <2>1, TailProps
  <2>3. /\ Append(to["server"], Head(to["client"])) \in Seq(Messages)
        /\ Len(to["server"]) \in Nat
        /\ Len(Append(to["server"], Head(to["client"]))) = Len(to["server"]) + 1
    BY <2>1, <2>2, AppendProps
  <2>4. AssociationOK'
    <3>1. to \in [Ends -> Seq(Messages)] /\ \A e \in Ends : Len(to[e]) <= MaxQueue
      BY DEF AssociationOK
    <3>2. /\ to' \in [Ends -> Seq(Messages)]
          /\ to'["client"] = Tail(to["client"])
          /\ to'["server"] = Append(to["server"], Head(to["client"]))
      BY <1>0, <1>4, <2>2, <2>3, <3>1 DEF RicAnswers
    <3>3. Len(to'["client"]) <= MaxQueue /\ Len(to'["server"]) <= MaxQueue
      BY <1>0, <1>4, <2>2, <2>3, <3>1, <3>2, QueueAssumption DEF RicAnswers
    <3>4. \A e \in Ends : Len(to'[e]) <= MaxQueue BY <3>3 DEF Ends
    <3>5. UNCHANGED <<process, fd>> BY <1>4 DEF RicAnswers
    <3> QED BY <3>2, <3>4, <3>5 DEF AssociationOK
  <2> QED BY <1>4, <2>4 DEF RicAnswers, SimulatorsOK, GeneratorOK, generator
<1> QED BY <1>1, <1>2, <1>3, <1>4 DEF External

LEMMA GeneratorTypes ==
  ASSUME AssociationOK, SimulatorsOK, GeneratorOK, Setup \/ Generator \/ Receiver
  PROVE  AssociationOK' /\ SimulatorsOK' /\ GeneratorOK'
<1>0. "server" \in Ends BY DEF Ends
<1>u. ASSUME UNCHANGED generator PROVE GeneratorOK'
  BY <1>u DEF GeneratorOK, generator
<1>v. ASSUME UNCHANGED <<program, todo, ricSent>> PROVE SimulatorsOK'
  BY <1>v DEF SimulatorsOK
<1>w. ASSUME UNCHANGED association PROVE AssociationOK'
  BY <1>w DEF AssociationOK, association
<1>m. PICK any \in Messages : TRUE BY MessageTypes DEF Types
<1>h. ASSUME Got("server") PROVE Head(to["server"]) \in Messages
  BY <1>h, <1>0, TailProps DEF Got, AssociationOK
<1>1. CASE Setup
  <2>a. {"ENDCX2SetupResponse", "RICsubscriptionResponse", "offered", "generate"} \subseteq Steps
    BY DEF Steps, Types
  <2>b. ASSUME NEW S
        PROVE  \A x, y, z \in S : <<x>> \in Seq(S) /\ <<x, y>> \in Seq(S) /\ <<x, y, z>> \in Seq(S)
    OBVIOUS
  <2>1. AssociationOK' BY <1>0, <1>1, <1>m, AssociationSteps DEF Setup
  <2>2. PICK s \in Seq(Steps) : todo' = [todo EXCEPT !["server"] = s]
    <3>1. CASE todo' = [todo EXCEPT !["server"] = <<"ENDCX2SetupResponse", "RICsubscriptionResponse", "offered">>]
      BY <3>1, <2>a, <2>b
    <3>2. CASE todo' = [todo EXCEPT !["server"] = <<"RICsubscriptionResponse", "offered">>]
      BY <3>2, <2>a, <2>b
    <3>3. CASE todo' = [todo EXCEPT !["server"] = <<"generate">>]
      BY <3>3, <2>a, <2>b
    <3> QED BY <1>1, <3>1, <3>2, <3>3 DEF Setup, Do
  <2>4. SimulatorsOK' BY <1>0, <1>1, <2>2 DEF Setup, SimulatorsOK
  <2>3. GeneratorOK' BY <1>1 DEF Setup, GeneratorOK
  <2> QED BY <2>1, <2>3, <2>4
<1>2. CASE GenSend
  <2>1. NextCount(count) \in 0 .. Fixed
    BY <1>2, SimulatorAssumption DEF GenSend, NextCount, GeneratorOK, Fixed
  <2>2. [type |-> "RICsubscriptionResponse", seq |-> NextCount(count), nr |-> produced + 1] \in Messages
    BY <2>1 DEF Messages, Types, GeneratorOK
  <2>3. AssociationOK' BY <1>0, <1>2, <2>2, AssociationSteps DEF GenSend
  <2>4. SimulatorsOK' BY <1>2, <1>v DEF GenSend
  <2>5. GeneratorOK' BY <1>2, <2>1 DEF GenSend, GeneratorOK
  <2> QED BY <2>3, <2>4, <2>5
<1>3. CASE EncodeFails
  BY <1>0, <1>3, <1>m, <1>u, <1>v, AssociationSteps DEF EncodeFails
<1>4. CASE GenError
  BY <1>0, <1>4, <1>m, <1>u, <1>v, AssociationSteps DEF GenError
<1>5. CASE Stamp
  <2>a. msg_ts' \in [Indices -> Nat] BY <1>5 DEF Stamp, GeneratorOK
  <2>b. gen' \in {"send", "wait"} /\ rcv' \in {rcv, "receive"} /\ count' \in Nat
    BY <1>5 DEF Stamp, GeneratorOK
  <2>c. UNCHANGED <<produced, held, latency_v, cdf, lost>> BY <1>5 DEF Stamp
  <2>1. GeneratorOK' BY <2>a, <2>b, <2>c DEF GeneratorOK
  <2> QED BY <1>5, <2>1, <1>v, <1>w DEF Stamp, simulators
<1>6. CASE WgDisconnected
  BY <1>0, <1>6, <1>m, <1>u, <1>v, AssociationSteps DEF WgDisconnected
<1>7. CASE WgReceiveError
  BY <1>0, <1>7, <1>m, <1>u, <1>v, AssociationSteps DEF WgReceiveError
<1>8. CASE WgUndecodable
  BY <1>0, <1>8, <1>m, <1>u, <1>v, AssociationSteps DEF WgUndecodable
<1>9. CASE RcvReceive
  <2>1. Head(to["server"]).seq \in Nat /\ Head(to["server"]).nr \in Nat
    BY <1>9, <1>h, MessageTypes DEF RcvReceive
  <2>2. \A n \in Nat : Dump(n) \in [at : Nat, of : [Indices -> Nat]]
    BY DEF Dump, GeneratorOK
  <2>a. held' \in [seq : Nat, nr : Nat, clock : Nat, sec : Nat]
    BY <1>9, <2>1 DEF RcvReceive, Nothing
  <2>b. cdf' \in [at : Nat, of : [Indices -> Nat]]
    BY <1>9, <2>1, <2>2 DEF RcvReceive, GeneratorOK
  <2>c. rcv' = "check" /\ UNCHANGED <<gen, count, produced, msg_ts, latency_v, lost>>
    BY <1>9 DEF RcvReceive
  <2>3. GeneratorOK' BY <2>a, <2>b, <2>c DEF GeneratorOK
  <2>4. AssociationOK' BY <1>0, <1>9, <1>m, AssociationSteps DEF RcvReceive
  <2> QED BY <1>9, <2>3, <2>4, <1>v DEF RcvReceive
<1>10. CASE RcvCheck
  <2>1. GeneratorOK' BY <1>10 DEF RcvCheck, Turn, GeneratorOK, Nothing
  <2> QED BY <1>10, <2>1, <1>v, <1>w DEF RcvCheck, simulators
<1>11. CASE RcvClock
  <2>1. Now \in Nat => GeneratorOK' BY <1>11 DEF RcvClock, GeneratorOK
  <2>2. Now \in Nat
    BY <1>11 DEF RcvClock, Now, GeneratorOK
  <2> QED BY <1>11, <2>1, <2>2, <1>v, <1>w DEF RcvClock, simulators
<1>12. CASE RcvSec
  <2>1. Index(held.seq) \in Indices BY IndexType DEF GeneratorOK
  <2>2. GeneratorOK' BY <1>12, <2>1 DEF RcvSec, GeneratorOK
  <2> QED BY <1>12, <2>2, <1>v, <1>w DEF RcvSec, simulators
<1>13. CASE RcvStore
  <2>1. Index(held.seq) \in Indices BY IndexType DEF GeneratorOK
  <2>2. GeneratorOK' BY <1>13, <2>1 DEF RcvStore, Turn, GeneratorOK, Nothing
  <2> QED BY <1>13, <2>2, <1>v, <1>w DEF RcvStore, simulators
<1> QED
  BY <1>1, <1>2, <1>3, <1>4, <1>5, <1>6, <1>7, <1>8, <1>9, <1>10, <1>11, <1>12, <1>13
     DEF Generator, Receiver

LEMMA StepTypes ==
  ASSUME AssociationOK, SimulatorsOK, GeneratorOK, [Next]_vars
  PROVE  AssociationOK' /\ SimulatorsOK' /\ GeneratorOK'
<1>1. ASSUME NEW e \in Ends, Simulator(e) /\ UNCHANGED generator
      PROVE  AssociationOK' /\ SimulatorsOK' /\ GeneratorOK'
  BY <1>1, SimulatorTypes DEF GeneratorOK, generator
<1>2. CASE Setup \/ Generator \/ Receiver BY <1>2, GeneratorTypes
<1>3. CASE External BY <1>3, ExternalTypes
<1>4. CASE UNCHANGED vars
  BY <1>4 DEF vars, simulators, generator, association, AssociationOK, SimulatorsOK, GeneratorOK
<1> QED BY <1>1, <1>2, <1>3, <1>4 DEF Next

\* Type correctness of the simulators and generators.
THEOREM TypeCorrect == Spec => []TypeOK
<1> DEFINE I == AssociationOK /\ SimulatorsOK /\ GeneratorOK
<1>1. Init => I BY InitTypes
<1>2. I /\ [Next]_vars => I' BY StepTypes
<1>3. I => TypeOK BY Parts
<1> QED BY <1>1, <1>2, <1>3, PTL DEF Spec

--------------------------------------------------------------------------------
(* Every message that is on its way has its stamp, or a newer one, in the  *)
(* array, but for the last one while the generator has yet to store it.    *)

Typed == AssociationOK /\ SimulatorsOK /\ GeneratorOK

\* The threads exist only after wg_setup, and those of wg_serial take turns.
Threads ==
  /\ (gen # "idle" \/ rcv # "idle") => todo["server"] = <<"generate">>
  /\ (Serial /\ rcv # "idle") => gen = "wait"

Stamped(seq, nr) ==
  /\ nr <= produced
  /\ msg_ts[Index(seq)] >= nr \/ (gen = "stamp" /\ nr = produced /\ seq = count)

Holding == {"check", "clock", "sec", "nsec"}

AllStamped ==
  /\ \A e \in Ends : \A i \in 1 .. Len(to[e]) : Stamped(to[e][i].seq, to[e][i].nr)
  /\ rcv \in Holding => Stamped(held.seq, held.nr)

LEMMA AtServer == todo["server"] = <<"generate">> => At("server") = "generate"
  BY DEF At

\* Nobody but wg_setup and the simulators' own loops is at work before the threads exist.
LEMMA SetupIsFirst ==
  ASSUME Threads, gen # "idle" \/ rcv # "idle"
  PROVE  /\ ~Setup /\ ~Simulator("server")
<1>1. At("server") = "generate" BY AtServer DEF Threads
<1>2. ~Setup BY <1>1 DEF Setup, Step
<1>3. ~Simulator("server")
  <2>1. ~Receives("server") BY <1>1 DEF Receives
  <2>2. ~Sends("server") BY <1>1 DEF Sends, Types, Requests, Indications
  <2> QED
    BY <2>1, <2>2 DEF Simulator, HandleMessage, Undecodable, Disconnected, ReceiveError, SendNext, SendError
<1> QED BY <1>2, <1>3

LEMMA ThreadsStep ==
  ASSUME Typed, Threads, [Next]_vars
  PROVE  Threads'
<1>0. "server" \in Ends /\ "client" \in Ends /\ "server" # "client" BY DEF Ends
<1>p. todo \in [Ends -> Seq(Steps)] BY DEF Typed, SimulatorsOK
<1>1. ASSUME NEW e \in Ends, Simulator(e) /\ UNCHANGED generator PROVE Threads'
  <2>1. UNCHANGED program
    BY <1>1 DEF Simulator, HandleMessage, Undecodable, Disconnected, ReceiveError, SendNext, SendError
  <2>2. CASE gen = "idle" /\ rcv = "idle" BY <1>1, <2>2 DEF Threads, generator
  <2>3. CASE gen # "idle" \/ rcv # "idle"
    <3>1. e # "server" BY <1>1, <2>3, SetupIsFirst
    <3>2. todo'["server"] = todo["server"]
      BY <1>0, <1>1, <1>p, <3>1
         DEF Simulator, HandleMessage, Undecodable, Disconnected, ReceiveError, SendNext, SendError, Do
    <3> QED BY <1>1, <2>1, <3>2 DEF Threads, Serial, generator
  <2> QED BY <2>2, <2>3
<1>2. CASE Setup
  <2>1. gen = "idle" /\ rcv = "idle" BY <1>2, SetupIsFirst
  <2>2. UNCHANGED program BY <1>2 DEF Setup
  <2> QED BY <1>0, <1>2, <1>p, <2>1, <2>2 DEF Setup, Threads, Serial, Do
<1>3. CASE GenSend BY <1>3 DEF GenSend, Threads, Serial
<1>4. CASE EncodeFails \/ GenError
  BY <1>4 DEF EncodeFails, GenError, Threads, Serial, generator
<1>5. CASE Stamp BY <1>5 DEF Stamp, Threads, Serial, simulators
<1>6. CASE WgDisconnected \/ WgReceiveError \/ WgUndecodable
  BY <1>6 DEF WgDisconnected, WgReceiveError, WgUndecodable, Threads, Serial, generator
<1>7. CASE RcvReceive BY <1>7 DEF RcvReceive, Threads, Serial
<1>8. CASE RcvCheck BY <1>8 DEF RcvCheck, Turn, Threads, Serial, simulators
<1>9. CASE RcvClock BY <1>9 DEF RcvClock, Threads, Serial, simulators
<1>10. CASE RcvSec BY <1>10 DEF RcvSec, Threads, Serial, simulators
<1>11. CASE RcvStore BY <1>11 DEF RcvStore, Turn, Threads, Serial, simulators
<1>12. CASE External
  BY <1>12 DEF External, RicSend, RicLeaves, RicReads, RicAnswers, Threads, Serial, generator
<1>13. CASE UNCHANGED vars
  BY <1>13 DEF vars, simulators, generator, Threads, Serial
<1> QED
  BY <1>1, <1>2, <1>3, <1>4, <1>5, <1>6, <1>7, <1>8, <1>9, <1>10, <1>11, <1>12, <1>13
     DEF Next, Generator, Receiver

\* A message that has its stamp keeps it, or gets a newer one.
LEMMA StampedStep ==
  ASSUME Typed, Threads, [Next]_vars, NEW seq \in Nat, NEW nr \in Nat, Stamped(seq, nr)
  PROVE  Stamped(seq, nr)'
<1>0. Index(seq) \in Indices BY IndexType
<1>t. /\ produced \in Nat /\ count \in Nat /\ msg_ts \in [Indices -> Nat] /\ msg_ts[Index(seq)] \in Nat
  BY <1>0 DEF Typed, GeneratorOK
<1>u. ASSUME UNCHANGED <<gen, count, produced, msg_ts>> PROVE Stamped(seq, nr)'
  BY <1>u DEF Stamped
<1>v. ASSUME gen # "stamp", UNCHANGED msg_ts, produced' \in Nat, produced' >= produced
      PROVE Stamped(seq, nr)'
  BY <1>t, <1>v DEF Stamped
<1>1. ASSUME NEW e \in Ends, Simulator(e) /\ UNCHANGED generator PROVE Stamped(seq, nr)'
  BY <1>1, <1>u DEF generator
<1>2. CASE Setup
  <2>1. gen = "idle" BY <1>2, SetupIsFirst
  <2> QED BY <1>2, <1>t, <1>v, <2>1 DEF Setup
<1>3. CASE GenSend BY <1>3, <1>t, <1>v DEF GenSend
<1>4. CASE EncodeFails \/ GenError BY <1>4, <1>u DEF EncodeFails, GenError, generator
<1>5. CASE Stamp
  <2>1. msg_ts'[Index(seq)] = IF Index(seq) = Index(count) THEN produced ELSE msg_ts[Index(seq)]
    BY <1>0, <1>5, <1>t DEF Stamp
  <2>2. produced' = produced BY <1>5 DEF Stamp
  <2>3. seq = count => Index(seq) = Index(count) OBVIOUS
  <2>4. nr <= produced /\ msg_ts'[Index(seq)] >= nr BY <1>t, <2>1, <2>3 DEF Stamped
  <2> QED BY <2>2, <2>4 DEF Stamped
<1>6. CASE WgDisconnected \/ WgReceiveError \/ WgUndecodable
  BY <1>6, <1>u DEF WgDisconnected, WgReceiveError, WgUndecodable, generator
<1>7. CASE RcvReceive BY <1>7, <1>u DEF RcvReceive
<1>8. CASE RcvCheck \/ RcvStore
  <2>1. CASE Serial
    <3>1. gen = "wait" BY <1>8, <2>1 DEF RcvCheck, RcvStore, Threads
    <3> QED BY <1>8, <1>t, <1>v, <3>1 DEF RcvCheck, RcvStore
  <2>2. CASE ~Serial
    BY <1>8, <1>u, <2>2 DEF RcvCheck, RcvStore, Turn
  <2> QED BY <2>1, <2>2
<1>9. CASE RcvClock \/ RcvSec BY <1>9, <1>u DEF RcvClock, RcvSec
<1>10. CASE External
  BY <1>10, <1>u DEF External, RicReads, RicAnswers, generator
<1>11. CASE UNCHANGED vars BY <1>11, <1>u DEF vars, generator
<1> QED
  BY <1>1, <1>2, <1>3, <1>4, <1>5, <1>6, <1>7, <1>8, <1>9, <1>10, <1>11 DEF Next, Generator, Receiver

\* What a send and a receive do to the queues, message by message.
LEMMA SentQueue ==
  ASSUME AssociationOK, NEW e \in Ends, NEW m \in Messages, Sent(e, m),
         NEW f \in Ends, NEW i \in 1 .. Len(to'[f])
  PROVE  \/ f = Peer(e) /\ i = Len(to[f]) + 1 /\ to'[f][i] = m
         \/ i \in 1 .. Len(to[f]) /\ to'[f][i] = to[f][i]
<1>1. to[f] \in Seq(Messages) BY DEF AssociationOK
<1>2. CASE f = Peer(e)
  <2>1. to'[f] = Append(to[f], m) BY <1>2 DEF Sent, AssociationOK
  <2>2. Len(to'[f]) = Len(to[f]) + 1 /\ Len(to[f]) \in Nat BY <1>1, <2>1, AppendProps
  <2>3. to'[f][i] = IF i = Len(to[f]) + 1 THEN m ELSE to[f][i] BY <1>1, <2>1, <2>2, AppendProps
  <2> QED BY <1>2, <2>2, <2>3
<1>3. CASE f # Peer(e)
  <2>1. to'[f] = to[f] BY <1>3 DEF Sent, AssociationOK
  <2> QED BY <2>1
<1> QED BY <1>2, <1>3

LEMMA GotQueue ==
  ASSUME AssociationOK, NEW e \in Ends, Got(e), NEW f \in Ends, NEW i \in 1 .. Len(to'[f])
  PROVE  \/ f = e /\ i + 1 \in 1 .. Len(to[f]) /\ to'[f][i] = to[f][i + 1]
         \/ f # e /\ i \in 1 .. Len(to[f]) /\ to'[f][i] = to[f][i]
<1>1. to[e] \in Seq(Messages) /\ to[e] # <<>> BY DEF AssociationOK, Got
<1>2. CASE f = e
  <2>1. to'[f] = Tail(to[f]) BY <1>2 DEF Got, AssociationOK
  <2>2. Len(to'[f]) = Len(to[f]) - 1 /\ Len(to[f]) \in Nat BY <1>1, <1>2, <2>1, TailProps
  <2>3. to'[f][i] = to[f][i + 1] BY <1>1, <1>2, <2>1, <2>2, TailProps
  <2> QED BY <1>2, <2>2, <2>3
<1>3. CASE f # e
  <2>1. to'[f] = to[f] BY <1>3 DEF Got, AssociationOK
  <2> QED BY <1>3, <2>1
<1> QED BY <1>2, <1>3

\* An answer goes from the one queue to the end of the other.
LEMMA AnswerQueue ==
  ASSUME AssociationOK, RicAnswers, NEW f \in Ends, NEW i \in 1 .. Len(to'[f])
  PROVE  \/ f = "client" /\ i + 1 \in 1 .. Len(to[f]) /\ to'[f][i] = to[f][i + 1]
         \/ f = "server" /\ i \in 1 .. Len(to[f]) /\ to'[f][i] = to[f][i]
         \/ /\ f = "server" /\ i = Len(to[f]) + 1
            /\ 1 \in 1 .. Len(to["client"]) /\ to'[f][i] = to["client"][1]
<1>0. "client" \in Ends /\ "server" \in Ends BY DEF Ends
<1>1. /\ to["client"] \in Seq(Messages) /\ to["client"] # <<>> /\ to["server"] \in Seq(Messages)
      /\ to'["client"] = Tail(to["client"])
      /\ to'["server"] = Append(to["server"], Head(to["client"]))
  BY <1>0 DEF RicAnswers, AssociationOK
<1>2. /\ Head(to["client"]) \in Messages /\ Head(to["client"]) = to["client"][1]
      /\ Len(to["client"]) \in Nat \ {0} /\ Len(to'["client"]) = Len(to["client"]) - 1
      /\ \A k \in 1 .. Len(to["client"]) - 1 : to'["client"][k] = to["client"][k + 1]
  BY <1>1, TailProps
<1>3. /\ Len(to'["server"]) = Len(to["server"]) + 1 /\ Len(to["server"]) \in Nat
      /\ \A k \in 1 .. Len(to["server"]) + 1 :
            to'["server"][k] = IF k = Len(to["server"]) + 1 THEN Head(to["client"]) ELSE to["server"][k]
  BY <1>1, <1>2, AppendProps
<1>4. CASE f = "client" BY <1>2, <1>4
<1>5. CASE f = "server" BY <1>2, <1>3, <1>5
<1> QED BY <1>4, <1>5 DEF Ends

\* The queues change by a receive, by a send, or by the passing on of an answer.
LEMMA QueueCases ==
  ASSUME Typed, [Next]_vars
  PROVE  \/ UNCHANGED to
         \/ \E f \in Ends : Got(f)
         \/ \E f \in Ends : SendNext(f)
         \/ RicSend
         \/ GenSend
         \/ RicAnswers
<1>0. "client" \in Ends /\ "server" \in Ends BY DEF Ends
<1>x. ASSUME NEW f \in Ends, Exit(f) \/ GotEnd(f) \/ SendFails(f) \/ ReceiveFails(f)
      PROVE  UNCHANGED to
  BY <1>x DEF Exit, GotEnd, SendFails, ReceiveFails
<1>1. ASSUME NEW f \in Ends, Simulator(f) /\ UNCHANGED generator
      PROVE  UNCHANGED to \/ Got(f) \/ SendNext(f)
  <2>1. CASE HandleMessage(f) BY <2>1 DEF HandleMessage
  <2>2. CASE Undecodable(f) \/ Disconnected(f) \/ ReceiveError(f) \/ SendError(f)
    BY <1>x, <2>2 DEF Undecodable, Disconnected, ReceiveError, SendError
  <2> QED BY <1>1, <2>1, <2>2 DEF Simulator
<1>2. CASE Setup BY <1>0, <1>2 DEF Setup
<1>4. CASE EncodeFails \/ GenError BY <1>0, <1>4, <1>x DEF EncodeFails, GenError
<1>5. CASE Stamp \/ RcvCheck \/ RcvClock \/ RcvSec \/ RcvStore
  BY <1>5 DEF Stamp, RcvCheck, RcvClock, RcvSec, RcvStore, simulators, association
<1>6. CASE WgDisconnected \/ WgReceiveError \/ WgUndecodable
  BY <1>0, <1>6, <1>x DEF WgDisconnected, WgReceiveError, WgUndecodable
<1>7. CASE RcvReceive BY <1>0, <1>7 DEF RcvReceive
<1>9. CASE RicLeaves BY <1>0, <1>9, <1>x DEF RicLeaves
<1>10. CASE RicReads BY <1>0, <1>10 DEF RicReads
<1>12. CASE UNCHANGED vars BY <1>12 DEF vars, simulators, association
<1> QED
  BY <1>1, <1>2, <1>4, <1>5, <1>6, <1>7, <1>9, <1>10, <1>12
     DEF Next, Generator, Receiver, External

LEMMA PlainTypes ==
  ASSUME NEW type \in Types
  PROVE  Plain(type) \in Messages /\ Plain(type).nr = 0 /\ Plain(type).seq \in Nat /\ Plain(type).type = type
  BY MessageTypes DEF Plain

LEMMA PlainSent ==
  /\ \A f \in Ends : SendNext(f) => At(f) \in Types /\ Sent(f, Plain(At(f)))
  /\ RicSend => \E type \in Types : MaySend(type) /\ Sent("client", Plain(type)) /\ ricSent' = Append(ricSent, type)
  BY DEF SendNext, Sends, RicSend, Types

LEMMA GeneratedMessage ==
  ASSUME Typed, GenSend
  PROVE  \E m \in Messages : /\ Sent("server", m) /\ m.type = "RICsubscriptionResponse"
                             /\ m.nr = produced' /\ m.seq = count'
<1>1. NextCount(count) \in 0 .. Fixed
  BY SimulatorAssumption DEF GenSend, NextCount, GeneratorOK, Fixed, Typed
<1>2. [type |-> "RICsubscriptionResponse", seq |-> NextCount(count), nr |-> produced + 1] \in Messages
  BY <1>1 DEF Messages, Types, GeneratorOK, Typed
<1> QED BY <1>2 DEF GenSend

\* Every message on its way was there before, carries no number of a generator, or is new.
LEMMA QueueOrigin ==
  ASSUME Typed, [Next]_vars, NEW e \in Ends, NEW i \in 1 .. Len(to'[e])
  PROVE  \/ \E f \in Ends : \E j \in 1 .. Len(to[f]) : to'[e][i] = to[f][j]
         \/ to'[e][i].nr = 0 /\ to'[e][i].seq \in Nat
         \/ GenSend /\ to'[e][i].nr = produced' /\ to'[e][i].seq = count'
<1>0. "client" \in Ends /\ "server" \in Ends /\ AssociationOK BY DEF Ends, Typed
<1>1. CASE UNCHANGED to
  <2>1. i \in 1 .. Len(to[e]) /\ to'[e][i] = to[e][i] BY <1>1
  <2> QED BY <2>1
<1>2. ASSUME NEW f \in Ends, Got(f)
      PROVE  \E j \in 1 .. Len(to[e]) : to'[e][i] = to[e][j]
  BY <1>0, <1>2, GotQueue
<1>3. ASSUME NEW f \in Ends, NEW type \in Types, Sent(f, Plain(type))
      PROVE  \/ i \in 1 .. Len(to[e]) /\ to'[e][i] = to[e][i]
             \/ to'[e][i].nr = 0 /\ to'[e][i].seq \in Nat
  BY <1>0, <1>3, PlainTypes, SentQueue
<1>4. CASE GenSend BY <1>0, <1>4, GeneratedMessage, SentQueue
<1>5. CASE RicAnswers BY <1>0, <1>5, AnswerQueue
<1>6. CASE RicSend \/ \E f \in Ends : SendNext(f) BY <1>0, <1>3, <1>6, PlainSent
<1> QED BY <1>1, <1>2, <1>4, <1>5, <1>6, QueueCases

LEMMA MessageNumbers ==
  ASSUME Typed, NEW e \in Ends, NEW i \in 1 .. Len(to[e])
  PROVE  to[e][i] \in Messages /\ to[e][i].seq \in Nat /\ to[e][i].nr \in Nat
<1>1. to[e] \in Seq(Messages) BY DEF Typed, AssociationOK
<1>2. to[e][i] \in Messages BY <1>1
<1> QED BY <1>2, MessageTypes

LEMMA StampedInit == Init => Threads /\ AllStamped
<1> SUFFICES ASSUME Init PROVE Threads /\ AllStamped OBVIOUS
<1>1. Threads BY DEF Init, Threads
<1>2. \A e \in Ends : Len(to[e]) = 0 BY DEF Init, InitSimulators, Connected
<1> QED BY <1>1, <1>2 DEF Init, AllStamped, Holding

LEMMA AllStampedStep ==
  ASSUME Typed, Typed', Threads, AllStamped, [Next]_vars
  PROVE  AllStamped'
<1>0. "server" \in Ends BY DEF Ends
<1>1. ASSUME NEW e \in Ends, NEW i \in 1 .. Len(to'[e])
      PROVE  Stamped(to[e][i].seq, to[e][i].nr)'
  <2>1. CASE \E f \in Ends : \E j \in 1 .. Len(to[f]) : to'[e][i] = to[f][j]
    <3>0. PICK f \in Ends : \E j \in 1 .. Len(to[f]) : to'[e][i] = to[f][j] BY <2>1
    <3>1. PICK j \in 1 .. Len(to[f]) : to'[e][i] = to[f][j] BY <3>0
    <3>2. PICK seq \in Nat, nr \in Nat : seq = to[f][j].seq /\ nr = to[f][j].nr BY MessageNumbers
    <3>3. Stamped(seq, nr) BY <3>2 DEF AllStamped
    <3>4. Stamped(seq, nr)' BY <3>3, StampedStep
    <3> QED BY <3>1, <3>2, <3>4 DEF Stamped
  <2>2. CASE to'[e][i].nr = 0 /\ to'[e][i].seq \in Nat
    <3>1. Index(to'[e][i].seq) \in Indices BY <2>2, IndexType
    <3>2. msg_ts'[Index(to'[e][i].seq)] \in Nat /\ produced' \in Nat BY <3>1 DEF Typed, GeneratorOK
    <3> QED BY <2>2, <3>2 DEF Stamped
  <2>3. CASE GenSend /\ to'[e][i].nr = produced' /\ to'[e][i].seq = count'
    <3>1. gen' = "stamp" /\ produced' \in Nat BY <2>3 DEF GenSend, Typed, GeneratorOK
    <3> QED BY <2>3, <3>1 DEF Stamped
  <2> QED BY <2>1, <2>2, <2>3, QueueOrigin
<1>2. ASSUME rcv' \in Holding PROVE Stamped(held.seq, held.nr)'
  <2>1. CASE RcvReceive
    <3>1. to["server"] \in Seq(Messages) /\ to["server"] # <<>>
      BY <1>0, <2>1 DEF RcvReceive, Got, Typed, AssociationOK
    <3>2. Head(to["server"]) = to["server"][1] /\ 1 \in 1 .. Len(to["server"]) BY <3>1, TailProps
    <3>3. PICK seq \in Nat, nr \in Nat : seq = to["server"][1].seq /\ nr = to["server"][1].nr
      BY <1>0, <3>2, MessageNumbers
    <3>4. Stamped(seq, nr) BY <1>0, <3>2, <3>3 DEF AllStamped
    <3>5. Stamped(seq, nr)' BY <3>4, StampedStep
    <3>6. held'.seq = seq /\ held'.nr = nr BY <2>1, <3>2, <3>3 DEF RcvReceive, Nothing
    <3> QED BY <3>5, <3>6 DEF Stamped
  <2>2. CASE rcv \in Holding /\ held'.seq = held.seq /\ held'.nr = held.nr
    <3>1. PICK seq \in Nat, nr \in Nat : seq = held.seq /\ nr = held.nr BY DEF Typed, GeneratorOK
    <3>2. Stamped(seq, nr) BY <2>2, <3>1 DEF AllStamped
    <3>3. Stamped(seq, nr)' BY <3>2, StampedStep
    <3> QED BY <2>2, <3>1, <3>3 DEF Stamped
  <2>3. RcvReceive \/ (rcv \in Holding /\ held'.seq = held.seq /\ held'.nr = held.nr)
    <3>t. held \in [seq : Nat, nr : Nat, clock : Nat, sec : Nat] BY DEF Typed, GeneratorOK
    <3>1. ASSUME UNCHANGED <<rcv, held>> PROVE rcv \in Holding /\ held'.seq = held.seq /\ held'.nr = held.nr
      BY <1>2, <3>1
    <3>2. CASE \E e \in Ends : Simulator(e) /\ UNCHANGED generator BY <3>1, <3>2 DEF generator
    <3>3. CASE Setup BY <1>2, <3>3 DEF Setup, Holding
    <3>4. CASE Generator
      BY <1>2, <3>1, <3>4 DEF Generator, GenSend, EncodeFails, GenError, Stamp, generator, Holding
    <3>5. CASE WgDisconnected \/ WgReceiveError \/ WgUndecodable
      BY <3>1, <3>5 DEF WgDisconnected, WgReceiveError, WgUndecodable, generator
    <3>6. CASE RcvCheck BY <1>2, <3>6 DEF RcvCheck, Turn, Holding
    <3>7. CASE RcvClock BY <3>7, <3>t DEF RcvClock, Holding
    <3>8. CASE RcvSec BY <3>8, <3>t DEF RcvSec, Holding
    <3>9. CASE RcvStore BY <1>2, <3>9 DEF RcvStore, Turn, Holding
    <3>10. CASE External BY <3>1, <3>10 DEF External, RicReads, RicAnswers, generator
    <3>11. CASE UNCHANGED vars BY <3>1, <3>11 DEF vars, generator
    <3> QED
      BY <3>2, <3>3, <3>4, <3>5, <3>6, <3>7, <3>8, <3>9, <3>10, <3>11 DEF Next, Receiver
  <2> QED BY <2>1, <2>2, <2>3
<1> QED BY <1>1, <1>2 DEF AllStamped

\* wg_concur's race is no wider than the gap between the send and the stamp of one message.
THEOREM OldStampOnlyInWindowHolds == Spec => []OldStampOnlyInWindow
<1> DEFINE I == Typed /\ Threads /\ AllStamped
<1>1. Init => I BY InitTypes, StampedInit DEF Typed
<1>2. I /\ [Next]_vars => I'
  <2> SUFFICES ASSUME I, [Next]_vars PROVE I' OBVIOUS
  <2>1. Typed' BY StepTypes DEF Typed
  <2> QED BY <2>1, ThreadsStep, AllStampedStep
<1>3. I => OldStampOnlyInWindow
  <2> SUFFICES ASSUME I, rcv \in Holding, msg_ts[Index(held.seq)] < held.nr
               PROVE  gen = "stamp" /\ held.nr = produced
    BY DEF OldStampOnlyInWindow, Holding
  <2>1. held.seq \in Nat /\ held.nr \in Nat BY DEF Typed, GeneratorOK
  <2>2. msg_ts[Index(held.seq)] \in Nat BY <2>1, IndexType DEF Typed, GeneratorOK
  <2> QED BY <2>1, <2>2 DEF AllStamped, Stamped
<1> QED BY <1>1, <1>2, <1>3, PTL DEF Spec

--------------------------------------------------------------------------------
(* wg_setup and what reaches a generator afterwards: when the threads      *)
(* exist, nothing is on its way to it but answers and what ends it.        *)

IsWg == program["server"] # "e2sim"

Offers == {"ENDCX2SetupResponse", "RICsubscriptionResponse"}

\* Where wg_setup and the client are, and what the generator sends.
Plans ==
  /\ program["server"] \in Servers /\ program["client"] \in Clients
  /\ program["client"] = "ric" => todo["client"] = <<>>
  /\ IsWg =>
       /\ todo["server"] \in {<<"first">>, <<"ENDCX2SetupResponse", "RICsubscriptionResponse", "offered">>,
                              <<"RICsubscriptionResponse", "offered">>, <<"offered">>, <<"generate">>}
       /\ program["client"] = "ricsim" =>
            todo["client"] \in {<<"ENDCX2SetupRequest", "receive", "RICsubscriptionRequest">>,
                               <<"receive", "RICsubscriptionRequest">>, <<"RICsubscriptionRequest">>, <<>>}
       /\ \A i \in 1 .. Len(to["client"]) : to["client"][i].type \in Offers

\* The client has sent its subscription.
Asked ==
  IF program["client"] = "ricsim" THEN todo["client"] = <<>>
  ELSE \E i \in DOMAIN ricSent : ricSent[i] = "RICsubscriptionRequest"

Late(m) == m.type = "garbage" \/ m.nr # 0

Order ==
  IsWg =>
    /\ ~Asked => /\ gen = "idle"
                 /\ \A i \in 1 .. Len(to["server"]) : to["server"][i].type # "RICsubscriptionRequest"
    /\ \A i, j \in 1 .. Len(to["server"]) :
         i < j /\ to["server"][i].type = "RICsubscriptionRequest" => Late(to["server"][j])
    /\ gen # "idle" => \A i \in 1 .. Len(to["server"]) : Late(to["server"][i])

LEMMA PlanFacts ==
  ASSUME NEW S, NEW x \in S, NEW y \in S, NEW z \in S
  PROVE  /\ Head(<<x>>) = x /\ Tail(<<x>>) = <<>> /\ Head(<<x, y>>) = x /\ Tail(<<x, y>>) = <<y>>
         /\ Head(<<x, y, z>>) = x /\ Tail(<<x, y, z>>) = <<y, z>>
         /\ <<x>> # <<>> /\ <<x, y>> # <<>> /\ <<x, y, z>> # <<>>
         /\ <<>> \o <<>> = <<>> /\ <<>> \o <<x>> = <<x>> /\ <<>> \o <<x, y>> = <<x, y>>
<1>1. Head(<<x>>) = x /\ Tail(<<x>>) = <<>> OBVIOUS
<1>2. Head(<<x, y>>) = x /\ Tail(<<x, y>>) = <<y>> OBVIOUS
<1>3. Head(<<x, y, z>>) = x OBVIOUS
<1>3b. Tail(<<x, y, z>>) = <<y, z>> OBVIOUS
<1>4. <<x>> # <<>> /\ <<x, y>> # <<>> /\ <<x, y, z>> # <<>> OBVIOUS
<1>5. <<>> \o <<>> = <<>> OBVIOUS
<1>6. <<>> \o <<x>> = <<x>> OBVIOUS
<1>7. <<>> \o <<x, y>> = <<x, y>> OBVIOUS
<1> QED BY <1>1, <1>2, <1>3, <1>3b, <1>4, <1>5, <1>6, <1>7

LEMMA PlanTails ==
  /\ Head(<<"ENDCX2SetupRequest", "receive", "RICsubscriptionRequest">>) = "ENDCX2SetupRequest"
  /\ Tail(<<"ENDCX2SetupRequest", "receive", "RICsubscriptionRequest">>) = <<"receive", "RICsubscriptionRequest">>
  /\ Head(<<"receive", "RICsubscriptionRequest">>) = "receive"
  /\ Tail(<<"receive", "RICsubscriptionRequest">>) = <<"RICsubscriptionRequest">>
  /\ Head(<<"RICsubscriptionRequest">>) = "RICsubscriptionRequest"
  /\ Tail(<<"RICsubscriptionRequest">>) = <<>>
  /\ Head(<<"ENDCX2SetupResponse", "RICsubscriptionResponse", "offered">>) = "ENDCX2SetupResponse"
  /\ Tail(<<"ENDCX2SetupResponse", "RICsubscriptionResponse", "offered">>) = <<"RICsubscriptionResponse", "offered">>
  /\ Head(<<"RICsubscriptionResponse", "offered">>) = "RICsubscriptionResponse"
  /\ Tail(<<"RICsubscriptionResponse", "offered">>) = <<"offered">>
  /\ Head(<<"offered">>) = "offered" /\ Head(<<"first">>) = "first" /\ Head(<<"generate">>) = "generate"
<1>1. ASSUME NEW x, NEW y, NEW z
      PROVE  /\ Head(<<x>>) = x /\ Tail(<<x>>) = <<>> /\ Head(<<x, y>>) = x /\ Tail(<<x, y>>) = <<y>>
             /\ Head(<<x, y, z>>) = x /\ Tail(<<x, y, z>>) = <<y, z>>
  <2> DEFINE S == {x, y, z}
  <2>1. x \in S /\ y \in S /\ z \in S OBVIOUS
  <2> HIDE DEF S
  <2> QED BY <2>1, PlanFacts
<1> QED BY <1>1

LEMMA AgainOnce == ASSUME NEW t, t \notin Indications PROVE Again(t) = <<>>
<1>1. t # "type1" /\ t # "type2" /\ t # "ResourceStatusUpdate" BY DEF Indications
<1> QED BY <1>1 DEF Again

\* What a simulator at the client's end does to its own plan, and wg_setup's sends to the server's.
LEMMA ClientPlan ==
  ASSUME Plans, IsWg, Typed, program["client"] = "ricsim", Simulator("client")
  PROVE  /\ todo'["client"] \in {<<"ENDCX2SetupRequest", "receive", "RICsubscriptionRequest">>,
                                 <<"receive", "RICsubscriptionRequest">>, <<"RICsubscriptionRequest">>, <<>>}
         /\ Asked => todo'["client"] = <<>>
         /\ SendNext("client") => ~Asked /\ (At("client") = "RICsubscriptionRequest" => todo'["client"] = <<>>)
         /\ todo'["server"] = todo["server"]
<1>0. "client" \in Ends /\ "server" \in Ends /\ "client" # "server" BY DEF Ends
<1>t. todo \in [Ends -> Seq(Steps)] BY DEF Typed, SimulatorsOK
<1>p. todo["client"] \in {<<"ENDCX2SetupRequest", "receive", "RICsubscriptionRequest">>,
                         <<"receive", "RICsubscriptionRequest">>, <<"RICsubscriptionRequest">>, <<>>}
  BY DEF Plans
<1>s. HandleMessage("client") \/ Disconnected("client") => ~SendNext("client")
  BY DEF HandleMessage, Disconnected, Receives, SendNext, Sends, Types, Requests, Indications
<1>r. At("client") = "receive" => Rest("client") \in {<<"RICsubscriptionRequest">>, <<>>}
                                 /\ (todo["client"] = <<>> => Rest("client") = <<>>)
  <2>1. CASE todo["client"] = <<"ENDCX2SetupRequest", "receive", "RICsubscriptionRequest">>
    BY <2>1, PlanTails, PlanFacts DEF At
  <2>2. CASE todo["client"] = <<"receive", "RICsubscriptionRequest">>
    <3>1. todo["client"] # <<>> /\ Tail(todo["client"]) = <<"RICsubscriptionRequest">>
      BY <2>2, PlanTails, PlanFacts
    <3> QED BY <3>1 DEF Rest
  <2>3. CASE todo["client"] = <<"RICsubscriptionRequest">> BY <2>3, PlanTails, PlanFacts DEF At
  <2>4. CASE todo["client"] = <<>> BY <2>4 DEF Rest
  <2> QED BY <1>p, <2>1, <2>2, <2>3, <2>4
<1>1. CASE HandleMessage("client")
  <2>1. to["client"] \in Seq(Messages) /\ to["client"] # <<>>
    BY <1>0, <1>1 DEF HandleMessage, Got, Typed, AssociationOK
  <2>2. Head(to["client"]) = to["client"][1] /\ 1 \in 1 .. Len(to["client"]) BY <2>1, TailProps
  <2>3. Head(to["client"]).type \in Offers BY <2>2 DEF Plans
  <2>4. Reply(Head(to["client"]).type) = <<>> BY <2>3 DEF Reply, Offers
  <2>5. At("client") = "receive" BY <1>1 DEF HandleMessage, Receives
  <2>6. Reply(Head(to["client"]).type) \o Rest("client") = Rest("client")
    BY <1>r, <2>4, <2>5, PlanFacts
  <2>7. todo' = [todo EXCEPT !["client"] = Rest("client")] BY <1>1, <2>6 DEF HandleMessage, Do
  <2> QED BY <1>0, <1>1, <1>r, <1>s, <1>t, <2>5, <2>7 DEF Asked
<1>2. CASE Disconnected("client")
  <2>1. At("client") = "receive" BY <1>2 DEF Disconnected, Receives
  <2>2. todo' = [todo EXCEPT !["client"] = Rest("client")] BY <1>2 DEF Disconnected, Do
  <2> QED BY <1>0, <1>2, <1>r, <1>s, <1>t, <2>1, <2>2 DEF Asked
<1>3. CASE SendNext("client")
  <2>1. At("client") \in Types BY <1>3 DEF SendNext, Sends
  <2>2. todo["client"] \in {<<"ENDCX2SetupRequest", "receive", "RICsubscriptionRequest">>,
                           <<"RICsubscriptionRequest">>}
    BY <1>p, <2>1, PlanFacts DEF At, Types, Requests, Indications
  <2>n. todo["client"] # <<>> BY <2>2, PlanFacts
  <2>h. Head(todo["client"]) \in {"ENDCX2SetupRequest", "RICsubscriptionRequest"} BY <2>2, PlanTails
  <2>a. At("client") \notin Indications BY <2>n, <2>h DEF At, Indications
  <2>3. Again(At("client")) = <<>> /\ Tail(todo["client"]) \in {<<"receive", "RICsubscriptionRequest">>, <<>>}
    BY <2>2, <2>a, AgainOnce, PlanTails
  <2>4. Again(At("client")) \o Tail(todo["client"]) = Tail(todo["client"]) BY <2>3, PlanFacts
  <2>5. todo' = [todo EXCEPT !["client"] = Tail(todo["client"])] BY <1>3, <2>4 DEF SendNext, Do
  <2>6. At("client") = "RICsubscriptionRequest" => Tail(todo["client"]) = <<>>
    BY <2>2, <2>n, PlanTails DEF At
  <2>7. ~Asked BY <2>n DEF Asked
  <2>8. todo'["client"] = Tail(todo["client"]) /\ todo'["server"] = todo["server"] BY <1>0, <1>t, <2>5
  <2> QED BY <2>3, <2>6, <2>7, <2>8
<1>4. CASE ~SendNext("client") /\ (Undecodable("client") \/ ReceiveError("client") \/ SendError("client"))
  BY <1>4, <1>p DEF Undecodable, ReceiveError, SendError, Asked
<1> QED BY <1>1, <1>2, <1>3, <1>4 DEF Simulator

LEMMA ServerPlan ==
  ASSUME Plans, IsWg, Typed, Simulator("server")
  PROVE  /\ todo'["server"] \in {<<"RICsubscriptionResponse", "offered">>, <<"offered">>, todo["server"]}
         /\ todo'["client"] = todo["client"]
         /\ SendNext("server") => At("server") \in Offers
         /\ SendNext("server") \/ SendError("server")
<1>0. "client" \in Ends /\ "server" \in Ends /\ "client" # "server" BY DEF Ends
<1>t. todo \in [Ends -> Seq(Steps)] BY DEF Typed, SimulatorsOK
<1>1. ~Receives("server") BY DEF Receives, Plans, IsWg, Servers
<1>2. SendNext("server") \/ SendError("server")
  BY <1>1 DEF Simulator, HandleMessage, Undecodable, Disconnected, ReceiveError
<1>3. CASE SendNext("server")
  <2>1. At("server") \in Types BY <1>3 DEF SendNext, Sends
  <2>2. todo["server"] \in {<<"ENDCX2SetupResponse", "RICsubscriptionResponse", "offered">>,
                           <<"RICsubscriptionResponse", "offered">>}
    BY <2>1, PlanFacts DEF Plans, At, Types, Requests, Indications
  <2>3. At("server") \in Offers BY <2>2, PlanFacts DEF At, Offers
  <2>4. /\ Again(At("server")) = <<>>
        /\ Tail(todo["server"]) \in {<<"RICsubscriptionResponse", "offered">>, <<"offered">>}
    <3>1. At("server") \notin Indications BY <2>3 DEF Offers, Indications
    <3> QED BY <2>2, <3>1, AgainOnce, PlanTails
  <2>5. Again(At("server")) \o Tail(todo["server"]) = Tail(todo["server"]) BY <2>4, PlanFacts
  <2>6. todo' = [todo EXCEPT !["server"] = Tail(todo["server"])] BY <1>3, <2>5 DEF SendNext, Do
  <2> QED BY <1>0, <1>t, <1>3, <2>3, <2>4, <2>6
<1>4. CASE SendError("server") /\ ~SendNext("server") BY <1>4 DEF SendError
<1> QED BY <1>2, <1>3, <1>4

LEMMA PlansStep ==
  ASSUME Typed, Plans, [Next]_vars
  PROVE  Plans' /\ program' = program /\ (IsWg => (Asked => Asked'))
<1>0. "client" \in Ends /\ "server" \in Ends /\ "client" # "server" /\ AssociationOK BY DEF Ends, Typed
<1>t. todo \in [Ends -> Seq(Steps)] /\ ricSent \in Seq(Types) BY DEF Typed, SimulatorsOK
<1>c. program["client"] \in {"ricsim", "ric"} BY DEF Plans, Clients
\* The client's queue.
<1>q. ASSUME IsWg, NEW i \in 1 .. Len(to'["client"]) PROVE to'["client"][i].type \in Offers
  <2>1. CASE UNCHANGED to
    <3>1. i \in 1 .. Len(to["client"]) /\ to'["client"][i] = to["client"][i] BY <2>1
    <3> QED BY <1>q, <3>1 DEF Plans
  <2>2. ASSUME NEW f \in Ends, Got(f) PROVE to'["client"][i].type \in Offers
    BY <1>0, <1>q, <2>2, GotQueue DEF Plans
  <2>3. CASE GenSend BY <1>0, <1>q, <2>3, GeneratedMessage, SentQueue DEF Plans, Offers
  <2>4. CASE RicAnswers BY <1>0, <1>q, <2>4, AnswerQueue DEF Plans
  <2>5. ASSUME NEW f \in Ends, NEW type \in Types, Sent(f, Plain(type)), f = "server" => type \in Offers
        PROVE  to'["client"][i].type \in Offers
    <3>1. Peer(f) = "client" => f = "server" BY DEF Peer, Ends
    <3> QED BY <1>0, <1>q, <2>5, <3>1, PlainTypes, SentQueue DEF Plans
  <2>6. ASSUME NEW f \in Ends, SendNext(f) PROVE to'["client"][i].type \in Offers
    <3>1. f = "server" => At(f) \in Offers BY <1>q, <2>6, ServerPlan DEF Simulator
    <3> QED BY <2>5, <2>6, <3>1, PlainSent
  <2>7. CASE RicSend BY <1>0, <2>5, <2>7, PlainSent
  <2> QED BY <2>1, <2>2, <2>3, <2>4, <2>6, <2>7, QueueCases
\* The plans.
<1>u. ASSUME UNCHANGED <<program, todo>>, UNCHANGED ricSent \/ \E type : ricSent' = Append(ricSent, type)
      PROVE Plans' /\ program' = program /\ (Asked => Asked')
  <2>1. Plans' BY <1>u, <1>q DEF Plans, IsWg
  <2>2. Asked => Asked' BY <1>t, <1>u DEF Asked
  <2> QED BY <1>u, <2>1, <2>2
<1>1. CASE Simulator("client") /\ UNCHANGED generator
  <2>1. program' = program /\ ricSent' = ricSent
    BY <1>1 DEF Simulator, HandleMessage, Undecodable, Disconnected, ReceiveError, SendNext, SendError
  <2>2. todo'["server"] = todo["server"]
    BY <1>0, <1>1, <1>t
       DEF Simulator, HandleMessage, Undecodable, Disconnected, ReceiveError, SendNext, SendError, Do
  <2>3. CASE program["client"] = "ric"
    <3>1. ~Receives("client") BY <2>3 DEF Receives
    <3>2. At("client") \notin Types BY <2>3 DEF Plans, At, Types, Requests, Indications
    <3>3. FALSE
      BY <1>1, <3>1, <3>2
         DEF Simulator, HandleMessage, Undecodable, Disconnected, ReceiveError, SendNext, SendError, Sends
    <3> QED BY <3>3
  <2>4. CASE program["client"] = "ricsim" /\ IsWg
    BY <1>1, <1>q, <2>1, <2>2, <2>4, ClientPlan DEF Plans, Asked, IsWg
  <2>5. CASE program["client"] = "ricsim" /\ ~IsWg
    BY <2>1, <2>5 DEF Plans, Asked, IsWg
  <2> QED BY <1>c, <2>3, <2>4, <2>5
<1>2. CASE Simulator("server") /\ UNCHANGED generator
  <2>1. program' = program /\ ricSent' = ricSent
    BY <1>2 DEF Simulator, HandleMessage, Undecodable, Disconnected, ReceiveError, SendNext, SendError
  <2>2. todo'["client"] = todo["client"]
    BY <1>0, <1>2, <1>t
       DEF Simulator, HandleMessage, Undecodable, Disconnected, ReceiveError, SendNext, SendError, Do
  <2>3. Asked => Asked' BY <2>1, <2>2 DEF Asked
  <2>4. IsWg => todo'["server"] \in {<<"RICsubscriptionResponse", "offered">>, <<"offered">>, todo["server"]}
    BY <1>2, ServerPlan
  <2> QED BY <1>q, <2>1, <2>2, <2>3, <2>4 DEF Plans, IsWg
<1>3. CASE Setup
  <2>1. /\ program' = program /\ ricSent' = ricSent /\ todo'["client"] = todo["client"]
        /\ todo'["server"] \in {<<"ENDCX2SetupResponse", "RICsubscriptionResponse", "offered">>,
                               <<"RICsubscriptionResponse", "offered">>, <<"generate">>}
    BY <1>0, <1>3, <1>t DEF Setup, Do
  <2>2. Asked => Asked' BY <2>1 DEF Asked
  <2> QED BY <1>q, <2>1, <2>2 DEF Plans, IsWg
<1>4. CASE Generator
  BY <1>4, <1>u DEF Generator, GenSend, EncodeFails, GenError, Stamp, simulators
<1>5. CASE Receiver
  BY <1>5, <1>u DEF Receiver, WgDisconnected, WgReceiveError, WgUndecodable, RcvReceive, RcvCheck, RcvClock,
                    RcvSec, RcvStore, simulators
<1>6. CASE External
  BY <1>6, <1>u DEF External, RicSend, RicLeaves, RicReads, RicAnswers
<1>7. CASE UNCHANGED vars BY <1>7, <1>u DEF vars, simulators
<1> QED BY <1>1, <1>2, <1>3, <1>4, <1>5, <1>6, <1>7 DEF Next, Ends

\* The server's queue: a receive, or nothing, keeps the order ...
LEMMA OrderKeeps ==
  ASSUME Typed, Order, program' = program, IsWg => (Asked => Asked'), gen' # "idle" => gen # "idle",
         to'["server"] = to["server"] \/ \E f \in Ends : Got(f)
  PROVE  Order'
<1> SUFFICES ASSUME IsWg PROVE Order' BY DEF Order, IsWg
<1>0. "server" \in Ends /\ AssociationOK BY DEF Ends, Typed
<1>1. \E d \in {0, 1} : \A i \in 1 .. Len(to'["server"]) :
         i + d \in 1 .. Len(to["server"]) /\ to'["server"][i] = to["server"][i + d]
  <2>1. CASE to'["server"] = to["server"]
    <3>1. \A i \in 1 .. Len(to'["server"]) :
            i + 0 \in 1 .. Len(to["server"]) /\ to'["server"][i] = to["server"][i + 0]
      BY <2>1
    <3> QED BY <3>1
  <2>2. ASSUME NEW f \in Ends, Got(f)
        PROVE  \A i \in 1 .. Len(to'["server"]) :
                 i + (IF f = "server" THEN 1 ELSE 0) \in 1 .. Len(to["server"])
                 /\ to'["server"][i] = to["server"][i + (IF f = "server" THEN 1 ELSE 0)]
    BY <1>0, <2>2, GotQueue
  <2> QED BY <2>1, <2>2
<1>2. PICK d \in {0, 1} : \A i \in 1 .. Len(to'["server"]) :
         i + d \in 1 .. Len(to["server"]) /\ to'["server"][i] = to["server"][i + d]
  BY <1>1
<1>3. \A i, j \in 1 .. Len(to'["server"]) : i < j => i + d < j + d OBVIOUS
<1> QED BY <1>2, <1>3 DEF Order, Late

\* ... and so does a message that comes after a subscription only if it is late.
LEMMA OrderAppends ==
  ASSUME Typed, Order, program' = program, IsWg => (Asked => Asked'), gen' # "idle" => gen # "idle",
         NEW m, \A i \in 1 .. Len(to'["server"]) :
                  \/ i = Len(to["server"]) + 1 /\ to'["server"][i] = m
                  \/ i \in 1 .. Len(to["server"]) /\ to'["server"][i] = to["server"][i],
         IsWg /\ Asked => Late(m), IsWg /\ m.type = "RICsubscriptionRequest" => Asked'
  PROVE  Order'
<1> SUFFICES ASSUME IsWg PROVE Order' BY DEF Order, IsWg
<1>0. to["server"] \in Seq(Messages) BY DEF Typed, AssociationOK, Ends
<1>1. ASSUME NEW i \in 1 .. Len(to'["server"]), NEW j \in 1 .. Len(to'["server"]), i < j,
             to'["server"][i].type = "RICsubscriptionRequest"
      PROVE  Late(to'["server"][j])
  <2>1. i \in 1 .. Len(to["server"]) /\ to'["server"][i] = to["server"][i] BY <1>0, <1>1
  <2>2. Asked BY <1>1, <2>1 DEF Order
  <2>3. CASE j = Len(to["server"]) + 1 BY <1>0, <2>2, <2>3
  <2>4. CASE j \in 1 .. Len(to["server"]) /\ to'["server"][j] = to["server"][j]
    BY <1>1, <2>1, <2>4 DEF Order
  <2> QED BY <2>3, <2>4
<1>2. ASSUME gen' # "idle", NEW i \in 1 .. Len(to'["server"]) PROVE Late(to'["server"][i])
  <2>1. Asked BY <1>2 DEF Order
  <2>2. CASE i = Len(to["server"]) + 1 /\ to'["server"][i] = m BY <2>1, <2>2
  <2>3. CASE i \in 1 .. Len(to["server"]) /\ to'["server"][i] = to["server"][i]
    BY <1>2, <2>3 DEF Order
  <2> QED BY <2>2, <2>3
<1>3. ASSUME ~Asked'
      PROVE  gen' = "idle" /\ \A i \in 1 .. Len(to'["server"]) : to'["server"][i].type # "RICsubscriptionRequest"
  BY <1>3 DEF Order
<1> QED BY <1>1, <1>2, <1>3 DEF Order, Late

\* Only the last step of wg_setup starts the threads.
LEMMA ThreadsStart ==
  ASSUME Threads, [Next]_vars, gen = "idle", gen' # "idle"
  PROVE  Setup /\ Head(to["server"]).type = "RICsubscriptionRequest"
<1>1. ASSUME UNCHANGED gen PROVE FALSE BY <1>1
<1>2. Setup
  <2>1. ~RcvCheck /\ ~RcvStore BY <1>1 DEF RcvCheck, RcvStore, Turn, Threads
  <2> QED
    BY <1>1, <2>1
       DEF Next, Generator, Receiver, External, GenSend, EncodeFails, GenError, Stamp, WgDisconnected,
           WgReceiveError, WgUndecodable, RcvReceive, RcvClock, RcvSec, RicReads, RicAnswers, vars, generator
<1>3. Head(to["server"]).type = "RICsubscriptionRequest" BY <1>1, <1>2 DEF Setup
<1> QED BY <1>2, <1>3

LEMMA OrderStep ==
  ASSUME Typed, Threads, Plans, Order, [Next]_vars
  PROVE  Order'
<1> SUFFICES ASSUME IsWg PROVE Order' BY PlansStep DEF Order, IsWg
<1>0. "server" \in Ends /\ "client" \in Ends /\ AssociationOK BY DEF Ends, Typed
<1>1. program' = program /\ (IsWg => (Asked => Asked')) BY PlansStep
<1>2. CASE gen = "idle" /\ gen' # "idle"
  <2>1. Got("server") /\ Head(to["server"]).type = "RICsubscriptionRequest" BY <1>2, ThreadsStart DEF Setup
  <2>2. to["server"] \in Seq(Messages) /\ to["server"] # <<>> BY <1>0, <2>1 DEF Got, AssociationOK
  <2>3. 1 \in 1 .. Len(to["server"]) /\ to["server"][1].type = "RICsubscriptionRequest"
    BY <2>1, <2>2, TailProps
  <2>4. Asked' BY <1>1, <2>3 DEF Order
  <2>5. ASSUME NEW i \in 1 .. Len(to'["server"]) PROVE Late(to'["server"][i])
    <3>1. i + 1 \in 1 .. Len(to["server"]) /\ to'["server"][i] = to["server"][i + 1] /\ 1 < i + 1
      BY <1>0, <2>1, <2>5, GotQueue
    <3> QED BY <2>3, <3>1 DEF Order
  <2> QED BY <2>4, <2>5 DEF Order, Late
<1>3. CASE gen' # "idle" => gen # "idle"
  <2>1. CASE UNCHANGED to \/ \E f \in Ends : Got(f) BY <1>1, <1>3, <2>1, OrderKeeps
  <2>2. CASE SendNext("server") \/ GenSend
    <3>1. to'["server"] = to["server"]
      BY <1>0, <2>2, PlainSent, GeneratedMessage DEF Sent, Peer, AssociationOK
    <3> QED BY <1>1, <1>3, <3>1, OrderKeeps
  <2>3. ASSUME NEW m \in Messages, Sent("client", m), Asked => Late(m),
               m.type = "RICsubscriptionRequest" => Asked'
        PROVE  Order'
    <3>1. \A i \in 1 .. Len(to'["server"]) :
            \/ i = Len(to["server"]) + 1 /\ to'["server"][i] = m
            \/ i \in 1 .. Len(to["server"]) /\ to'["server"][i] = to["server"][i]
      BY <1>0, <2>3, SentQueue DEF Peer
    <3> QED BY <1>1, <1>3, <2>3, <3>1, OrderAppends
  <2>4. CASE SendNext("client")
    <3>1. At("client") \in Types /\ Sent("client", Plain(At("client"))) BY <1>0, <2>4, PlainSent
    <3>2. program["client"] = "ricsim"
      BY <2>4, <3>1 DEF Plans, Clients, At, Types, Requests, Indications
    <3>3. ~Asked /\ (At("client") = "RICsubscriptionRequest" => todo'["client"] = <<>>)
      BY <2>4, <3>2, ClientPlan DEF Simulator
    <3>4. At("client") = "RICsubscriptionRequest" => Asked' BY <1>1, <3>2, <3>3 DEF Asked
    <3> QED BY <2>3, <3>1, <3>3, <3>4, PlainTypes
  <2>5. CASE RicSend
    <3>1. PICK type \in Types : /\ MaySend(type) /\ Sent("client", Plain(type))
                               /\ ricSent' = Append(ricSent, type)
      BY <2>5, PlainSent
    <3>2. program["client"] = "ric" BY <2>5 DEF RicSend, Ric
    <3>3. Asked => type = "garbage" BY <3>1, <3>2 DEF Asked, MaySend, IsWg
    <3>4. type = "RICsubscriptionRequest" => Asked'
      <4>1. ricSent \in Seq(Types) BY DEF Typed, SimulatorsOK
      <4>2. /\ Len(ricSent) + 1 \in DOMAIN ricSent' /\ ricSent'[Len(ricSent) + 1] = type
        BY <3>1, <4>1, AppendProps
      <4> QED BY <1>1, <3>2, <4>2 DEF Asked
    <3> QED BY <2>3, <3>1, <3>3, <3>4, PlainTypes DEF Late
  <2>6. CASE RicAnswers
    <3>1. /\ to["client"] \in Seq(Messages) /\ to["client"] # <<>> /\ to["client"][1].nr # 0
          /\ 1 \in 1 .. Len(to["client"])
      BY <1>0, <2>6, TailProps DEF RicAnswers, AssociationOK
    <3>2. Late(to["client"][1]) /\ to["client"][1].type # "RICsubscriptionRequest"
      BY <3>1 DEF Plans, Late, Offers
    <3>3. \A i \in 1 .. Len(to'["server"]) :
            \/ i = Len(to["server"]) + 1 /\ to'["server"][i] = to["client"][1]
            \/ i \in 1 .. Len(to["server"]) /\ to'["server"][i] = to["server"][i]
      BY <1>0, <2>6, AnswerQueue
    <3> QED BY <1>1, <1>3, <3>2, <3>3, OrderAppends
  <2> QED BY <2>1, <2>2, <2>4, <2>5, <2>6, QueueCases DEF Ends
<1> QED BY <1>2, <1>3

--------------------------------------------------------------------------------
(* wg_serial has one message on its way at most, and the receiver holds    *)
(* the answer to the last one.                                             *)

Quiet == \A e \in Ends : \A i \in 1 .. Len(to[e]) : to[e][i].nr = 0

Alone ==
  /\ (gen \in {"idle", "send"} \/ rcv \in Holding) => Quiet
  /\ \A e, f \in Ends : \A i \in 1 .. Len(to[e]), j \in 1 .. Len(to[f]) :
        to[e][i].nr # 0 /\ to[f][j].nr # 0 => e = f /\ i = j
  /\ \A e \in Ends : \A i \in 1 .. Len(to[e]) : to[e][i].nr \in {0, produced}

\* What the receiver has read, and what it has computed.
Measured ==
  /\ rcv \in Holding => held.nr = produced
  /\ rcv \in {"sec", "nsec"} => held.clock >= held.nr
  /\ rcv = "nsec" => held.sec = held.nr
  /\ \A i \in Indices : msg_ts[i] <= produced

\* Where no message is sent or passed on, the generator's messages move up together.
LEMMA QueueMoves ==
  ASSUME Typed, [Next]_vars, ~GenSend, ~RicAnswers
  PROVE  \E d \in [Ends -> {0, 1}] : \A e \in Ends : \A i \in 1 .. Len(to'[e]) :
           to'[e][i].nr # 0 => i + d[e] \in 1 .. Len(to[e]) /\ to'[e][i] = to[e][i + d[e]]
<1>0. AssociationOK BY DEF Typed
<1> DEFINE Moves(d) == \A e \in Ends : \A i \in 1 .. Len(to'[e]) :
             to'[e][i].nr # 0 => i + d[e] \in 1 .. Len(to[e]) /\ to'[e][i] = to[e][i + d[e]]
<1> SUFFICES \E d \in [Ends -> {0, 1}] : Moves(d) OBVIOUS
<1> DEFINE none == [e \in Ends |-> 0]
<1>n. none \in [Ends -> {0, 1}] /\ \A e \in Ends : none[e] = 0 OBVIOUS
<1>k. ASSUME \A e \in Ends : \A i \in 1 .. Len(to'[e]) :
               to'[e][i].nr # 0 => i \in 1 .. Len(to[e]) /\ to'[e][i] = to[e][i]
      PROVE  Moves(none)
  BY <1>k
<1>1. CASE UNCHANGED to BY <1>1, <1>k, <1>n
<1>2. ASSUME NEW f \in Ends, Got(f) PROVE \E d \in [Ends -> {0, 1}] : Moves(d)
  <2> DEFINE d == [e \in Ends |-> IF e = f THEN 1 ELSE 0]
  <2>1. d \in [Ends -> {0, 1}] /\ \A e \in Ends : d[e] = IF e = f THEN 1 ELSE 0 OBVIOUS
  <2>2. ASSUME NEW e \in Ends, NEW i \in 1 .. Len(to'[e])
        PROVE  i + (IF e = f THEN 1 ELSE 0) \in 1 .. Len(to[e])
               /\ to'[e][i] = to[e][i + (IF e = f THEN 1 ELSE 0)]
    BY <1>0, <1>2, <2>2, GotQueue
  <2> HIDE DEF d
  <2>3. Moves(d) BY <2>1, <2>2
  <2> QED BY <2>1, <2>3
<1>3. ASSUME NEW f \in Ends, NEW type \in Types, Sent(f, Plain(type)) PROVE Moves(none)
  <2>1. ASSUME NEW e \in Ends, NEW i \in 1 .. Len(to'[e]), to'[e][i].nr # 0
        PROVE  i \in 1 .. Len(to[e]) /\ to'[e][i] = to[e][i]
    BY <1>0, <1>3, <2>1, PlainTypes, SentQueue
  <2> QED BY <1>k, <2>1
<1>4. CASE RicSend \/ \E f \in Ends : SendNext(f) BY <1>3, <1>4, <1>n, PlainSent DEF Ends
<1> QED BY <1>1, <1>2, <1>4, QueueCases

LEMMA MovesAlone ==
  ASSUME Typed, [Next]_vars, ~GenSend, ~RicAnswers, Alone
  PROVE  /\ Quiet => Quiet'
         /\ \A e, f \in Ends : \A i \in 1 .. Len(to'[e]), j \in 1 .. Len(to'[f]) :
               to'[e][i].nr # 0 /\ to'[f][j].nr # 0 => e = f /\ i = j
         /\ \A e \in Ends : \A i \in 1 .. Len(to'[e]) : to'[e][i].nr \in {0, produced}
<1>1. PICK d \in [Ends -> {0, 1}] : \A e \in Ends : \A i \in 1 .. Len(to'[e]) :
           to'[e][i].nr # 0 => i + d[e] \in 1 .. Len(to[e]) /\ to'[e][i] = to[e][i + d[e]]
  BY QueueMoves
<1>2. Quiet => Quiet' BY <1>1 DEF Quiet
<1>3. ASSUME NEW e \in Ends, NEW i \in 1 .. Len(to'[e]), NEW f \in Ends, NEW j \in 1 .. Len(to'[f]),
             to'[e][i].nr # 0 /\ to'[f][j].nr # 0
      PROVE  e = f /\ i = j
  <2>1. /\ i + d[e] \in 1 .. Len(to[e]) /\ to[e][i + d[e]].nr # 0
        /\ j + d[f] \in 1 .. Len(to[f]) /\ to[f][j + d[f]].nr # 0
    BY <1>1, <1>3
  <2>2. e = f /\ i + d[e] = j + d[f] BY <2>1 DEF Alone
  <2>3. d[e] \in {0, 1} OBVIOUS
  <2> QED BY <2>2, <2>3
<1>4. \A e \in Ends : \A i \in 1 .. Len(to'[e]) : to'[e][i].nr \in {0, produced}
  BY <1>1 DEF Alone
<1> QED BY <1>2, <1>3, <1>4

\* What the receiver of wg_serial takes is the answer to the last message.
LEMMA TakesAnswer ==
  ASSUME Typed, Threads, Order, Alone, Serial, RcvReceive
  PROVE  /\ Quiet' /\ to["server"] # <<>> /\ Head(to["server"]).nr = produced /\ produced # 0
<1>0. "server" \in Ends /\ "client" \in Ends /\ AssociationOK BY DEF Ends, Typed
<1>1. Got("server") /\ rcv = "receive" /\ Head(to["server"]).type # "garbage" BY DEF RcvReceive
<1>2. to["server"] \in Seq(Messages) /\ to["server"] # <<>> BY <1>0, <1>1 DEF Got, AssociationOK
<1>3. 1 \in 1 .. Len(to["server"]) /\ Head(to["server"]) = to["server"][1] BY <1>2, TailProps
<1>4. Head(to["server"]).nr # 0
  <2>1. gen = "wait" BY <1>1 DEF Threads
  <2> QED BY <1>1, <1>3, <2>1 DEF Order, Late, IsWg, Serial
<1>5. Head(to["server"]).nr = produced BY <1>0, <1>3, <1>4 DEF Alone
<1>6. ASSUME NEW e \in Ends, NEW i \in 1 .. Len(to'[e]), to'[e][i].nr # 0 PROVE FALSE
  <2>1. \/ e = "server" /\ i + 1 \in 1 .. Len(to[e]) /\ to'[e][i] = to[e][i + 1]
        \/ e # "server" /\ i \in 1 .. Len(to[e]) /\ to'[e][i] = to[e][i]
    BY <1>0, <1>1, <1>6, GotQueue
  <2>2. CASE e = "server" /\ i + 1 \in 1 .. Len(to[e]) /\ to'[e][i] = to[e][i + 1]
    <3>1. i + 1 = 1 BY <1>0, <1>3, <1>4, <1>6, <2>2 DEF Alone
    <3> QED BY <3>1
  <2>3. CASE e # "server" /\ i \in 1 .. Len(to[e]) /\ to'[e][i] = to[e][i]
    BY <1>0, <1>3, <1>4, <1>6, <2>3 DEF Alone
  <2> QED BY <2>1, <2>2, <2>3
<1> QED BY <1>2, <1>4, <1>5, <1>6 DEF Quiet

LEMMA AloneStep ==
  ASSUME Typed, Threads, Plans, Order, Serial, Alone, [Next]_vars
  PROVE  Alone'
<1>0. "server" \in Ends /\ "client" \in Ends /\ AssociationOK BY DEF Ends, Typed
<1>1. CASE GenSend
  <2>1. PICK m \in Messages : Sent("server", m) /\ m.nr = produced' BY <1>1, GeneratedMessage
  <2>2. ASSUME NEW e \in Ends, NEW i \in 1 .. Len(to'[e]), to'[e][i].nr # 0
        PROVE  e = "client" /\ i = Len(to["client"]) + 1 /\ to'[e][i].nr = produced'
    <3>1. Quiet BY <1>1 DEF Alone, GenSend
    <3> QED BY <1>0, <2>1, <2>2, <3>1, SentQueue DEF Quiet, Peer
  <2>3. gen' = "stamp" /\ rcv' = "idle" BY <1>1 DEF GenSend, Threads, Serial
  <2> QED BY <2>2, <2>3 DEF Alone, Holding
<1>2. CASE RicAnswers
  <2>1. /\ to["client"] \in Seq(Messages) /\ to["client"] # <<>> /\ to["client"][1].nr # 0
        /\ 1 \in 1 .. Len(to["client"])
    BY <1>0, <1>2, TailProps DEF RicAnswers, AssociationOK
  <2>2. ASSUME NEW e \in Ends, NEW i \in 1 .. Len(to'[e]), to'[e][i].nr # 0
        PROVE  e = "server" /\ i = Len(to["server"]) + 1 /\ to'[e][i].nr = produced
    <3>1. CASE e = "client" /\ i + 1 \in 1 .. Len(to[e]) /\ to'[e][i] = to[e][i + 1]
      <4>1. i + 1 = 1 BY <1>0, <2>1, <2>2, <3>1 DEF Alone
      <4> QED BY <4>1
    <3>2. CASE e = "server" /\ i \in 1 .. Len(to[e]) /\ to'[e][i] = to[e][i]
      BY <1>0, <2>1, <2>2, <3>2 DEF Alone
    <3>3. CASE e = "server" /\ i = Len(to[e]) + 1 /\ to'[e][i] = to["client"][1]
      BY <1>0, <2>1, <3>3 DEF Alone
    <3> QED BY <1>0, <1>2, <3>1, <3>2, <3>3, AnswerQueue
  <2>3. UNCHANGED <<gen, rcv, produced>> BY <1>2 DEF RicAnswers, generator
  <2>4. ~Quiet BY <1>0, <2>1 DEF Quiet
  <2> QED BY <2>2, <2>3, <2>4 DEF Alone
<1>3. CASE ~GenSend /\ ~RicAnswers
  <2>1. produced' = produced
    BY <1>3 DEF Next, Setup, Generator, EncodeFails, GenError, Stamp, Receiver, WgDisconnected, WgReceiveError,
                WgUndecodable, RcvReceive, RcvCheck, RcvClock, RcvSec, RcvStore, External, RicReads, vars, generator
  <2>2. (gen' \in {"idle", "send"} \/ rcv' \in Holding) => Quiet'
    <3>k. Quiet => Quiet' BY <1>3, MovesAlone
    <3>u. ASSUME UNCHANGED <<gen, rcv>> PROVE (gen' \in {"idle", "send"} \/ rcv' \in Holding) => Quiet'
      BY <3>k, <3>u DEF Alone
    <3>1. CASE \E e \in Ends : Simulator(e) /\ UNCHANGED generator BY <3>1, <3>u DEF generator
    <3>2. CASE Setup BY <3>2, <3>k, SetupIsFirst DEF Alone
    <3>3. CASE Generator
      BY <1>3, <3>3, <3>u DEF Generator, EncodeFails, GenError, Stamp, generator, Holding, Serial
    <3>4. CASE WgDisconnected \/ WgReceiveError \/ WgUndecodable
      BY <3>4, <3>u DEF WgDisconnected, WgReceiveError, WgUndecodable, generator
    <3>5. CASE RcvReceive BY <3>5, TakesAnswer
    <3>6. CASE RcvCheck \/ RcvClock \/ RcvSec \/ RcvStore
      BY <3>6, <3>k DEF RcvCheck, RcvClock, RcvSec, RcvStore, Alone, Holding
    <3>7. CASE External BY <1>3, <3>7, <3>u DEF External, RicReads, generator
    <3>8. CASE UNCHANGED vars BY <3>8, <3>u DEF vars, generator
    <3> QED BY <3>1, <3>2, <3>3, <3>4, <3>5, <3>6, <3>7, <3>8 DEF Next, Receiver
  <2> QED BY <1>3, <2>1, <2>2, MovesAlone DEF Alone
<1> QED BY <1>1, <1>2, <1>3

LEMMA MeasuredStep ==
  ASSUME Typed, Threads, AllStamped, Plans, Order, Serial, Alone, Measured, SerialIsExact, [Next]_vars
  PROVE  Measured' /\ SerialIsExact'
<1>t. /\ held \in [seq : Nat, nr : Nat, clock : Nat, sec : Nat]
      /\ msg_ts \in [Indices -> Nat] /\ produced \in Nat /\ Index(held.seq) \in Indices
      /\ latency_v \in [Indices -> [of : Nat, clock : Nat, sec : Nat, nsec : Nat]]
  BY IndexType DEF Typed, GeneratorOK
<1>p. Serial' BY PlansStep DEF Serial
\* The stamp of the answer in the receiver's hands.
<1>s. rcv \in Holding => msg_ts[Index(held.seq)] = held.nr /\ held.nr = produced
  <2> SUFFICES ASSUME rcv \in Holding PROVE msg_ts[Index(held.seq)] = held.nr /\ held.nr = produced
    OBVIOUS
  <2>1. gen = "wait" BY DEF Threads, Holding
  <2>2. msg_ts[Index(held.seq)] >= held.nr BY <2>1 DEF AllStamped, Stamped
  <2>3. msg_ts[Index(held.seq)] <= produced /\ held.nr = produced BY <1>t DEF Measured
  <2>4. msg_ts[Index(held.seq)] \in Nat BY <1>t
  <2> QED BY <1>t, <2>2, <2>3, <2>4
<1>u. ASSUME UNCHANGED <<rcv, held, produced, msg_ts, latency_v>> PROVE Measured' /\ SerialIsExact'
  BY <1>u DEF Measured, SerialIsExact, Serial
<1>v. ASSUME UNCHANGED latency_v PROVE SerialIsExact' BY <1>p, <1>v DEF SerialIsExact
<1>1. CASE \E e \in Ends : Simulator(e) /\ UNCHANGED generator BY <1>1, <1>u DEF generator
<1>2. CASE Setup
  <2>1. rcv' = "idle" BY <1>2, SetupIsFirst DEF Setup
  <2> QED BY <1>2, <1>v, <2>1 DEF Setup, Measured, Holding
<1>3. CASE GenSend
  <2>1. rcv = "idle" BY <1>3 DEF GenSend, Threads
  <2>2. rcv' = "idle" /\ msg_ts' = msg_ts /\ produced' = produced + 1 BY <1>3, <2>1 DEF GenSend
  <2>3. \A i \in Indices : msg_ts[i] <= produced + 1
    <3>1. \A i \in Indices : msg_ts[i] \in Nat /\ msg_ts[i] <= produced BY <1>t DEF Measured
    <3> QED BY <1>t, <3>1
  <2> QED BY <1>3, <1>v, <2>2, <2>3 DEF GenSend, Measured, Holding
<1>4. CASE EncodeFails \/ GenError BY <1>4, <1>u DEF EncodeFails, GenError, generator
<1>5. CASE Stamp
  <2>1. rcv' = "receive" /\ produced' = produced BY <1>5 DEF Stamp
  <2>2. \A i \in Indices : msg_ts'[i] <= produced
    BY <1>5, <1>t DEF Stamp, Measured
  <2> QED BY <1>5, <1>v, <2>1, <2>2 DEF Stamp, Measured, Holding
<1>6. CASE WgDisconnected \/ WgReceiveError \/ WgUndecodable
  BY <1>6, <1>u DEF WgDisconnected, WgReceiveError, WgUndecodable, generator
<1>7. CASE RcvReceive
  <2>1. held'.nr = produced BY <1>7, TakesAnswer DEF RcvReceive, Nothing
  <2> QED BY <1>7, <1>v, <2>1 DEF RcvReceive, Measured
<1>8. CASE RcvCheck
  <2>1. CASE msg_ts[Index(held.seq)] = 0
    BY <1>8, <1>v, <2>1 DEF RcvCheck, Turn, Measured, Holding
  <2>2. CASE msg_ts[Index(held.seq)] # 0
    BY <1>8, <1>v, <2>2 DEF RcvCheck, Measured, Holding
  <2> QED BY <2>1, <2>2
<1>9. CASE RcvClock
  <2>1. gen = "wait" BY <1>9 DEF RcvClock, Threads
  <2>2. held' = [held EXCEPT !.clock = produced] /\ rcv' = "sec" /\ UNCHANGED <<produced, msg_ts, latency_v>>
    BY <1>9, <2>1 DEF RcvClock, Now
  <2>3. held.nr = produced BY <1>9, <1>s DEF RcvClock, Holding
  <2>4. held'.nr = produced /\ held'.clock = produced BY <1>t, <2>2, <2>3
  <2> QED BY <1>t, <1>v, <2>2, <2>4 DEF Measured
<1>10. CASE RcvSec
  <2>1. held' = [held EXCEPT !.sec = held.nr] /\ rcv' = "nsec" /\ UNCHANGED <<produced, msg_ts, latency_v>>
    BY <1>10, <1>s DEF RcvSec, Holding
  <2>2. held'.nr = held.nr /\ held'.clock = held.clock /\ held'.sec = held.nr BY <1>t, <2>1
  <2>3. held.nr = produced /\ held.clock >= held.nr BY <1>10, <1>s DEF RcvSec, Measured, Holding
  <2> QED BY <1>v, <2>1, <2>2, <2>3 DEF Measured
<1>11. CASE RcvStore
  <2>1. rcv' = "idle" /\ UNCHANGED <<produced, msg_ts>> BY <1>11 DEF RcvStore, Turn
  <2>2. Measured' BY <2>1 DEF Measured, Holding
  <2>3. rcv = "nsec" BY <1>11 DEF RcvStore
  <2>4. held.clock >= held.nr /\ held.sec = held.nr /\ msg_ts[Index(held.seq)] = held.nr
    BY <1>s, <2>3 DEF Measured, Holding
  <2>5. latency_v' = [latency_v EXCEPT ![Index(held.seq)] =
                        [of |-> held.nr, clock |-> held.clock, sec |-> held.nr, nsec |-> held.nr]]
    BY <1>11, <2>4 DEF RcvStore
  <2>6. SerialIsExact'
    <3> SUFFICES ASSUME NEW i \in Indices, latency_v'[i].of # 0
                 PROVE  /\ latency_v'[i].sec = latency_v'[i].of /\ latency_v'[i].nsec = latency_v'[i].of
                        /\ latency_v'[i].clock >= latency_v'[i].of
      BY DEF SerialIsExact
    <3>1. CASE i = Index(held.seq) BY <1>t, <2>4, <2>5, <3>1
    <3>2. CASE i # Index(held.seq)
      <4>1. latency_v'[i] = latency_v[i] BY <1>t, <2>5, <3>2
      <4> QED BY <4>1 DEF SerialIsExact
    <3> QED BY <3>1, <3>2
  <2> QED BY <2>2, <2>6
<1>12. CASE External BY <1>12, <1>u DEF External, RicReads, RicAnswers, generator
<1>13. CASE UNCHANGED vars BY <1>13, <1>u DEF vars, generator
<1> QED
  BY <1>1, <1>2, <1>3, <1>4, <1>5, <1>6, <1>7, <1>8, <1>9, <1>10, <1>11, <1>12, <1>13
     DEF Next, Generator, Receiver

LEMMA SerialInit == Init => Plans /\ Order /\ Alone /\ Measured /\ SerialIsExact
<1> SUFFICES ASSUME Init PROVE Plans /\ Order /\ Alone /\ Measured /\ SerialIsExact OBVIOUS
<1>1. \A e \in Ends : Len(to[e]) = 0 BY DEF Init, InitSimulators, Connected
<1>2. PICK server \in Servers, client \in Clients :
        program = [e \in Ends |-> IF e = "server" THEN server ELSE client]
  BY DEF Init, InitSimulators
<1>3. program["server"] = server /\ program["client"] = client BY <1>2 DEF Ends
<1>4. program["client"] = "ricsim" => todo["client"] = <<"ENDCX2SetupRequest", "receive", "RICsubscriptionRequest">>
  BY DEF Init, InitSimulators, Ends
<1>5. program["client"] = "ric" => todo["client"] = <<>>
  BY DEF Init, InitSimulators, Ends
<1>6. IsWg => todo["server"] = <<"first">>
  <2>1. todo["server"] = CASE program["server"] = "ricsim" -> <<"ENDCX2SetupRequest", "receive", "RICsubscriptionRequest">>
                           [] program["server"] \in {"e2sim", "ric"} -> <<>>
                           [] OTHER -> <<"first">>
    BY DEF Init, InitSimulators, Ends
  <2> QED BY <1>3, <2>1 DEF IsWg, Servers
<1>7. Plans
  <2>1. \A i \in 1 .. Len(to["client"]) : to["client"][i].type \in Offers BY <1>1 DEF Ends
  <2> QED BY <1>3, <1>4, <1>5, <1>6, <2>1 DEF Plans
<1>8. Order /\ Alone BY <1>1 DEF Order, Alone, Quiet, Init, Ends
<1>9. Measured /\ SerialIsExact
  BY DEF Init, Measured, Holding, SerialIsExact, NoLatency
<1> QED BY <1>7, <1>8, <1>9

\* wg_serial's latencies: whatever was sent before or came late, each is from the stamp of the
\* message that was answered and a clock read afterwards.
THEOREM SerialIsExactHolds == Spec => []SerialIsExact
<1> DEFINE I == /\ Typed /\ Threads /\ AllStamped /\ Plans /\ Order
                /\ Serial => Alone /\ Measured
                /\ SerialIsExact
<1>1. Init => I BY InitTypes, StampedInit, SerialInit DEF Typed
<1>2. I /\ [Next]_vars => I'
  <2> SUFFICES ASSUME I, [Next]_vars PROVE I' OBVIOUS
  <2>1. Typed' BY StepTypes DEF Typed
  <2>2. Threads' /\ AllStamped' /\ Plans' /\ Order'
    BY <2>1, ThreadsStep, AllStampedStep, PlansStep, OrderStep
  <2>3. Serial' = Serial BY PlansStep DEF Serial
  <2>4. Serial => Alone' /\ Measured' /\ SerialIsExact' BY AloneStep, MeasuredStep
  <2>5. ~Serial => SerialIsExact' BY <2>3 DEF SerialIsExact
  <2> QED BY <2>1, <2>2, <2>3, <2>4, <2>5
<1> QED BY <1>1, <1>2, PTL DEF Spec
================================================================================

--------------------------- MODULE LatencyFileProofs ----------------------------
(***************************************************************************)
(* cdf.csv of the workload generators holds the latest latencies, for      *)
(* every size of the arrays and every number of rounds over them.          *)
(*                                                                         *)
(* The entries of latency_v are determined by how many answers are behind  *)
(* (k) and by where the next one goes.  wg_serial sends one message at a   *)
(* time and counts from 0 to NUM_SAMPLE, so entry 0 is used twice in a     *)
(* round; wg_concur counts on, and there the answers come in the order of  *)
(* the messages as long as none is lost.                                   *)
(***************************************************************************)
EXTENDS WorkloadGeneratorProofs

--------------------------------------------------------------------------------
(* Indices *)

LEMMA Division ==
  ASSUME NEW a \in Nat
  PROVE  /\ a \div NUM_SAMPLE \in Nat /\ a % NUM_SAMPLE \in 0 .. NUM_SAMPLE - 1
         /\ a = NUM_SAMPLE * (a \div NUM_SAMPLE) + (a % NUM_SAMPLE)
  BY GeneratorAssumption

LEMMA Remainder ==
  ASSUME NEW q \in Nat, NEW r \in 0 .. NUM_SAMPLE - 1
  PROVE  (NUM_SAMPLE * q + r) % NUM_SAMPLE = r
  BY GeneratorAssumption

\* The first numbers are their own indices, and NUM_SAMPLE begins the next round.
LEMMA FirstRound ==
  /\ \A a \in Nat : a < NUM_SAMPLE => Index(a) = a
  /\ Index(NUM_SAMPLE) = 0
  BY GeneratorAssumption DEF Index

\* The index of the next number is the next index, round the array.
LEMMA NextIndex ==
  ASSUME NEW a \in Nat
  PROVE  Index(a + 1) = IF Index(a) = NUM_SAMPLE - 1 THEN 0 ELSE Index(a) + 1
<1> DEFINE q == a \div NUM_SAMPLE
           r == a % NUM_SAMPLE
<1>1. q \in Nat /\ r \in 0 .. NUM_SAMPLE - 1 /\ a = NUM_SAMPLE * q + r BY Division
<1> HIDE DEF q, r
<1>2. CASE r = NUM_SAMPLE - 1
  <2>1. a + 1 = NUM_SAMPLE * (q + 1) + 0 BY <1>1, <1>2, GeneratorAssumption
  <2>2. (NUM_SAMPLE * (q + 1) + 0) % NUM_SAMPLE = 0 BY <1>1, GeneratorAssumption, Remainder
  <2> QED BY <1>2, <2>1, <2>2 DEF Index, r
<1>3. CASE r # NUM_SAMPLE - 1
  <2>1. r + 1 \in 0 .. NUM_SAMPLE - 1 /\ a + 1 = NUM_SAMPLE * q + (r + 1)
    BY <1>1, <1>3, GeneratorAssumption
  <2>2. (NUM_SAMPLE * q + (r + 1)) % NUM_SAMPLE = r + 1 BY <1>1, <2>1, Remainder
  <2> QED BY <1>3, <2>1, <2>2 DEF Index, r
<1> QED BY <1>2, <1>3

--------------------------------------------------------------------------------
(* The steps that matter *)

\* What the generator's variables do in a step of anybody else.
LEMMA GeneratorMoves ==
  ASSUME Typed, Threads, [Next]_vars
  PROVE  \/ GenSend \/ Stamp \/ RcvReceive \/ RcvCheck \/ RcvClock \/ RcvSec \/ RcvStore
         \/ /\ gen = "idle" /\ rcv = "idle"
            /\ gen' \in {"idle", "send"} /\ rcv' \notin Holding /\ (gen' = "idle" => rcv' = "idle")
            /\ UNCHANGED <<count, produced, held, msg_ts, latency_v, cdf, lost>>
         \/ UNCHANGED <<gen, rcv, count, produced, held, msg_ts, latency_v, cdf>>
<1>1. CASE \E e \in Ends : Simulator(e) /\ UNCHANGED generator BY <1>1 DEF generator
<1>2. CASE Setup BY <1>2, SetupIsFirst DEF Setup, Holding
<1>3. CASE EncodeFails \/ GenError BY <1>3 DEF EncodeFails, GenError, generator
<1>4. CASE WgDisconnected \/ WgReceiveError \/ WgUndecodable
  BY <1>4 DEF WgDisconnected, WgReceiveError, WgUndecodable, generator
<1>5. CASE External BY <1>5 DEF External, RicReads, RicAnswers, generator
<1>6. CASE UNCHANGED vars BY <1>6 DEF vars, generator
<1> QED BY <1>1, <1>2, <1>3, <1>4, <1>5, <1>6 DEF Next, Generator, Receiver

--------------------------------------------------------------------------------
(* wg_serial *)

\* The number of the message that is on its way, or of the next one.
SerialSeq ==
  IF gen = "stamp" THEN count ELSE IF gen = "wait" THEN count - 1 ELSE NextCount(count)

\* The answers that are behind.
SerialDone == IF gen \in {"stamp", "wait"} THEN produced - 1 ELSE produced

\* The last answer entry i was computed for, when k answers are behind and s is the next number.
LatestSerial(k, s, i) ==
  IF i < s THEN k - s + i + 1
  ELSE IF k = s THEN 0
  ELSE IF i = 0 THEN k - s
  ELSE k - s + i - NUM_SAMPLE

SerialFile ==
  /\ gen = "idle" => count = 0 /\ produced = 0
  /\ gen = "wait" => count > 0 /\ produced > 0
  /\ SerialSeq \in 0 .. NUM_SAMPLE
  /\ SerialDone = SerialSeq \/ SerialDone - SerialSeq > NUM_SAMPLE
  /\ \A e \in Ends : \A i \in 1 .. Len(to[e]) : to[e][i].nr # 0 => to[e][i].seq = SerialSeq
  /\ rcv \in Holding => held.seq = SerialSeq
  /\ \A i \in Indices : latency_v[i].of = LatestSerial(SerialDone, SerialSeq, i)

\* One more answer, in its place.
LEMMA SerialEntry ==
  ASSUME NEW k \in Nat, NEW s \in 0 .. NUM_SAMPLE, k = s \/ k - s > NUM_SAMPLE,
         NEW i \in Indices
  PROVE  LET t == IF s = NUM_SAMPLE THEN 0 ELSE s + 1
         IN  /\ t \in 0 .. NUM_SAMPLE /\ (k + 1 = t \/ k + 1 - t > NUM_SAMPLE)
             /\ LatestSerial(k + 1, t, i) = IF i = Index(s) THEN k + 1 ELSE LatestSerial(k, s, i)
<1>1. Index(s) = IF s = NUM_SAMPLE THEN 0 ELSE s BY FirstRound, GeneratorAssumption
<1>2. i \in Nat /\ i < NUM_SAMPLE BY GeneratorAssumption DEF Indices
<1> QED BY <1>1, <1>2, GeneratorAssumption DEF LatestSerial

\* Where nothing is sent, stamped or measured, the queues change nothing.
LEMMA SerialQuiet ==
  ASSUME Typed, SerialFile, Serial, [Next]_vars, ~GenSend, SerialSeq' = SerialSeq
  PROVE  \A e \in Ends : \A i \in 1 .. Len(to'[e]) : to'[e][i].nr # 0 => to'[e][i].seq = SerialSeq'
<1>1. ASSUME NEW e \in Ends, NEW i \in 1 .. Len(to'[e]), to'[e][i].nr # 0
      PROVE  to'[e][i].seq = SerialSeq
  <2>1. PICK f \in Ends : \E j \in 1 .. Len(to[f]) : to'[e][i] = to[f][j] BY <1>1, QueueOrigin
  <2>2. PICK j \in 1 .. Len(to[f]) : to'[e][i] = to[f][j] BY <2>1
  <2> QED BY <1>1, <2>2 DEF SerialFile
<1> QED BY <1>1

LEMMA SerialFileStep ==
  ASSUME Typed, Threads, AllStamped, Plans, Order, Serial, Alone, Measured, SerialFile, [Next]_vars
  PROVE  SerialFile'
<1>t. /\ gen \in {"idle", "send", "stamp", "wait"} /\ count \in Nat /\ produced \in Nat
      /\ (gen = "stamp" => produced > 0)
      /\ held \in [seq : Nat, nr : Nat, clock : Nat, sec : Nat] /\ msg_ts \in [Indices -> Nat]
      /\ latency_v \in [Indices -> [of : Nat, clock : Nat, sec : Nat, nsec : Nat]]
  BY DEF Typed, GeneratorOK
<1>p. Serial' BY PlansStep DEF Serial
<1>n. \A c \in Nat : NextCount(c) = IF c > NUM_SAMPLE THEN 0 ELSE c BY DEF NextCount
<1>m. NextCount(count)' = IF count' > NUM_SAMPLE THEN 0 ELSE count' BY <1>p DEF NextCount
<1>d. SerialDone \in Nat /\ SerialSeq \in 0 .. NUM_SAMPLE
  BY <1>t DEF SerialDone, SerialFile
\* Nothing of it moves.
<1>u. ASSUME UNCHANGED <<gen, count, produced, latency_v>>, ~GenSend,
             rcv' \in Holding => rcv \in Holding /\ held'.seq = held.seq
      PROVE  SerialFile'
  <2>1. SerialSeq' = SerialSeq /\ SerialDone' = SerialDone
    BY <1>m, <1>n, <1>t, <1>u DEF SerialSeq, SerialDone
  <2>2. \A e \in Ends : \A i \in 1 .. Len(to'[e]) : to'[e][i].nr # 0 => to'[e][i].seq = SerialSeq'
    BY <1>u, <2>1, SerialQuiet
  <2> QED BY <1>u, <2>1, <2>2 DEF SerialFile, LatestSerial
<1>1. CASE /\ gen = "idle" /\ rcv = "idle"
           /\ gen' \in {"idle", "send"} /\ rcv' \notin Holding
           /\ UNCHANGED <<count, produced, held, msg_ts, latency_v, cdf, lost>>
  <2>1. ~GenSend BY <1>1 DEF GenSend
  <2>2. SerialSeq' = SerialSeq /\ SerialDone' = SerialDone
    BY <1>1, <1>m, <1>n, <1>t DEF SerialSeq, SerialDone
  <2>3. \A e \in Ends : \A i \in 1 .. Len(to'[e]) : to'[e][i].nr # 0 => to'[e][i].seq = SerialSeq'
    BY <2>1, <2>2, SerialQuiet
  <2> QED BY <1>1, <2>2, <2>3 DEF SerialFile, LatestSerial
<1>2. CASE GenSend
  <2>1. /\ gen = "send" /\ gen' = "stamp" /\ rcv' = rcv /\ latency_v' = latency_v
        /\ count' = NextCount(count) /\ produced' = produced + 1
    BY <1>2 DEF GenSend
  <2>2. rcv \notin Holding BY <2>1 DEF Threads, Holding
  <2>3. SerialSeq' = SerialSeq /\ SerialDone' = SerialDone
    BY <1>t, <2>1 DEF SerialSeq, SerialDone
  <2>4. Quiet BY <2>1 DEF Alone
  <2>5. ASSUME NEW e \in Ends, NEW i \in 1 .. Len(to'[e]), to'[e][i].nr # 0
        PROVE  to'[e][i].seq = SerialSeq'
    <3>1. ~ \E f \in Ends : \E j \in 1 .. Len(to[f]) : to'[e][i] = to[f][j]
      BY <2>4, <2>5 DEF Quiet
    <3>2. to'[e][i].seq = count' BY <2>5, <3>1, QueueOrigin
    <3> QED BY <2>1, <3>2 DEF SerialSeq
  <2> QED BY <2>1, <2>2, <2>3, <2>5 DEF SerialFile, LatestSerial
<1>3. CASE Stamp
  <2>1. /\ gen = "stamp" /\ gen' = "wait" /\ rcv' = "receive" /\ latency_v' = latency_v
        /\ count' = count + 1 /\ produced' = produced
    BY <1>3 DEF Stamp
  <2>2. SerialSeq' = SerialSeq /\ SerialDone' = SerialDone
    BY <1>t, <2>1 DEF SerialSeq, SerialDone
  <2>3. ~GenSend BY <2>1 DEF GenSend
  <2>4. \A e \in Ends : \A i \in 1 .. Len(to'[e]) : to'[e][i].nr # 0 => to'[e][i].seq = SerialSeq'
    BY <2>2, <2>3, SerialQuiet
  <2> QED BY <1>t, <2>1, <2>2, <2>4 DEF SerialFile, LatestSerial, Holding
<1>4. CASE RcvReceive
  <2>0. "server" \in Ends BY DEF Ends
  <2>1. to["server"] # <<>> /\ Head(to["server"]).nr # 0 BY <1>4, TakesAnswer
  <2>2. Head(to["server"]) = to["server"][1] /\ 1 \in 1 .. Len(to["server"])
    <3>1. to["server"] \in Seq(Messages) BY <2>0 DEF Typed, AssociationOK
    <3> QED BY <2>1, <3>1, TailProps
  <2>3. Head(to["server"]).seq = SerialSeq BY <2>0, <2>1, <2>2 DEF SerialFile
  <2>4. held'.seq = SerialSeq /\ UNCHANGED <<gen, count, produced, latency_v>>
    BY <1>4, <2>3 DEF RcvReceive, Nothing
  <2>5. SerialSeq' = SerialSeq /\ SerialDone' = SerialDone
    BY <1>m, <1>n, <1>t, <2>4 DEF SerialSeq, SerialDone
  <2>6. gen = "wait" /\ ~GenSend BY <1>4 DEF RcvReceive, GenSend, Threads
  <2>7. \A e \in Ends : \A i \in 1 .. Len(to'[e]) : to'[e][i].nr # 0 => to'[e][i].seq = SerialSeq'
    BY <2>5, <2>6, SerialQuiet
  <2> QED BY <2>4, <2>5, <2>7 DEF SerialFile, LatestSerial
<1>5. CASE RcvCheck
  <2>1. rcv = "check" /\ gen = "wait" BY <1>5 DEF RcvCheck, Threads
  <2>2. held.nr = produced /\ produced > 0 BY <2>1 DEF Measured, Holding, SerialFile
  <2>3. msg_ts[Index(held.seq)] >= held.nr BY <2>1 DEF AllStamped, Stamped, Holding
  <2>4. msg_ts[Index(held.seq)] # 0
    <3>1. msg_ts[Index(held.seq)] \in Nat BY <1>t, IndexType
    <3> QED BY <1>t, <2>2, <2>3, <3>1
  <2>5. UNCHANGED <<gen, held, count, produced, latency_v>> BY <1>5, <2>4 DEF RcvCheck
  <2>6. ~GenSend BY <2>1 DEF GenSend
  <2> QED BY <1>u, <2>1, <2>5, <2>6 DEF Holding
<1>6. CASE RcvClock \/ RcvSec
  <2>1. gen = "wait" /\ rcv \in Holding BY <1>6 DEF RcvClock, RcvSec, Threads, Holding
  <2>2. held'.seq = held.seq /\ UNCHANGED <<gen, count, produced, latency_v>>
    BY <1>6, <1>t DEF RcvClock, RcvSec
  <2> QED BY <1>u, <2>1, <2>2 DEF GenSend
<1>7. CASE RcvStore
  <2>1. rcv = "nsec" /\ gen = "wait" BY <1>7 DEF RcvStore, Threads
  <2>2. rcv' = "idle" /\ gen' = "send" /\ UNCHANGED <<count, produced>> BY <1>7 DEF RcvStore, Turn
  <2>3. held.nr = produced /\ held.seq = SerialSeq BY <2>1 DEF Measured, SerialFile, Holding
  <2> DEFINE k == SerialDone
             s == SerialSeq
             t == IF s = NUM_SAMPLE THEN 0 ELSE s + 1
  <2>4. count > 0 /\ produced > 0 BY <2>1 DEF SerialFile
  <2>5. s = count - 1 /\ k = produced - 1 BY <2>1 DEF SerialSeq, SerialDone
  <2>6. SerialSeq' = t /\ SerialDone' = k + 1
    <3>1. SerialDone' = k + 1 BY <1>t, <2>2, <2>5 DEF SerialDone
    <3>2. SerialSeq' = IF count > NUM_SAMPLE THEN 0 ELSE count BY <1>m, <2>2 DEF SerialSeq
    <3>3. count > NUM_SAMPLE <=> s = NUM_SAMPLE BY <1>d, <1>t, <2>4, <2>5, GeneratorAssumption
    <3> QED BY <1>t, <2>4, <2>5, <3>1, <3>2, <3>3
  <2>7. \A i \in Indices : latency_v'[i].of = IF i = Index(s) THEN k + 1 ELSE latency_v[i].of
    <3>1. latency_v' = [latency_v EXCEPT ![Index(held.seq)] =
                          [of |-> held.nr, clock |-> held.clock, sec |-> held.sec,
                           nsec |-> msg_ts[Index(held.seq)]]]
      BY <1>7 DEF RcvStore
    <3>2. held.nr = k + 1 BY <1>t, <2>3, <2>4, <2>5
    <3> QED BY <1>t, <2>3, <3>1, <3>2
  <2>8. Quiet' /\ ~GenSend
    <3>1. Quiet BY <2>1 DEF Alone, Holding
    <3>2. ~GenSend /\ to' = to BY <1>7, <2>1 DEF RcvStore, GenSend, simulators, association
    <3> QED BY <3>1, <3>2 DEF Quiet
  <2>9. k \in Nat /\ s \in 0 .. NUM_SAMPLE /\ (k = s \/ k - s > NUM_SAMPLE)
    BY <1>d DEF SerialFile
  <2>10. \A i \in Indices : latency_v[i].of = LatestSerial(k, s, i) BY DEF SerialFile
  <2> HIDE DEF k, s
  <2>11. t \in 0 .. NUM_SAMPLE /\ (k + 1 = t \/ k + 1 - t > NUM_SAMPLE)
    <3>1. 0 \in Indices BY GeneratorAssumption DEF Indices
    <3> QED BY <2>9, <3>1, SerialEntry
  <2>12. \A i \in Indices : latency_v'[i].of = LatestSerial(k + 1, t, i)
    BY <2>7, <2>9, <2>10, SerialEntry
  <2>13. \A i \in Indices : latency_v'[i].of = LatestSerial(SerialDone, SerialSeq, i)'
    BY <2>6, <2>12 DEF LatestSerial
  <2>14. \A e \in Ends : \A i \in 1 .. Len(to'[e]) : to'[e][i].nr # 0 => to'[e][i].seq = SerialSeq'
    BY <2>8 DEF Quiet
  <2> HIDE DEF t
  <2>15. SerialSeq' \in 0 .. NUM_SAMPLE /\ (SerialDone' = SerialSeq' \/ SerialDone' - SerialSeq' > NUM_SAMPLE)
    BY <2>6, <2>9, <2>11
  <2>16. gen' # "idle" /\ gen' # "wait" /\ rcv' \notin Holding BY <2>2 DEF Holding
  <2> QED BY <2>13, <2>14, <2>15, <2>16 DEF SerialFile
<1>8. CASE /\ UNCHANGED <<gen, rcv, count, produced, held, msg_ts, latency_v, cdf>>
           /\ ~GenSend
  BY <1>8, <1>u
<1> QED BY <1>1, <1>2, <1>3, <1>4, <1>5, <1>6, <1>7, <1>8, GeneratorMoves

\* At index 0 all entries are from the last NUM_SAMPLE messages.
LEMMA SerialDump ==
  ASSUME NEW k \in Nat, NEW s \in 0 .. NUM_SAMPLE, k = s \/ k - s > NUM_SAMPLE, Index(s) = 0,
         NEW i \in Indices
  PROVE  LET l == LatestSerial(k, s, i)
         IN  IF l = 0 THEN k + 1 <= NUM_SAMPLE + 1 ELSE l < k + 1 /\ l >= k + 1 - NUM_SAMPLE
<1>1. s \in {0, NUM_SAMPLE} BY FirstRound, GeneratorAssumption
<1>2. i \in Nat /\ i < NUM_SAMPLE BY GeneratorAssumption DEF Indices
<1> QED BY <1>1, <1>2, GeneratorAssumption DEF LatestSerial

--------------------------------------------------------------------------------
(* What a send, a receive and an answer leave in the queues *)

LEMMA SentKeeps ==
  ASSUME AssociationOK, NEW e \in Ends, NEW m \in Messages, Sent(e, m)
  PROVE  /\ \A f \in Ends : \A i \in 1 .. Len(to[f]) : i \in 1 .. Len(to'[f]) /\ to'[f][i] = to[f][i]
         /\ \E i \in 1 .. Len(to'[Peer(e)]) : to'[Peer(e)][i] = m
<1>0. Peer(e) \in Ends BY DEF Peer, Ends
<1>1. to[Peer(e)] \in Seq(Messages) /\ to'[Peer(e)] = Append(to[Peer(e)], m)
  BY <1>0 DEF Sent, AssociationOK
<1>2. /\ Len(to'[Peer(e)]) = Len(to[Peer(e)]) + 1 /\ Len(to[Peer(e)]) \in Nat
      /\ \A i \in 1 .. Len(to[Peer(e)]) + 1 :
            to'[Peer(e)][i] = IF i = Len(to[Peer(e)]) + 1 THEN m ELSE to[Peer(e)][i]
  BY <1>1, AppendProps
<1>3. \A f \in Ends : f # Peer(e) => to'[f] = to[f] BY DEF Sent, AssociationOK
<1>4. ASSUME NEW f \in Ends, NEW i \in 1 .. Len(to[f])
      PROVE  i \in 1 .. Len(to'[f]) /\ to'[f][i] = to[f][i]
  <2>1. CASE f = Peer(e) BY <1>2, <2>1
  <2>2. CASE f # Peer(e) BY <1>3, <2>2
  <2> QED BY <2>1, <2>2
<1>5. Len(to[Peer(e)]) + 1 \in 1 .. Len(to'[Peer(e)]) /\ to'[Peer(e)][Len(to[Peer(e)]) + 1] = m
  BY <1>2
<1> QED BY <1>4, <1>5

LEMMA GotKeeps ==
  ASSUME AssociationOK, NEW e \in Ends, Got(e)
  PROVE  /\ to[e] # <<>> /\ 1 \in 1 .. Len(to[e]) /\ Head(to[e]) = to[e][1]
         /\ \A f \in Ends : \A i \in 1 .. Len(to[f]) :
               f # e \/ i # 1 => \E j \in 1 .. Len(to'[f]) : to'[f][j] = to[f][i]
<1>1. to[e] \in Seq(Messages) /\ to[e] # <<>> /\ to'[e] = Tail(to[e]) BY DEF Got, AssociationOK
<1>2. /\ Head(to[e]) = to[e][1] /\ Len(to[e]) \in Nat \ {0} /\ Len(to'[e]) = Len(to[e]) - 1
      /\ \A i \in 1 .. Len(to[e]) - 1 : to'[e][i] = to[e][i + 1]
  BY <1>1, TailProps
<1>3. \A f \in Ends : f # e => to'[f] = to[f] BY DEF Got, AssociationOK
<1>4. ASSUME NEW f \in Ends, NEW i \in 1 .. Len(to[f]), f # e \/ i # 1
      PROVE  \E j \in 1 .. Len(to'[f]) : to'[f][j] = to[f][i]
  <2>1. CASE f # e BY <1>3, <2>1
  <2>2. CASE f = e
    <3>1. i - 1 \in 1 .. Len(to[e]) - 1 /\ (i - 1) + 1 = i BY <1>2, <1>4, <2>2
    <3>2. to'[e][i - 1] = to[e][(i - 1) + 1] BY <1>2, <3>1
    <3> QED BY <1>2, <2>2, <3>1, <3>2
  <2> QED BY <2>1, <2>2
<1> QED BY <1>1, <1>2, <1>4

LEMMA AnswerKeeps ==
  ASSUME AssociationOK, RicAnswers
  PROVE  \A f \in Ends : \A i \in 1 .. Len(to[f]) :
           \E g \in Ends : \E j \in 1 .. Len(to'[g]) : to'[g][j] = to[f][i]
<1>0. "client" \in Ends /\ "server" \in Ends BY DEF Ends
<1>1. /\ to["client"] \in Seq(Messages) /\ to["client"] # <<>> /\ to["server"] \in Seq(Messages)
      /\ to'["client"] = Tail(to["client"])
      /\ to'["server"] = Append(to["server"], Head(to["client"]))
  BY <1>0 DEF RicAnswers, AssociationOK
<1>2. /\ Head(to["client"]) \in Messages /\ Head(to["client"]) = to["client"][1]
      /\ Len(to["client"]) \in Nat \ {0} /\ Len(to'["client"]) = Len(to["client"]) - 1
      /\ \A k \in 1 .. Len(to["client"]) - 1 : to'["client"][k] = to["client"][k + 1]
  BY <1>1, TailProps
<1>3. /\ Len(to'["server"]) = Len(to["server"]) + 1 /\ Len(to["server"]) \in Nat
      /\ \A k \in 1 .. Len(to["server"]) + 1 :
            to'["server"][k] = IF k = Len(to["server"]) + 1 THEN Head(to["client"]) ELSE to["server"][k]
  BY <1>1, <1>2, AppendProps
<1>4. ASSUME NEW i \in 1 .. Len(to["server"])
      PROVE  i \in 1 .. Len(to'["server"]) /\ to'["server"][i] = to["server"][i]
  BY <1>3
<1>5. /\ Len(to["server"]) + 1 \in 1 .. Len(to'["server"])
      /\ to'["server"][Len(to["server"]) + 1] = to["client"][1]
  BY <1>2, <1>3
<1>6. ASSUME NEW i \in 1 .. Len(to["client"]), i # 1
      PROVE  i - 1 \in 1 .. Len(to'["client"]) /\ to'["client"][i - 1] = to["client"][i]
  <2>1. i - 1 \in 1 .. Len(to["client"]) - 1 /\ (i - 1) + 1 = i BY <1>2, <1>6
  <2>2. to'["client"][i - 1] = to["client"][(i - 1) + 1] BY <1>2, <2>1
  <2> QED BY <1>2, <2>1, <2>2
<1>7. ASSUME NEW i \in 1 .. Len(to["server"])
      PROVE  \E g \in Ends : \E j \in 1 .. Len(to'[g]) : to'[g][j] = to["server"][i]
  BY <1>0, <1>4
<1>8. ASSUME NEW i \in 1 .. Len(to["client"])
      PROVE  \E g \in Ends : \E j \in 1 .. Len(to'[g]) : to'[g][j] = to["client"][i]
  <2>1. CASE i = 1 BY <1>0, <1>5, <2>1
  <2>2. CASE i # 1 BY <1>0, <1>6, <2>2
  <2> QED BY <2>1, <2>2
<1>9. ASSUME NEW f \in Ends, NEW i \in 1 .. Len(to[f])
      PROVE  \E g \in Ends : \E j \in 1 .. Len(to'[g]) : to'[g][j] = to[f][i]
  <2>1. CASE f = "client" BY <1>8, <2>1
  <2>2. CASE f = "server" BY <1>7, <2>2
  <2> QED BY <2>1, <2>2 DEF Ends
<1> QED BY <1>9

--------------------------------------------------------------------------------
(* The messages of the generator on their way, from number low on: none is *)
(* missing, and they are in order, the answers before the ones that the    *)
(* RIC has not read.                                                       *)

Numbered(low) ==
  \A e \in Ends : \A i \in 1 .. Len(to[e]) : to[e][i].nr # 0 => to[e][i].nr \in low .. produced

Ascending ==
  \A e \in Ends : \A i, j \in 1 .. Len(to[e]) :
    i < j /\ to[e][i].nr # 0 /\ to[e][j].nr # 0 => to[e][i].nr < to[e][j].nr

AnswersFirst ==
  \A i \in 1 .. Len(to["server"]), j \in 1 .. Len(to["client"]) :
    to["server"][i].nr # 0 /\ to["client"][j].nr # 0 => to["server"][i].nr < to["client"][j].nr

NoneMissing(low) ==
  \A n \in low .. produced : \E e \in Ends : \E i \in 1 .. Len(to[e]) : to[e][i].nr = n

InFlight(low) == Numbered(low) /\ Ascending /\ AnswersFirst /\ NoneMissing(low)

\* A message without a number of the generator joins.
LEMMA InFlightPlain ==
  ASSUME Typed, NEW low \in Nat \ {0}, InFlight(low), NEW e \in Ends, NEW m \in Messages, m.nr = 0,
         Sent(e, m), produced' = produced
  PROVE  InFlight(low)'
<1>0. AssociationOK /\ produced \in Nat /\ "server" \in Ends /\ "client" \in Ends
  BY DEF Typed, GeneratorOK, Ends
<1>1. \A f \in Ends : \A i \in 1 .. Len(to'[f]) :
         to'[f][i].nr # 0 => i \in 1 .. Len(to[f]) /\ to'[f][i] = to[f][i]
  BY <1>0, SentQueue
<1>2. \A f \in Ends : \A i \in 1 .. Len(to[f]) : i \in 1 .. Len(to'[f]) /\ to'[f][i] = to[f][i]
  BY <1>0, SentKeeps
<1>3. ASSUME NEW n \in low .. produced PROVE \E f \in Ends : \E i \in 1 .. Len(to'[f]) : to'[f][i].nr = n
  <2>1. PICK f \in Ends : \E i \in 1 .. Len(to[f]) : to[f][i].nr = n BY DEF InFlight, Numbered, Ascending, AnswersFirst, NoneMissing
  <2>2. PICK i \in 1 .. Len(to[f]) : to[f][i].nr = n BY <2>1
  <2> QED BY <1>2, <2>2
<1>4. Numbered(low)' BY <1>1 DEF InFlight, Numbered
<1>5. Ascending' BY <1>1 DEF InFlight, Ascending
<1>6. AnswersFirst'
  <2>1. ASSUME NEW i \in 1 .. Len(to'["server"]), NEW j \in 1 .. Len(to'["client"]),
               to'["server"][i].nr # 0, to'["client"][j].nr # 0
        PROVE  to'["server"][i].nr < to'["client"][j].nr
    <3>1. i \in 1 .. Len(to["server"]) /\ to'["server"][i] = to["server"][i] BY <1>0, <1>1, <2>1
    <3>2. j \in 1 .. Len(to["client"]) /\ to'["client"][j] = to["client"][j] BY <1>0, <1>1, <2>1
    <3> QED BY <2>1, <3>1, <3>2 DEF InFlight, AnswersFirst
  <2> QED BY <2>1 DEF AnswersFirst
<1>7. NoneMissing(low)' BY <1>3 DEF NoneMissing
<1> QED BY <1>4, <1>5, <1>6, <1>7 DEF InFlight

\* The generator's next message joins at the end.
LEMMA InFlightSent ==
  ASSUME Typed, NEW low \in Nat \ {0}, InFlight(low), GenSend, low <= produced + 1
  PROVE  InFlight(low)'
<1>0. AssociationOK /\ produced \in Nat /\ "server" \in Ends /\ "client" \in Ends /\ Peer("server") = "client"
  BY DEF Typed, GeneratorOK, Ends, Peer
<1>1. PICK m \in Messages : Sent("server", m) /\ m.nr = produced' BY GeneratedMessage
<1>p. produced' = produced + 1 BY DEF GenSend
<1>2. ASSUME NEW f \in Ends, NEW i \in 1 .. Len(to'[f])
      PROVE  \/ f = "client" /\ i = Len(to["client"]) + 1 /\ to'[f][i].nr = produced + 1
             \/ i \in 1 .. Len(to[f]) /\ to'[f][i] = to[f][i]
  BY <1>0, <1>1, <1>p, SentQueue
<1>3. \A f \in Ends : \A i \in 1 .. Len(to[f]) : i \in 1 .. Len(to'[f]) /\ to'[f][i] = to[f][i]
  BY <1>0, <1>1, SentKeeps
<1>4. \E i \in 1 .. Len(to'["client"]) : to'["client"][i].nr = produced + 1
  BY <1>0, <1>1, <1>p, SentKeeps
<1>n. \A f \in Ends : \A i \in 1 .. Len(to[f]) : to[f][i].nr # 0 => to[f][i].nr \in low .. produced
  BY DEF InFlight, Numbered, Ascending, AnswersFirst, NoneMissing
<1>l. Len(to["client"]) \in Nat
  <2>1. to["client"] \in Seq(Messages) BY <1>0 DEF AssociationOK
  <2> QED BY <2>1
<1>5. ASSUME NEW f \in Ends, NEW i \in 1 .. Len(to'[f]), to'[f][i].nr # 0
      PROVE  to'[f][i].nr \in low .. produced + 1
  BY <1>0, <1>2, <1>5, <1>n
<1>6. ASSUME NEW f \in Ends, NEW i \in 1 .. Len(to'[f]), NEW j \in 1 .. Len(to'[f]),
             i < j, to'[f][i].nr # 0, to'[f][j].nr # 0
      PROVE  to'[f][i].nr < to'[f][j].nr
  <2>1. CASE j \in 1 .. Len(to[f]) /\ to'[f][j] = to[f][j]
    <3>1. i \in 1 .. Len(to[f]) /\ to'[f][i] = to[f][i] BY <1>2, <1>6, <1>l, <2>1
    <3> QED BY <1>6, <2>1, <3>1 DEF InFlight, Numbered, Ascending, AnswersFirst, NoneMissing
  <2>2. CASE f = "client" /\ j = Len(to["client"]) + 1 /\ to'[f][j].nr = produced + 1
    <3>1. i \in 1 .. Len(to[f]) /\ to'[f][i] = to[f][i] BY <1>2, <1>6, <1>l, <2>2
    <3>2. to[f][i].nr \in low .. produced BY <1>6, <1>n, <3>1
    <3> QED BY <1>0, <2>2, <3>1, <3>2
  <2> QED BY <1>2, <2>1, <2>2
<1>7. ASSUME NEW i \in 1 .. Len(to'["server"]), NEW j \in 1 .. Len(to'["client"]),
             to'["server"][i].nr # 0, to'["client"][j].nr # 0
      PROVE  to'["server"][i].nr < to'["client"][j].nr
  <2>1. i \in 1 .. Len(to["server"]) /\ to'["server"][i] = to["server"][i] BY <1>0, <1>2
  <2>2. to["server"][i].nr \in low .. produced BY <1>0, <1>7, <1>n, <2>1
  <2>3. CASE j \in 1 .. Len(to["client"]) /\ to'["client"][j] = to["client"][j]
    BY <1>7, <2>1, <2>3 DEF InFlight, Numbered, Ascending, AnswersFirst, NoneMissing
  <2>4. CASE to'["client"][j].nr = produced + 1 BY <1>0, <2>1, <2>2, <2>4
  <2> QED BY <1>0, <1>2, <2>3, <2>4
<1>8. ASSUME NEW n \in low .. produced + 1 PROVE \E f \in Ends : \E i \in 1 .. Len(to'[f]) : to'[f][i].nr = n
  <2>1. CASE n = produced + 1 BY <1>0, <1>4, <2>1
  <2>2. CASE n # produced + 1
    <3>0. n \in low .. produced BY <1>0, <2>2
    <3>1. PICK f \in Ends : \E i \in 1 .. Len(to[f]) : to[f][i].nr = n BY <3>0 DEF InFlight, Numbered, Ascending, AnswersFirst, NoneMissing
    <3>2. PICK i \in 1 .. Len(to[f]) : to[f][i].nr = n BY <3>1
    <3> QED BY <1>3, <3>2
  <2> QED BY <2>1, <2>2
<1> QED BY <1>5, <1>6, <1>7, <1>8, <1>p DEF InFlight, Numbered, Ascending, AnswersFirst, NoneMissing

\* An answer moves on.
LEMMA InFlightAnswered ==
  ASSUME Typed, NEW low \in Nat \ {0}, InFlight(low), RicAnswers
  PROVE  InFlight(low)'
<1>0. AssociationOK /\ produced \in Nat /\ "server" \in Ends /\ "client" \in Ends /\ produced' = produced
  BY DEF Typed, GeneratorOK, Ends, RicAnswers, generator
<1>l. Len(to["server"]) \in Nat /\ Len(to["client"]) \in Nat
  <2>1. to["client"] \in Seq(Messages) /\ to["server"] \in Seq(Messages) BY <1>0 DEF AssociationOK
  <2> QED BY <2>1
<1>1. ASSUME NEW i \in 1 .. Len(to'["client"])
      PROVE  i + 1 \in 1 .. Len(to["client"]) /\ to'["client"][i] = to["client"][i + 1]
             /\ 1 \in 1 .. Len(to["client"])
  BY <1>0, <1>l, AnswerQueue
<1>2. ASSUME NEW i \in 1 .. Len(to'["server"])
      PROVE  \/ i \in 1 .. Len(to["server"]) /\ to'["server"][i] = to["server"][i]
             \/ /\ i = Len(to["server"]) + 1 /\ 1 \in 1 .. Len(to["client"])
                /\ to'["server"][i] = to["client"][1]
  BY <1>0, AnswerQueue
<1>3. ASSUME NEW f \in Ends, NEW i \in 1 .. Len(to'[f]), to'[f][i].nr # 0
      PROVE  to'[f][i].nr \in low .. produced
  <2>1. CASE f = "client"
    <3>1. PICK a \in 1 .. Len(to["client"]) : to'[f][i] = to["client"][a] BY <1>1, <2>1
    <3> QED BY <1>0, <1>3, <3>1 DEF InFlight, Numbered
  <2>2. CASE f = "server" BY <1>0, <1>2, <1>3, <2>2 DEF InFlight, Numbered
  <2> QED BY <2>1, <2>2 DEF Ends
<1>4. ASSUME NEW i \in 1 .. Len(to'["client"]), NEW j \in 1 .. Len(to'["client"]),
             i < j, to'["client"][i].nr # 0, to'["client"][j].nr # 0
      PROVE  to'["client"][i].nr < to'["client"][j].nr
  <2>1. PICK a \in 1 .. Len(to["client"]), b \in 1 .. Len(to["client"]) :
          a < b /\ to'["client"][i] = to["client"][a] /\ to'["client"][j] = to["client"][b]
    <3>1. i + 1 < j + 1 BY <1>4
    <3> QED BY <1>1, <3>1
  <2> QED BY <1>0, <1>4, <2>1 DEF InFlight, Ascending
<1>5. ASSUME NEW i \in 1 .. Len(to'["server"]), NEW j \in 1 .. Len(to'["server"]),
             i < j, to'["server"][i].nr # 0, to'["server"][j].nr # 0
      PROVE  to'["server"][i].nr < to'["server"][j].nr
  <2>1. i \in 1 .. Len(to["server"]) /\ to'["server"][i] = to["server"][i] BY <1>2, <1>5, <1>l
  <2>2. CASE j \in 1 .. Len(to["server"]) /\ to'["server"][j] = to["server"][j]
    BY <1>0, <1>5, <2>1, <2>2 DEF InFlight, Numbered, Ascending, AnswersFirst, NoneMissing
  <2>3. CASE 1 \in 1 .. Len(to["client"]) /\ to'["server"][j] = to["client"][1]
    BY <1>5, <2>1, <2>3 DEF InFlight, Numbered, Ascending, AnswersFirst, NoneMissing
  <2> QED BY <1>2, <2>2, <2>3
<1>6. ASSUME NEW i \in 1 .. Len(to'["server"]), NEW j \in 1 .. Len(to'["client"]),
             to'["server"][i].nr # 0, to'["client"][j].nr # 0
      PROVE  to'["server"][i].nr < to'["client"][j].nr
  <2>1. j + 1 \in 1 .. Len(to["client"]) /\ to'["client"][j] = to["client"][j + 1] /\ 1 < j + 1
    BY <1>1
  <2>2. CASE i \in 1 .. Len(to["server"]) /\ to'["server"][i] = to["server"][i]
    BY <1>6, <2>1, <2>2 DEF InFlight, Numbered, Ascending, AnswersFirst, NoneMissing
  <2>3. CASE 1 \in 1 .. Len(to["client"]) /\ to'["server"][i] = to["client"][1]
    BY <1>0, <1>6, <2>1, <2>3 DEF InFlight, Numbered, Ascending, AnswersFirst, NoneMissing
  <2> QED BY <1>2, <2>2, <2>3
<1>7. ASSUME NEW n \in low .. produced PROVE \E f \in Ends : \E i \in 1 .. Len(to'[f]) : to'[f][i].nr = n
  <2>1. PICK f \in Ends : \E i \in 1 .. Len(to[f]) : to[f][i].nr = n BY DEF InFlight, Numbered, Ascending, AnswersFirst, NoneMissing
  <2>2. PICK i \in 1 .. Len(to[f]) : to[f][i].nr = n BY <2>1
  <2>3. PICK g \in Ends : \E j \in 1 .. Len(to'[g]) : to'[g][j] = to[f][i] BY <1>0, AnswerKeeps
  <2> QED BY <2>2, <2>3
<1>8. \A f \in Ends : \A i, j \in 1 .. Len(to'[f]) :
        i < j /\ to'[f][i].nr # 0 /\ to'[f][j].nr # 0 => to'[f][i].nr < to'[f][j].nr
  BY <1>4, <1>5 DEF Ends
<1> QED BY <1>0, <1>3, <1>6, <1>7, <1>8 DEF InFlight, Numbered, Ascending, AnswersFirst, NoneMissing

\* A message without a number is taken ...
LEMMA InFlightDropped ==
  ASSUME Typed, NEW low \in Nat \ {0}, InFlight(low), NEW e \in Ends, Got(e), Head(to[e]).nr = 0,
         produced' = produced
  PROVE  InFlight(low)'
<1>0. AssociationOK /\ produced \in Nat /\ "server" \in Ends /\ "client" \in Ends
  BY DEF Typed, GeneratorOK, Ends
<1>1. ASSUME NEW f \in Ends, NEW i \in 1 .. Len(to'[f])
      PROVE  \E a \in 1 .. Len(to[f]) : to'[f][i] = to[f][a] /\ a = i + (IF f = e THEN 1 ELSE 0)
  BY <1>0, GotQueue
<1>3. ASSUME NEW n \in low .. produced PROVE \E f \in Ends : \E i \in 1 .. Len(to'[f]) : to'[f][i].nr = n
  <2>1. PICK f \in Ends : \E i \in 1 .. Len(to[f]) : to[f][i].nr = n BY DEF InFlight, Numbered, Ascending, AnswersFirst, NoneMissing
  <2>2. PICK i \in 1 .. Len(to[f]) : to[f][i].nr = n BY <2>1
  <2>3. f # e \/ i # 1
    <3>1. Head(to[e]) = to[e][1] BY <1>0, GotKeeps
    <3> QED BY <2>2, <3>1
  <2>4. \E j \in 1 .. Len(to'[f]) : to'[f][j] = to[f][i] BY <1>0, <2>3, GotKeeps
  <2> QED BY <2>2, <2>4
<1>4. ASSUME NEW f \in Ends, NEW i \in 1 .. Len(to'[f]), NEW j \in 1 .. Len(to'[f]),
             i < j, to'[f][i].nr # 0, to'[f][j].nr # 0
      PROVE  to'[f][i].nr < to'[f][j].nr
  <2>1. PICK a \in 1 .. Len(to[f]) : to'[f][i] = to[f][a] /\ a = i + (IF f = e THEN 1 ELSE 0) BY <1>1
  <2>2. PICK b \in 1 .. Len(to[f]) : to'[f][j] = to[f][b] /\ b = j + (IF f = e THEN 1 ELSE 0) BY <1>1
  <2>3. a < b BY <1>4, <2>1, <2>2
  <2> QED BY <1>4, <2>1, <2>2, <2>3 DEF InFlight, Ascending
<1>5. ASSUME NEW i \in 1 .. Len(to'["server"]), NEW j \in 1 .. Len(to'["client"]),
             to'["server"][i].nr # 0, to'["client"][j].nr # 0
      PROVE  to'["server"][i].nr < to'["client"][j].nr
  <2>0. "server" \in Ends /\ "client" \in Ends BY DEF Ends
  <2>1. PICK a \in 1 .. Len(to["server"]) : to'["server"][i] = to["server"][a] BY <1>1, <2>0
  <2>2. PICK b \in 1 .. Len(to["client"]) : to'["client"][j] = to["client"][b] BY <1>1, <2>0
  <2> QED BY <1>5, <2>1, <2>2 DEF InFlight, AnswersFirst
<1>6. ASSUME NEW f \in Ends, NEW i \in 1 .. Len(to'[f]), to'[f][i].nr # 0
      PROVE  to'[f][i].nr \in low .. produced
  <2>1. PICK a \in 1 .. Len(to[f]) : to'[f][i] = to[f][a] BY <1>1
  <2> QED BY <1>6, <2>1 DEF InFlight, Numbered
<1> QED BY <1>0, <1>3, <1>4, <1>5, <1>6 DEF InFlight, Numbered, Ascending, AnswersFirst, NoneMissing

\* ... and so is the first answer, which is the one with the lowest number.
LEMMA InFlightTaken ==
  ASSUME Typed, NEW low \in Nat \ {0}, InFlight(low), Got("server"), Head(to["server"]).nr # 0,
         produced' = produced
  PROVE  Head(to["server"]).nr = low /\ low <= produced /\ InFlight(low + 1)'
<1>0. AssociationOK /\ produced \in Nat /\ "server" \in Ends /\ "client" \in Ends
  BY DEF Typed, GeneratorOK, Ends
<1>h. 1 \in 1 .. Len(to["server"]) /\ Head(to["server"]) = to["server"][1] BY <1>0, GotKeeps
<1>l. Len(to["server"]) \in Nat
  <2>1. to["server"] \in Seq(Messages) BY <1>0 DEF AssociationOK
  <2> QED BY <2>1
<1> DEFINE n0 == to["server"][1].nr
<1>1. n0 \in low .. produced BY <1>0, <1>h DEF InFlight, Numbered, Ascending, AnswersFirst, NoneMissing
<1>2. low \in low .. produced BY <1>0, <1>1
<1>3. ASSUME NEW f \in Ends, NEW i \in 1 .. Len(to[f]), to[f][i].nr # 0, f # "server" \/ i # 1
      PROVE  n0 < to[f][i].nr
  <2>1. CASE f = "client" BY <1>h, <1>3, <2>1 DEF InFlight, Numbered, Ascending, AnswersFirst, NoneMissing
  <2>2. CASE f = "server"
    <3>1. 1 < i BY <1>3, <1>l, <2>2
    <3> QED BY <1>0, <1>h, <1>3, <2>2, <3>1 DEF InFlight, Numbered, Ascending, AnswersFirst, NoneMissing
  <2> QED BY <2>1, <2>2 DEF Ends
<1>4. n0 = low
  <2>1. PICK f \in Ends : \E i \in 1 .. Len(to[f]) : to[f][i].nr = low BY <1>2 DEF InFlight, Numbered, Ascending, AnswersFirst, NoneMissing
  <2>2. PICK i \in 1 .. Len(to[f]) : to[f][i].nr = low BY <2>1
  <2>3. CASE f = "server" /\ i = 1 BY <2>2, <2>3
  <2>4. CASE f # "server" \/ i # 1
    <3>1. n0 < low BY <1>3, <2>2, <2>4
    <3> QED BY <1>0, <1>1, <3>1
  <2> QED BY <2>3, <2>4
<1>5. ASSUME NEW f \in Ends, NEW i \in 1 .. Len(to'[f])
      PROVE  \E a \in 1 .. Len(to[f]) :
               to'[f][i] = to[f][a] /\ a = i + (IF f = "server" THEN 1 ELSE 0) /\ (f # "server" \/ a # 1)
  BY <1>0, GotQueue
<1>6. ASSUME NEW f \in Ends, NEW i \in 1 .. Len(to'[f]), to'[f][i].nr # 0
      PROVE  to'[f][i].nr \in low + 1 .. produced
  <2>1. PICK a \in 1 .. Len(to[f]) : to'[f][i] = to[f][a] /\ (f # "server" \/ a # 1) BY <1>5
  <2>2. to[f][a].nr \in low .. produced BY <1>6, <2>1 DEF InFlight, Numbered
  <2>3. low < to[f][a].nr BY <1>3, <1>4, <1>6, <2>1
  <2> QED BY <1>0, <2>1, <2>2, <2>3
<1>7. ASSUME NEW n \in low + 1 .. produced PROVE \E f \in Ends : \E i \in 1 .. Len(to'[f]) : to'[f][i].nr = n
  <2>0. n \in low .. produced /\ n # low BY <1>0
  <2>1. PICK f \in Ends : \E i \in 1 .. Len(to[f]) : to[f][i].nr = n BY <2>0 DEF InFlight, Numbered, Ascending, AnswersFirst, NoneMissing
  <2>2. PICK i \in 1 .. Len(to[f]) : to[f][i].nr = n BY <2>1
  <2>3. f # "server" \/ i # 1 BY <1>4, <2>0, <2>2
  <2>4. \E j \in 1 .. Len(to'[f]) : to'[f][j] = to[f][i] BY <1>0, <2>3, GotKeeps
  <2> QED BY <2>2, <2>4
<1>8. ASSUME NEW f \in Ends, NEW i \in 1 .. Len(to'[f]), NEW j \in 1 .. Len(to'[f]),
             i < j, to'[f][i].nr # 0, to'[f][j].nr # 0
      PROVE  to'[f][i].nr < to'[f][j].nr
  <2>1. PICK a \in 1 .. Len(to[f]) : to'[f][i] = to[f][a] /\ a = i + (IF f = "server" THEN 1 ELSE 0) BY <1>5
  <2>2. PICK b \in 1 .. Len(to[f]) : to'[f][j] = to[f][b] /\ b = j + (IF f = "server" THEN 1 ELSE 0) BY <1>5
  <2>3. a < b BY <1>8, <2>1, <2>2
  <2> QED BY <1>8, <2>1, <2>2, <2>3 DEF InFlight, Ascending
<1>9. ASSUME NEW i \in 1 .. Len(to'["server"]), NEW j \in 1 .. Len(to'["client"]),
             to'["server"][i].nr # 0, to'["client"][j].nr # 0
      PROVE  to'["server"][i].nr < to'["client"][j].nr
  <2>0. "server" \in Ends /\ "client" \in Ends BY DEF Ends
  <2>1. PICK a \in 1 .. Len(to["server"]) : to'["server"][i] = to["server"][a] BY <1>5, <2>0
  <2>2. PICK b \in 1 .. Len(to["client"]) : to'["client"][j] = to["client"][b] BY <1>5, <2>0
  <2> QED BY <1>9, <2>1, <2>2 DEF InFlight, AnswersFirst
<1>10. InFlight(low + 1)'
  BY <1>6, <1>7, <1>8, <1>9 DEF InFlight, Numbered, Ascending, AnswersFirst, NoneMissing
<1> QED BY <1>0, <1>1, <1>4, <1>h, <1>10

--------------------------------------------------------------------------------
(* wg_concur: the numbers, the stamps and the messages on their way *)

Concur == program["server"] = "wg_concur"

\* The message with number n counts n - 1, and each index has had its stamp once it was used.
Counted ==
  /\ gen = "idle" => rcv = "idle" /\ produced = 0
  /\ count = Now
  /\ \A i \in Indices : i < Now => msg_ts[i] # 0
  /\ \A e \in Ends : \A i \in 1 .. Len(to[e]) : to[e][i].nr # 0 => to[e][i].seq + 1 = to[e][i].nr

LEMMA NowType == Typed => Now \in Nat
  BY DEF Typed, GeneratorOK, Now

LEMMA CountedStep ==
  ASSUME Typed, Threads, Plans, Concur, Counted, [Next]_vars
  PROVE  Counted'
<1>t. /\ gen \in {"idle", "send", "stamp", "wait"} /\ count \in Nat /\ produced \in Nat
      /\ (gen = "stamp" => produced > 0) /\ msg_ts \in [Indices -> Nat] /\ Now \in Nat
  BY NowType DEF Typed, GeneratorOK
<1>s. ~Serial BY DEF Serial, Concur
<1>m. NextCount(count) = count BY <1>s DEF NextCount
<1>1. ASSUME NEW e \in Ends, NEW i \in 1 .. Len(to'[e]), to'[e][i].nr # 0
      PROVE  to'[e][i].seq + 1 = to'[e][i].nr
  <2>1. CASE \E f \in Ends : \E j \in 1 .. Len(to[f]) : to'[e][i] = to[f][j]
    BY <1>1, <2>1 DEF Counted
  <2>2. CASE GenSend /\ to'[e][i].nr = produced' /\ to'[e][i].seq = count'
    <3>1. produced' = produced + 1 /\ count' = count /\ gen = "send" BY <1>m, <2>2 DEF GenSend
    <3> QED BY <2>2, <3>1 DEF Counted, Now
  <2> QED BY <1>1, <2>1, <2>2, QueueOrigin
<1>u. ASSUME UNCHANGED <<count, Now, msg_ts>>, gen' = "idle" => rcv' = "idle" /\ produced' = 0
      PROVE  Counted'
  BY <1>1, <1>u DEF Counted
<1>2. CASE /\ gen = "idle" /\ rcv = "idle"
           /\ gen' \in {"idle", "send"} /\ rcv' \notin Holding /\ (gen' = "idle" => rcv' = "idle")
           /\ UNCHANGED <<count, produced, held, msg_ts, latency_v, cdf, lost>>
  <2>1. Now' = Now BY <1>2 DEF Now
  <2> QED BY <1>2, <1>u, <2>1 DEF Counted
<1>3. CASE GenSend
  <2>1. /\ gen = "send" /\ gen' = "stamp" /\ count' = count /\ produced' = produced + 1
        /\ msg_ts' = msg_ts
    BY <1>3, <1>m DEF GenSend
  <2>2. Now' = Now BY <1>t, <2>1 DEF Now
  <2> QED BY <1>u, <2>1, <2>2
<1>4. CASE Stamp
  <2>1. /\ gen = "stamp" /\ gen' = "send" /\ count' = count + 1 /\ produced' = produced
        /\ msg_ts' = [msg_ts EXCEPT ![Index(count)] = produced]
    BY <1>4, <1>s DEF Stamp
  <2>2. Now = produced - 1 /\ Now' = produced /\ count = Now BY <2>1 DEF Now, Counted
  <2>3. ASSUME NEW i \in Indices, i < Now' PROVE msg_ts'[i] # 0
    <3>1. CASE i = count
      <4>1. i < NUM_SAMPLE BY GeneratorAssumption DEF Indices
      <4>2. Index(count) = i BY <1>t, <3>1, <4>1, FirstRound
      <4> QED BY <1>t, <2>1, <4>2
    <3>2. CASE i # count
      <4>1. i < Now BY <1>t, <2>2, <2>3, <3>2, GeneratorAssumption DEF Indices
      <4>2. msg_ts[i] # 0 BY <4>1 DEF Counted
      <4> QED BY <1>t, <2>1, <4>2
    <3> QED BY <3>1, <3>2
  <2>4. count' = Now' BY <1>t, <2>1, <2>2
  <2> QED BY <1>1, <2>1, <2>3, <2>4 DEF Counted
<1>5. CASE RcvReceive
  <2>1. UNCHANGED <<gen, count, produced, msg_ts>> /\ rcv = "receive" BY <1>5 DEF RcvReceive
  <2> QED BY <1>u, <2>1 DEF Counted, Now
<1>6. CASE RcvCheck \/ RcvClock \/ RcvSec \/ RcvStore
  <2>1. UNCHANGED <<gen, count, produced, msg_ts>> /\ rcv # "idle"
    BY <1>6, <1>s DEF RcvCheck, RcvClock, RcvSec, RcvStore, Turn
  <2> QED BY <1>u, <2>1 DEF Counted, Now
<1>7. CASE UNCHANGED <<gen, rcv, count, produced, held, msg_ts, latency_v, cdf>>
  BY <1>7, <1>u DEF Counted, Now
<1> QED BY <1>2, <1>3, <1>4, <1>5, <1>6, <1>7, GeneratorMoves

\* A message that was not answered is not forgotten.
LEMMA LostStays ==
  ASSUME Typed, [Next]_vars, lost
  PROVE  lost'
<1>1. CASE \E e \in Ends : Simulator(e) /\ UNCHANGED generator BY <1>1 DEF generator
<1>2. CASE Setup BY <1>2 DEF Setup
<1>3. CASE Generator BY <1>3 DEF Generator, GenSend, EncodeFails, GenError, Stamp, generator
<1>4. CASE Receiver
  BY <1>4 DEF Receiver, WgDisconnected, WgReceiveError, WgUndecodable, RcvReceive, RcvCheck, RcvClock,
              RcvSec, RcvStore, generator
<1>5. CASE External BY <1>5 DEF External, RicReads, RicAnswers, generator
<1>6. CASE UNCHANGED vars BY <1>6 DEF vars, generator
<1> QED BY <1>1, <1>2, <1>3, <1>4, <1>5, <1>6 DEF Next

\* Where the generator sends nothing and the receiver takes nothing, the messages on their way stay.
LEMMA InFlightStays ==
  ASSUME Typed, Threads, Concur, Counted, program["client"] = "ric", [Next]_vars, ~lost', ~GenSend, ~RcvReceive,
         NEW low \in Nat \ {0}, InFlight(low)
  PROVE  InFlight(low)'
<1>0. "server" \in Ends /\ "client" \in Ends /\ AssociationOK BY DEF Ends, Typed
<1>u. ASSUME UNCHANGED <<to, produced>> PROVE InFlight(low)'
  BY <1>u DEF InFlight, Numbered, Ascending, AnswersFirst, NoneMissing
<1>x. ASSUME NEW f \in Ends, Exit(f) \/ GotEnd(f) \/ SendFails(f) \/ ReceiveFails(f)
      PROVE  UNCHANGED to
  BY <1>x DEF Exit, GotEnd, SendFails, ReceiveFails
<1>p. ASSUME NEW f \in Ends, NEW type \in Types, Sent(f, Plain(type)), produced' = produced
      PROVE  InFlight(low)'
  BY <1>p, PlainTypes, InFlightPlain
<1>1. ASSUME NEW f \in Ends, Simulator(f) /\ UNCHANGED generator PROVE InFlight(low)'
  <2>0. produced' = produced BY <1>1 DEF generator
  <2>1. ~HandleMessage(f) BY DEF HandleMessage, Receives, Concur, Ends
  <2>2. CASE Undecodable(f) \/ Disconnected(f) \/ ReceiveError(f) \/ SendError(f)
    <3>1. UNCHANGED to BY <1>x, <2>2 DEF Undecodable, Disconnected, ReceiveError, SendError
    <3> QED BY <1>u, <2>0, <3>1
  <2>3. CASE SendNext(f) BY <1>p, <2>0, <2>3, PlainSent
  <2> QED BY <1>1, <2>1, <2>2, <2>3 DEF Simulator
<1>2. CASE Setup
  <2>1. gen = "idle" BY <1>2, SetupIsFirst
  <2>2. produced = 0 /\ produced' = produced /\ Got("server") BY <1>2, <2>1 DEF Setup, Counted
  <2>3. Head(to["server"]).nr = 0
    <3>1. 1 \in 1 .. Len(to["server"]) /\ Head(to["server"]) = to["server"][1] BY <1>0, <2>2, GotKeeps
    <3> QED BY <1>0, <2>2, <3>1 DEF InFlight, Numbered
  <2> QED BY <1>0, <2>2, <2>3, InFlightDropped
<1>3. CASE EncodeFails \/ GenError
  BY <1>0, <1>3, <1>u, <1>x DEF EncodeFails, GenError, generator
<1>4. CASE Stamp \/ RcvCheck \/ RcvClock \/ RcvSec \/ RcvStore
  BY <1>4, <1>u DEF Stamp, RcvCheck, RcvClock, RcvSec, RcvStore, simulators, association
<1>5. CASE WgDisconnected \/ WgReceiveError \/ WgUndecodable
  BY <1>0, <1>5, <1>u, <1>x DEF WgDisconnected, WgReceiveError, WgUndecodable, generator
<1>6. CASE RicSend /\ UNCHANGED generator
  <2>1. produced' = produced BY <1>6 DEF generator
  <2> QED BY <1>0, <1>6, <1>p, <2>1, PlainSent
<1>7. CASE RicLeaves /\ UNCHANGED generator BY <1>0, <1>7, <1>u, <1>x DEF RicLeaves, generator
<1>8. CASE RicReads
  <2>1. Got("client") /\ Head(to["client"]).nr = 0 /\ produced' = produced BY <1>8 DEF RicReads
  <2> QED BY <1>0, <2>1, InFlightDropped
<1>9. CASE RicAnswers BY <1>9, InFlightAnswered
<1>10. CASE UNCHANGED vars BY <1>10, <1>u DEF vars, simulators, association, generator
<1> QED
  BY <1>1, <1>2, <1>3, <1>4, <1>5, <1>6, <1>7, <1>8, <1>9, <1>10 DEF Next, Generator, Receiver, External

--------------------------------------------------------------------------------
(* wg_concur: the latencies *)

\* The last answer entry i can have been computed for, when k answers are behind.
LatestConcur(k, i) ==
  LET p == Index(k) IN IF i < p THEN k - p + i + 1 ELSE k - p + i + 1 - NUM_SAMPLE

\* Entry i has been due once at most.
DueOnce(k, i) == k - Index(k) <= IF i < Index(k) THEN 0 ELSE NUM_SAMPLE

\* Each entry is that one's, or empty, and then in the first round; there an answer whose stamp
\* was not yet stored has left it empty.
Measures(k) ==
  \A i \in Indices :
    /\ latency_v[i].of \in {0, LatestConcur(k, i)}
    /\ latency_v[i].of = 0 => DueOnce(k, i)

\* The lowest number still on its way.
Low(k) == IF rcv \in Holding THEN k + 2 ELSE k + 1

Behind(k) ==
  /\ InFlight(Low(k)) /\ Measures(k)
  /\ rcv \in Holding => held.nr = k + 1 /\ held.seq = k

ConcurFile == (program["client"] = "ric" /\ ~lost) => \E k \in 0 .. produced : Behind(k)

\* One more answer, in its place.
LEMMA ConcurEntry ==
  ASSUME NEW k \in Nat, NEW i \in Indices
  PROVE  /\ LatestConcur(k + 1, i) = IF i = Index(k) THEN k + 1 ELSE LatestConcur(k, i)
         /\ DueOnce(k, i) /\ i # Index(k) => DueOnce(k + 1, i)
<1> DEFINE p == Index(k)
           t == Index(k + 1)
<1>1. t = IF p = NUM_SAMPLE - 1 THEN 0 ELSE p + 1 BY NextIndex
<1>2. p \in Nat /\ p < NUM_SAMPLE /\ i \in Nat /\ i < NUM_SAMPLE
  BY IndexType, GeneratorAssumption DEF Indices
<1>3. /\ LatestConcur(k, i) = IF i < p THEN k - p + i + 1 ELSE k - p + i + 1 - NUM_SAMPLE
      /\ LatestConcur(k + 1, i) = IF i < t THEN (k + 1) - t + i + 1 ELSE (k + 1) - t + i + 1 - NUM_SAMPLE
  BY DEF LatestConcur
<1> HIDE DEF p, t
<1>4. CASE p = NUM_SAMPLE - 1
  <2>1. t = 0 BY <1>1, <1>4
  <2>2. LatestConcur(k + 1, i) = IF i = p THEN k + 1 ELSE LatestConcur(k, i)
    BY <1>2, <1>3, <1>4, <2>1, GeneratorAssumption
  <2> QED BY <1>2, <1>4, <2>1, <2>2, GeneratorAssumption DEF p, t, DueOnce
<1>5. CASE p # NUM_SAMPLE - 1
  <2>1. t = p + 1 BY <1>1, <1>5
  <2>2. LatestConcur(k + 1, i) = IF i = p THEN k + 1 ELSE LatestConcur(k, i)
    BY <1>2, <1>3, <1>5, <2>1, GeneratorAssumption
  <2> QED BY <1>2, <1>5, <2>1, <2>2, GeneratorAssumption DEF p, t, DueOnce
<1> QED BY <1>4, <1>5

\* At index 0 all entries are from the last NUM_SAMPLE messages.
LEMMA ConcurDump ==
  ASSUME Typed, NEW k \in Nat, Index(k) = 0, Measures(k), NEW i \in Indices
  PROVE  LET l == latency_v[i].of
         IN  IF l = 0 THEN k + 1 <= NUM_SAMPLE + 1 ELSE l < k + 1 /\ l >= k + 1 - NUM_SAMPLE
<1>1. i \in Nat /\ i < NUM_SAMPLE BY GeneratorAssumption DEF Indices
<1>2. LatestConcur(k, i) = k - 0 + i + 1 - NUM_SAMPLE BY <1>1 DEF LatestConcur
<1>3. latency_v[i].of \in {0, LatestConcur(k, i)} /\ (latency_v[i].of = 0 => k - 0 <= NUM_SAMPLE)
  BY <1>1 DEF Measures, DueOnce
<1> QED BY <1>1, <1>2, <1>3, GeneratorAssumption

\* The receiver computes a latency ...
LEMMA MeasuresStore ==
  ASSUME Typed, NEW k \in Nat, Measures(k), held.seq = k, held.nr = k + 1, RcvStore
  PROVE  Measures(k + 1)'
<1>1. latency_v \in [Indices -> [of : Nat, clock : Nat, sec : Nat, nsec : Nat]] /\ Index(k) \in Indices
  BY IndexType DEF Typed, GeneratorOK
<1>2. \A i \in Indices : latency_v'[i].of = IF i = Index(k) THEN k + 1 ELSE latency_v[i].of
  BY <1>1 DEF RcvStore
<1>3. ASSUME NEW i \in Indices
      PROVE  /\ latency_v'[i].of \in {0, LatestConcur(k + 1, i)}
             /\ latency_v'[i].of = 0 => DueOnce(k + 1, i)
  <2>1. CASE i = Index(k)
    <3>1. latency_v'[i].of = k + 1 /\ LatestConcur(k + 1, i) = k + 1 BY <1>2, <2>1, ConcurEntry
    <3> QED BY <3>1
  <2>2. CASE i # Index(k)
    <3>1. latency_v'[i].of = latency_v[i].of /\ LatestConcur(k + 1, i) = LatestConcur(k, i)
      BY <1>2, <2>2, ConcurEntry
    <3> QED BY <2>2, <3>1, ConcurEntry DEF Measures
  <2> QED BY <2>1, <2>2
<1>4. PICK j \in Nat : j = k + 1 OBVIOUS
<1>5. \A i \in Indices :
           /\ latency_v'[i].of \in {0, LatestConcur(j, i)}
           /\ latency_v'[i].of = 0 => DueOnce(j, i)
  BY <1>3, <1>4
<1>6. Measures(j)' BY <1>5 DEF Measures
<1> QED BY <1>4, <1>6 DEF Measures, LatestConcur

\* ... or finds no stamp, which happens only in the first round.
LEMMA MeasuresSkip ==
  ASSUME Typed, Counted, AllStamped, NEW k \in Nat, Measures(k), rcv \in Holding, held.seq = k, held.nr = k + 1,
         msg_ts[Index(k)] = 0, UNCHANGED latency_v
  PROVE  Measures(k + 1)'
<1>1. /\ latency_v \in [Indices -> [of : Nat, clock : Nat, sec : Nat, nsec : Nat]] /\ Index(k) \in Indices
      /\ produced \in Nat /\ gen \in {"idle", "send", "stamp", "wait"}
  BY IndexType DEF Typed, GeneratorOK
<1>2. k + 1 <= produced BY DEF AllStamped, Stamped
<1>3. Now >= k BY <1>1, <1>2 DEF Now
<1>4. Now <= Index(k)
  <2>1. ~(Index(k) < Now) BY <1>1 DEF Counted
  <2> QED BY <1>1, <2>1, NowType, GeneratorAssumption DEF Indices
<1>5. Index(k) = k
  <2>1. k <= Index(k) /\ Index(k) < NUM_SAMPLE
    BY <1>1, <1>3, <1>4, NowType, GeneratorAssumption DEF Indices
  <2>2. k < NUM_SAMPLE BY <1>1, <2>1, GeneratorAssumption DEF Indices
  <2> QED BY <2>2, FirstRound
<1>6. k < NUM_SAMPLE BY <1>1, <1>5, GeneratorAssumption DEF Indices
<1>j. PICK j \in Nat : j = k + 1 OBVIOUS
<1>7. ASSUME NEW i \in Indices
      PROVE  /\ latency_v[i].of \in {0, LatestConcur(j, i)}
             /\ latency_v[i].of = 0 => DueOnce(j, i)
  <2>1. CASE i = Index(k)
    <3>1. LatestConcur(k, i) = k - k + k + 1 - NUM_SAMPLE BY <1>5, <2>1 DEF LatestConcur
    <3>2. latency_v[i].of = 0
      <4>1. latency_v[i].of \in Nat /\ latency_v[i].of \in {0, LatestConcur(k, i)} BY <1>1 DEF Measures
      <4> QED BY <1>6, <3>1, <4>1, GeneratorAssumption
    <3>3. Index(k + 1) = IF k = NUM_SAMPLE - 1 THEN 0 ELSE k + 1 BY <1>5, NextIndex
    <3>4. DueOnce(j, i) BY <1>j, <1>5, <1>6, <2>1, <3>3, GeneratorAssumption DEF DueOnce
    <3> QED BY <3>2, <3>4
  <2>2. CASE i # Index(k)
    <3>1. LatestConcur(j, i) = LatestConcur(k, i) BY <1>j, <2>2, ConcurEntry
    <3>2. DueOnce(k, i) => DueOnce(j, i)
      BY <1>j, <2>2, ConcurEntry
    <3> QED BY <3>1, <3>2 DEF Measures
  <2> QED BY <2>1, <2>2
<1>8. Measures(j)' BY <1>7 DEF Measures
<1> QED BY <1>j, <1>8 DEF Measures, LatestConcur

\* What the receiver takes is the next answer.
LEMMA ConcurTakes ==
  ASSUME Typed, Threads, Order, Counted, Concur, NEW k \in Nat, Behind(k), RcvReceive
  PROVE  /\ Head(to["server"]).nr = k + 1 /\ Head(to["server"]).seq = k /\ k + 1 <= produced
         /\ InFlight(k + 2)'
<1>0. "server" \in Ends /\ AssociationOK BY DEF Ends, Typed
<1>1. /\ rcv = "receive" /\ Got("server") /\ produced' = produced
      /\ Head(to["server"]).type # "garbage"
  BY DEF RcvReceive
<1>2. 1 \in 1 .. Len(to["server"]) /\ Head(to["server"]) = to["server"][1] BY <1>0, <1>1, GotKeeps
<1>3. Head(to["server"]).nr # 0
  <2>1. gen # "idle" BY <1>1 DEF Counted
  <2> QED BY <1>1, <1>2, <2>1 DEF Order, Late, IsWg, Concur
<1>4. InFlight(k + 1) BY <1>1 DEF Behind, Low, Holding
<1>5. Head(to["server"]).nr = k + 1 /\ k + 1 <= produced /\ InFlight((k + 1) + 1)'
  BY <1>1, <1>3, <1>4, InFlightTaken
<1>6. to["server"][1].seq + 1 = k + 1 /\ to["server"][1].seq \in Nat
  BY <1>0, <1>2, <1>5, MessageNumbers DEF Counted
<1> QED BY <1>2, <1>5, <1>6

LEMMA ConcurFileStep ==
  ASSUME Typed, Threads, AllStamped, Plans, Order, Concur, Counted, ConcurFile, [Next]_vars
  PROVE  ConcurFile'
<1> SUFFICES ASSUME program["client"] = "ric", ~lost' PROVE \E k \in 0 .. produced' : Behind(k)'
  BY PlansStep DEF ConcurFile
<1>t. /\ gen \in {"idle", "send", "stamp", "wait"} /\ produced \in Nat
      /\ held \in [seq : Nat, nr : Nat, clock : Nat, sec : Nat]
  BY DEF Typed, GeneratorOK
<1>s. ~Serial BY DEF Serial, Concur
<1>k. PICK k \in 0 .. produced : Behind(k) BY LostStays DEF ConcurFile
<1>n. k \in Nat /\ Low(k) \in Nat \ {0} /\ InFlight(Low(k)) /\ Measures(k) BY <1>k, <1>t DEF Behind, Low
\* The receiver stays where it is.
<1>u. ASSUME ~GenSend, ~RcvReceive, UNCHANGED <<produced, latency_v>>, rcv \in Holding <=> rcv' \in Holding,
             rcv \in Holding => held'.nr = held.nr /\ held'.seq = held.seq
      PROVE  \E j \in 0 .. produced' : Behind(j)'
  <2>1. InFlight(Low(k))' /\ Low(k)' = Low(k)
    <3>1. InFlight(Low(k)) /\ Low(k) \in Nat \ {0} BY <1>n
    <3> DEFINE low == Low(k)
    <3>2. low' = low BY <1>u DEF Low
    <3>3. \A l \in Nat \ {0} : InFlight(l) => InFlight(l)' BY <1>u, InFlightStays
    <3>4. PICK l \in Nat \ {0} : l = Low(k) BY <3>1
    <3>5. InFlight(l)' BY <3>1, <3>3, <3>4
    <3> QED BY <3>2, <3>4, <3>5
  <2>2. Measures(k)' BY <1>n, <1>u DEF Measures, LatestConcur
  <2>3. Behind(k)' BY <1>k, <1>u, <2>1, <2>2 DEF Behind
  <2> QED BY <1>u, <2>3
<1>1. CASE /\ gen = "idle" /\ rcv = "idle"
           /\ gen' \in {"idle", "send"} /\ rcv' \notin Holding
           /\ UNCHANGED <<count, produced, held, msg_ts, latency_v, cdf, lost>>
  <2>1. ~GenSend /\ ~RcvReceive BY <1>1 DEF GenSend, RcvReceive
  <2> QED BY <1>1, <1>u, <2>1 DEF Holding
<1>2. CASE GenSend
  <2>1. /\ gen = "send" /\ rcv' = rcv /\ held' = held /\ latency_v' = latency_v
        /\ produced' = produced + 1
    BY <1>2 DEF GenSend
  <2>2. Low(k) <= produced + 1
    <3>1. rcv \in Holding => k + 1 <= produced BY <1>k DEF Behind, AllStamped, Stamped
    <3> QED BY <1>n, <1>t, <3>1 DEF Low
  <2>3. InFlight(Low(k))'
    <3>1. \A l \in Nat \ {0} : InFlight(l) /\ l <= produced + 1 => InFlight(l)' BY <1>2, InFlightSent
    <3>2. PICK l \in Nat \ {0} : l = Low(k) BY <1>n
    <3>3. InFlight(l)' BY <1>n, <2>2, <3>1, <3>2
    <3>4. Low(k)' = l BY <2>1, <3>2 DEF Low
    <3> QED BY <3>3, <3>4
  <2>4. Measures(k)' BY <1>n, <2>1 DEF Measures, LatestConcur
  <2>5. Behind(k)' BY <1>k, <2>1, <2>3, <2>4 DEF Behind
  <2> QED BY <1>t, <2>1, <2>5
<1>3. CASE Stamp
  <2>1. /\ ~GenSend /\ UNCHANGED <<produced, latency_v, held>> /\ rcv' = rcv
    BY <1>3, <1>s DEF Stamp, GenSend
  <2>2. ~RcvReceive
    <3>1. gen' # gen BY <1>3, <1>s DEF Stamp
    <3> QED BY <3>1 DEF RcvReceive
  <2> QED BY <1>u, <2>1, <2>2
<1>4. CASE RcvReceive
  <2>1. /\ Head(to["server"]).nr = k + 1 /\ Head(to["server"]).seq = k /\ k + 1 <= produced
        /\ InFlight(k + 2)'
    BY <1>4, <1>k, <1>n, ConcurTakes
  <2>2. /\ held'.nr = k + 1 /\ held'.seq = k /\ rcv' = "check" /\ UNCHANGED <<produced, latency_v>>
    BY <1>4, <2>1 DEF RcvReceive, Nothing
  <2>3. Low(k)' = k + 2 BY <2>2 DEF Low, Holding
  <2>4. Measures(k)' BY <1>n, <2>2 DEF Measures, LatestConcur
  <2>5. Behind(k)' BY <2>1, <2>2, <2>3, <2>4 DEF Behind
  <2> QED BY <2>2, <2>5
<1>5. ASSUME (RcvCheck /\ msg_ts[Index(held.seq)] = 0) \/ RcvStore
      PROVE  \E j \in 0 .. produced' : Behind(j)'
  <2>1. /\ rcv \in Holding /\ rcv' = "receive" /\ UNCHANGED <<to, produced>>
    BY <1>5, <1>s DEF RcvCheck, RcvStore, Turn, Holding, simulators, association
  <2>2. held.nr = k + 1 /\ held.seq = k BY <1>k, <2>1 DEF Behind
  <2>3. k + 1 <= produced BY <2>1, <2>2 DEF AllStamped, Stamped
  <2>4. InFlight(k + 2)
    BY <1>n, <2>1 DEF Low
  <2>5. InFlight(k + 2)' BY <2>1, <2>4 DEF InFlight, Numbered, Ascending, AnswersFirst, NoneMissing
  <2>6. Low(k + 1)' = k + 2 BY <1>n, <2>1 DEF Low, Holding
  <2>7. Measures(k + 1)'
    <3>1. CASE RcvStore BY <1>n, <2>2, <3>1, MeasuresStore
    <3>2. CASE RcvCheck /\ msg_ts[Index(held.seq)] = 0
      <4>1. UNCHANGED latency_v /\ msg_ts[Index(k)] = 0 BY <2>2, <3>2 DEF RcvCheck
      <4> QED BY <1>n, <2>1, <2>2, <4>1, MeasuresSkip
    <3> QED BY <1>5, <3>1, <3>2
  <2>8. Behind(k + 1)' BY <2>1, <2>5, <2>6, <2>7 DEF Behind, Holding
  <2> QED BY <1>n, <1>t, <2>1, <2>3, <2>8
<1>6. CASE RcvCheck /\ msg_ts[Index(held.seq)] # 0
  <2>1. /\ rcv = "check" /\ rcv' = "clock" /\ UNCHANGED <<held, produced, latency_v, gen>>
    BY <1>6 DEF RcvCheck
  <2>2. ~GenSend /\ ~RcvReceive BY <1>t, <2>1 DEF GenSend, RcvReceive
  <2> QED BY <1>u, <2>1, <2>2 DEF Holding
<1>7. CASE RcvClock \/ RcvSec
  <2>1. /\ rcv \in Holding /\ rcv' \in Holding /\ UNCHANGED <<produced, latency_v>>
        /\ held'.nr = held.nr /\ held'.seq = held.seq
    BY <1>7, <1>t DEF RcvClock, RcvSec, Holding
  <2>2. ~GenSend /\ ~RcvReceive
    BY <1>t, <2>1, <1>7 DEF GenSend, RcvReceive, RcvClock, RcvSec
  <2> QED BY <1>u, <2>1, <2>2
<1>8. CASE /\ UNCHANGED <<gen, rcv, count, produced, held, msg_ts, latency_v, cdf>>
           /\ ~GenSend /\ ~RcvReceive
  BY <1>8, <1>u
<1> QED BY <1>1, <1>2, <1>3, <1>4, <1>5, <1>6, <1>7, <1>8, GeneratorMoves

--------------------------------------------------------------------------------
\* Nobody but an external RIC answers the messages of a generator.
OnlyRicAnswers ==
  program["client"] # "ric" => \A i \in 1 .. Len(to["server"]) : to["server"][i].nr = 0

LEMMA OnlyRicAnswersStep ==
  ASSUME Typed, Plans, OnlyRicAnswers, [Next]_vars
  PROVE  OnlyRicAnswers'
<1> SUFFICES ASSUME program["client"] # "ric", NEW i \in 1 .. Len(to'["server"])
             PROVE  to'["server"][i].nr = 0
  BY PlansStep DEF OnlyRicAnswers
<1>0. "server" \in Ends /\ "client" \in Ends /\ AssociationOK BY DEF Ends, Typed
<1>1. CASE UNCHANGED to BY <1>1 DEF OnlyRicAnswers
<1>2. ASSUME NEW f \in Ends, Got(f) PROVE to'["server"][i].nr = 0
  <2>1. PICK a \in 1 .. Len(to["server"]) : to'["server"][i] = to["server"][a] BY <1>0, <1>2, GotQueue
  <2> QED BY <2>1 DEF OnlyRicAnswers
<1>3. ASSUME NEW f \in Ends, SendNext(f) PROVE to'["server"][i].nr = 0
  <2>1. PICK m \in Messages : m.nr = 0 /\ Sent(f, m) BY <1>3, PlainSent, PlainTypes
  <2> QED BY <1>0, <2>1, SentQueue DEF OnlyRicAnswers
<1>4. CASE GenSend
  <2>1. "server" # Peer("server") BY DEF Peer
  <2> QED BY <1>0, <1>4, <2>1, GeneratedMessage, SentQueue DEF OnlyRicAnswers
<1>5. ~RicSend /\ ~RicAnswers BY DEF RicSend, RicAnswers, Ric
<1> QED BY <1>1, <1>2, <1>3, <1>4, <1>5, QueueCases

LEMMA LatencyFileInit == Init => SerialFile /\ OnlyRicAnswers /\ Counted /\ ConcurFile /\ CsvIsLatest
<1> SUFFICES ASSUME Init PROVE SerialFile /\ OnlyRicAnswers /\ Counted /\ ConcurFile /\ CsvIsLatest OBVIOUS
<1>1. \A e \in Ends : Len(to[e]) = 0 BY DEF Init, InitSimulators, Connected
<1>2. /\ gen = "idle" /\ rcv = "idle" /\ count = 0 /\ produced = 0 /\ cdf.at = 0
      /\ \A i \in Indices : latency_v[i].of = 0
  BY DEF Init, NoLatency
<1>3. NextCount(0) = 0 BY GeneratorAssumption DEF NextCount
<1>4. SerialSeq = 0 /\ SerialDone = 0 BY <1>2, <1>3 DEF SerialSeq, SerialDone
<1>5. \A i \in Indices : i \in Nat BY GeneratorAssumption DEF Indices
<1>6. SerialFile
  BY <1>1, <1>2, <1>4, <1>5, GeneratorAssumption DEF SerialFile, Holding, LatestSerial
<1>7. Counted BY <1>1, <1>2, <1>5 DEF Counted, Now
<1>8. Behind(0)
  <2>1. Low(0) = 1 BY <1>2 DEF Low, Holding
  <2>2. InFlight(1) BY <1>1, <1>2 DEF InFlight, Numbered, Ascending, AnswersFirst, NoneMissing, Ends
  <2>3. Index(0) = 0 BY FirstRound, GeneratorAssumption
  <2>4. Measures(0) BY <1>2, <1>5, <2>3, GeneratorAssumption DEF Measures, DueOnce
  <2> QED BY <1>2, <2>1, <2>2, <2>4 DEF Behind, Holding
<1>9. ConcurFile BY <1>2, <1>8 DEF ConcurFile
<1>10. CsvIsLatest BY <1>2 DEF CsvIsLatest
<1>11. OnlyRicAnswers BY <1>1 DEF OnlyRicAnswers, Ends
<1> QED BY <1>6, <1>7, <1>9, <1>10, <1>11

\* The file is written when an answer for index 0 comes.
LEMMA DumpIsLatest ==
  ASSUME Typed, Threads, AllStamped, Plans, Order, Serial => Alone /\ SerialFile,
         OnlyRicAnswers, Concur => Counted /\ ConcurFile, CsvIsLatest,
         [Next]_vars
  PROVE  CsvIsLatest'
<1> SUFFICES ASSUME ~lost', cdf'.at # 0, NEW i \in Indices
             PROVE  IF cdf'.of[i] = 0 THEN cdf'.at <= NUM_SAMPLE + 1
                    ELSE cdf'.of[i] < cdf'.at /\ cdf'.of[i] >= cdf'.at - NUM_SAMPLE
  BY DEF CsvIsLatest
<1>t. "server" \in Ends /\ AssociationOK /\ produced \in Nat BY DEF Ends, Typed, GeneratorOK
<1> DEFINE m == Head(to["server"])
<1>1. CASE RcvReceive /\ Index(m.seq) = 0
  <2>1. /\ cdf'.at = m.nr /\ cdf'.of[i] = latency_v[i].of
        /\ rcv = "receive" /\ Got("server") /\ IsWg
    BY <1>1 DEF RcvReceive, Dump, Wg, IsWg
  <2>2. CASE Serial
    <3>1. m.nr = produced /\ produced # 0 BY <1>1, <2>2, TakesAnswer
    <3>2. m = to["server"][1] /\ 1 \in 1 .. Len(to["server"]) BY <1>t, <2>1, GotKeeps
    <3>3. m.seq = SerialSeq BY <1>t, <2>2, <3>1, <3>2 DEF SerialFile
    <3>4. gen = "wait" BY <2>1, <2>2 DEF Threads
    <3>5. m.nr = SerialDone + 1 /\ SerialDone \in Nat BY <1>t, <3>1, <3>4 DEF SerialDone
    <3>6. /\ SerialSeq \in 0 .. NUM_SAMPLE /\ (SerialDone = SerialSeq \/ SerialDone - SerialSeq > NUM_SAMPLE)
          /\ latency_v[i].of = LatestSerial(SerialDone, SerialSeq, i)
      BY <2>2 DEF SerialFile
    <3>7. PICK l : l = latency_v[i].of OBVIOUS
    <3>8. IF l = 0 THEN SerialDone + 1 <= NUM_SAMPLE + 1
          ELSE l < SerialDone + 1 /\ l >= SerialDone + 1 - NUM_SAMPLE
      BY <1>1, <3>3, <3>5, <3>6, <3>7, SerialDump
    <3>9. cdf'.at = SerialDone + 1 /\ cdf'.of[i] = l BY <2>1, <3>5, <3>7
    <3> QED BY <3>5, <3>8, <3>9, GeneratorAssumption
  <2>3. CASE Concur /\ program["client"] = "ric"
    <3>1. PICK k \in 0 .. produced : Behind(k) BY <2>3, LostStays DEF ConcurFile
    <3>2. k \in Nat /\ m.nr = k + 1 /\ m.seq = k BY <1>1, <1>t, <2>3, <3>1, ConcurTakes
    <3>3. Index(k) = 0 /\ Measures(k) BY <1>1, <3>1, <3>2 DEF Behind
    <3>4. PICK l : l = latency_v[i].of OBVIOUS
    <3>5. IF l = 0 THEN k + 1 <= NUM_SAMPLE + 1 ELSE l < k + 1 /\ l >= k + 1 - NUM_SAMPLE
      BY <3>2, <3>3, <3>4, ConcurDump
    <3>6. cdf'.at = k + 1 /\ cdf'.of[i] = l BY <2>1, <3>2, <3>4
    <3> QED BY <3>2, <3>5, <3>6, GeneratorAssumption
  <2>4. CASE Concur /\ program["client"] # "ric"
    <3>1. gen # "idle" BY <2>1, <2>4 DEF Counted
    <3>2. m = to["server"][1] /\ 1 \in 1 .. Len(to["server"]) BY <1>t, <2>1, GotKeeps
    <3>3. m.nr # 0 BY <1>1, <2>1, <3>1, <3>2 DEF Order, Late, RcvReceive
    <3> QED BY <2>4, <3>2, <3>3 DEF OnlyRicAnswers
  <2> QED BY <2>1, <2>2, <2>3, <2>4 DEF Plans, Servers, Serial, Concur, IsWg
<1>2. CASE cdf' = cdf
  <2>1. ~lost BY LostStays
  <2> QED BY <1>2, <2>1 DEF CsvIsLatest
<1>3. RcvReceive => Index(m.seq) = 0 \/ cdf' = cdf BY DEF RcvReceive
<1>4. GenSend \/ Stamp \/ RcvCheck \/ RcvClock \/ RcvSec \/ RcvStore => cdf' = cdf
  BY DEF GenSend, Stamp, RcvCheck, RcvClock, RcvSec, RcvStore
<1> QED BY <1>1, <1>2, <1>3, <1>4, GeneratorMoves

\* The latency file: as long as every message is answered, cdf.csv, whenever it is written, holds
\* latencies of the last NUM_SAMPLE messages before the answer that wrote it, whatever the size of
\* the arrays and however many rounds over them both generators make.
THEOREM CsvIsLatestHolds == Spec => []CsvIsLatest
<1> DEFINE I == /\ Typed /\ Threads /\ AllStamped /\ Plans /\ Order /\ OnlyRicAnswers
                /\ Serial => Alone /\ Measured /\ SerialFile
                /\ Concur => Counted /\ ConcurFile
                /\ SerialIsExact /\ CsvIsLatest
<1>1. Init => I BY InitTypes, StampedInit, SerialInit, LatencyFileInit DEF Typed
<1>2. I /\ [Next]_vars => I'
  <2> SUFFICES ASSUME I, [Next]_vars PROVE I' OBVIOUS
  <2>1. Typed' BY StepTypes DEF Typed
  <2>2. Threads' /\ AllStamped' /\ Plans' /\ Order' /\ OnlyRicAnswers'
    BY <2>1, ThreadsStep, AllStampedStep, PlansStep, OrderStep, OnlyRicAnswersStep
  <2>3. Serial' = Serial /\ Concur' = Concur BY PlansStep DEF Serial, Concur
  <2>4. Serial => Alone' /\ Measured' /\ SerialIsExact' /\ SerialFile'
    BY AloneStep, MeasuredStep, SerialFileStep
  <2>5. ~Serial => SerialIsExact' BY <2>3 DEF SerialIsExact
  <2>6. Concur => Counted' /\ ConcurFile' BY CountedStep, ConcurFileStep
  <2>7. CsvIsLatest' BY DumpIsLatest
  <2> QED BY <2>1, <2>2, <2>3, <2>4, <2>5, <2>6, <2>7
<1>3. I => CsvIsLatest OBVIOUS
<1> QED BY <1>1, <1>2, <1>3, PTL DEF Spec
================================================================================

----------------------------- MODULE E2Simulators ------------------------------
(***************************************************************************)
(* The older simulators under simulators/e2sim: e2sim, the E2 agent, which *)
(* serves one RIC, and ricsim, a RIC for it.  Both dispatch what they      *)
(* receive with e2ap_handle_sctp_data.  todo[e] is what the process at e   *)
(* has yet to do before it receives for ever: messages to send, in order,  *)
(* and "receive" for one message to receive and dispatch.                  *)
(*                                                                         *)
(* "ric" is any other RIC (external): it sends what it likes, a message    *)
(* that cannot be decoded included, reads when it likes and may go at any  *)
(* time.  Messages are reduced to their type and a sequence number.        *)
(***************************************************************************)
EXTENDS SctpAssociation

CONSTANTS
  MaxSeq,      \* the largest sequence number that can be encoded (65535)
  RicSends     \* bound: messages an external RIC sends of its own

ASSUME SimulatorAssumption == MaxSeq \in Nat /\ RicSends \in Nat

VARIABLES
  program,   \* program[e]: what runs at each end
  todo,      \* todo[e]: see above
  ricSent    \* the messages the external RIC sent of its own

simulators == <<association, program, todo, ricSent>>

Servers == {"e2sim", "wg_serial", "wg_concur"}
Clients == {"ricsim", "ric"}

Requests == {"X2SetupRequest", "X2SetupResponse", "ENDCX2SetupRequest", "RICsubscriptionRequest",
             "ResourceStatusRequest"}

Indications == {"type1", "type2", "ResourceStatusUpdate"}

Types == Requests \cup Indications \cup
         {"ENDCX2SetupResponse", "RICsubscriptionResponse", "ResourceStatusResponse", "garbage"}

\* The sequence number in the XML files: any that no generator uses.
Fixed == MaxSeq + 1

Plain(type) == [type |-> type, seq |-> Fixed, nr |-> 0]

\* e2ap_handle_sctp_data: what a message makes the process send.
Reply(type) ==
  CASE type = "X2SetupRequest" -> <<"X2SetupResponse">>
    [] type = "X2SetupResponse" -> <<"ResourceStatusRequest">>
    [] type = "ENDCX2SetupRequest" -> <<"ENDCX2SetupResponse">>
    [] type = "RICsubscriptionRequest" -> <<"RICsubscriptionResponse", "type1">>
    [] type = "ResourceStatusRequest" -> <<"ResourceStatusResponse", "ResourceStatusUpdate">>
    [] OTHER -> <<>>

\* Mutant: the loop sends the first type of indication only.
Again_Type1(type) == IF type \in Indications THEN <<type>> ELSE <<>>

\* The loops of the last two handlers, which never end.
Again(type) ==
  CASE type = "type1" -> <<"type2">>
    [] type = "type2" -> <<"type1">>
    [] type = "ResourceStatusUpdate" -> <<"ResourceStatusUpdate">>
    [] OTHER -> <<>>

InitSimulators ==
  /\ Connected
  /\ \E server \in Servers, client \in Clients :
       program = [e \in Ends |-> IF e = "server" THEN server ELSE client]
  /\ todo = [e \in Ends |->
               CASE program[e] = "ricsim" -> <<"ENDCX2SetupRequest", "receive", "RICsubscriptionRequest">>
                 [] program[e] \in {"e2sim", "ric"} -> <<>>
                 [] OTHER -> <<"first">>]
  /\ ricSent = <<>>

Do(e, steps) == todo' = [todo EXCEPT ![e] = steps]

--------------------------------------------------------------------------------
\* The step a process is at: after the last one, it receives.
At(e) == IF todo[e] = <<>> THEN "receive" ELSE Head(todo[e])

Receives(e) == Running(e) /\ program[e] \in {"e2sim", "ricsim"} /\ At(e) = "receive"

Rest(e) == IF todo[e] = <<>> THEN <<>> ELSE Tail(todo[e])

HandleMessage(e) ==
  /\ Receives(e) /\ Got(e) /\ Head(to[e]).type # "garbage"
  /\ Do(e, Reply(Head(to[e]).type) \o Rest(e))
  /\ UNCHANGED <<program, ricSent>>

\* e2ap_asn1c_decode_pdu exits.
Undecodable(e) ==
  /\ Receives(e) /\ fd[e] = "open" /\ to[e] # <<>> /\ Head(to[e]).type = "garbage"
  /\ Exit(e)
  /\ UNCHANGED <<program, todo, ricSent>>

\* e2sim returns from main; ricsim goes on, to a send or a receive that fails.
Disconnected(e) ==
  /\ Receives(e) /\ fd[e] = "open" /\ to[e] = <<>> /\ Gone(Peer(e))
  /\ fd' = [fd EXCEPT ![e] = "closed"]
  /\ process' = [process EXCEPT ![e] = IF program[e] = "e2sim" THEN "exited" ELSE @]
  /\ Do(e, Rest(e))
  /\ UNCHANGED <<to, program, ricSent>>

ReceiveError(e) == Receives(e) /\ ReceiveFails(e) /\ UNCHANGED <<program, todo, ricSent>>

\* The next message of a handler, of ricsim's main or of wg_setup.
Sends(e) == Running(e) /\ At(e) \in Types

SendNext(e) ==
  /\ Sends(e)
  /\ Sent(e, Plain(At(e)))
  /\ Do(e, Again(At(e)) \o Tail(todo[e]))
  /\ UNCHANGED <<program, ricSent>>

SendError(e) == Sends(e) /\ SendFails(e) /\ UNCHANGED <<program, todo, ricSent>>

Simulator(e) ==
  \/ HandleMessage(e) \/ Undecodable(e) \/ Disconnected(e) \/ ReceiveError(e)
  \/ SendNext(e) \/ SendError(e)

--------------------------------------------------------------------------------
\* The external RIC.
Ric == program["client"] = "ric" /\ Running("client")

\* A generator is sent a set-up first and one subscription; its receiver takes any other message
\* for an answer.
MaySend(type) ==
  \/ program["server"] = "e2sim" /\ type \in Requests
  \/ /\ program["server"] # "e2sim"
     /\ \/ ricSent = <<>> /\ type = "ENDCX2SetupRequest"
        \/ /\ ricSent # <<>> /\ \A i \in DOMAIN ricSent : ricSent[i] # "RICsubscriptionRequest"
           /\ type \in {"RICsubscriptionRequest", "X2SetupRequest"}
  \/ type = "garbage"

RicSend ==
  /\ Ric /\ Len(ricSent) < RicSends
  /\ \E type \in Requests \cup {"garbage"} :
       /\ MaySend(type)
       /\ Sent("client", Plain(type))
       /\ ricSent' = Append(ricSent, type)
  /\ UNCHANGED <<program, todo>>

RicLeaves == Ric /\ Exit("client") /\ UNCHANGED <<program, todo, ricSent>>
================================================================================

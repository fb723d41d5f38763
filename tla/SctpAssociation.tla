---------------------------- MODULE SctpAssociation ----------------------------
(***************************************************************************)
(* One SCTP association as the simulators' e2sim_sctp.cpp uses it: the     *)
(* server accepts a single client, and each call that fails ends the       *)
(* process.  The kernel keeps messages whole and in order; a send waits    *)
(* while the other end has not read what is on its way.                    *)
(***************************************************************************)
EXTENDS Naturals, Sequences

CONSTANT MaxQueue   \* messages on their way before a send waits

ASSUME QueueAssumption == MaxQueue \in Nat \ {0}

Ends == {"server", "client"}

Peer(e) == IF e = "server" THEN "client" ELSE "server"

VARIABLES
  process,   \* process[e]: "running", or "exited"
  fd,        \* fd[e]: the socket of e, "open" or "closed"
  to         \* to[e]: the messages on their way to e

association == <<process, fd, to>>

Gone(e) == process[e] = "exited" \/ fd[e] = "closed"

Running(e) == process[e] = "running"

Connected ==
  /\ process = [e \in Ends |-> "running"]
  /\ fd = [e \in Ends |-> "open"]
  /\ to = [e \in Ends |-> <<>>]

Exit(e) == process' = [process EXCEPT ![e] = "exited"] /\ UNCHANGED <<fd, to>>

\* sctp_send_data with success: the message is on its way.
Sent(e, m) ==
  /\ fd[e] = "open" /\ ~Gone(Peer(e)) /\ Len(to[Peer(e)]) < MaxQueue
  /\ to' = [to EXCEPT ![Peer(e)] = Append(@, m)]
  /\ UNCHANGED <<process, fd>>

\* sctp_send_data when the socket is closed, here or there.
SendFails(e) == (fd[e] = "closed" \/ Gone(Peer(e))) /\ Exit(e)

\* sctp_receive_data with a message.
Got(e) ==
  /\ fd[e] = "open" /\ to[e] # <<>>
  /\ to' = [to EXCEPT ![e] = Tail(@)]
  /\ UNCHANGED <<process, fd>>

\* sctp_receive_data at the end of the association: it closes the socket.
GotEnd(e) ==
  /\ fd[e] = "open" /\ to[e] = <<>> /\ Gone(Peer(e))
  /\ fd' = [fd EXCEPT ![e] = "closed"]
  /\ UNCHANGED <<process, to>>

\* sctp_receive_data on a closed socket, or on an association that was aborted.
ReceiveFails(e) == (fd[e] = "closed" \/ Gone(Peer(e))) /\ Exit(e)
================================================================================

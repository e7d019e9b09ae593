----------------------------- MODULE EchoClient -----------------------------
(***************************************************************************)
(* One thread of the multithreaded echo client,                            *)
(* src/lab11-echoserver-process-thread/ES-MT-Logger/echo_client_mt.c,      *)
(* lines 20-100: connect, read the welcome, then send MaxMsgs data         *)
(* messages each followed by reading the echo, then SERVER_COMMAND (the    *)
(* should_stop branch) and close.  Each thread is one connection c.        *)
(* Once the server process is gone its clients end too (a zero-byte recv), *)
(* which no property observes, so every client step requires alive.        *)
(* phase[c] is the server's view of the connection: connect puts it in the *)
(* listen backlog.                                                         *)
(***************************************************************************)
EXTENDS Naturals, Sequences

CONSTANTS Clients, SERVER_COMMAND, DATA, MaxMsgs, PeerMayDisconnect

VARIABLES cpc, counter, toServer, toClient, peerClosed, phase, alive

ClientStates == {"connect", "recv_welcome", "send", "recv_echo", "done", "aborted"}

ClientStep(c, from, to) ==
    /\ alive
    /\ cpc[c] = from
    /\ cpc' = [cpc EXCEPT ![c] = to]

Connect(c) ==
    /\ ClientStep(c, "connect", "recv_welcome")
    /\ phase' = [phase EXCEPT ![c] = "backlog"]
    /\ UNCHANGED <<counter, toServer, toClient, peerClosed>>

\* recv of the welcome (lines 46-52) or of an echo (lines 85-91)
ClientRecv(c, from) ==
    /\ ClientStep(c, from, "send")
    /\ toClient[c] /= <<>>
    /\ toClient' = [toClient EXCEPT ![c] = Tail(@)]
    /\ UNCHANGED <<phase, counter, toServer, peerClosed>>

\* lines 67-77 with should_stop clear
SendData(c) ==
    /\ ClientStep(c, "send", "recv_echo")
    /\ counter[c] < MaxMsgs
    /\ counter' = [counter EXCEPT ![c] = @ + 1]
    /\ toServer' = [toServer EXCEPT ![c] = Append(@, DATA)]
    /\ UNCHANGED <<phase, toClient, peerClosed>>

\* lines 63-81 and 96-97: should_stop set, send QUIT, leave, close
SendQuit(c) ==
    /\ ClientStep(c, "send", "done")
    /\ counter[c] = MaxMsgs
    /\ toServer' = [toServer EXCEPT ![c] = Append(@, SERVER_COMMAND)]
    /\ peerClosed' = [peerClosed EXCEPT ![c] = TRUE]
    /\ UNCHANGED <<phase, counter, toClient>>

\* The client process dies mid-session; its socket is closed.
ClientDies(c) ==
    /\ PeerMayDisconnect
    /\ alive
    /\ cpc[c] \in {"recv_welcome", "send", "recv_echo"}
    /\ cpc' = [cpc EXCEPT ![c] = "aborted"]
    /\ peerClosed' = [peerClosed EXCEPT ![c] = TRUE]
    /\ UNCHANGED <<phase, counter, toServer, toClient>>

\* The steps the thread takes by itself, which the scheduler runs fairly.
ClientProgress(c) ==
    \/ Connect(c) \/ ClientRecv(c, "recv_welcome") \/ ClientRecv(c, "recv_echo")
    \/ SendData(c) \/ SendQuit(c)

client(c) == (ClientProgress(c) \/ ClientDies(c)) /\ UNCHANGED alive

====

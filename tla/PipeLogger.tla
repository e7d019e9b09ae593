------------------------------ MODULE PipeLogger ------------------------------
(***************************************************************************)
(* The echo server whose stderr is logged by a separate Logger process     *)
(* through a pipe, src/lab9-fifo-logger/Logger/server.c, driven by the     *)
(* client threads of echo_client_mt.c.                                     *)
(*                                                                         *)
(* Every fprintf(stderr, ...) of the server is one write to the pipe: one  *)
(* record, numbered by the order of the writes (sent is the history of     *)
(* them).  The Logger reads up to sizeof(buf) bytes, here up to MaxRead    *)
(* records, writes them to log.txt, and stops when the pipe reaches EOF    *)
(* (every writer gone) or, after a write, when its SIGINT/SIGTERM handler  *)
(* has set logger_shouldStop.  A read interrupted by the signal returns    *)
(* EINTR and is simply restarted (line 83), so it is no step of its own.   *)
(*                                                                         *)
(* The server dies on SIGINT (no handler) and through                     *)
(* SRV_ERROR_HELPER_WITH_ACTIVE_LOGGER, which first sends SIGTERM to the   *)
(* Logger.  Its death closes the pipe's last write end.  A peer that       *)
(* closes with data it never read answers with a reset, so a later recv    *)
(* fails with ECONNRESET; a peer that                                       *)
(* closes with nothing unread only makes recv return 0.                    *)
(***************************************************************************)
EXTENDS Naturals, Sequences

CONSTANTS
    Clients,            \* client connections, each served by its own thread
    SERVER_COMMAND,     \* the quit message
    DATA,               \* any other message a client sends
    WELCOME,            \* the server's welcome message
    MaxMsgs,            \* bound: data messages a client sends before QUIT
    MaxRead,            \* records that fit in the Logger's 512-byte buffer
    PeerMayDisconnect,  \* may a client die before sending QUIT?
    UserMayInterrupt    \* may Ctrl-C send SIGINT to the process group?

ASSUME MaxRead \in Nat \ {0}

VARIABLES
    main_pc, args, phase,   \* main's accept loop; each connection's handler
    recv_bytes,   \* per connection: 0 or 1 message received by the last recv
    cpc, counter, toServer, toClient, peerClosed, serverClosed,  \* clients, TCP
    alive,        \* the server process has not exited
    sent,         \* every record the server has written to the pipe
    pipe,         \* the records written and not yet read
    lpc,          \* where the Logger is: "read", "write" or "exited"
    buf,          \* the records the Logger has read and not yet written
    logfile,      \* the records in log.txt
    logger_shouldStop

srvVars == <<main_pc, args, phase, recv_bytes, serverClosed>>
cliVars == <<cpc, counter, toServer, toClient, peerClosed>>
logVars == <<sent, pipe, lpc, buf, logfile, logger_shouldStop>>
vars == <<srvVars, cliVars, alive, logVars>>

\* main() up to line 271: the Logger is forked and the boot message is the
\* first record.
Init ==
    /\ main_pc = "accept" /\ args = CHOOSE c \in Clients : TRUE
    /\ phase = [c \in Clients |-> "init"]
    /\ recv_bytes = [c \in Clients |-> 0]
    /\ cpc = [c \in Clients |-> "connect"] /\ counter = [c \in Clients |-> 0]
    /\ toServer = [c \in Clients |-> <<>>] /\ toClient = [c \in Clients |-> <<>>]
    /\ peerClosed = [c \in Clients |-> FALSE]
    /\ serverClosed = [c \in Clients |-> FALSE]
    /\ alive = TRUE
    /\ sent = <<1>> /\ pipe = <<1>>
    /\ lpc = "read" /\ buf = <<>> /\ logfile = <<>>
    /\ logger_shouldStop = FALSE

\* fprintf(stderr, ...): one record written to the pipe.
Log ==
    /\ sent' = Append(sent, Len(sent) + 1)
    /\ pipe' = Append(pipe, Len(sent) + 1)

\* The peer has reset the connection: it closed with data unread.
Reset(c) == peerClosed[c] /\ toClient[c] /= <<>>

\* The server process ends; the pipe loses its last writer.
ServerDies == alive' = FALSE

(***************************************************************************)
(* main, lines 277-301 (DEBUG is 1 in common.h).                           *)
(***************************************************************************)

Accept(c) ==
    /\ main_pc = "accept"
    /\ phase[c] = "backlog"
    /\ phase' = [phase EXCEPT ![c] = "accepted"]
    /\ args' = c
    /\ main_pc' = "create"
    /\ Log

Create ==
    /\ main_pc = "create"
    /\ phase' = [phase EXCEPT ![args] = "welcome"]
    /\ main_pc' = "accept"
    /\ UNCHANGED <<args, sent, pipe>>

Main ==
    /\ alive
    /\ (\E c \in Clients : Accept(c)) \/ Create
    /\ UNCHANGED <<recv_bytes, serverClosed, cliVars, alive, lpc, buf, logfile,
                   logger_shouldStop>>

(***************************************************************************)
(* connection_handler, lines 125-190.                                      *)
(***************************************************************************)

\* lines 151-161: log "Handling connection", send the welcome.  It is the
\* first send on the connection, so no reset can have come back yet.
SendWelcome(c) ==
    /\ phase[c] = "welcome"
    /\ Log
    /\ toClient' = [toClient EXCEPT ![c] = Append(@, WELCOME)]
    /\ phase' = [phase EXCEPT ![c] = "recv"]
    /\ UNCHANGED <<recv_bytes, toServer, serverClosed, alive, logger_shouldStop>>

\* lines 164-172: recv.  Only a negative result is treated as an error
\* (ECONNRESET: log it, then SRV_ERROR_HELPER continues in KillLogger); a
\* zero-byte read is not the quit command and goes on to the echo.
Recv(c) ==
    /\ phase[c] = "recv"
    /\ \/ /\ toServer[c] /= <<>>
          /\ toServer' = [toServer EXCEPT ![c] = Tail(@)]
          /\ recv_bytes' = [recv_bytes EXCEPT ![c] = 1]
          /\ phase' = [phase EXCEPT ![c] =
                         IF Head(toServer[c]) = SERVER_COMMAND THEN "close" ELSE "send"]
          /\ UNCHANGED <<sent, pipe>>
       \/ /\ toServer[c] = <<>> /\ peerClosed[c] /\ ~Reset(c)
          /\ recv_bytes' = [recv_bytes EXCEPT ![c] = 0]
          /\ phase' = [phase EXCEPT ![c] = "send"]
          /\ UNCHANGED <<toServer, sent, pipe>>
       \/ /\ toServer[c] = <<>> /\ Reset(c)
          /\ Log
          /\ phase' = [phase EXCEPT ![c] = "error"]
          /\ UNCHANGED <<toServer, recv_bytes>>
    /\ UNCHANGED <<toClient, serverClosed, alive, logger_shouldStop>>

\* lines 175-178: send the recv_bytes received back; zero bytes send
\* nothing.  A recv separates every two sends, and a recv on a reset
\* connection fails first, so the send never meets the reset (no SIGPIPE).
SendEcho(c) ==
    /\ phase[c] = "send"
    /\ toClient' = [toClient EXCEPT ![c] = IF recv_bytes[c] = 0 THEN @ ELSE Append(@, DATA)]
    /\ phase' = [phase EXCEPT ![c] = "recv"]
    /\ UNCHANGED <<recv_bytes, toServer, serverClosed, sent, pipe, alive, logger_shouldStop>>

\* lines 181-189: close the socket, log "Connection closed", exit
CloseSocket(c) ==
    /\ phase[c] = "close"
    /\ phase' = [phase EXCEPT ![c] = "exited"]
    /\ serverClosed' = [serverClosed EXCEPT ![c] = TRUE]
    /\ Log
    /\ UNCHANGED <<recv_bytes, toServer, toClient, alive, logger_shouldStop>>

\* lines 27-28: kill(logger_pid, SIGTERM); exit(EXIT_FAILURE).  The Logger's
\* handler sets logger_shouldStop.
KillLogger(c) ==
    /\ phase[c] = "error"
    /\ logger_shouldStop' = TRUE
    /\ ServerDies
    /\ UNCHANGED <<phase, recv_bytes, toServer, toClient, serverClosed, sent, pipe>>

connection_handler(c) ==
    /\ alive
    /\ SendWelcome(c) \/ Recv(c) \/ SendEcho(c) \/ CloseSocket(c) \/ KillLogger(c)
    /\ UNCHANGED <<main_pc, args, cpc, counter, peerClosed, lpc, buf, logfile>>

\* Ctrl-C: SIGINT to the process group ends the server (no handler) and
\* makes the Logger's handler set logger_shouldStop.
Interrupt ==
    /\ UserMayInterrupt
    /\ ~logger_shouldStop
    /\ ServerDies
    /\ logger_shouldStop' = TRUE
    /\ UNCHANGED <<srvVars, cliVars, sent, pipe, lpc, buf, logfile>>

(***************************************************************************)
(* startLogger, lines 41-116.                                              *)
(***************************************************************************)

\* Mutant: read() is given more than sizeof(buf).
ReadPipe_overlong ==
    /\ lpc = "read"
    /\ \/ \E k \in 1..MaxRead + 1 :
            /\ k <= Len(pipe)
            /\ buf' = SubSeq(pipe, 1, k)
            /\ pipe' = SubSeq(pipe, k + 1, Len(pipe))
            /\ lpc' = "write"
       \/ /\ pipe = <<>> /\ ~alive
          /\ lpc' = "exited"
          /\ UNCHANGED <<buf, pipe>>
    /\ UNCHANGED logfile

\* lines 78-84: read up to sizeof(buf) bytes; it blocks while the pipe is
\* empty and has a writer, and returns 0 at EOF, which ends the loop and
\* (lines 105-115) closes the log file and exits.
ReadPipe ==
    /\ lpc = "read"
    /\ \/ \E k \in 1..MaxRead :
            /\ k <= Len(pipe)
            /\ buf' = SubSeq(pipe, 1, k)
            /\ pipe' = SubSeq(pipe, k + 1, Len(pipe))
            /\ lpc' = "write"
       \/ /\ pipe = <<>> /\ ~alive
          /\ lpc' = "exited"
          /\ UNCHANGED <<buf, pipe>>
    /\ UNCHANGED logfile

\* Mutant: the write loop never sees bytes_left reach 0.
WriteLog_noProgress ==
    /\ lpc = "write"
    /\ UNCHANGED <<logfile, buf, lpc, pipe>>

\* lines 86-102: write the whole buffer to log.txt, then leave the loop if
\* logger_shouldStop is set.
WriteLog ==
    /\ lpc = "write"
    /\ logfile' = logfile \o buf
    /\ buf' = <<>>
    /\ lpc' = IF logger_shouldStop THEN "exited" ELSE "read"
    /\ UNCHANGED pipe

Logger ==
    /\ ReadPipe \/ WriteLog
    /\ UNCHANGED <<srvVars, cliVars, alive, sent, logger_shouldStop>>

\* The client threads of echo_client_mt.c.
C == INSTANCE EchoClient

client(c) == C!client(c) /\ UNCHANGED <<main_pc, args, recv_bytes, serverClosed, logVars>>

Next ==
    \/ Main
    \/ \E c \in Clients : connection_handler(c) \/ client(c)
    \/ Interrupt
    \/ Logger

\* Every thread of the server and the clients, and the Logger process, are
\* scheduled; client deaths and Ctrl-C are choices of the environment.
Fairness ==
    /\ WF_vars(Main)
    /\ WF_vars(Logger)
    /\ \A c \in Clients :
         /\ WF_vars(connection_handler(c))
         /\ WF_vars(C!ClientProgress(c)
                    /\ UNCHANGED <<main_pc, args, recv_bytes, serverClosed, logVars, alive>>)

Spec == Init /\ [][Next]_vars /\ Fairness

-----------------------------------------------------------------------------

Msgs == {SERVER_COMMAND, DATA, WELCOME}

\* Every variable holds a value of its type.
TypeOK ==
    /\ main_pc \in {"accept", "create"} /\ args \in Clients
    /\ phase \in [Clients -> {"init", "backlog", "accepted", "welcome", "recv",
                              "send", "close", "error", "exited"}]
    /\ recv_bytes \in [Clients -> {0, 1}]
    /\ cpc \in [Clients -> C!ClientStates] /\ counter \in [Clients -> 0..MaxMsgs]
    /\ toServer \in [Clients -> Seq(Msgs)] /\ toClient \in [Clients -> Seq(Msgs)]
    /\ peerClosed \in [Clients -> BOOLEAN] /\ serverClosed \in [Clients -> BOOLEAN]
    /\ alive \in BOOLEAN
    /\ sent \in Seq(Nat) /\ pipe \in Seq(Nat) /\ logfile \in Seq(Nat)
    /\ lpc \in {"read", "write", "exited"}
    /\ buf \in Seq(Nat) /\ Len(buf) <= MaxRead
    /\ logger_shouldStop \in BOOLEAN

\* Once the server has died, however it died, the Logger eventually exits:
\* a signal or EOF ends its loop, and no read blocks for ever.
LoggerTerminates == ~alive ~> lpc = "exited"

\* When the Logger exits, every record the server wrote to the pipe is in
\* log.txt (the comment at lines 100-101: when the flag is seen "there are
\* no more data to read"; spec 4.3: drain before terminating).
LoggerDrains == lpc = "exited" => logfile = sent

\* Every connection accepted into the backlog is eventually closed by its
\* handler, unless the server has died (spec 4.4: a zero-byte read ends the
\* connection's loop).
EveryConnectionEnds ==
    \A c \in Clients : phase[c] = "backlog" ~> (phase[c] = "exited" \/ ~alive)

====

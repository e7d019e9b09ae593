----------------------------- MODULE EchoServerMT -----------------------------
(***************************************************************************)
(* The thread-per-connection echo server with bounded concurrency,         *)
(* src/lab11-echoserver-process-thread/ES-MP-LimitConn/multithread.c,      *)
(* driven by the client threads of echo_client_mt.c.                       *)
(*                                                                         *)
(* main accepts a connection, waits on the unnamed semaphore `connections' *)
(* (sem_init to MAX_CONCURRENCY) and creates a detached handler thread,    *)
(* which posts the semaphore after closing its socket.  Unlike the process *)
(* variant, ERROR_HELPER and SIGPIPE in a handler end the whole process,   *)
(* and signalHandlerCleanup (sem_destroy, exit) ends it on SIGINT/SIGTERM. *)
(* alive is FALSE once the process has ended; nothing runs after that.     *)
(***************************************************************************)
EXTENDS Naturals, Sequences, FiniteSets

CONSTANTS
    MAX_CONCURRENCY,    \* initial value of the semaphore
    Clients,            \* client connections, each served by its own thread
    SERVER_COMMAND,     \* the quit message
    DATA,               \* any other message a client sends
    WELCOME,            \* the server's welcome message
    MaxMsgs,            \* bound: data messages a client sends before QUIT
    PeerMayDisconnect,  \* may a client die before sending QUIT?
    UserMayInterrupt    \* may the server receive SIGINT or SIGTERM?

ASSUME MAX_CONCURRENCY \in Nat \ {0}

VARIABLES
    connections,  \* value of the semaphore
    main_pc,      \* where main is in its accept loop
    args,         \* the connection main has accepted and not yet handed off
    phase,        \* per connection: backlog, then the handler's position
    cpc, counter, \* per connection: the client thread
    toServer, toClient, peerClosed, serverClosed,   \* the TCP stream
    alive         \* the server process has not exited

netVars == <<toServer, toClient, peerClosed, serverClosed>>
vars == <<connections, main_pc, args, phase, cpc, counter, netVars, alive>>

HandlerPhases == {"welcome", "recv", "send", "close", "post"}

\* main() lines 132-143: sem_init and the signal handlers.
Init ==
    /\ connections = MAX_CONCURRENCY
    /\ main_pc = "accept" /\ args = CHOOSE c \in Clients : TRUE
    /\ phase = [c \in Clients |-> "init"]
    /\ cpc = [c \in Clients |-> "connect"] /\ counter = [c \in Clients |-> 0]
    /\ toServer = [c \in Clients |-> <<>>] /\ toClient = [c \in Clients |-> <<>>]
    /\ peerClosed = [c \in Clients |-> FALSE]
    /\ serverClosed = [c \in Clients |-> FALSE]
    /\ alive = TRUE

(***************************************************************************)
(* main, lines 180-209.                                                    *)
(***************************************************************************)

\* accept(); thread_args = {client_desc, client_addr}
Accept(c) ==
    /\ main_pc = "accept"
    /\ phase[c] = "backlog"
    /\ phase' = [phase EXCEPT ![c] = "accepted"]
    /\ args' = c
    /\ main_pc' = "sem_wait"
    /\ UNCHANGED connections

\* Mutant: main does not block on a semaphore at zero.
SemWait_noBlock ==
    /\ main_pc = "sem_wait"
    /\ connections' = connections - 1
    /\ main_pc' = "create"
    /\ UNCHANGED <<args, phase>>

\* sem_wait(&connections)
SemWait ==
    /\ main_pc = "sem_wait"
    /\ connections > 0
    /\ connections' = connections - 1
    /\ main_pc' = "create"
    /\ UNCHANGED <<args, phase>>

\* pthread_create; pthread_detach; client_addr = calloc(...)
Create ==
    /\ main_pc = "create"
    /\ phase' = [phase EXCEPT ![args] = "welcome"]
    /\ main_pc' = "accept"
    /\ UNCHANGED <<connections, args>>

Main ==
    /\ alive
    /\ (\E c \in Clients : Accept(c)) \/ SemWait \/ Create
    /\ UNCHANGED <<cpc, counter, netVars, alive>>

(***************************************************************************)
(* connection_handler, lines 41-122.  A send to a peer that has closed    *)
(* either still succeeds or raises SIGPIPE; SIGPIPE and ERROR_HELPER end   *)
(* the process.                                                            *)
(***************************************************************************)

ProcessExit == alive' = FALSE

SendOrDie(c, msg, to) ==
    \/ /\ phase' = [phase EXCEPT ![c] = to]
       /\ toClient' = [toClient EXCEPT ![c] = Append(@, msg)]
       /\ UNCHANGED alive
    \/ /\ peerClosed[c]
       /\ ProcessExit
       /\ UNCHANGED <<phase, toClient>>

\* lines 71-81
SendWelcome(c) ==
    /\ phase[c] = "welcome"
    /\ SendOrDie(c, WELCOME, "recv")
    /\ UNCHANGED <<toServer, serverClosed, connections>>

\* lines 84-96: recv; a zero-byte read ends the process through
\* ERROR_HELPER; SERVER_COMMAND leaves the loop, anything else is echoed.
Recv(c) ==
    /\ phase[c] = "recv"
    /\ \/ /\ toServer[c] /= <<>>
          /\ toServer' = [toServer EXCEPT ![c] = Tail(@)]
          /\ phase' = [phase EXCEPT ![c] =
                         IF Head(toServer[c]) = SERVER_COMMAND THEN "close" ELSE "send"]
          /\ UNCHANGED alive
       \/ /\ toServer[c] = <<>> /\ peerClosed[c]
          /\ ProcessExit
          /\ UNCHANGED <<toServer, phase>>
    /\ UNCHANGED <<toClient, serverClosed, connections>>

\* lines 99-105
SendEcho(c) ==
    /\ phase[c] = "send"
    /\ SendOrDie(c, DATA, "recv")
    /\ UNCHANGED <<toServer, serverClosed, connections>>

\* lines 108-112: close(socket_desc)
CloseSocket(c) ==
    /\ phase[c] = "close"
    /\ phase' = [phase EXCEPT ![c] = "post"]
    /\ serverClosed' = [serverClosed EXCEPT ![c] = TRUE]
    /\ UNCHANGED <<toServer, toClient, connections, alive>>

\* Mutant: the thread exits without sem_post.
SemPost_skipped(c) ==
    /\ phase[c] = "post"
    /\ phase' = [phase EXCEPT ![c] = "exited"]
    /\ UNCHANGED <<netVars, connections, alive>>

\* lines 115-121: sem_post(&connections); free; pthread_exit
SemPost(c) ==
    /\ phase[c] = "post"
    /\ phase' = [phase EXCEPT ![c] = "exited"]
    /\ connections' = connections + 1
    /\ UNCHANGED <<netVars, alive>>

connection_handler(c) ==
    /\ alive
    /\ SendWelcome(c) \/ Recv(c) \/ SendEcho(c) \/ CloseSocket(c) \/ SemPost(c)
    /\ UNCHANGED <<main_pc, args, cpc, counter, peerClosed>>

\* lines 22-32: sem_destroy(&connections); exit(EXIT_SUCCESS)
signalHandlerCleanup ==
    /\ UserMayInterrupt
    /\ alive
    /\ ProcessExit
    /\ UNCHANGED <<connections, main_pc, args, phase, cpc, counter, netVars>>

\* The client threads of echo_client_mt.c.
C == INSTANCE EchoClient

\* What a client step leaves alone.
clientFrame == <<connections, main_pc, args, serverClosed>>

client(c) == C!client(c) /\ UNCHANGED clientFrame

Next ==
    \/ Main
    \/ \E c \in Clients : connection_handler(c) \/ client(c)
    \/ signalHandlerCleanup

\* Every thread is scheduled; a client's death and the signals are choices
\* of the environment.
Fairness ==
    /\ WF_vars(Main)
    /\ \A c \in Clients : /\ WF_vars(connection_handler(c))
                          /\ WF_vars(C!ClientProgress(c) /\ UNCHANGED <<clientFrame, alive>>)

Spec == Init /\ [][Next]_vars /\ Fairness

-----------------------------------------------------------------------------

Msgs == {SERVER_COMMAND, DATA, WELCOME}

\* Every variable holds a value of its type.
TypeOK ==
    /\ connections \in 0..MAX_CONCURRENCY
    /\ main_pc \in {"accept", "sem_wait", "create"} /\ args \in Clients
    /\ phase \in [Clients -> {"init", "backlog", "accepted", "exited"} \cup HandlerPhases]
    /\ cpc \in [Clients -> C!ClientStates] /\ counter \in [Clients -> 0..MaxMsgs]
    /\ toServer \in [Clients -> Seq(Msgs)] /\ toClient \in [Clients -> Seq(Msgs)]
    /\ peerClosed \in [Clients -> BOOLEAN] /\ serverClosed \in [Clients -> BOOLEAN]
    /\ alive \in BOOLEAN

Handlers == {c \in Clients : phase[c] \in HandlerPhases}

\* While the server runs, every unit of the semaphore is either free, held
\* by main between sem_wait and pthread_create, or held by one live handler
\* thread: no slot is ever lost or minted, whatever clients do.  (A handler
\* that fails ends the process, so unlike the process variant it cannot
\* leak its slot.)
SlotsConserved ==
    alive => connections + Cardinality(Handlers)
               + (IF main_pc = "create" THEN 1 ELSE 0) = MAX_CONCURRENCY

====

---------------------------- MODULE EchoServerMP ----------------------------
(***************************************************************************)
(* The process-per-connection echo server with bounded concurrency,        *)
(* src/lab11-echoserver-process-thread/ES-MP-LimitConn/multiprocess.c,     *)
(* driven by clients that run the per-thread loop of                       *)
(* src/lab11-echoserver-process-thread/ES-MT-Logger/echo_client_mt.c.      *)
(*                                                                         *)
(* The main process accepts a connection, waits on the named semaphore     *)
(* `connections' (initialised to MAX_CONCURRENCY), and forks a child that  *)
(* runs connection_handler and posts the semaphore before exiting.         *)
(*                                                                         *)
(* Each client is one connection.  The byte stream is abstracted to whole  *)
(* messages (every recv returns exactly one message the peer sent); the    *)
(* welcome text is the value WELCOME.  A child that calls ERROR_HELPER or  *)
(* is killed by SIGPIPE exits without reaching sem_post.  The server never *)
(* calls wait(), so an exited child stays a zombie; the phases "exited"    *)
(* and "failed" are those zombies.                                         *)
(***************************************************************************)
EXTENDS Naturals, Sequences, FiniteSets

CONSTANTS
    MAX_CONCURRENCY,    \* initial value of the named semaphore
    Clients,            \* client connections (one per client thread)
    SERVER_COMMAND,     \* the quit message "QUIT"
    DATA,               \* any other message a client sends
    WELCOME,            \* the server's welcome message
    MaxMsgs,            \* bound: data messages a client sends before QUIT
    PeerMayDisconnect,  \* may a client die before sending QUIT?
    NoClient            \* main holds no accepted connection

ASSUME MAX_CONCURRENCY \in Nat \ {0}
ASSUME MaxMsgs \in Nat
ASSUME PeerMayDisconnect \in BOOLEAN
ASSUME NoClient \notin Clients

Messages == {SERVER_COMMAND, DATA, WELCOME}

VARIABLES
    connections,   \* value of the named semaphore
    main_pc,       \* where the main process is in its accept loop
    client_desc,   \* the connection main has accepted and not yet forked
    phase,         \* per connection: client side before accept, child after
    cpc,           \* per connection: client thread's program counter
    toServer,      \* per connection: messages in flight client -> server
    toClient,      \* per connection: messages in flight server -> client
    peerClosed,    \* per connection: the client has closed its socket
    serverClosed,  \* per connection: the child has closed its socket
    buf,           \* per connection: the message the child last received
    counter,       \* per connection: data messages the client has sent
    signalled,     \* SIGINT has been sent to the server's process group
    sem_linked     \* the named semaphore still exists in the system

vars == <<connections, main_pc, client_desc, phase, cpc, toServer, toClient,
          peerClosed, serverClosed, buf, counter, signalled, sem_linked>>

\* Variables the shutdown path does not touch in a step of a process.
procVars == <<signalled, sem_linked>>

\* Phases of a connection as seen by the server.
WaitingPhases == {"init", "backlog", "accepted"}
ChildPhases   == {"welcome", "recv", "send", "close", "post"}
ZombiePhases  == {"exited", "failed"}

Init ==
    /\ connections = MAX_CONCURRENCY
    /\ main_pc = "accept"
    /\ client_desc = NoClient
    /\ phase = [c \in Clients |-> "init"]
    /\ cpc = [c \in Clients |-> "connect"]
    /\ toServer = [c \in Clients |-> <<>>]
    /\ toClient = [c \in Clients |-> <<>>]
    /\ peerClosed = [c \in Clients |-> FALSE]
    /\ serverClosed = [c \in Clients |-> FALSE]
    /\ buf = [c \in Clients |-> DATA]
    /\ counter = [c \in Clients |-> 0]
    /\ signalled = FALSE
    /\ sem_linked = TRUE

SetPhase(c, from, to) ==
    /\ phase[c] = from
    /\ phase' = [phase EXCEPT ![c] = to]

SetCpc(c, from, to) ==
    /\ cpc[c] = from
    /\ cpc' = [cpc EXCEPT ![c] = to]

(***************************************************************************)
(* Main process: the while (1) loop of main(), lines 195-233.              *)
(***************************************************************************)

\* client_desc = accept(...)
Accept(c) ==
    /\ main_pc = "accept"
    /\ phase[c] = "backlog"
    /\ phase' = [phase EXCEPT ![c] = "accepted"]
    /\ client_desc' = c
    /\ main_pc' = "sem_wait"
    /\ UNCHANGED <<procVars, connections, cpc, toServer, toClient, peerClosed,
                   serverClosed, buf, counter>>

\* Mutant: the wait does not block (a sem_trywait whose EAGAIN is ignored).
SemWait_noBlock ==
    /\ main_pc = "sem_wait"
    /\ connections' = connections - 1
    /\ main_pc' = "fork"
    /\ UNCHANGED <<procVars, client_desc, phase, cpc, toServer, toClient, peerClosed,
                   serverClosed, buf, counter>>

\* sem_wait(connections)
SemWait ==
    /\ main_pc = "sem_wait"
    /\ connections > 0
    /\ connections' = connections - 1
    /\ main_pc' = "fork"
    /\ UNCHANGED <<procVars, client_desc, phase, cpc, toServer, toClient, peerClosed,
                   serverClosed, buf, counter>>

\* fork(): the child runs connection_handler; the parent closes its copy of
\* client_desc and resets client_addr.
Fork ==
    /\ main_pc = "fork"
    /\ SetPhase(client_desc, "accepted", "welcome")
    /\ main_pc' = "accept"
    /\ client_desc' = NoClient
    /\ UNCHANGED <<procVars, connections, cpc, toServer, toClient, peerClosed,
                   serverClosed, buf, counter>>

(***************************************************************************)
(* Child process: connection_handler, lines 51-119.                        *)
(* A send on a socket the peer has closed either still succeeds (the      *)
(* reset has not arrived) or raises SIGPIPE, whose default action kills    *)
(* the child.                                                              *)
(***************************************************************************)

\* The child exits through ERROR_HELPER or is killed by SIGPIPE: exit closes
\* its socket, and sem_post is never reached.
Die(c) ==
    /\ phase' = [phase EXCEPT ![c] = "failed"]
    /\ serverClosed' = [serverClosed EXCEPT ![c] = TRUE]

\* send(welcome) until all bytes are sent
SendWelcome(c) ==
    /\ phase[c] = "welcome"
    /\ \/ /\ phase' = [phase EXCEPT ![c] = "recv"]
          /\ toClient' = [toClient EXCEPT ![c] = Append(@, WELCOME)]
          /\ UNCHANGED serverClosed
       \/ /\ peerClosed[c]
          /\ Die(c)
          /\ UNCHANGED toClient
    /\ UNCHANGED <<procVars, connections, main_pc, client_desc, cpc, toServer,
                   peerClosed, buf, counter>>

\* recv_bytes = recv(...); a zero-byte read means the peer closed and ends
\* the child through ERROR_HELPER; otherwise the quit test decides between
\* leaving the loop and echoing.
Recv(c) ==
    /\ phase[c] = "recv"
    /\ \/ /\ toServer[c] /= <<>>
          /\ buf' = [buf EXCEPT ![c] = Head(toServer[c])]
          /\ toServer' = [toServer EXCEPT ![c] = Tail(@)]
          /\ phase' = [phase EXCEPT ![c] =
                          IF Head(toServer[c]) = SERVER_COMMAND THEN "close" ELSE "send"]
          /\ UNCHANGED serverClosed
       \/ /\ toServer[c] = <<>>
          /\ peerClosed[c]
          /\ Die(c)
          /\ UNCHANGED <<procVars, buf, toServer>>
    /\ UNCHANGED <<procVars, connections, main_pc, client_desc, cpc, toClient,
                   peerClosed, counter>>

\* send(buf) until all recv_bytes are sent
SendEcho(c) ==
    /\ phase[c] = "send"
    /\ \/ /\ phase' = [phase EXCEPT ![c] = "recv"]
          /\ toClient' = [toClient EXCEPT ![c] = Append(@, buf[c])]
          /\ UNCHANGED serverClosed
       \/ /\ peerClosed[c]
          /\ Die(c)
          /\ UNCHANGED toClient
    /\ UNCHANGED <<procVars, connections, main_pc, client_desc, cpc, toServer,
                   peerClosed, buf, counter>>

\* close(socket_desc)
CloseSocket(c) ==
    /\ SetPhase(c, "close", "post")
    /\ serverClosed' = [serverClosed EXCEPT ![c] = TRUE]
    /\ UNCHANGED <<procVars, connections, main_pc, client_desc, cpc, toServer,
                   toClient, peerClosed, buf, counter>>

\* Mutant: the child exits without sem_post(connections).
SemPost_skipped(c) ==
    /\ SetPhase(c, "post", "exited")
    /\ UNCHANGED <<procVars, connections, main_pc, client_desc, cpc, toServer,
                   toClient, peerClosed, serverClosed, buf, counter>>

\* sem_post(connections); back in main: free(client_addr); exit(EXIT_SUCCESS)
SemPost(c) ==
    /\ SetPhase(c, "post", "exited")
    /\ connections' = connections + 1
    /\ UNCHANGED <<procVars, main_pc, client_desc, cpc, toServer, toClient,
                   peerClosed, serverClosed, buf, counter>>

connection_handler(c) ==
    \/ SendWelcome(c)
    \/ Recv(c)
    \/ SendEcho(c)
    \/ CloseSocket(c)
    \/ SemPost(c)

(***************************************************************************)
(* Client thread: connection_handler of echo_client_mt.c, lines 20-100.    *)
(* The client sends MaxMsgs data messages, then SERVER_COMMAND (the        *)
(* should_stop branch) and closes.  A zero-byte recv ends the client       *)
(* through ERROR_HELPER, which closes its socket.  With PeerMayDisconnect  *)
(* the client may also die at any point (ERROR_HELPER elsewhere, a kill).  *)
(***************************************************************************)

\* connect(): the connection waits in the listen backlog; once the server
\* has exited it is refused and the client ends through ERROR_HELPER.
Connect(c) ==
    /\ \/ /\ main_pc /= "exited"
          /\ SetCpc(c, "connect", "recv_welcome")
          /\ phase' = [phase EXCEPT ![c] = "backlog"]
       \/ /\ main_pc = "exited"
          /\ SetCpc(c, "connect", "done")
          /\ UNCHANGED phase
    /\ UNCHANGED <<procVars, connections, main_pc, client_desc, toServer, toClient,
                   peerClosed, serverClosed, buf, counter>>

\* A recv in the client: a message, or 0 bytes once the server has closed.
ClientRecv(c, from, to) ==
    /\ cpc[c] = from
    /\ \/ /\ toClient[c] /= <<>>
          /\ toClient' = [toClient EXCEPT ![c] = Tail(@)]
          /\ cpc' = [cpc EXCEPT ![c] = to]
          /\ UNCHANGED peerClosed
       \/ /\ toClient[c] = <<>>
          /\ serverClosed[c]
          /\ cpc' = [cpc EXCEPT ![c] = "done"]
          /\ peerClosed' = [peerClosed EXCEPT ![c] = TRUE]
          /\ UNCHANGED toClient
    /\ UNCHANGED <<procVars, connections, main_pc, client_desc, phase, toServer,
                   serverClosed, buf, counter>>

RecvWelcome(c) == ClientRecv(c, "recv_welcome", "send")

RecvEchoReply(c) == ClientRecv(c, "recv_echo", "send")

\* sprintf(buf, "[Thread %d] message #%d", ...); send(...)
SendData(c) ==
    /\ counter[c] < MaxMsgs
    /\ SetCpc(c, "send", "recv_echo")
    /\ counter' = [counter EXCEPT ![c] = @ + 1]
    /\ toServer' = [toServer EXCEPT ![c] = Append(@, DATA)]
    /\ UNCHANGED <<procVars, connections, main_pc, client_desc, phase, toClient,
                   peerClosed, serverClosed, buf>>

\* should_stop: send(SERVER_COMMAND); break; close(socket_desc)
SendQuit(c) ==
    /\ counter[c] = MaxMsgs
    /\ SetCpc(c, "send", "done")
    /\ toServer' = [toServer EXCEPT ![c] = Append(@, SERVER_COMMAND)]
    /\ peerClosed' = [peerClosed EXCEPT ![c] = TRUE]
    /\ UNCHANGED <<procVars, connections, main_pc, client_desc, phase, toClient,
                   serverClosed, buf, counter>>

\* The client process dies; the kernel closes its socket.
ClientDies(c) ==
    /\ PeerMayDisconnect
    /\ cpc[c] \in {"recv_welcome", "send", "recv_echo"}
    /\ cpc' = [cpc EXCEPT ![c] = "done"]
    /\ peerClosed' = [peerClosed EXCEPT ![c] = TRUE]
    /\ UNCHANGED <<procVars, connections, main_pc, client_desc, phase, toServer,
                   toClient, serverClosed, buf, counter>>

client(c) ==
    \/ Connect(c)
    \/ RecvWelcome(c)
    \/ RecvEchoReply(c)
    \/ SendData(c)
    \/ SendQuit(c)
    \/ ClientDies(c)

(***************************************************************************)
(* Shutdown: signalHandlerCleanup, lines 25-48, installed for SIGINT and   *)
(* SIGTERM before the accept loop and inherited by every child.  A Ctrl-C  *)
(* sends SIGINT to the whole foreground process group: each process runs   *)
(* the handler on its own, at any point of its code.                       *)
(***************************************************************************)

\* The user presses Ctrl-C on the server's terminal.
Interrupt ==
    /\ ~signalled
    /\ signalled' = TRUE
    /\ UNCHANGED <<sem_linked, connections, main_pc, client_desc, phase, cpc,
                   toServer, toClient, peerClosed, serverClosed, buf, counter>>

\* In main: sem_close(connections); sem_unlink(SEMAPHORE_NAME); exit.  The
\* exit closes the listening socket and client_desc, which resets the
\* connections still waiting to be served.
MainHandler ==
    /\ signalled
    /\ main_pc /= "exited"
    /\ main_pc' = "exited"
    /\ sem_linked' = FALSE
    /\ client_desc' = NoClient
    /\ serverClosed' = [c \in Clients |->
                           serverClosed[c] \/ phase[c] \in {"backlog", "accepted"}]
    /\ UNCHANGED <<signalled, connections, phase, cpc, toServer, toClient,
                   peerClosed, buf, counter>>

\* In a child: print and exit(EXIT_SUCCESS), without sem_post.
ChildHandler(c) ==
    /\ signalled
    /\ phase[c] \in ChildPhases
    /\ Die(c)
    /\ UNCHANGED <<procVars, connections, main_pc, client_desc, cpc, toServer,
                   toClient, peerClosed, buf, counter>>

signalHandlerCleanup ==
    \/ MainHandler
    \/ \E c \in Clients : ChildHandler(c)

Main == (\E c \in Clients : Accept(c)) \/ SemWait \/ Fork

Next ==
    \/ Main
    \/ \E c \in Clients : connection_handler(c)
    \/ \E c \in Clients : client(c)
    \/ Interrupt
    \/ signalHandlerCleanup

(***************************************************************************)
(* Processes and threads are scheduled by the OS: each runnable one runs   *)
(* eventually (weak fairness), and a pending signal is delivered.  Neither *)
(* a client's death nor Ctrl-C is forced.  Accept is weakly fair as a      *)
(* whole: the kernel hands out queued connections.                         *)
(***************************************************************************)
Fairness ==
    /\ WF_vars(Main)
    /\ \A c \in Clients : WF_vars(connection_handler(c))
    /\ \A c \in Clients : WF_vars(client(c) /\ ~ClientDies(c))
    /\ WF_vars(MainHandler)
    /\ \A c \in Clients : WF_vars(ChildHandler(c))

Spec == Init /\ [][Next]_vars /\ Fairness

-----------------------------------------------------------------------------
TypeOK ==
    /\ connections \in 0 .. MAX_CONCURRENCY
    /\ main_pc \in {"accept", "sem_wait", "fork", "exited"}
    /\ client_desc \in Clients \cup {NoClient}
    /\ phase \in [Clients -> WaitingPhases \cup ChildPhases \cup ZombiePhases]
    /\ cpc \in [Clients -> {"connect", "recv_welcome", "send", "recv_echo", "done"}]
    /\ toServer \in [Clients -> Seq(Messages)]
    /\ toClient \in [Clients -> Seq(Messages)]
    /\ peerClosed \in [Clients -> BOOLEAN]
    /\ serverClosed \in [Clients -> BOOLEAN]
    /\ buf \in [Clients -> Messages]
    /\ counter \in [Clients -> 0 .. MaxMsgs]
    /\ signalled \in BOOLEAN
    /\ sem_linked \in BOOLEAN

\* The admission slots held: one by main between sem_wait and fork, one by
\* every child that has not yet reached sem_post.
SlotHolders == {c \in Clients : phase[c] \in ChildPhases}
MainHoldsSlot == IF main_pc = "fork" THEN 1 ELSE 0

\* Until the server is told to shut down, every admission slot is either
\* free in the named semaphore or held by exactly one live connection
\* handler (or by main between sem_wait and fork): a slot taken by sem_wait
\* in main is returned by the child it was taken for, on every path the
\* child can exit by.  Hence never more than MAX_CONCURRENCY handlers run,
\* and no slot is ever lost.
SlotsConserved ==
    ~signalled =>
        connections + Cardinality(SlotHolders) + MainHoldsSlot = MAX_CONCURRENCY

\* Never more than MAX_CONCURRENCY connection handlers run at once, whatever
\* the clients do and whenever the server is interrupted.
AdmissionBounded == Cardinality(SlotHolders) <= MAX_CONCURRENCY

\* A connection queued while every slot is taken is still served: main,
\* blocked in sem_wait with the connection it has accepted (line 205),
\* resumes when some child posts its slot at line 117, and forks a child for
\* it.  Every client that reaches the backlog thus gets a child, provided no
\* child ends before its sem_post (the "failed" zombies, whose slots are
\* lost) and the server is not interrupted.
ClientsServed ==
    [](~signalled /\ \A c \in Clients : phase[c] /= "failed")
        => \A c \in Clients : phase[c] = "backlog" ~> phase[c] \notin WaitingPhases
=============================================================================

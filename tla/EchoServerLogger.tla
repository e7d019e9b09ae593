--------------------------- MODULE EchoServerLogger ---------------------------
(***************************************************************************)
(* The thread-per-connection echo server with an asynchronous logger,      *)
(* src/lab11-echoserver-process-thread/ES-MT-Logger/echo_server_mt_logger.c *)
(* driven by the client threads of echo_client_mt.c.                       *)
(*                                                                         *)
(* The main thread and every handler thread call my_log, the producer side *)
(* of the circular log_buffer; the detached logger thread is its single    *)
(* consumer and appends each record to the log file.  A thread inside      *)
(* my_log has lpc[t] /= "none"; the caller's next statement waits for it.  *)
(*                                                                         *)
(* A record is the pair <<thread, n>>: the n-th record logged by that      *)
(* thread (the text itself is irrelevant to the buffer).  ERROR_HELPER in  *)
(* any thread calls exit() and ends the whole process; SIGINT has no       *)
(* handler here and does the same.  Both set alive to FALSE, after which   *)
(* nothing of the server runs again.                                       *)
(***************************************************************************)
EXTENDS Naturals, Sequences, FiniteSets

CONSTANTS
    LOG_BUFFER_SIZE,    \* slots of log_buffer
    MainThread,         \* the main thread, which also logs
    Clients,            \* client connections, each served by its own thread
    SERVER_COMMAND,     \* the quit message
    DATA,               \* any other message a client sends
    WELCOME,            \* the server's welcome message
    MaxMsgs,            \* bound: data messages a client sends before QUIT
    PeerMayDisconnect,  \* may a client die before sending QUIT?
    UserMayInterrupt,   \* may the server receive SIGINT?
    NoRecord            \* content of a slot never written

ASSUME LOG_BUFFER_SIZE \in Nat \ {0}
ASSUME MainThread \notin Clients

Threads == {MainThread} \cup Clients
\* main logs twice per connection; a handler once per message and at the end
MaxRecs == IF 2 * Cardinality(Clients) > MaxMsgs + 2
           THEN 2 * Cardinality(Clients) ELSE MaxMsgs + 2
Records == Threads \X (1..MaxRecs)
Rec(t, n) == <<t, n>>

VARIABLES
    log_buffer, read_index, write_index,       \* the circular buffer
    fill_count, empty_count, write_mutex,      \* its semaphores
    lpc,          \* per thread: where it is inside my_log ("none": outside)
    logged,       \* per thread: how many my_log calls have returned
    logger_pc,    \* where the logger thread is in its loop
    log_msg,      \* the record the logger has taken and not yet written
    logfile,      \* the records appended to LOGFILE, in order
    main_pc, args,                           \* main's accept loop
    phase,        \* per connection: backlog, then the handler's position
    cpc, counter, \* per connection: the client thread
    toServer, toClient, peerClosed, serverClosed,   \* the TCP stream
    alive         \* the server process has not exited

bufVars    == <<log_buffer, read_index, write_index, fill_count, empty_count,
                write_mutex, lpc, logged>>
loggerVars == <<logger_pc, log_msg, logfile>>
netVars    == <<toServer, toClient, peerClosed, serverClosed>>
vars == <<bufVars, loggerVars, main_pc, args, phase, cpc, counter, netVars, alive>>

\* main() lines 219-244: indexes, semaphores, log file, logger thread.
Init ==
    /\ log_buffer = [i \in 0..LOG_BUFFER_SIZE-1 |-> NoRecord]
    /\ read_index = 0 /\ write_index = 0
    /\ fill_count = 0 /\ empty_count = LOG_BUFFER_SIZE /\ write_mutex = 1
    /\ lpc = [t \in Threads |-> "none"]
    /\ logged = [t \in Threads |-> 0]
    /\ logger_pc = "wait_fill" /\ log_msg = NoRecord /\ logfile = <<>>
    /\ main_pc = "accept" /\ args = CHOOSE c \in Clients : TRUE
    /\ phase = [c \in Clients |-> "init"]
    /\ cpc = [c \in Clients |-> "connect"] /\ counter = [c \in Clients |-> 0]
    /\ toServer = [c \in Clients |-> <<>>] /\ toClient = [c \in Clients |-> <<>>]
    /\ peerClosed = [c \in Clients |-> FALSE]
    /\ serverClosed = [c \in Clients |-> FALSE]
    /\ alive = TRUE

\* The call my_log(...) by thread t: it enters at sem_wait(&empty_count).
StartLog(t) == lpc' = [lpc EXCEPT ![t] = "wait_empty"]

LogStep(t, from, to) ==
    /\ alive
    /\ lpc[t] = from
    /\ lpc' = [lpc EXCEPT ![t] = to]

(***************************************************************************)
(* my_log, lines 42-71: the producer side.                                 *)
(***************************************************************************)

LogWaitEmpty(t) ==
    /\ LogStep(t, "wait_empty", "wait_mutex")
    /\ empty_count > 0
    /\ empty_count' = empty_count - 1
    /\ UNCHANGED <<log_buffer, read_index, write_index, fill_count, write_mutex, logged>>

\* Mutant: the producer does not take write_mutex.
LogWaitMutex_skipped(t) ==
    /\ LogStep(t, "wait_mutex", "write")
    /\ UNCHANGED <<log_buffer, read_index, write_index, fill_count, empty_count,
                   write_mutex, logged>>

LogWaitMutex(t) ==
    /\ LogStep(t, "wait_mutex", "write")
    /\ write_mutex > 0
    /\ write_mutex' = write_mutex - 1
    /\ UNCHANGED <<log_buffer, read_index, write_index, fill_count, empty_count, logged>>

\* log_buffer[write_index] = tmp;
LogWriteSlot(t) ==
    /\ LogStep(t, "write", "advance")
    /\ log_buffer' = [log_buffer EXCEPT ![write_index] = Rec(t, logged[t] + 1)]
    /\ UNCHANGED <<read_index, write_index, fill_count, empty_count, write_mutex, logged>>

\* Mutant: the write cursor does not wrap.
LogAdvance_noWrap(t) ==
    /\ LogStep(t, "advance", "post_fill")
    /\ write_index' = write_index + 1
    /\ write_mutex' = write_mutex + 1
    /\ UNCHANGED <<log_buffer, read_index, fill_count, empty_count, logged>>

\* write_index = (write_index + 1) % LOG_BUFFER_SIZE; sem_post(&write_mutex);
LogAdvance(t) ==
    /\ LogStep(t, "advance", "post_fill")
    /\ write_index' = (write_index + 1) % LOG_BUFFER_SIZE
    /\ write_mutex' = write_mutex + 1
    /\ UNCHANGED <<log_buffer, read_index, fill_count, empty_count, logged>>

\* Mutant: my_log returns without sem_post(&fill_count).
LogPostFill_noPost(t) ==
    /\ LogStep(t, "post_fill", "none")
    /\ logged' = [logged EXCEPT ![t] = @ + 1]
    /\ UNCHANGED <<log_buffer, read_index, write_index, fill_count, empty_count, write_mutex>>

\* sem_post(&fill_count); my_log returns.
LogPostFill(t) ==
    /\ LogStep(t, "post_fill", "none")
    /\ fill_count' = fill_count + 1
    /\ logged' = [logged EXCEPT ![t] = @ + 1]
    /\ UNCHANGED <<log_buffer, read_index, write_index, empty_count, write_mutex>>

my_log(t) ==
    /\ \/ LogWaitEmpty(t) \/ LogWaitMutex(t) \/ LogWriteSlot(t)
       \/ LogAdvance(t) \/ LogPostFill(t)
    /\ UNCHANGED <<loggerVars, main_pc, args, phase, cpc, counter, netVars, alive>>

(***************************************************************************)
(* logger, lines 73-111: the single consumer.  The write loop of lines     *)
(* 92-103 retries partial and interrupted writes until the whole record is *)
(* in the file; only this thread writes the file, so a record lands whole. *)
(***************************************************************************)

LoggerStep(from, to) ==
    /\ alive
    /\ logger_pc = from
    /\ logger_pc' = to

WaitFill ==
    /\ LoggerStep("wait_fill", "take")
    /\ fill_count > 0
    /\ fill_count' = fill_count - 1
    /\ UNCHANGED <<empty_count, read_index, log_msg, logfile>>

\* log_msg = log_buffer[read_index]; read_index = (read_index + 1) % SIZE;
Take ==
    /\ LoggerStep("take", "write_file")
    /\ log_msg' = log_buffer[read_index]
    /\ read_index' = (read_index + 1) % LOG_BUFFER_SIZE
    /\ UNCHANGED <<fill_count, empty_count, logfile>>

WriteFile ==
    /\ LoggerStep("write_file", "post_empty")
    /\ logfile' = Append(logfile, log_msg)
    /\ UNCHANGED <<fill_count, empty_count, read_index, log_msg>>

\* free(log_msg); sem_post(&empty_count);
PostEmpty ==
    /\ LoggerStep("post_empty", "wait_fill")
    /\ empty_count' = empty_count + 1
    /\ UNCHANGED <<fill_count, read_index, log_msg, logfile>>

logger ==
    /\ WaitFill \/ Take \/ WriteFile \/ PostEmpty
    /\ UNCHANGED <<log_buffer, write_index, write_mutex, lpc, logged,
                   main_pc, args, phase, cpc, counter, netVars, alive>>

(***************************************************************************)
(* main, lines 251-274: accept, log, spawn the handler, log.               *)
(***************************************************************************)

MainStep(from, to) ==
    /\ alive
    /\ main_pc = from
    /\ lpc[MainThread] = "none"
    /\ main_pc' = to
    /\ StartLog(MainThread)

\* accept(); my_log("Incoming connection accepted");
Accept(c) ==
    /\ MainStep("accept", "spawn")
    /\ phase[c] = "backlog"
    /\ phase' = [phase EXCEPT ![c] = "accepted"]
    /\ args' = c

\* pthread_create(connection_handler); my_log("New thread created ...");
Spawn ==
    /\ MainStep("spawn", "accept")
    /\ phase' = [phase EXCEPT ![args] = "welcome"]
    /\ UNCHANGED args

Main ==
    /\ (\E c \in Clients : Accept(c)) \/ Spawn
    /\ UNCHANGED <<log_buffer, read_index, write_index, fill_count, empty_count,
                   write_mutex, logged, loggerVars, cpc, counter, netVars, alive>>

(***************************************************************************)
(* connection_handler, lines 113-182.  ERROR_HELPER ends the process:      *)
(* on a zero-byte recv (line 147) and on a failed send; a send to a peer  *)
(* that has closed either still succeeds or raises SIGPIPE, whose default  *)
(* action also ends the process.                                           *)
(***************************************************************************)

ProcessExit == alive' = FALSE

HandlerStep(c, from) ==
    /\ alive
    /\ phase[c] = from
    /\ lpc[c] = "none"

\* Send msg to c, or die of SIGPIPE if c has closed.
SendOrDie(c, msg, to) ==
    \/ /\ phase' = [phase EXCEPT ![c] = to]
       /\ toClient' = [toClient EXCEPT ![c] = Append(@, msg)]
       /\ UNCHANGED alive
    \/ /\ peerClosed[c]
       /\ ProcessExit
       /\ UNCHANGED <<phase, toClient>>

\* lines 131-140
SendWelcome(c) ==
    /\ HandlerStep(c, "welcome")
    /\ SendOrDie(c, WELCOME, "recv")
    /\ UNCHANGED <<lpc, toServer, serverClosed>>

\* lines 146-160: recv; a zero-byte read ends the process; otherwise the
\* message is logged and the quit test decides between closing and echoing.
Recv(c) ==
    /\ HandlerStep(c, "recv")
    /\ \/ /\ toServer[c] /= <<>>
          /\ toServer' = [toServer EXCEPT ![c] = Tail(@)]
          /\ StartLog(c)
          /\ phase' = [phase EXCEPT ![c] =
                         IF Head(toServer[c]) = SERVER_COMMAND THEN "close" ELSE "send"]
          /\ UNCHANGED alive
       \/ /\ toServer[c] = <<>> /\ peerClosed[c]
          /\ ProcessExit
          /\ UNCHANGED <<toServer, lpc, phase>>
    /\ UNCHANGED <<toClient, serverClosed>>

\* lines 163-169: the echo (every non-quit message is DATA)
SendEcho(c) ==
    /\ HandlerStep(c, "send")
    /\ SendOrDie(c, DATA, "recv")
    /\ UNCHANGED <<lpc, toServer, serverClosed>>

\* lines 173-181: close; my_log("... has completed"); pthread_exit
CloseSocket(c) ==
    /\ HandlerStep(c, "close")
    /\ phase' = [phase EXCEPT ![c] = "done"]
    /\ serverClosed' = [serverClosed EXCEPT ![c] = TRUE]
    /\ StartLog(c)
    /\ UNCHANGED <<alive, toServer, toClient>>

connection_handler(c) ==
    /\ SendWelcome(c) \/ Recv(c) \/ SendEcho(c) \/ CloseSocket(c)
    /\ UNCHANGED <<log_buffer, read_index, write_index, fill_count, empty_count,
                   write_mutex, logged, loggerVars, main_pc, args, cpc, counter,
                   peerClosed>>

\* The client threads of echo_client_mt.c.
C == INSTANCE EchoClient

\* What a client step leaves alone.
clientFrame == <<bufVars, loggerVars, main_pc, args, serverClosed>>

client(c) == C!client(c) /\ UNCHANGED clientFrame

\* Ctrl-C: no handler is installed, so the process terminates.
Interrupt ==
    /\ UserMayInterrupt
    /\ alive
    /\ ProcessExit
    /\ UNCHANGED <<bufVars, loggerVars, main_pc, args, phase, cpc, counter, netVars>>

Next ==
    \/ Main
    \/ logger
    \/ \E t \in Threads : my_log(t)
    \/ \E c \in Clients : connection_handler(c) \/ client(c)
    \/ Interrupt

\* Every thread of the server and of the client is scheduled; a client's
\* death and SIGINT are choices of the environment.
Fairness ==
    /\ WF_vars(Main)
    /\ WF_vars(logger)
    /\ \A t \in Threads : WF_vars(my_log(t))
    /\ \A c \in Clients : WF_vars(connection_handler(c))
                          /\ WF_vars(C!ClientProgress(c) /\ UNCHANGED <<clientFrame, alive>>)

Spec == Init /\ [][Next]_vars /\ Fairness

-----------------------------------------------------------------------------

Phases == {"init", "backlog", "accepted", "welcome", "recv", "send", "close", "done"}
LogPcs == {"none", "wait_empty", "wait_mutex", "write", "advance", "post_fill"}
Msgs   == {SERVER_COMMAND, DATA, WELCOME}

\* Every variable holds a value of its type.
TypeOK ==
    /\ log_buffer \in [0..LOG_BUFFER_SIZE-1 -> Records \cup {NoRecord}]
    /\ read_index \in 0..LOG_BUFFER_SIZE-1 /\ write_index \in 0..LOG_BUFFER_SIZE-1
    /\ fill_count \in 0..LOG_BUFFER_SIZE /\ empty_count \in 0..LOG_BUFFER_SIZE
    /\ write_mutex \in {0, 1}
    /\ lpc \in [Threads -> LogPcs] /\ logged \in [Threads -> 0..MaxRecs]
    /\ logger_pc \in {"wait_fill", "take", "write_file", "post_empty"}
    /\ log_msg \in Records \cup {NoRecord} /\ logfile \in Seq(Records)
    /\ main_pc \in {"accept", "spawn"} /\ args \in Clients
    /\ phase \in [Clients -> Phases]
    /\ cpc \in [Clients -> C!ClientStates]
    /\ counter \in [Clients -> 0..MaxMsgs]
    /\ toServer \in [Clients -> Seq(Msgs)] /\ toClient \in [Clients -> Seq(Msgs)]
    /\ peerClosed \in [Clients -> BOOLEAN] /\ serverClosed \in [Clients -> BOOLEAN]
    /\ alive \in BOOLEAN

(***************************************************************************)
(* Refinement: log_buffer with its producers in my_log and the logger is   *)
(* the atomic bounded FIFO queue of BoundedQueue.  A record joins the     *)
(* queue when my_log stores it in its slot and leaves it when the logger   *)
(* takes it; the record taken and not yet written counts as delivered.    *)
(***************************************************************************)

InLog(S) == Cardinality({t \in Threads : lpc[t] \in S})

LogQueueLen ==
    LOG_BUFFER_SIZE - empty_count - InLog({"wait_mutex", "write"})
      - (IF logger_pc \in {"write_file", "post_empty"} THEN 1 ELSE 0)

LogQueue ==
    [k \in 1..LogQueueLen |-> log_buffer[(read_index + k - 1) % LOG_BUFFER_SIZE]]

LogOut == IF logger_pc = "write_file" THEN Append(logfile, log_msg) ELSE logfile

Abstract == INSTANCE BoundedQueue
              WITH Capacity <- LOG_BUFFER_SIZE, Values <- Records,
                   queue <- LogQueue, out <- LogOut

\* The same queue discipline, without its progress promise, also holds when
\* the process ends abruptly: no record ever reaches the log file twice,
\* out of order, or without having been logged.
LogQueueSafe == Abstract!QSafety

\* Records whose my_log call has returned and that are not in the log file.
Pending ==
    UNION {{Rec(t, n) : n \in 1..logged[t]} : t \in Threads}
      \ {logfile[i] : i \in 1..Len(logfile)}

\* While the process lives, the logger thread keeps up with my_log: every
\* accepted record is eventually in the log file or the process has ended
\* (a client's death or SIGINT may end it with records still buffered).
LoggerKeepsUp == Pending /= {} ~> (Pending = {} \/ ~alive)

====

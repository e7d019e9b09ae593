------------------------------- MODULE EchoFIFO -------------------------------
(***************************************************************************)
(* The echo pair over two named pipes: src/lab9-fifo-logger/EchoFIFO/      *)
(* echo.c and src/lab09-fifo-logger/EchoFIFO/client.c.                     *)
(*                                                                         *)
(* echo creates both FIFOs, opens echo_fifo for writing and client_fifo   *)
(* for reading, sends a welcome and echoes every message until QUIT, then  *)
(* closes and unlinks the FIFOs.  The client opens echo_fifo for reading   *)
(* and client_fifo for writing, reads the welcome, and for every line the  *)
(* user types sends the line without its newline and reads the echo,      *)
(* stopping after QUIT.                                                    *)
(*                                                                         *)
(* Opening a FIFO blocks until the other end is opened too.  A write with  *)
(* no reader raises SIGPIPE, which kills the writer; a read with no writer *)
(* and no data returns 0.  A message is at most PIPE_BUF bytes, so a write *)
(* is atomic and the FIFOs carry whole messages.  A process that ends has  *)
(* its descriptors closed by the kernel.                                   *)
(***************************************************************************)
EXTENDS Naturals, Sequences

CONSTANTS
    WELCOME, QUIT,    \* the welcome message and the quit command
    EMPTY,            \* an empty line typed by the user
    MaxLines,         \* bound: data lines typed in a session
    EmptyLinesTyped,  \* may the user type an empty line?
    UserMayKill       \* may the user end either process during the session?

Data == 1..MaxLines
ECHO_FIFO == "echo_fifo"
CLNT_FIFO == "client_fifo"
Fifos == {ECHO_FIFO, CLNT_FIFO}

VARIABLES
    fifos,     \* the FIFOs that exist in the file system
    opened,    \* <<fifo, process>>: the process holds the FIFO open
    epc,       \* where echo is
    cpc,       \* where the client is
    toClient,  \* the messages in echo_fifo
    toEcho,    \* the messages in client_fifo
    buf,       \* the message echo has read and is sending back
    typed,     \* data lines the user has typed
    line       \* the line the client is sending

vars == <<fifos, opened, epc, cpc, toClient, toEcho, buf, typed, line>>

Peer(p) == IF p = "echo" THEN "client" ELSE "echo"
OpenPc(f) == "open_" \o f
Holds(p, f) == <<f, p>> \in opened

\* The process ends: the kernel closes every descriptor it holds.
CloseAll(p) == opened' = {o \in opened : o[2] /= p}

\* echo.c lines 62-67: echo_fifo first, then client_fifo.
EchoOpenOrder == <<ECHO_FIFO, CLNT_FIFO>>

\* Mutant: the client opens client_fifo first.
ClientOpenOrder_swapped == <<CLNT_FIFO, ECHO_FIFO>>

\* client.c lines 32-37: in the same order as echo.
ClientOpenOrder == <<ECHO_FIFO, CLNT_FIFO>>

\* echo.c lines 47-51 have created both FIFOs; the user starts the client
\* once they exist.
Init ==
    /\ fifos = Fifos /\ opened = {}
    /\ epc = OpenPc(EchoOpenOrder[1])
    /\ cpc = OpenPc(ClientOpenOrder[1])
    /\ toClient = <<>> /\ toEcho = <<>>
    /\ buf = WELCOME /\ typed = 0 /\ line = EMPTY

\* open() of process p, whose opens come in order, at its k-th open.  It
\* returns at once if the peer holds the other end; if the peer is blocked
\* opening it, both opens return; otherwise p blocks until the peer's open
\* has woken it.  After the second open p goes on to done.
OpenStep(p, pc, peerPc, order, k, next, done) ==
    LET f == order[k] IN
    /\ pc = OpenPc(f)
    /\ Holds(p, f) \/ Holds(Peer(p), f) \/ peerPc = OpenPc(f)
    /\ opened' = opened \cup {<<f, p>>}
                        \cup (IF peerPc = OpenPc(f) THEN {<<f, Peer(p)>>} ELSE {})
    /\ next = IF k = 1 THEN OpenPc(order[2]) ELSE done

(***************************************************************************)
(* echo.c                                                                  *)
(***************************************************************************)

\* lines 53-67: open the two FIFOs.
EchoOpen ==
    /\ \E k \in 1..2 : OpenStep("echo", epc, cpc, EchoOpenOrder, k, epc', "welcome")
    /\ UNCHANGED <<fifos, cpc, toClient, toEcho, buf>>

\* lines 23-35: close both descriptors and unlink both FIFOs.
cleanFIFOs == CloseAll("echo") /\ fifos' = {}

\* A write to echo_fifo (lines 81-88 and 134-141): it needs the client to
\* hold the read end, otherwise SIGPIPE kills echo.
EchoSend(msg, next) ==
    \/ /\ Holds("client", ECHO_FIFO)
       /\ toClient' = Append(toClient, msg)
       /\ epc' = next
       /\ UNCHANGED <<opened, fifos>>
    \/ /\ ~Holds("client", ECHO_FIFO)
       /\ epc' = "dead" /\ CloseAll("echo")
       /\ UNCHANGED <<toClient, fifos>>

\* lines 69-88: send the welcome.
Welcome ==
    /\ epc = "welcome"
    /\ EchoSend(WELCOME, "read")
    /\ UNCHANGED <<toEcho, buf>>

\* Mutant: only a negative read is an error (< 0 for <= 0): 0 bytes are
\* taken as an (empty) message and echoed.
EchoRead_zeroIsMessage ==
    /\ epc = "read"
    /\ \/ /\ toEcho /= <<>>
          /\ toEcho' = Tail(toEcho)
          /\ buf' = Head(toEcho)
          /\ epc' = IF Head(toEcho) = QUIT THEN "clean" ELSE "write"
       \/ /\ toEcho = <<>> /\ ~Holds("client", CLNT_FIFO)
          /\ buf' = EMPTY
          /\ epc' = "write"
          /\ UNCHANGED toEcho
    /\ UNCHANGED <<toClient, opened, fifos>>

\* lines 90-122: read a message; QUIT ends the loop.  A read of 0 bytes
\* (no writer left) cleans the FIFOs up and exits.
EchoRead ==
    /\ epc = "read"
    /\ \/ /\ toEcho /= <<>>
          /\ toEcho' = Tail(toEcho)
          /\ buf' = Head(toEcho)
          /\ epc' = IF Head(toEcho) = QUIT THEN "clean" ELSE "write"
          /\ UNCHANGED <<opened, fifos>>
       \/ /\ toEcho = <<>> /\ ~Holds("client", CLNT_FIFO)
          /\ cleanFIFOs
          /\ epc' = "exited"
          /\ UNCHANGED <<toEcho, buf>>
    /\ UNCHANGED toClient

\* lines 124-141: send the message back.
EchoWrite ==
    /\ epc = "write"
    /\ EchoSend(buf, "read")
    /\ UNCHANGED <<toEcho, buf>>

\* lines 144-147: after QUIT, clean up and exit.
EchoClean ==
    /\ epc = "clean"
    /\ cleanFIFOs
    /\ epc' = "exited"
    /\ UNCHANGED <<toClient, toEcho, buf>>

Echo ==
    /\ EchoOpen \/ Welcome \/ EchoRead \/ EchoWrite \/ EchoClean
    /\ UNCHANGED <<cpc, typed, line>>

(***************************************************************************)
(* client.c                                                                *)
(***************************************************************************)

\* lines 22-37: open the two FIFOs.
ClientOpen ==
    /\ \E k \in 1..2 : OpenStep("client", cpc, epc, ClientOpenOrder, k, cpc', "read_welcome")
    /\ UNCHANGED <<toClient, toEcho, line>>

\* A read from echo_fifo (lines 53-62 and 112-122): a message goes on to
\* next; 0 bytes (echo gone, nothing left) ends the client with failure.
ClientRecv(next) ==
    \/ /\ toClient /= <<>>
       /\ toClient' = Tail(toClient)
       /\ cpc' = next
       /\ UNCHANGED opened
    \/ /\ toClient = <<>> /\ ~Holds("echo", ECHO_FIFO)
       /\ cpc' = "exited" /\ CloseAll("client")
       /\ UNCHANGED toClient

\* lines 39-63: read and print the welcome.
ReadWelcome ==
    /\ cpc = "read_welcome"
    /\ ClientRecv("input")
    /\ UNCHANGED <<toEcho, line>>

\* lines 65-77: fgets a line; an error or end of input exits.  The user
\* types at most MaxLines data lines, then QUIT.
Input ==
    /\ cpc = "input"
    /\ \/ \E l \in ({typed + 1} \cap Data) \cup {QUIT}
                     \cup (IF EmptyLinesTyped THEN {EMPTY} ELSE {}) :
            /\ line' = l
            /\ typed' = IF l \in Data THEN typed + 1 ELSE typed
            /\ cpc' = "write"
            /\ UNCHANGED opened
       \/ /\ UserMayKill
          /\ cpc' = "exited" /\ CloseAll("client")
          /\ UNCHANGED <<line, typed>>
    /\ UNCHANGED <<toClient, toEcho>>

\* Mutant: after sending, the client prompts again instead of reading.
ClientWrite_noRead ==
    /\ cpc = "write"
    /\ \/ /\ line /= EMPTY /\ Holds("echo", CLNT_FIFO)
          /\ toEcho' = Append(toEcho, line)
          /\ cpc' = IF line = QUIT THEN "close" ELSE "input"
          /\ UNCHANGED opened
       \/ /\ line = EMPTY
          /\ cpc' = "input"
          /\ UNCHANGED <<toEcho, opened>>
       \/ /\ line /= EMPTY /\ ~Holds("echo", CLNT_FIFO)
          /\ cpc' = "dead" /\ CloseAll("client")
          /\ UNCHANGED toEcho
    /\ UNCHANGED <<toClient, line>>

\* lines 75-97: write the line without its newline (an empty line writes
\* nothing); a write with no reader raises SIGPIPE.  QUIT ends the loop,
\* anything else is followed by reading the echo.
ClientWrite ==
    /\ cpc = "write"
    /\ \/ /\ line /= EMPTY /\ Holds("echo", CLNT_FIFO)
          /\ toEcho' = Append(toEcho, line)
          /\ cpc' = IF line = QUIT THEN "close" ELSE "read_echo"
          /\ UNCHANGED opened
       \/ /\ line = EMPTY
          /\ cpc' = "read_echo"
          /\ UNCHANGED <<toEcho, opened>>
       \/ /\ line /= EMPTY /\ ~Holds("echo", CLNT_FIFO)
          /\ cpc' = "dead" /\ CloseAll("client")
          /\ UNCHANGED toEcho
    /\ UNCHANGED <<toClient, line>>

\* lines 99-122: read and print the echo.
ReadEcho ==
    /\ cpc = "read_echo"
    /\ ClientRecv("input")
    /\ UNCHANGED <<toEcho, line>>

\* lines 125-131: close both descriptors.
ClientClose ==
    /\ cpc = "close"
    /\ cpc' = "exited" /\ CloseAll("client")
    /\ UNCHANGED <<toClient, toEcho, line>>

Client ==
    /\ \/ /\ ClientOpen \/ ReadWelcome \/ ClientWrite \/ ReadEcho \/ ClientClose
          /\ UNCHANGED typed
       \/ Input
    /\ UNCHANGED <<fifos, epc, buf>>

\* The user ends a process with Ctrl-C once both have opened the FIFOs.
SessionStates == {"welcome", "read", "write", "clean", "read_welcome",
                  "input", "read_echo", "close"}

KillEcho ==
    /\ UserMayKill /\ epc \in SessionStates
    /\ epc' = "dead" /\ CloseAll("echo")
    /\ UNCHANGED <<fifos, cpc, toClient, toEcho, buf, typed, line>>

KillClient ==
    /\ UserMayKill /\ cpc \in SessionStates
    /\ cpc' = "dead" /\ CloseAll("client")
    /\ UNCHANGED <<fifos, epc, toClient, toEcho, buf, typed, line>>

Next == Echo \/ Client \/ KillEcho \/ KillClient

\* Both processes are scheduled; killing one is the user's choice.
Fairness == WF_vars(Echo) /\ WF_vars(Client)

Spec == Init /\ [][Next]_vars /\ Fairness

-----------------------------------------------------------------------------

\* What a FIFO can carry: a zero-length write puts nothing in it.
FifoMsgs == {WELCOME, QUIT} \cup Data
ProcStates == SessionStates \cup {"open_" \o f : f \in Fifos} \cup {"exited", "dead"}
Ended == {"exited", "dead"}

\* Every variable holds a value of its type.
TypeOK ==
    /\ fifos \subseteq Fifos /\ opened \subseteq Fifos \X {"echo", "client"}
    /\ epc \in ProcStates /\ cpc \in ProcStates
    /\ toClient \in Seq(FifoMsgs) /\ toEcho \in Seq(FifoMsgs)
    /\ buf \in FifoMsgs /\ typed \in 0..MaxLines /\ line \in FifoMsgs \cup {EMPTY}

\* The two processes alternate: the client sends only after it has read
\* the previous answer, so the two FIFOs together never hold more than one
\* message and no read can return two messages glued together (which would
\* make echo miss QUIT).
OneMessageInFlight == Len(toClient) + Len(toEcho) <= 1

\* Every session ends: neither process stays blocked for ever in open or
\* read, whatever non-empty lines the user types and whichever process the
\* user kills.  (An empty line hangs both processes: EmptyLinesTyped.)
SessionEnds == <>(epc \in Ended /\ cpc \in Ended)

====

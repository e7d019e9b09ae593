-------------------------------- MODULE Chat --------------------------------
(***************************************************************************)
(* The two-party chat of src/lab10-chat-socket+fifo: chat-socket.c and     *)
(* chat-fifo.c.  One process is started with "accept", the other with      *)
(* "connect"; they share a byte stream in each direction, a TCP connection *)
(* or a pair of named FIFOs.  In each process chatSession starts a         *)
(* receiver thread (select with a 1.5 s timeout, then recv/read one byte   *)
(* at a time up to '\n') and a sender thread (fgets a line from stdin and  *)
(* send it all), and joins both.  The global shouldStop ends the session:  *)
(* the sender sets it after sending CLOSE_COMMAND, the receiver after      *)
(* receiving it or reading end-of-file.                                    *)
(*                                                                         *)
(* The two programs have the same thread code; they differ in how the      *)
(* session is set up and torn down, and in what a write to a closed peer   *)
(* does.  Init chooses the transport.  Bytes are abstracted to a small     *)
(* alphabet; the line delimiter is NL.                                     *)
(***************************************************************************)
EXTENDS Naturals, Sequences, SequencesExt

CONSTANTS
    BUFFER_SIZE,      \* size of buf in both threads
    CLOSE_COMMAND,    \* the bytes of the close command, without NL
    NL,               \* the byte '\n'
    Lines,            \* lines a user may type, without NL
    MaxLines,         \* bound: lines each user types before the session ends
    UserMayEndInput   \* may a user press Ctrl-D?

Peers == {"acc", "con"}
Other(p) == IF p = "acc" THEN "con" ELSE "acc"
CloseLine == CLOSE_COMMAND \o <<NL>>

VARIABLES
    transport,  \* "socket" or "fifo"
    fifos,      \* the two FIFOs exist in the file system
    mpc,        \* each process's main thread
    rpc,        \* each receiveMessage thread
    spc,        \* each sendMessage thread
    stop,       \* each process's shouldStop
    rbuf,       \* the bytes the receiver has read into buf for this line
    pending,    \* the rest of a typed line that fgets has not returned yet
    msg,        \* the bytes the sender is sending
    typed,      \* lines each user has typed
    chan,       \* chan[p]: bytes written by p and not yet read by its peer
    wopen,      \* p's end for writing to its peer is open
    ropen,      \* p's end for reading from its peer is open
    printed,    \* history: lines each receiver has printed
    wrote,      \* history: every byte each sender has written
    began       \* history: the two processes have connected

vars == <<transport, fifos, mpc, rpc, spc, stop, rbuf, pending, msg, typed,
          chan, wopen, ropen, printed, wrote, began>>

Init ==
    /\ transport \in {"socket", "fifo"}
    /\ fifos \in BOOLEAN   \* FIFOs left behind by an earlier run
    /\ mpc = [p \in Peers |-> "start"]
    /\ rpc = [p \in Peers |-> "none"]
    /\ spc = [p \in Peers |-> "none"]
    /\ stop = [p \in Peers |-> FALSE]
    /\ rbuf = [p \in Peers |-> <<>>]
    /\ pending = [p \in Peers |-> <<>>]
    /\ msg = [p \in Peers |-> <<>>]
    /\ typed = [p \in Peers |-> 0]
    /\ chan = [p \in Peers |-> <<>>]
    /\ wopen = [p \in Peers |-> FALSE]
    /\ ropen = [p \in Peers |-> FALSE]
    /\ printed = [p \in Peers |-> <<>>]
    /\ wrote = [p \in Peers |-> <<>>]
    /\ began = FALSE

(***************************************************************************)
(* Process exit: exit(EXIT_FAILURE) from ERROR_HELPER or the sender, or    *)
(* SIGPIPE's default action.  Both threads vanish and the kernel closes    *)
(* every descriptor; nothing is unlinked.                                  *)
(***************************************************************************)
Die(p) ==
    /\ mpc' = [mpc EXCEPT ![p] = "died"]
    /\ rpc' = [rpc EXCEPT ![p] = "none"]
    /\ spc' = [spc EXCEPT ![p] = "none"]
    /\ wopen' = [wopen EXCEPT ![p] = FALSE]
    /\ ropen' = [ropen EXCEPT ![p] = FALSE]
    /\ UNCHANGED <<transport, fifos, stop, rbuf, pending, msg, typed, chan,
                   printed, wrote, began>>

Connected == [p \in Peers |-> TRUE]

(***************************************************************************)
(* Session set-up over a socket: listenOnPort and connectTo.               *)
(***************************************************************************)

\* socket, setsockopt, bind, listen(server_desc, 0)
Listen ==
    /\ transport = "socket" /\ mpc["acc"] = "start"
    /\ mpc' = [mpc EXCEPT !["acc"] = "accept"]
    /\ UNCHANGED <<transport, fifos, rpc, spc, stop, rbuf, pending, msg, typed,
                   chan, wopen, ropen, printed, wrote, began>>

\* connect fails ("Could not create connection") unless the peer listens.
Connect ==
    /\ transport = "socket" /\ mpc["con"] = "start"
    /\ \/ /\ mpc["acc"] = "accept"
          /\ mpc' = [mpc EXCEPT !["con"] = "session"]
          /\ wopen' = Connected /\ ropen' = Connected /\ began' = TRUE
          /\ UNCHANGED <<transport, fifos, rpc, spc, stop, rbuf, pending, msg,
                         typed, chan, printed, wrote>>
       \/ /\ mpc["acc"] /= "accept"
          /\ Die("con")

\* accept returns the connection queued by connect, even one the peer has
\* already closed.
Accept ==
    /\ mpc["acc"] = "accept" /\ began
    /\ mpc' = [mpc EXCEPT !["acc"] = "session"]
    /\ UNCHANGED <<transport, fifos, rpc, spc, stop, rbuf, pending, msg, typed,
                   chan, wopen, ropen, printed, wrote, began>>

(***************************************************************************)
(* Session set-up over FIFOs: listenOnFIFO and connectOnFIFO.              *)
(***************************************************************************)

\* mkfifo both FIFOs; EEXIST is fatal.
MakeFifos ==
    /\ transport = "fifo" /\ mpc["acc"] = "start"
    /\ \/ /\ ~fifos
          /\ fifos' = TRUE
          /\ mpc' = [mpc EXCEPT !["acc"] = "open"]
          /\ UNCHANGED <<transport, rpc, spc, stop, rbuf, pending, msg, typed,
                         chan, wopen, ropen, printed, wrote, began>>
       \/ /\ fifos
          /\ Die("acc")

\* open(listen_fifo_name, O_WRONLY): ENOENT is fatal; otherwise it blocks
\* until the peer opens the FIFO for reading.
ConnectorOpens ==
    /\ transport = "fifo" /\ mpc["con"] = "start"
    /\ \/ /\ fifos
          /\ mpc' = [mpc EXCEPT !["con"] = "open"]
          /\ UNCHANGED <<transport, fifos, rpc, spc, stop, rbuf, pending, msg,
                         typed, chan, wopen, ropen, printed, wrote, began>>
       \/ /\ ~fifos
          /\ Die("con")

\* Both processes open the Listen FIFO and then the Accept FIFO in the same
\* order; each open returns once the other end is opened.
OpenFifos ==
    /\ mpc["acc"] = "open" /\ mpc["con"] = "open"
    /\ mpc' = [p \in Peers |-> "session"]
    /\ wopen' = Connected /\ ropen' = Connected /\ began' = TRUE
    /\ UNCHANGED <<transport, fifos, rpc, spc, stop, rbuf, pending, msg, typed,
                   chan, printed, wrote>>

(***************************************************************************)
(* chatSession                                                             *)
(***************************************************************************)

\* pthread_create of receiveMessage and sendMessage.
Session(p) ==
    /\ mpc[p] = "session"
    /\ mpc' = [mpc EXCEPT ![p] = "joinR"]
    /\ rpc' = [rpc EXCEPT ![p] = "loop"]
    /\ spc' = [spc EXCEPT ![p] = "loop"]
    /\ UNCHANGED <<transport, fifos, stop, rbuf, pending, msg, typed, chan,
                   wopen, ropen, printed, wrote, began>>

\* pthread_join of the receiver, then of the sender.
JoinReceiver(p) ==
    /\ mpc[p] = "joinR" /\ rpc[p] = "done"
    /\ mpc' = [mpc EXCEPT ![p] = "joinS"]
    /\ UNCHANGED <<transport, fifos, rpc, spc, stop, rbuf, pending, msg, typed,
                   chan, wopen, ropen, printed, wrote, began>>

JoinSender(p) ==
    /\ mpc[p] = "joinS" /\ spc[p] = "done"
    /\ mpc' = [mpc EXCEPT ![p] = "close"]
    /\ UNCHANGED <<transport, fifos, rpc, spc, stop, rbuf, pending, msg, typed,
                   chan, wopen, ropen, printed, wrote, began>>

\* close(socket_desc) closes both directions; the accepting process then
\* closes its listening socket and both exit.
CloseSocket(p) ==
    /\ transport = "socket" /\ mpc[p] = "close"
    /\ mpc' = [mpc EXCEPT ![p] = "exited"]
    /\ wopen' = [wopen EXCEPT ![p] = FALSE]
    /\ ropen' = [ropen EXCEPT ![p] = FALSE]
    /\ UNCHANGED <<transport, fifos, rpc, spc, stop, rbuf, pending, msg, typed,
                   chan, printed, wrote, began>>

\* close(send_fifo), then close(recv_fifo).
CloseSendFifo(p) ==
    /\ transport = "fifo" /\ mpc[p] = "close"
    /\ mpc' = [mpc EXCEPT ![p] = "closeR"]
    /\ wopen' = [wopen EXCEPT ![p] = FALSE]
    /\ UNCHANGED <<transport, fifos, rpc, spc, stop, rbuf, pending, msg, typed,
                   chan, ropen, printed, wrote, began>>

CloseRecvFifo(p) ==
    /\ mpc[p] = "closeR"
    /\ mpc' = [mpc EXCEPT ![p] = IF p = "acc" THEN "unlink" ELSE "exited"]
    /\ ropen' = [ropen EXCEPT ![p] = FALSE]
    /\ UNCHANGED <<transport, fifos, rpc, spc, stop, rbuf, pending, msg, typed,
                   chan, wopen, printed, wrote, began>>

\* listenOnFIFO unlinks both FIFOs after its session.
UnlinkFifos ==
    /\ mpc["acc"] = "unlink"
    /\ fifos' = FALSE
    /\ mpc' = [mpc EXCEPT !["acc"] = "exited"]
    /\ UNCHANGED <<transport, rpc, spc, stop, rbuf, pending, msg, typed, chan,
                   wopen, ropen, printed, wrote, began>>

(***************************************************************************)
(* receiveMessage                                                          *)
(***************************************************************************)

\* select reports the descriptor readable when bytes wait or the peer has
\* closed its writing end (recv/read then returns 0).
Readable(p) == chan[Other(p)] /= <<>> \/ ~wopen[Other(p)]

\* while (!shouldStop)
ReceiverLoop(p) ==
    /\ rpc[p] = "loop"
    /\ rpc' = [rpc EXCEPT ![p] = IF stop[p] THEN "done" ELSE "select"]
    /\ UNCHANGED <<transport, fifos, mpc, spc, stop, rbuf, pending, msg, typed,
                   chan, wopen, ropen, printed, wrote, began>>

\* Mutant: bytes_read is declared before the loop and never reset.
SelectReady_keepsBytes(p) ==
    /\ rpc[p] = "select" /\ Readable(p)
    /\ rpc' = [rpc EXCEPT ![p] = "read"]
    /\ UNCHANGED <<transport, fifos, mpc, spc, stop, rbuf, pending, msg, typed,
                   chan, wopen, ropen, printed, wrote, began>>

\* select returns 1: bytes_read = 0.
SelectReady(p) ==
    /\ rpc[p] = "select" /\ Readable(p)
    /\ rpc' = [rpc EXCEPT ![p] = "read"]
    /\ rbuf' = [rbuf EXCEPT ![p] = <<>>]
    /\ UNCHANGED <<transport, fifos, mpc, spc, stop, pending, msg, typed, chan,
                   wopen, ropen, printed, wrote, began>>

\* select returns 0 after the timeout: back to the shouldStop test.
SelectTimeout(p) ==
    /\ rpc[p] = "select" /\ ~Readable(p)
    /\ rpc' = [rpc EXCEPT ![p] = "loop"]
    /\ UNCHANGED <<transport, fifos, mpc, spc, stop, rbuf, pending, msg, typed,
                   chan, wopen, ropen, printed, wrote, began>>

\* One byte other than '\n' goes to buf[bytes_read++].
ReadByte(p) ==
    LET q == Other(p) IN
    /\ rpc[p] = "read" /\ chan[q] /= <<>> /\ Head(chan[q]) /= NL
    /\ rbuf' = [rbuf EXCEPT ![p] = Append(@, Head(chan[q]))]
    /\ chan' = [chan EXCEPT ![q] = Tail(@)]
    /\ UNCHANGED <<transport, fifos, mpc, rpc, spc, stop, pending, msg, typed,
                   wopen, ropen, printed, wrote, began>>

\* '\n' ends the line: CLOSE_COMMAND sets shouldStop, any other line is
\* printed.
ReadLine(p) ==
    LET q    == Other(p)
        line == Append(rbuf[p], NL)
    IN
    /\ rpc[p] = "read" /\ chan[q] /= <<>> /\ Head(chan[q]) = NL
    /\ rbuf' = [rbuf EXCEPT ![p] = line]
    /\ chan' = [chan EXCEPT ![q] = Tail(@)]
    /\ rpc' = [rpc EXCEPT ![p] = "loop"]
    /\ \/ /\ line = CloseLine
          /\ stop' = [stop EXCEPT ![p] = TRUE]
          /\ UNCHANGED printed
       \/ /\ line /= CloseLine
          /\ printed' = [printed EXCEPT ![p] = Append(@, line)]
          /\ UNCHANGED stop
    /\ UNCHANGED <<transport, fifos, mpc, spc, pending, msg, typed, wopen,
                   ropen, wrote, began>>

\* Mutant: end-of-file ends the receiver without setting shouldStop.
ReadEOF_noStop(p) ==
    /\ rpc[p] = "read" /\ chan[Other(p)] = <<>> /\ ~wopen[Other(p)]
    /\ rpc' = [rpc EXCEPT ![p] = "done"]
    /\ UNCHANGED <<transport, fifos, mpc, spc, stop, rbuf, pending, msg, typed,
                   chan, wopen, ropen, printed, wrote, began>>

\* recv/read returns 0: "Endpoint closed ... Exiting", shouldStop = 1 and
\* pthread_exit.
ReadEOF(p) ==
    /\ rpc[p] = "read" /\ chan[Other(p)] = <<>> /\ ~wopen[Other(p)]
    /\ stop' = [stop EXCEPT ![p] = TRUE]
    /\ rpc' = [rpc EXCEPT ![p] = "done"]
    /\ UNCHANGED <<transport, fifos, mpc, spc, rbuf, pending, msg, typed, chan,
                   wopen, ropen, printed, wrote, began>>

Receiver(p) ==
    \/ ReceiverLoop(p) \/ SelectReady(p) \/ SelectTimeout(p)
    \/ ReadByte(p) \/ ReadLine(p) \/ ReadEOF(p)

(***************************************************************************)
(* sendMessage                                                             *)
(***************************************************************************)

\* while (!shouldStop)
SenderLoop(p) ==
    /\ spc[p] = "loop"
    /\ spc' = [spc EXCEPT ![p] = IF stop[p] THEN "done" ELSE "fgets"]
    /\ UNCHANGED <<transport, fifos, mpc, rpc, stop, rbuf, pending, msg, typed,
                   chan, wopen, ropen, printed, wrote, began>>

\* What the next fgets reads: the rest of a line longer than the buffer, or
\* a new line the user types.
Input(p) ==
    IF pending[p] /= <<>> THEN {pending[p]} ELSE {l \o <<NL>> : l \in Lines}

\* fgets(buf, sizeof(buf), stdin) returns at most BUFFER_SIZE - 1 bytes and
\* stops after '\n'; then "if (shouldStop) break".
Fgets(p) ==
    /\ spc[p] = "fgets"
    /\ pending[p] /= <<>> \/ typed[p] < MaxLines \/ stop[p]
    /\ \E in \in Input(p) :
         LET n == IF Len(in) < BUFFER_SIZE - 1 THEN Len(in) ELSE BUFFER_SIZE - 1
         IN  /\ pending' = [pending EXCEPT ![p] = SubSeq(in, n + 1, Len(in))]
             /\ msg' = [msg EXCEPT ![p] = SubSeq(in, 1, n)]
    /\ typed' = [typed EXCEPT ![p] = IF pending[p] = <<>> /\ ~stop[p]
                                     THEN @ + 1 ELSE @]
    /\ spc' = [spc EXCEPT ![p] = IF stop[p] THEN "done" ELSE "send"]
    /\ UNCHANGED <<transport, fifos, mpc, rpc, stop, rbuf, chan, wopen, ropen,
                   printed, wrote, began>>

\* fgets returns NULL at end of input: exit(EXIT_FAILURE).
EndOfInput(p) ==
    /\ UserMayEndInput
    /\ spc[p] = "fgets" /\ pending[p] = <<>>
    /\ Die(p)

\* The send/write loop sends all of msg, then sets shouldStop if msg is
\* CLOSE_COMMAND.  Once the peer has closed its end, a write to a FIFO
\* raises SIGPIPE; over TCP the first send may still succeed (the bytes are
\* discarded) or SIGPIPE may come at once.
Send(p) ==
    LET q == Other(p) IN
    /\ spc[p] = "send"
    /\ \/ /\ ropen[q] \/ transport = "socket"
          /\ chan' = IF ropen[q] THEN [chan EXCEPT ![p] = @ \o msg[p]] ELSE chan
          /\ wrote' = [wrote EXCEPT ![p] = @ \o msg[p]]
          /\ stop' = IF msg[p] = CloseLine THEN [stop EXCEPT ![p] = TRUE] ELSE stop
          /\ spc' = [spc EXCEPT ![p] = "loop"]
          /\ UNCHANGED <<transport, fifos, mpc, rpc, rbuf, pending, msg, typed,
                         wopen, ropen, printed, began>>
       \/ /\ ~ropen[q]
          /\ Die(p)

Sender(p) == SenderLoop(p) \/ Fgets(p) \/ EndOfInput(p) \/ Send(p)

\* The user answers "Please press ENTER to exit".
UserAnswersPrompt(p) == stop[p] /\ Fgets(p)

-----------------------------------------------------------------------------

Setup == Listen \/ Connect \/ Accept \/ MakeFifos \/ ConnectorOpens \/ OpenFifos

Main(p) ==
    \/ Session(p) \/ JoinReceiver(p) \/ JoinSender(p)
    \/ CloseSocket(p) \/ CloseSendFifo(p) \/ CloseRecvFifo(p)
    \/ p = "acc" /\ UnlinkFifos

Next == Setup \/ \E p \in Peers : Main(p) \/ Receiver(p) \/ Sender(p)

(***************************************************************************)
(* Every thread keeps running while it is able to (the kernel completes a  *)
(* pending accept and a FIFO open whose other end is open); a user answers *)
(* the ENTER prompt, but nobody is assumed to type anything else.          *)
(***************************************************************************)
Fairness ==
    /\ WF_vars(Accept) /\ WF_vars(OpenFifos)
    /\ \A p \in Peers :
         /\ WF_vars(Main(p)) /\ WF_vars(Receiver(p))
         /\ WF_vars(SenderLoop(p) \/ Send(p))
         /\ WF_vars(UserAnswersPrompt(p))

Spec == Init /\ [][Next]_vars /\ Fairness

-----------------------------------------------------------------------------

Bytes == UNION {{l[i] : i \in DOMAIN l} : l \in Lines} \cup {NL}
Threads == {"none", "loop", "select", "read", "fgets", "send", "done"}

TypeOK ==
    /\ transport \in {"socket", "fifo"} /\ fifos \in BOOLEAN
    /\ mpc \in [Peers -> {"start", "accept", "open", "session", "joinR", "joinS",
                          "close", "closeR", "unlink", "exited", "died"}]
    /\ rpc \in [Peers -> Threads] /\ spc \in [Peers -> Threads]
    /\ stop \in [Peers -> BOOLEAN] /\ typed \in [Peers -> 0..MaxLines]
    /\ \A p \in Peers : \A v \in {rbuf[p], pending[p], msg[p], chan[p], wrote[p]} :
         v \in Seq(Bytes)
    /\ wopen \in [Peers -> BOOLEAN] /\ ropen \in [Peers -> BOOLEAN]
    /\ began \in BOOLEAN
    \* the two char buf[BUFFER_SIZE] arrays, each holding a '\0'-terminated
    \* string: the line receiveMessage assembles and the piece fgets returns
    /\ \A p \in Peers : Len(rbuf[p]) < BUFFER_SIZE /\ Len(msg[p]) < BUFFER_SIZE

\* Each receiver prints whole lines, exactly as its peer's sender wrote them
\* and in that order: the bytes of the printed lines are a prefix of the
\* bytes written to the stream, although recv/read returns one byte at a
\* time and bytes_read must restart at every line.
LinesInOrder ==
    \A p \in Peers : IsPrefix(FlattenSeq(printed[p]), wrote[Other(p)])

\* Once the two processes are connected and either has ended the session
\* (sent or received CLOSE_COMMAND, read end-of-file, or died), both
\* processes eventually exit: no thread is left blocked in select, recv,
\* fgets or pthread_join.
ChatEnds ==
    began /\ (\E p \in Peers : stop[p] \/ mpc[p] = "died")
        ~> \A p \in Peers : mpc[p] \in {"exited", "died"}

\* receiveMessage stores byte number bytes_read in buf[bytes_read] and puts
\* '\0' after the line, so a line it receives must be shorter than
\* BUFFER_SIZE bytes, '\n' included.
ReceiveInBounds == \A p \in Peers : Len(rbuf[p]) < BUFFER_SIZE

=============================================================================

# Model checking the C-teaching concurrency programs

This directory holds three kinds of file:

- TLA+ models of the concurrent programs in `src/`;
- the TLC configurations that check those models;
- `PROJECT.json`.

`PROJECT.json` records:

- every component, whether it is modelled or not;
- every run and what it is expected to show;
- one mutant for each checked property;
- the source lines that each definition translates;
- the findings and the code's hazards.

Run a model with `tlc -workers 2 -config MC_X.cfg MC_X`, or with the module
named in `PROJECT.json` when there is no MC module.

## 1. The system

The repository is a set of laboratory programs for an operating-systems course.
Most are single-concept demonstrations. The parts that contain a concurrency
protocol are these:

| Part | Source | Actors | Shared state |
|---|---|---|---|
| Bounded buffer, MPMC | `lab05-producer-consumer/many_prod_many_cons.c` | producer and consumer threads | `transactions[]`, two cursors, semaphores `fill_count`, `empty_count`, `read_mutex`, `write_mutex`, `deposit` |
| Bounded buffer, SPSC | `lab5-producer-consumer/one_prod_one_cons.c` | one producer and one consumer thread | `transactions[]`, two cursors, semaphores `fill_count`, `empty_count`; no mutex |
| Thread scheduler on an unnamed semaphore | `lab3-thread+scheduler/scheduler_solution.c` | main (reads ENTER / Ctrl-D), bursts of detached client threads | a heap-allocated semaphore of `NUM_RESOURCES` units |
| Echo server, process per connection, admission-limited | `lab11…/ES-MP-LimitConn/multiprocess.c` | main (accept loop), forked children, the clients | named semaphore `/limit_conn_sem`, TCP streams |
| Echo server, thread per connection, admission-limited | `ES-MP-LimitConn/multithread.c` | main, detached handler threads, the clients | unnamed semaphore, TCP streams |
| Echo server with an asynchronous logger | `ES-MT-Logger/echo_server_mt_logger.c` | main, handlers, logger thread, the clients | circular `log_buffer`, four semaphores, the log file |
| Multithreaded echo client | `ES-MT-Logger/echo_client_mt.c` | one thread per connection | its socket |
| Echo server logged through a pipe | `lab9-fifo-logger/Logger/server.c` | server process (main and handlers), Logger process | the pipe, `logger_shouldStop`, `log.txt` |
| Echo over two FIFOs | `lab9-fifo-logger/EchoFIFO/echo.c`, `lab09-fifo-logger/EchoFIFO/client.c` | echo process, client process | `echo_fifo`, `client_fifo` |
| Recap: named semaphores across processes | `lab4-recap+named-semaphore/recap/riepilogo.c` | main, N children, M threads per child | four named semaphores, the shared `accesses.log` |
| Chat, over TCP or over two FIFOs | `lab10-chat-socket+fifo/chat-socket.c`, `chat-fifo.c` | an accepting and a connecting process, each with a receiver and a sender thread | the byte stream in each direction, each process's `shouldStop`, the FIFOs in the file system |
| Resource scheduler on a named semaphore | `lab04…/named_semaphore/{server,util}.c`, `lab4…/named_semaphore/client.c` | the server process, client processes with bursts of detached threads | `/simple_scheduler` |

The parts interact in two ways:

- Each echo server is driven by its clients. They share TCP streams whose two
  directions are sequences of whole messages.
- Inside one server, threads or processes share semaphores, buffers, pipes and
  files.

**What makes these programs hard:**

- Semaphore waits that interleave with cursor updates.
- An accept loop that blocks in `sem_wait` while it holds a connection.
- A process or thread that ends through `ERROR_HELPER`, SIGPIPE or a signal
  between acquiring a resource and releasing it.
- A signal that stops a logger before it has drained its input.
- The blocking-open rendezvous of FIFOs.
- Lines reassembled byte by byte from a stream into a fixed buffer.
- Zero-byte reads and writes.
- A barrier built from counting semaphores across processes.

## 2. Modules

| Module | Models | Kind |
|---|---|---|
| `BoundedQueue` | what a buffer promises: an atomic FIFO queue of capacity `Capacity` | abstract |
| `BoundedBuffer` (+ `MC_BoundedBuffer`) | `many_prod_many_cons.c` | detailed; refines `BoundedQueue` |
| `BoundedBufferSPSC` | `one_prod_one_cons.c` | detailed; refines `BoundedQueue` |
| `ThreadScheduler` | `scheduler_solution.c` | main and client threads |
| `EchoClient` | one thread of `echo_client_mt.c` | component, instantiated by the servers |
| `EchoServerMP` (+ `MC_`) | `multiprocess.c` with its own client copy (refused connect, zero-byte read) | composition |
| `EchoServerMT` (+ `MC_`) | `multithread.c` + `EchoClient` | composition |
| `EchoServerLogger` (+ `MC_`) | `echo_server_mt_logger.c` + `EchoClient`; its log buffer refines `BoundedQueue` | composition, refinement |
| `PipeLogger` (+ `MC_`) | `Logger/server.c` (server and Logger processes) + `EchoClient` | composition |
| `Riepilogo` | `riepilogo.c` | detailed; pure `ArgMaxFrom` (RECURSIVE) |
| `EchoFIFO` | `echo.c` + `client.c` | composition of two processes |
| `Chat` (+ `MC_Chat`) | `chat-socket.c` and `chat-fifo.c`; Init chooses the transport | composition of two processes of two threads |
| `NamedSemScheduler` | `server.c`, `util.c` + `client.c` of the named-semaphore scheduler, with server restarts | composition of processes |

**Common conventions:**

- Every thread or process has a program counter. Each blocking call (a
  semaphore operation, `accept`, `recv`, `read`, `open`) starts a new action.
- A `sem_wait` is the guard `s > 0` together with the decrement. A `sem_post`
  is the increment.
- `alive` is FALSE once a process has ended. This covers `exit` through
  `ERROR_HELPER`, SIGPIPE, and SIGINT with no handler. No step of that process
  is enabled afterwards.
- Messages are model values: WELCOME, DATA, SERVER_COMMAND/QUIT. Records and
  lines are numbered, so that loss, duplication and reordering show up.

### BoundedBuffer

The producer's steps are:

- `Produce`, which stands for `performRandomTransaction` and emits a fresh item
  identifier;
- `WaitEmpty`;
- `WaitWriteMutex`;
- `WriteItem`;
- `AdvanceWriteIndex`, which does the modulo update and posts `write_mutex`;
- `PostFill`.

The consumer mirrors them with `WaitFill`, `WaitReadMutex`, `ConsumeItem`,
`AdvanceReadIndex` and `PostEmpty`. `consumed` is a history variable. The
refinement mapping `QueueView` builds the abstract queue from the concrete
state:

- It starts at `read_index`. If a consumer has consumed its slot but not yet
  advanced the cursor, it starts one slot later.
- It spans the filled slots. It counts slots written but not yet posted, and
  excludes slots taken but not yet released.

### BoundedBufferSPSC

The same steps for one producer and one consumer, without the mutex steps.
The consumer copies the slot into `lastTransaction` (`ReadItem`, the
abstract take), advances `read_index`, posts `empty_count`, and only then
adds the copy to `deposit` (`Deposit`). `QueueView` is `BoundedBuffer`'s
mapping for one thread per role. It shows that the semaphores alone order the
two threads' slot accesses, because each cursor has a single writer.

### ThreadScheduler

- **main:** `ReadLine` (ENTER) starts a burst, and `SpawnThread` is one
  iteration of the `for` loop. `SpawnFails` is a failing `pthread_create`,
  which calls `exit(1)`. `ReadEOF` (Ctrl-D) leads to `Destroy`, `Free` and
  `Return`. `Return` ends the process and every detached thread with it.
- **client:** `Loop` is the `while (i < num_tasks)` test. `Wait` and `Post`
  are the semaphore calls. `Work` does one work item, or two when `i + 1` is
  not `num_tasks`, and adds 2 to `i`. `items` counts the work items done.
- **Teardown:** glibc's `sem_destroy` does nothing, so a destroyed semaphore
  behaves as before. `free` puts the block in malloc's cache, and the cache
  link overwrites the count with a non-zero value. From then on `Wait`
  succeeds at once and `Post` changes nothing that matters (`semState =
  "freed"`).

### EchoServerMP and EchoServerMT

Main has the steps `Accept`, `SemWait` (blocks at 0) and `Fork` or `Create`.

Each connection `c` has:

- `phase[c]`, the server-side position:
  `backlog → accepted → welcome → recv ⇄ send → close → post → exited`;
- `cpc[c]`, the client's position;
- `toServer[c]` and `toClient[c]`, the two directions of the stream;
- `peerClosed[c]` and `serverClosed[c]`.

How a failure plays out differs between the two variants:

- **Process variant:** a failed `recv` or SIGPIPE ends only the child, which
  moves to `failed` without posting its semaphore slot. `signalHandlerCleanup`
  unlinks the semaphore in main, and each child exits.
- **Thread variant:** the same failure ends the whole process.

### EchoServerLogger

- `my_log(t)` is the producer protocol of `log_buffer`, run by main and by
  every handler: `LogWaitEmpty`, `LogWaitMutex`, `LogWriteSlot`, `LogAdvance`
  and `LogPostFill`.
- `logger` is the single consumer: `WaitFill`, `Take`, `WriteFile` and
  `PostEmpty`.
- `logged[t]` counts the records each thread has handed to `my_log`.
- The mapping `LogQueue`/`LogOut` shows the buffer to be a `BoundedQueue`.
- SIGINT has no handler in this program, so `Interrupt` simply ends the
  process.

### PipeLogger

- Every `fprintf(stderr, …)` of the server is one record written to the pipe;
  `sent` is their history.
- `ReadPipe` reads up to `MaxRead` records. It reads EOF once every writer is
  gone, and it restarts after EINTR.
- `WriteLog` appends them to `log.txt`. After a complete write it tests
  `logger_shouldStop`.
- `KillLogger` is `SRV_ERROR_HELPER_WITH_ACTIVE_LOGGER`. It sends SIGTERM to
  the Logger and then ends the server.
- A peer that closes with data still unread gives a reset (`Reset(c)`), so the
  next `recv` fails.

### Riepilogo

**Variables:**

- `sem` holds the four named semaphores.
- `main_pc`, `cpc[c]` and `tpc[c][j]` are the program counters of main, the
  children and their threads.
- `file` is the bag of child ids written to `accesses.log`.
- `access_stats` and the two `max_` variables are main's report.

**Actions:**

- main: `Fork`, `WaitReady`, `Notify`, `Wake`, `WaitChild` and `Stats`.
- each child: `PostReady`, `WaitStart`, `CreateThreads`, `JoinThreads` and
  `CheckEnd`.
- each thread: `EnterCS`, `WriteAccess` and `LeaveCS`.

The child's loop is bounded by `MaxRounds`, which stands for main's sleep. The
bound applies only to the branch that continues, so it never stops a child
that the end post has released.

`Stats` counts the bag and picks the child with the most accesses using the
RECURSIVE `ArgMaxFrom`. `MaxReported` checks that choice against a
quantifier-based reference.

### EchoFIFO

- `fifos` is the set of FIFOs that exist.
- `opened` is the set of `<<fifo, process>>` pairs of open descriptors.
- `epc` and `cpc` are the two processes' positions.
- `toClient` and `toEcho` are the FIFO contents.
- `typed` counts the lines entered.

`OpenStep` is the kernel's open rendezvous. The open returns when the other
process holds the FIFO or is blocked opening it. In the second case, the other
process's open returns too.

Effects of the other end's state:

- A write with no reader raises SIGPIPE, which sends the writer to `dead`.
- A read with no writer and no data returns 0.

`Input` is the user: the next data line, QUIT, an empty line (only when
`EmptyLinesTyped`) or end of input. `KillEcho` and `KillClient` are Ctrl-C,
enabled only when `UserMayKill`.

### NamedSemScheduler

Each semaphore object the server creates is numbered by the server run that
created it. `value[o]` is the value of object `o`, and `named` is the object
the name `/simple_scheduler` refers to, or `NoSem` once it has been unlinked.
An unlinked object lives on for the threads that have it open.

- **Server:** `StartServer` is the user starting it. `Create` either succeeds
  (`O_CREAT | O_EXCL`) or takes the EEXIST branch, which leads to
  `UnlinkStale` and then `Recreate`. `InstallHandler` is `setQuitHandler`.
  - `InterruptServer` is Ctrl-C. With the handler installed, it runs
    `cleanup`, which unlinks the name. Before that point, Ctrl-C kills the
    server and leaves the semaphore behind.
  - The server's loop only reads the value, so it takes no step.
- **Client:** `Spawn` starts a burst of threads and `EndInput` is Ctrl-D (the
  process then lives on until its threads finish). Each thread runs
  `OpenSem`, `WaitSem` and `PostSem`.
  - `OpenSem` on a missing name is `exit(1)` and kills the whole client
    process.
  - `KillClient` is Ctrl-C in the client's terminal.

### Chat

The two chat programs have the same thread code and differ in set-up,
tear-down and what a write to a closed peer does, so one module holds both and
`transport` is chosen by `Init`. `fifos` (whether the two FIFOs exist) starts
either way, because an earlier accepting process that died leaves them behind.

- `chan[p]` is the bytes `p` has written and its peer has not read.
  `wopen[p]` and `ropen[p]` are `p`'s two ends. A socket `close` shuts both
  at once; the FIFO program closes the sending FIFO, then the receiving one,
  then (accepting side) unlinks both.
- **Set-up:** `Listen`, `Connect` (refused unless the peer listens) and
  `Accept`; or `MakeFifos` (EEXIST fatal), `ConnectorOpens` (ENOENT fatal)
  and `OpenFifos`, the two rendezvous opens.
- **Receiver:** `ReceiverLoop` is the `shouldStop` test. `SelectReady` and
  `SelectTimeout` are `select`; `ReadByte`, `ReadLine` and `ReadEOF` are one
  `recv`/`read` of one byte, the byte that ends a line, and a return of 0.
  `rbuf[p]` is `buf[0..bytes_read-1]`.
- **Sender:** `Fgets` returns at most `BUFFER_SIZE - 1` bytes of the typed
  line; `pending[p]` is the rest, returned by the next `fgets`. `Send` sends
  the whole piece. To a closed peer, a FIFO write raises SIGPIPE; over TCP the
  first `send` may still succeed. `EndOfInput` is Ctrl-D, which calls `exit`.
- `Die` is any exit of the whole process: the kernel closes its descriptors
  and nothing is unlinked.
- Bytes are `a`, `B` and `NL`; `CLOSE_COMMAND` is `<<"B">>` (the repository
  does not contain the chat's `common.h`, which defines it and
  `BUFFER_SIZE`).

### Fairness

- Every thread and process has weak fairness on its own steps. The OS
  schedules every runnable thread. Each blocking call waits for a condition
  that another fair step establishes, and once that condition holds it stays
  true until the waiter moves.
- Semaphore waits that compete for a slot use weak fairness per thread. The
  liveness properties checked here only need some waiter to progress.
- In the chat, a user whose session has ended presses ENTER, as the
  program asks ("Please press ENTER to exit"): `UserAnswersPrompt` is weakly
  fair. Nobody is assumed to type anything else.
- In the thread scheduler, main is weakly fair except at `getchar`: nobody
  has to press ENTER or Ctrl-D, and a failing `pthread_create` is a fault.
- The environment is never fair. This covers a client dying, Ctrl-C, SIGTERM,
  the user killing a process, and the user's choice of input.

## 3. Runs

| Run | Checks | Expect |
|---|---|---|
| `buffer_mpmc` | `TypeOK`, `NoDeadlock`, `BufferImplementsQueue` | pass (7 117 states) |
| `mp_abort` | `TypeOK`, `AdmissionBounded`, `ClientsServed` | pass (59 887 states) |
| `mt_faults` | `TypeOK`, `SlotsConserved` | pass |
| `logger_faults` | `TypeOK`, `LogQueueSafe`, `LoggerKeepsUp` | pass (758 262 states) |
| `pipe_faults` | `TypeOK`, `LoggerTerminates` | pass (40 033 states) |
| `pipe_stop_loses_records` | `LoggerDrains` | violation |
| `recap` | `TypeOK`, `CriticalSectionExclusive`, `StartBarrier`, `StatsComplete`, `MaxReported`, `ProgramTerminates` | pass (41 209 states) |
| `fifo_session` | `TypeOK`, `OneMessageInFlight`, `SessionEnds` | pass |
| `namedsem_restart` | `ResourcesBounded` | violation |
| `chat_session` | `TypeOK`, `LinesInOrder`, `ChatEnds` | pass (73 953 states) |
| `spsc_buffer` | `TypeOK`, `BufferImplementsQueue` | pass (135 states) |
| `sched_bursts` | `TypeOK`, `UnitsConserved`, `WorkItemsDone`, `ThreadsFinish` | pass (61 195 states) |

### What the passing runs show

- **`BufferImplementsQueue`:** under every interleaving of two producers and
  two consumers, the buffer is an atomic FIFO queue. **`NoDeadlock`:** the
  threads never all block while work remains.
- **`AdmissionBounded`:** never more than `MAX_CONCURRENCY` children run.
  **`ClientsServed`:** with three clients for two slots, the third waits in
  the backlog while main blocks in `sem_wait` holding the connection it
  accepted. As long as no child ends before its `sem_post` and no Ctrl-C
  comes, every queued client is still forked a child, because some child's
  `sem_post` reaches the blocked main. A child that skips `sem_post` leaves
  the third client waiting forever.
- **`SlotsConserved`** (thread variant): while the server runs, free slots +
  live handlers + the slot main holds = `MAX_CONCURRENCY`.
- **`LogQueueSafe`:** the log file is always a FIFO prefix of what `my_log`
  accepted, even when the process dies abruptly. **`LoggerKeepsUp`:** while the
  process lives, every accepted record reaches the file.
- **`LoggerTerminates`:** however the server dies, the Logger eventually exits,
  by its flag or by EOF.
- **`recap`:**
  - no two threads of any children are in the critical section at once;
  - no child starts its threads before all N have posted ready;
  - main's counts equal the accesses made;
  - the reported child is the first with the most accesses;
  - the program always ends.
- **`OneMessageInFlight`:** the FIFO protocol never has two messages in the
  FIFOs at once, so a read never sees two of them merged.
  **`SessionEnds`:** every session ends with both processes gone, even when
  the user kills either process at any point.
- **Chat's `TypeOK`** includes the bounds of the two `char buf[BUFFER_SIZE]`
  arrays: the line the receiver assembles and the piece `fgets` returns.
  Lines that fit hold them; the long line of `MC_Chat_long.cfg` breaks the
  first (see `ReceiveInBounds` below).
- **`LinesInOrder`:** over either transport, each chat receiver prints
  exactly the lines its peer wrote, whole and in order, although it reads one
  byte at a time. **`ChatEnds`:** once the two processes are connected and
  either has ended the session (close command, end-of-file, Ctrl-D, SIGPIPE),
  both processes exit. Over TCP this needs `accept` to return a connection
  the peer has already closed, and in both programs it needs the end-of-file
  branch to set `shouldStop`.
- **`BufferImplementsQueue`** (SPSC): the mutex-free buffer is an atomic FIFO
  queue for its one producer and one consumer, including the liveness of
  `Take`.
- **`UnitsConserved`:** while the scheduler's semaphore is allocated, its
  count plus the clients between `sem_wait` and `sem_post` is
  `NUM_RESOURCES`. This holds across overlapping bursts and after
  `sem_destroy`. **`WorkItemsDone`:** a finished client did exactly
  `NUM_TASKS` work items, with `NUM_TASKS` odd. **`ThreadsFinish`:** every
  client finishes unless the process ends first, whether or not the user
  ever presses Ctrl-D.

### Findings (violation runs)

1. **`pipe_stop_loses_records`** (`Logger/server.c:102`). After SIGINT, the
   Logger stops after its first complete write while records are still in the
   pipe. This contradicts the comment at lines 100-101.
2. **`namedsem_restart`** (`named_semaphore/server.c:27`). The server's
   cleanup unlinks the semaphore while client threads still hold units of it.
   The stale reset at line 52 has the same effect. The next server run creates
   a fresh semaphore with `NUM_RESOURCES` units, and new threads open it by
   name. Threads of the old and the new semaphore together then hold more
   than `NUM_RESOURCES` resources.
Five more defects are known and described in `PROJECT.json` as hazards. No
run checks them. Earlier versions of this project had violation runs for the
first two, and TLC finds each of the five at once when its property is put in
a cfg (`MC_EchoServerMP_leak.cfg` and `MC_Chat_long.cfg` are kept for the
first two). Each of the first four is reached by a single manual test:

- `multiprocess.c:89`: a client that disconnects before QUIT makes its child
  exit through `ERROR_HELPER`, or through SIGPIPE at line 78, without
  `sem_post`. After `MAX_CONCURRENCY` such clients, main blocks in `sem_wait`
  forever, against the spec's rule that every exit path releases the slot.
  `SlotsConserved` in `EchoServerMP` states the property.
- `chat-socket.c:76` (and `chat-fifo.c:82`): the receiver copies bytes into
  `buf[bytes_read++]` until `'\n'` with no bound. `fgets` splits a long
  line, but the pieces are reassembled, so a line of `BUFFER_SIZE - 1`
  characters or more is written past `buf`. `ReceiveInBounds` in `Chat`
  (with `MC_LongLines`, the line `aa` at `BUFFER_SIZE = 3`) states the
  property.

- `Logger/server.c:166`: a `recv` returning 0 is neither an error nor the end
  of the connection, so the handler echoes nothing forever.
  `EveryConnectionEnds` in `PipeLogger` states the property.
- `EchoFIFO/client.c:76`: an empty line is sent as zero bytes. The client
  then waits for an echo while echo waits for a message, and both hang
  (`SessionEnds` with `EmptyLinesTyped = TRUE`).
- `scheduler_solution.c:128`: on Ctrl-D, main frees the semaphore while
  detached clients may still loop. A `sem_wait` on the freed block succeeds
  at once, so more than `NUM_RESOURCES` clients use a resource in the window
  before the process exits. `Cardinality(Holders) <= NUM_RESOURCES` fails
  twelve steps in. `UnitsConserved` is therefore stated only while the
  semaphore is allocated. Unlike the others, this one is a race that a manual
  test hardly reaches.

The echo server with the logger has no SIGINT handler, so Ctrl-C loses every
record still in `log_buffer`. `LoggerKeepsUp` is stated for the live process
only. The loss at exit is listed as a hazard and is not checked by a run.

### Mutants

Each property of a passing run has one mutant in `PROJECT.json`. A mutant is a
definition written just before the one it replaces, carrying a plausible bug:
a skipped mutex, a missing `sem_post`, an off-by-one in a loop bound, `>=` for
`>` in the arg-max, or a swapped FIFO open order. TLC finds the property
violated under each one.

### Bounds

Every bound is the smallest at which the interesting case happens:

- **Buffer:** `BUFFER_SIZE = 2`, `MaxItems = 4`, two threads per role.
  - The cursors wrap.
  - Two producers race on one slot.
  - Producers block on a full buffer.
  - A reorder is visible.
- **Echo servers:** `MAX_CONCURRENCY = 2` with three clients, so the third
  makes main block in `sem_wait`. `MaxMsgs = 1`, so each session has one echo
  and then QUIT. `LOG_BUFFER_SIZE = 2` lets the buffer fill while the logger
  lags. `MaxRead = 2` lets one pipe read return several records.
- **Recap:** `N = 3` children and `M = 2` threads each, so the exclusion
  crosses both processes and threads. `MaxRounds = 2` lets a child loop again
  before the end post.
- **FIFOs:** `MaxLines = 2` data lines before QUIT.
- **Chat:** `BUFFER_SIZE = 3`, lines `a` and the close command, two lines
  per user. Two lines let one user's data and close command cross the
  peer's, and both transports and both initial file-system states are
  explored. The violation run adds the line `aa`, the shortest that `fgets`
  splits.
- **SPSC buffer:** `BUFFER_SIZE = 2`, `MaxItems = 4`, so both cursors wrap
  and every slot is reused.
- **Thread scheduler:** `NUM_RESOURCES = 1`, bursts of `THREAD_BURST = 2`
  threads and `MaxBursts = 2`. One client of each burst waits, and a second
  burst starts while the first still holds the unit. `NUM_TASKS = 3` is the
  code's odd value. Two units for bursts of three threads did not finish
  within 30 minutes, because liveness is checked.
- **Named-semaphore scheduler:** `NUM_RESOURCES = 1`, one client process with
  a burst of two threads, and two server runs. This is the smallest instance
  in which a thread of each server run can hold a unit.

Every run sets `CHECK_DEADLOCK FALSE`, with the reason given in its cfg: these
programs do stop. A server that has exited stops for good, and an idle server
waits in `accept`. Each run's liveness properties say which stops are
legitimate.

## 4. What is not modelled, and the plan

**Out of scope for good:**

- Time and `sleep`. These are replaced by nondeterminism and named bounds.
- Socket and FIFO setup errors that end a program before any concurrency,
  except in the chat, where a refused connect, ENOENT and EEXIST are steps.
- Message text.
- The single-concept demos: fork cost, pointers, timers, file copy, and the
  serial time server.
- Zombie reaping. This is a hazard in `PROJECT.json` with no property.
- A second signal during `signalHandlerCleanup` in `multiprocess.c`.
  `MainHandler` is one step, so the unlink always happens in the model. With
  the handler split, SIGTERM arriving after `sem_close` would run the handler
  again. Its second `sem_close` fails, and `ERROR_HELPER` exits before the
  unlink. For this reason no run states that shutdown unlinks the semaphore:
  in the model that would hold by construction.

**Planned for later work:**

- `EchoFraming`: `recv` returns any prefix of the byte stream, so QUIT may be
  split or merged with other data.
- The lab08 servers without admission control.
- Successive runs of the FIFO chat: an accepting process that exits through
  Ctrl-D or SIGPIPE leaves the FIFOs, and the next `accept` fails while a
  `connect` blocks on the stale FIFO. The model starts from either state but
  checks no property across runs.
- Restarting `EchoFIFO` after a killed echo, which leaves stale FIFOs behind.

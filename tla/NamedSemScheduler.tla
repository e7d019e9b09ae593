--------------------------- MODULE NamedSemScheduler ---------------------------
(***************************************************************************)
(* The resource scheduler built on a named semaphore,                      *)
(* src/lab04-recap+named-semaphore/named_semaphore/{server,util}.c and     *)
(* src/lab4-recap+named-semaphore/named_semaphore/client.c.                *)
(*                                                                         *)
(* The server creates "/simple_scheduler" with NUM_RESOURCES units         *)
(* (O_CREAT | O_EXCL; on EEXIST it unlinks the stale one and creates it    *)
(* again), installs its SIGINT handler, and then only prints the value.    *)
(* Its Ctrl-C handler closes and unlinks the semaphore; Ctrl-C before the  *)
(* handler is installed kills it and leaves the semaphore behind.  Client  *)
(* processes, started separately, spawn bursts of detached threads; each   *)
(* thread opens the semaphore by name, waits, works, posts and closes it.  *)
(*                                                                         *)
(* A semaphore object lives as long as some process has it open, whether   *)
(* or not its name still refers to it: each object the server creates is   *)
(* numbered by the server run that created it, and named is the object     *)
(* the name refers to (NoSem once it is unlinked).                         *)
(***************************************************************************)
EXTENDS Naturals, FiniteSets

CONSTANTS
    NUM_RESOURCES,      \* initial value of the semaphore
    Clients,            \* client processes
    THREAD_BURST,       \* threads spawned per ENTER
    MaxBursts,          \* bound: ENTERs typed per client
    MaxServerRuns,      \* bound: server starts that create a semaphore
    UserMayKillClient,  \* may a client process get Ctrl-C?
    NoSem               \* the name refers to no semaphore

Objs    == 1..MaxServerRuns
Threads == 1..(MaxBursts * THREAD_BURST)

VARIABLES
    named,    \* the object "/simple_scheduler" refers to, or NoSem
    value,    \* value of every object created so far
    created,  \* number of objects created (the latest is created)
    spc,      \* the server process
    cpc,      \* each client's main thread
    bursts,   \* ENTERs each client has handled
    tpc,      \* each client thread
    tsem      \* the object each client thread has open

vars == <<named, value, created, spc, cpc, bursts, tpc, tsem>>
serverVars == <<named, value, created, spc>>
clientVars == <<cpc, bursts, tpc, tsem>>

Init ==
    /\ named = NoSem /\ value = [o \in Objs |-> 0] /\ created = 0
    /\ spc = "down"
    /\ cpc = [c \in Clients |-> "input"] /\ bursts = [c \in Clients |-> 0]
    /\ tpc = [c \in Clients |-> [t \in Threads |-> "none"]]
    /\ tsem = [c \in Clients |-> [t \in Threads |-> NoSem]]

(***************************************************************************)
(* server.c                                                                *)
(***************************************************************************)

\* The user starts the server.
StartServer ==
    /\ spc = "down" /\ created < MaxServerRuns
    /\ spc' = "create"
    /\ UNCHANGED <<named, value, created>>

\* sem_open(name, O_CREAT | O_EXCL, 0600, NUM_RESOURCES) when the name is free.
CreateSem(next) ==
    /\ named = NoSem
    /\ created' = created + 1
    /\ value' = [value EXCEPT ![created + 1] = NUM_RESOURCES]
    /\ named' = created + 1
    /\ spc' = next

\* lines 47-50: create, or find a semaphore left by an earlier run.
Create ==
    /\ spc = "create"
    /\ \/ CreateSem("install")
       \/ /\ named /= NoSem
          /\ spc' = "unlink"
          /\ UNCHANGED <<named, value, created>>

\* lines 52-56: sem_unlink the stale semaphore and create it from scratch
\* (with one server the second sem_open always succeeds, so the fatal
\* branch at lines 58-61 is never taken).
UnlinkStale ==
    /\ spc = "unlink"
    /\ named' = NoSem
    /\ spc' = "recreate"
    /\ UNCHANGED <<value, created>>

Recreate ==
    /\ spc = "recreate"
    /\ CreateSem("install")

\* line 66: setQuitHandler(&cleanup); the loop at lines 72-94 only reads
\* the value, so the installed server takes no further step of its own.
InstallHandler ==
    /\ spc = "install"
    /\ spc' = "loop"
    /\ UNCHANGED <<named, value, created>>

\* Ctrl-C.  With the handler installed, cleanup (lines 19-30) closes and
\* unlinks the semaphore; before that, SIGINT's default action kills the
\* server and the semaphore stays in the system.
InterruptServer ==
    /\ spc /= "down"
    /\ named' = IF spc = "loop" THEN NoSem ELSE named
    /\ spc' = "down"
    /\ UNCHANGED <<value, created>>

Server ==
    /\ StartServer \/ Create \/ UnlinkStale \/ Recreate \/ InstallHandler
       \/ InterruptServer
    /\ UNCHANGED clientVars

(***************************************************************************)
(* client.c                                                                *)
(***************************************************************************)

BurstOf(k) == ((k - 1) * THREAD_BURST + 1)..(k * THREAD_BURST)

\* lines 69-96: ENTER spawns THREAD_BURST detached threads.
Spawn(c) ==
    /\ cpc[c] = "input" /\ bursts[c] < MaxBursts
    /\ bursts' = [bursts EXCEPT ![c] = @ + 1]
    /\ tpc' = [tpc EXCEPT ![c] =
                 [t \in Threads |-> IF t \in BurstOf(bursts[c] + 1) THEN "open" ELSE @[t]]]
    /\ UNCHANGED <<cpc, tsem, value>>

\* lines 71, 101-102: Ctrl-D; pthread_exit leaves the threads running.
EndInput(c) ==
    /\ cpc[c] = "input"
    /\ cpc' = [cpc EXCEPT ![c] = "eof"]
    /\ UNCHANGED <<bursts, tpc, tsem, value>>

\* The client process ends: its unfinished threads vanish with whatever
\* units they hold.
ClientProcessDies(c) ==
    /\ cpc' = [cpc EXCEPT ![c] = "dead"]
    /\ tpc' = [tpc EXCEPT ![c] =
                 [t \in Threads |-> IF @[t] \in {"none", "done"} THEN @[t] ELSE "dead"]]
    /\ UNCHANGED <<bursts, tsem, value>>

\* lines 22-26: sem_open(name, 0); without a semaphore, exit(1) ends the
\* whole client process.
OpenSem(c, t) ==
    /\ tpc[c][t] = "open"
    /\ \/ /\ named /= NoSem
          /\ tsem' = [tsem EXCEPT ![c][t] = named]
          /\ tpc' = [tpc EXCEPT ![c][t] = "wait"]
          /\ UNCHANGED <<cpc, bursts, value>>
       \/ /\ named = NoSem
          /\ ClientProcessDies(c)

\* lines 29-32: sem_wait
WaitSem(c, t) ==
    /\ tpc[c][t] = "wait"
    /\ value[tsem[c][t]] > 0
    /\ value' = [value EXCEPT ![tsem[c][t]] = @ - 1]
    /\ tpc' = [tpc EXCEPT ![c][t] = "work"]
    /\ UNCHANGED <<cpc, bursts, tsem>>

\* lines 37-51: work, sem_post, sem_close, free
PostSem(c, t) ==
    /\ tpc[c][t] = "work"
    /\ value' = [value EXCEPT ![tsem[c][t]] = @ + 1]
    /\ tpc' = [tpc EXCEPT ![c][t] = "done"]
    /\ UNCHANGED <<cpc, bursts, tsem>>

ClientThread(c, t) == OpenSem(c, t) \/ WaitSem(c, t) \/ PostSem(c, t)

\* The process runs until main has seen Ctrl-D and every thread has ended.
ClientAlive(c) ==
    \/ cpc[c] = "input"
    \/ cpc[c] = "eof" /\ \E t \in Threads : tpc[c][t] \in {"open", "wait", "work"}

\* Ctrl-C in the client's terminal: no handler is installed.
KillClient(c) ==
    /\ UserMayKillClient
    /\ ClientAlive(c)
    /\ ClientProcessDies(c)

Client(c) ==
    /\ Spawn(c) \/ EndInput(c) \/ KillClient(c) \/ \E t \in Threads : ClientThread(c, t)
    /\ UNCHANGED <<named, created, spc>>

Next == Server \/ \E c \in Clients : Client(c)

Spec == Init /\ [][Next]_vars

-----------------------------------------------------------------------------

\* The threads that hold a unit of some semaphore object.
Holders == {ct \in Clients \X Threads : tpc[ct[1]][ct[2]] = "work"}

\* At most NUM_RESOURCES client threads hold a resource at any time, across
\* every client process and every run of the server: the bound the named
\* semaphore exists to enforce, and what the server's report at line 91
\* (NUM_RESOURCES - value "are in use") takes for granted.
ResourcesBounded == Cardinality(Holders) <= NUM_RESOURCES

====

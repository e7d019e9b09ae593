------------------------------ MODULE Riepilogo ------------------------------
(***************************************************************************)
(* The recap program src/lab4-recap+named-semaphore/recap/riepilogo.c.    *)
(*                                                                         *)
(* main creates four named semaphores and forks N children.  Each child    *)
(* reports ready (main_waits_for_children), waits for main's start signal  *)
(* (children_wait_for_main), then runs rounds of M threads that each       *)
(* append the child's id to accesses.log inside a critical section guarded *)
(* by the named semaphore critical_section, which all children share.      *)
(* After sleep(t) main posts end_children_activities once; every child     *)
(* reads it with sem_getvalue after each round and stops when it is        *)
(* non-zero.  main reaps the N children, counts the accesses per child in  *)
(* the file and reports the child with most accesses.                      *)
(*                                                                         *)
(* The file is a bag of child ids: only the counts are ever read back.     *)
(* The rounds a child fits into main's sleep are bounded by MaxRounds.     *)
(***************************************************************************)
EXTENDS Integers, Bags, FiniteSets

CONSTANTS
    N,          \* child process count
    M,          \* threads per child per round
    MaxRounds   \* bound: rounds a child completes before main wakes up

ASSUME N \in Nat \ {0} /\ M \in Nat \ {0} /\ MaxRounds \in Nat \ {0}

Children == 0..N-1
Slots == 0..M-1
SemNames == {"end_children_activities", "main_waits_for_children",
             "children_wait_for_main", "critical_section"}

VARIABLES
    sem,             \* value of each named semaphore
    main_pc, i,      \* main's position and its loop index
    cpc,             \* per child: its position in child_process
    thread_id,       \* per child: threads created so far
    tpc,             \* per child and slot of thread_handlers: the thread
    file,            \* accesses.log: a bag of child ids
    reaped,          \* children main's wait() has returned
    access_stats, max_process_id, max_accesses

vars == <<sem, main_pc, i, cpc, thread_id, tpc, file, reaped,
          access_stats, max_process_id, max_accesses>>

SemWait(s) == sem[s] > 0 /\ sem' = [sem EXCEPT ![s] = @ - 1]
SemPost(s) == sem' = [sem EXCEPT ![s] = @ + 1]

\* main() lines 296-317: the semaphores are created afresh (a stale one is
\* unlinked and recreated) and the file is emptied.
Init ==
    /\ sem = [s \in SemNames |-> IF s = "critical_section" THEN 1 ELSE 0]
    /\ main_pc = "fork" /\ i = 0
    /\ cpc = [c \in Children |-> "unborn"]
    /\ thread_id = [c \in Children |-> 0]
    /\ tpc = [c \in Children |-> [j \in Slots |-> "none"]]
    /\ file = EmptyBag
    /\ reaped = {}
    /\ access_stats = [c \in Children |-> 0]
    /\ max_process_id = -1 /\ max_accesses = -1

(***************************************************************************)
(* main                                                                    *)
(***************************************************************************)

\* Mutant: the fork loop runs while i <= n.
Fork_oneTooMany ==
    /\ main_pc = "fork"
    /\ \/ /\ i <= N
          /\ cpc' = [cpc EXCEPT ![i] = "post_ready"]
          /\ i' = i + 1
          /\ UNCHANGED main_pc
       \/ /\ i = N
          /\ main_pc' = "wait_ready" /\ i' = 0
          /\ UNCHANGED cpc
    /\ UNCHANGED <<sem, reaped>>

\* lines 319-334: fork child i, which starts at once; after N forks main
\* runs main_process.
Fork ==
    /\ main_pc = "fork"
    /\ \/ /\ i < N
          /\ cpc' = [cpc EXCEPT ![i] = "post_ready"]
          /\ i' = i + 1
          /\ UNCHANGED main_pc
       \/ /\ i = N
          /\ main_pc' = "wait_ready" /\ i' = 0
          /\ UNCHANGED cpc
    /\ UNCHANGED <<sem, reaped>>

\* Mutant: main waits for one child fewer than it forked.
WaitReady_oneShort ==
    /\ main_pc = "wait_ready"
    /\ \/ i < N - 1 /\ SemWait("main_waits_for_children") /\ i' = i + 1 /\ UNCHANGED main_pc
       \/ i = N - 1 /\ main_pc' = "notify" /\ i' = 0 /\ UNCHANGED sem
    /\ UNCHANGED <<cpc, reaped>>

\* lines 130-136: N times sem_wait(main_waits_for_children).
WaitReady ==
    /\ main_pc = "wait_ready"
    /\ \/ i < N /\ SemWait("main_waits_for_children") /\ i' = i + 1 /\ UNCHANGED main_pc
       \/ i = N /\ main_pc' = "notify" /\ i' = 0 /\ UNCHANGED sem
    /\ UNCHANGED <<cpc, reaped>>

\* lines 138-144: N times sem_post(children_wait_for_main).
Notify ==
    /\ main_pc = "notify"
    /\ \/ i < N /\ SemPost("children_wait_for_main") /\ i' = i + 1 /\ UNCHANGED main_pc
       \/ i = N /\ main_pc' = "sleep" /\ i' = 0 /\ UNCHANGED sem
    /\ UNCHANGED <<cpc, reaped>>

\* lines 146-157: sleep(t), then a single sem_post(end_children_activities).
Wake ==
    /\ main_pc = "sleep"
    /\ SemPost("end_children_activities")
    /\ main_pc' = "wait_exit"
    /\ UNCHANGED <<i, cpc, reaped>>

\* Mutant: main reaps one child fewer than it forked.
WaitChild_oneShort ==
    /\ main_pc = "wait_exit"
    /\ \/ /\ i < N - 1
          /\ \E c \in Children \ reaped :
                /\ cpc[c] = "exited"
                /\ reaped' = reaped \cup {c}
          /\ i' = i + 1 /\ UNCHANGED main_pc
       \/ i = N - 1 /\ main_pc' = "stats" /\ i' = 0 /\ UNCHANGED reaped
    /\ UNCHANGED <<sem, cpc>>

\* lines 159-166: N times wait(), which returns some terminated child.
WaitChild ==
    /\ main_pc = "wait_exit"
    /\ \/ /\ i < N
          /\ \E c \in Children \ reaped :
                /\ cpc[c] = "exited"
                /\ reaped' = reaped \cup {c}
          /\ i' = i + 1 /\ UNCHANGED main_pc
       \/ i = N /\ main_pc' = "stats" /\ i' = 0 /\ UNCHANGED reaped
    /\ UNCHANGED <<sem, cpc>>

\* Mutant: a tie replaces the best so far (>= for >).
RECURSIVE ArgMaxFrom_last(_, _, _)
ArgMaxFrom_last(stats, k, best) ==
    IF k = N THEN best
    ELSE ArgMaxFrom_last(stats, k + 1,
                         IF stats[k] >= best[2] THEN <<k, stats[k]>> ELSE best)

\* lines 189-196: the first child with the largest count, scanning from
\* child k with the best so far <<id, accesses>>.
RECURSIVE ArgMaxFrom(_, _, _)
ArgMaxFrom(stats, k, best) ==
    IF k = N THEN best
    ELSE ArgMaxFrom(stats, k + 1,
                    IF stats[k] > best[2] THEN <<k, stats[k]>> ELSE best)

\* lines 168-224: count each child's records in the file, pick the child
\* with most accesses, and close and unlink the semaphores.
Stats ==
    /\ main_pc = "stats"
    /\ access_stats' = [c \in Children |-> CopiesIn(c, file)]
    /\ LET best == ArgMaxFrom(access_stats', 0, <<-1, -1>>)
       IN  max_process_id' = best[1] /\ max_accesses' = best[2]
    /\ main_pc' = "done"
    /\ UNCHANGED <<sem, i, cpc, reaped>>

statsVars == <<access_stats, max_process_id, max_accesses>>

Main ==
    /\ \/ (Fork \/ WaitReady \/ Notify \/ Wake \/ WaitChild) /\ UNCHANGED statsVars
       \/ Stats
    /\ UNCHANGED <<thread_id, tpc, file>>

(***************************************************************************)
(* child_process(c)                                                        *)
(***************************************************************************)

\* lines 228-234: sem_post(main_waits_for_children).
PostReady(c) ==
    /\ cpc[c] = "post_ready"
    /\ SemPost("main_waits_for_children")
    /\ cpc' = [cpc EXCEPT ![c] = "wait_start"]
    /\ UNCHANGED <<thread_id, tpc>>

\* lines 236-243: sem_wait(children_wait_for_main).
WaitStart(c) ==
    /\ cpc[c] = "wait_start"
    /\ SemWait("children_wait_for_main")
    /\ cpc' = [cpc EXCEPT ![c] = "create"]
    /\ UNCHANGED <<thread_id, tpc>>

\* lines 248-260: create M threads, numbered on from thread_id.  They start
\* running as they are created; creating them in one step loses no
\* interleaving the properties tell apart, since none of them depends on
\* another before the join.
CreateThreads(c) ==
    /\ cpc[c] = "create"
    /\ tpc' = [tpc EXCEPT ![c] = [j \in Slots |-> "wait_cs"]]
    /\ thread_id' = [thread_id EXCEPT ![c] = @ + M]
    /\ cpc' = [cpc EXCEPT ![c] = "join"]
    /\ UNCHANGED sem

\* lines 262-268: pthread_join on every thread of the round.
JoinThreads(c) ==
    /\ cpc[c] = "join"
    /\ \A j \in Slots : tpc[c][j] = "done"
    /\ tpc' = [tpc EXCEPT ![c] = [j \in Slots |-> "none"]]
    /\ cpc' = [cpc EXCEPT ![c] = "check"]
    /\ UNCHANGED <<sem, thread_id>>

\* Mutant: the end notification is consumed (sem_trywait for sem_getvalue).
CheckEnd_consumes(c) ==
    /\ cpc[c] = "check"
    /\ \/ /\ sem["end_children_activities"] /= 0
          /\ sem' = [sem EXCEPT !["end_children_activities"] = @ - 1]
          /\ cpc' = [cpc EXCEPT ![c] = "exited"]
       \/ /\ sem["end_children_activities"] = 0
          /\ thread_id[c] < MaxRounds * M
          /\ cpc' = [cpc EXCEPT ![c] = "create"]
          /\ UNCHANGED sem
    /\ UNCHANGED <<thread_id, tpc>>

\* lines 270-293: sem_getvalue(end_children_activities); a non-zero value
\* ends the loop, and the child closes its handles and exits; otherwise it
\* starts another round.  A child has time for MaxRounds rounds at most
\* before main wakes: at the bound its last check comes after main's post.
CheckEnd(c) ==
    /\ cpc[c] = "check"
    /\ \/ sem["end_children_activities"] /= 0 /\ cpc' = [cpc EXCEPT ![c] = "exited"]
       \/ /\ sem["end_children_activities"] = 0
          /\ thread_id[c] < MaxRounds * M
          /\ cpc' = [cpc EXCEPT ![c] = "create"]
    /\ UNCHANGED <<sem, thread_id, tpc>>

Child(c) ==
    /\ PostReady(c) \/ WaitStart(c) \/ CreateThreads(c) \/ JoinThreads(c)
       \/ CheckEnd(c)
    /\ UNCHANGED <<main_pc, i, file, reaped, statsVars>>

(***************************************************************************)
(* thread_function, lines 95-126, of thread j of child c                   *)
(***************************************************************************)

\* Mutant: the thread enters without sem_wait.
EnterCS_noWait(c, j) ==
    /\ tpc[c][j] = "wait_cs"
    /\ tpc' = [tpc EXCEPT ![c][j] = "write"]
    /\ UNCHANGED <<sem, file>>

\* lines 99-103: sem_wait(critical_section).
EnterCS(c, j) ==
    /\ tpc[c][j] = "wait_cs"
    /\ SemWait("critical_section")
    /\ tpc' = [tpc EXCEPT ![c][j] = "write"]
    /\ UNCHANGED file

\* lines 105-113: open accesses.log for appending, write the child's id,
\* close it.
WriteAccess(c, j) ==
    /\ tpc[c][j] = "write"
    /\ file' = file (+) SetToBag({c})
    /\ tpc' = [tpc EXCEPT ![c][j] = "post"]
    /\ UNCHANGED sem

\* lines 115-125: sem_post(critical_section); the thread ends.
LeaveCS(c, j) ==
    /\ tpc[c][j] = "post"
    /\ SemPost("critical_section")
    /\ tpc' = [tpc EXCEPT ![c][j] = "done"]
    /\ UNCHANGED file

thread_function(c, j) ==
    /\ EnterCS(c, j) \/ WriteAccess(c, j) \/ LeaveCS(c, j)
    /\ UNCHANGED <<main_pc, i, cpc, thread_id, reaped, statsVars>>

Next ==
    \/ Main
    \/ \E c \in Children : Child(c) \/ \E j \in Slots : thread_function(c, j)

\* Every process and thread is scheduled by the OS; each blocks only in
\* sem_wait, pthread_join or wait(), on a condition another one brings about.
Fairness ==
    /\ WF_vars(Main)
    /\ \A c \in Children : /\ WF_vars(Child(c))
                           /\ \A j \in Slots : WF_vars(thread_function(c, j))

Spec == Init /\ [][Next]_vars /\ Fairness

-----------------------------------------------------------------------------

ChildStates == {"unborn", "post_ready", "wait_start", "create", "join", "check", "exited"}

\* Every variable holds a value of its type.
TypeOK ==
    /\ sem \in [SemNames -> Nat]
    /\ main_pc \in {"fork", "wait_ready", "notify", "sleep", "wait_exit", "stats", "done"}
    /\ i \in 0..N
    /\ cpc \in [Children -> ChildStates]
    /\ thread_id \in [Children -> 0..MaxRounds * M]
    /\ tpc \in [Children -> [Slots -> {"none", "wait_cs", "write", "post", "done"}]]
    /\ IsABag(file) /\ BagToSet(file) \subseteq Children
    /\ reaped \subseteq Children
    /\ access_stats \in [Children -> Nat]
    /\ max_process_id \in Children \cup {-1} /\ max_accesses \in Nat \cup {-1}

\* Threads between sem_wait and sem_post of critical_section.
InCriticalSection == {cj \in Children \X Slots : tpc[cj[1]][cj[2]] \in {"write", "post"}}

\* The named semaphore critical_section excludes across processes: at most
\* one thread of all the children's threads is ever appending to
\* accesses.log.
CriticalSectionExclusive == Cardinality(InCriticalSection) <= 1

\* The start barrier: no child begins its activities (creates threads)
\* before every child has been forked and has posted that it is ready, the
\* handshake of main_waits_for_children and children_wait_for_main.
StartBarrier ==
    (\E c \in Children : cpc[c] \in {"create", "join", "check", "exited"})
        => \A c \in Children : cpc[c] \notin {"unborn", "post_ready"}

\* When main reports, its counts are exact: main waited for every child, so
\* every thread any child created has appended its record, and each child's
\* count is the number of threads it created.
StatsComplete ==
    main_pc = "done" => access_stats = thread_id

\* The reported child is the first one with the largest count (the loop of
\* lines 189-196 against its definition).
MaxReported ==
    main_pc = "done" =>
        /\ \A c \in Children : access_stats[c] <= max_accesses
        /\ max_process_id \in Children
        /\ access_stats[max_process_id] = max_accesses
        /\ \A c \in Children : c < max_process_id => access_stats[c] < max_accesses

\* The program terminates: the single post of end_children_activities is
\* seen by every child (sem_getvalue does not consume it), every child
\* exits, and main finishes its report.
ProgramTerminates == <>(main_pc = "done")

====

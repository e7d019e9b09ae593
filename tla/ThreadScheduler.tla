--------------------------- MODULE ThreadScheduler ---------------------------
(***************************************************************************)
(* The resource scheduler of src/lab3-thread+scheduler/scheduler_solution.c*)
(* main allocates an unnamed semaphore holding NUM_RESOURCES units; every  *)
(* ENTER spawns a burst of THREAD_BURST detached client threads sharing    *)
(* it, and Ctrl-D (EOF) makes main destroy and free the semaphore and      *)
(* return, which ends the process and every thread still running.          *)
(*                                                                         *)
(* A client takes one unit per iteration of its loop and does two work     *)
(* items under it, one when NUM_TASKS is odd and the last item is reached. *)
(* The sleeps, printf and the args struct are left out; items counts the   *)
(* work items a thread has done.  The error branches after sem_wait and    *)
(* sem_post (lines 34-37, 54-57) are unreachable: no signal handler is     *)
(* installed (no EINTR) and the count never exceeds NUM_RESOURCES (no      *)
(* EOVERFLOW).  sem_init (line 78) cannot fail for pshared 0 and a small   *)
(* value.                                                                  *)
(*                                                                         *)
(* Teardown: glibc's sem_destroy does nothing, so a destroyed semaphore    *)
(* still works.  free puts the block in a malloc cache and overwrites its  *)
(* first words, where the count lives, with a non-zero link: a sem_wait on *)
(* a freed semaphore then returns at once, and a sem_post only changes the *)
(* garbage.  The model follows that (semState "freed").                    *)
(***************************************************************************)
EXTENDS Naturals, FiniteSets

CONSTANTS
    NUM_RESOURCES,  \* initial value of the semaphore
    NUM_TASKS,      \* work items per thread
    THREAD_BURST,   \* threads spawned per ENTER
    MaxBursts       \* bound: number of ENTER key presses in a run

ASSUME NUM_RESOURCES \in Nat \ {0}
ASSUME NUM_TASKS \in Nat \ {0}
ASSUME THREAD_BURST \in Nat \ {0}
ASSUME MaxBursts \in Nat

\* thread_ID values main can hand out within the bound
Threads == 0 .. (MaxBursts * THREAD_BURST - 1)

VARIABLES
    sem,        \* the semaphore's count while it is allocated
    semState,   \* "live", "destroyed" (sem_destroy) or "freed" (free)
    status,     \* the process: "running", or ended with exit status 0 or 1
    mpc,        \* main's program counter
    thread_ID,  \* next thread identifier (main, line 73)
    spawned,    \* i of main's for loop over a burst (line 101)
    tpc,        \* program counter of every client thread
    i,          \* each thread's i (line 28)
    items       \* work items each thread has done (history)

vars == <<sem, semState, status, mpc, thread_ID, spawned, tpc, i, items>>

\* main, lines 72-83: semaphore allocated and initialised, main at its loop.
Init ==
    /\ sem = NUM_RESOURCES
    /\ semState = "live"
    /\ status = "running"
    /\ mpc = "input"
    /\ thread_ID = 0
    /\ spawned = 0
    /\ tpc = [t \in Threads |-> "unborn"]
    /\ i = [t \in Threads |-> 0]
    /\ items = [t \in Threads |-> 0]

Running == status = "running"

(***************************************************************************)
(* main, lines 88-130.                                                     *)
(***************************************************************************)

\* getchar loop up to '\n' (line 94): a burst starts.  The user types at
\* most MaxBursts lines.
ReadLine ==
    /\ Running
    /\ mpc = "input"
    /\ thread_ID < MaxBursts * THREAD_BURST
    /\ mpc' = "spawn"
    /\ spawned' = 0
    /\ UNCHANGED <<sem, semState, status, thread_ID, tpc, i, items>>

\* getchar returns EOF (Ctrl-D): break out of the loop (line 96).
ReadEOF ==
    /\ Running
    /\ mpc = "input"
    /\ mpc' = "destroy"
    /\ UNCHANGED <<sem, semState, status, thread_ID, spawned, tpc, i, items>>

\* One iteration of the for loop, lines 104-117: args filled in, the thread
\* created (it starts with i = 0) and detached.
SpawnThread ==
    /\ Running
    /\ mpc = "spawn"
    /\ spawned < THREAD_BURST
    /\ tpc' = [tpc EXCEPT ![thread_ID] = "loop"]
    /\ thread_ID' = thread_ID + 1
    /\ spawned' = spawned + 1
    /\ UNCHANGED <<sem, semState, status, mpc, i, items>>

\* pthread_create fails (EAGAIN): exit(1) ends the process (lines 109-112).
SpawnFails ==
    /\ Running
    /\ mpc = "spawn"
    /\ spawned < THREAD_BURST
    /\ status' = "exit1"
    /\ UNCHANGED <<sem, semState, mpc, thread_ID, spawned, tpc, i, items>>

\* The burst is complete: back to getchar (line 120).
EndBurst ==
    /\ Running
    /\ mpc = "spawn"
    /\ spawned = THREAD_BURST
    /\ mpc' = "input"
    /\ UNCHANGED <<sem, semState, status, thread_ID, spawned, tpc, i, items>>

\* sem_destroy(semaphore) (line 126)
Destroy ==
    /\ Running
    /\ mpc = "destroy"
    /\ mpc' = "free"
    /\ semState' = "destroyed"
    /\ UNCHANGED <<sem, status, thread_ID, spawned, tpc, i, items>>

\* free(semaphore) (line 128)
Free ==
    /\ Running
    /\ mpc = "free"
    /\ mpc' = "return"
    /\ semState' = "freed"
    /\ UNCHANGED <<sem, status, thread_ID, spawned, tpc, i, items>>

\* return 0 from main: exit ends every detached thread (line 130).
Return ==
    /\ Running
    /\ mpc = "return"
    /\ status' = "exit0"
    /\ UNCHANGED <<sem, semState, mpc, thread_ID, spawned, tpc, i, items>>

Main ==
    \/ ReadLine \/ ReadEOF \/ SpawnThread \/ SpawnFails \/ EndBurst
    \/ Destroy \/ Free \/ Return

(***************************************************************************)
(* client, lines 25-65.                                                    *)
(***************************************************************************)

\* while (i < args->num_tasks); on leaving, free(args) and return (61-64).
Loop(t) ==
    /\ Running
    /\ tpc[t] = "loop"
    /\ tpc' = [tpc EXCEPT ![t] = IF i[t] < NUM_TASKS THEN "wait" ELSE "done"]
    /\ UNCHANGED <<sem, semState, status, mpc, thread_ID, spawned, i, items>>

\* Mutant: the client goes on without a unit when none is left.
Wait_noGuard(t) ==
    /\ Running
    /\ tpc[t] = "wait"
    /\ \/ /\ semState \in {"live", "destroyed"}
          /\ sem' = sem - 1
       \/ /\ semState = "freed"
          /\ UNCHANGED sem
    /\ tpc' = [tpc EXCEPT ![t] = "work"]
    /\ UNCHANGED <<semState, status, mpc, thread_ID, spawned, i, items>>

\* sem_wait(args->semaphore) (line 33): blocks while the count is 0; on a
\* freed semaphore the count is a non-zero link and the call returns.
Wait(t) ==
    /\ Running
    /\ tpc[t] = "wait"
    /\ \/ /\ semState \in {"live", "destroyed"}
          /\ sem > 0
          /\ sem' = sem - 1
       \/ /\ semState = "freed"
          /\ UNCHANGED sem
    /\ tpc' = [tpc EXCEPT ![t] = "work"]
    /\ UNCHANGED <<semState, status, mpc, thread_ID, spawned, i, items>>

\* Mutant: the second work item is done without the test of line 47.
Work_alwaysSecond(t) ==
    /\ Running
    /\ tpc[t] = "work"
    /\ tpc' = [tpc EXCEPT ![t] = "post"]
    /\ i' = [i EXCEPT ![t] = i[t] + 2]
    /\ items' = [items EXCEPT ![t] = items[t] + 2]
    /\ UNCHANGED <<sem, semState, status, mpc, thread_ID, spawned>>

\* Work item i, ++i, the second item unless i reached num_tasks, ++i
\* (lines 40-50): the thread's own state only, one step.
Work(t) ==
    /\ Running
    /\ tpc[t] = "work"
    /\ tpc' = [tpc EXCEPT ![t] = "post"]
    /\ i' = [i EXCEPT ![t] = i[t] + 2]
    /\ items' = [items EXCEPT ![t] =
                   items[t] + (IF i[t] + 1 /= NUM_TASKS THEN 2 ELSE 1)]
    /\ UNCHANGED <<sem, semState, status, mpc, thread_ID, spawned>>

\* Mutant: the client leaves the resource without sem_post.
Post_noRelease(t) ==
    /\ Running
    /\ tpc[t] = "post"
    /\ tpc' = [tpc EXCEPT ![t] = "loop"]
    /\ UNCHANGED <<sem, semState, status, mpc, thread_ID, spawned, i, items>>

\* sem_post(args->semaphore) (line 53), then back to the loop test.
Post(t) ==
    /\ Running
    /\ tpc[t] = "post"
    /\ sem' = IF semState = "freed" THEN sem ELSE sem + 1
    /\ tpc' = [tpc EXCEPT ![t] = "loop"]
    /\ UNCHANGED <<semState, status, mpc, thread_ID, spawned, i, items>>

client(t) == Loop(t) \/ Wait(t) \/ Work(t) \/ Post(t)

Next == Main \/ \E t \in Threads : client(t)

(***************************************************************************)
(* Fairness: every detached thread is scheduled eventually (WF per         *)
(* thread), and so is main except while it waits for the user: nothing    *)
(* obliges the user to press ENTER or Ctrl-D, and a failing pthread_create *)
(* is a fault, not a step the system takes.                                *)
(***************************************************************************)
Fairness ==
    /\ WF_vars(SpawnThread \/ EndBurst \/ Destroy \/ Free \/ Return)
    /\ \A t \in Threads : WF_vars(client(t))

Spec == Init /\ [][Next]_vars /\ Fairness

-----------------------------------------------------------------------------
TypeOK ==
    /\ sem \in 0 .. NUM_RESOURCES
    /\ semState \in {"live", "destroyed", "freed"}
    /\ status \in {"running", "exit0", "exit1"}
    /\ mpc \in {"input", "spawn", "destroy", "free", "return"}
    /\ thread_ID \in 0 .. MaxBursts * THREAD_BURST
    /\ spawned \in 0 .. THREAD_BURST
    /\ tpc \in [Threads -> {"unborn", "loop", "wait", "work", "post", "done"}]
    /\ i \in [Threads -> 0 .. NUM_TASKS + 1]
    /\ items \in [Threads -> 0 .. NUM_TASKS + 1]

\* Threads between sem_wait and sem_post: those using a resource.
Holders == {t \in Threads : tpc[t] \in {"work", "post"}}

\* main's banner (lines 69-70) promises that no more than NUM_RESOURCES
\* threads use a resource at the same time.  Across bursts, with threads of
\* an earlier burst still looping and main already past sem_destroy, the
\* units are conserved: those in the semaphore and those held by clients
\* between sem_wait (line 33) and sem_post (line 53) always add up to
\* NUM_RESOURCES, so the bound holds, until free hands the block to malloc.
UnitsConserved ==
    semState /= "freed" =>
        /\ Cardinality(Holders) <= NUM_RESOURCES
        /\ sem + Cardinality(Holders) = NUM_RESOURCES

\* A client that leaves its loop (line 61) has done exactly num_tasks work
\* items: the test i != args->num_tasks (line 47) skips the second item of
\* the last pair when num_tasks is odd, and ++i twice per pair still ends
\* the loop.
WorkItemsDone ==
    \A t \in Threads : tpc[t] = "done" => items[t] = NUM_TASKS

\* Every client thread created finishes its work items, whatever the other
\* clients and bursts do and whether or not the user ever presses Ctrl-D,
\* unless the process ends first (return from main, or exit(1) when
\* pthread_create fails): no unit is kept by a client past its sem_post.
ThreadsFinish ==
    \A t \in Threads : tpc[t] = "loop" ~> (tpc[t] = "done" \/ ~Running)
=============================================================================

\* One unit for bursts of two threads, so that one client of a burst always
\* waits; two bursts, so that a burst starts while the previous one still
\* holds the unit; three work items, the code's odd NUM_TASKS, so that
\* the last pair has a single item.
CONSTANTS
    NUM_RESOURCES = 1
    NUM_TASKS = 3
    THREAD_BURST = 2
    MaxBursts = 2

SPECIFICATION Spec

INVARIANTS
    TypeOK
    UnitsConserved
    WorkItemsDone

PROPERTIES
    ThreadsFinish

\* The process ends by return from main or exit(1): those states have no
\* successor.
CHECK_DEADLOCK FALSE

\* One client process of two threads and one unit; the server may be
\* stopped with Ctrl-C and started again once.
CONSTANTS
    NUM_RESOURCES = 1
    Clients = {c1}
    THREAD_BURST = 2
    MaxBursts = 1
    MaxServerRuns = 2
    UserMayKillClient = TRUE
    NoSem = NoSem
SPECIFICATION Spec
INVARIANT ResourcesBounded
\* Every run ends with the server stopped for good or idle in its loop and
\* the client's threads finished or blocked.
CHECK_DEADLOCK FALSE

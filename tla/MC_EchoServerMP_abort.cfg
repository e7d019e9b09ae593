CONSTANTS
    MAX_CONCURRENCY = 2
    Clients <- MC_Clients
    MaxMsgs = 1
    PeerMayDisconnect = TRUE
    SERVER_COMMAND = SERVER_COMMAND
    DATA = DATA
    WELCOME = WELCOME
    NoClient = NoClient

SPECIFICATION Spec

INVARIANTS
    TypeOK
    AdmissionBounded

PROPERTIES
    ClientsServed

\* Each client connects once and Ctrl-C ends the server; a server whose
\* slots have all leaked blocks in sem_wait, which SlotsConserved is about.
CHECK_DEADLOCK FALSE

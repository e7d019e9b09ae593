\* Clients may die mid-session and the server may be signalled.
CONSTANTS
    MAX_CONCURRENCY = 2
    Clients <- MC_Clients
    SERVER_COMMAND = SERVER_COMMAND
    DATA = DATA
    WELCOME = WELCOME
    MaxMsgs = 1
    PeerMayDisconnect = TRUE
    UserMayInterrupt = TRUE
SPECIFICATION Spec
INVARIANTS TypeOK SlotsConserved
\* The server stops for good once it has exited, and otherwise idles in
\* accept() after the last client.
CHECK_DEADLOCK FALSE

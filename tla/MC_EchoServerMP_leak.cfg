CONSTANTS
    MAX_CONCURRENCY = 2
    Clients <- MC_Clients
    MaxMsgs = 1
    PeerMayDisconnect = TRUE
    SERVER_COMMAND = SERVER_COMMAND
    DATA = DATA
    WELCOME = WELCOME
    NoClient = NoClient

SPECIFICATION Spec

INVARIANT
    SlotsConserved

CHECK_DEADLOCK FALSE

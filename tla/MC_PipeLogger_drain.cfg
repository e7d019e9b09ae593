\* Ctrl-C while records are still in the pipe.
CONSTANTS
    Clients <- MC_Clients
    SERVER_COMMAND = SERVER_COMMAND
    DATA = DATA
    WELCOME = WELCOME
    MaxMsgs = 1
    MaxRead = 2
    PeerMayDisconnect = FALSE
    UserMayInterrupt = TRUE
SPECIFICATION Spec
INVARIANT LoggerDrains
CHECK_DEADLOCK FALSE

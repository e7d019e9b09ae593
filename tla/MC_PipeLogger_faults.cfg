\* Clients may die mid-session (close or reset) and Ctrl-C may come.
CONSTANTS
    Clients <- MC_Clients
    SERVER_COMMAND = SERVER_COMMAND
    DATA = DATA
    WELCOME = WELCOME
    MaxMsgs = 1
    MaxRead = 2
    PeerMayDisconnect = TRUE
    UserMayInterrupt = TRUE
SPECIFICATION Spec
INVARIANT TypeOK
PROPERTY LoggerTerminates
\* Both processes stop for good once they have exited.
CHECK_DEADLOCK FALSE

\* Clients may die mid-session and the server may get SIGINT: the log
\* buffer still keeps the FIFO discipline up to the moment the process ends.
CONSTANTS
    LOG_BUFFER_SIZE = 2
    MainThread = MainThread
    Clients <- MC_Clients
    SERVER_COMMAND = SERVER_COMMAND
    DATA = DATA
    WELCOME = WELCOME
    MaxMsgs = 1
    PeerMayDisconnect = TRUE
    UserMayInterrupt = TRUE
    NoRecord = NoRecord
SPECIFICATION Spec
INVARIANT TypeOK
PROPERTIES LogQueueSafe LoggerKeepsUp
\* The server stops for good once it has exited, and otherwise idles in
\* accept() and sem_wait(&fill_count) after the last client.
CHECK_DEADLOCK FALSE

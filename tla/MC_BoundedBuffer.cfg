CONSTANTS
    BUFFER_SIZE = 2
    MaxItems = 4
    Producers <- MC_Producers
    Consumers <- MC_Consumers

SPECIFICATION Spec

INVARIANTS
    TypeOK
    NoDeadlock

PROPERTIES
    BufferImplementsQueue

\* The bound MaxItems ends every run in AllConsumed, where all threads block;
\* NoDeadlock checks that no other state does.
CHECK_DEADLOCK FALSE

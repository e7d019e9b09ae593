\* Two slots so that both cursors wrap; four transactions so that every slot
\* is reused after the consumer returned it.
CONSTANTS
    BUFFER_SIZE = 2
    MaxItems = 4

SPECIFICATION Spec

INVARIANTS
    TypeOK

PROPERTIES
    BufferImplementsQueue

\* The bound MaxItems ends every run with the producer back at the top of its
\* loop and the consumer blocked in sem_wait(&fill_count); the liveness half
\* of BufferImplementsQueue (WF on Take) rules out any earlier stop.
CHECK_DEADLOCK FALSE

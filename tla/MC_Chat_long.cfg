\* A user may type a line one byte longer than fgets returns at once.
CONSTANTS
    BUFFER_SIZE = 3
    CLOSE_COMMAND <- MC_CLOSE
    NL = NL
    Lines <- MC_LongLines
    MaxLines = 1
    UserMayEndInput = FALSE
SPECIFICATION Spec
INVARIANT ReceiveInBounds
CHECK_DEADLOCK FALSE

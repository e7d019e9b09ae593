\* Either transport; lines fit in buf; a user may press Ctrl-D at any time.
CONSTANTS
    BUFFER_SIZE = 3
    CLOSE_COMMAND <- MC_CLOSE
    NL = NL
    Lines <- MC_ShortLines
    MaxLines = 2
    UserMayEndInput = TRUE
SPECIFICATION Spec
INVARIANTS TypeOK LinesInOrder
PROPERTY ChatEnds
\* Both processes stop for good once they have exited, and a process whose
\* peer never came up blocks in accept or open.
CHECK_DEADLOCK FALSE

\* Two data lines, then QUIT; the user may end either process at any point
\* of the session or close the client's input, but types no empty line.
\* Both processes end, so final states have no successor.
CONSTANTS
    WELCOME = WELCOME
    QUIT = QUIT
    EMPTY = EMPTY
    MaxLines = 2
    EmptyLinesTyped = FALSE
    UserMayKill = TRUE
SPECIFICATION Spec
INVARIANTS TypeOK OneMessageInFlight
PROPERTY SessionEnds
CHECK_DEADLOCK FALSE

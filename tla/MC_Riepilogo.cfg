\* Three children of two threads each, each fitting up to two rounds into
\* main's sleep.  The program ends once main has reported, so the final
\* state has no successor.
CONSTANTS
    N = 3
    M = 2
    MaxRounds = 2
SPECIFICATION Spec
INVARIANTS TypeOK CriticalSectionExclusive StartBarrier StatsComplete MaxReported
PROPERTY ProgramTerminates
CHECK_DEADLOCK FALSE

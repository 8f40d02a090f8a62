\* GUI thread and simulation thread of the simulation panel.
CONSTANTS
    p1 = p1
    p2 = p2
    v = v
    NULL = NULL
    Ports <- MCPorts
    ViewRow = v
    ParseOutcomes = {"ok", "saxError"}
    SimOutcomes = {"ok", "errorWithMap", "errorNoMap"}
    MaxRuns = 3
SPECIFICATION FairSpec
INVARIANT TypeOK
INVARIANT RunningThreadKept
INVARIANT NothingLeaks
PROPERTY RunCompletes
\* Runs are bounded by MaxRuns, the panel may be destroyed and a crash
\* ends the program: all are final states.
CHECK_DEADLOCK FALSE

\* GUI thread and simulation thread of the simulation panel: NoUndefinedBehaviour alone.
CONSTANTS
    p1 = p1
    p2 = p2
    v = v
    NULL = NULL
    Ports <- MCPorts
    ViewRow = v
    ParseOutcomes = {"ok", "saxError", "otherError"}
    SimOutcomes = {"ok", "errorWithMap", "errorNoMap"}
    MaxRuns = 3
SPECIFICATION Spec
INVARIANT NoUndefinedBehaviour
CHECK_DEADLOCK FALSE

CONSTANTS
    a = a
    b = b
    NULL = NULL
    Simulators = {a, b}
    Configs <- ValidConfigs
    TaInit = {0, 1}
    TaChoices = {0, 1, 2, 99}
    Infinity = 99
    MaxObjs = 4

SPECIFICATION Spec

PROPERTY InitRestartsRun

\* the RootCoordinator may be destroyed, and run() before load() crashes
CHECK_DEADLOCK FALSE

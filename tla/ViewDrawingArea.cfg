CONSTANTS
    a = a
    b = b
    c = c
    NULL = NULL
    Models <- MCModels
    Cur = c
    ConnOrder <- MCConnOrder3
    RawSelect <- MCRawSelect
    WinWidths <- MCWinWidths
SPECIFICATION Spec
INVARIANT TypeOK
INVARIANT ZoomPositive
INVARIANT LinesCurrent
CHECK_DEADLOCK FALSE

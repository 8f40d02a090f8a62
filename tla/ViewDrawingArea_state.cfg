\* Every handler sequence over a small graph: DrawingStateValid alone.
CONSTANTS
    a = a
    b = b
    c = c
    NULL = NULL
    Models <- MCModels
    Cur = c
    ConnOrder <- MCConnOrder
    RawSelect <- MCRawSelect
    WinWidths <- MCWinWidths
SPECIFICATION Spec
PROPERTY DrawingStateValid

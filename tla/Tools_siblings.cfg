\* tokenize(), format(), is<bool>() and to<bool>() over small inputs.
CONSTANTS
    Chars = {"a", ";", ","}
    MaxStrLen = 4
    Befores <- MCBefores
    Lengths <- MCLengths
    BoolStrs <- MCBoolStrs
    IntTypes = {"int8_t", "uint8_t", "int16_t", "uint16_t"}
    TestInts <- MCTestInts
    NoNumbers <- MCNoNumbers
    NoCall = NoCall
    Scene <- MCScene
    Cur = "c"
    CurWidth = 450
    CurHeight = 300
    Links <- MCLinks
    MaxLinks = 3
    Zooms = {10, 100}
SPECIFICATION ToolsSpec
INVARIANT SiblingsAgree

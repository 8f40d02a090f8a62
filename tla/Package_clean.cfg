\* clean(), rclean(), remove() and select() against a running package command.
CONSTANTS
    NULL = NULL
    Pkgs = {p1, p2}
    StartFails = TRUE
    Candidates <- MCCandidates
    LibExt = ".so"
    NoCall = NoCall
SPECIFICATION MCSpec
SYMMETRY PkgSymmetry
INVARIANT PackageCallsIsolated

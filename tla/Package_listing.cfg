\* listLibraries() over every small tree: LibrariesListed alone.
CONSTANTS
    NULL = NULL
    Pkgs = {p1, p2}
    StartFails = TRUE
    Candidates <- MCCandidates
    LibExt = ".so"
    NoCall = NoCall
SPECIFICATION MCSpec
SYMMETRY PkgSymmetry
INVARIANT LibrariesListed

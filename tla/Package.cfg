\* One package, every command set, a Spawn::start that may fail; the
\* listings over every small tree.
CONSTANTS
    NULL = NULL
    Pkgs = {p1, p2}
    StartFails = TRUE
    Candidates <- MCCandidates
    LibExt = ".so"
    NoCall = NoCall
SPECIFICATION MCSpec
SYMMETRY PkgSymmetry
INVARIANT TypeOK
INVARIANT ExperimentsListed

--------------------------- MODULE PackageListing ---------------------------
(***************************************************************************)
(* The directory listings of utils::Package (Package.cpp): getExperiments()*)
(* and listLibraries() (behind getPluginsSimulator() and the other plugin  *)
(* lists).  Both walk a directory tree with an explicit stack: pop a       *)
(* directory, iterate over its entries, keep the files of one extension    *)
(* and push the subdirectories.                                            *)
(*                                                                         *)
(* A directory tree is a set of entries [path, kind, ext]: path is the     *)
(* sequence of names from the listed directory (<<>> is that directory),   *)
(* ext is what FSpath::extension() returns for the last name.  The order   *)
(* of a directory iterator is unspecified; SetToSeq fixes one, and the     *)
(* properties do not depend on it.                                         *)
(***************************************************************************)
EXTENDS Integers, SequencesExt

CONSTANTS
    Candidates,   \* the entries a tree may contain
    LibExt,       \* ".so" (".dll" on Windows, ".dylib" on macOS)
    NoCall        \* no listing asked yet

VARIABLE
    listed        \* the last listing: [fn, tree, result], or NoCall

Dir(p) == [path |-> p, kind |-> "dir", ext |-> ""]
Top == Dir(<<>>)

(* the trees: sets of candidates closed under taking the parent directory  *)
Trees ==
    {t \in SUBSET Candidates :
        \A e \in t : e.path = <<>> \/ Dir(Front(e.path)) \in t}

(* FSdirectory_iterator(dir): the entries directly inside dir              *)
Entries(t, dir) ==
    SetToSeq({e \in t : Len(e.path) = Len(dir.path) + 1
                        /\ Front(e.path) = dir.path})

(* the files with extension x anywhere under the listed directory          *)
FilesUnder(t, x) == {e.path : e \in {f \in t : f.kind = "file" /\ f.ext = x}}

-----------------------------------------------------------------------------
(* One turn of the for loop of getExperiments(): a .vpz file is kept, a    *)
(* directory is pushed.  The accumulator is [stack, result].               *)
\* mutant of ExpVisit: the directory test nested under the file test
ExpVisitNoDescend(acc, it) ==
    IF it.kind = "file"
    THEN IF it.ext = ".vpz" THEN [acc EXCEPT !.result = Append(@, it.path)]
         ELSE IF it.kind = "dir" THEN [acc EXCEPT !.stack = Append(@, it)]
         ELSE acc
    ELSE acc

ExpVisit(acc, it) ==
    IF it.kind = "file"
    THEN IF it.ext = ".vpz" THEN [acc EXCEPT !.result = Append(@, it.path)]
         ELSE acc
    ELSE IF it.kind = "dir" THEN [acc EXCEPT !.stack = Append(@, it)]
    ELSE acc

(* One turn of the for loop of listLibraries(): the test for a directory   *)
(* is the else branch of the extension test, inside the file test.         *)
LibVisit(acc, it) ==
    IF it.kind = "file"
    THEN IF it.ext = LibExt THEN [acc EXCEPT !.result = Append(@, it.path)]
         ELSE IF it.kind = "dir" THEN [acc EXCEPT !.stack = Append(@, it)]
         ELSE acc
    ELSE acc

Visit(fn, acc, it) == IF fn = "getExperiments" THEN ExpVisit(acc, it)
                      ELSE LibVisit(acc, it)

(* while (not stack.empty()): pop the top directory and iterate over it    *)
RECURSIVE Walk(_, _, _)
Walk(fn, t, acc) ==
    IF acc.stack = <<>> THEN acc.result
    ELSE LET dir    == Last(acc.stack)
             popped == [acc EXCEPT !.stack = Front(@)]
         IN  Walk(fn, t, FoldLeft(LAMBDA a, e : Visit(fn, a, e), popped,
                                  Entries(t, dir)))

Start == [stack |-> <<Top>>, result |-> <<>>]

(* getExperiments(): throws InternalError when the directory does not     *)
(* exist                                                                   *)
ListExperiments(t) == IF Top \in t THEN Walk("getExperiments", t, Start)
                      ELSE "InternalError"

(* listLibraries(): empty when the directory does not exist                *)
ListLibraries(t) == IF Top \in t THEN Walk("listLibraries", t, Start)
                    ELSE <<>>

ListInit == listed = NoCall

(* a client calls Package::getExperiments() on the tree it finds           *)
getExperiments ==
    /\ listed = NoCall
    /\ \E t \in Trees :
          listed' = [fn |-> "getExperiments", tree |-> t,
                     result |-> ListExperiments(t)]

(* a client lists the simulator plugins: listLibraries() on the tree       *)
listLibraries ==
    /\ listed = NoCall
    /\ \E t \in Trees :
          listed' = [fn |-> "listLibraries", tree |-> t,
                     result |-> ListLibraries(t)]

(* the listing returns to the client                                      *)
ListReturn ==
    /\ listed # NoCall
    /\ listed' = NoCall

ListNext == getExperiments \/ listLibraries \/ ListReturn

-----------------------------------------------------------------------------
(* getExperiments() lists every .vpz file of the experiments tree, in all  *)
(* its subdirectories, each once, and throws only when the experiments     *)
(* directory does not exist.                                               *)
ExperimentsListed ==
    listed # NoCall /\ listed.fn = "getExperiments" =>
        LET t == listed.tree IN
        IF Top \in t
        THEN /\ ToSet(listed.result) = FilesUnder(t, ".vpz")
             /\ Len(listed.result) = Cardinality(FilesUnder(t, ".vpz"))
        ELSE listed.result = "InternalError"

(* listLibraries() lists every plugin library of the plugin directory, in  *)
(* all its subdirectories (as getExperiments() does for experiments; the   *)
(* loop pushes subdirectories on its stack for that purpose).              *)
LibrariesListed ==
    listed # NoCall /\ listed.fn = "listLibraries" /\ Top \in listed.tree =>
        ToSet(listed.result) = FilesUnder(listed.tree, LibExt)
=============================================================================

----------------------------- MODULE MC_Package -----------------------------
(* Package with its directory listings.  A listing reads no state a   *)
(* command writes, so its result does not depend on when it is called: the *)
(* composition lets it run before the first command starts a child, and    *)
(* the commands wait until it returns.  The listings run on every tree of  *)
(* at most three levels built from a library and an experiment per level. *)
EXTENDS Package, PackageListing

PkgSymmetry == Permutations(Pkgs)

File(p, x) == [path |-> p, kind |-> "file", ext |-> x]

MCCandidates ==
    { Dir(<<>>), File(<<"a">>, ".so"), File(<<"x">>, ".vpz"),
      Dir(<<"d">>), File(<<"d", "b">>, ".so"), File(<<"d", "y">>, ".vpz"),
      Dir(<<"d", "e">>), File(<<"d", "e", "c">>, ".so") }

MCInit == Init /\ ListInit

MCNext ==
    \/ listed = NoCall /\ Next /\ UNCHANGED listed
    \/ child.state = "none" /\ ListNext /\ UNCHANGED vars

MCSpec == MCInit /\ [][MCNext]_<<vars, listed>>
=============================================================================

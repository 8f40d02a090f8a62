---------------------------- MODULE MC_SimPanel ----------------------------
(* Two port rows under one view row; three runs: a first one to build the  *)
(* tree, and later ones during which the old tree stays clickable.         *)
EXTENDS SimPanel

CONSTANTS p1, p2, v

MCPorts == {p1, p2}
=============================================================================

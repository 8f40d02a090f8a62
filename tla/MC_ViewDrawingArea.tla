------------------------- MODULE MC_ViewDrawingArea -------------------------
EXTENDS ViewDrawingArea

CONSTANTS a, b, c

MCModels == {a, b}

(* computeConnection() order: input connections of c, then the children   *)
(* in name order with their output connections                             *)
MCConnOrder == << <<c, a>>, <<a, b>>, <<a, c>>, <<b, c>> >>

(* for the pass run: an input, an internal and an output connection        *)
MCConnOrder3 == << <<c, a>>, <<a, b>>, <<b, c>> >>

MCRawSelect == {0, 360}

(* allocations narrower and wider than the initial mWidth of 450           *)
MCWinWidths == {300, 600}
====

------------------------------ MODULE MC_Tools ------------------------------
(* Strings of up to 4 characters over a letter and two delimiters, every   *)
(* delimiter set; a vector passed empty or holding one token; text lengths *)
(* on both sides of the first buffer size; the strings of is<bool>() and   *)
(* to<bool>(): the two literals and every string of up to 2 characters    *)
(* over three digits and a letter; for to<T>() on the integer types, the  *)
(* numbers at and beside the limits of the 8- and 16-bit types and a few   *)
(* strings that hold no number.                                            *)
(*                                                                         *)
(* Beside them, the routing of the drawing area's connections: a coupled   *)
(* model c whose input feeds b; a child a above and a child e below b,     *)
(* both feeding b's first input port, a into its second port too; b        *)
(* feeding back into a and e (destinations left of their source, above   *)
(* and below it) and out to c.                                             *)
(* Up to three of these connections, in every order, drawn at zoom 1.0   *)
(* and at 0.1, the least selectZoom() sets, where lanes 5 pixels apart   *)
(* are half a pixel apart.  The routing runs                               *)
(* between two calls of the string helpers, the two share no state.       *)
EXTENDS Tools, ConnectionLayout

MCLengths == {-1, 0, 255, 256, 300}

MCBefores == {<<>>, << <<"a">> >>}

MCBoolStrs == SeqOf({"0", "1", "2", "x"}, 2) \cup {TrueStr, FalseStr}

MCTestInts == {-32769, -32768, -129, -128, -1, 0, 7, 100, 127, 128, 255, 256,
               32767, 32768, 65535, 65536}

MCNoNumbers == {<<>>, <<" ">>, <<"-">>, <<"a">>, <<"+", "a">>, <<" ", "-">>}

Geom(x, y, w, i, o) == [x |-> x, y |-> y, w |-> w, nIn |-> i, nOut |-> o]

MCScene == [m \in {"c", "a", "b", "e"} |->
              CASE m = "c" -> Geom(0, 0, 450, 1, 1)
                [] m = "a" -> Geom(50, 20, 100, 1, 1)
                [] m = "b" -> Geom(250, 100, 100, 2, 1)
                [] m = "e" -> Geom(50, 200, 100, 1, 1)]

Link(s, i, d, j) == [src |-> s, sport |-> i, dst |-> d, dport |-> j]

MCLinks == {Link("a", 0, "b", 0), Link("e", 0, "b", 0), Link("c", 0, "b", 0),
            Link("a", 0, "b", 1), Link("b", 0, "a", 0), Link("b", 0, "e", 0),
            Link("b", 0, "c", 0)}

MCInit == Init /\ LayoutInit

MCNext ==
    \/ visited = <<>> /\ Next /\ UNCHANGED layoutVars
    \/ call = NoCall /\ drawConnection /\ UNCHANGED call

MCSpec == MCInit /\ [][MCNext]_<<call, layoutVars>>

(* the helpers alone, nothing drawn                                        *)
ToolsSpec == MCInit /\ [][Next /\ UNCHANGED layoutVars]_<<call, layoutVars>>
=============================================================================

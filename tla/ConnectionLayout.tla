------------------------- MODULE ConnectionLayout -------------------------
(***************************************************************************)
(* gvle::ViewDrawingArea::preComputeConnection(): the routing of the       *)
(* connections of the coupled model shown, computed by every draw() before *)
(* computeConnection() turns each route into the polyline on screen.       *)
(*                                                                         *)
(* A connection leaves its source port horizontally, runs vertically at   *)
(* x1, horizontally at y3 to x2, and ends at its destination port.  The   *)
(* routes that arrive at one destination column xd are given lanes: the    *)
(* p-th one from below (ys > yd) bends at x2 = xd - SPACING_MODEL_PORT -   *)
(* (p-1)*SPACING_LINE, y3 = yd + (p-1)*SPACING_LINE, and those from above  *)
(* mirror it.  Lane 1 is the direct one; mDirect records, per destination  *)
(* port, that one route already took it.  The routes that leave one source *)
(* column xs are spread alike (x1, y4) and, when the destination lies left *)
(* of the source (x2 <= x1), pass above or below the source model (y1).    *)
(*                                                                         *)
(* The geometry of the models is a CONSTANT.  The connections of one port *)
(* are visited in the order of a ModelPortList, keyed by model pointer:   *)
(* any order of the connections is one the code may use.                   *)
(***************************************************************************)
EXTENDS Integers, SequencesExt

CONSTANTS
    Scene,        \* model -> [x, y, w, nIn, nOut]; Cur's entry is mCurrent
    Cur,          \* mCurrent
    CurWidth,     \* mWidth
    CurHeight,    \* mHeight
    Links,        \* possible connections: [src, sport, dst, dport]
    MaxLinks,     \* most connections in one graph
    Zooms         \* mZoom values, in hundredths

(* the widget's spacing constants (unsigned; every result below stays in  *)
(* int range, so the unsigned arithmetic gives the same values)            *)
MODEL_PORT == 10
MODEL_SPACING_PORT == 5
MODEL_HEIGHT == 30
SPACING_MODEL == 25
SPACING_LINE == 5
SPACING_MODEL_PORT == 10

Sides == {"first", "second"}      \* from below (ys > yd), from above
NoLanes == [s \in Sides |-> 0]
Columns == {Scene[m].x : m \in DOMAIN Scene}
           \cup {Scene[m].x + Scene[m].w : m \in DOMAIN Scene}
           \cup {2 * MODEL_PORT, CurWidth - MODEL_PORT}

VARIABLES
    mConnections, \* the routes, in the order the connections were visited
    mDirect,      \* destination ports whose direct lane is taken
    mInPts,       \* destination column -> lanes used from each side
    mOutPts,      \* source column -> lanes used from each side
    mLines,       \* the polylines computeConnection() made of the routes
    visited       \* the connections drawConnection() visited, in order

layoutVars == <<mConnections, mDirect, mInPts, mOutPts, mLines, visited>>

-----------------------------------------------------------------------------
(* calcSize(m): the height that fits the ports of a child                  *)
calcSize(m) ==
    LET s == Scene[m] IN
    MODEL_HEIGHT + (IF s.nIn > s.nOut THEN s.nIn ELSE s.nOut)
                   * (MODEL_SPACING_PORT + MODEL_PORT)

Height(m) == IF m = Cur THEN CurHeight ELSE calcSize(m)

(* getModelInPosition / getModelOutPosition: port i of n evenly spaced     *)
(* along a child's side; getCurrentModelInPosition / OutPosition: along    *)
(* mCurrent's inner sides, in mHeight.                                     *)
getModelInPosition(m, i) ==
    <<Scene[m].x, Scene[m].y + (Height(m) \div (Scene[m].nIn + 1)) * (i + 1)>>
getModelOutPosition(m, i) ==
    <<Scene[m].x + Scene[m].w,
      Scene[m].y + (Height(m) \div (Scene[m].nOut + 1)) * (i + 1)>>
getCurrentModelInPosition(i) ==
    <<2 * MODEL_PORT, (CurHeight \div (Scene[Cur].nIn + 1)) * (i + 1)>>
getCurrentModelOutPosition(i) ==
    <<CurWidth - MODEL_PORT, (CurHeight \div (Scene[Cur].nOut + 1)) * (i + 1)>>

(* preComputeConnection(src, portsrc, dst, portdst): the two end points   *)
(* by whether the source or the destination is mCurrent; the top and the   *)
(* bottom of the source model                                              *)
Ends(k) ==
    LET s == IF k.src = Cur THEN getCurrentModelInPosition(k.sport)
             ELSE getModelOutPosition(k.src, k.sport)
        d == IF k.src # Cur /\ k.dst = Cur THEN getCurrentModelOutPosition(k.dport)
             ELSE getModelInPosition(k.dst, k.dport)
    IN [xs |-> s[1], ys |-> s[2], xd |-> d[1], yd |-> d[2],
        ytms |-> Scene[k.src].y, ybms |-> Scene[k.src].y + Height(k.src)]

(* mutant of InLane: the direct lane taken without looking at mDirect      *)
InLaneNoDirect(st, side, pt) ==
    LET p == st.inPts[pt[1]][side] + 1 IN
    [p |-> p, used |-> p,
     direct |-> IF p = 1 THEN st.direct \cup {pt} ELSE st.direct]

(* the lane of a route into port pt from one side: the next one of its    *)
(* column; the first one of a side is the direct lane unless a route from *)
(* the other side already took it for that port, when the next is used    *)
InLane(st, side, pt) ==
    LET p == st.inPts[pt[1]][side] + 1 IN
    CASE p = 1 /\ pt \in st.direct -> [p |-> 2, used |-> 2, direct |-> st.direct]
      [] p = 1                      -> [p |-> 1, used |-> 1,
                                        direct |-> st.direct \cup {pt}]
      [] OTHER                      -> [p |-> p, used |-> p, direct |-> st.direct]

(* preComputeConnection(xs, ys, xd, yd, ytms, ybms): the route of k, with *)
(* its end points e, appended                                              *)
RouteFrom(st, k, e) ==
    LET side == IF e.ys > e.yd THEN "first" ELSE "second"
        sgn  == IF e.ys > e.yd THEN 1 ELSE -1
        in   == InLane(st, side, <<e.xd, e.yd>>)
        q    == st.outPts[e.xs][side] + 1
        x1   == e.xs + SPACING_MODEL_PORT + (q - 1) * SPACING_LINE
        x2   == e.xd - SPACING_MODEL_PORT - (in.p - 1) * SPACING_LINE
        y1   == CASE x2 > x1 -> 0
                  [] sgn = 1 -> e.ytms - SPACING_MODEL - (q - 1) * SPACING_LINE
                  [] OTHER   -> e.ybms + SPACING_MODEL + (q - 1) * SPACING_LINE
        con  == [link |-> k, xs |-> e.xs, ys |-> e.ys, xd |-> e.xd, yd |-> e.yd,
                 x1 |-> x1, x2 |-> x2, y1 |-> y1,
                 y3 |-> e.yd + sgn * (in.p - 1) * SPACING_LINE,
                 y4 |-> e.ys - sgn * (q - 1) * SPACING_LINE,
                 top |-> sgn = -1]
    IN [conns  |-> Append(st.conns, con),
        direct |-> in.direct,
        inPts  |-> [st.inPts EXCEPT ![e.xd][side] = in.used],
        outPts |-> [st.outPts EXCEPT ![e.xs][side] = q]]

(* preComputeConnection(src, portsrc, dst, portdst): one route appended    *)
Route(st, k) == RouteFrom(st, k, Ends(k))

(* preComputeConnection(): the four maps are cleared, then every          *)
(* connection is routed in the order it is visited                          *)
Cleared == [conns |-> <<>>, direct |-> {},
            inPts |-> [x \in Columns |-> NoLanes],
            outPts |-> [x \in Columns |-> NoLanes]]

Layout(order) == FoldLeft(Route, Cleared, order)

(* (int)(v * mZoom): C++ truncates toward zero.  At mZoom 1.0 the double  *)
(* product is exact; the double 0.1 lies just above 1/10, so v * 0.1 never *)
(* rounds below an integer v/10 and truncates to the same value.           *)
Scaled(v, z) == IF v * z >= 0 THEN (v * z) \div 100 ELSE -((-v * z) \div 100)

Pt(x, y, z) == <<Scaled(x, z), Scaled(y, z)>>

(* computeConnection(xs, ys, xd, yd, index): the polyline of route con at  *)
(* zoom z: out of the source port, down or up at x1 (around the source     *)
(* model at y1 when the destination lies left of x1), along y3 to x2, into *)
(* the destination port                                                    *)
computeConnection(con, z) ==
    LET head == <<Pt(con.xs, con.ys, z),
                  Pt(con.xs + SPACING_MODEL_PORT, con.ys, z)>>
        mid  == CASE con.x2 > con.x1 -> <<Pt(con.x1, con.y4, z),
                                          Pt(con.x1, con.y3, z)>>
                  [] con.x2 = con.x1 -> <<Pt(con.x1, con.y4, z)>>
                  [] OTHER           -> <<Pt(con.x1, con.y4, z),
                                          Pt(con.x1, con.y1, z),
                                          Pt(con.x2, con.y1, z)>>
        tail == <<Pt(con.x2, con.y3, z),
                  Pt(con.xd - SPACING_MODEL_PORT, con.yd, z),
                  Pt(con.xd, con.yd, z)>>
    IN head \o mid \o tail

(* the orders in which draw() may visit the connections of a graph         *)
Orders == {o \in SeqOf(Links, MaxLinks) : IsInjective(o)}

-----------------------------------------------------------------------------
LayoutInit ==
    /\ mConnections = <<>> /\ mDirect = {}
    /\ mInPts = [x \in Columns |-> NoLanes] /\ mOutPts = [x \in Columns |-> NoLanes]
    /\ mLines = <<>> /\ visited = <<>>

(* draw() -> drawConnection(): preComputeConnection(), then                *)
(* computeConnection(), which visits the same lists in the same order and  *)
(* turns route i into line i; drawLines() only strokes them.  Between two  *)
(* draws the graph shown and mZoom may have changed: each draw is of any  *)
(* graph, in any visiting order, at any zoom of Zooms.                     *)
drawConnection ==
    \E order \in Orders, z \in Zooms :
        LET st == Layout(order) IN
        /\ mConnections' = st.conns /\ mDirect' = st.direct
        /\ mInPts' = st.inPts /\ mOutPts' = st.outPts
        /\ mLines' = [i \in DOMAIN st.conns |-> computeConnection(st.conns[i], z)]
        /\ visited' = order

LayoutSpec == LayoutInit /\ [][drawConnection]_layoutVars

-----------------------------------------------------------------------------
(* Two connections into the same input port are drawn apart: whatever the *)
(* order the connections are visited in, from whichever side they arrive  *)
(* at each zoom of Zooms, the lines drawn for two routes ending at one    *)
(* port leave their last bend (x2, y3) at different screen points, so    *)
(* neither hides the other where they meet the port.  This rests on        *)
(* mDirect (the first route from each side would otherwise both take the   *)
(* direct lane) and on line i being drawn from route i.                    *)
BendsDistinct ==
    \A i, j \in DOMAIN mConnections :
        LET a == mConnections[i]
            b == mConnections[j]
            Bend(l) == l[Len(l) - 2]
        IN  (i # j /\ a.xd = b.xd /\ a.yd = b.yd) =>
                Bend(mLines[i]) # Bend(mLines[j])
====

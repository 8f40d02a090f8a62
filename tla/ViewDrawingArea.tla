-------------------------- MODULE ViewDrawingArea --------------------------
(***************************************************************************)
(* gvle::ViewDrawingArea, the GTK widget that draws one coupled model      *)
(* (Cur) with its children and connections.  Its event handlers run one at *)
(* a time; queueRedraw() only marks the widget, and the expose event that  *)
(* redraws it comes after the input events already queued (GTK dispatches  *)
(* redraws at a lower priority than input).                                *)
(*                                                                         *)
(* Zoom factors are in hundredths (mZoom = 1.0 is 100).  Connections have  *)
(* one port per model, so a connection is a pair of models; ConnOrder      *)
(* lists every possible one in the order computeConnection() enumerates    *)
(* them (input connections of Cur, then the children in name order with    *)
(* their output ports), which is the order of mLines and mText.            *)
(***************************************************************************)
EXTENDS Integers, Sequences, FiniteSets

CONSTANTS
    Models,      \* the children the coupled model may have
    Cur,         \* the coupled model shown (mCurrent)
    ConnOrder,   \* enumeration order of all possible connections
    RawSelect,   \* values of 4 * |1 - max(xt, yt)| in selectZoom, hundredths
    WinWidths,   \* widths GTK may allocate to the widget (configure events)
    NULL

Tools == {"POINTER", "ADDMODEL", "ADDLINK", "DELETE", "ZOOM"}

ZOOM_FACTOR_SUP == 50
ZOOM_FACTOR_INF == 10
ZOOM_MIN == 50
ZOOM_MAX == 400

Conns == {ConnOrder[i] : i \in DOMAIN ConnOrder}
ASSUME Conns \subseteq (Models \cup {Cur}) \X (Models \cup {Cur})
ASSUME RawSelect \subseteq 0..400

VARIABLES
    tool,        \* mView->getCurrentButton()
    models,      \* children of mCurrent
    conns,       \* connections of mCurrent
    lines,       \* mLines: the connections computed by the last draw()
    hl,          \* mHighlightLine, -1 for none
    linkSrc,     \* ADDLINK: first selected model, NULL if none
    zoom,        \* mZoom
    needRedraw,  \* mNeedRedraw (queueRedraw() was called)
    width,       \* mWidth, the width of mCurrent (mHeight is handled alike)
    realized,    \* mIsRealized
    faults       \* undefined behaviours that happened

vars == <<tool, models, conns, lines, hl, linkSrc, zoom, needRedraw, width,
          realized, faults>>

-----------------------------------------------------------------------------
(* computeConnection(): mLines for the current graph                       *)
Enumerate(cs) == SelectSeq(ConnOrder, LAMBDA c : c \in cs)

(* the model under the mouse: mCurrent->find(x, y)                         *)
UnderMouse == models \cup {NULL}

(* mutant of selectZoom: no lower clamp                                    *)
selectZoomNoFloor(raw) == IF raw >= 400 THEN 400 ELSE raw

(* selectZoom(): mZoom = 4 * z, then clamped to [0.1, 4.0]                 *)
selectZoom(raw) == IF raw <= 10 THEN 10 ELSE IF raw >= 400 THEN 400 ELSE raw

(* mutant of addCoefZoom: no clamp at ZOOM_MAX                             *)
addCoefZoomNoClamp(z) == z + ZOOM_FACTOR_SUP

(* addCoefZoom(): clamps only a factor already at ZOOM_MAX                 *)
addCoefZoom(z) == IF z >= ZOOM_MAX THEN ZOOM_MAX ELSE z + ZOOM_FACTOR_SUP

(* delCoefZoom(): -0.5 above 1.0, else -0.1 down to ZOOM_MIN               *)
delCoefZoom(z) ==
    IF z > 100 THEN z - ZOOM_FACTOR_SUP
    ELSE IF z <= ZOOM_MIN THEN ZOOM_MIN ELSE z - ZOOM_FACTOR_INF

(* delModel(m): the model goes with every connection it takes part in      *)
WithoutModel(cs, m) == {c \in cs : c[1] # m /\ c[2] # m}

-----------------------------------------------------------------------------
(* constructor: mWidth(450), mZoom(1.0), mIsRealized(false),             *)
(* mHighlightLine(-1); the graph as loaded                                 *)
Init ==
    /\ width = 450 /\ realized = FALSE
    /\ tool \in Tools
    /\ models \in SUBSET Models
    /\ conns \in SUBSET {c \in Conns : {c[1], c[2]} \subseteq models \cup {Cur}}
    /\ lines = <<>> /\ hl = -1 /\ linkSrc = NULL
    /\ zoom = 100 /\ needRedraw = TRUE /\ faults = {}

(* the user picks another tool (View, outside this widget)                 *)
selectTool(t) ==
    /\ faults = {} /\ t # tool
    /\ tool' = t /\ linkSrc' = NULL
    /\ UNCHANGED <<models, conns, lines, hl, zoom, needRedraw, width,
                   realized, faults>>

(* highlightLine(): the first line of mLines within 10 pixels of the mouse *)
(* is highlighted; none found resets mHighlightLine to -1                 *)
highlightLine ==
    \E i \in -1..(Len(lines) - 1) :
        /\ hl' = i
        /\ needRedraw' = (needRedraw \/ i # -1 \/ hl # -1)

(* the connection at index mHighlightLine in the graph as it is now       *)
AtHighlight(cs) ==
    LET now == Enumerate(cs)
    IN  IF hl \in 0..(Len(now) - 1) THEN {now[hl + 1]} ELSE {}

(* delConnection(): walks the connections of mCurrent, as they are NOW, in *)
(* the drawing order, deletes the one at index mHighlightLine if there is  *)
(* one, and resets mHighlightLine                                          *)
delConnection ==
    /\ conns' = conns \ AtHighlight(conns)
    /\ hl' = -1

(* delUnderMouse(): the model under the mouse is deleted with its          *)
(* connections (View::delModel), mHighlightLine untouched; else            *)
(* delConnection()                                                          *)
delUnderMouse ==
    \/ \E m \in models :
          /\ models' = models \ {m}
          /\ conns' = WithoutModel(conns, m)
          /\ UNCHANGED hl
    \/ /\ delConnection
       /\ UNCHANGED models

(* addLinkOnButtonPress(): the model under the mouse, or mCurrent, is     *)
(* selected as the source of the link                                      *)
addLinkOnButtonPress(m) == linkSrc' = IF m = NULL THEN Cur ELSE m

(* addLinkOnButtonRelease(): with a source selected, View::makeConnection  *)
(* links it to the model under the mouse, or to mCurrent; the port dialog  *)
(* may be cancelled; the selection is cleared                              *)
addLinkOnButtonRelease(m) ==
    LET dst == IF m = NULL THEN Cur ELSE m IN
    /\ \/ /\ linkSrc # NULL /\ <<linkSrc, dst>> \in Conns
          /\ conns' = conns \cup {<<linkSrc, dst>>}
       \/ UNCHANGED conns
    /\ linkSrc' = NULL

(* on_button_press_event(), with the tools that change this state          *)
on_button_press_event ==
    /\ faults = {} /\ realized
    /\ \/ /\ tool = "ADDMODEL"          \* View::addAtomicModel
          /\ \E m \in Models \ models : models' = models \cup {m}
          /\ UNCHANGED <<conns, hl, linkSrc>>
       \/ /\ tool = "ADDLINK"
          /\ \E m \in UnderMouse : addLinkOnButtonPress(m)
          /\ UNCHANGED <<models, conns, hl>>
       \/ /\ tool = "DELETE"
          /\ delUnderMouse
          /\ UNCHANGED linkSrc
       \/ /\ tool \in {"POINTER", "ZOOM"}  \* selection, zoom frame start
          /\ UNCHANGED <<models, conns, hl, linkSrc>>
    /\ needRedraw' = TRUE
    /\ UNCHANGED <<tool, lines, zoom, width, realized, faults>>

(* onZoom(button): button 2 zooms in, button 3 out; newSize() redraws      *)
onZoom(button) ==
    /\ zoom' = CASE button = 2 -> addCoefZoom(zoom)
                 [] button = 3 -> delCoefZoom(zoom)
                 [] OTHER      -> zoom
    /\ needRedraw' = TRUE

(* on_button_release_event(): ADDLINK connects the selected model to the   *)
(* one under the mouse (or mCurrent); ZOOM zooms on the frame when it is   *)
(* wider and higher than 5, or by onZoom() for the other buttons           *)
on_button_release_event ==
    /\ faults = {} /\ realized
    /\ \/ /\ tool = "ADDLINK"
          /\ \E m \in UnderMouse : addLinkOnButtonRelease(m)
          /\ needRedraw' = TRUE /\ UNCHANGED zoom
       \/ /\ tool = "ZOOM"
          /\ \/ \E raw \in RawSelect :
                   zoom' = selectZoom(raw) /\ needRedraw' = TRUE
             \/ UNCHANGED <<zoom, needRedraw>>     \* frame of 5 or less
             \/ \E b \in {2, 3, 8} : onZoom(b)    \* 8: a side button
          /\ UNCHANGED <<conns, linkSrc>>
    /\ UNCHANGED <<tool, models, lines, hl, width, realized, faults>>

(* on_motion_notify_event(): highlightLine() in POINTER with no button and *)
(* in DELETE mode                                                          *)
on_motion_notify_event ==
    /\ faults = {} /\ realized
    /\ tool \in {"POINTER", "DELETE"}
    /\ highlightLine
    /\ UNCHANGED <<tool, models, conns, lines, linkSrc, zoom, width, realized, faults>>

(* restoreZoom(), from the View menu                                       *)
restoreZoom ==
    /\ faults = {} /\ realized
    /\ zoom' = 100 /\ needRedraw' = TRUE
    /\ UNCHANGED <<tool, models, conns, lines, hl, linkSrc, width, realized, faults>>

(* drawHighlightConnection(): reads mLines[mHighlightLine] and            *)
(* mText[mHighlightLine] with no bound check                               *)
drawHighlightConnection ==
    faults' = IF hl # -1 /\ hl >= Len(lines') THEN {"mLines_out_of_range"}
              ELSE {}

\* mutant of draw: mLines kept from the previous draw()
drawNoRecompute ==
    /\ lines' = lines
    /\ drawHighlightConnection

(* draw(): drawConnection() recomputes mLines (and mText, in the same      *)
(* order), then drawHighlightConnection()                                  *)
draw ==
    /\ lines' = Enumerate(conns)
    /\ drawHighlightConnection

(* on_expose_event(): draw() when mNeedRedraw, which it then clears        *)
on_expose_event ==
    /\ faults = {} /\ realized /\ needRedraw
    /\ draw
    /\ needRedraw' = FALSE
    /\ UNCHANGED <<tool, models, conns, hl, linkSrc, zoom, width, realized>>

(* on_realize(): mIsRealized = true; queueRedraw()                         *)
on_realize ==
    /\ ~realized
    /\ realized' = TRUE /\ needRedraw' = TRUE
    /\ UNCHANGED <<tool, models, conns, lines, hl, linkSrc, zoom, width, faults>>

(* on_configure_event(): when the allocated width exceeds the drawn width  *)
(* mWidth * mZoom, mWidth (and mCurrent's width) become the allocated      *)
(* width; a realized widget gets a new size request and is redrawn         *)
on_configure_event ==
    /\ faults = {}
    /\ \E w \in WinWidths :
          IF w * 100 > width * zoom
          THEN width' = w /\ needRedraw' = (needRedraw \/ realized)
          ELSE UNCHANGED <<width, needRedraw>>
    /\ UNCHANGED <<tool, models, conns, lines, hl, linkSrc, zoom, realized, faults>>

Next ==
    \/ on_realize
    \/ on_configure_event
    \/ \E t \in Tools : selectTool(t)
    \/ on_button_press_event
    \/ on_button_release_event
    \/ on_motion_notify_event
    \/ restoreZoom
    \/ on_expose_event

Spec == Init /\ [][Next]_vars

-----------------------------------------------------------------------------
TypeOK ==
    /\ tool \in Tools
    /\ models \subseteq Models
    /\ conns \subseteq Conns
    /\ lines \in Seq(Conns)
    /\ hl \in -1..Cardinality(Conns)
    /\ linkSrc \in Models \cup {Cur, NULL}
    /\ zoom \in 10..450
    /\ needRedraw \in BOOLEAN
    /\ width \in WinWidths \cup {450} /\ realized \in BOOLEAN
    /\ faults \subseteq {"mLines_out_of_range"}

(* Every division by mZoom in the mouse handlers (event->x / mZoom) is     *)
(* defined: no sequence of frame selections and zoom buttons brings the    *)
(* factor to zero.                                                         *)
ZoomPositive == zoom >= 10

(* Whenever no redraw is pending the lines on screen are those of the     *)
(* graph: every handler that changes the connections or the children of   *)
(* mCurrent queues a redraw, and draw() recomputes mLines from the graph.  *)
LinesCurrent == realized /\ ~needRedraw => lines = Enumerate(conns)

(* The values the handlers keep stay within what they assume.  A resize    *)
(* of the window (on_configure_event) only ever enlarges the coupled model *)
(* to the window, never shrinks mWidth.  The zoom factor never exceeds     *)
(* ZOOM_MAX: addCoefZoom() and selectZoom() both clamp to ZOOM_MAX = 4.0.  Every use of mHighlightLine designates the    *)
(* connection highlighted on screen: drawHighlightConnection() reads       *)
(* mLines[mHighlightLine] only inside the lines draw() has just computed,  *)
(* and a click on empty space in DELETE mode (delConnection()) deletes the *)
(* connection drawn at that index, and no other.                           *)
DrawingStateValid ==
    [][ /\ width' >= width
        /\ zoom' <= ZOOM_MAX
        /\ faults' = {}
        /\ (models' = models /\ conns' # conns /\ conns' \subseteq conns)
              => conns \ conns' = {lines[hl + 1]} ]_vars
====

-------------------------- MODULE RootCoordinator --------------------------
(***************************************************************************)
(* The simulation driver of vle::devs (src/src/vle/devs/RootCoordinator.cpp)*)
(* together with the Coordinator it owns.                                  *)
(*                                                                         *)
(* RootCoordinator keeps two owning raw pointers, m_coordinator and m_root,*)
(* deletes them in load(), finish() and its destructor, and forwards the   *)
(* step-wise run() to the Coordinator.  Pointers are modelled as object    *)
(* identities drawn from a bounded pool; `freed' holds the objects already *)
(* deleted, so a second delete or a use of a deleted object is recorded in *)
(* `faults' instead of being silently allowed.                             *)
(*                                                                         *)
(* The Coordinator (Coordinator.cpp is not part of the sources) is modelled*)
(* from spec.md 4.2: one next-event time per simulator, the step executes  *)
(* every simulator due at the minimal time and the receivers of their      *)
(* outputs, and an event view and a finish view accumulate rows.          *)
(* The experiment's begin/duration are read through vpz::Experiment, whose *)
(* accessors throw when the simulation-engine condition is missing.        *)
(***************************************************************************)
EXTENDS Integers, Sequences, FiniteSets, FiniteSetsExt

CONSTANTS
    Simulators,   \* atomic models a configuration may contain
    Configs,      \* the vpz files the caller may load (records, see ConfigOK)
    TaInit,       \* time advances a simulator may start with
    TaChoices,    \* time advances a transition may compute (Infinity: never)
    Infinity,     \* the value of devs::infinity, larger than every reachable time
    MaxObjs,      \* bound on heap objects (two per successful load)
    NULL          \* the null pointer

ASSUME NULL \notin Nat /\ Infinity \in Nat
ASSUME TaInit \subseteq Nat /\ TaChoices \subseteq Nat

\* A configuration: kind says where loading it throws ("ok": nowhere,
\* "noEngine": Experiment::begin() finds no simulation-engine condition,
\* "badGraph": Coordinator::init rejects the model graph).
ConfigOK ==
    \A c \in Configs :
        /\ c.kind \in {"ok", "noEngine", "badGraph"}
        /\ c.begin \in Nat /\ c.duration \in Nat
        /\ c.sims \subseteq Simulators
        /\ c.conn \subseteq c.sims \X c.sims
ASSUME ConfigOK

Objs == 1..MaxObjs
Ptr == Objs \cup {NULL}

VARIABLES
    coordinator,  \* m_coordinator
    root,         \* m_root
    beginT,       \* m_begin
    endT,         \* m_end
    currentTime,  \* m_currentTime
    result,       \* m_result: NULL or the views captured by finish()
    freed,        \* objects already deleted
    nextObj,      \* next fresh heap object
    faults,       \* undefined behaviours that happened
    alive,        \* the RootCoordinator object itself has not been destroyed
    \* state of the Coordinator object m_coordinator points to
    conn,         \* internal connections of its model graph
    tn,           \* simulator -> time of its next internal event
    ctime,        \* time of the Coordinator's last step
    views,        \* [event |-> row times, finish |-> row times]
    \* observation of the caller
    lastStep,     \* time of the last Coordinator step since load, or NULL
    firstStep,    \* time of the first Coordinator step since load, or NULL
    rewound       \* init() was called and no step has run since

coordVars == <<conn, tn, ctime, views>>
vars == <<coordinator, root, beginT, endT, currentTime, result, freed, nextObj,
          faults, alive, coordVars, lastStep, firstStep, rewound>>

Time == 0..Infinity
NoViews == [event |-> <<>>, finish |-> <<>>]

-----------------------------------------------------------------------------
(* vpz::Experiment::begin() / duration(): both throw ArgError when the      *)
(* simulation-engine condition does not exist.                             *)
ExperimentThrows(c) == c.kind = "noEngine"

(* delete p on every p of ps: deleting NULL is a no-op ...                *)
\* mutant of Delete: a null pointer treated as an object to release
DeleteNullToo(ps) == freed' = freed \cup ps

Delete(ps) == freed' = freed \cup (ps \ {NULL})

(* ... and deleting an object twice is undefined behaviour.                *)
DoubleFree(ps) == IF (ps \ {NULL}) \cap freed # {} THEN {"double_free"} ELSE {}

(* a member function called through a pointer to a deleted object *)
UseOf(p) == IF p \in freed THEN {"use_after_free"} ELSE {}

\* mutant of Advance: the time advance taken as an absolute date
AdvanceAbsolute(t, ta) == IF ta = Infinity THEN Infinity ELSE ta

\* a transition schedules the next internal event ta after the current time
Advance(t, ta) == IF ta = Infinity THEN Infinity ELSE t + ta

-----------------------------------------------------------------------------
(* Coordinator (spec.md 4.2)                                               *)

\* Coordinator::getCurrentTime(): minimal next-event time, +inf if none.
CoordTime ==
    IF DOMAIN tn = {} THEN Infinity ELSE Min({tn[s] : s \in DOMAIN tn})

\* Coordinator::init: one simulator per atomic model, first event at
\* begin + ta; views start empty.
CoordinatorInit(c, t) ==
    /\ conn' = c.conn
    /\ tn' \in [c.sims -> {Advance(t, d) : d \in TaInit}]
    /\ ctime' = t
    /\ views' = NoViews

\* Coordinator::run: the simulators due at t and the receivers of their
\* outputs (internal, confluent or external transition) each compute a new
\* time advance; the event view writes its row for t, appending only when t
\* is later than the last row.
CoordinatorRun ==
    LET t     == CoordTime
        due   == {s \in DOMAIN tn : tn[s] = t}
        recv  == {d \in DOMAIN tn : \E s \in due : <<s, d>> \in conn}
        touch == due \cup recv
    IN  /\ \E ta \in [touch -> TaChoices] :
               tn' = [s \in DOMAIN tn |->
                        IF s \in touch THEN Advance(t, ta[s]) ELSE tn[s]]
        /\ ctime' = t
        /\ views' = [views EXCEPT !.event =
                        IF @ = <<>> \/ t > @[Len(@)] THEN Append(@, t) ELSE @]
        /\ UNCHANGED conn

\* Coordinator::finish: the finish view observes once, at the current time.
CoordinatorFinish ==
    /\ views' = [views EXCEPT !.finish = <<ctime>>]
    /\ UNCHANGED <<conn, tn, ctime>>

-----------------------------------------------------------------------------
(* RootCoordinator                                                          *)

Init ==
    /\ coordinator = NULL /\ root = NULL
    /\ beginT = 0 /\ endT = 1 /\ currentTime = 0
    /\ result = NULL
    /\ freed = {} /\ nextObj = 1 /\ faults = {} /\ alive = TRUE
    /\ conn = {} /\ tn = <<>> /\ ctime = 0 /\ views = NoViews
    /\ lastStep = NULL /\ firstStep = NULL /\ rewound = FALSE

\* load(io): delete the previous coordinator and root, read begin/duration,
\* allocate a new Coordinator, init it, then take the root model.  Each of
\* the three reads/calls after the deletes may throw and abort the rest.
load(c) ==
    /\ alive /\ faults = {}
    /\ nextObj + 1 <= MaxObjs
    /\ IF coordinator # NULL
       THEN /\ Delete({coordinator, root})
            /\ faults' = DoubleFree({coordinator, root})
       ELSE UNCHANGED <<freed, faults>>
    /\ IF ExperimentThrows(c)
       THEN UNCHANGED <<coordinator, root, beginT, endT, currentTime,
                        nextObj, coordVars, lastStep, firstStep, rewound>>
       ELSE /\ beginT' = c.begin
            /\ endT' = c.begin + c.duration
            /\ currentTime' = c.begin
            /\ coordinator' = nextObj
            /\ lastStep' = NULL /\ firstStep' = NULL /\ rewound' = FALSE
            /\ CoordinatorInit(c, c.begin)
            /\ IF c.kind = "badGraph"
               THEN /\ nextObj' = nextObj + 1
                    /\ root' = root
               ELSE /\ root' = nextObj + 1
                    /\ nextObj' = nextObj + 2
    /\ UNCHANGED <<result, alive>>

\* init(): rewind m_currentTime, nothing else.
init ==
    /\ alive /\ faults = {}
    /\ currentTime' = beginT
    /\ rewound' = TRUE
    /\ UNCHANGED <<coordinator, root, beginT, endT, result, freed, nextObj,
                   faults, alive, coordVars, lastStep, firstStep>>

\* mutant of run: the end-of-experiment test dropped
runNoEndCheck ==
    /\ alive /\ faults = {}
    /\ IF coordinator = NULL
       THEN /\ faults' = {"null_deref"}
            /\ UNCHANGED <<currentTime, coordVars, lastStep, firstStep,
                             rewound>>
       ELSE LET t == CoordTime IN
            /\ faults' = UseOf(coordinator)
            /\ currentTime' = t
            /\ IF t = Infinity
               THEN UNCHANGED <<coordVars, lastStep, firstStep, rewound>>
               ELSE /\ CoordinatorRun
                    /\ lastStep' = t /\ rewound' = FALSE
                    /\ firstStep' = IF firstStep = NULL THEN t ELSE firstStep
    /\ UNCHANGED <<coordinator, root, beginT, endT, result, freed, nextObj,
                   alive>>

\* run(): read the Coordinator's time, stop when it is infinite or past the
\* end, otherwise let the Coordinator take one step.
run ==
    /\ alive /\ faults = {}
    /\ IF coordinator = NULL
       THEN /\ faults' = {"null_deref"}
            /\ UNCHANGED <<currentTime, coordVars, lastStep, firstStep,
                             rewound>>
       ELSE LET t == CoordTime IN
            /\ faults' = UseOf(coordinator)
            /\ currentTime' = t
            /\ IF t = Infinity \/ endT - t < 0
               THEN UNCHANGED <<coordVars, lastStep, firstStep, rewound>>
               ELSE /\ CoordinatorRun
                    /\ lastStep' = t /\ rewound' = FALSE
                    /\ firstStep' = IF firstStep = NULL THEN t ELSE firstStep
    /\ UNCHANGED <<coordinator, root, beginT, endT, result, freed, nextObj,
                   alive>>

\* mutants of finish: m_coordinator not reset after the delete, and the
\* views taken before Coordinator::finish flushed the finish views
finishNoReset ==
    /\ alive /\ faults = {}
    /\ IF coordinator # NULL
       THEN /\ CoordinatorFinish
            /\ result' = views'
       ELSE UNCHANGED <<coordVars, result>>
    /\ UNCHANGED coordinator
    /\ root' = NULL
    /\ Delete({coordinator, root})
    /\ faults' = UseOf(coordinator) \cup DoubleFree({coordinator, root})
    /\ UNCHANGED <<beginT, endT, currentTime, nextObj, alive, lastStep,
                   firstStep, rewound>>

finishResultFirst ==
    /\ alive /\ faults = {}
    /\ IF coordinator # NULL
       THEN /\ CoordinatorFinish
            /\ result' = views
            /\ coordinator' = NULL
       ELSE UNCHANGED <<coordVars, result, coordinator>>
    /\ root' = NULL
    /\ Delete({coordinator, root})
    /\ faults' = UseOf(coordinator) \cup DoubleFree({coordinator, root})
    /\ UNCHANGED <<beginT, endT, currentTime, nextObj, alive, lastStep,
                   firstStep, rewound>>

\* finish(): finish and delete the coordinator, keeping its views as the
\* result, then delete the root model.
finish ==
    /\ alive /\ faults = {}
    /\ IF coordinator # NULL
       THEN /\ CoordinatorFinish
            /\ result' = views'
            /\ coordinator' = NULL
       ELSE UNCHANGED <<coordVars, result, coordinator>>
    /\ root' = NULL
    /\ Delete({coordinator, root})
    /\ faults' = UseOf(coordinator) \cup DoubleFree({coordinator, root})
    /\ UNCHANGED <<beginT, endT, currentTime, nextObj, alive, lastStep,
                   firstStep, rewound>>

\* outputs(): a copy of the live views, or hand over m_result (moved out).
outputs ==
    /\ alive /\ faults = {}
    /\ IF coordinator # NULL
       THEN /\ faults' = UseOf(coordinator)
            /\ UNCHANGED result
       ELSE /\ result' = NULL
            /\ UNCHANGED faults
    /\ UNCHANGED <<coordinator, root, beginT, endT, currentTime, freed,
                   nextObj, alive, coordVars, lastStep, firstStep, rewound>>

\* ~RootCoordinator(): delete both pointers.
destroy ==
    /\ alive /\ faults = {}
    /\ Delete({coordinator, root})
    /\ faults' = DoubleFree({coordinator, root})
    /\ alive' = FALSE
    /\ UNCHANGED <<coordinator, root, beginT, endT, currentTime, result,
                   nextObj, coordVars, lastStep, firstStep, rewound>>

Next ==
    \/ \E c \in Configs : load(c)
    \/ init
    \/ run
    \/ finish
    \/ outputs
    \/ destroy

Spec == Init /\ [][Next]_vars


-----------------------------------------------------------------------------
(* Properties                                                              *)

ViewsType == [event : Seq(Time), finish : Seq(Time)]

TypeOK ==
    /\ coordinator \in Ptr /\ root \in Ptr
    /\ beginT \in Nat /\ endT \in Nat /\ currentTime \in Time
    /\ result \in ViewsType \cup {NULL}
    /\ freed \subseteq Objs /\ nextObj \in 1..MaxObjs + 1
    /\ faults \subseteq {"double_free", "use_after_free", "null_deref"}
    /\ alive \in BOOLEAN
    /\ conn \subseteq Simulators \X Simulators
    /\ tn \in [DOMAIN tn -> Time] /\ DOMAIN tn \subseteq Simulators
    /\ ctime \in Time /\ views \in ViewsType
    /\ lastStep \in Time \cup {NULL}
    /\ firstStep \in Time \cup {NULL}
    /\ rewound \in BOOLEAN

\* Memory safety of the owning pointers: whatever sequence of load(), init(),
\* run(), finish(), outputs() and destruction the caller makes, no object is
\* deleted twice and no member function is called on a deleted Coordinator
\* (RootCoordinator::load, finish, ~RootCoordinator).
NoUseOfFreedObject == faults \cap {"double_free", "use_after_free"} = {}

\* Refinement mapping: the Coordinator pointer says whether an experiment is
\* loaded, the window is [m_begin, m_end], the simulation clock is the time
\* of the Coordinator's last step and the event rows are its event view.
Sim == INSTANCE Simulation WITH
           loaded <- coordinator # NULL,
           window <- <<beginT, endT>>,
           clock  <- lastStep,
           rows   <- views.event,
           Windows <- {<<c.begin, c.begin + c.duration>> : c \in Configs}

\* RootCoordinator implements the abstract simulation: run() lets the
\* Coordinator step only inside [begin, begin + duration] of the experiment
\* loaded last, never at a time earlier than its previous step (spec.md 8),
\* and finish() hands over the event rows together with the finish row the
\* Coordinator flushed at the time it reached.
ImplementsSimulation == Sim!Spec

\* After init() the loaded configuration is simulated again from its
\* start: the first step run() takes after init() is at the time of the
\* first step after load() (spec.md 4.1: init() "supports re-running the
\* same loaded configuration").
InitRestartsRun ==
    [][rewound /\ firstStep # NULL /\ lastStep' # lastStep
         /\ coordinator' = coordinator
         => lastStep' = firstStep]_vars

=============================================================================

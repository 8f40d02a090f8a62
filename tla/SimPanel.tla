------------------------------ MODULE SimPanel ------------------------------
(***************************************************************************)
(* gvle::DefaultSimSubpanel: the simulation panel of the GUI.  The GUI     *)
(* thread runs the slots one at a time (Qt event loop); onRunPressed()     *)
(* moves a fresh DefaultSimSubpanelThread object to a QThread whose        *)
(* onStarted() runs the simulation and fills output_map, then emits        *)
(* simulationFinished(), a queued signal handled later on the GUI thread.  *)
(*                                                                         *)
(* Heap objects: sim_process object r and the result map it produced are  *)
(* both named by the run number r.  The tree of views shows the rows       *)
(* ResultRows (one view row, its port rows) after a successful run.        *)
(* updateCustomPlot() is split where the GUI thread reads the pointer and  *)
(* where it dereferences it, since the simulation thread may run between.*)
(***************************************************************************)
EXTENDS Naturals, FiniteSets

CONSTANTS
    Ports,          \* port rows of the tree (view name, port name)
    ViewRow,        \* the view row above them (portName == "")
    ParseOutcomes,  \* what new vpz::Vpz(...) and the output loop may do
    SimOutcomes,    \* what manager::Simulation::run may return
    MaxRuns,        \* bound on the number of simulations started
    NULL

ASSUME ParseOutcomes \subseteq {"ok", "saxError", "otherError"}
ASSUME SimOutcomes \subseteq {"ok", "errorWithMap", "errorNoMap"}
ASSUME MaxRuns \in Nat /\ NULL \notin Ports \cup {ViewRow}

Runs == 1..MaxRuns
ResultRows == Ports \cup {ViewRow}

VARIABLES
    \* GUI thread: the DefaultSimSubpanel object and its widgets
    alive,        \* the panel has not been destroyed
    button,       \* runButton enabled
    styleVisible, \* widSimStyle (with butSimColor) visible
    items,        \* rows of treeSimViews
    checked,      \* port rows whose check box is checked
    current,      \* treeSimViews->currentItem(), or NULL
    portsToPlot,  \* the vector portsToPlot (no duplicates: addPortToPlot)
    dialog,       \* port whose QColorDialog::exec() is open, or NULL
    snap,         \* map pointer read by updateCustomPlot, not yet used
    simProcess,   \* sim_process, or NULL
    thread,       \* thread != 0
    pending,      \* a queued simulationFinished() not yet delivered
    \* the DefaultSimSubpanelThread objects, indexed by run
    runs,         \* number of objects created
    outputMap,    \* output_map of object r: r or NULL
    errorSimu,    \* error_simu of object r is not empty
    freedProc,    \* objects deleted
    freedMap,     \* result maps deleted
    madeMaps,     \* result maps allocated by Simulation::run
    \* simulation thread, running onStarted() on object wrun
    wpc,          \* program counter of onStarted()
    wrun,         \* object whose onStarted() runs, or NULL
    vpz,          \* local vpz != 0
    manerr,       \* local manerror.code != 0
    \* observation
    raceRead,     \* GUI read output_map while the current run's thread ran
    raceWrite,    \* the current run's thread wrote output_map
    faults        \* undefined behaviours that happened

guiVars == <<alive, button, styleVisible, items, checked, current,
             portsToPlot, dialog, snap, simProcess, thread, pending>>
procVars == <<runs, outputMap, errorSimu, freedProc, freedMap, madeMaps>>
workerVars == <<wpc, wrun, vpz, manerr>>
vars == <<guiVars, procVars, workerVars, raceRead, raceWrite, faults>>

-----------------------------------------------------------------------------
(* a member of the object r used after delete                              *)
UseOfProc(r) == IF r \in freedProc THEN {"use_after_free"} ELSE {}

(* the map behind sim_process->output_map, or NULL                         *)
CurrentMap == IF simProcess = NULL THEN NULL ELSE outputMap[simProcess]

(* the thread of the current run is between thread->start() and the       *)
(* delivery of simulationFinished(): its accesses are unordered with the   *)
(* GUI thread's                                                            *)
WorkerUnjoined == wpc # "idle"

(* getPortToPlot(view, port) != 0                                          *)
getPortToPlot(p) == p \in portsToPlot

(* onTreeItemSelected(): the style widget is shown for a checked port row, *)
(* after port->color is read through getPortToPlot(), which may be 0.      *)
SelectedVisible(cur, chk) == cur \in Ports /\ cur \in chk
SelectedFault(cur, chk, ptp) ==
    IF SelectedVisible(cur, chk) /\ cur \notin ptp THEN {"null_port"} ELSE {}

(* updateCustomPlot(), first part: return unless sim_process and its       *)
(* output_map are set; otherwise the pointer is read for plotting.         *)
UpdatePlotRead ==
    /\ snap' = IF simProcess = NULL THEN NULL ELSE CurrentMap
    /\ raceRead' = (raceRead \/ (simProcess # NULL /\ WorkerUnjoined))

-----------------------------------------------------------------------------
(* constructor and init(vpm, pkg, log), which calls onTreeItemSelected()   *)
Init ==
    /\ alive = TRUE /\ button = TRUE /\ styleVisible = FALSE
    /\ items = {} /\ checked = {} /\ current = NULL /\ portsToPlot = {}
    /\ dialog = NULL /\ snap = NULL /\ simProcess = NULL /\ thread = FALSE
    /\ pending = FALSE
    /\ runs = 0 /\ outputMap = [r \in Runs |-> NULL]
    /\ errorSimu = [r \in Runs |-> FALSE]
    /\ freedProc = {} /\ freedMap = {} /\ madeMaps = {}
    /\ wpc = "idle" /\ wrun = NULL /\ vpz = FALSE /\ manerr = FALSE
    /\ raceRead = FALSE /\ raceWrite = FALSE /\ faults = {}

(* GUI events are handled only between slots, while no modal dialog runs *)
GuiIdle == alive /\ faults = {} /\ snap = NULL /\ dialog = NULL

(* delete sim_process: ~DefaultSimSubpanelThread() deletes its output_map *)
DeleteProc(r) ==
    /\ freedProc' = freedProc \cup ({r} \ {NULL})
    /\ freedMap' = IF r # NULL /\ outputMap[r] # NULL
                   THEN freedMap \cup {outputMap[r]} ELSE freedMap
-----------------------------------------------------------------------------
(* delete thread: destroying a QThread that still runs aborts the program *)
DeleteThread ==
    IF thread /\ WorkerUnjoined THEN {"running_thread_deleted"} ELSE {}

(* mutant of onRunPressed: the run button left enabled                    *)
onRunPressedKeepsButton ==
    /\ GuiIdle /\ button /\ runs < MaxRuns
    /\ styleVisible' = FALSE /\ portsToPlot' = {}
    /\ DeleteProc(simProcess)
    /\ runs' = runs + 1 /\ simProcess' = runs + 1 /\ thread' = TRUE
    /\ wpc' = "start" /\ wrun' = runs + 1
    /\ raceRead' = FALSE /\ raceWrite' = FALSE
    /\ faults' = DeleteThread
    /\ UNCHANGED <<alive, button, items, checked, current, dialog, snap,
                   pending, outputMap, errorSimu, madeMaps, vpz, manerr>>

(* onRunPressed(): disable the button, hide the style widget, empty        *)
(* portsToPlot (the tree is left as it is), replace sim_process by a fresh *)
(* object, delete thread and start a new one on the object's onStarted(). *)
onRunPressed ==
    /\ GuiIdle /\ button /\ runs < MaxRuns
    /\ button' = FALSE /\ styleVisible' = FALSE /\ portsToPlot' = {}
    /\ DeleteProc(simProcess)
    /\ runs' = runs + 1
    /\ simProcess' = runs + 1
    /\ thread' = TRUE
    /\ wpc' = "start" /\ wrun' = runs + 1
    /\ raceRead' = FALSE /\ raceWrite' = FALSE
    /\ faults' = DeleteThread
    /\ UNCHANGED <<alive, items, checked, current, dialog, snap, pending,
                   outputMap, errorSimu, madeMaps, vpz, manerr>>

(* addPortToPlot(view, port): appended unless already there (one entry    *)
(* per port, so the vector is a set)                                       *)
addPortToPlot(ptp, p) == ptp \cup {p}

(* removePortToPlot(view, port): the (only) entry of the port is erased    *)
removePortToPlot(ptp, p) == ptp \ {p}

(* onTreeItemChanged(item): the user toggles the check box of a port row; *)
(* addPortToPlot or removePortToPlot (each calling onTreeItemSelected()),  *)
(* then updateCustomPlot().                                                *)
onTreeItemChanged(p) ==
    /\ GuiIdle /\ p \in items \cap Ports
    /\ LET chk == IF p \in checked THEN checked \ {p} ELSE checked \cup {p}
           ptp == IF p \in chk THEN addPortToPlot(portsToPlot, p)
                  ELSE removePortToPlot(portsToPlot, p)
       IN /\ checked' = chk /\ portsToPlot' = ptp
          /\ IF p \in chk /\ p \in portsToPlot
             THEN UNCHANGED <<styleVisible, faults>> \* addPortToPlot: return
             ELSE /\ styleVisible' = SelectedVisible(current, chk)
                  /\ faults' = SelectedFault(current, chk, ptp)
    /\ UpdatePlotRead
    /\ UNCHANGED <<alive, button, items, current, dialog, simProcess, thread,
                   pending, procVars, workerVars, raceWrite>>

(* the user selects a row: itemSelectionChanged -> onTreeItemSelected()   *)
onTreeItemSelected(i) ==
    /\ GuiIdle /\ i \in items /\ i # current
    /\ current' = i
    /\ styleVisible' = SelectedVisible(i, checked)
    /\ faults' = SelectedFault(i, checked, portsToPlot)
    /\ UNCHANGED <<alive, button, items, checked, portsToPlot, dialog, snap,
                   simProcess, thread, pending, procVars, workerVars,
                   raceRead, raceWrite>>

(* updateCustomPlot(), second part: *sim_process->output_map is read for   *)
(* every port to plot.  Whether the compiler reloads the pointer read by   *)
(* the test or reuses it is up to the build (the access is a data race).   *)
plotResults ==
    /\ alive /\ faults = {} /\ snap # NULL
    /\ \E m \in {snap, CurrentMap} :
          faults' = IF m = NULL THEN {"null_deref"}
                    ELSE IF m \in freedMap THEN {"use_after_free"} ELSE {}
    /\ snap' = NULL
    /\ raceRead' = (raceRead \/ WorkerUnjoined)
    /\ UNCHANGED <<alive, button, styleVisible, items, checked, current,
                   portsToPlot, dialog, simProcess, thread, pending,
                   procVars, workerVars, raceWrite>>

(* onToolColor(): item = currentItem() is dereferenced; for a port row a   *)
(* modal QColorDialog is executed.                                         *)
onToolColor ==
    /\ GuiIdle /\ styleVisible
    /\ faults' = IF current = NULL THEN {"null_item"} ELSE {}
    /\ dialog' = IF current \in Ports THEN current ELSE NULL
    /\ UNCHANGED <<alive, button, styleVisible, items, checked, current,
                   portsToPlot, snap, simProcess, thread, pending, procVars,
                   workerVars, raceRead, raceWrite>>

(* colorDialog->exec() returns: on acceptance the colour is stored through *)
(* getPortToPlot(), then onTreeItemSelected() and updateCustomPlot().      *)
colorChosen(accept) ==
    /\ alive /\ faults = {} /\ dialog # NULL /\ snap = NULL
    /\ dialog' = NULL
    /\ IF accept
       THEN /\ styleVisible' = SelectedVisible(current, checked)
            /\ faults' = IF getPortToPlot(dialog) THEN
                            SelectedFault(current, checked, portsToPlot)
                         ELSE {"null_port"}
            /\ UpdatePlotRead
       ELSE UNCHANGED <<styleVisible, faults, snap, raceRead>>
    /\ UNCHANGED <<alive, button, items, checked, current, portsToPlot,
                   simProcess, thread, pending, procVars, workerVars,
                   raceWrite>>
(* mutant of onSimulationFinished: currentItem kept across the clear()    *)
onSimulationFinishedStaleCurrent ==
    /\ alive /\ faults = {} /\ pending /\ snap = NULL
    /\ pending' = FALSE
    /\ items' = IF ~errorSimu[simProcess] /\ outputMap[simProcess] # NULL
                THEN ResultRows ELSE {}
    /\ checked' = {}
    /\ wpc' = "idle" /\ wrun' = NULL /\ thread' = FALSE
    /\ button' = TRUE
    /\ UNCHANGED <<alive, styleVisible, current, portsToPlot, dialog, snap,
                   simProcess, procVars, vpz, manerr, raceRead, raceWrite,
                   faults>>

(* onSimulationFinished(), delivered by the GUI event loop (also inside a  *)
(* running colorDialog->exec()): with signals blocked, the tree is cleared *)
(* and rebuilt from output_map unless error_simu is set; updateCustomPlot()*)
(* (the thread has emitted, so this read is ordered after its writes);     *)
(* thread->quit(), wait(), delete; the button is enabled again.            *)
onSimulationFinished ==
    /\ alive /\ faults = {} /\ pending /\ snap = NULL
    /\ pending' = FALSE
    /\ items' = IF ~errorSimu[simProcess] /\ outputMap[simProcess] # NULL
                THEN ResultRows ELSE {}
    /\ checked' = {} /\ current' = NULL
    /\ wpc' = "idle" /\ wrun' = NULL /\ thread' = FALSE
    /\ button' = TRUE
    /\ UNCHANGED <<alive, styleVisible, portsToPlot, dialog, snap, simProcess,
                   procVars, vpz, manerr, raceRead, raceWrite, faults>>

(* ~DefaultSimSubpanel(): delete left, right and sim_process, and only     *)
(* then thread->quit() and thread->wait(); a queued simulationFinished()   *)
(* for the destroyed panel is dropped.                                     *)
destroy ==
    /\ GuiIdle
    /\ alive' = FALSE /\ pending' = FALSE
    /\ DeleteProc(simProcess)
    /\ UNCHANGED <<button, styleVisible, items, checked, current, portsToPlot,
                   dialog, snap, simProcess, thread, runs, outputMap,
                   errorSimu, madeMaps, workerVars, raceRead, raceWrite,
                   faults>>

-----------------------------------------------------------------------------
(* onStarted(), lines up to the try block: a fresh local manerror (code  *)
(* 0), delete output_map (still 0), new vpz::Vpz(file) and the default     *)
(* output locations; only SaxParserError is caught, anything else escapes *)
(* the slot.                                                               *)
workerParse(o) ==
    /\ faults = {} /\ wpc = "start"
    /\ faults' = UseOfProc(wrun) \cup
                 (IF o = "otherError" THEN {"uncaught_exception"} ELSE {})
    /\ vpz' = (o = "ok")
    /\ manerr' = FALSE
    /\ errorSimu' = [errorSimu EXCEPT ![wrun] = @ \/ o = "saxError"]
    /\ wpc' = "parsed"
    /\ UNCHANGED <<guiVars, runs, outputMap, freedProc, freedMap, madeMaps,
                   wrun, raceRead, raceWrite>>

(* if (vpz) output_map = sim.run(vpz, modules, &manerror)                  *)
workerRun(o) ==
    /\ faults = {} /\ wpc = "parsed"
    /\ faults' = UseOfProc(wrun)
    /\ IF vpz
       THEN /\ outputMap' = [outputMap EXCEPT ![wrun] =
                                IF o = "errorNoMap" THEN NULL ELSE wrun]
            /\ madeMaps' = IF o = "errorNoMap" THEN madeMaps
                           ELSE madeMaps \cup {wrun}
            /\ manerr' = (o # "ok")
            /\ raceWrite' = TRUE
       ELSE UNCHANGED <<outputMap, madeMaps, manerr, raceWrite>>
    /\ wpc' = "ran"
    /\ UNCHANGED <<guiVars, runs, errorSimu, freedProc, freedMap, wrun, vpz,
                   raceRead>>

(* mutant of workerDeleteMap: the map is dropped without delete          *)
workerDeleteMapNoFree ==
    /\ faults = {} /\ wpc = "ran" /\ manerr
    /\ faults' = UseOfProc(wrun)
    /\ errorSimu' = [errorSimu EXCEPT ![wrun] = TRUE]
    /\ wpc' = "deleted"
    /\ UNCHANGED <<guiVars, runs, outputMap, freedProc, freedMap, madeMaps,
                   wrun, vpz, manerr, raceRead, raceWrite>>

(* if (manerror.code != 0): error_simu = ...; delete output_map; ...       *)
workerDeleteMap ==
    /\ faults = {} /\ wpc = "ran" /\ manerr
    /\ faults' = UseOfProc(wrun)
    /\ errorSimu' = [errorSimu EXCEPT ![wrun] = TRUE]
    /\ freedMap' = freedMap \cup ({outputMap[wrun]} \ {NULL})
    /\ wpc' = "deleted"
    /\ UNCHANGED <<guiVars, runs, outputMap, freedProc, madeMaps, wrun, vpz,
                   manerr, raceRead, raceWrite>>

(* ... output_map = 0                                                      *)
workerResetMap ==
    /\ faults = {} /\ wpc = "deleted"
    /\ faults' = UseOfProc(wrun)
    /\ outputMap' = [outputMap EXCEPT ![wrun] = NULL]
    /\ raceWrite' = TRUE
    /\ wpc' = "done"
    /\ UNCHANGED <<guiVars, runs, errorSimu, freedProc, freedMap, madeMaps,
                   wrun, vpz, manerr, raceRead>>

(* mutant of workerEmit: the error path returns without emitting         *)
workerEmitOnSuccess ==
    /\ faults = {} /\ wpc = "ran" /\ ~manerr
    /\ faults' = UseOfProc(wrun)
    /\ pending' = alive
    /\ wpc' = "emitted"
    /\ UNCHANGED <<alive, button, styleVisible, items, checked, current,
                   portsToPlot, dialog, snap, simProcess, thread, procVars,
                   wrun, vpz, manerr, raceRead, raceWrite>>

(* emit simulationFinished(): queued for the GUI thread, or dropped if the *)
(* panel is gone (the sender itself may be a deleted object)               *)
workerEmit ==
    /\ faults = {} /\ ((wpc = "ran" /\ ~manerr) \/ wpc = "done")
    /\ faults' = UseOfProc(wrun)
    /\ pending' = alive
    /\ wpc' = "emitted"
    /\ UNCHANGED <<alive, button, styleVisible, items, checked, current,
                   portsToPlot, dialog, snap, simProcess, thread, procVars,
                   wrun, vpz, manerr, raceRead, raceWrite>>

-----------------------------------------------------------------------------
Worker ==
    \/ \E o \in ParseOutcomes : workerParse(o)
    \/ \E o \in SimOutcomes : workerRun(o)
    \/ workerDeleteMap \/ workerResetMap \/ workerEmit

Next ==
    \/ onRunPressed
    \/ \E p \in Ports : onTreeItemChanged(p)
    \/ \E i \in ResultRows : onTreeItemSelected(i)
    \/ plotResults
    \/ onToolColor
    \/ \E a \in BOOLEAN : colorChosen(a)
    \/ onSimulationFinished
    \/ destroy
    \/ Worker

Spec == Init /\ [][Next]_vars

(* The simulation thread runs to its end and the GUI thread finishes a    *)
(* slot it started.  A queued signal is only deliverable between slots,   *)
(* but the event loop processes the posted events on each of its returns, *)
(* so user input cannot postpone it forever: strong fairness.  User       *)
(* actions are unfair.                                                    *)
FairSpec ==
    /\ Spec
    /\ WF_vars(Worker)
    /\ SF_vars(onSimulationFinished)
    /\ WF_vars(plotResults)
-----------------------------------------------------------------------------
(* Properties                                                              *)

TypeOK ==
    /\ alive \in BOOLEAN /\ button \in BOOLEAN /\ styleVisible \in BOOLEAN
    /\ items \subseteq ResultRows /\ checked \subseteq items \cap Ports
    /\ current \in items \cup {NULL} /\ portsToPlot \subseteq Ports
    /\ dialog \in Ports \cup {NULL} /\ snap \in Runs \cup {NULL}
    /\ simProcess \in Runs \cup {NULL} /\ thread \in BOOLEAN
    /\ pending \in BOOLEAN /\ runs \in 0..MaxRuns
    /\ outputMap \in [Runs -> Runs \cup {NULL}]
    /\ errorSimu \in [Runs -> BOOLEAN]
    /\ freedProc \subseteq Runs /\ freedMap \subseteq madeMaps
    /\ madeMaps \subseteq Runs
    /\ wpc \in {"idle", "start", "parsed", "ran", "deleted", "done", "emitted"}
    /\ wrun \in Runs \cup {NULL}
    /\ faults \subseteq {"null_port", "null_item", "null_deref",
                         "use_after_free", "uncaught_exception",
                         "running_thread_deleted"}

(* onRunPressed() never deletes the QThread of a simulation still running *)
(* (nor the object it runs on): the button it disables is enabled again   *)
(* only by onSimulationFinished(), after thread->wait().                  *)
RunningThreadKept == "running_thread_deleted" \notin faults

(* Every DefaultSimSubpanelThread object but sim_process, and every result *)
(* map but the one sim_process->output_map owns, has been deleted: the     *)
(* replacement in onRunPressed() and the error path of onStarted() free    *)
(* what they drop (as long as no undefined behaviour happened).            *)
NothingLeaks ==
    faults = {} =>
    /\ (1..runs) \ freedProc \subseteq {simProcess}
    /\ madeMaps \ freedMap \subseteq {CurrentMap} \ freedProc

(* No undefined behaviour in the panel's two threads: the GUI thread never *)
(* reads sim_process->output_map during a run whose thread writes it       *)
(* (updateCustomPlot() against onStarted()); no pointer it dereferences is *)
(* null or deleted (the 0 that getPortToPlot() returns for a port not in   *)
(* portsToPlot, in onTreeItemSelected() and onToolColor(); a null          *)
(* currentItem() in onToolColor(); sim_process->output_map in              *)
(* updateCustomPlot(); a DefaultSimSubpanelThread the destructor or        *)
(* onRunPressed() deleted); and no exception but SaxParserError escapes    *)
(* the onStarted() slot.                                                   *)
NoUndefinedBehaviour ==
    /\ ~(raceRead /\ raceWrite)
    /\ faults \cap {"null_port", "null_item", "null_deref", "use_after_free",
                    "uncaught_exception"} = {}

(* A started simulation ends with the run button enabled again, unless the *)
(* program crashed or the panel was destroyed.                            *)
RunCompletes ==
    wpc = "start" ~> (button \/ faults # {} \/ ~alive)
====

------------------------------ MODULE Simulation ------------------------------
(***************************************************************************)
(* What a simulation driver promises its caller (spec.md 4.1): a loaded    *)
(* experiment with the window [begin, begin + duration] is simulated by    *)
(* steps that execute inside the window at non-decreasing times; the event *)
(* view keeps one row per distinct step time; finishing hands over the     *)
(* views with the finish row taken at the time the simulation reached.     *)
(* RootCoordinator implements it (MC_RootCoordinator, ImplementsSimulation)*)
(***************************************************************************)
EXTENDS Integers, Sequences

CONSTANTS
    Windows,   \* the [begin, end] pairs the caller may load
    NULL

VARIABLES
    loaded,    \* an experiment is loaded and not yet finished
    window,    \* <<begin, end>> of the experiment loaded last
    clock,     \* time of the last step since the load, NULL before the first
    rows,      \* times of the event view rows
    result     \* NULL, or the views handed over by the last finish

vars == <<loaded, window, clock, rows, result>>

\* the time the simulation has reached: the last step, or the beginning
Reached == IF clock = NULL THEN window[1] ELSE clock

Init ==
    /\ loaded = FALSE
    /\ window \in Nat \X Nat
    /\ clock = NULL /\ rows = <<>> /\ result = NULL

\* a new experiment replaces the loaded one, simulated from its beginning
Load(w) ==
    /\ loaded' = TRUE /\ window' = w
    /\ clock' = NULL /\ rows' = <<>>
    /\ UNCHANGED result

\* one step at time t, inside the window and not before the previous one
Step(t) ==
    /\ loaded
    /\ t \in window[1]..window[2]
    /\ clock = NULL \/ clock <= t
    /\ clock' = t
    /\ rows' = IF rows # <<>> /\ rows[Len(rows)] = t THEN rows ELSE Append(rows, t)
    /\ UNCHANGED <<loaded, window, result>>

\* finishing hands over the event rows with one finish row
Finish ==
    /\ loaded
    /\ loaded' = FALSE
    /\ result' = [event |-> rows, finish |-> <<Reached>>]
    /\ UNCHANGED <<window, clock, rows>>

\* the caller takes the results of a finished simulation
TakeResult ==
    /\ ~loaded
    /\ result' = NULL
    /\ UNCHANGED <<loaded, window, clock, rows>>

Next ==
    \/ \E w \in Windows : Load(w)
    \/ \E t \in window[1]..window[2] : Step(t)
    \/ Finish
    \/ TakeResult

Spec == Init /\ [][Next]_vars
==============================================================================

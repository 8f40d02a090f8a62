------------------------- MODULE MC_RootCoordinator -------------------------
(* Instantiation of RootCoordinator for TLC: two simulators a -> b, a      *)
(* configuration with that graph, one with an empty graph, and (for the    *)
(* failure runs) configurations whose load throws.                         *)
EXTENDS RootCoordinator

CONSTANTS a, b

\* a feeds b; the experiment window is [0, 2]
Pipeline == [kind |-> "ok", begin |-> 0, duration |-> 2,
             sims |-> {a, b}, conn |-> {<<a, b>>}]

\* no atomic model at all: getCurrentTime() is +inf from the start
Empty == [kind |-> "ok", begin |-> 1, duration |-> 1, sims |-> {}, conn |-> {}]

\* the simulation-engine condition was removed (Experiment::clear)
NoEngine == [kind |-> "noEngine", begin |-> 0, duration |-> 0,
             sims |-> {}, conn |-> {}]

\* Coordinator::init rejects the graph (dangling port)
BadGraph == [kind |-> "badGraph", begin |-> 0, duration |-> 2,
             sims |-> {a, b}, conn |-> {<<a, b>>}]

ValidConfigs == {Pipeline, Empty}
AllConfigs == {Pipeline, NoEngine, BadGraph}
=============================================================================

# TLA+ models of the VLE simulation kernel and its tools

This directory holds TLA+ specifications of the parts of VLE (the Virtual
Laboratory Environment, a DEVS simulator) that are in `src/`. There are also
TLC configurations that check them. `PROJECT.json` is the machine-readable
index. It holds:

- the components and their status;
- the runs, with their expected outcome;
- the mutants that show each property can fail;
- the map from every TLA+ definition to the source lines it translates;
- the findings;
- the hazards of the code.

## The system and how its parts interact

| Part | Source | Role |
|------|--------|------|
| RootCoordinator | `src/src/vle/devs/RootCoordinator.cpp` | Drives a simulation. `load()` builds a Coordinator from a `vpz::Project`, `init()`, `run()` (one step per call, the caller loops `while (run())`), `finish()` and `outputs()`. Owns the Coordinator and the root model through raw pointers. |
| Coordinator / Scheduler / Simulators | not in `src/` (spec.md section 4.2) | Event scheduler. It holds a next-event time per simulator. A step processes the simulators due at the minimal time and the receivers of their outputs. It feeds the observation views. |
| Experiment | `src/src/vle/vpz/Experiment.cpp` | Reads `begin`/`duration` from the simulation-engine condition. Throws `ArgError` when that condition is missing. |
| Observation | `RootCoordinator.cpp` (matrices), `vpz/ValueTrame.cpp`, `oov/StreamReader.hpp`, `apps/oov/main.cpp` | Views produce rows: in process, as matrices returned by `outputs()`; over a stream, as trames. |
| gvle simulation panel | `src/src/vle/gvle/DefaultSimSubpanel.cpp` | Runs a simulation on a worker thread while the GUI thread plots `output_map`. |
| gvle drawing area | `src/src/vle/gvle/ViewDrawingArea.cpp` | Zoom factor state machine and highlighted connection index over the model graph; the routing of the connections into lanes and their polylines on screen. |
| Package | `src/src/vle/utils/Package.cpp` | configure/build/install/test/pack/clean of a package through one asynchronous child process (`Spawn`). |
| Tools | `src/src/vle/utils/Tools.cpp` | `format`/`vformat` (growing buffer), `is<bool>`, `to<T>` for bool and the small integer types, and `tokenize`. |

Interactions:

- The driver (the simulation manager, or the gvle worker thread) calls the
  RootCoordinator in the order load, init, run*, finish, outputs.
- The RootCoordinator calls the Experiment and the Coordinator.
- The gvle worker thread writes the matrices that `outputs()` returns into
  `output_map`, which the GUI thread reads.

## Modules

### `RootCoordinator.tla`, instantiated by `MC_RootCoordinator.tla`

**State.** The variables follow the members of the class:

- `coordinator` and `root` stand for `m_coordinator` and `m_root`. They are
  object identities from a bounded pool `Objs`, or `NULL`.
- `beginT`, `endT` and `currentTime` stand for `m_begin`, `m_end` and
  `m_currentTime`.
- `result` stands for `m_result`.

Deleting an object adds it to `freed`. A `delete`, or a call through a
pointer, records a fault in `faults` when it touches a freed object
(`double_free`, `use_after_free`) or a null one (`null_deref`). This makes the
C++ lifetime errors observable without modelling memory.

**Actions.**

- One action per public member: `load(c)`, `init`, `run`, `finish`,
  `outputs`, and `destroy` for the destructor.
- `Init` is the constructor.
- The configuration `c` is a record from the constant set `Configs`. Its
  `kind` is one of:
  - `"ok"`;
  - `"noEngine"`: the Experiment has no simulation-engine condition, so
    `begin()` throws after `load()` has already deleted the old objects;
  - `"badGraph"`: `Coordinator::init` throws after `m_coordinator` has been
    assigned.

**The Coordinator (spec-modelled).** Coordinator.cpp is not in `src/`, so the
Coordinator is modelled from spec.md and marked so in the map:

- `tn`: the next-event time of each simulator, in `Time == 0..Infinity`.
  `Infinity` stands for an infinite time.
- `conn`: the connection relation.
- `ctime`: the Coordinator's current time.
- `views`: the rows of one event view and one finish view.
- A step (`CoordinatorRun`) handles the due simulators and the receivers of
  their outputs. Each gets a new relative time advance from `TaChoices`.
- The event view appends a row only when the time is beyond its last row.

**History variables.** `lastStep`, `firstStep` and `rewound` record history
for the action properties only. No action's guard reads them.

**Properties.**

- `TypeOK`.
- `NoUseOfFreedObject`: no object is deleted twice or used after deletion.
- `ImplementsSimulation` (refinement): RootCoordinator implements the
  abstract specification `Simulation.tla`, which is written from spec.md 4.1
  and 8. Its state is:
  - `loaded`;
  - `window` = [begin, end];
  - `clock`, the time of the last step;
  - `rows`, the event view;
  - `result`.

  Its actions are `Load(w)`, `Step(t)`, `Finish` and `TakeResult`. A step
  must lie inside the window and not before the previous one. `Finish` hands
  over the rows with one finish row at the time reached. The refinement
  mapping `Sim` (`INSTANCE Simulation WITH ...`) sends:
  - `coordinator # NULL` to `loaded`;
  - `<<m_begin, m_end>>` to `window`;
  - `lastStep` to `clock`;
  - the Coordinator's event view to `rows`.

  `init()`, a `run()` that returns false, and destruction map to stuttering
  steps. The property breaks if:
  - `run()` loses its end test;
  - the time advance is taken as an absolute date;
  - `finish()` extracts the views before it flushes the finish row.
- `InitRestartsRun` (action property): after `init()`, the next step is the
  first step of the loaded configuration again.

**No termination property.** spec.md section 5 lets a transition compute a
time advance of 0, and `TaChoices` includes 0. A Coordinator whose simulators
keep answering 0 steps forever at one instant, and `run()` (line 141) then
never returns false. spec.md section 5 asks the Coordinator to bound such a
cascade and fail. The Coordinator is not in `src/`, and `run()` itself has no
bound. A termination property would therefore hold only by the model's own
Coordinator, whatever `run()` does. So the caller's `while (root.run())` loop
is not claimed to terminate, and this hazard is listed without a property.

### `SimPanel.tla`, instantiated by `MC_SimPanel.tla`

This module models `gvle::DefaultSimSubpanel`. It has two threads.

**GUI thread.** Qt runs one slot at a time on it. The slots are actions:

- `onRunPressed`;
- `onTreeItemChanged(p)`, which includes `addPortToPlot`/`removePortToPlot`
  and their call of `onTreeItemSelected`;
- `onTreeItemSelected(i)`;
- `onToolColor`;
- `colorChosen(accept)`, the return from the modal `QColorDialog::exec()`;
- `onSimulationFinished`;
- `destroy`, the destructor.

The widgets are abstracted to the state the slots test:

- `button`: the run button is enabled;
- `styleVisible`: the colour widget is shown;
- `items`: the rows of the tree;
- `checked`: its checked rows;
- `current`: the current row, or `NULL`;
- `portsToPlot`.

**Simulation thread.** It runs `DefaultSimSubpanelThread::onStarted()`,
split at each access to `output_map`:

- `workerParse`: parse the vpz;
- `workerRun`: `output_map = sim.run(...)`;
- `workerDeleteMap`, then `workerResetMap`: the error path;
- `workerEmit`: emit `simulationFinished()`.

**Objects.** `DefaultSimSubpanelThread` objects and result maps are named by
their run number. Freed sets record deletes, as in RootCoordinator.

**Splits where the threads can meet.** `updateCustomPlot()` is split in two:

- `UpdatePlotRead`: the test of the pointer, inside the calling slot;
- `plotResults`: its dereference.

The simulation thread can run between them. The access is a data race, so the
build may or may not reload the pointer. `plotResults` therefore dereferences
either the value read or the current one.

**Race observation.** `raceRead`/`raceWrite` record accesses to `output_map`
by each thread between `thread->start()` and the delivery of
`simulationFinished()`. Nothing orders the two threads' accesses in that
window.

**Fairness.** `WF` on the simulation thread, which runs unobstructed.
`SF` on `onSimulationFinished`: the event loop processes posted events every
time it returns, so user input cannot postpone the queued signal forever.
`WF` on `plotResults`: a slot once started finishes. User actions have no
fairness.

**Bounds.**

- Two ports under one view, enough for the current row and the toggled row to
  differ.
- `MaxRuns = 3`: the first run builds the tree that the later runs leave
  clickable.
- All three outcomes of `Simulation::run` (ok, error with a map, error without
  one) and both handled parse outcomes (`simpanel_undefined` adds the
  unhandled one).

**Properties.**

| Property | Run | Result |
|----------|-----|--------|
| `RunningThreadKept`: no running QThread is ever deleted by `onRunPressed` | `simpanel_threads` (`SimPanel.cfg`) | holds, 11,940 states |
| `NothingLeaks`: only `sim_process` and its map are alive | `simpanel_threads` | holds |
| `RunCompletes`: every started simulation ends with the button enabled | `simpanel_threads` | holds |
| `NoUndefinedBehaviour`: no data race on `output_map`; no dereference of the 0 from `getPortToPlot()`, a null current item, a null or deleted `output_map`, or a deleted `sim_process`; no exception but `SaxParserError` escaping `onStarted()` | `simpanel_undefined` (`SimPanel_NoUndefinedBehaviour.cfg`) | violated |

TLC reports a trace of three states: `onRunPressed`, then `onStarted()` on
the worker thread meets an exception other than `SaxParserError`, which
escapes the slot (finding 3). With two workers the search order varies, and a
run can instead report the four-state trace in which the panel is destroyed
during the run and the worker uses the deleted `sim_process` (defect D). The
other defects the property covers (A to C, below the findings) are not shown
by this run. The cfg of this run adds the parse outcome `otherError`: an exception other than
`SaxParserError` from `new Vpz()` or from `Package::addDirectory()`.

### `Package.tla`, instantiated by `MC_Package.tla`

This module models `utils::Package`. A client thread calls its members. The
children it starts (cmake, make, make install, cpack) run beside it, and every
one of them is started by `Pimpl::process` on the single `Spawn m_spawn`.

**State.**

- `child`: `m_spawn`, with its command, whether it runs, and its outcome.
- `issuccess`: `m_issuccess`.
- `pkg`: `m_pkgname`, one of two packages (`Pkgs`, symmetric in the cfgs).
- `srcdir`, `bdir`, `bindir`: per package, whether the source directory,
  `buildvle` and the binary package directory exist. `Src`, `Bd` and `Bin`
  are those of the selected package (`getDir`, `getBuildDir`).
- `child` also records the package whose directory the child works in.
- `emptyPrefs`: which `vle.packages.*` preferences are empty. It is chosen
  once in `Init` and never changes.

**Actions.** One per member:

- `create`, `configure`, `build`, `test`, `install`, `pack`;
- `clean`, `rclean`, `remove` (`buildvle`, another source entry, or a binary
  entry; the existence of the other entries is chosen with `\E`);
- `select` (with `refreshPath`), `rename` (of `buildvle` to another entry or
  back, or an `ArgError`);
- `isSuccess`, `wait`.

A child ending by itself is the environment action `childExit`. Each
operation's exceptions are an alternative that leaves the state as the throw
leaves it. `build()` contains its nested `configure()` as two `Proc` steps
applied in sequence within one action, because the client makes one call.

**Outcomes.** Spawn outcomes and start failures are chosen with `\E`. The
child a call waits for exits with any outcome. `remove_all()` (used by
`clean`, `rclean` and `remove`) runs `cmake -E remove_directory` in a child
of its own and catches a failure to start it, which it only traces. The model
chooses whether that child started, and when it did not, the directory stays
and the call still returns normally.

**Properties.**

| Property | Run | Result |
|----------|-----|--------|
| `PackageCallsIsolated`: no `clean()`, `rclean()` or `remove()` deletes the directory of a running command of the same package, and `isSuccess()`/`wait()` report a command of the selected package | `package_clean` | violated |

The property has two parts, and each is violated on its own (checked with
one invariant per part). TLC reports `configure(); clean()` first, which
removes `buildvle` while cmake runs in it (finding 4). The other part is
`configure(); select(other); wait()`, which returns the first package's
cmake status as the selected package's (finding 8).

`process()` waits for a running child before it starts the next one, so
one child at a time holds by the structure of the code and is not stated as a
property. `wait()` returns the value of `m_spawn.status()`. `Spawn` is not in
`src/`, so the model lets that value be any boolean. `isSuccess()` returns the
`m_issuccess` that `status()` writes.

### `ViewDrawingArea.tla`, instantiated by `MC_ViewDrawingArea.tla`

This module models `gvle::ViewDrawingArea`, the GTK widget that draws one
coupled model (`mCurrent`, the constant `Cur`). GTK runs its handlers one at a
time. `queueRedraw()` only sets `mNeedRedraw`. The expose event that redraws
comes after the input events already queued, because GTK dispatches redraws
at a lower priority than input.

**State.**

- `tool`: `mView->getCurrentButton()`;
- `models`, `conns`: the children of `mCurrent` and its connections, with
  one port per model, so a connection is a pair of models;
- `lines`: `mLines`, the connections as computed by the last `draw()`;
- `hl`: `mHighlightLine`;
- `linkSrc`: the model selected by an ADDLINK press;
- `zoom`: `mZoom` in hundredths (1.0 is 100);
- `needRedraw`: `mNeedRedraw`;
- `width`: `mWidth`, the width of `mCurrent`, 450 at construction (`mHeight`
  is handled by the same code and left out);
- `realized`: `mIsRealized`. GTK delivers input and expose events only to a
  realized widget, so those handlers wait for `on_realize`;
- `faults`: the out-of-range read in `drawHighlightConnection()`, after which
  the program is stopped (undefined behaviour, in practice a crash).

**Actions.** One per handler:

- `on_button_press_event`, with `delUnderMouse`/`delConnection` in DELETE
  mode, `addAtomicModel` in ADDMODEL mode, and `addLinkOnButtonPress`;
- `on_button_release_event`, with `addLinkOnButtonRelease` and, in ZOOM mode,
  `selectZoom` or `onZoom(button)`;
- `on_motion_notify_event`, with `highlightLine`;
- `on_expose_event`, with `draw()`, which recomputes `mLines`
  (`computeConnection`) and then reads `mLines[mHighlightLine]`;
- `restoreZoom`;
- `on_realize`, and `on_configure_event` for a new allocation of any width in
  `WinWidths`;
- `selectTool`, the toolbar of the View.

`ConnOrder` is the order `computeConnection()` and `delConnection()` both walk:
the input connections of `mCurrent`, then the children in name order with
their outputs. Geometry is abstracted. The model under the mouse is any model
or none, and the line `highlightLine()` finds is any index of `mLines` or none.
`View` (`delModel`, `makeConnection`, `addAtomicModel`) is not in `src/`. It
is modelled by its effect on the graph. `makeConnection` may be cancelled in
its port dialog.

**Bounds.**

- Two children `a`, `b`.
- Four possible connections: an input one, an internal one and two outputs.
  This is enough for a deleted model to take the highlighted connection with
  it, and for another connection to move into its index. The pass run uses
  three of them (input, internal, output), which keeps its liveness check
  under a minute. Every handler and branch still fires.
- Frame selections give `4*z` in {0, 3.6}: the full-width frame and a value
  half a step below `ZOOM_MAX`.
- Allocated widths 300 and 600, narrower and wider than the initial `mWidth`.
- 289,426 states for the pass run, in under a minute.

**No fairness.** The runs check safety only. That a queued redraw is
eventually drawn would follow from fairness on the expose event plus the one
assignment `mNeedRedraw = false` (line 926), so it is not stated. The pass run
does not check deadlock, because the out-of-range read stops the program.

**Properties.**

| Property | Run | Result |
|----------|-----|--------|
| `ZoomPositive`: no sequence of frame selections and zoom buttons brings `mZoom` to 0, which the mouse handlers divide by | `drawing_zoom_highlight` (`ViewDrawingArea.cfg`) | holds |
| `LinesCurrent`: when no redraw is pending, `mLines` is the graph's connection list, so every handler that changes the graph queues a redraw | `drawing_zoom_highlight` | holds |
| `DrawingStateValid`: no resize shrinks `mWidth`; no step takes `mZoom` past `ZOOM_MAX`; `draw()` reads `mLines[mHighlightLine]` only within the lines just computed; and `delConnection()` deletes the connection drawn at that index | `drawing_state` (`ViewDrawingArea_state.cfg`) | violated, all four ways |

TLC reports the resize part (finding 10): after `on_realize`, a frame
selection sets `mZoom` to 0.1, and an allocation of 300 then passes the test
against `mWidth * mZoom` = 45 and sets `mWidth` from 450 to 300. The other
parts of the property (defects E to G, below the findings) are not shown by
this run. The rounding of the double in
`delCoefZoom` (1.0 minus five times 0.1 is slightly above `ZOOM_MIN`) is not
modelled: the model computes in exact hundredths.

### `PackageListing.tla`, composed with `Package` in `MC_Package.tla`

This module models the two directory walks of `utils::Package`:
`getExperiments()` (line 765) and `listLibraries()` (line 796). The
`getPlugins*()` lists are built on `listLibraries()`. Both walks keep an
explicit stack. They pop a directory, iterate over its entries, keep the files
of one extension and push the subdirectories.

**Data.** A tree is a set of entries `[path, kind, ext]`, closed under
taking the parent directory. `Trees` is every such tree over `Candidates`,
which `MC_Package` sets to 8 entries: `.vpz` files and libraries at depths 0,
1 and 2, with a directory nested in a directory.

**Operators.** One turn of each `for` loop is an operator: `ExpVisit`, and
`LibVisit`, in which the directory test is nested as in the code. `Walk`
is `RECURSIVE`. It pops the last stack element and folds the visit over the
directory's entries with `FoldLeft`. `ListExperiments` and `ListLibraries`
add the missing-directory cases: the first throws `InternalError`, the second
returns an empty list.

**State and actions.** `listed` records the last call: its function, its
tree and its result. `getExperiments` and `listLibraries` pick any tree, and
`ListReturn` clears `listed`. `MC_Package` lets a listing happen only when no
child runs, and lets no command run while a listing is pending. A listing
reads no state that the commands write, so this order loses no behaviour the
properties distinguish. It keeps the product small: about 66,000 states
instead of tens of millions.

**Properties.** Each property checks the result against the reference
`FilesUnder(tree, ext)`, the set of the paths of the files of that extension
in the tree.

| Property | Run | Result |
|----------|-----|--------|
| `ExperimentsListed`: every `.vpz` of every subdirectory, each once, and `InternalError` only without the directory | `package_spawn` | holds |
| `LibrariesListed`: every library of every subdirectory | `package_listing` (`Package_listing.cfg`) | violated |

The violation (finding 5) is the tree with `d/b.so`. `listLibraries()`
returns only the top-level libraries.

### `Tools.tla`, instantiated by `MC_Tools.tla`

This module models the string helpers of `utils/Tools.cpp`. They are pure
functions, so they are operators. A caller makes one call at a time:
`call` records the function, its input and its result. The actions are
`callTokenize`, `callFormat`, `callVformat`, `callIs`, `callTo` and
`callToInt`, and
`Return` clears `call`.

**`format` and `vformat`.** A text is abstracted to the length `n` that
`vsnprintf()` reports for it, with -1 for an encoding error. A result is
abstracted to its length and to the number of its leading characters that are
the intended text. `FormatLoop` is the `for (;;)` loop, as a `RECURSIVE`
operator that returns the set of possible results. `Vsnprintf` writes
`size - 1` characters and returns `n`. The two functions differ only in the
`va_list` of the later turns:

- `format()` calls `va_start()` in every turn, so each turn is "fresh";
- `vformat()` hands the caller's `ap` to the second `vsnprintf()` without
  `va_copy()`, which is undefined behaviour.

What that second call does depends on the ABI. Where `va_list` is passed by
value (AArch64), it formats the same text again. Where `va_list` is an array
passed as a pointer (x86-64), it reads the words after the arguments: a text
of any length, an encoding error, or a crash.

**`is<bool>` and `to<T>`.** `StreamGet(s, T)` is `s >> t` as libstdc++
does it. The sentry skips white space (`SkipWs`). `ExtractInt` reads an
optional sign and the leading digits. Then the type decides:

- `bool` without `std::boolalpha` reads an integer, which must be 0 or 1;
- `int8_t` and `uint8_t` are character types, so one character is read and
  its code is the value;
- `int16_t` is read as a `long` and range-checked: outside the range it is
  set to the limit with `failbit`;
- `uint16_t` fails above its maximum and takes a negative number modulo
  2^16, as `strtoul()` does.

`to(s, T)` is the template `to<T>(str)`: it returns the value, or throws
`ArgError` when the extraction failed. `is<bool>` first compares the string
with the literals `true` and `false`. `callToInt` converts the text of a
number (`ToText`, the decimal text `ostringstream << n` writes) or a string
that holds no number.

**`tokenize`.** `TokenizeFrom` is the `while` loop, as a `RECURSIVE` operator.
Positions are 0-based as in the code. `FindFirstOf` is
`SelectInSubSeq` of SequencesExt. The reference `Split` is defined
independently, by recursion on the characters (`Fields`), and the empty
fields are dropped with `SelectSeq`.

**Bounds.**

- Every string of up to 4 characters over `a`, `;` and `,`, with every
  delimiter set (the empty one included) and both values of `trimEmpty`.
  This covers empty strings, leading, trailing and adjacent delimiters.
- A vector that is empty or already holds a token, because `tokenize` appends.
- Lengths -1, 0, 255, 256 and 300, on both sides of the first buffer of 256.
- The two literals and every string of up to 2 characters over `0`, `1`, `2`
  and `x`.
- For `to<T>` of the four 8- and 16-bit types: the numbers at and beside
  every limit (-32769, -32768, -129, -128, 127, 128, 255, 256, 32767, 32768,
  65535, 65536), -1, 0, 7 and 100. Also six strings without a number: empty,
  a blank, a lone sign, a letter, a sign before a letter, and a blank before
  a sign. The 32-bit types are left out because their limits are at the edge
  of TLC's 32-bit integers.

**Properties.**

| Property | Run | Result |
|----------|-----|--------|
| `TokenizeSplits`: `tokenize` appends exactly the reference fields | `tools_helpers` (`Tools.cfg`) | holds, 3,896 states |
| `FormatComplete`: `format` returns the whole text, and the empty string on an encoding error | `tools_helpers` | holds |
| `IntConversion`: `to<int16_t>` and `to<uint16_t>` return the number when it fits, at the limits too, and throw one past them and on a string with no number | `tools_helpers` | holds, 4,027 states |
| `SiblingsAgree`: `vformat` returns what `format` returns; `to<bool>` converts exactly what `is<bool>` accepts; `to<int8_t>` and `to<uint8_t>` convert numbers as the 16-bit types do | `tools_siblings` (`Tools_siblings.cfg`) | violated, all three ways |

`tools_siblings` checks the helpers alone (`ToolsSpec` of `MC_Tools`, where
nothing is drawn). The violation covers findings 6, 7 and 9. TLC reports `vformat` on a text
of 256 characters first. The 8-bit part, checked on its own, is violated by
`to<int8_t>("-128")`, which returns 45, the code of `-`.

`IntConversion` leaves out a negative number given to `uint16_t`.
`to<uint16_t>("-1")` returns 65535 without failing. That is what the standard
(`strtoul`) prescribes, so it is not reported as a finding.

The mutants are:

- the loop bound `lastPos < length` in `tokenize`;
- `va_start()` once, before the loop, in `format`;
- the `n < 0` test dropped from the loop, which breaks `TypeOK`.

### `ConnectionLayout.tla`, composed with `Tools` in `MC_Tools.tla`

This module models how `gvle::ViewDrawingArea` routes the connections of the
coupled model it shows. `draw()` calls `drawConnection()`, which runs three
steps:

- `preComputeConnection()` gives every connection a route;
- `computeConnection()` turns route i into polyline i, scaled by `mZoom`;
- `drawLines()` strokes the polylines.

**Routes and lanes.** A route leaves its source port horizontally, runs
vertically at `x1`, horizontally at `y3` to `x2`, and enters its destination
port. Routes that arrive at one destination column get lanes, counted per
side (from below or from above) in `mInPts`. Lane 1 is the direct one, and
`mDirect` records, per destination port, that a route already took it. Routes
that leave one source column are spread in the same way in `mOutPts`.

**State.**

- `mConnections`: the routes.
- `mDirect`, `mInPts`, `mOutPts`: the lane bookkeeping.
- `mLines`: the polylines.
- `visited`: the visiting order of the last draw.

**Operators and action.**

- `Ends`, `InLane`, `RouteFrom` and `Route` are the body of `preComputeConnection`.
- `Layout` folds `Route` over a visiting order, starting from `Cleared`.
- `computeConnection` builds the polyline, with its three cases on `x2`
  against `x1`. `Scaled` is the `(int)` cast of C++, which truncates toward
  zero.
- `drawConnection` is one draw. It may draw any graph of the scene, in any
  visiting order, at any zoom.

The visiting order is free because the connections of a port sit in a
`ModelPortList` keyed by model pointer. `calcSize` gives the child heights,
and the `get*Position` operators give the port positions. The widget's
spacing constants are definitions with the source's values.

**Composition.** `MC_Tools` composes this module with `Tools` by
interleaving. A helper call is made only before anything is drawn, and a draw
only when no helper call is pending. The two modules share no state, so this
interleaving adds no behaviour. Putting both in one passing run keeps one run
per question.

**Scene and bounds.**

- mCurrent `c` with one port on each side.
- Three children: `a` and `e` with one port each side, and `b` with two
  inputs.
- Seven possible links:
  - `a`, `e` and `c` into `b`'s port 0, from above, from below and from
    mCurrent;
  - `a` into `b`'s port 1, the same column as port 0;
  - `b` back into `a`, `e` and `c`. These are routes whose destination lies
    left of the source, so both `y1` arms (around the top and around the
    bottom of the source model) occur.
- Every draw of up to 3 of these links, in every order.
- Zooms 0.1 (the least `selectZoom()` sets, where lanes 5 pixels apart are
  half a pixel apart) and 1.0. At 1.0 the double product is exact. The double
  0.1 lies just above 1/10, so `v * 0.1` never rounds below an integer `v/10`,
  and the model's integer
  truncation equals the double product.

**Property.**

| Property | Run | Result |
|----------|-----|--------|
| `BendsDistinct`: two routes into one port leave their last bend at different screen points, whatever the visiting order, the side they arrive from, at zoom 0.1 and at 1.0 | `tools_helpers` (`Tools.cfg`) | holds, 4,545 states with the helpers (about 2m under coverage) |

The mutant takes the direct lane without reading `mDirect`. TLC finds it:
the first route from below and the first from above both take lane 1 and
bend at the same point.

## Runs

| Run | Config | Expect | What it shows |
|-----|--------|--------|---------------|
| `root_lifecycle` | `RootCoordinator.cfg` | pass | With valid configurations (the pipeline a→b over `[0,2]`, and an empty model over `[1,2]`), every sequence of the public calls is memory safe and keeps the time properties of the abstract simulation. 8,838 distinct states. |
| `root_failed_load` | `RootCoordinator_failedload.cfg` | violation of `NoUseOfFreedObject` | Sequence: `load(ok)`, then `load(noEngine)`, then `load(ok)`. The second `load` deletes the pair and throws. The third deletes them again. |
| `root_init_rerun` | `RootCoordinator_init.cfg` | violation of `InitRestartsRun` | Sequence: `load`, `run` at time 0, `init`, `run`. The last step runs at time 1, continuing the old Coordinator. |
| `simpanel_threads` | `SimPanel.cfg` | pass | No running thread is deleted, nothing leaks, and every started simulation re-enables the button under the fairness of the Qt event loop. |
| `simpanel_undefined` | `SimPanel_NoUndefinedBehaviour.cfg` | violation of `NoUndefinedBehaviour` | The two threads reach a data race, a null or deleted pointer, or an exception escaping `onStarted()`. |
| `package_spawn` | `Package.cfg` | pass | `getExperiments()` lists every experiment, whatever the package commands did before. |
| `package_clean` | `Package_clean.cfg` | violation of `PackageCallsIsolated` | `configure(); clean()` removes `buildvle` under cmake; after `select()`, `wait()` reports the other package's command. |
| `package_listing` | `Package_listing.cfg` | violation of `LibrariesListed` | `listLibraries()` misses `d/b.so`. |
| `drawing_zoom_highlight` | `ViewDrawingArea.cfg` | pass | The zoom factor never reaches 0; the lines on screen are current when no redraw is pending. |
| `drawing_state` | `ViewDrawingArea_state.cfg` | violation of `DrawingStateValid` | Zoom past the maximum, a stale highlight index read or used to delete, a resize that shrinks the model. |
| `tools_helpers` | `Tools.cfg` | pass | `tokenize()` matches the reference split on every small input; `format()` returns the whole text; `to<int16_t>`/`to<uint16_t>` are right at their limits; two connections into one port are drawn apart. |
| `tools_siblings` | `Tools_siblings.cfg` | violation of `SiblingsAgree` | `vformat()` of a 256-character text; `to<bool>("true")` throws; `to<int8_t>("100")` returns 49. |

**Bounds of the RootCoordinator runs.**

- Two simulators with one connection. This gives a receiver that is not
  itself due, the only case in which the receiver set matters.
- Time advances in {0, 1, 2, ∞} for later events. 0 is allowed by spec.md
  section 5, and it lets two steps fall at one instant. Initial advances are in {0, 1},
  so that both a first event at `begin` and a later one occur, and a step can
  land exactly on `end` (the boundary of `(m_end - m_currentTime) < 0`).
- `MaxObjs = 4` allocations. This allows two loads with a `finish` or a
  reload between them, which every memory error above needs. `load` is not
  enabled once the pool is exhausted.

**Mutants.** `PROJECT.json` lists one mutant per property of the passing run:

- `finish` without resetting the pointers;
- `finish` extracting before flushing;
- `run` without the end test;
- an absolute instead of a relative time advance.

TLC finds each of them.

## Findings

1. **Double delete after a failed `load()`** (`RootCoordinator.cpp:111`).
   `load()` deletes `m_coordinator` and `m_root` without nulling them. It then
   calls `Experiment::begin()`, which throws when the engine condition is
   missing. The dangling pointers are deleted again by the recovery that
   spec.md section 7 prescribes (a new `load()`, or `finish()`), and also by
   the destructor.
2. **`init()` does not rewind the run** (`RootCoordinator.cpp:132`). `init()`
   assigns only `m_currentTime`, and `run()` overwrites it with the
   Coordinator's time on its next call. Spec.md section 4.1 presents `init()`
   as the way to re-run a loaded configuration.
3. **Exception escaping `onStarted()`** (`DefaultSimSubpanel.cpp:80`).
   Only `SaxParserError` is caught around `new Vpz()` and the set-up of the
   output directories, and `Package::addDirectory()` can throw too. Any other
   exception leaves a slot invoked by the thread's event loop, which Qt does
   not support. `error_simu` is not set and `simulationFinished()` is not
   emitted.
4. **`clean()` under a running command** (`Package.cpp:451`). `process()`
   serialises the package commands on `m_spawn`. `clean()` and `rclean()`
   call `remove_all` without waiting for it, so `configure(); clean()`
   removes `buildvle` while cmake runs in it. Nothing documents that the
   caller must `wait()` first, so this is recorded as a spec gap.
5. **`listLibraries()` never descends** (`Package.cpp:820`). The
   `is_directory()` test that pushes a subdirectory is the `else` of the
   extension test, inside the `is_file()` branch, so it is never true. A
   plugin library in a subdirectory of the plugin directory is not listed.
   `getExperiments()`, written the same way with the tests side by side,
   descends.
6. **`vformat()` reuses its `va_list`** (`Tools.cpp:84`). For a text of 256
   characters or more, the second `vsnprintf()` gets the `ap` the first one
   consumed, with no `va_copy()`. On x86-64 the result is garbage, an empty
   string, or a crash. `format()` calls `va_start()` in every turn and
   returns the text.
7. **`to<bool>("true")` throws** (`Tools.cpp:190`). `to<bool>(std::string)`
   reads the stream without `std::boolalpha`, so only `0` and `1` convert.
   But `is<bool>("true")` returns true, and `to<bool>(true)` produces
   `"true"`, so a value does not survive its own round trip.
   `is<bool>("false")` returns false: the literal `false` is reported as not
   a bool.
8. **`select()` keeps the other package's child** (`Package.cpp:184`).
   `select(name)` changes `m_pkgname` and the paths and leaves `m_spawn`
   alone. After `build()` of one package and `select()` of another,
   `wait()` and `isSuccess()` report the first package's make as the status
   of the selected one. Nothing in the class waits for or refuses a running
   child on `select()`, so this is recorded as a spec gap.
9. **`to<int8_t>` reads a character** (`Tools.cpp:199`). `int8_t` and
   `uint8_t` are character types, so `s >> ret` reads one character.
   `to<int8_t>("100")` returns 49, the code of `1`, where `to<int16_t>`
   returns 100. `is<uint8_t>("300")` is true, and `to<int8_t>(int8_t)` writes
   a character.
10. **A resize shrinks the model when zoomed out** (`ViewDrawingArea.cpp:894`).
    `on_configure_event()` tests the allocation against `mWidth * mZoom`,
    but stores the raw allocation in `mWidth` and `mCurrent->setWidth()`.
    Below zoom 1.0, an allocation narrower than `mWidth` passes the test, so
    resizing the window while zoomed out shrinks the coupled model.

### Defects the model reaches that the runs do not show

A violation run reports the first trace TLC finds, so each of these runs
shows one of the defects its property covers. The defects below come from the
same properties, and the model reaches each of them. No trace of the checked
runs shows them, so they are listed here, and as hazards in `PROJECT.json`,
rather than as findings.

- **A.** **Data race on `output_map`** (`DefaultSimSubpanel.cpp:269`). The previous
  run's tree stays enabled during a run, and `onRunPressed` does not clear
  it. Toggling a check box calls `updateCustomPlot()`, which reads
  `sim_process->output_map` while the simulation thread assigns it (line 84)
  or deletes and resets it (lines 89-90).
- **B.** **Null port** (`DefaultSimSubpanel.cpp:518`). `onRunPressed` erases
  `portsToPlot`, but the old rows stay checked. Selecting one during the run
  dereferences the 0 that `getPortToPlot` returns.
- **C.** **Null current item** (`DefaultSimSubpanel.cpp:533`). Trace:
  - during a run, a row is checked and then selected, which shows the
    colour button;
  - `onSimulationFinished` clears the tree with signals blocked, so the
    button stays visible with no current item;
  - clicking it makes `onToolColor()` dereference the null item.
- **D.** **Destructor order** (`DefaultSimSubpanel.cpp:147`). `sim_process` is
  deleted before `thread->quit()/wait()`. A simulation still running
  continues on the deleted object.
- **E.** **Zoom past `ZOOM_MAX`** (`ViewDrawingArea.cpp:1213`). `addCoefZoom()`
  clamps only a factor already at `ZOOM_MAX`. After a frame selection leaves
  `mZoom` at 3.6, zoom-in sets it to 4.1.
- **F.** **Stale highlight index** (`ViewDrawingArea.cpp:1018`). `delUnderMouse()`
  deletes a model without resetting `mHighlightLine`. When the highlighted
  connection was one of that model's, the next `draw()` reads
  `mLines[mHighlightLine]` and `mText[mHighlightLine]` past their end. In
  DELETE mode the cursor over a model is usually within 10 pixels of that
  model's connections, so the case is ordinary.
- **G.** **Wrong connection deleted** (`ViewDrawingArea.cpp:1140`). Between a model
  deletion and the redraw, a motion event highlights an index of the old
  `mLines`. `delConnection()` then deletes the connection at that index of
  the new list, which is not the one the user pointed at.

## Plan

Ordered by importance. Later sittings continue from here.

1. **RootCoordinator**, done (above).
2. **SimPanel**, done (above).
3. **Package**, done (above), with the directory listings in
   `PackageListing.tla`; `select()`, `remove()` and `rename()` added with
   two packages.
4. **Zoom / highlight**, done (above). Still to model: the rounding of
   `delCoefZoom`'s double steps, and model displacement and selection (which
   change no state the properties read today).
5. **Tools**, done (above), with `to<T>` for the 8- and 16-bit integers.
   Still to model: `double` and `float`.
6. **ObservationStream**, dropped. The producer is not in the sources (see
   "Not modelled").
7. **Refinement**, done: `Simulation.tla`, checked as `ImplementsSimulation`
   in `root_lifecycle`.
8. **Connection routing**, done: `ConnectionLayout.tla`. Still to model: the
   order of the steps in `draw()`, which needs the child sizes as state.

## Not modelled

- **gvle dialogs and menus, and the `main` functions.** They are widget wiring
  and option parsing.
- **`manager/VLE.hpp`, `data/CSVResult.hpp` and `extension/Decision.hpp`.**
  They hold declarations only.
- **The `plantlouse2` example.** It is a floating-point formula of a plug-in.
- **XML writing of `Experiment` and `ValueTrame`.** It is formatting.
- **The streaming observation protocol (oov).** Only the consumer's
  declarations and `ValueTrame`'s three small methods are in the sources. The
  producer and the network reader are not. A model of the stream would
  translate `spec.md` on both ends, so it would check the spec against itself.
  `ValueTrame::add(value)` guards its one precondition with an `Assert` that a
  unit test reaches directly.
- **The order of the steps within `draw()`.** `drawConnection()` runs before
  `drawChildrenModels()`, which recomputes each child's height and sets its
  width to 100. The first draw after a child changes size therefore routes to
  the old port positions. `ConnectionLayout` takes the sizes as `calcSize`
  gives them, and `ViewDrawingArea.tla` keeps no geometry, so this order is
  listed as a hazard and not checked.
- **A failed `remove_all()`.** It is modelled (the directory stays), but the
  code documents no expectation for a caller, so no property states one.
- **Pure path joins in `Package`.** No property tells them apart.

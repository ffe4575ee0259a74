# Verification of PyWisp

PyWisp is a PyQt5 program that drives test rigs: it connects to one or several
rigs over TCP, UDP or a serial line, sends them the parameters of an
*experiment*, starts and stops it, and records and plots the data points the
rigs send back. This directory holds TLA+ models of the program, TLC
configurations that check them on small instances, and theorems about them that
TLAPS checks for every instance.

## 1. Inventory

Paths are relative to `src/`.

| Component | State it keeps | Operations | Interacts with |
|---|---|---|---|
| `pywisp/connection.py` `Connection`, `ConnReader` and the serial, TCP and UDP subclasses | `connected`, the socket or port, the generator pipelines `tx` and `rx`, a reader thread and its `stop` flag | `connect`, `disconnect`, `writeData`, `workerror`; the reader loop `run` and `quit` | the reader emits `received` and `err`, which Qt queues for the GUI thread; `disconnect` emits `finished`, a direct call when it comes from the GUI thread |
| `pywisp/min.py` `Packer`, `HDRStuf`, `Unpacker` | how many header bytes in a row have been sent; the position in the frame that is being received | one generator step per byte | in `tx` and `rx` of serial and UDP connections |
| `pywisp/experiments.py` `ExperimentInteractor` | `targetModel` (modules and settings of the applied experiment), `dataPoints`, `modSets` (what was sent last), `runningExperiment` | `setExperiment`, `editExperiment`, `runExperiment`, `stopExperiment`, `sendParameterExperiment`, `sendChangedParameterExperiment`, `updateSendParameter`, `handleFrame` | signals `sendData`, `expFinished`, `missedbeat`, `expStop`, all connected to slots of `MainGui` |
| `pywisp/gui.py` `MainGui` | the connections' instances, `isConnected`, the enabled actions, three timers, `measurements` and `lastMeasList`, the buffers of the running experiment, plots, remote widgets, a gamepad, an exporter | the slots of the buttons, lists, timers and of the signals above | everything |
| `pywisp/utils.py` | `DataPointBuffer`, `Exporter` (a thread), movable widgets; `pipe`, `packArrayToFrame` | `addValue`, `run`, widget events | `MainGui`, client code |
| `pywisp/widgets/plotchart.py` | curves, a cache of down-sampled points | `addPlotCurve`, `updateCurves` | the plot timer of `MainGui` |
| `pywisp/gamepad.py` (on the vendored `pywisp/inputs.py`) | a polling thread, the state of the axes and buttons | `run`, `stop`, `processEvent` | remote widgets |
| `pywisp/visualization.py` | the name, time stamp and counter of the pictures | `setExpName`, `startAnimation`, `checkSaveAnimation`, `saveIfChecked` | `MainGui` on start and with every sample |
| `pywisp/registry.py`, `experimentModules.py` | the registered classes; an abstract interface | register, look up | clients |
| `pywisp/settings.py`, `widgets/fileselector.py` | user preferences; the experiment files of a directory | read, write | `MainGui` |
| `examples/tcp/bur/server` (PLC program) | the socket state machine of `TcpIpServer`, `bActivateExperiment`, the frame that is half sent or half received | one cycle every 100 ms: `init`, `sync`, `closeSockets`; `Transport::handleFrame`, `sendData` | its TCP peer is `TcpConnection` |
| `examples/generic` (microcontroller and simulator) | the controller; transport and watchdog come from a library that is not in the repository | | its peer is a serial or UDP connection |

### Where it is hard

* **Nested slots.** Qt calls a slot directly when the emitter lives in the same
  thread. A write that fails inside `startExperiment` therefore runs
  `Connection.disconnect`, `MainGui.disconnect` and `MainGui.stopExperiment` to
  their end, and only then does the interrupted loop go on with its next frame.
* **Reader threads.** Each connection has a thread that blocks in `_recv`; its
  signals reach the GUI thread later, possibly after the connection has been
  closed, deleted or replaced by a new one.
* **Several rigs.** A command with id 1 (start, stop, heartbeat) goes to all
  connections in a loop that a failing write changes under its feet.
* **Failures.** A refused connect, a reset, a peer that closes (TCP `recv` then
  returns no bytes for ever and raises nothing), a send that times out, a lost
  frame, a missed heartbeat, a parameter that a module refuses.
* **Framing.** MIN resynchronises by header and stuffing bytes and a CRC; the
  TCP connection counts 81 byte chunks and does not resynchronise.
* **Two memories of one thing.** The settings of the tree, of `modSets` and of
  the rig; the widgets on display and the `Remote` section; the items of a plot,
  its curves and the measurement they show; a slider and its parameter; a buffer
  and the cache of its curve. Each pair is kept equal by hand, in every slot.
* **Objects that outlive their purpose.** Lambdas connected to a gamepad, the
  visualizer of an experiment that is no longer applied, the remainder of a send
  whose connection has ended, the export thread.
* **Threads beside the window.** The gamepad's, which `stop` waits for, and the
  exporter's, which must report its end.

### What makes each component correct

* Session (connections, life cycle, buttons): an experiment is recorded exactly
  once; the buttons and timers agree with it; a rig never starts outside a run;
  a broken link ends the session; no slot raises by itself; reader threads end.
* MIN: what is delivered was sent, in order, and after a fault the link finds
  its way back.
* TCP framing and PLC server: chunks stay aligned; a client can come back.
* Settings: the rig has the settings that the GUI says were sent, and what a
  widget sends arrives.
* Buffers and plots: drawing never alters the record, skips no sample and keeps
  up; docks, charts and items agree, and a curve shows the measurement that it
  should.
* Remote widgets: the exported section has the widgets on display; a slider
  stands where its parameter is and writes only when the user moves it.
* Gamepad: no press is lost or doubled; no thread outlives its gamepad.
* Arrays: the rig has the whole array when the last frame is written.
* Visualizer: pictures carry the name and time of the run they show.
* Addresses: no port is given to two connections; what the user chose stays.

## 2. Plan

| # | Module | Models | State |
|---|---|---|---|
| 1 | `Session`, `MCSession`, `SessionProofs`, `SessionRunProofs`, `SessionCasesProofs` | connections, experiment life cycle, buttons, timers, measurement list, rigs | done |
| 2 | `ExperimentLog` | what `Session` promises about measurements and rigs, implemented by it (proved in `SessionRunProofs`) | done |
| 3 | `MinLink`, `MCMinLink`, `MinLinkProofs` | `Packer`, line, `HDRStuf`, `Unpacker`; recovery after faults as a theorem | done |
| 4 | `PlcServer`, `PlcServerProofs` | the PLC's socket machine and its half-sent frames, composed with `TcpConnection` and its 81 byte chunks | done |
| | `SampleQueue` | what the PLC promises its first client, implemented by `PlcServer` (proved in `PlcServerProofs`) | done |
| 5 | `Settings` | `_applyExperiment`, `_editExperiment`, `modSets`, remote widgets on their way to the rig | done |
| 6 | `RemoteWidgets`, `RemoteSlider` | the list of widgets and its section; the dialog, and a slider and its parameter | done |
| 7 | `PlotDocks` | docks, charts and items, measurements on display, `Exporter` | done |
| 8 | `PlotChart` | the buffers, the cache, the downsampling and the moving window of a chart | done |
| 9 | `Menus` | ports, baud rates, number dialogs | done |
| 10 | `Animation` | visualizers and their pictures | done |
| 11 | `MainWindow`, `MCWindow` | the window's parts, 5 to 10, side by side, and what is promised of them | done |
| 12 | `GamePad`, `MCGamePad`, `GamePadProofs` | the polling thread, its device and its signals | done |
| 13 | `ArrayFrames`, `ArrayFramesProofs` | `packArrayToFrame`; its result as a theorem | done |
| 14 | `WindowProofs` | theorems about `MainWindow` | done |

Theorems, all proved (section 6): every safety property of `Session` that a run
checks and its refinement of `ExperimentLog`, that a MIN link comes back into step
after any faults, that frames and samples arrive whole and in order from the PLC,
which implements `SampleQueue` for its first client, and that the rig obeys, that no press of a gamepad is lost, that an array arrives for
every length, and the safety properties of the window's parts, the chart's record
among them. Left are `NothingForged` and liveness, which stay with TLC (end of
section 6).

`Session` composes the connections, the life cycle, the buttons and the rigs,
`PlcServer` the server and its client, `MinLink` sender, line and receiver,
`GamePad` device, thread and window. The parts of the window share the applied
experiment and the running flag, which each module has in the form that it
needs (`Session` in full, the others as `running`, `Apply`, `Start` and
`Stop`), and nothing else that they write.

## 3. The modules

### Session

`Session` is the core: everything from a click or a frame to the last slot it
calls.

*The GUI thread.* Its call stack is `todo`, a sequence of steps that the
handlers on the stack still have to take, innermost first. A user action, timer
tick or queued signal is taken only when `todo` is empty (`Idle`); a handler
pushes the steps at which something else can happen (one write, one connection
of a loop, a save), and everything else it does is part of the action itself. A
nested slot pushes its steps in front. So `Finished` is `MainGui.disconnect`
wherever it is called from, `StopExperiment(rest)` is `MainGui.stopExperiment`
with `ExperimentInteractor.stopExperiment`, and a write that fails
(`WriteFails`) continues with `Finished` before the rest of the interrupted
loop.

*Connections.* `inst[c]` is `none` (no `conn['inst']`), `open` or `stale` (the
instance exists, `connected` is False). `sender[c]` says whether the generator
pipeline `tx` is still alive: an exception, even the timeout that `writeData`
passes over, ends it. `link[c]` is the socket: `up`, `reset` (operations raise)
or `eof` (the peer has closed, `recv` returns no bytes). `reader[c]` and
`held[c]` are the thread of the newest instance; the signals that older readers
still have to emit are in `ghosts`. `inbox` is the event queue of the GUI
thread; the tag of an event is the connection name its slot will use, `Unbound`
while that is still the loop variable of the connect call made last (`bound`).

*Abstractions.* A module's settings are reduced to whether they have been sent
(`modSets`), a frame to its kind. All frames of one module count as one write:
each of them can fail in the same way. Buffers are the set of modules whose
data points they hold. Log messages, list colours and plots are left out.
Frames from a rig are those with data points (`data`) and the rig's "missed
heartbeat" frame of id 1 (`miss`). An unhandled exception in a slot ends the
process, as PyQt5 does without a `sys.excepthook`: `app` then holds its reason.

*External parts.* The network and the operating system (`LinkResets`,
`LinkEnds`, `WriteLost`) and the watchdog of a rig (`RigMissesBeat`; the
firmware is not in the repository) are modelled from what the code reacts to.
How a rig reacts to the commands is the PLC example's `Transport::unpackExp`:
payload 0 stops it, 1 and 2 (start, heartbeat) both activate it.

| Action | Code |
|---|---|
| `UserConnect`, `ConnectSucceeds`, `ConnectFails` | `MainGui.connect`, one turn of its loop each |
| `UserStart` | `MainGui.startExperiment`, `ExperimentInteractor.runExperiment` |
| `UserStop`, `Halt` | `MainGui.stopExperiment` from the button and from `expStop` |
| `UserDisconnect`, `Finished`, `CloseOne`, `Forget`, `ResetButtons` | `MainGui.disconnect` from the button and from `finished`/`missedbeat` |
| `UserSendParameter`, `UserSendChangedParameter`, `KeepParam` | the two send buttons |
| `UserApplyExperiment`, `UserLoadLastMeas`, `UserClose`, `Exit` | double clicks on the lists, the closing window |
| `HeartbeatTick` | `MainGui.heartbeat` |
| `HandleError`, `HandleMissedBeat`, `HandleData` | the slots of `err` and `received` |
| `WriteMissing`, `WriteStale`, `WriteDelivered`, `WriteLost`, `WriteTimeout`, `WriteFails` | `writeToConnection` and `writeData`, by outcome |
| `SaveLastMeas`, `ClockOn`, `ClockOff` | `saveLastMeas`; the end of start and stop |
| `ReaderReceives`, `ReaderStops`, `ReaderFails`, `ReaderEmits`, `GhostEmits` | `ConnReader.run` and its signals |
| `LinkResets`, `LinkEnds`, `RigSends`, `RigMissesBeat` | network and rig |

`MCSession` gives the constants their values for TLC.

### ExperimentLog

What a user may rely on, without connections, handlers or timers: `running`,
`items` (measurements begun and not saved) and the `active` rigs. An experiment
begins only when the measurement before it is saved, a refused parameter leaves
an empty measurement that is saved too, and a rig is activated only during a
run. In `Session`, `Log` is an instance of it with `items <- current` and
`active` the rigs that run; `ImplementsLog` says that every step of the session
is a step of the log or changes nothing in it. The nested handlers are what
makes this more than a renaming: a start that is interrupted by a failing write
may not begin, save or activate anything afterwards.

### MinLink

The serial and UDP connections send frames through `min.py`. `frame` is what
`Packer` is sending; `at`, `pos` and `cnt` (`hdcnt`) say which byte comes next:
three headers, the body (id, length, payload, CRC32) with a stuffing byte after
each second header byte in a row, and an end byte. `pend` is how many header
bytes `HDRStuf` holds back, `rx` is `Unpacker`: the bytes since the frame began
(`buf`), whether it waits for the byte after a delivered frame (`want`), and
what it has delivered since `frame` was begun (`got`). Generators are driven by
`send`, so a byte is worked off completely before the next one and is received
in the step that sends it. The line may lose a byte, change it, or insert one.
`good` counts frames without a fault in a row up to two.

| Action | Code |
|---|---|
| `Begin`, `SendHeader`, `SendBody` with `After`, `SendStuffing`, `SendEnd` | `Packer` |
| `Receive` | `HDRStuf`, one turn per received byte |
| `Unpack`, `Collect` | `Unpacker`: one received byte, and what is done with it |
| `Line`, `Inserted` | the line (external) |

`Crc` and `Frames` are parameters; `MCMinLink` gives the CRC32 of `binascii`
and six frames.

### PlcServer

One `Cycle` of the PLC takes a step of `TcpIpServer` (`mainState` and `tcpStep`
are `mainState` and `tcp_step` of the code) and then, while an experiment is
active, queues a frame for each data source. `outBuf` are the two halves of
`outBuffer`, `rest` is what is left of an interrupted send. The peer is
`TcpConnection`: `ClientReceives` reads some bytes and cuts chunks of a frame's
length (`data` is the buffer of `Receiver`). The bytes under way are `toRig` and
`toGui`; a unit is a frame and the position in it, so a chunk of two halves is
seen as `Garbage`. The calls of the vendor's TCP library may be busy, partial
or fail, as `Faults` allows.

### SampleQueue

What the first client may rely on, without buffers, sends and chunks: a `queue`
of numbered samples. The one or two samples of a cycle enter it together
(`Put`), the head is handed on (`Take`), and with the connection all is over
(`End`). In `PlcServer`, `Samples` is an instance of it with `queue <- Undelivered`,
the frames whose units are in the client's buffer, on the wire, in the
interrupted send or the half that is being sent, and in the other half, in this
order. Later connections are no such queue: end of section 4.

### Settings

`sets` is the tree (`targetModel`), `modSets` what the GUI takes the rig to
have, `rig` what it has. `Apply`, `Edit`, `Start`, `Stop`, `LoadLastMeas` and the
two send slots change them as `_applyExperiment`, `runExperiment`,
`sendParameterExperiment`, `sendChangedParameterExperiment` and
`updateSendParameter` do; `Push`, `Switch` and `Slide` are the slots of the remote
widgets. Starting, stopping and failing are reduced to `running`: `Session` has
them.

### PlotChart

A sample is its time. `buf` are the `DataPointBuffer`s of a measurement, `cache`
is what `_cachedsample` keeps of a curve. A drawn point is the time it is drawn
at and the samples that it stands for, so "no sample is passed over" can be
said of means and peaks. `alias` is the case in which `_downsample` has returned
its arguments and the cache is the list of the buffer itself. `Update` is
`updateCurves`, with `_cachedsample`, `_downsample` and the moving window.

### PlotDocks

`tree` is the tree of titles and data points, `docks` and `charts` the open
windows; a curve is the measurement whose data it shows. `meas` is the list of
measurements, `cur` the one that is on display, `filled` those that have data.
The actions are the slots of the tree, of the docks and of the lists, and
`Export`, `ExportThread` for `Exporter`, whose failing end (`ExportDies`) is
always possible.

### RemoteWidgets and RemoteSlider

`RemoteWidgets` has the lists: `list` on display, `remote` the section of each
experiment, `bound` the widgets that a gamepad is connected to. `RemoteSlider`
has one widget in depth: `dlg` are the fields of `RemoteWidgetEdit`, `slider` the
position, range and start value of a `MovableSlider`, `sets` the parameters. Its
signal is raised by a change of the position, whoever makes it; that is where
an edit writes a parameter.

### GamePad

The thread (`pc`: `loop`, `read`, `output`) reads one event of the device in a
round without blocking and sends the position of a stick by time (`Tick`,
`due`); its signals are queued for the window (`signals`), whose `stop` waits
(`waiting`) until the thread has left its loop. `Handle` is the slot of a button
or a slider.

### ArrayFrames

`packArrayToFrame` for one array after another: `Frames(n)`, the elements of
frame `k` (`InFrame`) and its bytes, with the sizes as parameters; `Write` sends
the next frame and the rig adds its elements to `got`.

### Menus

`port`, `baud`, the text of the TCP field and of the timer field. `Init` has what
the constructor of the window does when a port has to be chosen; opening a
submenu chooses again; the dialogs take what Qt's validators let through.

### Animation

`vis` is `MainGui.visualizer` with its name, time stamp, counter and flag, `shown`
what the box shows, `option` the checked menu entry. A picture in `files` has its
file name and the run that it shows.

### MainWindow and MCWindow

`MainWindow` has an instance of `Settings`, `RemoteWidgets`, `RemoteSlider`,
`PlotDocks`, `PlotChart`, `Menus` and `Animation` each, and states what is promised
of them. They share no variable but the exception that ends the program, and no
action writes two of them, so interleaving them shows nothing: a behaviour has one
part, chosen at the start (`part`), and the variables of the others are `"off"`.
What is explored is the sum of their state spaces. An invariant is the conjunction
of the named invariants of one part, types included; the parts' modules state
them. `MCWindow` gives the values, and the two runs differ in the parts that they
look at (`Parts`).

Where a promise needs a user who leaves something alone, a history variable says
until when: `edited`, that a slider is no longer as it was built; `quiet`, that
visualizer and option have not been touched since the run began; `chosen`, the port
that the class, the user or a menu gave. The model itself has every action at any
time.

## 4. The runs

| Run | Instance | Shows |
|---|---|---|
| `solo` | 1 connection, 1 experiment, heartbeat, every fault, 2 queued events | `TypeOK`; `OnlyModulesRaise`; `TimersOnlyInRun`; `RigStartsOnlyInRun` |
| `pair` | 2 connections, an experiment with a module on each and one without data points, heartbeat; refused, reset, timeout, refused parameter | `RecordedOnce`, `ButtonsMatch`, `ConnectedMeansAll`, `TimerInv`; `ImplementsLog` |
| `refusals` | the same experiments; connects and parameters may be refused, links and rigs work | `RigsFollow` |
| `live` | 1 connection, heartbeat; reset, eof, timeout; fair | `Responds`, `DropEndsSession`, `HeartbeatFindsEnd`, `ReadersEnd` |
| `minlink` | 6 frames, CRC32, at most 2 faults with bytes from {1, STF, HDR} | `BackInStep`, `NothingForged`, `LinkInv` (types included) |
| `plc` | chunks of 3 units, two frames per buffer half, 5 units under way, every fault but split commands; fair | `ServerInv` (buffers keep their bound, chunks are frames, rig and client agree), `InOrder`, `ImplementsQueue`, `Relistens`, `StopObeyed` |
| `gamepad` | a stick with 3 positions, an inverted slider, 3 inputs, 2 selections, unplugging; fair | `PadInv` (a thread has its gamepad), `ClicksArePresses`, `StopReturns`, `StickSettles` |
| `array` | 2 arrays of up to 60 elements, 80 byte frames of 8 byte elements | `FramesInv` (order, size), `Complete` |
| `window`: settings | 4 experiments, 2 modules of 2 parameters, for one parameter a button with reset and two without, of which one sends the value of that reset, a switch, a slider | `SettingsInv` (`ActiveKnown`, `RigKnown`), `WidgetReaches` |
| `window`: widgets | 2 experiments, 2 unique names, 4 widgets | `SectionInv` (`Saved`, `MenuReturns`) |
| `window`: slider | 2 modules, a slider and 2 buttons, ranges that values fit into or not | `SliderInv` (`RangeKept`, `SliderHasParameter`, `SliderShows`), `DialogWritesNothing` |
| `window`: chart | 2 curves of up to 4 samples, steps 1 and 2, peaks, moving window | `RecordInv` (`RecordKept`), `DrawsRecord` (`SkipsNothing`, `KeepsPace`, `WindowIsExact`) |
| `window`: menus | 3 serial connections, 3 ports that come and go | `PortsInv` (`ChosenKept`, `PortsDistinct`) |
| `window`: visualizers | 2 experiments with visualizers, 3 seconds | `PicturesInv` (`FramesNamed`, `FramesKept`, `SaveReturns`, `DrawnIsShown`) |
| `docks` | 3 titles of which one is reserved, 2 experiments, each without the data point of the other, 2 measurements | `PlotsInv` (`ChartsAreDocks`, `CurvesAreRecorded`, `RunIsCurrent`), `EditShows`, `CurvesFollow` |
| `close` | 2 connections; refused | violated: `CloseDisconnects` |
| `frames` | 2 connections, no faults | violated: `FramesKeepConnection` |

*Bounds.* `MaxInbox` bounds the event queue and `MaxOut` the frames under way
from a rig; an emitter waits at a full queue, which only removes behaviours in
which more of the same events are queued. One event of an old connection and
one of the new one (`MaxInbox` 2) is what the races of a reconnect need; in
`pair` the rigs are silent (`MaxOut` 0) because the frames do not
touch what is checked there. Two connections are the smallest number at which
the loops over all connections can be interrupted in the middle. No counter
grows without bound, so the state spaces are finite and searched completely.
In `minlink` the number of frames is not bounded; `MaxFaults` 2 lets one frame
lose its end and the next one its header, or one frame be hit twice, and the
frames are chosen for the stuffing: an empty payload, three header bytes, header
and stuffing byte, a payload whose last byte and a checksum whose first byte are
header bytes, and checksums that end with one and with two of them. `Noise` has
the two special bytes and an id.
In the `Session` runs `CHECK_DEADLOCK FALSE`: the process ends when the window
closes or an exception takes it down. The other runs that have it are bounded by
what the user or the rig does (samples, widgets, inputs, frames, seconds,
arrays): they stop when the bound is used up.

In `plc` three units per frame are the fewest for which a chunk can begin inside
a payload; two frames per buffer half take the frames of one cycle, and those of the
next one meet a full buffer; with 5 units under way a full half is always sent in
parts, cut inside a frame or between the two. In the chart four samples and a step of two give an unfinished block, a
change of the step in both directions and a block that the cache ends in. In the
settings one reopened measurement is enough to bring old settings into the
tree. In the docks the second measurement may be of the experiment of the first or of
the other one, so that a curve can follow it, keep what it showed or be new. The widgets have as many names as an edit needs to exchange them.
In `gamepad` three inputs are a press, a stick and one more while the first is
queued. In `array` 60 elements fill seven frames, the last one in part.
The menus have as many ports as connections, the least that can go round.

*Fairness* (`FairSpec`). A handler runs to its end (`WF` of `GuiStep`), reader
threads are preemptive (`WF` of each `Reader(c)` and of `GhostEmits`), Qt serves
its queue in order and an armed timer fires again and again, also when the user
keeps clicking (`SF` of `HandleEvent` and `HeartbeatTick`). Nothing is assumed of
the user, the network or the rigs. In `PlcServer` the PLC runs its cycle every
100 ms and the vendor's calls are not busy for ever (`WF` of `Progress`), the
client's reader runs and closes what the server has closed. In `GamePad` the thread is scheduled
(`WF` of `Loop`, `Read`, `OutputAbsEvent`), time passes (`Tick`), and the event loop
of the window serves its queue and leaves `wait` (`Handle`, `Stopped`).

*What the program does not promise.* With two connections a failing write does
end in `KeyError`, and so does the first write after `connect` has returned at a
refused second connection, which leaves Start enabled by the first:
`OnlyModulesRaise` holds for a single connection, and for several that can all be
opened and written to. It allows one exception, that of a module which refuses
its parameters in a send or a stop: it ends the program, and after a stop the rig
is left running and nothing is saved. What a widget sends has not arrived
if a button's reset has put this value into `modSets` and the rig still has the
value of such a button; the instance has a widget for it, and `WidgetReaches` and
`RigKnown` allow this case and no other. After a second start the curves show the
measurement before until they are drawn again, and for good those whose data
point the new one lacks; `CurvesFollow` says that a curve never turns to any
measurement but the current one, `CurvesAreRecorded` that what it keeps was
recorded. An export whose thread fails is never over, so nothing is said
about its end. With names that are used twice the
remote section is not what is on display; names are unique here. Names of
pictures and saving are promised of runs in which the visualizer and its option
are left alone. A rig that was started and whose link then breaks stays running; with links
that work `RigsFollow` excludes that. `InOrder` and `ImplementsQueue` are about the
first client: what is left in the halves of `outBuffer` when a connection ends
is sent to the next one, which `deinit` has begin with half 0, so samples of half 1
that are older can come after it (`TcpIpServer.cpp:38`). `Relistens` and `StopObeyed` except a server that has
ended in an error.

## 5. Findings

Two runs end in a violation:

* `close`: `closeEvent` says it "Disconnects all connections", but after a
  connect of which a later part was refused `isConnected` is False and the open
  connection is left as it is.
* `frames`: the slot of `received` is a lambda over the loop variable `name`, so
  frames of every connection but the last are handled under another name, and
  modules do not read from "the correct connection" as the guide says.

The others were met while modelling. They are in the models, where a constant
(in brackets) keeps the user or the rig from the case or lets it happen. The
statement that they break is a definition of the module; one that no instance
keeps is at its end, under "What a comment or a guide says and the code does not
keep". No run checks these cases.

| Module | What the code does | Statement |
|---|---|---|
| `Session` | (two connections) after a failed write the nested disconnect has deleted the other connections' instances, which the loop that was sending looks up: `KeyError` (`gui.py:1250`); a refused second connection never gets one (`gui.py:1239`), though the first has enabled Start (`gui.py:1229`) | `OnlyModulesRaise` |
| | (`badparam`) only `runExperiment` catches the exception of a module that refuses its parameters (`experiments.py:396`); in a send or a stop it leaves the slot (`experiments.py:422`, `436`, `457`), and in a stop `runningExperiment` is already False: no stop is sent and nothing is saved | `app = "params"`, allowed by `OnlyModulesRaise` |
| `PlcServer` | the rest of an interrupted send outlives its connection, the next client's chunks are all shifted (`TcpIpServer.cpp:166`) | `EveryChunkIsFrame` |
| | (a command in two pieces) it is handled twice, with a payload byte for its id (`TcpIpServer.cpp:236`) | `RigAgrees` |
| | an error while the sockets are closed is for ever (`TcpIpServer.cpp:305`): state `Ended` | `Relistens` without `Ended` |
| `Settings` | (`SendAll`) "Send parameter" does not note what it sends: a setting that is changed back afterwards is never sent (`experiments.py:428`) | `ChangedReachRig` |
| | (`Widgets`) a button's reset is noted in `modSets` and not sent (`gui.py:1549`): the next widget that sends this value sends nothing (`experiments.py:418`) | `WidgetSends` |
| | (`DataMods`) without a measurement the Send buttons fail (`gui.py:989`) | `SlotReturns` |
| `PlotChart` | a curve without data leaves an empty cache, and the next update raises `IndexError` (`plotchart.py:234`) | `UpdatesAll` |
| | (`Ties`) at full resolution the cache is the buffer: with two samples of one time every redraw appends to the record (`plotchart.py:240`) | `RecordKept` |
| | (`Restarts`) times that step back break `assert( len(x) > ix )` (`plotchart.py:236`) | `CacheInBuffer` |
| `PlotDocks` | without a measurement a data point that is removed stays in its open plot (`gui.py:776`) | `CurvesAreItems` |
| | (`DockExps`) a data point that the current measurement lacks raises `KeyError` (`gui.py:747`) | `SlotReturns` |
| | an opened measurement leaves the curves that it lacks to another one (`gui.py:844`) | `LoadShows` |
| | an export that fails is never over: `done` is not emitted (`utils.py:286`) | `ExportEnds` |
| `RemoteWidgets` | (`Unique`) a name given twice: two widgets, one entry (`gui.py:1474`), and the menu of the second raises `KeyError` (`gui.py:1425`) | `Saved`, `MenuReturns` |
| | an edit drops the gamepad control (`gui.py:1457`) | `SavedPad` |
| | a removed widget still acts on the gamepad (`utils.py:865`) | `PadControlsShown` |
| | applying with a gamepad selected raises `TypeError` (`gui.py:1168`) | `ApplyReturns` |
| `RemoteSlider` | editing a slider sets it back to where it was built and sends that value (`utils.py:992`) | `EditWritesNothing` |
| | (`Ranges`) a step of zero or an empty field raises (`utils.py:911`) | `AddReturns` |
| | (`Pars`) so does a module without settings (`gui.py:1521`) | `ModuleOffered` |
| `GamePad` | a gamepad that is only selected moves the sliders (`gamepad.py:49`) | `UntouchedMovesNothing` |
| `ArrayFrames` | (sizes) a frame length that is no multiple of the element's loses elements (`utils.py:129`) | `Complete` |
| `Menus` | the port menus give one Arduino to several connections (`gui.py:559`) | `MenuGivesFree` |
| | (`Scarce`) one Arduino too few: the window is not built (`gui.py:532`) | `StartsUp` |
| | the baud menu raises `TypeError` (`gui.py:515`) | `BaudMenuOpens` |
| | the dialogs accept an empty field and numbers outside the range (`utils.py:377`, `connection.py:197`) | `TimerInRange`, `TcpConnects` |
| `Animation` | checking the option or selecting a visualizer during a run ends the program (`visualization.py:160`) | `SelectedAtRuntime` |
| | (`Visu`) after an experiment without visualizers the one before is still updated (`gui.py:464`) | `DrawnIsShown` |
| | (`Vtk`) a visualizer that needs vtk ends a program without vtk (`gui.py:1122`) | `LoadReturns` |

An exception in a slot ends the process, as PyQt5 does without a
`sys.excepthook`.

## 6. The proofs

The theorems hold for every value of the constants that the named assumptions
allow; where one needs more, the hypothesis is in its statement and said here.

**`SessionProofs`**: any number of connections, modules and experiments, every set
of faults.

* `TypeCorrect`: `Spec => []TypeOK`. One lemma per part of the next-state
  relation (`UserType`, `EventLoopType`, `GuiStepType`, ...); the work is in the
  call stack and the queues, which stay sequences of well-typed elements.
* `TimerInvariant`: `Spec => []TimerInv`. `TimersOnlyInRun` is not inductive: it
  speaks of an empty stack only. `TimerInv` adds what the pending steps promise:
  a clock that runs while Stop is disabled still has its `clockOff` on the
  stack; a `reset` or `connect` is pending only when nothing can be stopped;
  after a refused parameter the stack is exactly save, halt, clockOn; an
  experiment that is no longer running while Stop is still enabled has a
  `finished` or `halt` to come. `Due` is the set of names on the stack; the
  lemmas `NamesConcat`, `NamesParams`, ... say how pushing and popping change it.
* `TimersStopWithRun`: `Spec => []TimersOnlyInRun`, which `TimerInv` implies
  because an empty stack promises nothing.

**`SessionRunProofs`**: the same generality. What a run promises does not hold
while handlers are nested, so each invariant says what the stack still owes. The
lemmas on `Elems` (the set of steps on the stack), `OneSave` and `Safe` say how
pushing a handler's steps and popping one change them.

* `ButtonsAgree` and `ConnectedIsAll` from `LinksInv`: a broken connection leaves
  `isConnected` set and Connect off only while the handler that noticed it is on
  the stack; `MainGui.connect` has a step left for every connection that it has
  not opened.
* `RecordsOnce` from `RecInv`: while an experiment runs its item is in the list
  and no save is due; afterwards exactly one save is due, or it has been done.
  Stop, the nested stop of a disconnect and a refused start all save, and the proof
  shows for each why the others then do not.
* `RigsStartInRun` from `ActInv`: outside a run, each start or heartbeat
  command left of an interrupted handler stands behind steps that
  close every connection still open, so it is never delivered.
* `SessionImplementsLog`: `Spec => ImplementsLog`. `Begin` and `Refuse` are
  `UserStart`; `End` is any step that calls `StopExperiment` or notices a missed
  heartbeat, `Save` is `SaveLastMeas`, `Activate` and `Deactivate` are
  `WriteDelivered` and `RigMissesBeat`; all other steps stutter. The guards of the
  log come from `RecInv` and `ActInv`.

**`SessionCasesProofs`**: two properties that hold in some sessions only. Their
hypotheses admit the runs that check them.

* `SlotsRaiseNothing`: `[]OnlyModulesRaise` for one connection and any faults, and
  for any number of connections if none is refused or broken (frames may get
  lost, rigs may stop), if every experiment has data points, the same for all. In
  all of them modules may refuse their parameters at any time; what they raise in
  a send or a stop is the exception that `OnlyModulesRaise` allows. Without the first, a nested
  disconnect removes instances that an interrupted loop goes on to look up
  (section 5); without the second, sending a parameter finds no measurement or
  data arrives for a module without a buffer. In the second case `SoundInv` (an
  open connection has a link and a pipeline) excludes the failing write. Four invariants: what waits to be
  written finds an instance (`WritesInv`), what the buttons' slots look up is
  there (`LookupInv`, with `ToggleInv` for the buttons), and data finds a buffer
  (`BufInv`). `RecInv` supplies the item that a save needs.
* `RigsFollowRun`: `[]RigsFollow` for any number of connections if links and rigs
  work; a connect may be refused and a module may reject its parameters at any
  time, also when that leaves some connections open and others not.
  `CalmInv` says that nothing on a link has failed, `StaleInv` that a closed
  instance is about to be deleted, `FollowInv` that as long as commands
  wait no closed connection would swallow them and none is closed before they are
  written, and that a rig which does not yet do what the experiment does has its
  command waiting. `NoneAfter` is the order of the stack that this rests on.

**`MinLinkProofs`**: payloads of any length, any checksum of four bytes, any noise
and any number of faults.

* `LinkInvariant` (`[]LinkInv`): `TypeOK` and `InStep` are inductive
  together, with one lemma per action. `BackInStep` speaks of the moment between
  two frames only. `InStep` says what holds inside a frame that has not been
  disturbed: `HDRStuf` holds back as many header bytes as `Packer` has counted,
  and `Unpacker` has exactly the bytes before those (`Has`). `TakesNext` is the
  central lemma: with the next byte of the body `Unpacker` has one more or, at
  the last one, delivers the frame; `BodyByte`, `StuffingByte` and `EndByte`
  apply it once or twice, depending on what is held back. The frame before only
  has to leave `HDRStuf` empty, which its end byte does.
* `Resyncs`: `Spec => []BackInStep`.
* `NothingForgedInStep`: `NothingForged` before the first fault (`Unharmed`) and
  whenever `good = 2`, within frames too. Without these hypotheses it is false
  for some frames and checksums (below).

**`PlcServerProofs`**: any frame length, size of the buffers and set of faults.

* `FramesArrive`: buffers hold whole frames within their room (`TypeOK`), and
  every chunk the `Receiver` hands on is a frame unless the connection was given
  the rest of an interrupted send (`ChunksAreFrames`). `ChunkInv`: what the client
  has kept, what is under way and what is left to send are whole frames when
  joined. `Ways` ties the states of the server to those of the connection.
* `SamplesInOrder`: `Spec => InOrder` for the first connection. `FirstInv` numbers
  the whole stream, from the client's buffer to the frames still in `outBuf`.
* `ServerImplementsQueue`: `Spec => ImplementsQueue`. `Moves` sorts the steps of the
  first connection: a cycle puts samples behind the stream (`Grows`), the client
  reads, or the stream stays; `FramesOfUnits` gives the frames of a stream back,
  with which `GrowsPuts` and `ReadTakes` turn the first two into `Put` and `Take`.
  `InOrder` numbers samples modulo `Serials` and would not see as many lost; the
  queue has each of them.
* `RigObeys`: `[]ServerInv` if the network delivers commands unsplit (without
  that it is false, section 5). `RigInv`: the commands under way are whole, and
  the last of them that starts or stops decides; without one, the rig has
  obeyed. The proofs join sequences with `Cat`, which is `\o` under a name that
  is not expanded, so that the provers use its laws only.

**`GamePadProofs`**: any number of positions, inputs and selections.

* `ThreadOwned` (`[]PadInv`) and `EveryPressOnce` (`[]ClicksArePresses`), inductive
  together: a press is counted in the device's queue, among the signals or in the
  clicks. `Hits` counts the elements in a set, for which the lemmas on `Append` and
  `Tail` can be proved; `Count` takes a predicate, over which no lemma can quantify.

**`ArrayFramesProofs`**: every length of the array and all sizes.

* `FramesInOrder` (`[]FramesInv`): the rig has a beginning of the array and the
  next frame continues it.
* `ArrayArrives` (`[]Complete`), for frames of whole elements (`Whole`; without it
  elements are lost, section 5). `ArrayInv` says what the rig has in the middle of
  an array: the elements below the room of the frames written so far. `Rounding`
  and `RoomForAll` are the arithmetic of the number of frames, `FrameContents` says
  that each frame begins where the room of those before it ends.

**`WindowProofs`**: the parts of `MainWindow`, with any values of their constants.
An exception that section 5 lists needs a hypothesis that excludes its cause.
`PartSteps` says that a step of the window is one of the part that is looked at;
each part has an inductive invariant of its own.

* `SettingsAgree` (`[]SettingsInv`) and `WidgetsReach` (`[]WidgetReaches`), if "Send
  parameter" is not used (`SendAll`), for any widgets. `SettingsIInv` adds that the
  trees on display and in the measurements are those of registered modules, and
  that the current measurement is on display only while it runs. `RigKnown` needs
  the shape of its exception (`Pulsed`): a rig and `modSets` differ only where the
  rig has the value of a button that resets and `modSets` the value to which one
  of that parameter resets. `OverSent` says how sending the changed modules
  restores the rest.
* `SectionIsShown` (`[]SectionInv`), if no name is given twice (`Unique`): the
  names of the widgets are distinct, and the section of the experiment has the
  entry of each. An edit takes the old entry out before it puts the new one in.
* `SliderStands` (`[]SliderInv`). `Position` is the nearest step: the lemmas about
  rounding say that it stays within the range and that a position that a user
  sets is the one of the value it writes. The dialog needs its own invariant,
  `DialogWell`: what its fields offer belongs to the module they show.
* `DialogIsQuiet` (`DialogWritesNothing`): every action that leaves the dialog.
* `PlotsFollow` (`[]PlotsInv`), `CurvesTurnToCurrent` (`CurvesFollow`) and
  `EditsAreShown` (`EditShows`), for experiments with any data points.
  `PlotsInv` becomes inductive with the types of the charts (`ChartsWell`) and a
  run that always has a measurement (`RecordWell`). `CurvesFollow` then follows
  for each action from what it does to the charts: they are drawn with the
  current measurement (in a run that is the last one, by `RunIsCurrent`), or
  only opened, edited or closed.
* `RecordStands` (`[]RecordInv`) and `DrawingIsRecord` (`DrawsRecord`), if the times
  of a data point grow (`Ties` and `Restarts` are FALSE, as in the run; what
  happens otherwise is in section 5). Then a buffer holds `From(a, m)`, the m times
  from a on. `BisectIs` computes the bisection of such a list by induction on the
  interval that is left: a set of naturals has a least element (`LeastIs`), so
  there is no smallest interval for which it fails. `DownsampleRow`: each point that
  `_downsample` makes is the middle of its block and has all of it. `ChartIInv` adds
  to the record that the drawn points lie in it (`CurvesWell`) and that a cache
  covers every time up to its last point (`Covering`); from it `FreshIs` has the
  assertion of `_cachedsample` and that the times after the last point are appended.
* `PicturesKept` (`[]PicturesInv`), if every experiment has a visualizer that loads
  (`AllDrawn`) and no two runs begin in the same second (`Fast`), by which the
  files are named. `FilesWell`: the pictures of the visualizer's present name
  are numbered below its counter, so the next one is new and the number of
  files is that of the pictures saved. `RunWell`: while a run is quiet, the
  visualizer has its name and the time of its start.
* `PortsStay` (`[]PortsInv`). `comports()` is the list of what is plugged in;
  `NthIs` says that its n-th entry exists and is another one for another n: the
  rank of a port is an injection into as many numbers as there are ports, hence
  onto them (`FS_Injection`).

*Only model-checked.* `NothingForged` is no property of all frames: it is false for
a checksum that collides, and for a payload that carries the bytes of another
frame, which two header bytes inserted before them turn into that frame. None of
the frames of the run does that; what holds for all of them is
`NothingForgedInStep`. Liveness (`Responds`, `DropEndsSession`,
`HeartbeatFindsEnd`, `ReadersEnd`, `Relistens`, `StopObeyed`, `StopReturns`,
`StickSettles`) is out of the prover's reach. What happens outside
the hypotheses above is in section 5.

## 7. Not modelled

* `pywisp/inputs.py` is a copy of a library; `GamePad` has the device that it
  reads and the way it fails, on Linux. The abbreviations of the controls and
  the Windows branch are tables.
* `settings.py` and `fileselector.py`: stored preferences and a dialog for files.
* In `gui.py`: building the window, the status bar, colours, the log view, the
  recent files, the layout of docks. In `utils.py`: moving a widget, the layout,
  the log handler, the entry of a shortcut. In `visualization.py`: what is drawn.
* Floating point: a slider's quotient (`int` of 0.3 / 0.1 is 2) and the means of
  the plots are exact in the models.
* The order of bytes in a payload: `examples/tcp/bur/client` packs its values, the
  PLC's `Transport` unpacks them; a payload is one value here.
* The vendored PLC libraries, `ControlLoop`'s trajectory and the generic example:
  its transport and watchdog come from a library that is not in the repository.
* `experimentModules.py` is an interface.

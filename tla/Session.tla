------------------------------ MODULE Session ------------------------------
(***************************************************************************)
(* One session of the PyWisp GUI: the connections of pywisp/connection.py, *)
(* the experiment life cycle of pywisp/experiments.py and the buttons,     *)
(* timers and measurement list of pywisp/gui.py, with the test rigs behind *)
(* the connections.                                                        *)
(*                                                                         *)
(* Threads.  The GUI thread runs one handler at a time, to its end.  Qt    *)
(* signals emitted by the GUI thread call their slots directly, so a       *)
(* failing write may run Connection.disconnect, MainGui.disconnect and     *)
(* MainGui.stopExperiment in the middle of another handler.  "todo" is the *)
(* continuation of the GUI thread: the steps that the handlers on its call *)
(* stack still have to take, innermost first.  The event loop takes the    *)
(* next click, timer tick or queued signal only when todo is empty.  Every *)
(* connection has a reader thread (ConnReader) whose signals are queued in *)
(* "inbox", the event queue of the GUI thread.                             *)
(***************************************************************************)
EXTENDS Naturals, Sequences, FiniteSets

CONSTANTS
  ConnSeq,    \* the registered connections, in the order of MainGui.connections
  Exps,       \* the experiments of the loaded file
  Mods,       \* the registered experiment modules
  ModulesOf,  \* experiment |-> the sequence of its modules
  ConnOf,     \* module |-> the connection it names
  DataMods,   \* the modules that have data points
  Heartbeat,  \* is Config/HeartbeatTime different from 0?
  Faults,     \* the faults that may happen in this instance
  MaxInbox,   \* bound on the event queue of the GUI thread
  MaxOut,     \* bound on the frames on their way from a rig to the PC
  Unbound     \* a value that is no connection

Conns == {ConnSeq[i] : i \in 1..Len(ConnSeq)}
Optional == Conns \cup {Unbound}

FaultKinds == {"refuse", "reset", "eof", "timeout", "loss", "miss", "badparam"}
TimerNames == {"plot", "heart", "clock"}
Messages == {"param", "start", "stop", "beat"}
RigFrames == {"data", "miss"}

ASSUME ConnSeqAssumption ==
  /\ Len(ConnSeq) \in Nat \ {0}
  /\ ConnSeq \in Seq(Conns)
  /\ Unbound \notin Conns
ASSUME ModuleAssumption ==
  /\ ConnOf \in [Mods -> Conns]
  /\ ModulesOf \in [Exps -> Seq(Mods)]
  /\ DataMods \subseteq Mods
ASSUME BoundAssumption ==
  /\ Heartbeat \in BOOLEAN
  /\ Faults \subseteq FaultKinds
  /\ MaxInbox \in Nat
  /\ MaxOut \in Nat

VARIABLES
  app,          \* "up", "closed", or the exception that took the process down
  todo,         \* the steps the GUI thread still has to take, innermost first
  inbox,        \* signals of the reader threads queued for the GUI thread
  ghosts,       \* signals that readers of replaced connections still have to emit
  connOn,       \* is actConnect enabled (actDisconnect is its complement)
  startOn,      \* is actStartExperiment enabled
  stopOn,       \* is actStopExperiment enabled
  sendOn,       \* are actSendParameter and actSendChangedParameter enabled
  isConnected,  \* MainGui.isConnected
  selected,     \* MainGui.selectedExp
  timers,       \* the active ones of timer, heartbeatTimer and guiTimer
  exp,          \* the experiment in ExperimentInteractor.targetModel
  running,      \* ExperimentInteractor.runningExperiment
  modSets,      \* the keys of ExperimentInteractor.modSets
  bufs,         \* the modules whose data points _currentDataPointBuffers holds
  current,      \* how many items of lastMeasList carry "~current~"
  measured,     \* the experiments in MainGui.measurements
  shown,        \* _currentLastMeasItem: none, one with "~current~", or a past one
  bound,        \* "name" in the closure of the connect call made last
  inst,         \* connection |-> none, open (connected) or stale (not connected)
  sender,       \* connection |-> is the generator pipeline Connection.tx alive
  link,         \* connection |-> closed, up, reset or eof
  reader,       \* connection |-> where its ConnReader thread is
  held,         \* connection |-> the frame its reader is about to emit
  out,          \* connection |-> frames the rig has sent, not yet received
  rig           \* connection |-> is the rig behind it idle or running

buttons == <<connOn, startOn, stopOn, sendOn>>
flags == <<isConnected, selected, timers>>
experiment == <<exp, running, modSets>>
record == <<bufs, current, measured, shown>>
threads == <<reader, held, inbox, ghosts>>
io == <<bound, inst, sender, link>>
rigs == <<out, rig>>
vars == <<app, todo, buttons, flags, experiment, record, threads, io, rigs>>

-----------------------------------------------------------------------------
(* The steps of the GUI thread.                                            *)

StepNames == {"write", "keep", "finished", "connect", "close", "forget",
              "reset", "halt", "save", "clockOff", "clockOn", "exit"}
Step == [do : StepNames, to : Optional, msg : Messages]

Do(name) == [do |-> name, to |-> Unbound, msg |-> "param"]
At(name, c) == [do |-> name, to |-> c, msg |-> "param"]
Write(c, m) == [do |-> "write", to |-> c, msg |-> m]

\* mutant: the loop of writeToConnection starts one connection late
BroadcastLate(m) == [i \in 1..(Len(ConnSeq) - 1) |-> Write(ConnSeq[i + 1], m)]

\* a command with id 1 goes to every connection, in the order of the dict
Broadcast(m) == [i \in 1..Len(ConnSeq) |-> Write(ConnSeq[i], m)]
ForEach(name) == [i \in 1..Len(ConnSeq) |-> At(name, ConnSeq[i])]

\* the frames of the modules of e that are in ms, in the order of activeModules
Params(e, ms) ==
  [i \in 1..Len(ModulesOf[e]) |->
     IF ModulesOf[e][i] \in ms THEN Write(ConnOf[ModulesOf[e][i]], "param")
     ELSE Do("keep")]

\* runExperiment: the start parameters and the parameters of every module
StartParams(e) ==
  [i \in 1..(2 * Len(ModulesOf[e])) |-> Write(ConnOf[ModulesOf[e][(i + 1) \div 2]], "param")]

ModsOf(e) == {ModulesOf[e][i] : i \in 1..Len(ModulesOf[e])}
DataOf(e) == ModsOf(e) \cap DataMods

Event == [kind : {"data", "miss", "err"}, conn : Conns, tag : Optional]
Live(k, c) == [kind |-> k, conn |-> c, tag |-> Unbound]
\* an event whose connection has been replaced keeps the closure it came with
Retire(e) == [e EXCEPT !.tag = IF e.tag = Unbound THEN bound ELSE e.tag]

Idle == app = "up" /\ todo = <<>>
Next1(name) == app = "up" /\ todo # <<>> /\ Head(todo).do = name

Init ==
  /\ app = "up" /\ todo = <<>> /\ inbox = <<>> /\ ghosts = {}
  /\ connOn = TRUE /\ startOn = FALSE /\ stopOn = FALSE /\ sendOn = FALSE
  /\ isConnected = FALSE /\ selected = TRUE /\ timers = {}
  /\ exp \in Exps /\ running = FALSE /\ modSets = {}
  /\ bufs = {} /\ current = 0 /\ measured = {} /\ shown = "none"
  /\ bound = Unbound
  /\ inst = [c \in Conns |-> "none"]
  /\ sender = [c \in Conns |-> "alive"]
  /\ link = [c \in Conns |-> "closed"]
  /\ reader = [c \in Conns |-> "off"]
  /\ held = [c \in Conns |-> "data"]
  /\ out = [c \in Conns |-> <<>>]
  /\ rig = [c \in Conns |-> "idle"]

-----------------------------------------------------------------------------
(* Handlers shared by several callers.                                     *)

\* the steps of ExperimentInteractor.stopExperiment; the mutant lacks its guard
StopStepsAlways ==
  Params(exp, Mods) \o Broadcast("stop") \o <<Do("save"), Do("clockOff")>>
StopSteps ==
  IF running
  THEN Params(exp, Mods) \o Broadcast("stop") \o <<Do("save"), Do("clockOff")>>
  ELSE <<Do("clockOff")>>

\* timer.stop and heartbeatTimer.stop; the mutant forgets the second
OnlyPlotStopped == timers \ {"plot"}
StoppedTimers == timers \ {"plot", "heart"}

Crash(reason) ==
  /\ app' = reason
  /\ UNCHANGED <<todo, buttons, flags, experiment, record, threads, io, rigs>>

\* getStartParams, getParams or getStopParams of one of the modules ms raises
\* ExperimentModuleException, which only runExperiment catches
Refused(ms) == "badparam" \in Faults /\ ms # {}

\* the stop parameters are collected when the experiment has ended for the GUI
\* and before anything is sent or saved: what todo holds is then never done
StopParamsTaken ==
  \/ UNCHANGED app
  \/ running /\ Refused(ModsOf(exp)) /\ app' = "params"

\* MainGui.stopExperiment with the ExperimentInteractor.stopExperiment it calls
StopExperiment(rest) ==
  /\ StopParamsTaken
  /\ startOn' = (startOn \/ selected)
  /\ stopOn' = FALSE
  /\ sendOn' = FALSE
  /\ timers' = StoppedTimers
  /\ running' = FALSE
  /\ todo' = StopSteps \o rest
  /\ UNCHANGED <<connOn, isConnected, selected, exp, modSets>>

\* mutant: the instance is deleted as soon as its connection drops
DropInstance(c) ==
  /\ inst' = [inst EXCEPT ![c] = "none"]
  /\ link' = [link EXCEPT ![c] = "closed"]
  /\ UNCHANGED <<bound, sender>>

\* _disconnect of the port or the socket
LinkCloses(c) == link' = [link EXCEPT ![c] = "closed"]

\* Connection.disconnect: connected = False, worker.quit, socket closed
CloseConnection(c) ==
  /\ inst' = [inst EXCEPT ![c] = "stale"]
  /\ LinkCloses(c)
  /\ UNCHANGED <<bound, sender>>

-----------------------------------------------------------------------------
(* What the user and the event loop start: only with an empty call stack.  *)

\* MainGui.connect; everything an earlier connect left behind is now old
UserConnect ==
  /\ Idle /\ connOn
  /\ todo' = ForEach("connect")
  /\ inbox' = [i \in 1..Len(inbox) |-> Retire(inbox[i])]
  /\ ghosts' = ghosts
       \cup {Retire(Live(held[c], c)) : c \in {d \in Conns : reader[d] = "emit"}}
       \cup {Retire(Live("err", c)) : c \in {d \in Conns : reader[d] = "fail"}}
  /\ reader' = [c \in Conns |-> "off"]
  /\ UNCHANGED <<app, buttons, flags, experiment, record, held, io, rigs>>

UserDisconnect ==
  /\ Idle /\ ~connOn
  /\ todo' = <<Do("finished")>>
  /\ UNCHANGED <<app, buttons, flags, experiment, record, threads, io, rigs>>

\* MainGui.startExperiment with the ExperimentInteractor.runExperiment it calls
UserStart ==
  /\ Idle /\ startOn
  /\ startOn' = FALSE /\ stopOn' = TRUE /\ sendOn' = TRUE
  /\ IF DataOf(exp) = {}
     THEN UNCHANGED <<todo, timers, running, modSets, record>>
     ELSE /\ bufs' = DataOf(exp)
          /\ current' = current + 1
          /\ measured' = measured \cup {exp}
          /\ shown' = "current"
          /\ timers' = timers \cup {"plot"} \cup (IF Heartbeat THEN {"heart"} ELSE {})
          /\ \/ /\ running' = TRUE
                /\ modSets' = modSets \cup ModsOf(exp)
                /\ todo' = StartParams(exp) \o Broadcast("start") \o <<Do("clockOn")>>
             \/ /\ Refused(ModsOf(exp))    \* caught here
                /\ running' = FALSE
                /\ \E k \in 1..Len(ModulesOf[exp]) :
                     modSets' = modSets \cup {ModulesOf[exp][i] : i \in 1..k}
                /\ todo' = <<Do("save"), Do("halt"), Do("clockOn")>>
  /\ UNCHANGED <<app, connOn, isConnected, selected, exp, threads, io, rigs>>

UserStop ==
  /\ Idle /\ stopOn
  /\ StopExperiment(<<>>)
  /\ UNCHANGED <<record, threads, io, rigs>>

\* MainGui.sendParameter: _currentLastMeasItem.text() needs an item
UserSendParameter ==
  /\ Idle /\ sendOn
  /\ \/ shown = "none" /\ Crash("item")
     \/ shown = "current" /\ Refused(ModsOf(exp)) /\ Crash("params")
     \/ /\ shown = "current"
        /\ todo' = Params(exp, Mods)
        /\ UNCHANGED <<app, buttons, flags, experiment, record, threads, io, rigs>>

\* the modules of the tree up to the first without an entry in modSets
LookedUp == {i \in 1..Len(ModulesOf[exp]) : \A j \in 1..i : ModulesOf[exp][j] \in modSets}

\* MainGui.sendChangedParameter: it needs an item, and modSets[name] every
\* active module; the first that is missing or refuses raises
UserSendChangedParameter ==
  /\ Idle /\ sendOn
  /\ \/ shown = "none" /\ Crash("item")
     \/ shown = "current" /\ ~(ModsOf(exp) \subseteq modSets) /\ Crash("modset")
     \/ shown = "current" /\ Refused(LookedUp) /\ Crash("params")
     \/ /\ shown = "current" /\ ModsOf(exp) \subseteq modSets
        /\ \E changed \in SUBSET ModsOf(exp) : todo' = Params(exp, changed)
        /\ UNCHANGED <<app, buttons, flags, experiment, record, threads, io, rigs>>

\* MainGui.experimentDclicked and _applyExperimentByIdx
UserApplyExperiment(e) ==
  /\ Idle /\ ~(isConnected /\ stopOn)
  /\ exp' = e
  /\ startOn' = (startOn \/ (isConnected /\ ~stopOn))
  /\ selected' = TRUE
  /\ UNCHANGED <<app, todo, connOn, stopOn, sendOn, isConnected, timers,
                 running, modSets, record, threads, io, rigs>>

\* MainGui.loadLastMeas of a measurement of experiment e
UserLoadLastMeas(e) ==
  /\ Idle /\ ~(isConnected /\ stopOn)
  /\ e \in measured
  /\ startOn' = FALSE
  /\ selected' = FALSE
  /\ exp' = e
  /\ \/ shown' = "past"
     \/ current > 0 /\ shown' = "current"
  /\ UNCHANGED <<app, todo, connOn, stopOn, sendOn, isConnected, timers, running,
                 modSets, bufs, current, measured, threads, io, rigs>>

\* MainGui.closeEvent
UserClose ==
  /\ Idle
  /\ todo' = (IF isConnected THEN <<Do("finished")>> ELSE <<>>) \o <<Do("exit")>>
  /\ UNCHANGED <<app, buttons, flags, experiment, record, threads, io, rigs>>

\* mutant: a tick is served although the timer has been stopped
HeartbeatLate ==
  /\ Idle /\ isConnected
  /\ todo' = Broadcast("beat")
  /\ UNCHANGED <<app, buttons, flags, experiment, record, threads, io, rigs>>

\* MainGui.heartbeat, the slot of heartbeatTimer
HeartbeatTick ==
  /\ Idle /\ "heart" \in timers
  /\ todo' = Broadcast("beat")
  /\ UNCHANGED <<app, buttons, flags, experiment, record, threads, io, rigs>>

-----------------------------------------------------------------------------
(* Signals of the reader threads, taken from the event queue.              *)

\* Connection.workerror: disconnect emits finished, workerror emits it again
HandleError ==
  /\ Idle /\ inbox # <<>> /\ Head(inbox).kind = "err"
  /\ inbox' = Tail(inbox)
  /\ todo' = <<Do("finished"), Do("finished")>>
  /\ IF Head(inbox).tag = Unbound /\ inst[Head(inbox).conn] = "open"
     THEN CloseConnection(Head(inbox).conn)
     ELSE UNCHANGED io
  /\ UNCHANGED <<app, buttons, flags, experiment, record, reader, held, ghosts, rigs>>

\* ExperimentInteractor.handleFrame of a frame with id 1: the rig missed a beat
HandleMissedBeat ==
  /\ Idle /\ inbox # <<>> /\ Head(inbox).kind = "miss"
  /\ inbox' = Tail(inbox)
  /\ StopParamsTaken
  /\ running' = FALSE
  /\ todo' = (IF running THEN <<Do("save")>> ELSE <<>>) \o <<Do("finished")>>
  /\ UNCHANGED <<buttons, flags, exp, modSets, record, reader, held, ghosts, io, rigs>>

\* ExperimentInteractor.handleFrame: the first active module of the connection
\* that knows the frame gets it
Takers(conn) == {m \in DataOf(exp) : ConnOf[m] = conn}

\* MainGui.updateData: the data points of a frame need buffers
HandleData ==
  /\ Idle /\ inbox # <<>> /\ Head(inbox).kind = "data"
  /\ inbox' = Tail(inbox)
  /\ LET tag == IF Head(inbox).tag = Unbound THEN bound ELSE Head(inbox).tag
     IN  \/ UNCHANGED app
         \/ /\ \E m \in Takers(tag) : m \notin bufs
            /\ app' = "buffer"
  /\ UNCHANGED <<todo, buttons, flags, experiment, record, reader, held, ghosts, io, rigs>>

-----------------------------------------------------------------------------
(* The steps of a handler.                                                 *)

\* Connection.__init__: the generators of tx, and the thread of a ConnReader
NewInstance(c) == sender' = [sender EXCEPT ![c] = "alive"]

\* _connect: the port or the socket is opened, with nothing received
LinkOpens(c) ==
  /\ link' = [link EXCEPT ![c] = "up"]
  /\ out' = [out EXCEPT ![c] = <<>>]

\* Connection.connect, when _connect has succeeded: the thread is started
Connected(c) ==
  /\ inst' = [inst EXCEPT ![c] = "open"]
  /\ reader' = [reader EXCEPT ![c] = "recv"]

\* one turn of the loop of MainGui.connect: Connection.connect succeeds
ConnectSucceeds ==
  /\ Next1("connect")
  /\ LET c == Head(todo).to IN
       /\ bound' = c
       /\ NewInstance(c) /\ LinkOpens(c) /\ Connected(c)
  /\ connOn' = FALSE
  /\ startOn' = (startOn \/ selected)
  /\ stopOn' = FALSE
  /\ isConnected' = TRUE
  /\ todo' = Tail(todo)
  /\ UNCHANGED <<app, sendOn, selected, timers, experiment, record,
                 held, inbox, ghosts, rig>>

\* mutant: the loop goes on with the next connection
ConnectContinues ==
  /\ Next1("connect") /\ "refuse" \in Faults
  /\ bound' = Head(todo).to
  /\ isConnected' = FALSE
  /\ todo' = Tail(todo)
  /\ UNCHANGED <<app, buttons, selected, timers, experiment, record, threads,
                 inst, sender, link, rigs>>

\* ... or fails, and the loop returns
ConnectFails ==
  /\ Next1("connect") /\ "refuse" \in Faults
  /\ bound' = Head(todo).to
  /\ isConnected' = FALSE
  /\ todo' = <<>>
  /\ UNCHANGED <<app, buttons, selected, timers, experiment, record, threads,
                 inst, sender, link, rigs>>

\* mutant: the rig keeps the command instead of a flag
RigKeepsCommand(m, r) == IF m = "param" THEN r ELSE m

\* Transport.unpackExp: the payload byte of id 1 is the activation flag
RigAfter(m, r) == IF m = "param" THEN r ELSE IF m = "stop" THEN "idle" ELSE "run"

\* MainGui.writeToConnection to one connection: conn['inst'] does not exist
WriteMissing ==
  /\ Next1("write") /\ inst[Head(todo).to] = "none"
  /\ Crash("inst")

\* mutant: writeData waits until it is connected
WriteStaleWaits ==
  /\ Next1("write") /\ inst[Head(todo).to] = "stale"
  /\ UNCHANGED vars

\* Connection.writeData does nothing without a connection
WriteStale ==
  /\ Next1("write") /\ inst[Head(todo).to] = "stale"
  /\ todo' = Tail(todo)
  /\ UNCHANGED <<app, buttons, flags, experiment, record, threads, io, rigs>>

\* the frame reaches the rig
WriteDelivered ==
  /\ Next1("write")
  /\ LET c == Head(todo).to IN
       /\ inst[c] = "open" /\ sender[c] = "alive" /\ link[c] = "up"
       /\ rig' = [rig EXCEPT ![c] = RigAfter(Head(todo).msg, rig[c])]
  /\ todo' = Tail(todo)
  /\ UNCHANGED <<app, buttons, flags, experiment, record, threads, io, out>>

\* the operating system took the bytes, the rig never gets them; a peer that
\* has closed its socket answers with a reset
WriteLost ==
  /\ Next1("write")
  /\ LET c == Head(todo).to IN
       /\ inst[c] = "open" /\ sender[c] = "alive"
       /\ \/ link[c] = "up" /\ "loss" \in Faults /\ UNCHANGED link
          \/ link[c] = "eof" /\ link' = [link EXCEPT ![c] = "reset"]
  /\ todo' = Tail(todo)
  /\ UNCHANGED <<app, buttons, flags, experiment, record, threads,
                 bound, inst, sender, rigs>>

\* sendall times out: writeData passes over it, but the exception has ended
\* the generators of Connection.tx
WriteTimeout ==
  /\ Next1("write") /\ "timeout" \in Faults
  /\ LET c == Head(todo).to IN
       /\ inst[c] = "open" /\ sender[c] = "alive" /\ link[c] # "reset"
       /\ sender' = [sender EXCEPT ![c] = "ended"]
  /\ todo' = Tail(todo)
  /\ UNCHANGED <<app, buttons, flags, experiment, record, threads, bound, inst, link, rigs>>

\* an ended pipeline raises StopIteration, a broken link an OSError
WriteFails ==
  /\ Next1("write")
  /\ LET c == Head(todo).to IN
       /\ inst[c] = "open"
       /\ sender[c] = "ended" \/ link[c] = "reset"
       /\ CloseConnection(c)
  /\ todo' = <<Do("finished")>> \o Tail(todo)
  /\ UNCHANGED <<app, buttons, flags, experiment, record, threads, rigs>>

\* sendChangedParameterExperiment passes over a module with unchanged settings
KeepParam ==
  /\ Next1("keep")
  /\ todo' = Tail(todo)
  /\ UNCHANGED <<app, buttons, flags, experiment, record, threads, io, rigs>>

\* MainGui.disconnect: stop a running experiment, then close every connection
Finished ==
  /\ Next1("finished")
  /\ LET rest == ForEach("close") \o <<Do("reset")>> \o Tail(todo) IN
       IF stopOn THEN StopExperiment(rest)
       ELSE todo' = rest /\ UNCHANGED <<app, buttons, flags, experiment>>
  /\ UNCHANGED <<record, threads, io, rigs>>

CloseOne ==
  /\ Next1("close")
  /\ LET c == Head(todo).to IN
       IF inst[c] = "open"
       THEN /\ CloseConnection(c)
            /\ todo' = <<Do("finished"), At("forget", c)>> \o Tail(todo)
       ELSE todo' = Tail(todo) /\ UNCHANGED io
  /\ UNCHANGED <<app, buttons, flags, experiment, record, threads, rigs>>

\* del conn['inst']
Forget ==
  /\ Next1("forget")
  /\ inst' = [inst EXCEPT ![Head(todo).to] = "none"]
  /\ todo' = Tail(todo)
  /\ UNCHANGED <<app, buttons, flags, experiment, record, threads,
                 bound, sender, link, rigs>>

\* mutant: actStartExperiment stays as stopExperiment left it
ResetKeepsStart ==
  /\ Next1("reset")
  /\ connOn' = TRUE /\ stopOn' = FALSE
  /\ isConnected' = FALSE
  /\ todo' = Tail(todo)
  /\ UNCHANGED <<app, startOn, sendOn, selected, timers, experiment, record,
                 threads, io, rigs>>

\* the end of MainGui.disconnect
ResetButtons ==
  /\ Next1("reset")
  /\ connOn' = TRUE /\ startOn' = FALSE /\ stopOn' = FALSE
  /\ isConnected' = FALSE
  /\ todo' = Tail(todo)
  /\ UNCHANGED <<app, sendOn, selected, timers, experiment, record, threads, io, rigs>>

\* expStop: MainGui.stopExperiment after a failed runExperiment
Halt ==
  /\ Next1("halt")
  /\ StopExperiment(Tail(todo))
  /\ UNCHANGED <<record, threads, io, rigs>>

\* expFinished: MainGui.saveLastMeas takes the first item with "~current~"
SaveLastMeas ==
  /\ Next1("save")
  /\ IF current = 0 THEN Crash("save")
     ELSE
        /\ current' = current - 1
        /\ shown' = IF shown = "current" THEN "past" ELSE shown
        /\ todo' = Tail(todo)
        /\ UNCHANGED <<app, buttons, flags, experiment, bufs, measured, threads, io, rigs>>

\* guiTimer.stop at the end of MainGui.stopExperiment
ClockOff ==
  /\ Next1("clockOff")
  /\ timers' = timers \ {"clock"}
  /\ todo' = Tail(todo)
  /\ UNCHANGED <<app, buttons, isConnected, selected, experiment, record, threads, io, rigs>>

\* mutant: without the question whether Stop is enabled
ClockAlwaysOn ==
  /\ Next1("clockOn")
  /\ timers' = timers \cup {"clock"}
  /\ todo' = Tail(todo)
  /\ UNCHANGED <<app, buttons, isConnected, selected, experiment, record, threads, io, rigs>>

\* guiTimer.start at the end of MainGui.startExperiment, if still running
ClockOn ==
  /\ Next1("clockOn")
  /\ timers' = IF stopOn THEN timers \cup {"clock"} ELSE timers
  /\ todo' = Tail(todo)
  /\ UNCHANGED <<app, buttons, isConnected, selected, experiment, record, threads, io, rigs>>

Exit ==
  /\ Next1("exit")
  /\ app' = "closed"
  /\ todo' = Tail(todo)
  /\ UNCHANGED <<buttons, flags, experiment, record, threads, io, rigs>>

-----------------------------------------------------------------------------
(* ConnReader.run.                                                         *)

\* _recv returns the next frame
Receives(c) ==
  /\ link[c] # "closed" /\ out[c] # <<>>
  /\ held' = [held EXCEPT ![c] = Head(out[c])]
  /\ out' = [out EXCEPT ![c] = Tail(out[c])]

ReaderReceives(c) ==
  /\ app = "up" /\ reader[c] = "recv" /\ Receives(c)
  /\ reader' = [reader EXCEPT ![c] = "emit"]
  /\ UNCHANGED <<app, todo, buttons, flags, experiment, record, inbox, ghosts, io, rig>>

\* mutant: the exception of a closed socket does not leave the loop
ReaderMissesStop(c) ==
  /\ app = "up" /\ reader[c] = "recv" /\ inst[c] # "open" /\ link[c] # "closed"
  /\ reader' = [reader EXCEPT ![c] = "off"]
  /\ UNCHANGED <<app, todo, buttons, flags, experiment, record, held, inbox, ghosts, io, rigs>>

\* the loop sees the stop flag, or _recv raises on the closed socket after it
ReaderStops(c) ==
  /\ app = "up" /\ reader[c] = "recv" /\ inst[c] # "open"
  /\ reader' = [reader EXCEPT ![c] = "off"]
  /\ UNCHANGED <<app, todo, buttons, flags, experiment, record, held, inbox, ghosts, io, rigs>>

\* mutant: the reader passes over every exception
ReaderPasses(c) ==
  /\ app = "up" /\ reader[c] = "recv" /\ inst[c] = "open" /\ link[c] = "reset"
  /\ UNCHANGED vars

\* _recv raised and the stop flag was not set when it was read
ReaderFails(c) ==
  /\ app = "up" /\ reader[c] = "recv" /\ inst[c] = "open" /\ link[c] = "reset"
  /\ reader' = [reader EXCEPT ![c] = "fail"]
  /\ UNCHANGED <<app, todo, buttons, flags, experiment, record, held, inbox, ghosts, io, rigs>>

\* received.emit or err.emit
ReaderEmits(c) ==
  /\ app = "up" /\ Len(inbox) < MaxInbox
  /\ \/ /\ reader[c] = "emit"
        /\ inbox' = Append(inbox, Live(held[c], c))
        /\ reader' = [reader EXCEPT ![c] = "recv"]
     \/ /\ reader[c] = "fail"
        /\ inbox' = Append(inbox, Live("err", c))
        /\ reader' = [reader EXCEPT ![c] = "off"]
  /\ UNCHANGED <<app, todo, buttons, flags, experiment, record, held, ghosts, io, rigs>>

\* the same for the reader of a connection that has been replaced since
GhostEmits ==
  /\ app = "up" /\ Len(inbox) < MaxInbox
  /\ \E g \in ghosts : inbox' = Append(inbox, g) /\ ghosts' = ghosts \ {g}
  /\ UNCHANGED <<app, todo, buttons, flags, experiment, record, reader, held, io, rigs>>

-----------------------------------------------------------------------------
(* The links and the rigs.                                                 *)

LinkResets(c) ==
  /\ "reset" \in Faults /\ link[c] \in {"up", "eof"}
  /\ link' = [link EXCEPT ![c] = "reset"]
  /\ out' = [out EXCEPT ![c] = <<>>]
  /\ UNCHANGED <<app, todo, buttons, flags, experiment, record, threads,
                 bound, inst, sender, rig>>

\* the peer closes: recv returns no bytes from now on, and raises nothing
LinkEnds(c) ==
  /\ "eof" \in Faults /\ link[c] = "up"
  /\ link' = [link EXCEPT ![c] = "eof"]
  /\ UNCHANGED <<app, todo, buttons, flags, experiment, record, threads,
                 bound, inst, sender, rigs>>

\* an active rig sends its data in every cycle
RigSends(c) ==
  /\ rig[c] = "run" /\ link[c] = "up" /\ Len(out[c]) < MaxOut
  /\ out' = [out EXCEPT ![c] = Append(@, "data")]
  /\ UNCHANGED <<app, todo, buttons, flags, experiment, record, threads, io, rig>>

\* the watchdog of the rig: it stops by itself and says so with a frame of id 1
RigMissesBeat(c) ==
  /\ "miss" \in Faults /\ rig[c] = "run"
  /\ rig' = [rig EXCEPT ![c] = "idle"]
  /\ \/ link[c] = "up" /\ Len(out[c]) < MaxOut
        /\ out' = [out EXCEPT ![c] = Append(@, "miss")]
     \/ link[c] # "up" /\ UNCHANGED out
  /\ UNCHANGED <<app, todo, buttons, flags, experiment, record, threads, io>>

-----------------------------------------------------------------------------

User == \/ UserConnect \/ UserDisconnect \/ UserStart \/ UserStop
        \/ UserSendParameter \/ UserSendChangedParameter \/ UserClose
        \/ \E e \in Exps : UserApplyExperiment(e) \/ UserLoadLastMeas(e)

HandleEvent == HandleError \/ HandleMissedBeat \/ HandleData

GuiStep == \/ ConnectSucceeds \/ ConnectFails
           \/ KeepParam \/ Finished \/ CloseOne \/ Forget
           \/ WriteMissing \/ WriteStale \/ WriteDelivered \/ WriteLost
           \/ WriteTimeout \/ WriteFails
           \/ ResetButtons \/ Halt \/ SaveLastMeas \/ ClockOff \/ ClockOn \/ Exit

Reader(c) == ReaderReceives(c) \/ ReaderStops(c) \/ ReaderFails(c) \/ ReaderEmits(c)

Outside(c) == LinkResets(c) \/ LinkEnds(c) \/ RigSends(c) \/ RigMissesBeat(c)

Next == User \/ HeartbeatTick \/ HandleEvent \/ GuiStep \/ GhostEmits
          \/ \E c \in Conns : Reader(c) \/ Outside(c)

Spec == Init /\ [][Next]_vars

\* A handler runs to its end, the event queue of the GUI thread is served in
\* order (no click overtakes a queued signal for ever), an armed Qt timer fires
\* again and again, and the reader threads are preemptive threads.  Nothing is
\* assumed of the user, of the links and of the rigs.
FairSpec == /\ Spec
            /\ WF_vars(GuiStep) /\ WF_vars(GhostEmits)
            /\ SF_vars(HandleEvent) /\ SF_vars(HeartbeatTick)
            /\ \A c \in Conns : WF_vars(Reader(c))

-----------------------------------------------------------------------------
(* Properties.                                                             *)

StackType == /\ app \in {"up", "closed", "inst", "item", "modset", "buffer", "save",
                        "params"}
             /\ todo \in Seq(Step)
ButtonsType == /\ connOn \in BOOLEAN /\ startOn \in BOOLEAN
               /\ stopOn \in BOOLEAN /\ sendOn \in BOOLEAN
FlagsType == /\ isConnected \in BOOLEAN /\ selected \in BOOLEAN
             /\ timers \subseteq TimerNames
ExperimentType == exp \in Exps /\ running \in BOOLEAN /\ modSets \subseteq Mods
RecordType == /\ bufs \subseteq Mods /\ current \in Nat /\ measured \subseteq Exps
              /\ shown \in {"none", "current", "past"}
ThreadsType == /\ reader \in [Conns -> {"off", "recv", "emit", "fail"}]
               /\ held \in [Conns -> RigFrames]
               /\ inbox \in Seq(Event) /\ ghosts \subseteq Event
IoType == /\ bound \in Optional
          /\ inst \in [Conns -> {"none", "open", "stale"}]
          /\ sender \in [Conns -> {"alive", "ended"}]
          /\ link \in [Conns -> {"closed", "up", "reset", "eof"}]
RigsType == /\ out \in [Conns -> Seq(RigFrames)]
            /\ rig \in [Conns -> {"idle", "run"}]

\* Every variable keeps its type: the call stack holds steps of handlers, the
\* event queue signals of known connections.
TypeOK == /\ StackType /\ ButtonsType /\ FlagsType /\ ExperimentType
          /\ RecordType /\ ThreadsType /\ IoType /\ RigsType

\* An experiment leaves exactly one measurement: one list item is marked
\* "~current~" while the experiment runs or its save is still to come, and none
\* otherwise, however deeply stop, disconnect and failing writes are nested.  (The
\* save of a stop that a module's exception cuts off stays due: app is "params".)
\* (startExperiment, stopExperiment, handleFrame, saveLastMeas)
SavesDue == {i \in 1..Len(todo) : todo[i].do = "save"}
RecordedOnce ==
  /\ running => current = 1 /\ SavesDue = {}
  /\ ~running => /\ current = 0 <=> SavesDue = {}
                 /\ current <= 1 /\ Cardinality(SavesDue) <= 1

\* The inductive invariant behind TimersOnlyInRun: it says what the steps still
\* to be taken by the handlers on the call stack may find and must leave.
Names(s) == {s[i].do : i \in 1..Len(s)}
Due == Names(todo)
TimerInv ==
  /\ startOn => ~stopOn
  /\ connOn => ~startOn /\ ~stopOn /\ ~isConnected
  /\ "reset" \in Due => ~stopOn
  /\ "connect" \in Due => ~stopOn /\ timers = {}
  /\ "halt" \in Due =>
       /\ ~connOn
       /\ \/ todo = <<Do("save"), Do("halt"), Do("clockOn")>>
          \/ todo = <<Do("halt"), Do("clockOn")>>
  /\ "plot" \in timers \/ "heart" \in timers => stopOn
  /\ "clock" \in timers => stopOn \/ "clockOff" \in Due
  /\ "clockOn" \in Due /\ stopOn => "plot" \in timers
  /\ stopOn /\ timers # {} /\ ~running => "finished" \in Due \/ "halt" \in Due

\* Between two events no timer is active unless an experiment runs and can be
\* stopped: no heartbeat keeps a rig going after the experiment, and the clock
\* does not run on. (startExperiment 953-960, stopExperiment 976-982)
TimersOnlyInRun == Idle /\ timers # {} => running /\ stopOn

\* Between two events the buttons agree with the session: Start needs an open
\* connection and no running experiment, a running experiment can be stopped,
\* and Connect is off as long as anything can be started or stopped.
ButtonsMatch ==
  Idle => /\ startOn => ~running /\ \E c \in Conns : inst[c] = "open"
          /\ running => stopOn
          /\ connOn => ~startOn /\ ~stopOn /\ ~isConnected

\* Between two events isConnected says that every connection is open: a refused
\* connection, a broken link and a failed write all clear it. (connect, disconnect)
ConnectedMeansAll == Idle /\ isConnected => \A c \in Conns : inst[c] = "open"

\* With one connection nothing that the user, the network and the rig do raises an
\* exception in a slot: no write without an instance, no save without a "~current~"
\* item, no data frame without buffers (writeToConnection, saveLastMeas,
\* updateData).  The exception is a module that refuses its parameters: of the
\* four methods that ask for them only runExperiment catches it, and in a send or
\* in a stop, the one of a missed heartbeat among them, it leaves the slot.
OnlyModulesRaise == app \in {"up", "closed", "params"}

\* A rig changes from idle to running only while the GUI says an experiment is
\* running: what is left of an interrupted start or of a heartbeat never
\* activates a rig after the stop.
RigStartsOnlyInRun ==
  [][\A c \in Conns : rig[c] = "idle" /\ rig'[c] = "run" => running]_vars

\* The session implements ExperimentLog: an experiment begins only when the one
\* before it has been saved, every stop is saved once, and no command that is
\* left over from an interrupted start or a late heartbeat activates a rig.
Log == INSTANCE ExperimentLog WITH
         Rigs <- Conns, running <- running, items <- current,
         active <- {c \in Conns : rig[c] = "run"}
ImplementsLog == Log!Spec

\* As long as the links and the rigs work, every rig is running exactly as long as
\* the experiment is, though a connect or the parameters of a start may have been
\* refused; refused later, they end the program.
\* (startExperiment, stopExperiment, disconnect)
RigsFollow ==
  app \in {"up", "closed"} /\ todo = <<>> =>
    \A c \in Conns : rig[c] = "run" <=> running

\* closeEvent: "Disconnects all connections and sends close event." (gui.py 1205)
CloseDisconnects == app = "closed" => \A c \in Conns : inst[c] # "open"

\* A frame is handed to the experiment with the name of the connection it came
\* from: "Connection name, that is required to read and write to the correct
\* connection." (docs/guide/index.rst 24)
FramesKeepConnection ==
  \A i \in 1..Len(inbox) :
    inbox[i].kind = "data" /\ inbox[i].tag = Unbound => bound = inbox[i].conn

\* However handlers nest, the GUI returns to its event loop.
Responds == todo # <<>> ~> todo = <<>> \/ app # "up"

\* A broken link ends the session: the reader or the next write finds it, the
\* experiment is stopped and saved, and Connect is offered again.
DropEndsSession ==
  \A c \in Conns :
    inst[c] = "open" /\ link[c] = "reset" ~> (~running /\ connOn) \/ app # "up"

\* A peer that closed its socket raises nothing in the reader, but while
\* heartbeats are sent it is found.
HeartbeatFindsEnd ==
  \A c \in Conns :
    inst[c] = "open" /\ link[c] = "eof" /\ "heart" \in timers
      ~> inst[c] # "open" \/ "heart" \notin timers \/ app # "up"

\* The thread of a connection that is not connected any more ends.
ReadersEnd ==
  \A c \in Conns :
    inst[c] # "open" ~> reader[c] = "off" \/ inst[c] = "open" \/ app # "up"

=============================================================================

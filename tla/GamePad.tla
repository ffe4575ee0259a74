------------------------------ MODULE GamePad ------------------------------
(***************************************************************************)
(* The gamepad thread (pywisp/gamepad.py), the device that it polls        *)
(* (pywisp/inputs.py), and the widgets in the main window that its signals *)
(* drive: a button and a slider.                                           *)
(*                                                                         *)
(* The device is read without blocking, one event in a round; the position *)
(* of the stick is sent by time and not by event.  The signals are queued  *)
(* for the main window, which stops the thread by waiting for it.          *)
(***************************************************************************)
EXTENDS Integers, Sequences, FiniteSets

CONSTANTS
  Resolution,   \* stickResolution: a stick is at 0 .. Resolution - 1
  Positions,    \* the positions that the stick is moved to
  SliderMin, SliderMax,   \* of a slider whose step is 1
  Inverted,     \* invertSlider
  MaxInputs,    \* bound on what the user does with the gamepad
  MaxSelect,    \* bound on how often a gamepad is selected
  MaxQueue      \* bound on the signals queued when another period begins

ASSUME GamePadAssumption ==
  /\ Resolution \in Nat \ {0} /\ Positions \subseteq 0..(Resolution - 1)
  /\ SliderMin \in Int /\ SliderMax \in Int /\ SliderMin < SliderMax
  /\ Inverted \in BOOLEAN /\ MaxInputs \in Nat /\ MaxSelect \in Nat /\ MaxQueue \in Nat

VARIABLES
  down, stick,  \* the button and the stick as they are
  device,       \* events that have not been read
  open,         \* the file is opened by the first read, and stays open
  fresh,        \* has the menu been built again since the gamepad was selected?
  plugged,      \* is the device there?
  pc,           \* the thread: off, loop, read, output, done
  runFlag,
  absState,     \* the position the thread knows
  due,          \* have 100 ms passed since the last output?
  signals,      \* queued for the main window
  pad,          \* MainGui.gamepad
  waiting,      \* the main window is in stop(): it handles nothing else
  slider,       \* value of the slider
  clicks,       \* of the widget
  presses,      \* history: those the device has told, less those dropped with a thread
  last,         \* history: the last position the device has told
  inputs, selected   \* count against the bounds

user == <<down, stick, presses, last, inputs>>
dev == <<device, open, plugged>>
thread == <<pc, runFlag, absState, due>>
gui == <<pad, waiting, slider, clicks, selected, fresh>>
vars == <<user, dev, thread, signals, gui>>

Count(s, Test(_)) == Cardinality({i \in DOMAIN s : Test(s[i])})
Event == ({"Key"} \X {0, 1}) \cup ({"Absolute"} \X Positions) \cup {<<"Sync", 0>>}
Signal == {<<"btn", 0>>} \cup ({"abs"} \X (Positions \cup {0}))

\* DoubleSlider.setValue: int() cuts towards zero, QSlider keeps to its range
Cut(x, y) == IF x >= 0 THEN x \div y ELSE -((-x) \div y)
Clip(x, lo, hi) == IF x < lo THEN lo ELSE IF x > hi THEN hi ELSE x

\* outputAbsEvent: (position / Resolution - 0.5), by the width of the slider
Slid(a) ==
  LET dim == SliderMax - SliderMin
      half == (IF Inverted THEN -1 ELSE 1) * (2 * a - Resolution) * dim
  IN SliderMin + Clip(Cut(half - 2 * Resolution * SliderMin, 2 * Resolution), 0, dim)

-----------------------------------------------------------------------------
\* The device: every change is followed by a Sync event, if the file is open.
Tell(type, v) == IF open THEN device \o <<<<type, v>>, <<"Sync", 0>>>> ELSE device

Press ==
  /\ plugged /\ inputs < MaxInputs
  /\ down' = ~down /\ inputs' = inputs + 1
  /\ device' = Tell("Key", IF down THEN 0 ELSE 1)
  /\ presses' = IF open /\ ~down THEN presses + 1 ELSE presses
  /\ UNCHANGED <<stick, last, open, plugged, thread, signals, gui>>

Move(v) ==
  /\ plugged /\ inputs < MaxInputs /\ v # stick
  /\ stick' = v /\ inputs' = inputs + 1
  /\ device' = Tell("Absolute", v)
  /\ last' = IF open THEN v ELSE last
  /\ UNCHANGED <<down, presses, open, plugged, thread, signals, gui>>

Unplug ==
  /\ plugged /\ plugged' = FALSE
  /\ UNCHANGED <<user, device, open, thread, signals, gui>>

Tick ==
  /\ ~due /\ Len(signals) < MaxQueue /\ due' = TRUE
  /\ UNCHANGED <<user, dev, pc, runFlag, absState, signals, gui>>

-----------------------------------------------------------------------------
\* The thread.
Loop ==
  /\ pc = "loop" /\ pc' = IF runFlag THEN "read" ELSE "done"
  /\ UNCHANGED <<user, dev, runFlag, absState, due, signals, gui>>

\* mutant: the type of the event is not looked at
AbsAny(e) == absState' = e[2]
AbsOf(e) == absState' = IF e[1] = "Absolute" THEN e[2] ELSE absState

\* mutant: the signal is sent on every change of the button
BtnChange(e) == IF e[1] = "Key" THEN Append(signals, <<"btn", 0>>) ELSE signals
BtnOf(e) == IF e[1] = "Key" /\ e[2] # 0 THEN Append(signals, <<"btn", 0>>) ELSE signals

\* mutant: the device is read until an event is there
Blocking == device # <<>>
NonBlocking == TRUE

\* _do_iter and processEvent; OSError ends the thread
Read ==
  /\ pc = "read" /\ (plugged => NonBlocking)
  /\ IF ~plugged
     THEN pc' = "done" /\ runFlag' = FALSE /\ UNCHANGED <<device, open, absState, signals>>
     ELSE /\ pc' = "output" /\ open' = TRUE /\ UNCHANGED runFlag
          /\ IF device = <<>> THEN UNCHANGED <<device, absState, signals>>
             ELSE /\ device' = Tail(device)
                  /\ AbsOf(Head(device)) /\ signals' = BtnOf(Head(device))
  /\ UNCHANGED <<user, plugged, due, gui>>

\* mutant: the position is only sent while there are events
OutputNew ==
  /\ pc = "output" /\ pc' = "loop" /\ due' = FALSE
  /\ signals' = IF due /\ device # <<>> THEN Append(signals, <<"abs", absState>>) ELSE signals
  /\ UNCHANGED <<user, dev, runFlag, absState, gui>>
OutputAbsEvent ==
  /\ pc = "output" /\ pc' = "loop" /\ due' = FALSE
  /\ signals' = IF due THEN Append(signals, <<"abs", absState>>) ELSE signals
  /\ UNCHANGED <<user, dev, runFlag, absState, gui>>

-----------------------------------------------------------------------------
\* The main window.
\* detectGamepads: the menu is built with other device objects
DetectGamepads ==
  /\ ~waiting /\ ~fresh /\ selected < MaxSelect /\ fresh' = TRUE
  /\ UNCHANGED <<user, dev, thread, signals, pad, waiting, slider, clicks, selected>>

IsPress(e) == e[1] = "Key" /\ e[2] # 0
IsBtn(e) == e[1] = "btn"
IsAbs(e) == e[1] = "Absolute"

\* selectGamepad, when no gamepad is selected: a thread with the device of the menu
SelectGamepad ==
  /\ ~pad /\ ~waiting /\ selected < MaxSelect /\ (fresh => plugged)
  /\ pad' = TRUE /\ pc' = "loop" /\ runFlag' = TRUE
  /\ absState' = 0 /\ due' = TRUE
  /\ LET unread == IF fresh THEN <<>> ELSE device IN
       /\ device' = unread
       /\ last' = IF \E i \in DOMAIN unread : IsAbs(unread[i]) THEN last ELSE 0
       /\ presses' = IF fresh THEN presses - Count(device, IsPress) ELSE presses
  /\ open' = (open /\ ~fresh) /\ fresh' = FALSE
  /\ selected' = selected + 1
  /\ UNCHANGED <<down, stick, inputs, plugged, signals, waiting, slider, clicks>>

Stop ==
  /\ pad /\ ~waiting
  /\ runFlag' = FALSE /\ waiting' = TRUE
  /\ UNCHANGED <<user, dev, pc, absState, due, signals, pad, slider, clicks, selected, fresh>>

\* mutant: stop() does not wait for the thread
NotWaited == pc # "off"
Waited == pc = "done"

\* wait() has returned: what the thread has queued may be dropped with it
Stopped ==
  /\ waiting /\ Waited
  /\ waiting' = FALSE /\ pad' = FALSE
  /\ pc' = IF pc = "done" THEN "off" ELSE pc
  /\ signals' \in {<<>>, signals}
  /\ presses' = presses - (Count(signals, IsBtn) - Count(signals', IsBtn))
  /\ UNCHANGED <<down, stick, last, inputs, dev, runFlag, absState, due, slider, clicks, selected, fresh>>

\* the lambdas of updateGamePad
Handle ==
  /\ signals # <<>> /\ ~waiting
  /\ signals' = Tail(signals)
  /\ IF Head(signals)[1] = "btn"
     THEN clicks' = clicks + 1 /\ UNCHANGED slider
     ELSE slider' = Slid(Head(signals)[2]) /\ UNCHANGED clicks
  /\ UNCHANGED <<user, dev, thread, pad, waiting, selected, fresh>>

\* the slider stands where the stick is
Init ==
  /\ down = FALSE /\ stick \in Positions /\ plugged = TRUE
  /\ device = <<>> /\ signals = <<>> /\ open = FALSE /\ fresh = FALSE
  /\ pc = "off" /\ runFlag = FALSE /\ absState = 0 /\ due = FALSE
  /\ pad = FALSE /\ waiting = FALSE /\ slider = Slid(stick)
  /\ clicks = 0 /\ presses = 0 /\ last = 0 /\ inputs = 0 /\ selected = 0

Next ==
  \/ Press \/ (\E v \in Positions : Move(v)) \/ Unplug
  \/ Tick \/ Loop \/ Read \/ OutputAbsEvent
  \/ DetectGamepads \/ SelectGamepad \/ Stop \/ Stopped \/ Handle

Spec == Init /\ [][Next]_vars

\* the thread is scheduled, time passes, the event loop runs
Fairness ==
  /\ WF_vars(Loop) /\ WF_vars(Read) /\ WF_vars(OutputAbsEvent)
  /\ WF_vars(Tick) /\ WF_vars(Handle) /\ WF_vars(Stopped)
FairSpec == Spec /\ Fairness

-----------------------------------------------------------------------------
\* The types; a thread runs only for the gamepad of the window, which holds
\* it until it has ended: a QThread must not be destroyed while it runs.
TypeOK ==
  /\ down \in BOOLEAN /\ stick \in Positions /\ last \in Positions \cup {0}
  /\ device \in Seq(Event) /\ signals \in Seq(Signal)
  /\ open \in BOOLEAN /\ fresh \in BOOLEAN /\ plugged \in BOOLEAN /\ due \in BOOLEAN
  /\ pc \in {"off", "loop", "read", "output", "done"} /\ runFlag \in BOOLEAN
  /\ absState \in Positions \cup {0}
  /\ slider \in SliderMin..SliderMax
  /\ inputs \in 0..MaxInputs /\ selected \in 0..MaxSelect
  /\ clicks \in Nat /\ presses \in Nat
  /\ pad \in BOOLEAN /\ waiting \in BOOLEAN /\ (waiting => pad /\ ~runFlag)

\* A thread lives only while the window has its gamepad: destroying a QThread
\* that still runs would end the program.
ThreadIsOwned == pc # "off" => pad

\* Every press that the device told of is clicked once: it is clicked already,
\* or queued for the window, or still unread.
ClicksArePresses == clicks + Count(signals, IsBtn) + Count(device, IsPress) = presses

\* The types, and no thread outlives the gamepad of the window.
PadInv == TypeOK /\ ThreadIsOwned

\* The window gets out of stop(), whatever the gamepad does.
StopReturns == waiting ~> ~waiting

\* The slider ends where the device last said the stick is, as long as the
\* gamepad is selected and there.
StickSettles == <>[](pad /\ plugged /\ ~waiting => slider = Slid(last))

-----------------------------------------------------------------------------
(* What a comment or a guide says and the code does not keep.              *)

\* "To control the remote widgets it is possible to use a gamepad": one that
\* nobody has touched moves nothing.
UntouchedMovesNothing == inputs = 0 => slider = Slid(stick)
=============================================================================

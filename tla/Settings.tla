------------------------------ MODULE Settings ------------------------------
(***************************************************************************)
(* The settings of an experiment on their way to the rig                   *)
(* (pywisp/experiments.py, and the slots of pywisp/gui.py that call it):   *)
(* the tree in which the user edits them, modSets with what the GUI takes  *)
(* the rig to have, and what the rig was really sent last.  The remote     *)
(* widgets set one parameter and send the modules that have changed.       *)
(*                                                                         *)
(* Writes succeed here and starting, stopping and broken connections are   *)
(* reduced to running: Session has them in full.                           *)
(***************************************************************************)
EXTENDS Integers, Sequences

CONSTANTS
  Mods,      \* experiment modules
  Pars,      \* the names of their public settings
  Public,    \* publicSettings: module |-> its settings, of the registered modules
  Values,    \* the values a setting can take
  Exps,      \* the experiments of the file
  File,      \* experiment |-> module |-> the settings that the file gives
  DataMods,  \* the modules that have data points
  Widgets,   \* the remote widgets, of all experiments
  None,      \* no reset value
  SendAll,   \* does the user press "Send parameter"?
  MaxRuns    \* bound on the measurements that can be opened again

Settings == [Pars -> Values]
Widget == [kind : {"push", "switch", "slider"}, mod : Mods, par : Pars,
           on : Values, off : Values, reset : Values \cup {None}]

\* assumed of the constants
SettingsAssumption ==
  /\ None \notin Values
  /\ DOMAIN Public \subseteq Mods /\ \A m \in DOMAIN Public : Public[m] \in Settings
  /\ \A e \in Exps : /\ DOMAIN File[e] \subseteq Mods
                      /\ \A m \in DOMAIN File[e], p \in Pars :
                           p \in DOMAIN File[e][m] => File[e][m][p] \in Values
  /\ DataMods \subseteq Mods /\ Widgets \subseteq Widget
  /\ SendAll \in BOOLEAN /\ MaxRuns \in Nat

VARIABLES
  exp,      \* the experiment in the tree
  sets,     \* targetModel: module |-> its settings
  modSets,  \* module |-> the settings that were sent, as the GUI remembers them
  rig,      \* module |-> the settings the rig has
  running,  \* Stop and the Send buttons are enabled
  ready,    \* Start is enabled
  shown,    \* the measurement of _currentLastMeasItem: none, current, past
  remote,   \* the remote widgets are on display
  checked,  \* the switches that are checked
  runs,     \* measurements: the experiment and its settings at the start
  asked,    \* what the slot of a remote widget has been asked for, else None
  crash     \* the exception that a slot has raised

vars == <<exp, sets, modSets, rig, running, ready, shown, remote, checked, runs, asked,
          crash>>

Up == crash = "none"

\* the entries of f, and those of g for other modules
Over(f, g) == [m \in DOMAIN f \cup DOMAIN g |-> IF m \in DOMAIN f THEN f[m] ELSE g[m]]

-----------------------------------------------------------------------------
(* ExperimentInteractor                                                    *)

\* _readSettings, of a module that is registered
Registered(m) == m \in DOMAIN Public
ReadSettings(m) == Public[m]

\* _addSettings: the rows of the modules ms
AddSettings(ms) == [m \in ms |-> ReadSettings(m)]

\* _editExperiment, for the tree s: a setting that a module does not have is
\* passed over
EditExperiment(s, given) ==
  [m \in DOMAIN s |->
     [p \in Pars |-> IF m \in DOMAIN given /\ p \in DOMAIN given[m] THEN given[m][p]
                     ELSE s[m][p]]]

\* setExperiment and _applyExperiment: an empty tree, the defaults of the
\* modules, and what is given
ApplyExperiment(given) == EditExperiment(AddSettings(DOMAIN given), given)

\* _readDataPoints, of all modules
DataPoints(s) == DOMAIN s \cap DataMods

\* getExperiment: the tree with every setting
GetExperiment == sets

\* the modules that differ from what was sent
Changed(s) == {m \in DOMAIN s : modSets[m] # s[m]}

Sent(s, ms) == [m \in ms |-> s[m]]

\* mutant: a module that has been sent before is not noted again
RunKnown(s) == /\ modSets' = Over(modSets, s)
               /\ rig' = Over(s, rig)

\* mutant: only the modules of an earlier run are noted
RunOld(s) == /\ modSets' = Over(Sent(s, DOMAIN s \cap DOMAIN modSets), modSets)
             /\ rig' = Over(s, rig)

\* runExperiment
Run(s) == /\ modSets' = Over(s, modSets)
          /\ rig' = Over(s, rig)

\* sendChangedParameterExperiment, with the tree s
SendChanged(s) == /\ modSets' = Over(Sent(s, Changed(s)), modSets)
                  /\ rig' = Over(Sent(s, Changed(s)), rig)

\* sendParameterExperiment: modSets stays as it is
SendParameters(s) == /\ rig' = Over(s, rig)
                     /\ UNCHANGED modSets

\* updateSendParameter
UpdateSend(f, m, p, v) == IF m \in DOMAIN f THEN [f EXCEPT ![m][p] = v] ELSE f

-----------------------------------------------------------------------------
(* MainGui                                                                 *)

\* sendParameter and sendChangedParameter ask for the item with ~current~
NoCurrent ==
  \/ shown = "past" /\ UNCHANGED <<modSets, rig, crash>>
  \/ shown = "none" /\ crash' = "AttributeError" /\ UNCHANGED <<modSets, rig>>
SlotSend == \/ shown = "current" /\ SendParameters(sets) /\ UNCHANGED crash
            \/ NoCurrent
SlotSendChanged(s) == \/ shown = "current" /\ SendChanged(s) /\ UNCHANGED crash
                      \/ NoCurrent

\* MovableSwitch: the switches are built anew, and none of them is checked
NewSwitches == {}

\* mutant: the tree keeps the rows of the experiment before
ApplyOver(e) ==
  /\ Up /\ ~running /\ asked' = None
  /\ exp' = e /\ sets' = Over(ApplyExperiment(File[e]), sets)
  /\ ready' = TRUE /\ remote' = TRUE /\ checked' = NewSwitches
  /\ UNCHANGED <<modSets, rig, running, shown, runs, crash>>

\* experimentDclicked: a module that nobody has registered raises
Apply(e) ==
  /\ Up /\ ~running /\ asked' = None
  /\ IF \A m \in DOMAIN File[e] : Registered(m)
     THEN /\ exp' = e /\ sets' = ApplyExperiment(File[e])
          /\ ready' = TRUE /\ remote' = TRUE /\ checked' = NewSwitches
          /\ UNCHANGED crash
     ELSE crash' = "KeyError" /\ UNCHANGED <<exp, sets, ready, remote, checked>>
  /\ UNCHANGED <<modSets, rig, running, shown, runs>>

\* an edit in the tree, PropertyItem.setData; what is no literal is not taken
Edit(m, p, v) ==
  /\ Up /\ m \in DOMAIN sets
  /\ sets' = [sets EXCEPT ![m][p] = v]
  /\ asked' = None
  /\ UNCHANGED <<exp, modSets, rig, running, ready, shown, remote, checked, runs, crash>>

\* startExperiment: without data points it returns before runExperiment
Start ==
  /\ Up /\ ready /\ ~running
  /\ running' = TRUE /\ ready' = FALSE
  /\ IF DataPoints(sets) # {}
     THEN /\ runs' = IF Len(runs) = MaxRuns THEN runs
                     ELSE Append(runs, [exp |-> exp, sets |-> GetExperiment])
          /\ shown' = "current"
          /\ Run(sets)
     ELSE UNCHANGED <<modSets, rig, shown, runs>>
  /\ asked' = None
  /\ UNCHANGED <<exp, sets, remote, checked, crash>>

\* stopExperiment and saveLastMeas
Stop ==
  /\ Up /\ running
  /\ running' = FALSE /\ ready' = TRUE
  /\ shown' = IF shown = "current" THEN "past" ELSE shown
  /\ asked' = None
  /\ UNCHANGED <<exp, sets, modSets, rig, remote, checked, runs, crash>>

\* loadLastMeas
LoadLastMeas(i) ==
  /\ Up /\ ~running
  /\ exp' = runs[i].exp /\ sets' = ApplyExperiment(runs[i].sets)
  /\ ready' = FALSE /\ remote' = FALSE /\ shown' = "past"
  /\ asked' = None
  /\ UNCHANGED <<modSets, rig, running, checked, runs, crash>>

UserSendParameter ==
  /\ Up /\ running /\ SendAll
  /\ SlotSend
  /\ asked' = None
  /\ UNCHANGED <<exp, sets, running, ready, shown, remote, checked, runs>>

UserSendChangedParameter ==
  /\ Up /\ running
  /\ SlotSendChanged(sets)
  /\ asked' = None
  /\ UNCHANGED <<exp, sets, running, ready, shown, remote, checked, runs>>

\* remoteSendParamter: set in the tree, and sent if the button is enabled
SendRemote(s) ==
  IF running THEN SlotSendChanged(s) ELSE UNCHANGED <<modSets, rig, crash>>

Usable(w) == Up /\ remote /\ w.mod \in DOMAIN sets
Ask(w, v) == [mod |-> w.mod, par |-> w.par, val |-> v]
With(w, v) == EditExperiment(sets, [m \in {w.mod} |-> [p \in {w.par} |-> v]])

\* remotePushButtonSendParameter: the reset value goes to the tree and to modSets
Push(w) ==
  /\ Usable(w) /\ w.kind = "push"
  /\ asked' = Ask(w, w.on)
  /\ IF w.reset = None
     THEN SendRemote(With(w, w.on)) /\ sets' = With(w, w.on)
     ELSE /\ sets' = With(w, w.reset)
          /\ IF running /\ shown = "current"
             THEN LET sent == Changed(With(w, w.on)) IN
                    /\ modSets' = UpdateSend(Over(Sent(With(w, w.on), sent), modSets),
                                             w.mod, w.par, w.reset)
                    /\ rig' = Over(Sent(With(w, w.on), sent), rig)
             ELSE /\ modSets' = UpdateSend(modSets, w.mod, w.par, w.reset)
                  /\ UNCHANGED rig
          /\ crash' = IF running /\ shown = "none" THEN "AttributeError" ELSE "none"
  /\ UNCHANGED <<exp, running, ready, shown, remote, checked, runs>>

\* mutant: the value is the one that the button shows
SwitchOther(w, on) == IF on THEN w.off ELSE w.on
SwitchValue(w, on) == IF on THEN w.on ELSE w.off

\* remoteSwitchSendParameter, after the button has toggled
Switch(w) ==
  /\ Usable(w) /\ w.kind = "switch"
  /\ checked' = (checked \ {w}) \cup ({w} \ checked)
  /\ asked' = Ask(w, IF w \in checked' THEN w.on ELSE w.off)
  /\ sets' = With(w, SwitchValue(w, w \in checked'))
  /\ SendRemote(sets')
  /\ UNCHANGED <<exp, running, ready, shown, remote, runs>>

\* remoteSliderSendParameter
Slide(w, v) ==
  /\ Usable(w) /\ w.kind = "slider"
  /\ asked' = Ask(w, v)
  /\ sets' = With(w, v)
  /\ SendRemote(sets')
  /\ UNCHANGED <<exp, running, ready, shown, remote, checked, runs>>

Init ==
  /\ exp \in Exps /\ \A m \in DOMAIN File[exp] : Registered(m)
  /\ sets = ApplyExperiment(File[exp])
  /\ modSets = <<>> /\ rig = <<>>
  /\ running = FALSE /\ ready = TRUE /\ shown = "none" /\ remote = TRUE
  /\ checked = NewSwitches /\ runs = <<>> /\ asked = None /\ crash = "none"

Next ==
  \/ \E e \in Exps : Apply(e)
  \/ \E m \in Mods, p \in Pars, v \in Values : Edit(m, p, v)
  \/ Start \/ Stop \/ UserSendParameter \/ UserSendChangedParameter
  \/ \E i \in 1..Len(runs) : LoadLastMeas(i)
  \/ \E w \in Widgets : Push(w) \/ Switch(w) \/ \E v \in Values : Slide(w, v)

Spec == Init /\ [][Next]_vars

-----------------------------------------------------------------------------
Partial(S) == UNION {[T -> Settings] : T \in SUBSET S}

\* The types of the variables.
TypeOK ==
  /\ exp \in Exps /\ sets \in [DOMAIN File[exp] -> Settings]
  /\ modSets \in Partial(Mods) /\ rig \in Partial(Mods)
  /\ running \in BOOLEAN /\ ready \in BOOLEAN /\ remote \in BOOLEAN
  /\ shown \in {"none", "current", "past"} /\ checked \subseteq Widgets
  /\ \A i \in 1..Len(runs) : runs[i].sets \in [DOMAIN File[runs[i].exp] -> Settings]
  /\ asked \in {None} \cup [mod : Mods, par : Pars, val : Values]
  /\ crash \in {"none", "AttributeError", "KeyError"}

InRun == running /\ shown = "current"

\* While a measurement runs, modSets has an entry for every module of the tree:
\* the lookup in sendChangedParameterExperiment cannot fail.
ActiveKnown == InRun => DOMAIN sets \subseteq DOMAIN modSets \cap DOMAIN rig

\* the buttons that reset the parameter p of m
Pulses(m, p) == {w \in Widgets : w.kind = "push" /\ w.mod = m /\ w.par = p /\ w.reset # None}

\* a button has left the rig with its value, and the GUI takes the rig to have
\* the value to which a button of the same parameter resets
Pulsed(m, p, there, known) ==
  /\ \E w \in Pulses(m, p) : there = w.on
  /\ \E w \in Pulses(m, p) : known = w.reset

\* While a measurement runs and "Send parameter" is not used, the GUI knows what
\* the rig has: a difference is left by a push button with a reset value.
RigKnown ==
  InRun => \A m \in DOMAIN sets, p \in Pars :
    \/ rig[m][p] = modSets[m][p]
    \/ Pulsed(m, p, rig[m][p], modSets[m][p])

\* A measurement has what its slots look up, and the GUI knows what the rig has.
SettingsInv == TypeOK /\ ActiveKnown /\ RigKnown

\* What a widget sends has arrived when its slot returns, whatever has been edited
\* and sent before.  It is not sent in one case only: the GUI takes the rig to have
\* it already, because a button of the parameter resets to it, and the rig still
\* has the value of such a button.
WidgetReaches ==
  InRun /\ asked # None =>
    \/ rig[asked.mod][asked.par] = asked.val
    \/ Pulsed(asked.mod, asked.par, rig[asked.mod][asked.par], asked.val)

-----------------------------------------------------------------------------
(* What a comment or a guide says and the code does not keep.              *)

\* "Sends changed parameters of all modules that are registered in the target
\* model to an experiment": afterwards the rig has the settings of the tree.
ChangedReachRig ==
  [][InRun /\ UserSendChangedParameter => \A m \in DOMAIN sets : rig'[m] = sets[m]]_vars

\* "Gets called when a user interacts with the pushbutton and sends the specified
\* parameter to the bench": the rig has what the widget was asked for.
WidgetSends == InRun /\ asked # None => rig[asked.mod][asked.par] = asked.val

\* "Sends all parameters of the current experiment": the slot does not fail.
SlotReturns == crash = "none"
=============================================================================

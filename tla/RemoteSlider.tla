---------------------------- MODULE RemoteSlider ----------------------------
(***************************************************************************)
(* The dialog of a remote widget (RemoteWidgetEdit in pywisp/utils.py) and *)
(* the slider that it configures (DoubleSlider, MovableSlider, and the     *)
(* slots of pywisp/gui.py): from the fields that the user fills to the     *)
(* parameter that the slider writes.                                       *)
(*                                                                         *)
(* A slider stands at an integer position, position 0 is its minimum.  Its *)
(* signal is raised when the position changes, whoever changes it.  One    *)
(* slider and some push buttons; RemoteWidgets has the lists of them, and  *)
(* Settings what becomes of a parameter that has been written.             *)
(***************************************************************************)
EXTENDS Integers, Sequences

CONSTANTS
  Mods,     \* modules of the experiment, in order
  Pars,     \* module |-> its public settings, in order
  File,     \* the values that applying the experiment yields
  Ranges,   \* the <<min, max, step>> a user enters
  Empty,    \* a field with nothing in it
  Buttons   \* the push buttons: parameter and value

ModSet == {Mods[i] : i \in DOMAIN Mods}
Parameters == UNION {{<<m, Pars[m][i]>> : i \in DOMAIN Pars[m]} : m \in ModSet}

\* assumed of the constants
RemoteSliderAssumption ==
  /\ Mods \in Seq(ModSet) /\ Mods # <<>>
  /\ \A m \in ModSet : Pars[m] \in Seq({q[2] : q \in Parameters})
  /\ File \in [Parameters -> Int]
  /\ \A r \in Ranges : \A i \in 1..3 : r[i] = Empty \/ r[i] \in Int
  /\ \A r \in Ranges : r[1] # Empty /\ r[2] # Empty => r[1] <= r[2]
  /\ \A r \in Ranges : r[3] # Empty => r[3] >= 0
  /\ Buttons \subseteq [par : Parameters, on : Int]

VARIABLES
  sets,    \* targetModel: parameter |-> value
  slider,  \* the widget on display, or NoSlider; edited is a history: since it was built
  dlg,     \* the fields of the dialog that is open
  crash

vars == <<sets, slider, dlg, crash>>
Up == crash = "none"

NoSlider == [par |-> <<Mods[1], "">>, min |-> 0, max |-> 0, step |-> 1, start |-> 0, pos |-> 0,
             edited |-> FALSE]
Closed == [edit |-> FALSE, type |-> "closed", mod |-> Mods[1], pars |-> <<>>, par |-> "",
           range |-> <<0, 1, 1>>]

FirstOf(s) == IF s = <<>> THEN "" ELSE s[1]

-----------------------------------------------------------------------------
(* DoubleSlider                                                            *)

\* mutant: a last step that is not whole is counted
StepsUp(c) == (c.max - c.min + c.step - 1) \div c.step
\* setConfig: the largest position
Steps(c) == (c.max - c.min) \div c.step

\* calcValue
Value(s) == s.pos * s.step + s.min

\* mutant: Qt is given the position without bounds
PositionFree(c, v) == IF v < c.min THEN 0 ELSE (v - c.min) \div c.step
\* setValue: cut to a whole position, and by Qt to those there are
Position(c, v) ==
  LET p == (v - c.min) \div c.step IN
  IF v < c.min THEN 0 ELSE IF p > Steps(c) THEN Steps(c) ELSE p

\* the slider with configuration c, that starts at v
Slider(c, v) == [par |-> c.par, min |-> c.min, max |-> c.max, step |-> c.step,
                 start |-> v, pos |-> Position(c, v), edited |-> FALSE]

\* updateData raises for what float and the division do not take
Fails(r) == IF \E i \in 1..3 : r[i] = Empty THEN "ValueError"
            ELSE IF r[3] = 0 THEN "ZeroDivisionError" ELSE "none"

-----------------------------------------------------------------------------
(* RemoteWidgetEdit                                                        *)

OpenAdd ==
  /\ Up /\ dlg = Closed /\ slider = NoSlider
  /\ dlg' = [Closed EXCEPT !.type = "PushButton", !.pars = Pars[Mods[1]], !.par = FirstOf(Pars[Mods[1]])]
  /\ UNCHANGED <<sets, slider, crash>>

OpenEdit ==
  /\ Up /\ dlg = Closed /\ slider # NoSlider
  /\ dlg' = [edit |-> TRUE, type |-> "Slider", mod |-> slider.par[1], pars |-> Pars[slider.par[1]],
             par |-> slider.par[2], range |-> <<slider.min, slider.max, slider.step>>]
  /\ UNCHANGED <<sets, slider, crash>>

\* the list is disabled for a widget that exists; the fields are built again
TypeListChanged(t) ==
  /\ dlg # Closed /\ ~dlg.edit /\ t # dlg.type
  /\ dlg' = [dlg EXCEPT !.type = t, !.range = Closed.range]
  /\ UNCHANGED <<sets, slider, crash>>

\* mutant: the parameters of a widget that exists are not listed again
FilledOnce(m) == IF dlg.edit THEN dlg.pars ELSE Pars[m]
Filled(m) == Pars[m]

ModuleChanged(m) ==
  /\ dlg # Closed /\ m # dlg.mod
  /\ dlg' = [dlg EXCEPT !.mod = m, !.pars = Filled(m), !.par = FirstOf(Filled(m))]
  /\ UNCHANGED <<sets, slider, crash>>

\* the user's choice of a parameter, and the text of the three fields
Choose(p) ==
  /\ dlg # Closed /\ \E i \in DOMAIN dlg.pars : dlg.pars[i] = p
  /\ dlg' = [dlg EXCEPT !.par = p]
  /\ UNCHANGED <<sets, slider, crash>>

Type(r) ==
  /\ dlg.type = "Slider" /\ dlg' = [dlg EXCEPT !.range = r]
  /\ UNCHANGED <<sets, slider, crash>>

Cancel == dlg # Closed /\ dlg' = Closed /\ UNCHANGED <<sets, slider, crash>>

GetData == [par |-> <<dlg.mod, dlg.par>>, min |-> dlg.range[1], max |-> dlg.range[2],
            step |-> dlg.range[3]]

-----------------------------------------------------------------------------
(* MainGui                                                                 *)

\* mutant: valueChanged is connected before the slider gets its first value
BuiltConnected(c) == [sets EXCEPT ![c.par] = Value(Slider(c, sets[c.par]))]
\* remoteAddWidget: connected after the constructor has set the value
Built(c) == sets

\* OK in the dialog of a new widget; a button or a switch is not followed here
AcceptAdd ==
  /\ dlg # Closed /\ ~dlg.edit
  /\ dlg' = Closed
  /\ IF dlg.type # "Slider" THEN UNCHANGED <<sets, slider, crash>>
     ELSE IF GetData.par \notin Parameters
          THEN crash' = "KeyError" /\ UNCHANGED <<sets, slider>>
          ELSE IF Fails(dlg.range) # "none"
               THEN crash' = Fails(dlg.range) /\ UNCHANGED <<sets, slider>>
               ELSE /\ slider' = Slider(GetData, sets[GetData.par])
                    /\ sets' = Built(GetData) /\ UNCHANGED crash

\* remoteSetParameter: a parameter that the experiment does not have is ignored
Written(par, v) == IF par \in Parameters THEN [sets EXCEPT ![par] = v] ELSE sets

\* remoteConfigWidget: updateData sets the value the slider was built with
AcceptEdit ==
  /\ dlg.edit /\ dlg' = Closed
  /\ IF Fails(dlg.range) # "none"
     THEN crash' = Fails(dlg.range) /\ UNCHANGED <<sets, slider>>
     ELSE LET s == [Slider(GetData, slider.start) EXCEPT !.edited = TRUE] IN
          /\ slider' = s
          /\ sets' = IF s.pos # slider.pos THEN Written(s.par, Value(s)) ELSE sets
          /\ UNCHANGED crash

\* the slider is moved, by mouse, keys, shortcuts or the stick: remoteSliderSendParameter
Move(p) ==
  /\ Up /\ dlg = Closed /\ slider # NoSlider /\ p # slider.pos
  /\ slider' = [slider EXCEPT !.pos = p]
  /\ sets' = Written(slider.par, Value(slider'))
  /\ UNCHANGED <<dlg, crash>>

\* mutant: a slider for the same parameter stays where it is
SyncedNot(b) == slider
\* remoteSliderUpdate, by another widget
Synced(b) ==
  IF slider # NoSlider /\ slider.par = b.par
  THEN [slider EXCEPT !.pos = Position(slider, b.on)] ELSE slider

\* remotePushButtonSendParameter
Press(b) ==
  /\ Up /\ dlg = Closed
  /\ sets' = Written(b.par, b.on) /\ slider' = Synced(b)
  /\ UNCHANGED <<dlg, crash>>

RemoteRemoveWidget ==
  /\ Up /\ dlg = Closed /\ slider # NoSlider
  /\ slider' = NoSlider /\ UNCHANGED <<sets, dlg, crash>>

\* experimentDclicked: the settings of the file, and the slider from its entry
Apply ==
  /\ Up /\ dlg = Closed
  /\ sets' = File
  /\ IF slider = NoSlider THEN UNCHANGED <<slider, crash>>
     ELSE IF slider.par \notin Parameters THEN crash' = "KeyError" /\ UNCHANGED slider
          ELSE /\ slider' = Slider(slider, File[slider.par])
               /\ UNCHANGED crash
  /\ UNCHANGED dlg

Init == sets = File /\ slider = NoSlider /\ dlg = Closed /\ crash = "none"

Next ==
  \/ OpenAdd \/ OpenEdit \/ Cancel \/ AcceptAdd \/ AcceptEdit
  \/ \E t \in {"PushButton", "Switch", "Slider"} : TypeListChanged(t)
  \/ \E m \in ModSet : ModuleChanged(m)
  \/ \E p \in {q[2] : q \in Parameters} : Choose(p)
  \/ \E r \in Ranges : Type(r)
  \/ \E p \in 0..Steps(slider) : Move(p)
  \/ \E b \in Buttons : Press(b)
  \/ RemoteRemoveWidget \/ Apply

Spec == Init /\ [][Next]_vars

-----------------------------------------------------------------------------
\* The types of the variables.
TypeOK ==
  /\ sets \in [Parameters -> Int]
  /\ slider.par \in ModSet \X ({q[2] : q \in Parameters} \cup {""}) /\ slider.edited \in BOOLEAN
  /\ slider.pos \in 0..Steps(slider)
  /\ dlg.type \in {"closed", "PushButton", "Switch", "Slider"} /\ dlg.mod \in ModSet
  /\ dlg.edit => slider # NoSlider
  /\ crash \in {"none", "KeyError", "ValueError", "ZeroDivisionError"}

\* The slider stands between the ends that the user has entered.
RangeKept == slider # NoSlider => Value(slider) \in slider.min..slider.max

\* The parameter that the slider writes is one of the experiment's, unless it was
\* edited to be for a module that has none.
SliderHasParameter ==
  slider # NoSlider /\ slider.par \notin Parameters =>
    slider.edited /\ Pars[slider.par[1]] = <<>>

\* As long as it is not edited, the slider stands where the value of the
\* parameter is, or nearest to it, whichever widget has written it.
SliderShows ==
  slider # NoSlider /\ ~slider.edited => slider.pos = Position(slider, sets[slider.par])

\* A slider stays in its range, has its parameter and, not edited, shows its value.
SliderInv == TypeOK /\ RangeKept /\ SliderHasParameter /\ SliderShows

\* "Gets called when a user interacts with the slider": OK and Cancel of a dialog
\* that does not edit one write no parameter.
DialogWritesNothing == dlg # Closed /\ ~dlg.edit /\ dlg' = Closed => sets' = sets

-----------------------------------------------------------------------------
(* What a comment or a guide says and the code does not keep.              *)

\* "Gets called when a user interacts with the slider": nor does OK of a dialog
\* that edits one.
EditWritesNothing == [][dlg # Closed /\ dlg' = Closed => sets' = sets]_vars

\* "Adds a new widget to the remoteDock": what the fields take builds a slider.
AddReturns == crash \notin {"ValueError", "ZeroDivisionError"}

\* The same, for every module that the dialog offers.
ModuleOffered == crash # "KeyError"
=============================================================================

--------------------------- MODULE RemoteWidgets ---------------------------
(***************************************************************************)
(* The remote widgets of an experiment (pywisp/gui.py, pywisp/utils.py):   *)
(* the widgets on display, the Remote section of the experiment that the   *)
(* user copies into the file, and the slots that a gamepad is connected to.*)
(*                                                                         *)
(* Of a widget's settings there is a value and whether the file gives it a *)
(* gamepad control ('shortcut-Gp').  Settings has what a widget sends.     *)
(***************************************************************************)
EXTENDS Integers, Sequences, FiniteSets

CONSTANTS
  Exps,        \* experiments of the file
  Names,       \* names of widgets
  Values,      \* values a widget can have
  File,        \* the Remote sections of the file: experiment |-> name |-> config
  Unique,      \* does the user give every widget a name of its own?
  MaxWidgets   \* bound on the widgets that are ever built

Config == [val : Values, gp : BOOLEAN]
Sections == UNION {[N -> Config] : N \in SUBSET Names}

\* assumed of the constants
RemoteAssumption ==
  /\ File \in [Exps -> Sections] /\ MaxWidgets \in Nat /\ Unique \in BOOLEAN
  /\ \A e \in Exps : IsFiniteSet(DOMAIN File[e]) /\ Cardinality(DOMAIN File[e]) <= MaxWidgets

VARIABLES
  sel,      \* the experiment of _currentExpListItem
  remote,   \* _experiments[...]['Remote']
  list,     \* remoteWidgetLayout.list: the widgets on display
  built,    \* how many widgets have been built
  past,     \* a past measurement is on display
  pad,      \* is there a gamepad?
  bound,    \* the widgets that the gamepad is connected to
  acted,    \* the widgets that have acted on the last event of the gamepad
  crash     \* the exception that a slot has raised

vars == <<sel, remote, list, built, past, pad, bound, acted, crash>>
Widget == [id : 1..MaxWidgets, name : Names, val : Values, gp : BOOLEAN]

Up == crash = "none"
Without(f, n) == [k \in DOMAIN f \ {n} |-> f[k]]
With(f, n, c) == [k \in DOMAIN f \cup {n} |-> IF k = n THEN c ELSE f[k]]

\* may the user choose this name, other than those it has?
Free(n, own) == Unique => n \in own \/ n \notin DOMAIN remote[sel]

\* FreeLayout: the widgets that are shown
AddWidget(w) == list' = list \cup {w}
RemoveWidget(w) == list' = list \ {w}

\* MovableWidget: a right click opens the menu of a widget, when it has not been
\* dragged; where it is dragged to is not kept
ContextMenu(w) == w \in list

\* configureRemote: a widget for every entry, none of the widgets before
Configured(entries, from) ==
  {S \in SUBSET [id : (from + 1)..(from + Cardinality(DOMAIN entries)),
                 name : DOMAIN entries, val : Values, gp : BOOLEAN] :
     /\ Cardinality(S) = Cardinality(DOMAIN entries)
     /\ \A v, w \in S : v # w => v.id # w.id /\ v.name # w.name
     /\ \A w \in S : entries[w.name] = [val |-> w.val, gp |-> w.gp]}

Configure(e) == list' \in Configured(remote[e], built)

\* mutant: the thread is stopped, its signals stay connected
PadStopKept == pad' = FALSE /\ UNCHANGED bound
PadStop == pad' = FALSE /\ bound' = {}

\* experimentDclicked: the gamepad is stopped, and getGamepadByIndex is called
\* without the devices when one is selected
Apply(e) ==
  /\ Up /\ built + Cardinality(DOMAIN remote[e]) <= MaxWidgets
  /\ sel' = e /\ past' = FALSE
  /\ Configure(e)
  /\ built' = built + Cardinality(DOMAIN remote[e])
  /\ crash' = IF pad THEN "TypeError" ELSE "none"
  /\ PadStop /\ acted' = {}
  /\ UNCHANGED remote

\* loadLastMeas: the widgets are cleared, the gamepad stays
LoadLastMeas ==
  /\ Up /\ ~past
  /\ past' = TRUE /\ list' = {} /\ acted' = {}
  /\ UNCHANGED <<sel, remote, built, pad, bound, crash>>

\* remoteAddWidget, after the dialog: no gamepad control, and not connected
RemoteAddWidget(n, v) ==
  /\ Up /\ built < MaxWidgets /\ Free(n, {})
  /\ remote' = [remote EXCEPT ![sel] = With(@, n, [val |-> v, gp |-> FALSE])]
  /\ built' = built + 1
  /\ AddWidget([id |-> built + 1, name |-> n, val |-> v, gp |-> FALSE])
  /\ acted' = {}
  /\ UNCHANGED <<sel, past, pad, bound, crash>>

\* mutant: the entry of the old name stays
EntryKept(n) == remote[sel]
EntryLess(n) == Without(remote[sel], n)

\* mutant: the widget has its new name before the entry is deleted
NewKey(w, n) == n
OldKey(w, n) == w.name

\* remoteConfigWidget: the entry of the old name is deleted, the dialog's is set;
\* the widget keeps its gamepad control, the dialog does not know it
RemoteConfigWidget(w, n, v) ==
  /\ Up /\ ContextMenu(w) /\ Free(n, {w.name})
  /\ IF OldKey(w, n) \in DOMAIN remote[sel]
     THEN /\ remote' = [remote EXCEPT ![sel] =
                          With(EntryLess(OldKey(w, n)), n, [val |-> v, gp |-> FALSE])]
          /\ list' = (list \ {w}) \cup {[w EXCEPT !.name = n, !.val = v]}
          /\ UNCHANGED crash
     ELSE crash' = "KeyError" /\ UNCHANGED <<remote, list>>
  /\ acted' = {}
  /\ UNCHANGED <<sel, built, past, pad, bound>>

\* remoteRemoveWidget
RemoteRemoveWidget(w) ==
  /\ Up /\ ContextMenu(w)
  /\ IF w.name \in DOMAIN remote[sel]
     THEN /\ remote' = [remote EXCEPT ![sel] = Without(@, w.name)]
          /\ RemoveWidget(w)
          /\ UNCHANGED crash
     ELSE crash' = "KeyError" /\ UNCHANGED <<remote, list>>
  /\ acted' = {}
  /\ UNCHANGED <<sel, built, past, pad, bound>>

\* selectGamepad: a gamepad before it is stopped; updateGamePad of all widgets
SelectGamepad ==
  /\ Up
  /\ pad' = TRUE
  /\ bound' = {w.id : w \in {v \in list : v.gp}}
  /\ acted' = {}
  /\ UNCHANGED <<sel, remote, list, built, past, crash>>

\* a button or a stick: the lambdas keep the widgets they were made for
GamepadEvent ==
  /\ Up /\ pad /\ bound # {}
  /\ acted' = bound
  /\ UNCHANGED <<sel, remote, list, built, past, pad, bound, crash>>

Init ==
  /\ remote = File /\ past = FALSE /\ pad = FALSE
  /\ bound = {} /\ acted = {} /\ crash = "none"
  /\ sel \in Exps
  /\ built = Cardinality(DOMAIN File[sel])
  /\ list \in Configured(File[sel], 0)

Next ==
  \/ \E e \in Exps : Apply(e)
  \/ LoadLastMeas
  \/ \E n \in Names, v \in Values : RemoteAddWidget(n, v)
  \/ \E w \in list : RemoteRemoveWidget(w)
  \/ \E w \in list, n \in Names, v \in Values : RemoteConfigWidget(w, n, v)
  \/ SelectGamepad \/ GamepadEvent

Spec == Init /\ [][Next]_vars

-----------------------------------------------------------------------------
\* The types of the variables.
TypeOK ==
  /\ sel \in Exps
  /\ remote \in [Exps -> Sections]
  /\ list \subseteq Widget /\ \A v, w \in list : v.id = w.id => v = w
  /\ built \in 0..MaxWidgets /\ past \in BOOLEAN /\ pad \in BOOLEAN
  /\ bound \subseteq 1..built /\ acted \subseteq bound
  /\ ~pad => bound = {}
  /\ crash \in {"none", "KeyError", "TypeError"}

Shown == {<<w.name, w.val>> : w \in list}

\* copyRemoteSource
RemoteSource == remote[sel]

\* "To save the configuration by means of right click the code can be exported":
\* the Remote section has every widget on display by its name and value, and no other
\* one.  (Its control by a gamepad is not kept: SavedPad.)
Saved ==
  ~past => /\ Shown = {<<n, RemoteSource[n].val>> : n \in DOMAIN RemoteSource}
           /\ Cardinality(list) = Cardinality(DOMAIN RemoteSource)

\* With widgets that have their own names, the menu of a widget never fails.
MenuReturns == crash # "KeyError"

\* The section is what is on display, and every menu finds its entry.
SectionInv == TypeOK /\ Saved /\ MenuReturns

-----------------------------------------------------------------------------
(* What a comment or a guide says and the code does not keep.              *)

\* The Remote section has the gamepad controls that the widgets have.
SavedPad ==
  \A w \in list : w.name \in DOMAIN remote[sel] => remote[sel][w.name].gp = w.gp

\* "To control the remote widgets it is possible to use a gamepad": it controls
\* those that are on display.
PadControlsShown == acted \subseteq {w.id : w \in list}

\* "construct new gamepad": applying an experiment does not fail.
ApplyReturns == crash # "TypeError"
=============================================================================

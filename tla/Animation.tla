----------------------------- MODULE Animation -----------------------------
(***************************************************************************)
(* The visualizers (pywisp/visualization.py, pywisp/gui.py): one of those  *)
(* that the applied experiment names is loaded and updated with every      *)
(* sample, and saves its frames as pictures when the option is checked.    *)
(*                                                                         *)
(* A visualizer that is loaded is a new object, without the name of the    *)
(* experiment and the time of the start until an experiment is started.    *)
(* The user's update calls saveIfChecked.  An exception ends the program.  *)
(***************************************************************************)
EXTENDS Integers, Sequences, FiniteSets

CONSTANTS
  Exps,         \* experiments of the file
  Visu,         \* the visualizers an experiment names: experiment |-> sequence
  Vtk,          \* those that are derived from VtkVisualizer
  VtkAvailable,
  Fast,         \* may two experiments be started within a second?
  MaxTime,      \* bound on the seconds
  MaxFrames     \* bound on the frames that are saved

Classes == UNION {{Visu[e][i] : i \in DOMAIN Visu[e]} : e \in Exps}

\* assumed of the constants
AnimationAssumption ==
  /\ Vtk \subseteq Classes /\ {VtkAvailable, Fast} \subseteq BOOLEAN
  /\ \A e \in Exps : Visu[e] \in Seq(Classes)
  /\ "none" \notin Classes \cup Exps /\ MaxTime \in Nat \ {0} /\ MaxFrames \in Nat

VARIABLES
  sel,      \* the experiment that is applied
  shown,    \* the visualizer that the box shows
  vis,      \* MainGui.visualizer
  option,   \* actSaveAnimation is checked
  run,      \* the experiment that runs, when it was started, and a history: quiet as
            \* long as visualizer and option have been left alone since then
  now,      \* seconds
  files,    \* the pictures: their name, and the run that they show
  saved,    \* history: how many pictures were saved
  crash

vars == <<sel, shown, vis, option, run, now, files, saved, crash>>
setup == <<sel, shown, vis, option>>

NoVis == [of |-> "none", save |-> FALSE, path |-> "none", stamp |-> 0, count |-> 0]
NoRun == [exp |-> "none", at |-> 0, quiet |-> TRUE]
Up == crash = "none"
Idle == run = NoRun
Disturbed == IF Idle THEN run ELSE [run EXCEPT !.quiet = FALSE]

Vises == [of : Classes \cup {"none"}, save : BOOLEAN, path : Exps \cup {"none"},
          stamp : 0..MaxTime, count : 0..MaxFrames]

\* mutant: a visualizer that is there is kept
LoadedOnce(c) == IF vis = NoVis THEN [NoVis EXCEPT !.of = c, !.save = option] ELSE vis
Loaded(c) == [NoVis EXCEPT !.of = c, !.save = option]

\* setVisualizer: without vtk the one before stays, and is taken for the new one
SetVisualizer(c) ==
  /\ shown' = c
  /\ IF c \in Vtk /\ ~VtkAvailable
     THEN /\ vis' = [vis EXCEPT !.save = option]
          /\ crash' = IF vis = NoVis THEN "AttributeError" ELSE "none"
     ELSE vis' = Loaded(c) /\ UNCHANGED crash

\* experimentDclicked and configureVisualizer: the first visualizer of the
\* experiment; with none the box is emptied and the one before stays
Apply(e) ==
  /\ Up /\ sel' = e
  /\ IF Visu[e] = <<>> THEN shown' = "none" /\ UNCHANGED <<vis, crash>>
     ELSE SetVisualizer(Visu[e][1])
  /\ run' = Disturbed
  /\ UNCHANGED <<option, now, files, saved>>

\* visualizerChanged, by the box
VisualizerChanged(c) ==
  /\ Up /\ shown # "none" /\ c # shown /\ \E i \in DOMAIN Visu[sel] : Visu[sel][i] = c
  /\ SetVisualizer(c) /\ run' = Disturbed
  /\ UNCHANGED <<sel, option, now, files, saved>>

\* mutant: the option is disconnected and not connected to the new visualizer
CheckedNot(v, o) == v
\* checkSaveAnimation, of the visualizer loaded last
Checked(v, o) == IF v = NoVis THEN v ELSE [v EXCEPT !.save = o]

CheckSaveAnimation ==
  /\ Up /\ option' = ~option
  /\ vis' = Checked(vis, ~option) /\ run' = Disturbed
  /\ UNCHANGED <<sel, shown, now, files, saved, crash>>

\* mutants: the time is only taken once; the counter is reset whether or not
\* frames are saved
StampedOnce(v) == IF v.save /\ v.stamp = 0 THEN [v EXCEPT !.count = 0, !.stamp = now] ELSE v
StampedAlways(v) == [v EXCEPT !.count = 0, !.stamp = IF v.save THEN now ELSE v.stamp]

\* startAnimation
Stamped(v) == IF v.save THEN [v EXCEPT !.count = 0, !.stamp = now] ELSE v

\* mutant: the name is not set for a visualizer that has been loaded since
NamedNot(v) == v

\* setExpName
Named(v) == [v EXCEPT !.path = sel]

StartExperiment ==
  /\ Up /\ Idle /\ (Fast \/ \A f \in files : f.stamp # now)
  /\ run' = [exp |-> sel, at |-> now, quiet |-> TRUE]
  /\ vis' = IF vis = NoVis THEN vis ELSE Stamped(Named(vis))
  /\ UNCHANGED <<sel, shown, option, now, files, saved, crash>>

\* updateDataPlots: update, saveIfChecked
Update ==
  /\ Up /\ ~Idle /\ vis # NoVis /\ saved < MaxFrames
  /\ IF ~vis.save THEN UNCHANGED <<vis, files, saved, crash>>
     ELSE IF vis.path = "none" \/ vis.stamp = 0
          THEN crash' = "TypeError" /\ UNCHANGED <<vis, files, saved>>
          ELSE LET name == [exp |-> vis.path, stamp |-> vis.stamp, n |-> vis.count] IN
               /\ files' = {f \in files : [exp |-> f.exp, stamp |-> f.stamp, n |-> f.n] # name}
                           \cup {[exp |-> vis.path, stamp |-> vis.stamp, n |-> vis.count, run |-> run]}
               /\ saved' = saved + 1 /\ vis' = [vis EXCEPT !.count = @ + 1]
               /\ UNCHANGED crash
  /\ UNCHANGED <<sel, shown, option, run, now>>

StopExperiment ==
  /\ Up /\ ~Idle /\ run' = NoRun
  /\ UNCHANGED <<setup, now, files, saved, crash>>

Tick ==
  /\ now < MaxTime /\ now' = now + 1
  /\ UNCHANGED <<setup, run, files, saved, crash>>

Init ==
  /\ sel \in Exps /\ option = FALSE /\ run = NoRun /\ now = 1
  /\ files = {} /\ saved = 0
  /\ IF Visu[sel] = <<>> THEN shown = "none" /\ vis = NoVis /\ crash = "none"
     ELSE /\ shown = Visu[sel][1]
          /\ IF shown \in Vtk /\ ~VtkAvailable
             THEN vis = NoVis /\ crash = "AttributeError"
             ELSE vis = [NoVis EXCEPT !.of = shown] /\ crash = "none"

Next ==
  \/ \E e \in Exps : Apply(e)
  \/ \E c \in Classes : VisualizerChanged(c)
  \/ CheckSaveAnimation \/ StartExperiment \/ Update \/ StopExperiment \/ Tick

Spec == Init /\ [][Next]_vars

-----------------------------------------------------------------------------
\* The types of the variables.
TypeOK ==
  /\ sel \in Exps /\ shown \in Classes \cup {"none"} /\ vis \in Vises
  /\ option \in BOOLEAN /\ now \in 1..MaxTime /\ saved \in 0..MaxFrames
  /\ run \in [exp : Exps \cup {"none"}, at : 0..MaxTime, quiet : BOOLEAN]
  /\ files \subseteq [exp : Exps, stamp : 1..MaxTime, n : 0..MaxFrames,
                      run : [exp : Exps, at : 1..MaxTime, quiet : BOOLEAN]]
  /\ crash \in {"none", "AttributeError", "TypeError"}
  /\ vis.save => option

\* A picture is named after the run that it shows, as long as visualizer and
\* option are left alone.
FramesNamed == \A f \in files : f.run.quiet => f.run.exp = f.exp /\ f.run.at = f.stamp

\* No picture is written over, whenever the option is changed.
FramesKept == Cardinality(files) = saved

\* "They can be selected in GUI at runtime": saving a frame does not fail, as long
\* as they are left alone.
SaveReturns == crash = "TypeError" => ~run.quiet

\* The visualizer that is updated is the one that the box shows.
DrawnIsShown == vis.of = shown

\* The pictures are those of what is shown, and of a quiet run, also by their names.
PicturesInv == TypeOK /\ FramesKept /\ DrawnIsShown /\ FramesNamed /\ SaveReturns

-----------------------------------------------------------------------------
(* What a comment or a guide says and the code does not keep.              *)

\* "They can be selected in GUI at runtime": saving a frame does not fail.
SelectedAtRuntime == crash # "TypeError"

\* "visualizer depends on vtk which is not available": the program goes on.
LoadReturns == crash # "AttributeError"
=============================================================================

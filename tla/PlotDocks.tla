----------------------------- MODULE PlotDocks -----------------------------
(***************************************************************************)
(* The plot windows of the main window (pywisp/gui.py): the tree in which  *)
(* the user collects data points under titles, the docks and charts that   *)
(* are opened for them, the measurements they show, and the export.        *)
(*                                                                         *)
(* A curve is reduced to the measurement whose data it shows, 0 for none;  *)
(* PlotChart has the drawing itself.  All data points of a measurement     *)
(* get their first sample together.                                        *)
(***************************************************************************)
EXTENDS Integers, Sequences, FiniteSets

CONSTANTS
  Titles,    \* titles of plots
  Reserved,  \* nonPlottingDocks, those titles that the other docks have
  First,     \* the title that addPlotTreeItem proposes
  Labels,    \* data points
  Exps,      \* experiments
  PointsOf,  \* the data points of an experiment
  MaxMeas    \* bound on the measurements

\* assumed of the constants
DocksAssumption ==
  /\ First \in Titles
  /\ PointsOf \in [Exps -> SUBSET Labels]
  /\ MaxMeas \in Nat

VARIABLES
  exp,       \* the experiment that is applied
  listed,    \* dataPointListWidget
  tree,      \* dataPointTreeWidget: title |-> data points
  docks,     \* the plot docks that are open
  charts,    \* plotCharts: title |-> curve |-> the measurement it shows
  meas,      \* measurements: their experiments
  filled,    \* the measurements that have samples
  cur,       \* the measurement of _currentLastMeasItem, 0 for None
  running,   \* an experiment with data points runs, and the plot timer
  exporter,  \* the export: none, busy, or dead without having emitted done
  crash      \* the exception that a slot has raised

vars == <<exp, listed, tree, docks, charts, meas, filled, cur, running, exporter, crash>>
plots == <<tree, docks, charts>>
record == <<exp, listed, meas, filled, cur, running>>

Up == crash = "none"
Without(f, t) == [k \in DOMAIN f \ {t} |-> f[k]]
With(f, t, v) == [k \in DOMAIN f \cup {t} |-> IF k = t THEN v ELSE f[k]]
Points(i) == PointsOf[meas[i]]

\* mutant: the buffers of the last measurement, whichever is loaded
ShownLast == IF Len(meas) \in filled THEN Len(meas) ELSE 0

\* what addCurve draws: the buffers of the current measurement
Shown == IF cur \in filled THEN cur ELSE 0

\* mutant: data points that the measurement does not have are drawn, too
DrawnAny(chart, i, ps, full) == [l \in DOMAIN chart |-> IF full THEN i ELSE chart[l]]

\* PlotChart.updateCurves with the buffers of measurement i
Drawn(chart, i, ps, full) ==
  [l \in DOMAIN chart |-> IF l \in ps /\ full THEN i ELSE chart[l]]

\* updatePlot for every item of the tree
UpdatePlots(i, ps, full) ==
  charts' = [t \in DOMAIN charts |->
               IF t \in DOMAIN tree THEN Drawn(charts[t], i, ps, full) ELSE charts[t]]

\* updatePlotChart: nothing without a measurement; a data point that the
\* measurement does not have raises KeyError and leaves the rest undone
UpdatePlotChart(t, ls) ==
  IF cur = 0 \/ t \in Reserved \/ t \notin docks THEN UNCHANGED <<charts, crash>>
  ELSE LET new == ls \ DOMAIN charts[t]
       IN IF new \subseteq Points(cur)
          THEN /\ charts' = With(charts, t,
                    [l \in ls |-> IF l \in new THEN Shown ELSE charts[t][l]])
               /\ UNCHANGED crash
          ELSE /\ crash' = "KeyError"
               /\ \E some \in SUBSET (new \cap Points(cur)) :
                    charts' = With(charts, t,
                      [l \in some \cup DOMAIN charts[t] |-> IF l \in some THEN Shown ELSE charts[t][l]])

\* findAllPlotDocks, of the docks that are open
FindAllPlotDocks(open) == open \ Reserved

\* closedDock, when only the docks "open" are left: a chart goes with its dock
ClosedDock(open) ==
  /\ docks' = open
  /\ charts' = [t \in DOMAIN charts \cap FindAllPlotDocks(open) |-> charts[t]]

-----------------------------------------------------------------------------
(* Experiments and measurements                                            *)

\* updateDataPoints, unless there are none
ListPoints(e) == listed' = IF PointsOf[e] = {} THEN listed ELSE PointsOf[e]

ApplyExperiment(e) ==
  /\ Up /\ ~running
  /\ exp' = e /\ ListPoints(e)
  /\ UNCHANGED <<plots, meas, filled, cur, running, exporter, crash>>

\* startExperiment and copyLastMeas; without data points there is no measurement
StartExperiment ==
  /\ Up /\ ~running /\ PointsOf[exp] # {} /\ Len(meas) < MaxMeas
  /\ meas' = Append(meas, exp)
  /\ cur' = Len(meas) + 1
  /\ running' = TRUE
  /\ ListPoints(exp)
  /\ UpdatePlots(cur', PointsOf[exp], FALSE)
  /\ UNCHANGED <<exp, tree, docks, filled, exporter, crash>>

\* updateData, the first frames
Sample ==
  /\ Up /\ running
  /\ filled' = filled \cup {Len(meas)}
  /\ UNCHANGED <<plots, exp, listed, meas, cur, running, exporter, crash>>

\* updateDataPlots: every chart, with the running measurement's buffers
UpdateDataPlots ==
  /\ Up /\ running
  /\ LET i == Len(meas) IN
       charts' = [t \in DOMAIN charts |-> Drawn(charts[t], i, Points(i), i \in filled)]
  /\ UNCHANGED <<record, tree, docks, exporter, crash>>

StopExperiment ==
  /\ Up /\ running
  /\ running' = FALSE
  /\ UNCHANGED <<plots, exp, listed, meas, filled, cur, exporter, crash>>

\* mutant: also while an experiment runs
LoadAnyTime(i) ==
  /\ Up
  /\ cur' = i /\ exp' = meas[i] /\ ListPoints(meas[i])
  /\ UpdatePlots(i, Points(i), i \in filled)
  /\ UNCHANGED <<tree, docks, meas, filled, running, exporter, crash>>

\* mutant: the row is counted from one
LoadRow(i) ==
  /\ Up /\ ~running
  /\ cur' = i + 1 /\ exp' = meas[i] /\ ListPoints(meas[i])
  /\ UpdatePlots(i, Points(i), i \in filled)
  /\ UNCHANGED <<tree, docks, meas, filled, running, exporter, crash>>

\* loadLastMeas
LoadLastMeas(i) ==
  /\ Up /\ ~running
  /\ cur' = i /\ exp' = meas[i] /\ ListPoints(meas[i])
  /\ UpdatePlots(i, Points(i), i \in filled)
  /\ UNCHANGED <<tree, docks, meas, filled, running, exporter, crash>>

-----------------------------------------------------------------------------
(* The tree and the docks                                                  *)

AddPlotTreeItem(t) ==
  /\ Up /\ t \notin DOMAIN tree
  /\ tree' = With(tree, t, {})
  /\ UNCHANGED <<record, docks, charts, exporter, crash>>

\* mutant: the window of a deleted plot stays open
RemoveItemOnly(t) ==
  /\ Up /\ t \in DOMAIN tree
  /\ tree' = Without(tree, t)
  /\ UNCHANGED <<record, docks, charts, exporter, crash>>

\* removePlotTreeItem, confirmed; closing the dock calls closedDock
RemovePlotTreeItem(t) ==
  /\ Up /\ t \in DOMAIN tree
  /\ tree' = Without(tree, t)
  /\ ClosedDock(docks \ {t})
  /\ UNCHANGED <<record, exporter, crash>>

\* addDatapointToTree: to the selected plot, to the only one, or to a new one
AddDatapointToTree(t, ls) ==
  /\ Up /\ ls # {} /\ ls \subseteq listed
  /\ t \in DOMAIN tree \/ (tree = <<>> /\ t = First)
  /\ LET old == IF t \in DOMAIN tree THEN tree[t] ELSE {} IN
       /\ tree' = With(tree, t, old \cup ls)
       /\ UpdatePlotChart(t, old \cup ls)
  /\ UNCHANGED <<record, docks, exporter>>

\* mutant: the chart is not told
TakeChildOnly(t, l) ==
  /\ Up /\ t \in DOMAIN tree /\ l \in tree[t]
  /\ tree' = With(tree, t, tree[t] \ {l})
  /\ UNCHANGED <<record, docks, charts, exporter, crash>>

\* removeDatapointFromTree
RemoveDatapointFromTree(t, l) ==
  /\ Up /\ t \in DOMAIN tree /\ l \in tree[t]
  /\ tree' = With(tree, t, tree[t] \ {l})
  /\ UpdatePlotChart(t, tree[t] \ {l})
  /\ UNCHANGED <<record, docks, exporter>>

\* plotVectorClicked and plotDataVector: curves for the items that the current
\* measurement has, or without one the experiment
PlotVectorClicked(t) ==
  /\ Up /\ t \in DOMAIN tree \ Reserved /\ t \notin docks /\ t \notin DOMAIN charts
  /\ docks' = docks \cup {t}
  /\ LET ls == tree[t] \cap (IF cur = 0 THEN PointsOf[exp] ELSE Points(cur)) IN
       charts' = With(charts, t, [l \in ls |-> Shown])
  /\ UNCHANGED <<record, tree, exporter, crash>>

\* the user closes the window
CloseDock(t) ==
  /\ Up /\ t \in docks
  /\ ClosedDock(docks \ {t})
  /\ UNCHANGED <<record, tree, exporter, crash>>

LoadStandardDockState ==
  /\ Up /\ ClosedDock({})
  /\ UNCHANGED <<record, tree, exporter, crash>>

-----------------------------------------------------------------------------
(* The export                                                              *)

\* exportDataPointFromTree; the slot copies the buffers before the thread starts
Export(ls) ==
  /\ Up /\ exporter = "none" /\ ls # {} /\ ls \subseteq listed /\ cur # 0
  /\ IF ls \subseteq Points(cur)
     THEN exporter' = "busy" /\ UNCHANGED crash
     ELSE crash' = "KeyError" /\ UNCHANGED exporter
  /\ UNCHANGED <<plots, record>>

\* ExportThread.run emits done, also for a cancelled dialog or a wrong extension
ExportDone == exporter' = "none"

\* _buildFrame, to_csv or savefig raise, and done is not emitted
ExportDies == exporter' = "dead"

ExportThread ==
  /\ exporter = "busy"
  /\ ExportDone \/ ExportDies
  /\ UNCHANGED <<plots, record, crash>>

Init ==
  /\ exp \in Exps /\ listed = PointsOf[exp]
  /\ tree = <<>> /\ docks = {} /\ charts = <<>>
  /\ meas = <<>> /\ filled = {} /\ cur = 0 /\ running = FALSE
  /\ exporter = "none" /\ crash = "none"

Next ==
  \/ \E e \in Exps : ApplyExperiment(e)
  \/ StartExperiment \/ Sample \/ UpdateDataPlots \/ StopExperiment
  \/ \E i \in 1..Len(meas) : LoadLastMeas(i)
  \/ \E t \in Titles :
       \/ AddPlotTreeItem(t) \/ RemovePlotTreeItem(t)
       \/ PlotVectorClicked(t) \/ CloseDock(t)
       \/ \E ls \in SUBSET Labels : AddDatapointToTree(t, ls)
       \/ \E l \in Labels : RemoveDatapointFromTree(t, l)
  \/ LoadStandardDockState
  \/ \E ls \in SUBSET Labels : Export(ls)
  \/ ExportThread

Spec == Init /\ [][Next]_vars

-----------------------------------------------------------------------------
Charts == UNION {[S -> 0..MaxMeas] : S \in SUBSET Labels}

\* The types of the variables.
TypeOK ==
  /\ exp \in Exps /\ listed \subseteq Labels
  /\ DOMAIN tree \subseteq Titles /\ \A t \in DOMAIN tree : tree[t] \subseteq Labels
  /\ docks \subseteq Titles /\ \A t \in DOMAIN charts : charts[t] \in Charts
  /\ Len(meas) <= MaxMeas /\ \A i \in 1..Len(meas) : meas[i] \in Exps
  /\ filled \subseteq 1..Len(meas) /\ cur \in 0..Len(meas)
  /\ running \in BOOLEAN /\ exporter \in {"none", "busy", "dead"}
  /\ crash \in {"none", "KeyError"}

\* However a plot window is closed (by its button, with its item of the tree, by
\* the standard layout), its chart goes with it: a title can be opened again.
ChartsAreDocks == DOMAIN charts = docks /\ docks \subseteq DOMAIN tree \ Reserved

\* What a curve shows has been recorded: it is of a measurement that has samples,
\* and of one that has the data point of the curve.
CurvesAreRecorded ==
  \A t \in DOMAIN charts : \A l \in DOMAIN charts[t] :
    charts[t][l] # 0 => charts[t][l] \in filled /\ l \in Points(charts[t][l])

\* While an experiment runs the current measurement and the experiment applied are
\* its own.  The curves may still show older measurements, until the next sample
\* is drawn or for good, where the run does not have their data point.
RunIsCurrent == running => cur = Len(meas) /\ exp = meas[cur]

\* The plot windows have their charts, the charts what has been recorded, and a
\* run is the current measurement.
PlotsInv == TypeOK /\ ChartsAreDocks /\ CurvesAreRecorded /\ RunIsCurrent

\* A curve only turns to the current measurement, in a run to that of the run: a
\* chart that is opened or a curve that is added shows it as soon as it has
\* samples, and a curve that is there shows what it did or the current one.
CurvesFollow ==
  \A t \in DOMAIN charts' : \A l \in DOMAIN charts'[t] :
    IF t \in DOMAIN charts /\ l \in DOMAIN charts[t]
    THEN charts'[t][l] \in {charts[t][l], cur'}
    ELSE charts'[t][l] = IF cur' \in filled' THEN cur' ELSE 0

\* An edit of a plot whose window is open ends with exactly its items as curves.
EditShows ==
  \A t \in docks : cur # 0 /\ tree' # tree /\ t \in DOMAIN tree' /\ tree'[t] # tree[t]
    /\ crash' = "none" => DOMAIN charts'[t] = tree'[t]

-----------------------------------------------------------------------------
(* What a comment or a guide says and the code does not keep.              *)

\* "clear all curves that are no longer required by items"
CurvesAreItems == \A t \in DOMAIN charts : DOMAIN charts[t] \subseteq tree[t]

\* "There is already an export job running": an export that has failed is over.
ExportEnds == exporter # "dead"

\* "check if all items are present as curves": the slots do not fail.
SlotReturns == crash = "none"

\* "Loads the measurement data from the measurement dict by given item": what the
\* plots show after that is of this measurement.
LoadShows ==
  [][~running /\ ~running' /\ cur' # cur =>
       \A t \in DOMAIN charts' : \A l \in DOMAIN charts'[t] : charts'[t][l] \in {0, cur'}]_vars
=============================================================================

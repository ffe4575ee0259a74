----------------------------- MODULE MainWindow -----------------------------
(***************************************************************************)
(* The parts of the main window (pywisp/gui.py), side by side: what the    *)
(* remote widgets write (Settings), the lists of them (RemoteWidgets), the *)
(* dialog that builds a slider (RemoteSlider), the plot windows            *)
(* (PlotDocks), the curves of one of them (PlotChart), the menus (Menus)   *)
(* and the visualizers (Animation).                                        *)
(*                                                                         *)
(* They share nothing that more than one of them writes but the exception  *)
(* that ends the program: a behaviour has one of them, "part", and leaves  *)
(* the variables of the others alone.                                      *)
(***************************************************************************)
EXTENDS Integers, Sequences, FiniteSets

CONSTANTS
  Parts,    \* the parts that are looked at
  \* Settings
  Mods, Pars, Public, Values, Exps, File, DataMods, Widgets, None, SendAll, MaxRuns,
  \* RemoteWidgets
  SectionExps, Names, SectionValues, SectionFile, Unique, MaxWidgets,
  \* RemoteSlider
  ModList, ParLists, SliderFile, Ranges, Empty, Buttons,
  \* PlotDocks
  Titles, Reserved, First, Labels, DockExps, PointsOf, MaxMeas,
  \* PlotChart
  CurveNames, Method, MaxStep, Width, MaxLen, Ties, Restarts,
  \* Menus
  Serials, Preset, AllPorts, Arduinos, Scarce,
  \* Animation
  PictureExps, Visu, Vtk, VtkAvailable, Fast, MaxTime, MaxFrames

VARIABLES
  part, crash,
  exp, sets, modSets, rig, running, ready, shown, remote, checked, runs, asked,
  sel, section, list, built, past, pad, bound, acted,
  pars, slider, dlg,
  applied, listed, tree, docks, charts, meas, filled, cur, sampling, exporter,
  buf, received, curves, moving, cache, drawn,
  up, plugged, port, chosen, menu, tcpPort, timer,
  selected, displayed, vis, option, run, now, files, saved

writing == <<exp, sets, modSets, rig, running, ready, shown, remote, checked, runs, asked>>
listing == <<sel, section, list, built, past, pad, bound, acted>>
sliding == <<pars, slider, dlg>>
plotting == <<applied, listed, tree, docks, charts, meas, filled, cur, sampling, exporter>>
drawing == <<buf, received, curves, moving, cache, drawn>>
choosing == <<up, plugged, port, chosen, menu, tcpPort, timer>>
watching == <<selected, displayed, vis, option, run, now, files, saved>>
vars == <<part, crash, writing, listing, sliding, plotting, drawing, choosing, watching>>

S == INSTANCE Settings
W == INSTANCE RemoteWidgets WITH
       remote <- section, Exps <- SectionExps, Values <- SectionValues, File <- SectionFile
L == INSTANCE RemoteSlider WITH
       sets <- pars, Mods <- ModList, Pars <- ParLists, File <- SliderFile
P == INSTANCE PlotDocks WITH exp <- applied, running <- sampling, Exps <- DockExps
C == INSTANCE PlotChart WITH shown <- drawn, Names <- CurveNames
K == INSTANCE Menus
V == INSTANCE Animation WITH sel <- selected, shown <- displayed, Exps <- PictureExps

\* assumed of the constants
MainWindowAssumption ==
  /\ S!SettingsAssumption /\ W!RemoteAssumption /\ L!RemoteSliderAssumption
  /\ P!DocksAssumption /\ C!ChartAssumption /\ K!MenusAssumption /\ V!AnimationAssumption

-----------------------------------------------------------------------------
Off(v) == v = "off"
NoWriting == /\ Off(exp) /\ Off(sets) /\ Off(modSets) /\ Off(rig) /\ Off(running) /\ Off(ready)
             /\ Off(shown) /\ Off(remote) /\ Off(checked) /\ Off(runs) /\ Off(asked)
NoListing == /\ Off(sel) /\ Off(section) /\ Off(list) /\ Off(built) /\ Off(past)
             /\ Off(pad) /\ Off(bound) /\ Off(acted)
NoSliding == Off(pars) /\ Off(slider) /\ Off(dlg)
NoPlotting == /\ Off(applied) /\ Off(listed) /\ Off(tree) /\ Off(docks) /\ Off(charts)
              /\ Off(meas) /\ Off(filled) /\ Off(cur) /\ Off(sampling) /\ Off(exporter)
NoDrawing == /\ Off(buf) /\ Off(received) /\ Off(curves) /\ Off(moving) /\ Off(cache)
             /\ Off(drawn)
NoChoosing == /\ Off(up) /\ Off(plugged) /\ Off(port) /\ Off(chosen) /\ Off(menu)
              /\ Off(tcpPort) /\ Off(timer)
NoWatching == /\ Off(selected) /\ Off(displayed) /\ Off(vis) /\ Off(option) /\ Off(run)
              /\ Off(now) /\ Off(files) /\ Off(saved)

Init ==
  /\ part \in Parts
  /\ IF part = "settings" THEN S!Init ELSE NoWriting
  /\ IF part = "widgets" THEN W!Init ELSE NoListing
  /\ IF part = "slider" THEN L!Init ELSE NoSliding
  /\ IF part = "docks" THEN P!Init ELSE NoPlotting
  /\ IF part = "chart" THEN C!Init ELSE NoDrawing
  /\ IF part = "menus" THEN K!Init ELSE NoChoosing
  /\ IF part = "pictures" THEN V!Init ELSE NoWatching

Next ==
  \/ /\ part = "settings" /\ S!Next
     /\ UNCHANGED <<part, listing, sliding, plotting, drawing, choosing, watching>>
  \/ /\ part = "widgets" /\ W!Next
     /\ UNCHANGED <<part, writing, sliding, plotting, drawing, choosing, watching>>
  \/ /\ part = "slider" /\ L!Next
     /\ UNCHANGED <<part, writing, listing, plotting, drawing, choosing, watching>>
  \/ /\ part = "docks" /\ P!Next
     /\ UNCHANGED <<part, writing, listing, sliding, drawing, choosing, watching>>
  \/ /\ part = "chart" /\ C!Next
     /\ UNCHANGED <<part, writing, listing, sliding, plotting, choosing, watching>>
  \/ /\ part = "menus" /\ K!Next
     /\ UNCHANGED <<part, writing, listing, sliding, plotting, drawing, watching>>
  \/ /\ part = "pictures" /\ V!Next
     /\ UNCHANGED <<part, writing, listing, sliding, plotting, drawing, choosing>>

Spec == Init /\ [][Next]_vars

-----------------------------------------------------------------------------
\* What a measurement may rely on (runExperiment, sendChangedParameterExperiment):
\* modSets has an entry for every module of the tree, and as long as "Send
\* parameter" is not used the GUI knows what the rig has, up to the values that
\* push buttons with a reset value have left there.
SettingsInv == part = "settings" => S!SettingsInv

\* What a widget sends has arrived when its slot returns (remoteSendParamter), but
\* for the value to which a button resets the parameter, as long as the rig has the
\* value of such a button (updateSendParameter): that value is taken to be sent.
WidgetReaches == part = "settings" => S!WidgetReaches

\* "To save the configuration by means of right click the code can be exported":
\* the Remote section has an entry for every widget on display, with its name and
\* its value, and no other one, so that the menu of a widget finds its entry.
SectionInv == part = "widgets" => W!SectionInv

\* However it is built and edited, a slider stands between the ends that the user
\* has entered and writes a parameter of the experiment (setConfig, getData); as
\* long as it is not edited, it stands where the value of that parameter is, or
\* nearest to it, whichever widget has written it (remoteSendParamter).
SliderInv == part = "slider" => L!SliderInv

\* "Gets called when a user interacts with the slider": the dialog's OK and
\* Cancel write no parameter, when it is not opened to edit a slider.
DialogWritesNothing == [][part = "slider" => L!DialogWritesNothing]_vars

\* However a plot window is closed (by its button, with its item of the tree, by
\* the standard layout), its chart goes with it: a title can be opened again.
\* What a curve shows is of a measurement with samples of its data point, and while
\* an experiment runs the current measurement is its own (loadLastMeas).
PlotsInv == part = "docks" => P!PlotsInv

\* An edit of a plot whose window is open ends with exactly its items as curves
\* (addDatapointToTree, removeDatapointFromTree).
EditShows == [][part = "docks" => P!EditShows]_vars

\* A curve only turns to the current measurement (updatePlot), in a run to that of
\* the run (updateDataPlots); one that is new shows it at once (updatePlotChart).
CurvesFollow == [][part = "docks" => P!CurvesFollow]_vars

\* Drawing never changes what has been recorded, although the cache may be the
\* very list of the buffer (_downsample); a curve that has gone leaves no cache.
RecordInv == part = "chart" => C!TypeOK /\ C!RecordKept

\* What updateCurves draws is the measurement: from the cache no sample is passed
\* over, whatever the zoom has been, and at most an unfinished block is missing;
\* in the moving window there are samples of the last Width only.
DrawsRecord == [][part = "chart" => C!SkipsNothing /\ C!KeepsPace /\ C!WindowIsExact]_vars

\* A port that the class, the user or a menu gave stays until the user gives
\* another, whatever is plugged in and whichever menu is opened; "the counter
\* describes the connection number": at its start the program gives no port twice.
PortsInv == part = "menus" => K!PortsInv

\* No picture is written over, and the visualizer that is updated is the one that
\* the box shows; as long as visualizer and option are left alone during a run, a
\* picture is named after the run that it shows and saving it does not fail.
PicturesInv == part = "pictures" => V!PicturesInv
=============================================================================

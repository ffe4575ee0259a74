------------------------------ MODULE MCWindow ------------------------------
(* An instance of every part of the main window for TLC.                   *)
EXTENDS MainWindow, TLC

(* Settings: experiment A has modules m and n, B has n only, C has one     *)
(* that is not registered, D has no data points; A gives a setting that m  *)
(* does not have.  For one parameter a button with a reset, one without    *)
(* and one that sends the value to which the first resets; a switch and a  *)
(* slider for one parameter each.                                          *)
Zero == [p \in {"p", "q"} |-> 0]
ModDefaults == ("m" :> Zero) @@ ("n" :> Zero)
SettingsFile == ("A" :> (("m" :> ("p" :> 1 @@ "z" :> 1)) @@ ("n" :> <<>>)))
             @@ ("B" :> ("n" :> <<>>)) @@ ("C" :> ("x" :> <<>>)) @@ ("D" :> ("m" :> <<>>))
Widget(kind, mod, par, on, off, reset) ==
  [kind |-> kind, mod |-> mod, par |-> par, on |-> on, off |-> off, reset |-> reset]
SettingsWidgets ==
  {Widget("push", "m", "p", 1, 0, 0), Widget("push", "m", "p", 1, 0, None),
   Widget("push", "m", "p", 0, 0, None),
   Widget("switch", "m", "q", 1, 0, None), Widget("slider", "n", "p", 0, 0, None)}

(* RemoteWidgets: A has one widget with a gamepad control.                 *)
OneEntry == ("A" :> [n \in {"k"} |-> [val |-> 0, gp |-> TRUE]]) @@ ("B" :> <<>>)

(* RemoteSlider: values on and off the positions, and ranges whose last    *)
(* step is not whole.                                                      *)
TwoMods == <<"M", "N">>
SliderPars == ("M" :> <<"k", "d">>) @@ ("N" :> <<"p">>)
SliderValues == (<<"M", "k">> :> 2) @@ (<<"M", "d">> :> 0) @@ (<<"N", "p">> :> 0)
SliderButtons == {[par |-> <<"M", "k">>, on |-> 4], [par |-> <<"M", "d">>, on |-> 2]}
SliderRanges == {<<0, 5, 2>>, <<1, 3, 1>>, <<-3, 4, 2>>}

(* PlotDocks: each of two experiments lacks the data point of the other.   *)
TwoPoints == ("A" :> {"x"}) @@ ("B" :> {"y"})

(* Menus: two connections without a port and one with a port of its own.   *)
ThreeSerials == <<"c1", "c2", "c3">>
LastPreset == <<"", "", "P3">>
ThreePorts == <<"P3", "A1", "A2">>

(* Animation: A names two visualizers, B one of them; none needs vtk.      *)
TwoVisu == ("A" :> <<"v", "w">>) @@ ("B" :> <<"w">>)

ASSUME WindowAssumption == MainWindowAssumption
=============================================================================

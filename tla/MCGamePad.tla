----------------------------- MODULE MCGamePad -----------------------------
(* Instances of GamePad.                                                   *)
EXTENDS GamePad

MCSliderMin == -2
=============================================================================

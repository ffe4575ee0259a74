----------------------------- MODULE MCSession -----------------------------
(* Instances of Session for TLC.                                           *)
EXTENDS Session

CONSTANTS c1, c2, m1, m2, m3, e1, e2, e3

\* one connection with one module
OneConn == <<c1>>
OneConnOf == [m \in Mods |-> c1]
SameModules == [e \in Exps |-> <<m1>>]

\* two connections with a module each, both used by e1
TwoConns == <<c1, c2>>
TwoConnOf == [m \in Mods |-> IF m = m1 THEN c1 ELSE c2]
BothModules == [e \in Exps |-> <<m1, m2>>]

\* the same, and e3 with the module of the second connection alone: without data
BothOrLast == [e \in Exps |-> IF e = e3 THEN <<m2>> ELSE <<m1, m2>>]
=============================================================================

---------------------------- MODULE ExperimentLog ----------------------------
(***************************************************************************)
(* What a PyWisp session promises of its experiments, whatever happens to  *)
(* connections and handlers: one runs at a time, each leaves exactly one   *)
(* measurement, and no rig is activated outside a run.                     *)
(***************************************************************************)
EXTENDS Naturals

CONSTANT Rigs

VARIABLES
  running,  \* does an experiment run?
  items,    \* the measurements that have been begun and not been saved
  active    \* the rigs that control their plant

logVars == <<running, items, active>>

Init == running = FALSE /\ items = 0 /\ active = {}

Begin ==
  /\ ~running /\ items = 0
  /\ running' = TRUE /\ items' = 1
  /\ UNCHANGED active

\* a module refuses its parameters: nothing runs, the empty measurement is kept
Refuse ==
  /\ ~running /\ items = 0
  /\ items' = 1
  /\ UNCHANGED <<running, active>>

Activate(r) ==
  /\ running
  /\ active' = active \cup {r}
  /\ UNCHANGED <<running, items>>

Deactivate(r) ==
  /\ active' = active \ {r}
  /\ UNCHANGED <<running, items>>

End ==
  /\ running
  /\ running' = FALSE
  /\ UNCHANGED <<items, active>>

Save ==
  /\ ~running /\ items = 1
  /\ items' = 0
  /\ UNCHANGED <<running, active>>

Next == \/ Begin \/ Refuse \/ End \/ Save
        \/ \E r \in Rigs : Activate(r) \/ Deactivate(r)

Spec == Init /\ [][Next]_logVars
=============================================================================

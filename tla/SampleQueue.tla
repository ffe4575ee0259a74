----------------------------- MODULE SampleQueue -----------------------------
(***************************************************************************)
(* What the PLC promises the client that connects to it first: a queue.    *)
(* The samples of a cycle enter it together, whole and in the order of     *)
(* their numbers, and leave it one by one and in that order; nothing is    *)
(* lost, repeated or overtaken before the connection ends.                 *)
(***************************************************************************)
EXTENDS Naturals, Sequences

CONSTANT Serials  \* samples are numbered modulo Serials

VARIABLES
  open,     \* has the first connection not ended yet?
  queue,    \* the samples the client has not been given yet
  serial,   \* the number of the last sample put in
  received  \* the number of the last sample given to the client

queueVars == <<open, queue, serial, received>>

Init == open = TRUE /\ queue = <<>> /\ serial = 0 /\ received = 0

Put(n) ==
  /\ open
  /\ queue' = queue \o [k \in 1..n |-> (serial + k) % Serials]
  /\ serial' = (serial + n) % Serials
  /\ UNCHANGED <<open, received>>

Take ==
  /\ open /\ queue # <<>>
  /\ received' = Head(queue)
  /\ queue' = Tail(queue)
  /\ UNCHANGED <<open, serial>>

\* what the client has not been given by then is gone for it
End ==
  /\ open
  /\ open' = FALSE /\ queue' = <<>> /\ serial' = 0 /\ received' = 0

\* one sample of each data source per cycle, as far as there is room
Next == (\E n \in 1..2 : Put(n)) \/ Take \/ End

Spec == Init /\ [][Next]_queueVars
=============================================================================

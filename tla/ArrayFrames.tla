---------------------------- MODULE ArrayFrames ----------------------------
(***************************************************************************)
(* Arrays on their way to the rig (pywisp/utils.py, packArrayToFrame): a   *)
(* long parameter, such as a trajectory, is cut into frames; the first one *)
(* starts with the number of elements.  The frames are written one by one; *)
(* the rig collects elements until it has as many as it was told.          *)
(*                                                                         *)
(* The elements of an array of n are the numbers 0 .. n - 1.               *)
(***************************************************************************)
EXTENDS Integers, FiniteSets

CONSTANTS
  FrameLen,       \* frameLen: the largest payload of a frame, in bytes
  DataLenFloat,   \* dataLenFloat: bytes of an element
  DataLenInt,     \* dataLenInt: bytes of the number of elements
  MaxLen,         \* bound on the elements of an array
  MaxArrays       \* bound on the arrays that are sent

ASSUME ArrayAssumption ==
  /\ FrameLen \in Nat \ {0} /\ DataLenFloat \in {4, 8} /\ DataLenInt \in {1, 2, 4}
  /\ DataLenFloat <= FrameLen /\ MaxLen \in Nat /\ MaxArrays \in Nat

VARIABLES
  len,     \* elements of the array that is sent
  sent,    \* its frames that have been written
  want,    \* the number of elements the rig was told
  got,     \* the elements the rig has, by position
  arrays   \* arrays sent before

vars == <<len, sent, want, got, arrays>>

PerFrame == FrameLen \div DataLenFloat

\* N, rounded up
Frames(n) == (n * DataLenFloat + DataLenInt + FrameLen - 1) \div FrameLen

\* mutant: the first frame is filled as if it had no number
SlotsAll(i) == IF i = 0 THEN 1..PerFrame ELSE 0..(PerFrame - 1)

\* the places for elements in frame i: one less in the first
Slots(i) == IF i = 0 THEN 1..(PerFrame - 1) ELSE 0..(PerFrame - 1)

\* mutant: every frame is counted as short as the first one
ElemShort(i, j) == i * (PerFrame - 1) + j - 1

\* the element in place j of frame i
Elem(i, j) == i * PerFrame + j - 1

\* mutant: the element that the array ends with is left out
InFrameShort(n, i) == {Elem(i, j) : j \in {k \in Slots(i) : Elem(i, k) < n - 1}}

\* the elements of frame i
InFrame(n, i) == {Elem(i, j) : j \in {k \in Slots(i) : Elem(i, k) < n}}

Bytes(n, i) == DataLenFloat * Cardinality(InFrame(n, i)) + IF i = 0 THEN DataLenInt ELSE 0

Init == len = 0 /\ sent = Frames(0) /\ want = 0 /\ got = {} /\ arrays = 0

\* getParams of a module with an array
Pack(n) ==
  /\ sent = Frames(len) /\ arrays < MaxArrays
  /\ len' = n /\ sent' = 0 /\ arrays' = arrays + 1
  /\ UNCHANGED <<want, got>>

\* mutant: a rig that does not start again with the first frame
BeforeAll(i) == got
Before(i) == IF i = 0 THEN {} ELSE got

\* writeData for the next frame
WriteFrame ==
  /\ sent < Frames(len) /\ sent' = sent + 1
  /\ want' = IF sent = 0 THEN len ELSE want
  /\ got' = InFrame(len, sent) \cup Before(sent)
  /\ UNCHANGED <<len, arrays>>

Next == (\E n \in 0..MaxLen : Pack(n)) \/ WriteFrame

Spec == Init /\ [][Next]_vars

-----------------------------------------------------------------------------
\* The types, and that the rig has no element that the array does not have.
TypeOK ==
  /\ len \in 0..MaxLen /\ want \in 0..MaxLen /\ sent \in 0..Frames(len)
  /\ got \subseteq 0..(want - 1) /\ arrays \in 0..MaxArrays

\* While an array is sent, the rig has a beginning of it, and the next frame
\* has nothing of that: no element is left out, twice there or out of order.
InOrder ==
  0 < sent => /\ got = 0..(Cardinality(got) - 1)
              /\ sent < Frames(len) => InFrame(len, sent) \cap got = {}

\* When the last frame is written, the rig has the whole array.
Complete == sent = Frames(len) => want = len /\ got = 0..(len - 1)

\* "maximal data size of frame": no frame is longer.
FramesFit == sent < Frames(len) => Bytes(len, sent) <= FrameLen

\* While an array is sent, what the rig has is a beginning of it and the rest is
\* still to come, in frames that are no longer than allowed.
FramesInv == TypeOK /\ InOrder /\ FramesFit
=============================================================================

------------------------ MODULE ArrayFramesProofs ------------------------
(***************************************************************************)
(* Whatever the length of an array, the frame size and the size of an      *)
(* element: what the rig has is always a beginning of the array, in frames *)
(* that are not too long; and when the frames are filled with whole        *)
(* elements, the array arrives whole.                                      *)
(***************************************************************************)
EXTENDS ArrayFrames, FiniteSetTheorems, TLAPS

\* The frames have whole elements, and the number needs no more than one.
Whole == FrameLen = PerFrame * DataLenFloat /\ DataLenInt <= DataLenFloat

\* How many elements the frames before frame s have room for.
Room(s) == s * PerFrame - 1

\* The inductive invariant: the rig has what the frames written have room for.
ArrayInv ==
  /\ len \in Nat /\ sent \in Nat /\ sent <= Frames(len)
  /\ 0 < len => 0 < Frames(len)
  /\ sent = 0 \/ (want = len /\ got = {k \in 0..(len - 1) : k < Room(sent)})

\* The sizes are positive integers.
LEMMA Sizes == PerFrame \in Nat /\ 1 <= PerFrame /\ DataLenFloat \in Nat
<1>1. DataLenFloat \in {4, 8} /\ FrameLen \in Nat /\ DataLenFloat <= FrameLen
  BY ArrayAssumption
<1>2. CASE DataLenFloat = 4
  BY <1>1, <1>2 DEF PerFrame
<1>3. CASE DataLenFloat = 8
  BY <1>1, <1>3 DEF PerFrame
<1> QED
  BY <1>1, <1>2, <1>3

\* Rounding up: at least one frame, and no byte without one.
LEMMA Rounding ==
  ASSUME NEW n \in Nat
  PROVE  /\ Frames(n) \in Nat /\ 1 <= Frames(n)
         /\ n * DataLenFloat + DataLenInt <= Frames(n) * FrameLen
<1> DEFINE x == n * DataLenFloat + DataLenInt
<1>1. x \in Nat /\ 1 <= x
  <2>1. CASE DataLenFloat = 4
    BY <2>1, ArrayAssumption
  <2>2. CASE DataLenFloat = 8
    BY <2>2, ArrayAssumption
  <2> QED
    BY <2>1, <2>2, ArrayAssumption
<1>2. FrameLen \in Nat /\ 1 <= FrameLen
  BY ArrayAssumption
<1>3. Frames(n) = (x + FrameLen - 1) \div FrameLen
  BY DEF Frames
<1> HIDE DEF x
<1> DEFINE q == (x + FrameLen - 1) \div FrameLen
           r == (x + FrameLen - 1) % FrameLen
<1>4. /\ q \in Int /\ r \in 0..(FrameLen - 1)
      /\ x + FrameLen - 1 = FrameLen * q + r
  BY <1>1, <1>2
<1> HIDE DEF q, r
<1> DEFINE p == FrameLen * q
<1>5. p \in Int /\ x <= p
  BY <1>1, <1>2, <1>4
<1>6. 1 <= q
  <2>1. SUFFICES ASSUME q <= 0 PROVE FALSE
    BY <1>4
  <2>2. p <= 0
    BY <2>1, <1>2, <1>4
  <2> QED
    BY <2>2, <1>1, <1>5
<1>7. p = q * FrameLen
  BY <1>2, <1>4
<1> QED
  BY <1>3, <1>4, <1>5, <1>6, <1>7 DEF q, x

\* All frames together have room for the array.
LEMMA RoomForAll ==
  ASSUME Whole, NEW n \in Nat
  PROVE  n <= Room(Frames(n))
<1> DEFINE m == Frames(n) * PerFrame
<1>1. Frames(n) \in Nat /\ n * DataLenFloat + DataLenInt <= Frames(n) * FrameLen
  BY Rounding
<1>2. PerFrame \in Nat /\ DataLenFloat \in {4, 8} /\ 1 <= DataLenInt
  BY Sizes, ArrayAssumption
<1>3. m \in Nat
  BY <1>1, <1>2
<1>4. Frames(n) * FrameLen = m * DataLenFloat
  <2>1. CASE DataLenFloat = 4
    BY <2>1, <1>1, <1>2 DEF Whole
  <2>2. CASE DataLenFloat = 8
    BY <2>2, <1>1, <1>2 DEF Whole
  <2> QED
    BY <2>1, <2>2, <1>2
<1> HIDE DEF m
<1>5. n + 1 <= m
  <2>1. n * DataLenFloat + DataLenInt <= m * DataLenFloat
    BY <1>1, <1>4
  <2>2. CASE DataLenFloat = 4
    BY <2>1, <2>2, <1>2, <1>3, ArrayAssumption
  <2>3. CASE DataLenFloat = 8
    BY <2>1, <2>3, <1>2, <1>3, ArrayAssumption
  <2> QED
    BY <2>2, <2>3, <1>2
<1> QED
  BY <1>3, <1>5 DEF Room, m

\* What a frame has: the elements between the room before it and after it.
LEMMA FrameContents ==
  ASSUME NEW n \in Nat, NEW s \in Nat
  PROVE  InFrame(n, s) = {k \in 0..(n - 1) : (s = 0 \/ Room(s) <= k) /\ k < Room(s + 1)}
<1> DEFINE p == PerFrame
           b == s * p
           c == (s + 1) * p
<1>1. p \in Nat /\ 1 <= p /\ b \in Nat
  BY Sizes
<1>2. c = b + p /\ (s = 0 => b = 0) /\ (s # 0 => p <= b)
  BY <1>1
<1>3. Room(s) = b - 1 /\ Room(s + 1) = b + p - 1 /\ \A j : Elem(s, j) = b + j - 1
  <2>1. Room(s) = b - 1 /\ Room(s + 1) = c - 1
    BY DEF Room
  <2>2. \A j : Elem(s, j) = b + j - 1
    BY Zenon DEF Elem
  <2> HIDE DEF p, b, c
  <2>3. Room(s + 1) = b + p - 1
    BY <1>1, <1>2, <2>1
  <2> QED
    BY <2>1, <2>2, <2>3, Zenon
<1>4. Slots(s) = (IF s = 0 THEN 1 ELSE 0)..(p - 1)
  BY DEF Slots
<1> HIDE DEF p, b, c
<1>5. ASSUME NEW k \in InFrame(n, s)
      PROVE  k \in 0..(n - 1) /\ (s = 0 \/ Room(s) <= k) /\ k < Room(s + 1)
  <2>1. PICK j \in Slots(s) : Elem(s, j) < n /\ k = Elem(s, j)
    BY <1>5 DEF InFrame
  <2>2. k = b + j - 1 /\ k < n
    BY <2>1, <1>3
  <2>3. j \in 0..(p - 1) /\ (s = 0 => 1 <= j)
    BY <2>1, <1>1, <1>4
  <2> QED
    BY <2>2, <2>3, <1>1, <1>2, <1>3
<1>6. ASSUME NEW k \in 0..(n - 1), s = 0 \/ Room(s) <= k, k < Room(s + 1)
      PROVE  k \in InFrame(n, s)
  <2> DEFINE j == k - b + 1
  <2>1. j \in 0..(p - 1) /\ (s = 0 => 1 <= j)
    BY <1>6, <1>1, <1>2, <1>3
  <2>2. Elem(s, j) = k
    <3>1. Elem(s, j) = b + j - 1
      BY <1>3
    <3> QED
      BY <3>1, <1>1
  <2>4. j \in Slots(s)
    BY <2>1, <1>1, <1>4
  <2> HIDE DEF j
  <2>3. Elem(s, j) < n
    BY <2>2
  <2> QED
    BY <2>2, <2>3, <2>4 DEF InFrame
<1> QED
  BY <1>5, <1>6

LEMMA InitInv == Init => ArrayInv
<1>1. Frames(0) \in Nat /\ 1 <= Frames(0)
  BY Rounding
<1>2. SUFFICES ASSUME Init PROVE ArrayInv
  OBVIOUS
<1>3. {k \in 0..(0 - 1) : k < Room(sent)} = {}
  OBVIOUS
<1> QED
  BY <1>1, <1>2, <1>3 DEF Init, ArrayInv

LEMMA StepInv == ArrayInv /\ [Next]_vars => ArrayInv'
<1> SUFFICES ASSUME ArrayInv, [Next]_vars PROVE ArrayInv'
  OBVIOUS
<1>1. ASSUME NEW n \in 0..MaxLen, Pack(n) PROVE ArrayInv'
  <2>1. n \in Nat /\ Frames(n) \in Nat /\ 1 <= Frames(n)
    BY Rounding, ArrayAssumption
  <2> QED
    BY <1>1, <2>1 DEF Pack, ArrayInv
<1>2. CASE WriteFrame
  <2>1. /\ len \in Nat /\ sent \in Nat /\ sent < Frames(len) /\ Frames(len) \in Nat
        /\ sent' = sent + 1 /\ len' = len
    BY <1>2, Rounding DEF WriteFrame, ArrayInv
  <2>2. want' = len
    BY <1>2 DEF WriteFrame, ArrayInv
  <2>3. got' = InFrame(len, sent) \cup (IF sent = 0 THEN {} ELSE got)
    BY <1>2 DEF WriteFrame, Before
  <2>4. InFrame(len, sent) =
          {k \in 0..(len - 1) : (sent = 0 \/ Room(sent) <= k) /\ k < Room(sent + 1)}
    BY <2>1, FrameContents
  <2>5. Room(sent) \in Int /\ Room(sent + 1) \in Int /\ Room(sent) <= Room(sent + 1)
    <3>1. PerFrame \in Nat
      BY Sizes
    <3>2. sent * PerFrame \in Int /\ (sent + 1) * PerFrame = sent * PerFrame + PerFrame
      BY <3>1, <2>1
    <3> QED
      BY <3>1, <3>2 DEF Room
  <2>6. got' = {k \in 0..(len - 1) : k < Room(sent + 1)}
    <3>1. CASE sent = 0
      BY <3>1, <2>3, <2>4
    <3>2. CASE sent # 0
      <4>1. got = {k \in 0..(len - 1) : k < Room(sent)}
        BY <3>2 DEF ArrayInv
      <4> QED
        BY <4>1, <3>2, <2>1, <2>3, <2>4, <2>5
    <3> QED
      BY <3>1, <3>2
  <2> QED
    BY <2>1, <2>2, <2>6 DEF ArrayInv
<1>3. CASE UNCHANGED vars
  BY <1>3 DEF vars, ArrayInv
<1> QED
  BY <1>1, <1>2, <1>3 DEF Next

\* The elements that s frames have room for, s > 0: as many as there are, and not more.
LEMMA Beginning ==
  ASSUME NEW n \in Nat, NEW s \in Nat, 1 <= s,
         NEW g, g = {k \in 0..(n - 1) : k < Room(s)}
  PROVE  g = 0..(Cardinality(g) - 1)
<1>1. Room(s) \in Nat
  <2>1. PerFrame \in Nat /\ 1 <= PerFrame
    BY Sizes
  <2>2. s * PerFrame \in Nat /\ (s - 1) * PerFrame \in Nat
    BY <2>1
  <2>3. s * PerFrame = (s - 1) * PerFrame + PerFrame
    BY <2>1
  <2> QED
    BY <2>1, <2>2, <2>3 DEF Room
<1> DEFINE m == IF n <= Room(s) THEN n ELSE Room(s)
<1>2. m \in Nat /\ g = 0..(m - 1)
  BY <1>1
<1> HIDE DEF m
<1>3. Cardinality(0..(m - 1)) = m
  BY <1>2, FS_Interval
<1> QED
  BY <1>2, <1>3

\* A frame has room for PerFrame elements, the first for one less.
LEMMA FrameSize ==
  ASSUME NEW n \in Nat, NEW s \in Nat
  PROVE  Bytes(n, s) <= FrameLen
<1> DEFINE free == IF s = 0 THEN PerFrame - 1 ELSE PerFrame
           first == IF s = 0 THEN 0 ELSE Room(s)
<1>1. /\ PerFrame \in Nat /\ 1 <= PerFrame /\ DataLenFloat \in {4, 8}
      /\ DataLenInt \in {1, 2, 4} /\ FrameLen \in Nat
  BY Sizes, ArrayAssumption
<1>2. Room(s) \in Int /\ Room(s + 1) = Room(s) + PerFrame /\ (s = 0 => Room(s) = -1)
  <2>1. s * PerFrame \in Int /\ (s + 1) * PerFrame = s * PerFrame + PerFrame
    BY <1>1
  <2>2. s = 0 => s * PerFrame = 0
    BY <1>1
  <2> QED
    BY <2>1, <2>2, <1>1 DEF Room
<1>3. InFrame(n, s) \in SUBSET (first..(first + free - 1))
  BY <1>1, <1>2, FrameContents
<1>4. first \in Int /\ free \in Nat
  BY <1>1, <1>2
<1> HIDE DEF free, first
<1>5. /\ IsFiniteSet(first..(first + free - 1))
      /\ Cardinality(first..(first + free - 1)) = free
  BY <1>4, FS_Interval
<1>6. Cardinality(InFrame(n, s)) \in Nat /\ Cardinality(InFrame(n, s)) <= free
  BY <1>3, <1>5, FS_Subset, FS_CardinalityType
<1>7. PerFrame * DataLenFloat <= FrameLen
  <2>1. CASE DataLenFloat = 4
    BY <2>1, <1>1 DEF PerFrame
  <2>2. CASE DataLenFloat = 8
    BY <2>2, <1>1 DEF PerFrame
  <2> QED
    BY <2>1, <2>2, <1>1
<1> DEFINE c == Cardinality(InFrame(n, s))
<1>8. Bytes(n, s) = DataLenFloat * c + IF s = 0 THEN DataLenInt ELSE 0
  BY DEF Bytes
<1>9. c \in Nat /\ c <= IF s = 0 THEN PerFrame - 1 ELSE PerFrame
  BY <1>6 DEF free
<1> HIDE DEF c
<1>10. CASE DataLenFloat = 4
  BY <1>10, <1>1, <1>7, <1>8, <1>9
<1>11. CASE DataLenFloat = 8
  BY <1>11, <1>1, <1>7, <1>8, <1>9
<1> QED
  BY <1>1, <1>10, <1>11

\* Every state that has the inductive invariant has the properties.
LEMMA InvGivesFrames == ArrayInv /\ TypeOK => FramesInv
<1> SUFFICES ASSUME ArrayInv, TypeOK PROVE InOrder /\ FramesFit
  BY DEF FramesInv
<1>1. len \in Nat /\ sent \in Nat
  BY DEF ArrayInv
<1>2. FramesFit
  BY <1>1, FrameSize DEF FramesFit
<1>3. ASSUME 0 < sent
      PROVE  /\ got = 0..(Cardinality(got) - 1)
             /\ sent < Frames(len) => InFrame(len, sent) \cap got = {}
  <2>1. got = {k \in 0..(len - 1) : k < Room(sent)}
    BY <1>1, <1>3 DEF ArrayInv
  <2>2. got = 0..(Cardinality(got) - 1)
    <3>1. 1 <= sent
      BY <1>1, <1>3
    <3> QED
      BY <1>1, <2>1, <3>1, Beginning, Zenon
  <2>3. \A k \in InFrame(len, sent) : k \in Int /\ Room(sent) <= k
    BY <1>1, <1>3, FrameContents
  <2>4. Room(sent) \in Int
    BY <1>1, Sizes DEF Room
  <2>5. InFrame(len, sent) \cap got = {}
    BY <2>1, <2>3, <2>4
  <2> QED
    BY <2>2, <2>5
<1> QED
  BY <1>2, <1>3 DEF InOrder

LEMMA InitType == Init => TypeOK
<1>1. Frames(0) \in Nat
  BY Rounding
<1> QED
  BY <1>1, ArrayAssumption DEF Init, TypeOK

LEMMA StepType == ArrayInv /\ TypeOK /\ [Next]_vars => TypeOK'
<1> SUFFICES ASSUME ArrayInv, TypeOK, [Next]_vars PROVE TypeOK'
  OBVIOUS
<1>1. ASSUME NEW n \in 0..MaxLen, Pack(n) PROVE TypeOK'
  <2>1. Frames(n) \in Nat /\ 1 <= Frames(n)
    BY Rounding, ArrayAssumption
  <2> QED
    BY <1>1, <2>1, ArrayAssumption DEF Pack, TypeOK
<1>2. CASE WriteFrame
  <2>1. /\ len \in Nat /\ sent \in Nat /\ Frames(len) \in Nat /\ sent < Frames(len)
        /\ sent' = sent + 1 /\ len' = len /\ arrays' = arrays
    BY <1>2, Rounding DEF WriteFrame, ArrayInv
  <2>2. want' = len
    BY <1>2 DEF WriteFrame, ArrayInv
  <2>3. got' \subseteq 0..(len - 1)
    <3>1. InFrame(len, sent) \subseteq 0..(len - 1)
      BY <2>1, FrameContents
    <3>2. Before(sent) \subseteq 0..(len - 1)
      BY DEF Before, ArrayInv
    <3> QED
      BY <3>1, <3>2, <1>2 DEF WriteFrame
  <2> QED
    BY <2>1, <2>2, <2>3 DEF TypeOK
<1>3. CASE UNCHANGED vars
  BY <1>3 DEF vars, TypeOK
<1> QED
  BY <1>1, <1>2, <1>3 DEF Next

\* packArrayToFrame: for every length, frame size and size of an element the rig
\* has a beginning of the array and the next frame goes on there, no frame longer
\* than allowed; the elements need not fill the frames.
THEOREM FramesInOrder == Spec => []FramesInv
<1>1. Init => ArrayInv /\ TypeOK
  BY InitInv, InitType
<1>2. ArrayInv /\ TypeOK /\ [Next]_vars => ArrayInv' /\ TypeOK'
  BY StepInv, StepType
<1> QED
  BY <1>1, <1>2, InvGivesFrames, PTL DEF Spec

\* packArrayToFrame: with frames of whole elements, the rig has the whole array
\* when the last frame is written, whatever its length and the sizes are.
THEOREM ArrayArrives ==
  ASSUME Whole
  PROVE  Spec => []Complete
<1>1. ArrayInv => Complete
  <2> SUFFICES ASSUME ArrayInv, sent = Frames(len)
               PROVE  want = len /\ got = 0..(len - 1)
    BY DEF Complete
  <2>1. len \in Nat /\ 1 <= Frames(len) /\ sent \in Nat /\ len <= Room(sent)
    BY Rounding, RoomForAll DEF ArrayInv
  <2>2. Room(sent) \in Int
    BY <2>1, Sizes DEF Room
  <2>3. want = len /\ got = {k \in 0..(len - 1) : k < Room(sent)}
    BY <2>1 DEF ArrayInv
  <2> QED
    BY <2>1, <2>2, <2>3
<1> QED
  BY <1>1, InitInv, StepInv, PTL DEF Spec
=============================================================================

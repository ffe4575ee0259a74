-------------------------- MODULE PlcServerProofs --------------------------
(***************************************************************************)
(* For every frame size, buffer size, window and set of faults: the server *)
(* keeps to its buffers, the chunks of the client are whole frames, and    *)
(* the first connection gets the samples in order; when the rig reads      *)
(* whatever has arrived at once, it does what it was told last.            *)
(*                                                                         *)
(* The argument: what is on its way, in both directions, is a sequence of  *)
(* whole frames, of which the reader may have taken a part of the first.   *)
(***************************************************************************)
EXTENDS PlcServer, Integers, SequenceTheorems, TLAPS

-----------------------------------------------------------------------------
(* Arithmetic.                                                             *)

\* Quotient and remainder are unique.
LEMMA DivMod ==
  ASSUME NEW m \in Nat \ {0}, NEW q \in Int, NEW r \in 0..(m - 1)
  PROVE  (m * q + r) \div m = q /\ (m * q + r) % m = r
<1> DEFINE x == m * q + r
           a == x \div m
           b == x % m
<1>1. x \in Int
  OBVIOUS
<1> HIDE DEF x
<1>2. a \in Int /\ b \in 0..(m - 1) /\ x = m * a + b
  BY <1>1
<1> HIDE DEF a, b
<1>3. m * a + b = m * q + r /\ m * a \in Int /\ m * q \in Int
  BY <1>2 DEF x
<1>4. ~(a < q)
  <2> SUFFICES ASSUME a < q PROVE FALSE
    OBVIOUS
  <2>1. m * (a + 1) <= m * q /\ m * (a + 1) = m * a + m
    BY <1>2
  <2> QED
    BY <2>1, <1>2, <1>3
<1>5. ~(q < a)
  <2> SUFFICES ASSUME q < a PROVE FALSE
    OBVIOUS
  <2>1. m * (q + 1) <= m * a /\ m * (q + 1) = m * q + m
    BY <1>2
  <2> QED
    BY <2>1, <1>2, <1>3
<1>6. a = q
  BY <1>2, <1>4, <1>5
<1>7. b = r
  BY <1>2, <1>3, <1>6
<1> QED
  BY <1>6, <1>7 DEF a, b, x

\* A remainder can be taken before adding.
LEMMA ModAdd ==
  ASSUME NEW m \in Nat \ {0}, NEW a \in Nat, NEW b \in Nat
  PROVE  ((a % m) + b) % m = (a + b) % m
<1> DEFINE q == a \div m
           r == a % m
           p == (r + b) \div m
           s == (r + b) % m
<1>1. q \in Int /\ r \in 0..(m - 1) /\ a = m * q + r
  OBVIOUS
<1> HIDE DEF q, r
<1>2. p \in Int /\ s \in 0..(m - 1) /\ r + b = m * p + s
  BY <1>1
<1>3. (r + b) % m = s
  OBVIOUS
<1> HIDE DEF p, s
<1>4. m * (q + p) + s = a + b
  BY <1>1, <1>2
<1>5. q + p \in Int
  BY <1>1, <1>2
<1>6. (m * (q + p) + s) % m = s
  BY <1>2, <1>5, DivMod
<1> QED
  BY <1>3, <1>4, <1>6 DEF r

-----------------------------------------------------------------------------
(* The units of frames.                                                    *)

LEMMA Size == FrameLen \in Nat \ {0} /\ Serials \in Nat \ {0} /\ BufFrames \in Nat \ {0}
BY SizeAssumption

\* Each place belongs to one frame and one position in it.
LEMMA Place ==
  ASSUME NEW n \in Nat, NEW j \in 1..(FrameLen * n)
  PROVE  \E q \in 0..(n - 1), r \in Positions : j = FrameLen * q + r + 1
<1> DEFINE q == (j - 1) \div FrameLen
           r == (j - 1) % FrameLen
<1>1. FrameLen * n \in Nat /\ j \in Nat /\ 1 <= j /\ j <= FrameLen * n
  BY Size
<1>2. q \in Int /\ r \in 0..(FrameLen - 1) /\ j - 1 = FrameLen * q + r
  BY <1>1, Size
<1> HIDE DEF q, r
<1>3. FrameLen * q \in Int
  BY <1>2, Size
<1>4. ~(q < 0)
  <2> SUFFICES ASSUME q < 0 PROVE FALSE
    OBVIOUS
  <2>1. FrameLen * (q + 1) <= 0 /\ FrameLen * (q + 1) = FrameLen * q + FrameLen
    BY <1>2, Size
  <2> QED
    BY <2>1, <1>1, <1>2, <1>3, Size
<1>5. ~(n <= q)
  <2> SUFFICES ASSUME n <= q PROVE FALSE
    OBVIOUS
  <2>1. FrameLen * n <= FrameLen * q
    BY <1>2, Size
  <2> QED
    BY <2>1, <1>1, <1>2, <1>3
<1>6. q \in 0..(n - 1) /\ r \in Positions /\ j = FrameLen * q + r + 1
  BY <1>1, <1>2, <1>3, <1>4, <1>5 DEF Positions
<1> QED
  BY <1>6

LEMMA PlaceType ==
  ASSUME NEW n \in Nat, NEW q \in 0..(n - 1), NEW r \in Positions
  PROVE  FrameLen * q + r + 1 \in 1..(FrameLen * n)
<1>1. FrameLen * (q + 1) <= FrameLen * n /\ FrameLen * (q + 1) = FrameLen * q + FrameLen
  BY Size
<1>2. FrameLen * q \in Nat /\ FrameLen * n \in Nat
  BY Size
<1> QED
  BY <1>1, <1>2, Size DEF Positions

\* Units, place by place.
LEMMA UnitsShape ==
  ASSUME NEW X, NEW fs \in Seq(X)
  PROVE  /\ Units(fs) \in Seq(X \X Positions)
         /\ Len(Units(fs)) = FrameLen * Len(fs)
         /\ \A q \in 0..(Len(fs) - 1), r \in Positions :
              Units(fs)[FrameLen * q + r + 1] = <<fs[q + 1], r>>
<1> DEFINE n == Len(fs)
           e == FrameLen * n
           u == Units(fs)
<1>1. n \in Nat /\ e \in Nat /\ \A q \in 0..(n - 1) : fs[q + 1] \in X
  BY Size
<1>2. /\ u = [j \in 1..e |-> <<fs[((j - 1) \div FrameLen) + 1], (j - 1) % FrameLen>>]
      /\ \A j \in 1..e : u[j] = <<fs[((j - 1) \div FrameLen) + 1], (j - 1) % FrameLen>>
  BY DEF Units
<1>3. \A q \in 0..(n - 1), r \in Positions :
        FrameLen * q + r + 1 \in 1..e /\ u[FrameLen * q + r + 1] = <<fs[q + 1], r>>
  <2> SUFFICES ASSUME NEW q \in 0..(n - 1), NEW r \in Positions
               PROVE  /\ FrameLen * q + r + 1 \in 1..e
                      /\ u[FrameLen * q + r + 1] = <<fs[q + 1], r>>
    OBVIOUS
  <2> DEFINE x == FrameLen * q + r
  <2>1. x + 1 \in 1..e
    BY <1>1, PlaceType
  <2>2. r \in 0..(FrameLen - 1) /\ q \in Int
    BY <1>1 DEF Positions
  <2>3. x \div FrameLen = q /\ x % FrameLen = r
    <3> HIDE DEF n
    <3> QED
      BY <2>2, DivMod, Size
  <2>4. x \in Int
    BY <2>2, <1>1, Size
  <2> HIDE DEF x, e, n, u
  <2>5. (x + 1) - 1 = x
    BY <2>4
  <2>6. \A j \in 1..e : j - 1 = x => u[j] = <<fs[(x \div FrameLen) + 1], x % FrameLen>>
    BY <1>2, Zenon
  <2>7. u[x + 1] = <<fs[q + 1], r>>
    BY <2>1, <2>3, <2>5, <2>6
  <2> QED
    BY <2>1, <2>7 DEF x, e, n
<1> HIDE DEF u
<1>4. \A j \in 1..e : u[j] \in X \X Positions
  <2> SUFFICES ASSUME NEW j \in 1..e PROVE u[j] \in X \X Positions
    OBVIOUS
  <2>1. PICK q \in 0..(n - 1), r \in Positions : j = FrameLen * q + r + 1
    BY <1>1, Place
  <2>2. u[j] = <<fs[q + 1], r>> /\ fs[q + 1] \in X
    BY <2>1, <1>1, <1>3
  <2> HIDE DEF e
  <2> QED
    BY <2>2
<1> HIDE DEF e
<1>5. u \in [1..e -> X \X Positions]
  BY <1>2, <1>4
<1>6. u \in Seq(X \X Positions) /\ Len(u) = e
  BY <1>1, <1>5
<1> QED
  BY <1>3, <1>6 DEF u, e

LEMMA UnitsEmpty == Units(<<>>) = <<>>
<1> DEFINE fs == <<>>
<1>1. fs \in Seq({}) /\ Len(fs) = 0 /\ FrameLen * 0 = 0
  BY Size
<1> HIDE DEF fs
<1>2. Units(fs) \in Seq({} \X Positions) /\ Len(Units(fs)) = FrameLen * Len(fs)
  BY <1>1, UnitsShape
<1>3. Len(Units(fs)) = 0
  BY <1>1, <1>2, Zenon
<1>4. Units(fs) = <<>>
  BY <1>2, <1>3, EmptySeq
<1> QED
  BY <1>4 DEF fs

\* The units of two sequences of frames, one after the other.
LEMMA UnitsConcat ==
  \A X : \A s, t \in Seq(X) : s \o t \in Seq(X) /\ Units(s \o t) = Units(s) \o Units(t)
<1> SUFFICES ASSUME NEW X, NEW s \in Seq(X), NEW t \in Seq(X)
             PROVE  s \o t \in Seq(X) /\ Units(s \o t) = Units(s) \o Units(t)
  OBVIOUS
<1> DEFINE st == s \o t
<1>0. st = s \o t
  OBVIOUS
<1> HIDE DEF st
<1> DEFINE Y == X \X Positions
           a == Units(s)
           b == Units(t)
           c == Units(st)
           ls == Len(s)
           lt == Len(t)
<1>1. /\ st \in Seq(X) /\ Len(st) = ls + lt /\ ls \in Nat /\ lt \in Nat
      /\ \A i \in 1..(ls + lt) : st[i] = IF i <= ls THEN s[i] ELSE t[i - ls]
  BY <1>0, ConcatProperties, LenProperties
<1>2. /\ a \in Seq(Y) /\ Len(a) = FrameLen * ls
      /\ \A q \in 0..(ls - 1), r \in Positions : a[FrameLen * q + r + 1] = <<s[q + 1], r>>
  BY UnitsShape
<1>3. /\ b \in Seq(Y) /\ Len(b) = FrameLen * lt
      /\ \A q \in 0..(lt - 1), r \in Positions : b[FrameLen * q + r + 1] = <<t[q + 1], r>>
  BY UnitsShape
<1>4. /\ c \in Seq(Y) /\ Len(c) = FrameLen * (ls + lt)
      /\ \A q \in 0..(ls + lt - 1), r \in Positions :
           c[FrameLen * q + r + 1] = <<st[q + 1], r>>
  <2>1. /\ c \in Seq(Y) /\ Len(c) = FrameLen * Len(st)
        /\ \A q \in 0..(Len(st) - 1), r \in Positions :
             c[FrameLen * q + r + 1] = <<st[q + 1], r>>
    BY <1>1, UnitsShape
  <2> HIDE DEF a, b, c, Y, ls, lt
  <2> QED
    BY <1>1, <2>1
<1>5. FrameLen * (ls + lt) = FrameLen * ls + FrameLen * lt
      /\ FrameLen * ls \in Nat /\ FrameLen * lt \in Nat
  BY <1>1, Size
<1> HIDE DEF a, b, c, Y, ls, lt
<1>6. /\ a \o b \in Seq(Y) /\ Len(a \o b) = Len(c)
      /\ \A j \in 1..Len(c) : (a \o b)[j] = IF j <= FrameLen * ls THEN a[j] ELSE b[j - FrameLen * ls]
  <2>1. /\ a \o b \in Seq(Y) /\ Len(a \o b) = Len(a) + Len(b)
        /\ \A j \in 1..(Len(a) + Len(b)) : (a \o b)[j] = IF j <= Len(a) THEN a[j] ELSE b[j - Len(a)]
    BY <1>2, <1>3, ConcatProperties
  <2>2. Len(a) + Len(b) = Len(c)
    BY <1>2, <1>3, <1>4, <1>5
  <2> QED
    BY <2>1, <2>2, <1>2, Zenon
<1>7. ASSUME NEW j \in 1..Len(c) PROVE c[j] = (a \o b)[j]
  <2>1. PICK q \in 0..(ls + lt - 1), r \in Positions : j = FrameLen * q + r + 1
    BY <1>1, <1>4, Place
  <2>2. c[j] = <<st[q + 1], r>> /\ r \in 0..(FrameLen - 1) /\ q \in Nat
    BY <2>1, <1>1, <1>4 DEF Positions
  <2>3. CASE q < ls
    <3>1. q \in 0..(ls - 1)
      BY <2>2, <2>3, <1>1
    <3>2. j <= FrameLen * ls
      <4>1. j \in 1..(FrameLen * ls)
        BY <3>1, <2>1, <1>1, PlaceType
      <4> QED
        BY <4>1, <1>5
    <3>3. (a \o b)[j] = <<s[q + 1], r>>
      BY <3>1, <3>2, <2>1, <1>2, <1>6
    <3>4. st[q + 1] = s[q + 1]
      BY <3>1, <1>1
    <3> QED
      BY <3>3, <3>4, <2>2
  <2>4. CASE ~(q < ls)
    <3> DEFINE p == q - ls
    <3>1. p \in 0..(lt - 1) /\ q = ls + p
      BY <2>1, <2>2, <2>4, <1>1
    <3> HIDE DEF p
    <3>2. FrameLen * q = FrameLen * ls + FrameLen * p /\ FrameLen * p \in Nat
      BY <3>1, <1>1, Size
    <3>3. j - FrameLen * ls = FrameLen * p + r + 1 /\ ~(j <= FrameLen * ls)
      <4>1. j = FrameLen * ls + FrameLen * p + r + 1 /\ r \in Nat
        BY <3>2, <2>1, <2>2, Size
      <4> QED
        BY <4>1, <3>2, <1>5
    <3>4. (a \o b)[j] = b[FrameLen * p + r + 1]
      BY <3>3, <1>6
    <3>5. b[FrameLen * p + r + 1] = <<t[p + 1], r>>
      BY <3>1, <1>3
    <3>6. st[q + 1] = t[p + 1]
      <4>1. q + 1 \in 1..(ls + lt) /\ ~(q + 1 <= ls) /\ q + 1 - ls = p + 1
        BY <3>1, <1>1
      <4> QED
        BY <4>1, <1>1
    <3> QED
      BY <3>4, <3>5, <3>6, <2>2
  <2> QED
    BY <2>3, <2>4
<1>8. c = a \o b
  BY <1>4, <1>6, <1>7, SeqEqual
<1> QED
  BY <1>1, <1>8 DEF a, b, c, st

-----------------------------------------------------------------------------
(* Cutting a sequence in two.                                              *)

LEMMA Parts ==
  ASSUME NEW X, NEW s \in Seq(X), NEW k \in 0..Len(s)
  PROVE  /\ Upto(s, k) \in Seq(X) /\ Len(Upto(s, k)) = k
         /\ \A i \in 1..k : Upto(s, k)[i] = s[i]
         /\ From(s, k) \in Seq(X) /\ Len(From(s, k)) = Len(s) - k
         /\ \A i \in 1..(Len(s) - k) : From(s, k)[i] = s[k + i]
<1>1. Len(s) \in Nat /\ k \in Nat /\ k <= Len(s)
  BY LenProperties
<1>2. \A i \in 1..Len(s) : s[i] \in X
  BY ElementOfSeq
<1>3. /\ SubSeq(s, 1, k) \in Seq(X) /\ Len(SubSeq(s, 1, k)) = k
      /\ \A i \in 1..k : SubSeq(s, 1, k)[i] = s[i]
  <2>1. \A i \in 1..k : s[i] \in X
    BY <1>1, <1>2
  <2>2. /\ SubSeq(s, 1, k) \in Seq(X)
        /\ Len(SubSeq(s, 1, k)) = IF 1 <= k THEN k - 1 + 1 ELSE 0
        /\ \A i \in 1..(k - 1 + 1) : SubSeq(s, 1, k)[i] = s[1 + i - 1]
    BY <1>1, <2>1, SubSeqProperties
  <2> QED
    BY <1>1, <2>2
<1>4. /\ SubSeq(s, k + 1, Len(s)) \in Seq(X) /\ Len(SubSeq(s, k + 1, Len(s))) = Len(s) - k
      /\ \A i \in 1..(Len(s) - k) : SubSeq(s, k + 1, Len(s))[i] = s[k + i]
  <2> DEFINE n == Len(s)
  <2>1. \A i \in (k + 1)..n : s[i] \in X
    BY <1>1, <1>2
  <2>2. n \in Nat /\ k + 1 \in Int /\ k <= n
    BY <1>1
  <2> HIDE DEF n
  <2>3. /\ SubSeq(s, k + 1, n) \in Seq(X)
        /\ Len(SubSeq(s, k + 1, n)) = IF k + 1 <= n THEN n - (k + 1) + 1 ELSE 0
        /\ \A i \in 1..(n - (k + 1) + 1) : SubSeq(s, k + 1, n)[i] = s[(k + 1) + i - 1]
    BY <2>1, <2>2, SubSeqProperties
  <2> DEFINE t == SubSeq(s, k + 1, n)
  <2> HIDE DEF t
  <2>4. Len(t) = n - k /\ t \in Seq(X)
    BY <1>1, <2>2, <2>3 DEF t
  <2>5. ASSUME NEW i \in 1..(n - k) PROVE t[i] = s[k + i]
    <3>1. i \in 1..(n - (k + 1) + 1) /\ (k + 1) + i - 1 = k + i
      BY <1>1, <2>2
    <3> QED
      BY <3>1, <2>3 DEF t
  <2> QED
    BY <2>4, <2>5 DEF n, t
<1> QED
  BY <1>3, <1>4 DEF Upto, From

LEMMA Rejoin ==
  ASSUME NEW X, NEW s \in Seq(X), NEW k \in 0..Len(s)
  PROVE  Upto(s, k) \o From(s, k) = s
<1> DEFINE a == Upto(s, k)
           b == From(s, k)
<1>1. /\ a \in Seq(X) /\ Len(a) = k /\ \A i \in 1..k : a[i] = s[i]
      /\ b \in Seq(X) /\ Len(b) = Len(s) - k /\ \A i \in 1..(Len(s) - k) : b[i] = s[k + i]
  BY Parts
<1>2. Len(s) \in Nat /\ k \in Nat /\ k <= Len(s)
  BY LenProperties
<1> HIDE DEF a, b
<1>3. /\ a \o b \in Seq(X) /\ Len(a \o b) = Len(s)
      /\ \A i \in 1..Len(s) : (a \o b)[i] = IF i <= k THEN a[i] ELSE b[i - k]
  <2>1. /\ a \o b \in Seq(X) /\ Len(a \o b) = Len(a) + Len(b)
        /\ \A i \in 1..(Len(a) + Len(b)) : (a \o b)[i] = IF i <= Len(a) THEN a[i] ELSE b[i - Len(a)]
    BY <1>1, ConcatProperties
  <2>2. Len(a) + Len(b) = Len(s)
    BY <1>1, <1>2
  <2> QED
    BY <2>1, <2>2, <1>1, Zenon
<1>4. ASSUME NEW i \in 1..Len(s) PROVE (a \o b)[i] = s[i]
  <2>1. CASE i <= k
    BY <2>1, <1>1, <1>2, <1>3
  <2>2. CASE ~(i <= k)
    <3>1. i - k \in 1..(Len(s) - k) /\ k + (i - k) = i
      BY <2>2, <1>2
    <3> QED
      BY <3>1, <2>2, <1>1, <1>3
  <2> QED
    BY <2>1, <2>2
<1>5. a \o b = s
  BY <1>3, <1>4, SeqEqual
<1> QED
  BY <1>5 DEF a, b

\* Two ways to cut the same sequence at the same place are the same.
LEMMA SameCut ==
  ASSUME NEW X, NEW a \in Seq(X), NEW b \in Seq(X), NEW c \in Seq(X), NEW d \in Seq(X),
         Len(a) = Len(c), a \o b = c \o d
  PROVE  a = c /\ b = d
<1>1. Len(a) \in Nat /\ Len(b) \in Nat /\ Len(d) \in Nat
  BY LenProperties
<1>2. /\ Len(a \o b) = Len(a) + Len(b)
      /\ \A i \in 1..(Len(a) + Len(b)) : (a \o b)[i] = IF i <= Len(a) THEN a[i] ELSE b[i - Len(a)]
  BY ConcatProperties
<1>3. /\ Len(c \o d) = Len(a) + Len(d)
      /\ \A i \in 1..(Len(a) + Len(d)) : (c \o d)[i] = IF i <= Len(a) THEN c[i] ELSE d[i - Len(a)]
  BY ConcatProperties
<1> DEFINE u == a \o b
<1>4. u = c \o d
  OBVIOUS
<1> DEFINE n == Len(a)
           m == Len(b)
<1>5. /\ n \in Nat /\ m \in Nat /\ Len(d) = m
      /\ \A i \in 1..(n + m) : u[i] = IF i <= n THEN a[i] ELSE b[i - n]
      /\ \A i \in 1..(n + m) : u[i] = IF i <= n THEN c[i] ELSE d[i - n]
  <2>1. Len(d) = m
    BY <1>1, <1>2, <1>3, <1>4
  <2> QED
    BY <2>1, <1>1, <1>2, <1>3, <1>4, Zenon
<1> HIDE DEF u, n, m
<1>6. \A i \in 1..n : a[i] = c[i]
  <2> TAKE i \in 1..n
  <2>1. i \in 1..(n + m) /\ i <= n
    BY <1>5
  <2> QED
    BY <2>1, <1>5
<1>7. \A i \in 1..m : b[i] = d[i]
  <2> TAKE i \in 1..m
  <2>1. n + i \in 1..(n + m) /\ ~(n + i <= n) /\ (n + i) - n = i
    BY <1>5
  <2> QED
    BY <2>1, <1>5
<1>8. a = c
  BY <1>6, SeqEqual DEF n
<1>9. b = d
  BY <1>5, <1>7, SeqEqual DEF m
<1> QED
  BY <1>8, <1>9

-----------------------------------------------------------------------------
(* Joining sequences.  Cat is \o under a name of its own: a proof that does *)
(* not expand it uses the laws below and no others.                        *)

Cat(s, t) == s \o t

LEMMA CatType ==
  \A X : \A a, b \in Seq(X) :
    /\ Cat(a, b) \in Seq(X) /\ Len(Cat(a, b)) = Len(a) + Len(b)
    /\ Cat(a, <<>>) = a /\ Cat(<<>>, a) = a
BY ConcatProperties, ConcatEmptySeq DEF Cat

LEMMA CatAssociative ==
  \A X : \A a, b, c \in Seq(X) : Cat(Cat(a, b), c) = Cat(a, Cat(b, c))
BY ConcatAssociative DEF Cat

LEMMA CatParts ==
  ASSUME NEW X, NEW s \in Seq(X), NEW k \in 0..Len(s)
  PROVE  Cat(Upto(s, k), From(s, k)) = s
BY Rejoin DEF Cat

LEMMA CatUnits ==
  \A X : \A s, t \in Seq(X) : Cat(s, t) \in Seq(X) /\ Units(Cat(s, t)) = Cat(Units(s), Units(t))
BY UnitsConcat DEF Cat

-----------------------------------------------------------------------------
(* A reader takes the first frame.                                         *)

LEMMA UnitsOne ==
  ASSUME NEW X, NEW x \in X
  PROVE  /\ Units(<<x>>) \in Seq(X \X Positions) /\ Len(Units(<<x>>)) = FrameLen
         /\ Units(<<x>>)[1] = <<x, 0>>
<1> DEFINE fs == <<x>>
<1>1. fs \in Seq(X) /\ Len(fs) = 1 /\ fs[1] = x
  OBVIOUS
<1> HIDE DEF fs
<1>2. /\ Units(fs) \in Seq(X \X Positions) /\ Len(Units(fs)) = FrameLen * Len(fs)
      /\ \A q \in 0..(Len(fs) - 1), r \in Positions :
           Units(fs)[FrameLen * q + r + 1] = <<fs[q + 1], r>>
  BY <1>1, UnitsShape
<1>3. 0 \in 0..(Len(fs) - 1) /\ 0 \in Positions
  BY <1>1, Size DEF Positions
<1>4. Units(fs)[FrameLen * 0 + 0 + 1] = <<fs[0 + 1], 0>>
  BY <1>2, <1>3
<1>5. FrameLen * 0 + 0 + 1 = 1 /\ FrameLen * 1 = FrameLen
  BY Size
<1> QED
  BY <1>1, <1>2, <1>4, <1>5 DEF fs

\* The first frame and the others.
LEMMA UnitsCons ==
  ASSUME NEW X, NEW fs \in Seq(X), fs # <<>>
  PROVE  /\ fs[1] \in X /\ Tail(fs) \in Seq(X) /\ Len(Tail(fs)) = Len(fs) - 1
         /\ \A i \in 1..(Len(fs) - 1) : Tail(fs)[i] = fs[i + 1]
         /\ Units(fs) = Units(<<fs[1]>>) \o Units(Tail(fs))
<1> DEFINE h == fs[1]
           t == Tail(fs)
<1>1. /\ h \in X /\ t \in Seq(X) /\ Len(t) = Len(fs) - 1 /\ Len(fs) \in Nat \ {0}
      /\ \A i \in 1..(Len(fs) - 1) : t[i] = fs[i + 1]
  BY HeadTailProperties, EmptySeq
<1>2. fs = <<h>> \o t
  <2> HIDE DEF t
  <2>1. <<h>> \o t \in Seq(X) /\ Len(<<h>> \o t) = Len(fs)
    BY <1>1
  <2>2. \A i \in 1..Len(fs) : (<<h>> \o t)[i] = fs[i]
    BY <1>1
  <2> QED
    BY <2>1, <2>2, SeqEqual
<1> HIDE DEF h, t
<1>3. <<h>> \in Seq(X)
  BY <1>1
<1> DEFINE k == <<h>>
<1> HIDE DEF k
<1>4. k \in Seq(X) /\ t \in Seq(X)
  BY <1>1, <1>3 DEF k
<1>5. fs = k \o t
  BY <1>2 DEF k
<1>6. Units(k \o t) = Units(k) \o Units(t)
  BY <1>4, UnitsConcat, Zenon
<1> QED
  BY <1>1, <1>5, <1>6 DEF h, t, k

\* What has been read and not handed on, s, is a beginning of whole frames, u \o v =
\* Units(fs); when it has the units of a frame, the first FrameLen of them are one,
\* and the rest is again a beginning of whole frames.
LEMMA FirstFrame ==
  ASSUME NEW X, NEW s \in Seq(X \X Positions), NEW w \in Seq(X \X Positions),
         NEW fs \in Seq(X), Cat(s, w) = Units(fs), FrameLen <= Len(s)
  PROVE  /\ fs # <<>> /\ Upto(s, FrameLen) = Units(<<fs[1]>>)
         /\ From(s, FrameLen) \in Seq(X \X Positions) /\ Len(From(s, FrameLen)) = Len(s) - FrameLen
         /\ Cat(From(s, FrameLen), w) = Units(Tail(fs))
<1> DEFINE Y == X \X Positions
           a == Upto(s, FrameLen)
           b == From(s, FrameLen)
<1>1. Len(s) \in Nat /\ Len(w) \in Nat /\ FrameLen \in 0..Len(s) /\ FrameLen \in Nat \ {0}
  BY LenProperties, Size
<1>2. a \in Seq(Y) /\ Len(a) = FrameLen /\ b \in Seq(Y) /\ Len(b) = Len(s) - FrameLen
  BY <1>1, Parts
<1>3. Cat(a, b) = s
  BY <1>1, CatParts
<1> HIDE DEF a, b
<1>4. Cat(a, Cat(b, w)) = Units(fs) /\ Cat(b, w) \in Seq(Y)
  <2>1. a \in Seq(Y) /\ b \in Seq(Y) /\ w \in Seq(Y)
    BY <1>2
  <2> HIDE DEF Y
  <2>2. Cat(b, w) \in Seq(Y) /\ Cat(Cat(a, b), w) = Cat(a, Cat(b, w))
    BY <2>1, CatType, CatAssociative
  <2> QED
    BY <2>2, <1>3, Zenon
<1>5. fs # <<>>
  <2> SUFFICES ASSUME fs = <<>> PROVE FALSE
    OBVIOUS
  <2>1. Cat(s, w) = <<>>
    BY UnitsEmpty
  <2>2. Len(Cat(s, w)) = Len(s) + Len(w)
    BY CatType
  <2>3. Len(Cat(s, w)) = 0
    BY <2>1, EmptySeq
  <2> QED
    BY <2>2, <2>3, <1>1
<1>6. /\ fs[1] \in X /\ Tail(fs) \in Seq(X)
      /\ Units(fs) = Units(<<fs[1]>>) \o Units(Tail(fs))
  BY <1>5, UnitsCons
<1> DEFINE c == Units(<<fs[1]>>)
           d == Units(Tail(fs))
<1>7. c \in Seq(Y) /\ Len(c) = FrameLen
  BY <1>6, UnitsOne
<1>8. d \in Seq(Y)
  BY <1>6, UnitsShape
<1>9. Cat(a, Cat(b, w)) = Cat(c, d)
  BY <1>4, <1>6 DEF Cat
<1> DEFINE bw == Cat(b, w)
<1> HIDE DEF c, d, Y, bw
<1>10. a = c /\ bw = d
  BY <1>2, <1>4, <1>7, <1>8, <1>9, SameCut DEF bw, Cat
<1> QED
  BY <1>2, <1>5, <1>10 DEF a, b, c, d, bw, Y

-----------------------------------------------------------------------------
(* The types.                                                              *)

Buffers(out) == out \in [{0, 1} -> Seq(Frames)] /\ \A b \in {0, 1} : Len(out[b]) <= BufFrames

\* What a cycle queues: as many of the next samples as find room.
LEMMA Queued ==
  ASSUME NEW out, Buffers(out), NEW c \in {0, 1}, 1 - cur' = c, serial \in Frames,
         SendData(out)
  PROVE  \E new \in Seq(Frames) :
           /\ \A i \in 1..Len(new) : new[i] = (serial + i) % Serials
           /\ Len(new) <= 2
           /\ Len(out[c]) + Len(new) <= BufFrames
           /\ outBuf' = [out EXCEPT ![c] = out[c] \o new]
           /\ serial' = (serial + Len(new)) % Serials
<1> DEFINE n == IF active' THEN RoomFor(out) ELSE 0
           new == [k \in 1..n |-> (serial + k) % Serials]
<1>2. Len(out[c]) \in Nat /\ Len(out[c]) <= BufFrames
  BY DEF Buffers
<1>1. RoomFor(out) = IF BufFrames - Len(out[c]) < 2 THEN BufFrames - Len(out[c]) ELSE 2
  BY Zenon DEF RoomFor
<1>3. n \in Nat /\ n <= 2 /\ Len(out[c]) + n <= BufFrames
  <2> DEFINE r == RoomFor(out)
             l == Len(out[c])
  <2>1. l \in Nat /\ l <= BufFrames /\ r = IF BufFrames - l < 2 THEN BufFrames - l ELSE 2
    BY <1>1, <1>2, Zenon
  <2> HIDE DEF r, l
  <2>2. r \in Nat /\ r <= 2 /\ l + r <= BufFrames
    BY <2>1, Size
  <2>3. n = r \/ n = 0
    BY DEF r
  <2> HIDE DEF n
  <2> QED
    BY <2>1, <2>2, <2>3 DEF l
<1>4. outBuf' = [out EXCEPT ![c] = out[c] \o new] /\ serial' = (serial + n) % Serials
  BY DEF SendData, Queue
<1>5. \A k \in 1..n : (serial + k) % Serials \in Frames
  <2> TAKE k \in 1..n
  <2>1. serial + k \in Nat
    BY <1>3 DEF Frames
  <2> QED
    BY <2>1, Size DEF Frames
<1> HIDE DEF n
<1>6. new \in Seq(Frames) /\ Len(new) = n /\ \A i \in 1..n : new[i] = (serial + i) % Serials
  BY <1>3, <1>5
<1> HIDE DEF new
<1>7. /\ \A i \in 1..Len(new) : new[i] = (serial + i) % Serials
      /\ Len(new) <= 2
      /\ Len(out[c]) + Len(new) <= BufFrames
      /\ outBuf' = [out EXCEPT ![c] = out[c] \o new]
      /\ serial' = (serial + Len(new)) % Serials
  BY <1>3, <1>4, <1>6
<1> QED
  BY <1>6, <1>7

LEMMA QueuedTypes ==
  ASSUME NEW out, Buffers(out), NEW c \in {0, 1}, 1 - cur' = c, serial \in Frames,
         SendData(out)
  PROVE  Buffers(outBuf') /\ serial' \in Frames
<1>1. PICK new \in Seq(Frames) :
        /\ Len(out[c]) + Len(new) <= BufFrames
        /\ outBuf' = [out EXCEPT ![c] = out[c] \o new]
        /\ serial' = (serial + Len(new)) % Serials
  BY Queued
<1>2. serial' \in Frames
  <2>1. serial + Len(new) \in Nat
    BY DEF Frames
  <2> QED
    BY <1>1, <2>1, Size DEF Frames
<1> DEFINE long == out[c] \o new
<1>3. out[c] \in Seq(Frames)
  BY DEF Buffers
<1>4. long \in Seq(Frames) /\ Len(long) <= BufFrames
  BY <1>1, <1>3, ConcatProperties
<1>5. outBuf' = [out EXCEPT ![c] = long]
  BY <1>1
<1> HIDE DEF long
<1>6. Buffers(outBuf')
  BY <1>3, <1>4, <1>5 DEF Buffers
<1> QED
  BY <1>2, <1>6

LEMMA HandledType ==
  ASSUME active \in BOOLEAN, NEW u, NEW a \in Handled(u)
  PROVE  a \in BOOLEAN
<1>1. \A c : Obey(c) \in BOOLEAN
  BY DEF Obey
<1> QED
  BY <1>1, Zenon DEF Handled

LEMMA UnitsType ==
  /\ \A fs \in Seq(Frames) : Units(fs) \in Seq(UnitsOf(Frames))
  /\ \A c \in Commands : Units(<<c>>) \in Seq(UnitsOf(Commands))
BY UnitsShape, UnitsOne DEF UnitsOf

LEMMA PendingType == TypeOK => Pending \in Seq(UnitsOf(Frames))
BY UnitsType DEF TypeOK, Pending

LEMMA InitType == Init => TypeOK
<1> SUFFICES ASSUME Init PROVE TypeOK
  OBVIOUS
<1>1. /\ outBuf \in [{0, 1} -> Seq(Frames)] /\ \A b \in {0, 1} : Len(outBuf[b]) <= BufFrames
      /\ rest \in Seq(UnitsOf(Frames)) /\ toRig \in Seq(UnitsOf(Commands))
      /\ toGui \in Seq(UnitsOf(Frames)) /\ data \in Seq(UnitsOf(Frames))
  BY Size DEF Init
<1>2. /\ serial \in Frames /\ got \in Frames \cup {Garbage, Nothing} /\ asked \in Commands
      /\ counterClose \in 0..(CloseWait + 1)
  BY Size, SizeAssumption DEF Init, Frames, Commands
<1> QED
  BY <1>1, <1>2 DEF Init, TypeOK

LEMMA StepType == TypeOK /\ [Next]_vars => TypeOK'
<1> SUFFICES ASSUME TypeOK, [Next]_vars PROVE TypeOK'
  OBVIOUS
<1> DEFINE Wires == /\ toRig \in Seq(UnitsOf(Commands)) /\ toGui \in Seq(UnitsOf(Frames))
                    /\ data \in Seq(UnitsOf(Frames)) /\ got \in Frames \cup {Garbage, Nothing}
                    /\ asked \in Commands /\ carried \in BOOLEAN /\ first \in BOOLEAN
                    /\ link \in {"none", "up", "half", "lost"}
           Server == /\ mainState \in {0, 1, 10, 11, 255} /\ tcpStep \in (0..4) \cup {255}
                     /\ counterClose \in 0..(CloseWait + 1)
                     /\ rest \in Seq(UnitsOf(Frames))
           Plant == cur \in {0, 1} /\ Buffers(outBuf) /\ active \in BOOLEAN /\ serial \in Frames
<1>1. Wires /\ Server /\ Plant
  BY DEF TypeOK, Buffers
<1>2. ASSUME Wires', Server', Plant' PROVE TypeOK'
  BY <1>2 DEF TypeOK, Buffers
\* a cycle that leaves the halves as they are
<1>3. ASSUME cur' = cur, SendData(outBuf) PROVE cur' \in {0, 1} /\ Buffers(outBuf') /\ serial' \in Frames
  <2>1. 1 - cur \in {0, 1} /\ 1 - cur' = 1 - cur /\ cur' \in {0, 1}
    BY <1>1, <1>3
  <2> QED
    BY <2>1, <1>1, <1>3, QueuedTypes
<1>4. CASE Deinit \/ InitStep \/ InitError \/ SyncEnds \/ CloseError \/ CycleOnly
  <2>1. /\ UNCHANGED <<counterClose, rest, active, link, wire, client, ghost>>
        /\ (cur' = 0 \/ cur' = cur) /\ SendData(outBuf)
    BY <1>4 DEF Deinit, InitStep, InitError, SyncEnds, CloseError, CycleOnly, server
  <2>2. mainState' \in {0, 1, 10, 11, 255} /\ tcpStep' \in (0..4) \cup {255}
    BY <1>4, <1>1 DEF Deinit, InitStep, InitError, SyncEnds, CloseError, CycleOnly, server, Goto
  <2>3. Plant'
    <3>1. CASE cur' = cur
      BY <3>1, <2>1, <1>1, <1>3
    <3>2. CASE cur' = 0
      <4>1. 1 - cur' = 1 - 0
        BY <3>2, Zenon
      <4>2. 1 - 0 = 1 /\ 1 \in {0, 1}
        OBVIOUS
      <4>3. 1 - cur' = 1
        BY <4>1, <4>2, Zenon
      <4> QED
        BY <4>2, <4>3, <3>2, <2>1, <1>1, QueuedTypes
    <3> QED
      BY <2>1, <3>1, <3>2
  <2> QED
    BY <2>1, <2>2, <2>3, <1>1, <1>2 DEF wire, client, ghost
<1>5. CASE Receive
  <2>1. PICK k \in 0..Len(toRig) : active' \in Handled(Upto(toRig, k)) /\ toRig' = From(toRig, k)
    BY <1>5 DEF Receive
  <2>2. active' \in BOOLEAN
    BY <2>1, <1>1, HandledType
  <2>3. toRig' \in Seq(UnitsOf(Commands))
    BY <2>1, <1>1, Parts
  <2>4. /\ UNCHANGED <<mainState, counterClose, cur, rest, link, toGui, client, ghost>>
        /\ SendData(outBuf) /\ tcpStep' \in {0, 1}
    BY <1>5 DEF Receive
  <2>5. Plant'
    BY <2>2, <2>4, <1>3
  <2> QED
    BY <2>3, <2>4, <2>5, <1>1, <1>2 DEF client, ghost
<1>6. CASE WriteAll
  <2>1. /\ toGui' = Arrives(Pending) /\ mainState' = 1 /\ tcpStep' = 0 /\ rest' = <<>>
        /\ cur' = 1 - cur /\ SendData([outBuf EXCEPT ![cur] = <<>>])
        /\ UNCHANGED <<counterClose, active, link, toRig, client, ghost>>
    BY <1>6 DEF WriteAll, Goto
  <2>2. toGui' \in Seq(UnitsOf(Frames))
    BY <2>1, <1>1, PendingType, ConcatProperties DEF Arrives
  <2>3. Plant'
    <3> DEFINE out == [outBuf EXCEPT ![cur] = <<>>]
    <3>1. Buffers(out)
      BY <1>1, Size DEF Buffers
    <3>2. 1 - cur \in {0, 1} /\ 1 - (1 - cur) = cur
      BY <1>1
    <3>3. 1 - cur' = 1 - (1 - cur)
      BY <2>1, Zenon
    <3>4. 1 - cur' = cur
      BY <3>2, <3>3, Zenon
    <3> HIDE DEF out
    <3>5. Buffers(outBuf') /\ serial' \in Frames
      BY <2>1, <3>1, <3>4, <1>1, QueuedTypes DEF out
    <3> QED
      BY <2>1, <3>2, <3>5, <1>1, Zenon
  <2>4. rest' \in Seq(UnitsOf(Frames))
    BY <2>1
  <2> QED
    BY <2>1, <2>2, <2>3, <2>4, <1>1, <1>2 DEF client, ghost
<1>7. CASE WritePart
  <2>1. PICK k \in 1..(Len(Pending) - 1) :
          toGui' = Arrives(Upto(Pending, k)) /\ rest' = From(Pending, k)
    BY <1>7 DEF WritePart
  <2>2. /\ UNCHANGED <<mainState, tcpStep, counterClose, cur, active, link, toRig, client, ghost>>
        /\ SendData(outBuf)
    BY <1>7 DEF WritePart
  <2>3. Pending \in Seq(UnitsOf(Frames)) /\ k \in 0..Len(Pending)
    BY PendingType, LenProperties
  <2>4. Upto(Pending, k) \in Seq(UnitsOf(Frames)) /\ From(Pending, k) \in Seq(UnitsOf(Frames))
    BY <2>3, Parts
  <2>5. toGui' \in Seq(UnitsOf(Frames)) /\ rest' \in Seq(UnitsOf(Frames))
    BY <2>1, <2>4, <1>1, ConcatProperties DEF Arrives
  <2>6. Plant'
    BY <2>2, <1>1, <1>3
  <2> QED
    BY <2>2, <2>5, <2>6, <1>1, <1>2 DEF client, ghost
<1>8. CASE CloseStep
  <2>1. /\ UNCHANGED <<counterClose, cur, rest, active, client, ghost>> /\ SendData(outBuf)
        /\ toRig' = <<>> /\ toGui' = <<>>
        /\ mainState' \in {10, 11} /\ tcpStep' \in {0, 1} /\ link' \in {link, "lost", "none"}
    BY <1>8 DEF CloseStep, Goto
  <2>2. Plant'
    BY <2>1, <1>1, <1>3
  <2> QED
    BY <2>1, <2>2, <1>1, <1>2 DEF client, ghost
<1>9. CASE Wait
  <2>1. /\ UNCHANGED <<cur, rest, active, link, wire, client, ghost, tcpStep>> /\ SendData(outBuf)
        /\ mainState' \in {0, 11}
        /\ counterClose' = IF counterClose > CloseWait THEN 0 ELSE counterClose + 1
    BY <1>9 DEF Wait, Goto
  <2>2. counterClose' \in 0..(CloseWait + 1)
    BY <2>1, <1>1, SizeAssumption
  <2>3. Plant'
    BY <2>1, <1>1, <1>3
  <2> QED
    BY <2>1, <2>2, <2>3, <1>1, <1>2 DEF wire, client, ghost
<1>10. CASE Connect
  BY <1>10, <1>1, <1>2 DEF Connect, server, plant, wire, Commands
<1>11. ASSUME NEW c \in Commands, SendCommand(c) PROVE TypeOK'
  <2>1. /\ UNCHANGED <<server, plant, link, toGui, data, got, ghost>>
        /\ toRig' = toRig \o Units(<<c>>) /\ asked' \in {asked, c}
    BY <1>11 DEF SendCommand
  <2>2. toRig' \in Seq(UnitsOf(Commands))
    BY <2>1, <1>1, UnitsType, ConcatProperties
  <2> QED
    BY <2>1, <2>2, <1>1, <1>2 DEF server, plant, ghost
<1>12. CASE ClientReceives
  <2>1. PICK k \in 1..Len(toGui) :
          /\ data' = Keep(data \o Upto(toGui, k)) /\ got' = Chunked(data \o Upto(toGui, k))
          /\ toGui' = From(toGui, k)
    BY <1>12 DEF ClientReceives
  <2>2. UNCHANGED <<server, plant, link, toRig, asked, ghost>>
    BY <1>12 DEF ClientReceives
  <2> DEFINE s == data \o Upto(toGui, k)
  <2>3. k \in 0..Len(toGui) /\ toGui' \in Seq(UnitsOf(Frames)) /\ s \in Seq(UnitsOf(Frames))
    <3>1. k \in 0..Len(toGui)
      BY <1>1, LenProperties
    <3> QED
      BY <3>1, <2>1, <1>1, Parts, ConcatProperties
  <2>4. data' = Keep(s) /\ got' = Chunked(s)
    BY <2>1
  <2> HIDE DEF s
  <2>5. CASE Len(s) >= FrameLen
    <3>1. FrameLen \in 0..Len(s) /\ 1 \in 1..FrameLen
      BY <2>3, <2>5, Size, LenProperties
    <3>2. From(s, FrameLen) \in Seq(UnitsOf(Frames)) /\ Upto(s, FrameLen)[1] = s[1]
      BY <2>3, <3>1, Parts
    <3>3. s[1] \in UnitsOf(Frames)
      BY <2>3, <3>1, <2>5, Size, ElementOfSeq
    <3>4. Upto(s, FrameLen)[1][1] \in Frames
      BY <3>2, <3>3 DEF UnitsOf
    <3>5. got' \in Frames \cup {Garbage, Nothing}
      BY <2>4, <3>4, <1>1 DEF Chunked
    <3>6. data' \in Seq(UnitsOf(Frames))
      BY <2>4, <2>5, <3>2 DEF Keep
    <3> QED
      BY <2>2, <2>3, <3>5, <3>6, <1>1, <1>2 DEF server, plant, ghost
  <2>6. CASE ~(Len(s) >= FrameLen)
    <3>1. data' = s
      BY <2>4, <2>6 DEF Keep
    <3>2. got' = got
      <4>1. Len(s) < FrameLen
        BY <2>3, <2>6, Size, LenProperties
      <4> QED
        BY <2>4, <4>1 DEF Chunked
    <3> QED
      BY <2>2, <2>3, <3>1, <3>2, <1>1, <1>2 DEF server, plant, ghost
  <2> QED
    BY <2>5, <2>6
<1>13. CASE ClientLeaves
  <2>1. /\ UNCHANGED <<server, plant, carried>> /\ link' \in {"half", "none"} /\ toGui' = <<>>
        /\ toRig' \in {toRig, <<>>} /\ data' = <<>> /\ got' = Nothing /\ asked' = "param"
        /\ first' = FALSE
    BY <1>13 DEF ClientLeaves
  <2>2. toRig' \in Seq(UnitsOf(Commands)) /\ data' \in Seq(UnitsOf(Frames))
        /\ toGui' \in Seq(UnitsOf(Frames))
    <3>1. <<>> \in Seq(UnitsOf(Commands)) /\ <<>> \in Seq(UnitsOf(Frames))
      OBVIOUS
    <3> QED
      BY <2>1, <3>1, <1>1, Zenon
  <2>3. Wires'
    BY <2>1, <2>2, <1>1 DEF Commands
  <2>4. Server' /\ Plant'
    BY <2>1, <1>1 DEF server, plant
  <2> QED
    BY <2>3, <2>4, <1>2
<1>14. CASE UNCHANGED vars
  BY <1>14, <1>1, <1>2 DEF vars, server, plant, wire, client, ghost
<1> QED
  BY <1>4, <1>5, <1>6, <1>7, <1>8, <1>9, <1>10, <1>11, <1>12, <1>13, <1>14 DEF Next, Cycle, Progress

-----------------------------------------------------------------------------
(* Which states the server and the connection are in together.             *)

\* In the states in which the server has a client's socket, and in those in which it
\* has none; a way that has no connection is empty; no frame waits in the Receiver.
Ways ==
  /\ (mainState = 0 /\ tcpStep = 4) \/ mainState = 1 \/ (mainState = 10 /\ tcpStep = 0)
       => link \in {"up", "half"}
  /\ (mainState = 10 /\ tcpStep = 1) \/ mainState = 11 \/ (mainState = 0 /\ tcpStep = 0)
       => link \in {"none", "lost"}
  /\ mainState = 11 => tcpStep = 0
  /\ link # "up" => toGui = <<>>
  /\ link \in {"none", "lost"} => toRig = <<>>
  /\ Len(data) < FrameLen

LEMMA InitWays == Init => Ways
BY Size DEF Init, Ways

LEMMA StepWays == TypeOK /\ Ways /\ [Next]_vars => Ways'
<1> SUFFICES ASSUME TypeOK, Ways, [Next]_vars PROVE Ways'
  OBVIOUS
<1>1. CASE Deinit \/ InitStep \/ InitError \/ SyncEnds \/ CloseError \/ CycleOnly
  <2>1. UNCHANGED <<link, wire, client>>
    BY <1>1 DEF Deinit, InitStep, InitError, SyncEnds, CloseError, CycleOnly
  <2>2. CASE Deinit
    BY <2>1, <2>2 DEF Deinit, Goto, Ways, wire, client
  <2>3. CASE InitStep
    BY <2>1, <2>3 DEF InitStep, Goto, Ways, wire, client
  <2>4. CASE InitError
    BY <2>1, <2>4 DEF InitError, Goto, Ways, wire, client
  <2>5. CASE SyncEnds
    BY <2>1, <2>5 DEF SyncEnds, Goto, Ways, wire, client
  <2>6. CASE CloseError
    BY <2>1, <2>6 DEF CloseError, Goto, Ways, wire, client
  <2>7. CASE CycleOnly
    BY <2>1, <2>7 DEF CycleOnly, Ways, wire, client, server
  <2> QED
    BY <1>1, <2>2, <2>3, <2>4, <2>5, <2>6, <2>7
<1>2. CASE Receive
  <2>1. /\ mainState = 1 /\ mainState' = 1 /\ UNCHANGED <<link, toGui, client>>
    BY <1>2 DEF Receive
  <2> QED
    BY <2>1 DEF Ways, client
<1>3. CASE WriteAll \/ WritePart
  <2>1. /\ mainState = 1 /\ mainState' = 1 /\ UNCHANGED <<link, toRig, client>>
    BY <1>3 DEF WriteAll, WritePart, Goto
  <2>2. link # "up" => toGui' = toGui
    BY <1>3 DEF WriteAll, WritePart, Arrives
  <2> QED
    BY <2>1, <2>2 DEF Ways, client
<1>4. CASE CloseStep
  <2>1. /\ toRig' = <<>> /\ toGui' = <<>> /\ data' = data
        /\ mainState = 10 /\ tcpStep \in {0, 1}
        /\ IF tcpStep = 0 THEN mainState' = 10 /\ tcpStep' = 1 ELSE mainState' = 11 /\ tcpStep' = 0
        /\ link' = IF tcpStep = 1 THEN link ELSE IF link = "up" THEN "lost" ELSE "none"
    BY <1>4 DEF CloseStep, Goto, client
  <2>2. link' \in {"none", "lost"}
    <3>1. CASE tcpStep = 0
      BY <2>1, <3>1
    <3>2. CASE tcpStep = 1
      BY <2>1, <3>2 DEF Ways
    <3> QED
      BY <2>1, <3>1, <3>2
  <2>3. /\ ~((mainState' = 0 /\ tcpStep' = 4) \/ mainState' = 1 \/ (mainState' = 10 /\ tcpStep' = 0))
        /\ (mainState' = 11 => tcpStep' = 0)
    BY <2>1
  <2> QED
    BY <2>1, <2>2, <2>3 DEF Ways
<1>5. CASE Wait
  <2>1. UNCHANGED <<link, wire, client, tcpStep>> /\ mainState = 11 /\ mainState' \in {0, 11}
    BY <1>5 DEF Wait, Goto
  <2> QED
    BY <2>1 DEF Ways, wire, client
<1>6. CASE Connect
  BY <1>6, Size DEF Connect, Ways, server, wire
<1>7. ASSUME NEW c \in Commands, SendCommand(c) PROVE Ways'
  BY <1>7 DEF SendCommand, Ways, server
<1>8. CASE ClientReceives
  <2>1. PICK k \in 1..Len(toGui) :
          k <= FrameLen /\ data' = Keep(data \o Upto(toGui, k))
    BY <1>8 DEF ClientReceives
  <2>2. link = "up" /\ UNCHANGED <<server, link, toRig>>
    BY <1>8 DEF ClientReceives
  <2> DEFINE s == data \o Upto(toGui, k)
  <2>3. k \in 0..Len(toGui) /\ k \in Nat
    BY LenProperties DEF TypeOK
  <2>4. s \in Seq(UnitsOf(Frames)) /\ Len(s) = Len(data) + k /\ Len(data) \in Nat
    <3> DEFINE t == Upto(toGui, k)
    <3>1. t \in Seq(UnitsOf(Frames)) /\ Len(t) = k /\ data \in Seq(UnitsOf(Frames))
      BY <2>3, Parts DEF TypeOK
    <3> HIDE DEF t
    <3>2. data \o t \in Seq(UnitsOf(Frames)) /\ Len(data \o t) = Len(data) + Len(t)
      BY <3>1, ConcatProperties
    <3> QED
      BY <3>1, <3>2, LenProperties DEF t
  <2>5. data' = Keep(s) /\ Len(data) < FrameLen
    BY <2>1 DEF Ways
  <2> HIDE DEF s
  <2>6. Len(data') < FrameLen
    <3>1. CASE Len(s) >= FrameLen
      <4>1. FrameLen \in 0..Len(s)
        BY <3>1, <2>3, <2>4, Size
      <4>2. Len(From(s, FrameLen)) = Len(s) - FrameLen
        BY <4>1, <2>4, Parts
      <4>3. data' = From(s, FrameLen)
        BY <2>5, <3>1 DEF Keep
      <4>4. Len(From(s, FrameLen)) < FrameLen
        BY <4>2, <2>1, <2>3, <2>4, <2>5, Size
      <4> QED
        BY <4>3, <4>4
    <3>2. CASE ~(Len(s) >= FrameLen)
      <4>1. data' = s
        BY <2>5, <3>2 DEF Keep
      <4> QED
        BY <4>1, <3>2, <2>3, <2>4, Size
    <3> QED
      BY <3>1, <3>2
  <2> QED
    BY <2>2, <2>6 DEF Ways, server
<1>9. CASE ClientLeaves
  <2>1. /\ UNCHANGED server /\ toGui' = <<>> /\ data' = <<>>
        /\ link' = IF link = "up" THEN "half" ELSE "none"
        /\ link \in {"up", "lost"} /\ toRig' \in {toRig, <<>>}
    BY <1>9 DEF ClientLeaves
  <2>2. link' = "none" => toRig' = <<>>
    BY <2>1 DEF Ways
  <2>3. Len(data') < FrameLen
    BY <2>1, EmptySeq, Size
  <2> QED
    BY <2>1, <2>2, <2>3 DEF Ways, server
<1>10. CASE UNCHANGED vars
  BY <1>10 DEF vars, Ways, server, wire, client
<1> QED
  BY <1>1, <1>2, <1>3, <1>4, <1>5, <1>6, <1>7, <1>8, <1>9, <1>10 DEF Next, Cycle, Progress

-----------------------------------------------------------------------------
(* What is on its way to the client is whole frames.                       *)

Way == Seq(UnitsOf(Frames))
Whole(s) == \E fs \in Seq(Frames) : s = Units(fs)

\* What the client has kept, what is under way and what an interrupted send has left
\* are whole frames together, in a connection that began without such a remainder.
ChunkInv ==
  ~carried => /\ got # Garbage
              /\ link = "up" => Whole(Cat(data, Cat(toGui, rest)))

LEMMA WayLaws ==
  /\ \A a, b \in Way : Cat(a, b) \in Way
  /\ \A a \in Way : Cat(a, <<>>) = a /\ Cat(<<>>, a) = a
  /\ \A a, b, c \in Way : Cat(Cat(a, b), c) = Cat(a, Cat(b, c))
  /\ <<>> \in Way
  /\ \A s, t \in Seq(Frames) : Units(Cat(s, t)) = Cat(Units(s), Units(t))
<1>1. <<>> \in Way
  BY DEF Way
<1>2. \A s, t \in Seq(Frames) : Units(Cat(s, t)) = Cat(Units(s), Units(t))
  BY CatUnits
<1>3. /\ \A a, b \in Way : Cat(a, b) \in Way
      /\ \A a \in Way : Cat(a, <<>>) = a /\ Cat(<<>>, a) = a
  BY CatType DEF Way
<1>4. \A a, b, c \in Way : Cat(Cat(a, b), c) = Cat(a, Cat(b, c))
  BY CatAssociative DEF Way
<1> QED
  BY <1>1, <1>2, <1>3, <1>4

LEMMA WayTypes ==
  ASSUME TypeOK
  PROVE  /\ data \in Way /\ toGui \in Way /\ rest \in Way /\ Pending \in Way
         /\ \A b \in {0, 1} : outBuf[b] \in Seq(Frames) /\ Units(outBuf[b]) \in Way
<1>1. data \in Way /\ toGui \in Way /\ rest \in Way /\ Pending \in Way
  BY PendingType DEF TypeOK, Way
<1>2. \A b \in {0, 1} : outBuf[b] \in Seq(Frames)
  BY DEF TypeOK
<1>3. \A b \in {0, 1} : Units(outBuf[b]) \in Way
  BY <1>2, UnitsType DEF Way
<1> QED
  BY <1>1, <1>2, <1>3

\* A frame's units are a frame, with its id in the first of them.
LEMMA FrameIs ==
  ASSUME NEW X, NEW x \in X
  PROVE  Units(<<x>>)[1][1] = x /\ IsFrame(Units(<<x>>))
<1>1. Units(<<x>>)[1] = <<x, 0>>
  BY UnitsOne
<1> DEFINE u == Units(<<x>>)
<1>2. u[1][1] = x
  BY <1>1
<1>3. u = Units(<<u[1][1]>>)
  BY <1>2, Zenon
<1> QED
  BY <1>2, <1>3 DEF IsFrame

\* When the client has kept, and is sent, whole frames, with w to come after them,
\* it either waits for more, or hands the first of these frames on; in both cases
\* it has whole frames before it again, one fewer in the second.
LEMMA Reading ==
  ASSUME TypeOK, ClientReceives, NEW w \in Way, NEW fs \in Seq(Frames),
         Cat(data, Cat(toGui, w)) = Units(fs)
  PROVE  \/ got' = got /\ Cat(data', Cat(toGui', w)) = Units(fs)
         \/ /\ fs # <<>> /\ got' = fs[1]
            /\ Cat(data', Cat(toGui', w)) = Units(Tail(fs))
<1>1. PICK k \in 1..Len(toGui) :
        /\ data' = Keep(data \o Upto(toGui, k))
        /\ got' = Chunked(data \o Upto(toGui, k))
        /\ toGui' = From(toGui, k)
  BY DEF ClientReceives
<1> DEFINE a == Upto(toGui, k)
           b == From(toGui, k)
           s == Cat(data, a)
<1>2. data \in Way /\ toGui \in Way
  BY WayTypes
<1>3. k \in 0..Len(toGui)
  BY <1>2, LenProperties DEF Way
<1>4. a \in Way /\ b \in Way
  BY <1>2, <1>3, Parts DEF Way
<1>5. Cat(a, b) = toGui
  BY <1>2, <1>3, CatParts DEF Way
<1>6. data' = Keep(s) /\ got' = Chunked(s) /\ toGui' = b
  BY <1>1 DEF Cat
<1> HIDE DEF a, b
<1>7. s \in Way
  BY <1>2, <1>4, WayLaws
<1> DEFINE bw == Cat(b, w)
<1>8. bw \in Way
  BY <1>4, WayLaws
<1>9. Cat(s, bw) = Units(fs)
  <2>1. Cat(s, bw) = Cat(data, Cat(a, bw))
    <3> HIDE DEF bw
    <3> QED
      BY <1>2, <1>4, <1>8, WayLaws
  <2>2. Cat(a, bw) = Cat(Cat(a, b), w)
    BY <1>4, WayLaws
  <2> QED
    BY <2>1, <2>2, <1>5, Zenon
<1>10. Cat(data', Cat(toGui', w)) = Cat(Keep(s), bw)
  BY <1>6
<1> HIDE DEF s, bw
<1>11. Len(s) \in Nat
  BY <1>7, LenProperties DEF Way
<1>12. CASE FrameLen <= Len(s)
  <2>1. /\ fs # <<>> /\ Upto(s, FrameLen) = Units(<<fs[1]>>)
        /\ Cat(From(s, FrameLen), bw) = Units(Tail(fs))
    <3>1. s \in Seq(Frames \X Positions) /\ bw \in Seq(Frames \X Positions)
      BY <1>7, <1>8, Zenon DEF Way, UnitsOf
    <3> QED
      BY <3>1, <1>9, <1>12, FirstFrame
  <2>2. fs[1] \in Frames
    BY <2>1, UnitsCons
  <2>3. Upto(s, FrameLen)[1][1] = fs[1] /\ IsFrame(Upto(s, FrameLen))
    <3>1. Units(<<fs[1]>>)[1][1] = fs[1] /\ IsFrame(Units(<<fs[1]>>))
      BY <2>2, FrameIs
    <3> QED
      BY <2>1, <3>1, Zenon
  <2>4. Len(s) >= FrameLen /\ ~(Len(s) < FrameLen)
    BY <1>11, <1>12, Size
  <2>5. got' = fs[1] /\ Keep(s) = From(s, FrameLen)
    BY <1>6, <2>3, <2>4, Zenon DEF Chunked, Keep
  <2> QED
    BY <2>1, <2>5, <1>10
<1>13. CASE ~(FrameLen <= Len(s))
  <2>1. ~(Len(s) >= FrameLen) /\ Len(s) < FrameLen
    BY <1>11, <1>13, Size
  <2>2. got' = got /\ Keep(s) = s
    BY <1>6, <2>1, Zenon DEF Chunked, Keep
  <2> QED
    BY <2>2, <1>9, <1>10
<1> QED
  BY <1>12, <1>13

\* The pending units continue whole frames too: the remainder, or a whole half.
LEMMA WholePending ==
  ASSUME TypeOK, Whole(Cat(data, Cat(toGui, rest)))
  PROVE  Whole(Cat(data, Cat(toGui, Pending)))
<1>1. /\ data \in Way /\ toGui \in Way /\ rest \in Way /\ cur \in {0, 1}
      /\ outBuf[cur] \in Seq(Frames) /\ Units(outBuf[cur]) \in Way
  BY WayTypes DEF TypeOK
<1>2. CASE rest # <<>>
  BY <1>2 DEF Pending
<1>3. CASE rest = <<>>
  <2>1. PICK fs \in Seq(Frames) : Cat(data, Cat(toGui, rest)) = Units(fs)
    BY DEF Whole
  <2>2. Cat(data, toGui) = Units(fs)
    BY <2>1, <1>1, <1>3, WayLaws
  <2>3. Pending = Units(outBuf[cur])
    BY <1>3 DEF Pending
  <2>4. Cat(fs, outBuf[cur]) \in Seq(Frames)
    BY <1>1, CatUnits
  <2>5. Cat(data, Cat(toGui, Pending)) = Cat(Cat(data, toGui), Units(outBuf[cur]))
    BY <2>3, <1>1, WayLaws
  <2>6. Cat(data, Cat(toGui, Pending)) = Units(Cat(fs, outBuf[cur]))
    <3>1. Units(Cat(fs, outBuf[cur])) = Cat(Units(fs), Units(outBuf[cur]))
      BY <1>1, WayLaws
    <3> QED
      BY <2>2, <2>5, <3>1, Zenon
  <2> QED
    BY <2>4, <2>6 DEF Whole
<1> QED
  BY <1>2, <1>3

LEMMA InitChunk == Init => ChunkInv
<1>1. Nothing # Garbage
  BY Size DEF Nothing, Garbage
<1> QED
  BY <1>1 DEF Init, ChunkInv

LEMMA StepChunk == TypeOK /\ Ways /\ ChunkInv /\ [Next]_vars => ChunkInv'
<1> SUFFICES ASSUME TypeOK, Ways, ChunkInv, [Next]_vars PROVE ChunkInv'
  OBVIOUS
<1>1. Nothing # Garbage /\ \A f \in Frames : f # Garbage
  BY Size DEF Nothing, Garbage, Frames
<1>2. /\ data \in Way /\ toGui \in Way /\ rest \in Way /\ Pending \in Way
  BY WayTypes
<1>3. CASE UNCHANGED <<got, carried, link, data, toGui, rest>>
  BY <1>3 DEF ChunkInv
<1>4. CASE WriteAll
  <2>1. /\ UNCHANGED <<got, carried, link, data>> /\ rest' = <<>>
        /\ link = "up" => toGui' = Cat(toGui, Pending)
    BY <1>4 DEF WriteAll, Arrives, client, ghost, Cat
  <2> SUFFICES ASSUME ~carried, link = "up" PROVE Whole(Cat(data', Cat(toGui', rest')))
    BY <2>1 DEF ChunkInv
  <2>2. Cat(toGui', rest') = Cat(toGui, Pending)
    BY <2>1, <1>2, WayLaws
  <2>3. Whole(Cat(data, Cat(toGui, Pending)))
    BY WholePending DEF ChunkInv
  <2> QED
    BY <2>1, <2>2, <2>3
<1>5. CASE WritePart
  <2>1. PICK k \in 1..(Len(Pending) - 1) :
          toGui' = Arrives(Upto(Pending, k)) /\ rest' = From(Pending, k)
    BY <1>5 DEF WritePart
  <2>2. UNCHANGED <<got, carried, link, data>>
    BY <1>5 DEF WritePart, client, ghost
  <2> SUFFICES ASSUME ~carried, link = "up" PROVE Whole(Cat(data', Cat(toGui', rest')))
    BY <2>2 DEF ChunkInv
  <2>3. k \in 0..Len(Pending)
    BY <1>2, LenProperties DEF Way
  <2>4. /\ Upto(Pending, k) \in Way /\ From(Pending, k) \in Way
        /\ Cat(Upto(Pending, k), From(Pending, k)) = Pending
    BY <1>2, <2>3, Parts, CatParts DEF Way
  <2>5. Cat(toGui', rest') = Cat(Cat(toGui, Upto(Pending, k)), From(Pending, k))
    BY <2>1 DEF Arrives, Cat
  <2>6. Cat(toGui', rest') = Cat(toGui, Pending)
    BY <2>4, <2>5, <1>2, WayLaws
  <2>7. Whole(Cat(data, Cat(toGui, Pending)))
    BY WholePending DEF ChunkInv
  <2> QED
    BY <2>2, <2>6, <2>7
<1>6. CASE CloseStep
  <2>1. /\ UNCHANGED <<got, carried, data, rest>> /\ mainState = 10 /\ tcpStep \in {0, 1}
        /\ link' = IF tcpStep = 1 THEN link ELSE IF link = "up" THEN "lost" ELSE "none"
    BY <1>6 DEF CloseStep, client, ghost
  <2>2. link' # "up"
    <3>1. CASE tcpStep = 0
      BY <2>1, <3>1
    <3>2. CASE tcpStep = 1
      BY <2>1, <3>2 DEF Ways
    <3> QED
      BY <2>1, <3>1, <3>2
  <2> QED
    BY <2>1, <2>2 DEF ChunkInv
<1>7. CASE Connect
  <2>1. /\ link = "none" /\ data' = <<>> /\ got' = Nothing /\ UNCHANGED <<toGui, rest>>
        /\ carried' = (rest # <<>>)
    BY <1>7 DEF Connect, wire, server
  <2>2. toGui' = <<>>
    BY <2>1 DEF Ways
  <2>3. ASSUME ~carried' PROVE Whole(Cat(data', Cat(toGui', rest')))
    <3>1. rest' = <<>>
      BY <2>1, <2>3
    <3>2. Cat(data', Cat(toGui', rest')) = <<>>
      BY <3>1, <2>1, <2>2, WayLaws
    <3>3. <<>> \in Seq(Frames)
      OBVIOUS
    <3> QED
      BY <3>2, <3>3, UnitsEmpty DEF Whole
  <2> QED
    BY <2>1, <2>3, <1>1 DEF ChunkInv
<1>8. CASE ClientReceives
  <2>1. link = "up" /\ UNCHANGED <<carried, link, rest>>
    BY <1>8 DEF ClientReceives, ghost, server
  <2> SUFFICES ASSUME ~carried PROVE got' # Garbage /\ Whole(Cat(data', Cat(toGui', rest')))
    BY <2>1 DEF ChunkInv
  <2>2. PICK fs \in Seq(Frames) : Cat(data, Cat(toGui, rest)) = Units(fs)
    BY <2>1 DEF ChunkInv, Whole
  <2>3. \/ got' = got /\ Cat(data', Cat(toGui', rest)) = Units(fs)
        \/ /\ fs # <<>> /\ got' = fs[1]
           /\ Cat(data', Cat(toGui', rest)) = Units(Tail(fs))
    BY <2>2, <1>2, <1>8, Reading
  <2>4. CASE got' = got /\ Cat(data', Cat(toGui', rest)) = Units(fs)
    BY <2>4, <2>1 DEF Whole, ChunkInv
  <2>5. CASE fs # <<>> /\ got' = fs[1] /\ Cat(data', Cat(toGui', rest)) = Units(Tail(fs))
    <3>1. fs[1] \in Frames /\ Tail(fs) \in Seq(Frames)
      BY <2>5, UnitsCons
    <3> QED
      BY <3>1, <2>5, <2>1, <1>1 DEF Whole
  <2> QED
    BY <2>3, <2>4, <2>5
<1>9. CASE ClientLeaves
  <2>1. link' # "up" /\ got' = Nothing /\ carried' = carried
    BY <1>9 DEF ClientLeaves
  <2> QED
    BY <2>1, <1>1 DEF ChunkInv
<1>10. CASE \/ Deinit \/ InitStep \/ InitError \/ SyncEnds \/ CloseError \/ CycleOnly
            \/ Receive \/ Wait
  <2>1. UNCHANGED <<rest, link, toGui, client, ghost>>
    BY <1>10 DEF Deinit, InitStep, InitError, SyncEnds, CloseError, CycleOnly, Receive, Wait, wire, server
  <2> QED
    BY <2>1, <1>3 DEF client, ghost
<1>11. ASSUME NEW c \in Commands, SendCommand(c) PROVE ChunkInv'
  BY <1>11, <1>3 DEF SendCommand, server, ghost
<1>12. CASE UNCHANGED vars
  BY <1>12, <1>3 DEF vars, server, wire, client, ghost
<1> QED
  BY <1>4, <1>5, <1>6, <1>7, <1>8, <1>9, <1>10, <1>11, <1>12 DEF Next, Cycle, Progress

\* For every frame size, buffer and set of faults, in particular however sends are
\* interrupted: the buffers of the server hold whole frames for which they have room,
\* and each 81 byte chunk that the Receiver hands on is a frame of the rig, unless the
\* connection began with the remainder of an interrupted send of the one before it.
THEOREM FramesArrive == Spec => [](TypeOK /\ ChunksAreFrames)
<1>1. Init => TypeOK /\ Ways /\ ChunkInv
  BY InitType, InitWays, InitChunk
<1>2. TypeOK /\ Ways /\ ChunkInv /\ [Next]_vars => (TypeOK /\ Ways /\ ChunkInv)'
  BY StepType, StepWays, StepChunk
<1>3. TypeOK /\ Ways /\ ChunkInv => TypeOK /\ ChunksAreFrames
  BY DEF ChunkInv, ChunksAreFrames
<1> QED
  BY <1>1, <1>2, <1>3, PTL DEF Spec

-----------------------------------------------------------------------------
(* The first connection gets the samples one by one.                       *)

\* The units of all that has been queued and not been handed on, in the order in
\* which it will be.
Stream == Cat(data, Cat(toGui, Cat(Pending, Units(outBuf[1 - cur]))))

\* The units s are frames with the numbers from n + 1 to l.
Numbered(s, n, l) ==
  \E fs \in Seq(Frames) :
    /\ s = Units(fs)
    /\ \A i \in 1..Len(fs) : fs[i] = (n + i) % Serials
    /\ l = (n + Len(fs)) % Serials

FirstInv ==
  first =>
    /\ link # "half"
    /\ link = "none" =>
         /\ rest = <<>> /\ data = <<>> /\ got = Nothing /\ cur = 0
         /\ (mainState = 0 /\ tcpStep \in 0..3) \/ mainState = 255
    /\ link # "lost" => Numbered(Stream, Last, serial)

LEMMA NumberedMore ==
  ASSUME NEW s \in Way, NEW n \in Nat, NEW l \in Nat, Numbered(s, n, l), NEW new \in Seq(Frames),
         \A i \in 1..Len(new) : new[i] = (l + i) % Serials
  PROVE  Numbered(Cat(s, Units(new)), n, (l + Len(new)) % Serials)
<1>1. PICK fs \in Seq(Frames) :
        /\ s = Units(fs)
        /\ \A i \in 1..Len(fs) : fs[i] = (n + i) % Serials
        /\ l = (n + Len(fs)) % Serials
  BY DEF Numbered
<1> DEFINE gs == Cat(fs, new)
           a == Len(fs)
           b == Len(new)
<1>2. a \in Nat /\ b \in Nat
  BY LenProperties
<1>3. gs \in Seq(Frames) /\ Len(gs) = a + b /\ Cat(s, Units(new)) = Units(gs)
  BY <1>1, CatUnits, CatType
<1>4. \A i \in 1..(a + b) : gs[i] = IF i <= a THEN fs[i] ELSE new[i - a]
  BY ConcatProperties DEF Cat
<1> HIDE DEF gs, a, b
<1>5. ASSUME NEW k \in Nat PROVE (l + k) % Serials = (n + (a + k)) % Serials
  <2>1. n + a \in Nat /\ (n + a) + k = n + (a + k)
    BY <1>2, <1>5
  <2>2. (((n + a) % Serials) + k) % Serials = ((n + a) + k) % Serials
    BY <2>1, <1>5, ModAdd, Size
  <2>3. l = (n + a) % Serials
    BY <1>1 DEF a
  <2> QED
    BY <2>1, <2>2, <2>3
<1>6. \A i \in 1..(a + b) : gs[i] = (n + i) % Serials
  <2> TAKE i \in 1..(a + b)
  <2>1. CASE i <= a
    <3>1. i \in 1..a
      BY <2>1, <1>2
    <3> QED
      BY <3>1, <2>1, <1>1, <1>4 DEF a
  <2>2. CASE ~(i <= a)
    <3> DEFINE k == i - a
    <3>1. k \in 1..b /\ k \in Nat /\ a + k = i
      BY <2>2, <1>2
    <3>2. gs[i] = new[k]
      BY <2>2, <1>4
    <3> HIDE DEF k
    <3>3. new[k] = (l + k) % Serials
      BY <3>1 DEF b
    <3> QED
      BY <3>1, <3>2, <3>3, <1>5
  <2> QED
    BY <2>1, <2>2
<1>7. (l + b) % Serials = (n + Len(gs)) % Serials
  BY <1>2, <1>3, <1>5
<1>8. (l + Len(new)) % Serials = (n + Len(gs)) % Serials
  BY <1>7 DEF b
<1>9. \A i \in 1..Len(gs) : gs[i] = (n + i) % Serials
  BY <1>3, <1>6
<1> QED
  BY <1>3, <1>8, <1>9 DEF Numbered

\* The frames that follow the first of them are numbered from the next number on.
LEMMA NumberedTail ==
  ASSUME NEW n \in Nat, NEW fs \in Seq(Frames), fs # <<>>,
         \A i \in 1..Len(fs) : fs[i] = (n + i) % Serials
  PROVE  /\ fs[1] \in Frames /\ fs[1] = (n + 1) % Serials
         /\ Numbered(Units(Tail(fs)), fs[1], (n + Len(fs)) % Serials)
<1> DEFINE gs == Tail(fs)
           h == fs[1]
           m == Len(fs)
<1>1. /\ h \in Frames /\ gs \in Seq(Frames) /\ Len(gs) = m - 1 /\ m \in Nat \ {0}
      /\ \A i \in 1..(m - 1) : gs[i] = fs[i + 1]
  BY UnitsCons, LenProperties, EmptySeq
<1> HIDE DEF gs, h, m
<1>2. h = (n + 1) % Serials
  <2>1. 1 \in 1..Len(fs)
    BY <1>1 DEF m
  <2> QED
    BY <2>1 DEF h
<1>3. ASSUME NEW k \in Nat PROVE (h + k) % Serials = (n + (k + 1)) % Serials
  <2>1. n + 1 \in Nat /\ (n + 1) + k = n + (k + 1)
    BY <1>3
  <2>2. (((n + 1) % Serials) + k) % Serials = ((n + 1) + k) % Serials
    BY <2>1, <1>3, ModAdd, Size
  <2> QED
    BY <2>1, <2>2, <1>2
<1>4. ASSUME NEW i \in 1..Len(gs) PROVE gs[i] = (h + i) % Serials
  <2>1. i \in 1..(m - 1) /\ i \in Nat /\ i + 1 \in 1..m
    BY <1>1
  <2>2. gs[i] = fs[i + 1] /\ fs[i + 1] = (n + (i + 1)) % Serials
    BY <2>1, <1>1 DEF m
  <2> QED
    BY <2>1, <2>2, <1>3
<1>5. (n + m) % Serials = (h + Len(gs)) % Serials
  <2>1. m - 1 \in Nat /\ (m - 1) + 1 = m
    BY <1>1
  <2>2. (h + (m - 1)) % Serials = (n + ((m - 1) + 1)) % Serials
    BY <2>1, <1>3
  <2> QED
    BY <2>1, <2>2, <1>1
<1>6. Numbered(Units(gs), h, (n + m) % Serials)
  BY <1>1, <1>4, <1>5 DEF Numbered
<1> QED
  BY <1>1, <1>2, <1>6 DEF gs, h, m

LEMMA Regrouped ==
  ASSUME NEW a \in Way, NEW b \in Way, NEW p \in Way, NEW o \in Way, NEW u \in Way
  PROVE  Cat(a, Cat(b, Cat(p, Cat(o, u)))) = Cat(Cat(a, Cat(b, Cat(p, o))), u)
<1>1. Cat(p, o) \in Way /\ Cat(b, Cat(p, o)) \in Way /\ Cat(o, u) \in Way
  BY WayLaws
<1>2. Cat(p, Cat(o, u)) = Cat(Cat(p, o), u)
  BY WayLaws
<1>3. Cat(b, Cat(Cat(p, o), u)) = Cat(Cat(b, Cat(p, o)), u)
  BY <1>1, WayLaws
<1>4. Cat(a, Cat(Cat(b, Cat(p, o)), u)) = Cat(Cat(a, Cat(b, Cat(p, o))), u)
  BY <1>1, WayLaws
<1> QED
  BY <1>2, <1>3, <1>4, Zenon

LEMMA StreamType == ASSUME TypeOK PROVE Stream \in Way
<1>1. cur \in {0, 1} /\ 1 - cur \in {0, 1}
  BY DEF TypeOK
<1> DEFINE o == Units(outBuf[1 - cur])
<1>2. data \in Way /\ toGui \in Way /\ Pending \in Way /\ o \in Way
  BY <1>1, WayTypes
<1> HIDE DEF o
<1>3. Cat(data, Cat(toGui, Cat(Pending, o))) \in Way
  BY <1>2, WayLaws
<1> QED
  BY <1>3 DEF Stream, o

\* The samples that a cycle queues come after all that is in the stream.
Grows ==
  \E new \in Seq(Frames) :
    /\ Len(new) <= 2
    /\ \A i \in 1..Len(new) : new[i] = (serial + i) % Serials
    /\ serial' = (serial + Len(new)) % Serials
    /\ Stream' = Cat(Stream, Units(new))

\* A cycle that leaves the halves in their roles, and takes nothing from the pending
\* units or a beginning u of them.
LEMMA QuietGrows ==
  ASSUME TypeOK, cur' = cur, SendData(outBuf), data' = data,
         NEW u \in Way, NEW v \in Way, Pending = Cat(u, v), toGui' = Cat(toGui, u),
         \/ u = <<>> /\ rest' = rest
         \/ v # <<>> /\ rest' = v
  PROVE  Grows
<1> DEFINE c == 1 - cur
           o == Units(outBuf[c])
<1>1. c \in {0, 1} /\ cur \in {0, 1} /\ c # cur /\ 1 - cur' = c
  BY DEF TypeOK
<1>2. /\ Buffers(outBuf) /\ serial \in Frames /\ outBuf[c] \in Seq(Frames)
      /\ outBuf \in [{0, 1} -> Seq(Frames)]
  BY <1>1 DEF TypeOK, Buffers
<1>3. data \in Way /\ toGui \in Way /\ Pending \in Way /\ o \in Way
  BY <1>1, WayTypes
<1>0. Stream = Cat(data, Cat(toGui, Cat(Pending, o)))
  BY DEF Stream
<1> HIDE DEF c
<1>4. PICK new \in Seq(Frames) :
        /\ Len(new) <= 2
        /\ \A i \in 1..Len(new) : new[i] = (serial + i) % Serials
        /\ outBuf' = [outBuf EXCEPT ![c] = outBuf[c] \o new]
        /\ serial' = (serial + Len(new)) % Serials
  <2>1. c \in {0, 1} /\ 1 - cur' = c /\ Buffers(outBuf) /\ serial \in Frames /\ SendData(outBuf)
    BY <1>1, <1>2
  <2>2. \E new \in Seq(Frames) :
          /\ \A i \in 1..Len(new) : new[i] = (serial + i) % Serials
          /\ Len(new) <= 2
          /\ Len(outBuf[c]) + Len(new) <= BufFrames
          /\ outBuf' = [outBuf EXCEPT ![c] = outBuf[c] \o new]
          /\ serial' = (serial + Len(new)) % Serials
    BY <2>1, Queued
  <2> QED
    BY <2>2, Zenon
<1>5. outBuf'[c] = Cat(outBuf[c], new) /\ outBuf'[cur] = outBuf[cur]
  BY <1>1, <1>2, <1>4 DEF Cat
<1>6. Units(outBuf'[c]) = Cat(o, Units(new)) /\ Units(new) \in Way
  <2>1. Units(new) \in Way
    BY UnitsType DEF Way
  <2>2. Units(Cat(outBuf[c], new)) = Cat(o, Units(new))
    BY <1>2, WayLaws
  <2>3. Units(outBuf'[c]) = Units(Cat(outBuf[c], new))
    BY <1>5, Zenon
  <2> QED
    BY <2>1, <2>2, <2>3, Zenon
<1>7. Units(outBuf'[1 - cur']) = Units(outBuf'[c])
  BY <1>1, Zenon
<1>8. Pending' = v
  <2>1. outBuf'[cur'] = outBuf[cur]
    BY <1>5
  <2>2. Pending' = IF rest' = <<>> THEN Units(outBuf[cur]) ELSE rest'
    BY <2>1, Zenon DEF Pending
  <2>3. CASE u = <<>> /\ rest' = rest
    <3>1. Pending' = Pending
      BY <2>2, <2>3 DEF Pending
    <3> QED
      BY <3>1, <2>3, WayLaws
  <2>4. CASE v # <<>> /\ rest' = v
    BY <2>2, <2>4
  <2> QED
    BY <2>3, <2>4
<1> HIDE DEF o
<1> DEFINE n == Units(new)
           tail == Cat(o, n)
<1>9. Stream' = Cat(data, Cat(Cat(toGui, u), Cat(v, tail)))
  BY <1>6, <1>7, <1>8 DEF Stream
<1>10. n \in Way
  BY <1>6
<1> HIDE DEF n
<1>11. tail \in Way
  BY <1>3, <1>10, WayLaws
<1>12. Cat(Cat(toGui, u), Cat(v, tail)) = Cat(toGui, Cat(Pending, tail))
  <2> HIDE DEF tail
  <2>1. Cat(v, tail) \in Way
    BY <1>11, WayLaws
  <2>2. Cat(Cat(toGui, u), Cat(v, tail)) = Cat(toGui, Cat(u, Cat(v, tail)))
    BY <2>1, <1>3, WayLaws
  <2>3. Cat(u, Cat(v, tail)) = Cat(Cat(u, v), tail)
    BY <1>11, WayLaws
  <2> QED
    BY <2>2, <2>3, Zenon
<1>13. Cat(data, Cat(toGui, Cat(Pending, tail))) = Cat(Stream, n)
  <2>1. Cat(data, Cat(toGui, Cat(Pending, Cat(o, n))))
          = Cat(Cat(data, Cat(toGui, Cat(Pending, o))), n)
    <3> DEFINE p == Pending
               a == data
               b == toGui
    <3>1. a \in Way /\ b \in Way /\ p \in Way /\ o \in Way
      BY <1>3
    <3> HIDE DEF p, a, b
    <3>2. Cat(a, Cat(b, Cat(p, Cat(o, n)))) = Cat(Cat(a, Cat(b, Cat(p, o))), n)
      BY <3>1, <1>10, Regrouped
    <3> QED
      BY <3>2 DEF p, a, b
  <2> QED
    BY <2>1, <1>0, Zenon
<1>14. Stream' = Cat(Stream, n)
  BY <1>9, <1>12, <1>13, Zenon
<1> QED
  BY <1>4, <1>14 DEF Grows, n

\* The half that has just been sent is emptied before the samples go into it.
LEMMA WriteQueued ==
  ASSUME Buffers(outBuf), serial \in Frames, NEW k \in {0, 1}, 1 - cur' = k, k = cur,
         SendData([outBuf EXCEPT ![cur] = <<>>])
  PROVE  \E new \in Seq(Frames) :
           /\ Len(new) <= 2
           /\ \A i \in 1..Len(new) : new[i] = (serial + i) % Serials
           /\ serial' = (serial + Len(new)) % Serials
           /\ outBuf'[k] = new
           /\ \A c \in {0, 1} : c # k => outBuf'[c] = outBuf[c]
<1>1. Buffers([outBuf EXCEPT ![cur] = <<>>])
  BY Size DEF Buffers
<1>2. PICK new \in Seq(Frames) :
        /\ Len(new) <= 2
        /\ \A i \in 1..Len(new) : new[i] = (serial + i) % Serials
        /\ Len([outBuf EXCEPT ![cur] = <<>>][k]) + Len(new) <= BufFrames
        /\ outBuf' = [[outBuf EXCEPT ![cur] = <<>>] EXCEPT
                        ![k] = [outBuf EXCEPT ![cur] = <<>>][k] \o new]
        /\ serial' = (serial + Len(new)) % Serials
  BY <1>1, Queued
<1>3. [outBuf EXCEPT ![cur] = <<>>][k] \o new = new
  BY DEF Buffers
<1>4. outBuf'[k] = new
  BY <1>2, <1>3 DEF Buffers
<1>5. \A c \in {0, 1} : c # k => outBuf'[c] = outBuf[c]
  BY <1>2 DEF Buffers
<1> QED
  BY <1>2, <1>4, <1>5

\* The cycle in which everything is sent and the halves change their roles.
LEMMA WriteGrows ==
  ASSUME TypeOK, WriteAll, link = "up"
  PROVE  Grows
<1> DEFINE c == 1 - cur
           o == Units(outBuf[c])
<1>0. Stream = Cat(data, Cat(toGui, Cat(Pending, o)))
  BY DEF Stream
<1>1. /\ cur' = c /\ c \in {0, 1} /\ cur \in {0, 1} /\ c # cur /\ 1 - c = cur
      /\ rest' = <<>> /\ data' = data
      /\ toGui' = Cat(toGui, Pending) /\ SendData([outBuf EXCEPT ![cur] = <<>>])
  BY DEF WriteAll, TypeOK, Arrives, Cat, client
<1>2. serial \in Frames /\ outBuf[c] \in Seq(Frames) /\ Buffers(outBuf)
  BY <1>1 DEF TypeOK, Buffers
<1>3. data \in Way /\ toGui \in Way /\ Pending \in Way /\ o \in Way
  BY <1>1, WayTypes
<1> HIDE DEF c
<1>5. 1 - cur' = cur
  <2>1. 1 - cur' = 1 - c
    BY <1>1, Zenon
  <2> QED
    BY <2>1, <1>1, Zenon
<1>6. PICK k \in {0, 1} : k = cur
  BY <1>1
<1>7. PICK new \in Seq(Frames) :
        /\ Len(new) <= 2
        /\ \A i \in 1..Len(new) : new[i] = (serial + i) % Serials
        /\ serial' = (serial + Len(new)) % Serials
        /\ outBuf'[k] = new /\ \A b \in {0, 1} : b # k => outBuf'[b] = outBuf[b]
  <2>1. 1 - cur' = k
    BY <1>5, <1>6, Zenon
  <2> QED
    BY <2>1, <1>1, <1>2, <1>6, WriteQueued
<1>8. Units(outBuf'[1 - cur']) = Units(new) /\ Pending' = o
  <2>1. outBuf'[1 - cur'] = new /\ outBuf'[cur'] = outBuf[c]
    BY <1>1, <1>5, <1>6, <1>7, Zenon
  <2> QED
    BY <2>1, <1>1, Zenon DEF Pending
<1> HIDE DEF o
<1> DEFINE n == Units(new)
<1>9. n \in Way
  BY UnitsType DEF Way
<1>10. Stream' = Cat(data, Cat(Cat(toGui, Pending), Cat(o, n)))
  BY <1>1, <1>8, Zenon DEF Stream
<1> HIDE DEF n
<1>11. Cat(Cat(toGui, Pending), Cat(o, n)) = Cat(toGui, Cat(Pending, Cat(o, n)))
  <2>1. Cat(o, n) \in Way
    BY <1>3, <1>9, WayLaws
  <2> QED
    BY <2>1, <1>3, WayLaws
<1>12. Cat(data, Cat(toGui, Cat(Pending, Cat(o, n)))) = Cat(Stream, n)
  <2>1. Cat(data, Cat(toGui, Cat(Pending, Cat(o, n))))
          = Cat(Cat(data, Cat(toGui, Cat(Pending, o))), n)
    BY <1>3, <1>9, Regrouped
  <2> QED
    BY <2>1, <1>0, Zenon
<1>13. Stream' = Cat(Stream, n)
  BY <1>10, <1>11, <1>12, Zenon
<1> QED
  BY <1>7, <1>13 DEF Grows, n

LEMMA GrowsNumbered ==
  ASSUME TypeOK, Grows, got' = got, Numbered(Stream, Last, serial)
  PROVE  Numbered(Stream, Last, serial)'
<1>1. PICK new \in Seq(Frames) :
        /\ \A i \in 1..Len(new) : new[i] = (serial + i) % Serials
        /\ serial' = (serial + Len(new)) % Serials
        /\ Stream' = Cat(Stream, Units(new))
  BY DEF Grows
<1>2. Last \in Nat /\ serial \in Nat /\ Last' = Last
  BY Size DEF TypeOK, Last, Frames, Garbage, Nothing
<1>3. Stream \in Way
  BY StreamType
<1> DEFINE s == Stream
           n == Last
           l == serial
<1>4. s \in Way /\ n \in Nat /\ l \in Nat /\ Numbered(s, n, l)
      /\ \A i \in 1..Len(new) : new[i] = (l + i) % Serials
  BY <1>1, <1>2, <1>3
<1> HIDE DEF s, n, l
<1>5. Numbered(Cat(s, Units(new)), n, (l + Len(new)) % Serials)
  BY <1>4, NumberedMore
<1>6. Stream' = Cat(s, Units(new)) /\ Last' = n /\ serial' = (l + Len(new)) % Serials
  BY <1>1, <1>2 DEF s, n, l
<1>7. Numbered(Stream', Last', serial')
  BY <1>5, <1>6, Zenon
<1> QED
  BY <1>7 DEF Numbered

LEMMA InitFirst == Init => FirstInv
<1> SUFFICES ASSUME Init PROVE FirstInv
  OBVIOUS
<1>1. /\ data = <<>> /\ toGui = <<>> /\ rest = <<>> /\ cur = 0 /\ got = Nothing /\ serial = 0
      /\ outBuf = [b \in {0, 1} |-> <<>>] /\ mainState = 0 /\ tcpStep = 0 /\ link = "none"
  BY DEF Init
<1>2. outBuf[cur] = <<>> /\ outBuf[1 - cur] = <<>>
  BY <1>1
<1>3. Pending = <<>>
  BY <1>1, <1>2, UnitsEmpty DEF Pending
<1>4. Stream = <<>>
  BY <1>1, <1>2, <1>3, UnitsEmpty, WayLaws DEF Stream
<1>5. Numbered(<<>>, 0, 0)
  <2> DEFINE fs == <<>>
  <2>1. fs \in Seq(Frames) /\ Len(fs) = 0 /\ Units(fs) = <<>>
    BY UnitsEmpty
  <2> HIDE DEF fs
  <2>2. \A i \in 1..Len(fs) : fs[i] = (0 + i) % Serials
    BY <2>1
  <2>3. 0 = (0 + 0) % Serials
    BY Size
  <2>4. 0 = (0 + Len(fs)) % Serials
    BY <2>1, <2>3, Zenon
  <2> QED
    BY <2>1, <2>2, <2>4 DEF Numbered
<1>6. Last = 0
  BY <1>1 DEF Last
<1> QED
  BY <1>1, <1>4, <1>5, <1>6 DEF FirstInv

\* The number of the frame that the Receiver hands on in the first connection.
LEMMA FirstReads ==
  ASSUME TypeOK, FirstInv, first, ClientReceives
  PROVE  /\ got' = got \/ (got' \in Frames /\ got' = (Last + 1) % Serials)
         /\ Numbered(Stream, Last, serial)'
<1>1. link = "up" /\ UNCHANGED <<server, plant>>
  BY DEF ClientReceives
<1> DEFINE w == Cat(Pending, Units(outBuf[1 - cur]))
<1>2. Stream = Cat(data, Cat(toGui, w)) /\ Stream' = Cat(data', Cat(toGui', w))
  BY <1>1 DEF Stream, Pending, server, plant
<1>3. w \in Way
  <2>1. 1 - cur \in {0, 1}
    BY DEF TypeOK
  <2> QED
    BY <2>1, WayTypes, WayLaws
<1> HIDE DEF w
<1>4. PICK fs \in Seq(Frames) :
        /\ Stream = Units(fs)
        /\ \A i \in 1..Len(fs) : fs[i] = (Last + i) % Serials
        /\ serial = (Last + Len(fs)) % Serials
  BY <1>1 DEF FirstInv, Numbered
<1>5. \/ got' = got /\ Stream' = Units(fs)
      \/ fs # <<>> /\ got' = fs[1] /\ Stream' = Units(Tail(fs))
  BY <1>2, <1>3, <1>4, Reading
<1>6. serial' = serial
  BY <1>1 DEF plant
<1>7. CASE got' = got /\ Stream' = Units(fs)
  <2>1. Last' = Last
    BY <1>7 DEF Last
  <2> QED
    BY <2>1, <1>4, <1>6, <1>7 DEF Numbered
<1>8. CASE fs # <<>> /\ got' = fs[1] /\ Stream' = Units(Tail(fs))
  <2> DEFINE n == Last
  <2>1. n \in Nat /\ \A i \in 1..Len(fs) : fs[i] = (n + i) % Serials
    BY <1>4, Size DEF TypeOK, Last, Frames, Garbage, Nothing
  <2>2. serial' = (n + Len(fs)) % Serials
    BY <1>4, <1>6
  <2> HIDE DEF n
  <2>3. /\ fs[1] \in Frames /\ fs[1] = (n + 1) % Serials
        /\ Numbered(Units(Tail(fs)), fs[1], (n + Len(fs)) % Serials)
    BY <2>1, <1>8, NumberedTail
  <2>4. fs[1] # Nothing
    BY <2>3, Size DEF Frames, Nothing
  <2>5. Last' = fs[1]
    BY <2>4, <1>8 DEF Last
  <2>6. Numbered(Stream', Last', serial')
    BY <2>2, <2>3, <2>5, <1>8, Zenon
  <2>7. Numbered(Stream, Last, serial)'
    BY <2>6 DEF Numbered
  <2> QED
    BY <2>3, <2>7, <1>8 DEF n
<1> QED
  BY <1>5, <1>7, <1>8

\* A connection that the server has closed stays closed as long as it is the first.
LEMMA StaysLost ==
  ASSUME Ways, [Next]_vars, first'
  PROVE  /\ first
         /\ link = "lost" => link' = "lost"
<1>1. CASE Cycle
  <2>1. UNCHANGED ghost /\ (link' = link \/ CloseStep)
    BY <1>1 DEF Cycle, Progress, Deinit, InitStep, Receive, SyncEnds, WriteAll, WritePart,
      CloseStep, Wait, InitError, CloseError, CycleOnly
  <2>2. CloseStep /\ link = "lost" => link' = "lost"
    BY DEF CloseStep, Ways
  <2> QED
    BY <2>1, <2>2 DEF ghost
<1>2. CASE Connect \/ ClientReceives \/ ClientLeaves
  BY <1>2 DEF Connect, ClientReceives, ClientLeaves, ghost
<1>3. ASSUME NEW c \in Commands, SendCommand(c) PROVE first' = first /\ link' = link
  BY <1>3 DEF SendCommand, ghost
<1>4. CASE UNCHANGED vars
  BY <1>4 DEF vars, ghost
<1> QED
  BY <1>1, <1>2, <1>3, <1>4 DEF Next

\* As long as the first connection lasts, a step puts samples behind the stream, or it
\* is the client's, or it leaves the stream alone.
LEMMA Moves ==
  ASSUME TypeOK, Ways, FirstInv, [Next]_vars, first', link' # "lost"
  PROVE  \/ Grows /\ got' = got
         \/ ClientReceives
         \/ Stream' = Stream /\ Last' = Last /\ serial' = serial
<1>0. first /\ link # "lost"
  BY StaysLost
<1>1. CASE \/ Deinit \/ InitStep \/ InitError \/ SyncEnds \/ CloseError \/ CycleOnly
           \/ Receive \/ Wait
  <2>1. UNCHANGED <<rest, toGui, client>> /\ SendData(outBuf)
    BY <1>1 DEF Deinit, InitStep, InitError, SyncEnds, CloseError, CycleOnly, Receive, Wait, wire, server
  <2>2. got' = got /\ data' = data /\ toGui' = toGui /\ rest' = rest
    BY <2>1 DEF client
  <2>3. cur' = cur
    <3>1. CASE Deinit
      <4>1. link = "none" /\ cur' = 0
        BY <3>1, <1>0 DEF Deinit, Ways
      <4> QED
        BY <4>1, <1>0 DEF FirstInv
    <3>2. CASE \/ InitStep \/ InitError \/ SyncEnds \/ CloseError \/ CycleOnly
               \/ Receive \/ Wait
      BY <3>2 DEF InitStep, InitError, SyncEnds, CloseError, CycleOnly, Receive, Wait, server
    <3> QED
      BY <1>1, <3>1, <3>2
  <2>4. data \in Way /\ toGui \in Way /\ Pending \in Way /\ <<>> \in Way
    BY WayTypes, WayLaws
  <2>5. Pending = Cat(<<>>, Pending) /\ toGui' = Cat(toGui, <<>>)
    BY <2>2, <2>4, WayLaws
  <2>6. Grows
    BY <2>1, <2>2, <2>3, <2>4, <2>5, QuietGrows
  <2> QED
    BY <2>2, <2>6
<1>2. CASE WriteAll
  <2>1. UNCHANGED client /\ mainState = 1
    BY <1>2 DEF WriteAll
  <2>2. link = "up"
    BY <2>1, <1>0 DEF Ways, FirstInv
  <2>3. Grows
    BY <2>2, <1>2, WriteGrows
  <2> QED
    BY <2>1, <2>3 DEF client
<1>3. CASE WritePart
  <2>1. PICK k \in 1..(Len(Pending) - 1) :
          toGui' = Arrives(Upto(Pending, k)) /\ rest' = From(Pending, k)
    BY <1>3 DEF WritePart
  <2>2. UNCHANGED <<cur, client>> /\ mainState = 1 /\ SendData(outBuf)
    BY <1>3 DEF WritePart
  <2>3. got' = got /\ data' = data
    BY <2>2 DEF client
  <2>4. link = "up"
    BY <2>2, <1>0 DEF Ways, FirstInv
  <2>5. Pending \in Way
    BY WayTypes
  <2> DEFINE u == Upto(Pending, k)
             v == From(Pending, k)
  <2>6. k \in 0..Len(Pending) /\ Len(Pending) - k > 0 /\ Len(Pending) \in Nat
    BY <2>5, LenProperties DEF Way
  <2>7. u \in Way /\ v \in Way /\ Cat(u, v) = Pending /\ Len(v) = Len(Pending) - k
    BY <2>5, <2>6, Parts, CatParts DEF Way
  <2>8. toGui' = Cat(toGui, u) /\ rest' = v
    BY <2>1, <2>4 DEF Arrives, Cat
  <2> HIDE DEF u, v
  <2>9. v # <<>>
    <3>1. Len(v) # 0
      BY <2>6, <2>7
    <3> QED
      BY <3>1, EmptySeq
  <2>10. Grows
    BY <2>2, <2>3, <2>7, <2>8, <2>9, QuietGrows
  <2> QED
    BY <2>3, <2>10
<1>4. CASE CloseStep
  <2>1. mainState = 10 /\ tcpStep \in {0, 1}
        /\ link' = IF tcpStep = 1 THEN link ELSE IF link = "up" THEN "lost" ELSE "none"
    BY <1>4 DEF CloseStep
  <2>2. link = "up" /\ tcpStep = 0
    BY <2>1, <1>0 DEF FirstInv, Ways
  <2> QED
    BY <2>1, <2>2
<1>5. CASE Connect
  <2>1. UNCHANGED <<server, plant, wire>> /\ link = "none" /\ data' = <<>> /\ got' = Nothing
    BY <1>5 DEF Connect
  <2>2. data = <<>> /\ got = Nothing
    BY <2>1, <1>0 DEF FirstInv
  <2> QED
    BY <2>1, <2>2 DEF Stream, Pending, Last, server, plant, wire
<1>6. ASSUME NEW c \in Commands, SendCommand(c)
      PROVE  Stream' = Stream /\ Last' = Last /\ serial' = serial
  BY <1>6 DEF SendCommand, Stream, Pending, Last, server, plant
<1>7. CASE ClientLeaves
  BY <1>7 DEF ClientLeaves
<1>8. CASE UNCHANGED vars
  BY <1>8 DEF vars, Stream, Pending, Last, server, plant, wire, client
<1> QED
  BY <1>1, <1>2, <1>3, <1>4, <1>5, <1>6, <1>7, <1>8 DEF Next, Cycle, Progress

LEMMA StepFirst == TypeOK /\ Ways /\ FirstInv /\ [Next]_vars => FirstInv'
<1> SUFFICES ASSUME TypeOK, Ways, FirstInv, [Next]_vars, first' PROVE FirstInv'
  BY DEF FirstInv
<1> DEFINE Begun == /\ rest = <<>> /\ data = <<>> /\ got = Nothing /\ cur = 0
                    /\ (mainState = 0 /\ tcpStep \in 0..3) \/ mainState = 255
<1>1. first
  BY StaysLost
<1>2. ASSUME link' # "lost" PROVE Numbered(Stream, Last, serial)'
  <2>1. Numbered(Stream, Last, serial)
    BY <1>1, <1>2, StaysLost DEF FirstInv
  <2>2. CASE Grows /\ got' = got
    BY <2>1, <2>2, GrowsNumbered
  <2>3. CASE ClientReceives
    BY <2>3, <1>1, FirstReads
  <2>4. CASE Stream' = Stream /\ Last' = Last /\ serial' = serial
    <3>1. Numbered(Stream', Last', serial')
      BY <2>1, <2>4, Zenon
    <3> QED
      BY <3>1 DEF Numbered
  <2> QED
    BY <1>2, <2>2, <2>3, <2>4, Moves
<1>3. ASSUME link' # "half", link' = "none" => Begun' PROVE FirstInv'
  BY <1>2, <1>3 DEF FirstInv
<1>4. CASE \/ Deinit \/ InitStep \/ InitError \/ SyncEnds \/ CloseError \/ CycleOnly
           \/ Receive \/ Wait
  <2>1. UNCHANGED <<rest, link, client>> /\ (cur' = 0 \/ cur' = cur)
    BY <1>4 DEF Deinit, InitStep, InitError, SyncEnds, CloseError, CycleOnly, Receive, Wait, server
  <2>2. got' = got /\ data' = data /\ rest' = rest /\ link' = link
    BY <2>1 DEF client
  <2>3. link # "half" /\ (link = "none" => Begun)
    BY <1>1 DEF FirstInv
  <2>4. ASSUME link = "none" PROVE Begun'
    <3>1. Begun /\ cur' = 0
      BY <2>1, <2>3, <2>4
    <3>2. (mainState' = 0 /\ tcpStep' \in 0..3) \/ mainState' = 255
      <4>1. CASE Deinit
        BY <4>1 DEF Deinit, Goto
      <4>2. CASE InitStep
        BY <4>2, <2>4 DEF InitStep, Goto, Ways
      <4>3. CASE InitError
        BY <4>3 DEF InitError, Goto
      <4>4. CASE CycleOnly
        BY <4>4, <3>1 DEF CycleOnly, server
      <4>5. CASE SyncEnds \/ Receive \/ CloseError \/ Wait
        BY <4>5, <3>1 DEF SyncEnds, Receive, CloseError, Wait
      <4> QED
        BY <1>4, <4>1, <4>2, <4>3, <4>4, <4>5
    <3> QED
      BY <3>1, <3>2, <2>2
  <2> QED
    BY <2>2, <2>3, <2>4, <1>3
<1>5. CASE WriteAll \/ WritePart
  <2>1. link' = link /\ mainState = 1
    BY <1>5 DEF WriteAll, WritePart
  <2> QED
    BY <2>1, <1>1, <1>3 DEF Ways, FirstInv
<1>6. CASE CloseStep
  <2>1. mainState = 10 /\ tcpStep \in {0, 1}
        /\ link' = IF tcpStep = 1 THEN link ELSE IF link = "up" THEN "lost" ELSE "none"
    BY <1>6 DEF CloseStep
  <2>2. link' = "lost"
    BY <2>1, <1>1 DEF Ways, FirstInv
  <2> QED
    BY <2>2, <1>3
<1>7. CASE Connect
  BY <1>3, <1>7 DEF Connect
<1>8. ASSUME NEW c \in Commands, SendCommand(c) PROVE FirstInv'
  BY <1>3, <1>8 DEF SendCommand
<1>9. CASE ClientReceives
  BY <1>3, <1>9 DEF ClientReceives
<1>10. CASE ClientLeaves
  BY <1>10 DEF ClientLeaves
<1>11. CASE UNCHANGED vars
  <2>1. UNCHANGED <<server, link, client>>
    BY <1>11 DEF vars
  <2> QED
    BY <2>1, <1>1, <1>3 DEF FirstInv, server, client
<1> QED
  BY <1>4, <1>5, <1>6, <1>7, <1>8, <1>9, <1>10, <1>11 DEF Next, Cycle, Progress

\* For every frame size, buffer and set of faults: swapping the two halves of outBuffer,
\* and sending one of them in as many parts as it takes, loses, repeats and reorders
\* nothing.
THEOREM SamplesInOrder == Spec => InOrder
<1> DEFINE Inv == TypeOK /\ Ways /\ FirstInv
           Order == first /\ got' # got /\ got' # Nothing
                      => got' = (IF got = Nothing THEN 1 ELSE got + 1) % Serials
<1>1. Init => Inv
  BY InitType, InitWays, InitFirst
<1>2. Inv /\ [Next]_vars => Inv'
  BY StepType, StepWays, StepFirst
<1>3. ASSUME Inv, [Next]_vars PROVE [Order]_vars
  <2> SUFFICES ASSUME first, got' # got, got' # Nothing
               PROVE  got' = (IF got = Nothing THEN 1 ELSE got + 1) % Serials
    OBVIOUS
  <2>1. CASE ClientReceives
    <3>1. got' = (Last + 1) % Serials
      BY <2>1, <1>3, FirstReads
    <3>2. CASE got = Nothing
      <4>1. Last + 1 = 1
        BY <3>2 DEF Last
      <4> QED
        BY <4>1, <3>1, <3>2
    <3>3. CASE got # Nothing
      BY <3>1, <3>3 DEF Last
    <3> QED
      BY <3>2, <3>3
  <2>2. CASE Connect \/ ClientLeaves
    BY <2>2 DEF Connect, ClientLeaves
  <2>3. ASSUME NEW c \in Commands, SendCommand(c) PROVE FALSE
    BY <2>3 DEF SendCommand
  <2>4. CASE Cycle
    <3>1. UNCHANGED client
      BY <2>4 DEF Cycle, Progress, Deinit, InitStep, Receive, SyncEnds, WriteAll, WritePart,
        CloseStep, Wait, InitError, CloseError, CycleOnly
    <3> QED
      BY <3>1 DEF client
  <2>5. CASE UNCHANGED vars
    BY <2>5 DEF vars, client
  <2> QED
    BY <1>3, <2>1, <2>2, <2>3, <2>4, <2>5 DEF Next
<1> QED
  BY <1>1, <1>2, <1>3, PTL DEF Spec, InOrder

-----------------------------------------------------------------------------
(* The first connection is a queue of samples.                             *)

\* The first units of frames after one another give back the frames.
FramesOf(s) == [i \in 1..(Len(s) \div FrameLen) |-> s[FrameLen * (i - 1) + 1][1]]

LEMMA FramesOfUnits == ASSUME NEW fs \in Seq(Frames) PROVE FramesOf(Units(fs)) = fs
<1> DEFINE n == Len(fs)
           u == Units(fs)
           gs == [i \in 1..n |-> u[FrameLen * (i - 1) + 1][1]]
<1>1. /\ n \in Nat /\ Len(u) = FrameLen * n
      /\ \A q \in 0..(n - 1), r \in Positions : u[FrameLen * q + r + 1] = <<fs[q + 1], r>>
      /\ \A i \in 1..n : fs[i] \in Frames
  BY UnitsShape, LenProperties, ElementOfSeq
<1> HIDE DEF n, u
<1>2. (FrameLen * n) \div FrameLen = n
  <2>1. 0 \in 0..(FrameLen - 1) /\ n \in Int
    BY <1>1, Size
  <2>2. (FrameLen * n + 0) \div FrameLen = n
    BY <2>1, DivMod, Size
  <2> QED
    BY <2>2, <1>1, Size
<1>3. FramesOf(u) = gs
  BY <1>1, <1>2 DEF FramesOf
<1>4. \A i \in 1..n : u[FrameLen * (i - 1) + 1][1] = fs[i]
  <2> TAKE i \in 1..n
  <2> DEFINE q == i - 1
  <2>1. q \in 0..(n - 1) /\ q + 1 = i /\ 0 \in Positions
    BY <1>1, Size DEF Positions
  <2>2. FrameLen * q + 0 + 1 = FrameLen * q + 1
    BY <2>1, Size
  <2> HIDE DEF q
  <2>3. u[FrameLen * q + 0 + 1] = <<fs[q + 1], 0>>
    BY <2>1, <1>1
  <2>4. u[FrameLen * q + 1][1] = fs[i]
    BY <2>1, <2>2, <2>3
  <2> QED
    BY <2>4 DEF q
<1>5. gs \in [1..n -> Frames] /\ \A i \in 1..n : gs[i] = fs[i]
  <2> DEFINE id(i) == u[FrameLen * (i - 1) + 1][1]
  <2>1. \A i \in 1..n : id(i) = fs[i] /\ id(i) \in Frames
    BY <1>1, <1>4
  <2> HIDE DEF id
  <2>2. [i \in 1..n |-> id(i)] \in [1..n -> Frames] /\ \A i \in 1..n : [k \in 1..n |-> id(k)][i] = fs[i]
    BY <2>1
  <2> QED
    BY <2>2 DEF id
<1> HIDE DEF gs
<1>6. gs = fs
  <2>1. gs \in Seq(Frames) /\ Len(gs) = n
    BY <1>1, <1>5
  <2> QED
    BY <2>1, <1>5, SeqEqual DEF n
<1> QED
  BY <1>3, <1>6 DEF u

LEMMA UndeliveredIs ==
  /\ Undelivered = FramesOf(Stream)
  /\ Undelivered' = FramesOf(Stream')
BY DEF Undelivered, FramesOf, Stream, Cat

\* What a cycle queues is what one Put puts into the queue.
LEMMA GrowsPuts ==
  ASSUME TypeOK, Numbered(Stream, Last, serial), Grows, got' = got
  PROVE  /\ Last' = Last
         /\ \/ Undelivered' = Undelivered /\ serial' = serial
            \/ \E n \in 1..2 :
                 /\ Undelivered' = Undelivered \o [k \in 1..n |-> (serial + k) % Serials]
                 /\ serial' = (serial + n) % Serials
<1>1. PICK new \in Seq(Frames) :
        /\ Len(new) <= 2
        /\ \A i \in 1..Len(new) : new[i] = (serial + i) % Serials
        /\ serial' = (serial + Len(new)) % Serials
        /\ Stream' = Cat(Stream, Units(new))
  BY DEF Grows
<1>2. PICK fs \in Seq(Frames) : Stream = Units(fs)
  BY DEF Numbered
<1>3. Undelivered = fs
  BY <1>2, FramesOfUnits, UndeliveredIs, Zenon
<1>4. Undelivered' = Cat(fs, new)
  <2>1. Cat(fs, new) \in Seq(Frames)
    BY CatType
  <2>2. Stream' = Units(Cat(fs, new))
    BY <1>1, <1>2, CatUnits
  <2> QED
    BY <2>1, <2>2, FramesOfUnits, UndeliveredIs, Zenon
<1> DEFINE n == Len(new)
<1>5. n \in 0..2
  <2>1. n \in Nat
    BY LenProperties
  <2>2. n <= 2
    BY <1>1
  <2> HIDE DEF n
  <2> QED
    BY <2>1, <2>2
<1>6. CASE n = 0
  <2>1. new = <<>>
    BY <1>6, EmptySeq
  <2>2. Undelivered' = Undelivered
    BY <2>1, <1>3, <1>4 DEF Cat
  <2>3. serial' = (serial + 0) % Serials /\ serial \in 0..(Serials - 1)
    BY <1>1, <1>6 DEF TypeOK, Frames
  <2>4. serial' = serial
    BY <2>3, Size
  <2> QED
    BY <2>2, <2>4 DEF Last
<1>7. CASE n \in 1..2
  <2> DEFINE put == [k \in 1..n |-> (serial + k) % Serials]
  <2>1. \A k \in 1..n : new[k] \in Frames /\ new[k] = (serial + k) % Serials
    BY <1>1, ElementOfSeq
  <2>2. put \in Seq(Frames) /\ Len(put) = n /\ \A k \in 1..n : put[k] = new[k]
    BY <1>5, <2>1
  <2> HIDE DEF put
  <2>3. put = new
    BY <2>2, SeqEqual
  <2>4. Undelivered' = Undelivered \o [k \in 1..n |-> (serial + k) % Serials]
    BY <2>3, <1>3, <1>4 DEF Cat, put
  <2> QED
    BY <2>4, <1>1, <1>7 DEF Last
<1> QED
  BY <1>5, <1>6, <1>7

\* What the Receiver hands on is the head of the queue.
LEMMA ReadTakes ==
  ASSUME TypeOK, FirstInv, first, ClientReceives
  PROVE  /\ serial' = serial
         /\ \/ Undelivered' = Undelivered /\ Last' = Last
            \/ /\ Undelivered # <<>>
               /\ Last' = Head(Undelivered)
               /\ Undelivered' = Tail(Undelivered)
<1>1. link = "up" /\ UNCHANGED <<server, plant>>
  BY DEF ClientReceives
<1> DEFINE w == Cat(Pending, Units(outBuf[1 - cur]))
<1>2. Stream = Cat(data, Cat(toGui, w)) /\ Stream' = Cat(data', Cat(toGui', w))
  BY <1>1 DEF Stream, Pending, server, plant
<1>3. w \in Way
  <2>1. 1 - cur \in {0, 1}
    BY DEF TypeOK
  <2> QED
    BY <2>1, WayTypes, WayLaws
<1> HIDE DEF w
<1>4. PICK fs \in Seq(Frames) : Stream = Units(fs)
  BY <1>1 DEF FirstInv, Numbered
<1>5. \/ got' = got /\ Stream' = Units(fs)
      \/ fs # <<>> /\ got' = fs[1] /\ Stream' = Units(Tail(fs))
  BY <1>2, <1>3, <1>4, Reading
<1>6. Undelivered = fs /\ serial' = serial
  BY <1>1, <1>4, FramesOfUnits, UndeliveredIs DEF plant
<1>7. CASE got' = got /\ Stream' = Units(fs)
  <2>1. Undelivered' = fs
    BY <1>7, FramesOfUnits, UndeliveredIs, Zenon
  <2> QED
    BY <2>1, <1>6, <1>7 DEF Last
<1>8. CASE fs # <<>> /\ got' = fs[1] /\ Stream' = Units(Tail(fs))
  <2>1. fs[1] \in Frames /\ Tail(fs) \in Seq(Frames)
    BY <1>8, UnitsCons
  <2>2. Undelivered' = Tail(fs)
    BY <2>1, <1>8, FramesOfUnits, UndeliveredIs, Zenon
  <2>3. Last' = fs[1]
    <3>1. fs[1] # Nothing
      BY <2>1, Size DEF Frames, Nothing
    <3> QED
      BY <3>1, <1>8 DEF Last
  <2>4. Head(fs) = fs[1]
    OBVIOUS
  <2> QED
    BY <2>2, <2>3, <2>4, <1>6, <1>8
<1> QED
  BY <1>5, <1>7, <1>8

\* For every frame size, buffer and set of faults: every step of the PLC and its client
\* puts the samples of a cycle into the queue, takes its head, ends the connection, or
\* is one that the queue does not see.
THEOREM ServerImplementsQueue == Spec => ImplementsQueue
<1> DEFINE Inv == TypeOK /\ Ways /\ FirstInv
<1>1. Init => Inv
  BY InitType, InitWays, InitFirst
<1>2. Inv /\ [Next]_vars => Inv'
  BY StepType, StepWays, StepFirst
<1>3. Init => Samples!Init
  <2> SUFFICES ASSUME Init PROVE Samples!Init
    OBVIOUS
  <2>1. first /\ link = "none" /\ got = Nothing /\ serial = 0 /\ data = <<>> /\ toGui = <<>>
        /\ rest = <<>> /\ cur = 0 /\ outBuf[0] = <<>> /\ outBuf[1] = <<>>
    BY DEF Init
  <2>2. Stream = Units(<<>>)
    BY <2>1, UnitsEmpty, WayLaws DEF Stream, Pending
  <2>3. <<>> \in Seq(Frames)
    OBVIOUS
  <2>4. Undelivered = <<>>
    BY <2>2, <2>3, FramesOfUnits, UndeliveredIs, Zenon
  <2>5. FirstOpen = TRUE /\ Last = 0
    BY <2>1 DEF FirstOpen, Last
  <2> QED
    BY <2>1, <2>4, <2>5 DEF Samples!Init
<1>4. Inv /\ [Next]_vars => [Samples!Next]_Samples!queueVars
  <2> SUFFICES ASSUME Inv, [Next]_vars PROVE [Samples!Next]_Samples!queueVars
    OBVIOUS
  <2>1. FirstOpen \in BOOLEAN /\ FirstOpen' \in BOOLEAN /\ (FirstOpen' => FirstOpen)
    BY StaysLost DEF FirstOpen, TypeOK
  <2>2. CASE ~FirstOpen
    <3>1. FirstOpen = FALSE /\ FirstOpen' = FALSE
      BY <2>1, <2>2
    <3> QED
      BY <3>1 DEF Samples!queueVars
  <2>3. CASE FirstOpen /\ ~FirstOpen'
    <3>1. FirstOpen = TRUE /\ FirstOpen' = FALSE
      BY <2>1, <2>3
    <3> QED
      BY <3>1 DEF Samples!End, Samples!Next
  <2>4. CASE FirstOpen /\ FirstOpen'
    <3>1. first /\ first' /\ link' # "lost" /\ Numbered(Stream, Last, serial)
      BY <2>4 DEF FirstOpen, FirstInv
    <3>2. FirstOpen = TRUE /\ FirstOpen' = TRUE
      BY <2>1, <2>4
    <3>3. CASE UNCHANGED <<Undelivered, serial, Last>>
      BY <3>2, <3>3 DEF Samples!queueVars
    <3>4. ASSUME NEW n \in 1..2, Last' = Last, serial' = (serial + n) % Serials,
                 Undelivered' = Undelivered \o [k \in 1..n |-> (serial + k) % Serials]
          PROVE  Samples!Next
      <4>1. Samples!Put(n)
        BY <3>2, <3>4 DEF Samples!Put
      <4> QED
        BY <4>1 DEF Samples!Next
    <3>5. CASE /\ Undelivered # <<>> /\ serial' = serial
               /\ Last' = Head(Undelivered) /\ Undelivered' = Tail(Undelivered)
      BY <3>2, <3>5 DEF Samples!Take, Samples!Next
    <3>6. CASE Grows /\ got' = got
      BY <3>1, <3>3, <3>4, <3>6, GrowsPuts
    <3>7. CASE ClientReceives
      BY <3>1, <3>3, <3>5, <3>7, ReadTakes
    <3>8. CASE Stream' = Stream /\ Last' = Last /\ serial' = serial
      BY <3>3, <3>8, UndeliveredIs
    <3> QED
      BY <3>1, <3>6, <3>7, <3>8, Moves
  <2> QED
    BY <2>2, <2>3, <2>4
<1> QED
  BY <1>1, <1>2, <1>3, <1>4, PTL DEF Spec, ImplementsQueue, Samples!Spec

-----------------------------------------------------------------------------
(* The commands.                                                           *)

\* The commands on their way, and what they leave of the command that was given last:
\* it is the last of them that concerns the activation, or has been done.
Tells(cs, i) == i \in 1..Len(cs) /\ cs[i] # "param"
Told(cs) ==
  \/ /\ \A i \in 1..Len(cs) : ~Tells(cs, i)
     /\ asked # "param" => active = (asked # "stop")
  \/ \E i \in 1..Len(cs) :
       /\ Tells(cs, i) /\ cs[i] = asked
       /\ \A j \in 1..Len(cs) : Tells(cs, j) => j <= i
RigInv == link = "up" => \E cs \in Seq(Commands) : toRig = Units(cs) /\ Told(cs)

\* The bytes of a frame among the units of several.
LEMMA Piece ==
  ASSUME NEW X, NEW cs \in Seq(X), NEW k \in 1..Len(cs)
  PROVE  SubSeq(Units(cs), FrameLen * (k - 1) + 1, FrameLen * k) = Units(<<cs[k]>>)
<1> DEFINE n == Len(cs)
           u == Units(cs)
           Y == X \X Positions
           a == FrameLen * (k - 1)
           v == Units(<<cs[k]>>)
<1>1. n \in Nat /\ k \in Nat /\ cs[k] \in X /\ k - 1 \in 0..(n - 1)
  BY LenProperties, ElementOfSeq
<1>2. /\ u \in Seq(Y) /\ Len(u) = FrameLen * n
      /\ \A q \in 0..(n - 1), r \in Positions : u[FrameLen * q + r + 1] = <<cs[q + 1], r>>
  BY UnitsShape
<1>3. /\ v \in Seq(Y) /\ Len(v) = FrameLen
      /\ \A r \in Positions : v[r + 1] = <<cs[k], r>>
  <2> DEFINE fs == <<cs[k]>>
  <2>1. fs \in Seq(X) /\ Len(fs) = 1 /\ fs[1] = cs[k]
    BY <1>1
  <2> HIDE DEF fs
  <2>2. /\ Units(fs) \in Seq(Y) /\ Len(Units(fs)) = FrameLen * Len(fs)
        /\ \A q \in 0..(Len(fs) - 1), r \in Positions : Units(fs)[FrameLen * q + r + 1] = <<fs[q + 1], r>>
    BY <2>1, UnitsShape
  <2>3. Len(Units(fs)) = FrameLen
    BY <2>1, <2>2, Size
  <2>4. ASSUME NEW r \in Positions PROVE Units(fs)[r + 1] = <<fs[1], r>>
    <3>1. 0 \in 0..(Len(fs) - 1) /\ FrameLen * 0 + r + 1 = r + 1 /\ 0 + 1 = 1
      BY <2>1, Size DEF Positions
    <3> QED
      BY <3>1, <2>2
  <2> QED
    BY <2>1, <2>2, <2>3, <2>4 DEF fs
<1>4. a \in Nat /\ FrameLen * k = a + FrameLen /\ FrameLen * k <= FrameLen * n
      /\ FrameLen * n \in Nat
  <2>1. FrameLen * (k - 1) = FrameLen * k - FrameLen /\ FrameLen * k \in Nat
    BY <1>1, Size
  <2>2. FrameLen * k <= FrameLen * n
    BY <1>1, Size
  <2>3. FrameLen * (k - 1) \in Nat
    BY <1>1, Size
  <2> QED
    BY <2>1, <2>2, <2>3, <1>1, Size
<1> DEFINE e == a + FrameLen
           w == SubSeq(u, a + 1, e)
<1> HIDE DEF u, v, n, Y
<1>5. \A r \in Positions : u[a + r + 1] = <<cs[k], r>>
  <2> TAKE r \in Positions
  <2>1. u[FrameLen * (k - 1) + r + 1] = <<cs[(k - 1) + 1], r>>
    BY <1>1, <1>2
  <2>2. (k - 1) + 1 = k
    BY <1>1
  <2> QED
    BY <2>1, <2>2
<1> HIDE DEF a
<1>6. /\ w \in Seq(Y) /\ Len(w) = FrameLen /\ \A i \in 1..FrameLen : w[i] = u[a + i]
  <2>1. \A i \in (a + 1)..e : u[i] \in Y
    <3>1. \A i \in (a + 1)..e : i \in 1..Len(u)
      BY <1>2, <1>4, Size
    <3> QED
      BY <3>1, <1>2, ElementOfSeq
  <2>2. e \in Int /\ a + 1 \in Int /\ a + 1 <= e /\ e - (a + 1) + 1 = FrameLen
    BY <1>4, Size
  <2>3. /\ w \in Seq(Y) /\ Len(w) = IF a + 1 <= e THEN e - (a + 1) + 1 ELSE 0
        /\ \A i \in 1..(e - (a + 1) + 1) : w[i] = u[(a + 1) + i - 1]
    <3> HIDE DEF e
    <3> QED
      BY <2>1, <2>2, SubSeqProperties
  <2>4. \A i \in 1..FrameLen : (a + 1) + i - 1 = a + i
    BY <1>4
  <2> HIDE DEF w, e
  <2> QED
    BY <2>2, <2>3, <2>4
<1> HIDE DEF w
<1>7. ASSUME NEW i \in 1..FrameLen PROVE w[i] = v[i]
  <2> DEFINE r == i - 1
  <2>1. r \in Positions /\ r + 1 = i /\ a + r + 1 = a + i
    BY <1>4, Size DEF Positions
  <2> HIDE DEF r
  <2> QED
    BY <2>1, <1>3, <1>5, <1>6
<1>8. w = v
  BY <1>3, <1>6, <1>7, SeqEqual, Size
<1> QED
  BY <1>4, <1>8 DEF w, v, u, a

\* The rig that handles all of the commands on their way does what was told last.
LEMMA HandlesAll ==
  ASSUME NEW cs \in Seq(Commands), Told(cs), NEW a \in Handled(Units(cs)), asked # "param"
  PROVE  a = (asked # "stop")
<1> DEFINE u == Units(cs)
           m == Len(cs)
           n == (Len(u) + FrameLen - 1) \div FrameLen
           Chunk(k) == SubSeq(u, FrameLen * (k - 1) + 1,
                              IF k = n THEN Len(u) ELSE FrameLen * k)
           About == {k \in 1..n : ~IsFrame(Chunk(k)) \/ Chunk(k)[1][1] # "param"}
           last == CHOOSE k \in About : \A j \in About : j <= k
<1>1. a \in IF About = {} THEN {active}
            ELSE IF IsFrame(Chunk(last)) THEN {Obey(Chunk(last)[1][1])}
            ELSE BOOLEAN
  BY Zenon DEF Handled
<1>2. m \in Nat /\ Len(u) = FrameLen * m
  BY LenProperties, UnitsShape
<1> HIDE DEF u, m
<1>3. n = m
  <2>1. Len(u) + FrameLen - 1 = FrameLen * m + (FrameLen - 1) /\ FrameLen * m \in Nat
    BY <1>2, Size
  <2>2. FrameLen - 1 \in 0..(FrameLen - 1)
    BY Size
  <2>3. (FrameLen * m + (FrameLen - 1)) \div FrameLen = m
    BY <1>2, <2>2, DivMod, Size
  <2> QED
    BY <2>1, <2>3, Zenon
<1> HIDE DEF n
<1>4. ASSUME NEW k \in 1..m
      PROVE  IsFrame(Chunk(k)) /\ Chunk(k)[1][1] = cs[k]
  <2>1. (IF k = n THEN Len(u) ELSE FrameLen * k) = FrameLen * k
    BY <1>2, <1>3
  <2>2. Chunk(k) = SubSeq(u, FrameLen * (k - 1) + 1, FrameLen * k)
    BY <2>1, Zenon
  <2>3. Chunk(k) = Units(<<cs[k]>>)
    <3>1. SubSeq(Units(cs), FrameLen * (k - 1) + 1, FrameLen * k) = Units(<<cs[k]>>)
      BY Piece DEF m
    <3> QED
      BY <2>2, <3>1, Zenon DEF u
  <2>4. cs[k] \in Commands
    BY ElementOfSeq DEF m
  <2>5. IsFrame(Units(<<cs[k]>>)) /\ Units(<<cs[k]>>)[1][1] = cs[k]
    BY <2>4, FrameIs
  <2> QED
    BY <2>3, <2>5, Zenon
<1> HIDE DEF Chunk
<1>5. About = {k \in 1..m : Tells(cs, k)}
  BY <1>3, <1>4 DEF Tells, m
<1> HIDE DEF About
<1>6. CASE \A i \in 1..m : ~Tells(cs, i)
  <2>1. About = {}
    BY <1>5, <1>6
  <2>2. a = active
    BY <1>1, <2>1
  <2>3. ~\E i \in 1..Len(cs) : Tells(cs, i)
    BY <1>6 DEF m
  <2>4. active = (asked # "stop")
    BY <2>3, Zenon DEF Told
  <2> QED
    BY <2>2, <2>4, Zenon
<1>7. CASE ~\A i \in 1..m : ~Tells(cs, i)
  <2>1. PICK i \in 1..m : /\ Tells(cs, i) /\ cs[i] = asked
                          /\ \A j \in 1..m : Tells(cs, j) => j <= i
    BY <1>7, Zenon DEF Told, m
  <2>2. i \in About /\ \A j \in About : j <= i
    BY <2>1, <1>5
  <2>3. last \in About /\ \A j \in About : j <= last
    BY <2>2, Zenon
  <2> HIDE DEF last
  <2>4. last \in 1..m /\ last <= i /\ i <= last
    BY <2>2, <2>3, <1>5
  <2>5. last = i
    BY <2>4, <1>2
  <2>6. IsFrame(Chunk(i)) /\ Chunk(i)[1][1] = asked
    BY <2>1, <1>4
  <2>7. a = Obey(asked)
    <3>1. About # {} /\ IsFrame(Chunk(last)) /\ Chunk(last)[1][1] = asked
      BY <2>2, <2>5, <2>6, Zenon
    <3>2. a \in {Obey(Chunk(last)[1][1])}
      BY <1>1, <3>1, Zenon
    <3> QED
      BY <3>1, <3>2, Zenon
  <2> QED
    BY <2>7 DEF Obey
<1> QED
  BY <1>6, <1>7

\* A command that is added comes after those on their way.
LEMMA ToldMore ==
  ASSUME NEW cs \in Seq(Commands), Told(cs), NEW c \in Commands,
         asked' = (IF c = "param" THEN asked ELSE c), active' = active
  PROVE  /\ Cat(cs, <<c>>) \in Seq(Commands)
         /\ Units(Cat(cs, <<c>>)) = Cat(Units(cs), Units(<<c>>))
         /\ Told(Cat(cs, <<c>>))'
<1> DEFINE ds == Cat(cs, <<c>>)
           n == Len(cs)
<1>1. n \in Nat /\ <<c>> \in Seq(Commands)
  BY LenProperties
<1>2. ds \in Seq(Commands) /\ Units(ds) = Cat(Units(cs), Units(<<c>>))
  BY <1>1, CatUnits
<1>3. Len(ds) = n + 1 /\ ds[n + 1] = c /\ \A i \in 1..n : ds[i] = cs[i]
  BY <1>1 DEF Cat
<1> HIDE DEF ds
<1>4. \A i \in 1..n : Tells(ds, i) = Tells(cs, i) /\ ds[i] = cs[i]
  BY <1>1, <1>3 DEF Tells
<1>5. Tells(ds, n + 1) = (c # "param")
  BY <1>1, <1>3 DEF Tells
<1>6. CASE c = "param"
  <2>1. asked' = asked /\ ~Tells(ds, n + 1)
    BY <1>5, <1>6
  <2>2. CASE \A i \in 1..n : ~Tells(cs, i)
    <3>1. \A i \in 1..Len(ds) : ~Tells(ds, i)
      BY <1>1, <1>3, <1>4, <2>1, <2>2
    <3>2. ~\E i \in 1..Len(cs) : Tells(cs, i)
      BY <2>2
    <3>3. asked' # "param" => active' = (asked' # "stop")
      BY <2>1, <3>2, Zenon DEF Told
    <3> QED
      BY <1>2, <3>1, <3>3 DEF Told, ds, Tells
  <2>3. CASE ~\A i \in 1..n : ~Tells(cs, i)
    <3>1. PICK i \in 1..n : /\ Tells(cs, i) /\ cs[i] = asked
                            /\ \A j \in 1..n : Tells(cs, j) => j <= i
      BY <2>3, Zenon DEF Told
    <3>2. i \in 1..Len(ds) /\ Tells(ds, i) /\ ds[i] = asked'
      BY <3>1, <1>1, <1>3, <1>4, <2>1
    <3>3. \A j \in 1..Len(ds) : Tells(ds, j) => j <= i
      BY <3>1, <1>1, <1>3, <1>4, <2>1
    <3> QED
      BY <1>2, <3>2, <3>3 DEF Told, ds, Tells
  <2> QED
    BY <2>2, <2>3
<1>7. CASE c # "param"
  <2>1. n + 1 \in 1..Len(ds) /\ Tells(ds, n + 1) /\ ds[n + 1] = asked'
    <3>1. n + 1 \in 1..Len(ds)
      BY <1>1, <1>3
    <3>2. Tells(ds, n + 1) /\ asked' = c
      BY <1>5, <1>7, Zenon
    <3> QED
      BY <3>1, <3>2, <1>3, Zenon
  <2>2. \A j \in 1..Len(ds) : j <= n + 1
    BY <1>1, <1>3
  <2> QED
    BY <1>2, <2>1, <2>2 DEF Told, ds, Tells
<1> QED
  BY <1>6, <1>7

LEMMA InitRig == Init => RigInv
BY DEF Init, RigInv

\* The rig reads all that has arrived, when the network does not hold back a part.
LEMMA StepRig ==
  ASSUME "segment" \notin Faults
  PROVE  TypeOK /\ Ways /\ RigInv /\ [Next]_vars => RigInv'
<1> SUFFICES ASSUME TypeOK, Ways, RigInv, [Next]_vars, link' = "up"
             PROVE  \E cs \in Seq(Commands) : toRig' = Units(cs) /\ Told(cs)'
  BY DEF RigInv, Told, Tells
<1>1. ASSUME link = "up", toRig' = toRig, asked' = asked, active' = active
      PROVE  \E cs \in Seq(Commands) : toRig' = Units(cs) /\ Told(cs)'
  <2>1. PICK cs \in Seq(Commands) : toRig = Units(cs) /\ Told(cs)
    BY <1>1 DEF RigInv
  <2>2. Told(cs)'
    BY <1>1, <2>1, Zenon DEF Told, Tells
  <2> QED
    BY <1>1, <2>1, <2>2
<1>2. ASSUME toRig' = <<>>, asked' # "param" => active' = (asked' # "stop")
      PROVE  \E cs \in Seq(Commands) : toRig' = Units(cs) /\ Told(cs)'
  <2> DEFINE cs == <<>>
  <2>1. cs \in Seq(Commands) /\ Units(cs) = <<>> /\ \A i \in 1..Len(cs) : FALSE
    BY UnitsEmpty
  <2> HIDE DEF cs
  <2>2. Told(cs)'
    BY <2>1, <1>2, Zenon DEF Told
  <2> QED
    BY <2>1, <2>2, <1>2
<1>3. CASE Receive
  <2>1. PICK k \in 0..Len(toRig) :
          /\ k < Len(toRig) => "segment" \in Faults
          /\ active' \in Handled(Upto(toRig, k)) /\ toRig' = From(toRig, k)
    BY <1>3 DEF Receive
  <2>2. UNCHANGED <<link, client>>
    BY <1>3 DEF Receive
  <2>3. PICK cs \in Seq(Commands) : toRig = Units(cs) /\ Told(cs)
    BY <2>2 DEF RigInv
  <2>4. toRig \in Seq(UnitsOf(Commands)) /\ Len(toRig) \in Nat
    BY LenProperties DEF TypeOK
  <2>5. k = Len(toRig) /\ k \in 0..Len(toRig)
    BY <2>1, <2>4
  <2>6. Upto(toRig, k) = toRig /\ toRig' = <<>>
    <3>1. Len(From(toRig, k)) = 0 /\ From(toRig, k) \in Seq(UnitsOf(Commands))
          /\ Upto(toRig, k) \in Seq(UnitsOf(Commands))
      BY <2>4, <2>5, Parts
    <3>2. From(toRig, k) = <<>>
      BY <3>1, EmptySeq
    <3>3. Cat(Upto(toRig, k), From(toRig, k)) = toRig
      BY <2>4, <2>5, CatParts
    <3>4. Cat(Upto(toRig, k), <<>>) = Upto(toRig, k)
      BY <3>1, CatType
    <3> QED
      BY <2>1, <3>2, <3>3, <3>4, Zenon
  <2>7. active' \in Handled(Units(cs))
    BY <2>1, <2>3, <2>6, Zenon
  <2>8. asked' = asked
    BY <2>2 DEF client
  <2>9. asked # "param" => active' = (asked # "stop")
    BY <2>3, <2>7, HandlesAll
  <2>10. asked' # "param" => active' = (asked' # "stop")
    BY <2>8, <2>9, Zenon
  <2> QED
    BY <2>6, <2>10, <1>2
<1>4. CASE \/ Deinit \/ InitStep \/ InitError \/ SyncEnds \/ CloseError \/ CycleOnly
           \/ WriteAll \/ WritePart \/ Wait
  <2>1. UNCHANGED <<link, toRig, active, client>>
    BY <1>4 DEF Deinit, InitStep, InitError, SyncEnds, CloseError, CycleOnly,
      WriteAll, WritePart, Wait, wire
  <2> QED
    BY <2>1, <1>1 DEF client
<1>5. CASE CloseStep
  <2>1. /\ mainState = 10 /\ tcpStep \in {0, 1}
        /\ link' = IF tcpStep = 1 THEN link ELSE IF link = "up" THEN "lost" ELSE "none"
    BY <1>5 DEF CloseStep
  <2>2. CASE tcpStep = 0
    BY <2>1, <2>2
  <2>3. CASE tcpStep = 1
    BY <2>1, <2>3 DEF Ways
  <2> QED
    BY <2>1, <2>2, <2>3
<1>6. CASE Connect
  <2>1. asked' = "param" /\ toRig' = toRig /\ link = "none"
    BY <1>6 DEF Connect, wire
  <2> QED
    BY <2>1, <1>2 DEF Ways
<1>7. ASSUME NEW c \in Commands, SendCommand(c)
      PROVE  \E cs \in Seq(Commands) : toRig' = Units(cs) /\ Told(cs)'
  <2>1. /\ link = "up" /\ UNCHANGED plant
        /\ toRig' = Cat(toRig, Units(<<c>>))
        /\ asked' = IF c = "param" THEN asked ELSE c
    BY <1>7 DEF SendCommand, Cat
  <2>2. active' = active
    BY <2>1 DEF plant
  <2>3. PICK cs \in Seq(Commands) : toRig = Units(cs) /\ Told(cs)
    BY <2>1 DEF RigInv
  <2>4. /\ Cat(cs, <<c>>) \in Seq(Commands)
        /\ Units(Cat(cs, <<c>>)) = Cat(Units(cs), Units(<<c>>))
        /\ Told(Cat(cs, <<c>>))'
    BY <2>1, <2>2, <2>3, ToldMore
  <2> QED
    BY <2>1, <2>3, <2>4, Zenon
<1>8. CASE ClientReceives
  BY <1>8, <1>1 DEF ClientReceives, plant
<1>9. CASE ClientLeaves
  BY <1>9 DEF ClientLeaves
<1>10. CASE UNCHANGED vars
  <2>1. UNCHANGED <<link, wire, plant, client>>
    BY <1>10 DEF vars
  <2> QED
    BY <2>1, <1>1 DEF wire, plant, client
<1> QED
  BY <1>3, <1>4, <1>5, <1>6, <1>7, <1>8, <1>9, <1>10 DEF Next, Cycle, Progress

LEMMA EmptyRig == TypeOK /\ RigInv => RigAgrees
<1> SUFFICES ASSUME TypeOK, RigInv, link = "up", toRig = <<>>, asked # "param"
             PROVE  active = (asked # "stop")
  BY Zenon DEF RigAgrees
<1>1. PICK cs \in Seq(Commands) : <<>> = Units(cs) /\ Told(cs)
  BY DEF RigInv
<1>2. Len(Units(cs)) = FrameLen * Len(cs) /\ Len(cs) \in Nat
  BY UnitsShape, LenProperties
<1>3. Len(Units(cs)) = 0
  BY <1>1, EmptySeq
<1>4. Len(cs) = 0
  <2> DEFINE n == Len(cs)
  <2>1. n \in Nat /\ FrameLen * n = 0
    BY <1>2, <1>3, Zenon
  <2> HIDE DEF n
  <2>2. n >= 1 => FrameLen * 1 <= FrameLen * n
    BY <2>1, Size
  <2>3. n = 0
    BY <2>1, <2>2, Size
  <2> QED
    BY <2>3 DEF n
<1>5. ~\E i \in 1..Len(cs) : Tells(cs, i)
  BY <1>4
<1> QED
  BY <1>1, <1>5, Zenon DEF Told

\* Where the rig finds what has arrived in one piece - the one fault of the network
\* that is excluded - it does what it was told last, in addition to what FramesArrive
\* says, in every connection and for every choice of the other faults.
THEOREM RigObeys ==
  ASSUME "segment" \notin Faults
  PROVE  Spec => []ServerInv
<1> DEFINE Inv == TypeOK /\ Ways /\ ChunkInv /\ RigInv
<1>1. Init => Inv
  BY InitType, InitWays, InitChunk, InitRig
<1>2. Inv /\ [Next]_vars => Inv'
  BY StepType, StepWays, StepChunk, StepRig
<1>3. Inv => ServerInv
  BY EmptyRig DEF ServerInv, ChunkInv, ChunksAreFrames
<1> QED
  BY <1>1, <1>2, <1>3, PTL DEF Spec
=============================================================================

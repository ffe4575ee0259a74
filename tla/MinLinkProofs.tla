---------------------------- MODULE MinLinkProofs ----------------------------
(* Theorems about MinLink, for all frames, checksums and faults.           *)
EXTENDS MinLink, SequenceTheorems, TLAPS

-----------------------------------------------------------------------------
(* The body of a frame.                                                    *)

LEMMA ByteNat ==
  /\ \A b \in Byte : b \in Nat
  /\ \A b \in Nat : b < 256 => b \in Byte
BY DEF Byte

LEMMA FrameType ==
  ASSUME NEW f \in Frames
  PROVE  /\ f \in Frame /\ f.id \in Byte /\ f.id < 64
         /\ f.pld \in Seq(Byte) /\ Len(f.pld) \in Byte
         /\ Crc(f) \in Seq(Byte) /\ Len(Crc(f)) = 4
<1>1. f.pld \in Seq(Byte) /\ Len(f.pld) < 256
  BY FrameAssumption DEF Frame
<1>2. Len(f.pld) \in Nat
  BY <1>1, LenProperties
<1>3. Len(f.pld) \in Byte
  BY <1>1, <1>2, ByteNat
<1> QED
  BY <1>1, <1>3, FrameAssumption DEF Frame

LEMMA BodyParts ==
  ASSUME NEW f \in Frames
  PROVE  /\ Body(f) \in Seq(Byte)
         /\ Len(Body(f)) = Len(f.pld) + 6
         /\ Body(f)[1] = f.id
         /\ Body(f)[2] = Len(f.pld)
         /\ \A j \in 1..Len(f.pld) : Body(f)[j + 2] = f.pld[j]
         /\ \A j \in 1..4 : Body(f)[Len(f.pld) + 2 + j] = Crc(f)[j]
<1> DEFINE h == <<f.id, Len(f.pld)>>
           p == f.pld
           c == Crc(f)
<1>1. /\ h \in Seq(Byte) /\ Len(h) = 2
      /\ h[1] = f.id /\ h[2] = Len(f.pld)
  BY FrameType
<1>2. p \in Seq(Byte) /\ c \in Seq(Byte) /\ Len(c) = 4 /\ Len(p) \in Nat
  BY FrameType, ByteNat
<1> HIDE DEF h, p, c
<1> DEFINE hp == h \o p
<1>3. /\ hp \in Seq(Byte) /\ Len(hp) = Len(p) + 2
      /\ \A i \in 1 .. 2 + Len(p) : hp[i] = IF i <= 2 THEN h[i] ELSE p[i - 2]
  <2>1. /\ hp \in Seq(Byte) /\ Len(hp) = Len(h) + Len(p)
        /\ \A i \in 1 .. Len(h) + Len(p) :
             hp[i] = IF i <= Len(h) THEN h[i] ELSE p[i - Len(h)]
    <3>1. h \in Seq(Byte) /\ p \in Seq(Byte)
      BY <1>1, <1>2
    <3> QED
      BY <3>1, ConcatProperties
  <2> HIDE DEF hp
  <2> QED
    BY <1>1, <1>2, <2>1
<1> HIDE DEF hp
<1> DEFINE all == hp \o c
<1>4. /\ all \in Seq(Byte) /\ Len(all) = Len(hp) + Len(c)
      /\ \A i \in 1 .. Len(hp) + Len(c) :
           all[i] = IF i <= Len(hp) THEN hp[i] ELSE c[i - Len(hp)]
  BY <1>2, <1>3, ConcatProperties
<1> HIDE DEF all
<1>5. Len(all) = Len(p) + 6
  BY <1>2, <1>3, <1>4
<1>6. all[1] = h[1] /\ all[2] = h[2]
  BY <1>2, <1>3, <1>4
<1>7. \A j \in 1..Len(p) : all[j + 2] = p[j]
  BY <1>2, <1>3, <1>4
<1>8. \A j \in 1..4 : all[Len(p) + 2 + j] = c[j]
  BY <1>2, <1>3, <1>4
<1>9. Body(f) = all
  BY DEF Body, all, hp, h, p, c
<1>10. p = f.pld /\ c = Crc(f)
  BY DEF p, c
<1> QED
  BY <1>1, <1>4, <1>5, <1>6, <1>7, <1>8, <1>9, <1>10

\* what is collected of a whole body is the frame, and its checksum is right
LEMMA DecodedBody ==
  ASSUME NEW f \in Frames, NEW buf \in Seq(Byte), Len(buf) = Len(Body(f)),
         \A j \in 1..Len(buf) : buf[j] = Body(f)[j]
  PROVE  Complete(buf) /\ Decoded(buf) = f /\ Checked(buf) = Crc(f)
<1>1. /\ Len(f.pld) \in Nat /\ Len(buf) = Len(f.pld) + 6
      /\ buf[1] = f.id /\ buf[2] = Len(f.pld)
  <2>1. Len(f.pld) \in Nat /\ Len(buf) = Len(f.pld) + 6
    BY BodyParts, FrameType, ByteNat
  <2>2. 1 \in 1..Len(buf) /\ 2 \in 1..Len(buf)
    BY <2>1
  <2> QED
    BY <2>1, <2>2, BodyParts
<1>2. Complete(buf)
  BY <1>1 DEF Complete
<1>3. \A j \in 1..Len(f.pld) : buf[j + 2] = f.pld[j]
  BY <1>1, BodyParts
<1>4. \A j \in 1..4 : buf[Len(f.pld) + 2 + j] = Crc(f)[j]
  <2> SUFFICES ASSUME NEW j \in 1..4
               PROVE  buf[Len(f.pld) + 2 + j] = Crc(f)[j]
    OBVIOUS
  <2>1. Len(f.pld) + 2 + j \in 1..Len(buf)
    BY <1>1
  <2> QED
    BY <2>1, BodyParts
<1>5. f.pld = [j \in 1..Len(f.pld) |-> f.pld[j]]
  BY FrameType, LenProperties
<1>6. Decoded(buf) = f
  <2>1. [j \in 1..buf[2] |-> buf[j + 2]] = f.pld
    BY <1>1, <1>3, <1>5
  <2>2. f = [id |-> f.id, pld |-> f.pld]
    BY FrameType DEF Frame
  <2> QED
    BY <1>1, <2>1, <2>2 DEF Decoded
<1>7. Checked(buf) = Crc(f)
  <2>1. Crc(f) = [j \in 1..4 |-> Crc(f)[j]]
    BY FrameType, LenProperties
  <2> QED
    BY <1>1, <1>4, <2>1 DEF Checked
<1> QED
  BY <1>2, <1>6, <1>7

-----------------------------------------------------------------------------
(* Unpacker.                                                               *)

\* it stays well typed, and holds nothing while it waits for the end byte
RxOK(r) == r \in Receiver /\ (r.want = "eof" => r.buf = <<>>)

LEMMA UnpackType ==
  ASSUME NEW r, RxOK(r), NEW t \in [b : Byte, ok : BOOLEAN]
  PROVE  RxOK(Unpack(r, t))
<1> DEFINE buf == Append(r.buf, t.b)
<1>1. r \in Receiver /\ r.buf \in Seq(Byte) /\ r.got \in Seq(Frame) /\ t.b \in Byte
  BY DEF RxOK, Receiver
<1>2. buf \in Seq(Byte)
  BY <1>1, AppendProperties
<1>3. CASE r.want = "eof"
  BY <1>1, <1>3 DEF RxOK, Unpack, Receiver
<1>4. CASE r.want # "eof" /\ (~t.ok \/ (r.buf = <<>> /\ t.b >= 64))
  BY <1>1, <1>4, EmptySeq DEF RxOK, Unpack, Receiver
<1>5. CASE r.want # "eof" /\ ~(~t.ok \/ (r.buf = <<>> /\ t.b >= 64))
  <2>1. Unpack(r, t) = Collect(r, buf)
    BY <1>5 DEF Unpack
  <2> HIDE DEF buf
  <2>2. CASE ~Complete(buf)
    BY <1>1, <1>2, <1>5, <2>1, <2>2 DEF RxOK, Collect, Receiver
  <2>3. CASE Complete(buf)
    <3>1. Len(buf) \in Nat /\ Len(buf) >= 2 /\ Len(buf) = buf[2] + 6
      BY <1>2, <2>3, LenProperties DEF Complete
    <3>2. \A j \in 1..Len(buf) : buf[j] \in Byte
      BY <1>2, ElementOfSeq
    <3>3. Decoded(buf) \in Frame
      <4>1. buf[1] \in Byte /\ buf[2] \in Nat
        <5>1. 1 \in 1..Len(buf) /\ 2 \in 1..Len(buf)
          BY <3>1
        <5> QED
          BY <3>2, <5>1, ByteNat
      <4>2. [j \in 1..buf[2] |-> buf[j + 2]] \in [1..buf[2] -> Byte]
        BY <3>1, <3>2, <4>1
      <4>3. [j \in 1..buf[2] |-> buf[j + 2]] \in Seq(Byte)
        <5> DEFINE g == [j \in 1..buf[2] |-> buf[j + 2]]
        <5>1. g \in [1..buf[2] -> Byte]
          BY <4>2
        <5> HIDE DEF g
        <5>2. g \in Seq(Byte)
          BY <4>1, <5>1, SeqDef
        <5> QED
          BY <5>2 DEF g
      <4> QED
        BY <4>1, <4>3 DEF Decoded, Frame
    <3>4. Append(r.got, Decoded(buf)) \in Seq(Frame)
      BY <1>1, <3>3, AppendProperties
    <3>5. <<>> \in Seq(Byte)
      BY EmptySeq
    <3>6. \/ Collect(r, buf) = [r EXCEPT !.buf = <<>>]
          \/ Collect(r, buf) = [buf |-> <<>>, want |-> "eof",
                                got |-> Append(r.got, Decoded(buf))]
      BY <2>3 DEF Collect
    <3>7. RxOK([r EXCEPT !.buf = <<>>])
      BY <1>1, <3>5 DEF RxOK, Receiver
    <3>8. RxOK([buf |-> <<>>, want |-> "eof", got |-> Append(r.got, Decoded(buf))])
      BY <3>4, <3>5 DEF RxOK, Receiver
    <3> QED
      BY <2>1, <3>6, <3>7, <3>8
  <2> QED
    BY <2>2, <2>3
<1> QED
  BY <1>3, <1>4, <1>5

LEMMA TokType ==
  /\ \A b \in Byte : Tok(b) \in [b : Byte, ok : BOOLEAN]
  /\ Bad \in [b : Byte, ok : BOOLEAN]
  /\ HDR \in Byte /\ STF \in Byte
BY DEF Tok, Bad, Byte, HDR, STF

LEMMA ReceiveType ==
  ASSUME RxOK(rx), pend \in 0..2, NEW b \in Byte, Receive(b)
  PROVE  RxOK(rx') /\ pend' \in 0..2
<1>1. pend' \in 0..2
  BY DEF Receive
<1>2. /\ RxOK(Unpack(rx, Tok(b))) /\ RxOK(Unpack(rx, Tok(HDR)))
      /\ RxOK(Unpack(rx, Bad))
  BY TokType, UnpackType
<1>3. /\ RxOK(Unpack(Unpack(rx, Tok(HDR)), Tok(b)))
      /\ RxOK(Unpack(Unpack(rx, Tok(HDR)), Tok(HDR)))
  BY <1>2, TokType, UnpackType
<1>4. \/ rx' = rx
      \/ rx' = Unpack(rx, Tok(b))
      \/ rx' = Unpack(Unpack(rx, Tok(HDR)), Tok(b))
      \/ rx' = Unpack(Unpack(rx, Tok(HDR)), Tok(HDR))
      \/ rx' = Unpack(rx, Bad)
  BY DEF Receive
<1> QED
  BY <1>1, <1>2, <1>3, <1>4

\* the next byte of the body is one byte more, the last one delivers the frame
LEMMA TakesNext ==
  ASSUME NEW f \in Frames, NEW r, RxOK(r), NEW k \in Nat, k < Len(Body(f)),
         Has(r, f, k)
  PROVE  Has(Unpack(r, Tok(Body(f)[k + 1])), f, k + 1)
<1> DEFINE b == Body(f)[k + 1]
           buf == Append(r.buf, b)
<1>1. /\ r \in Receiver /\ r.want = "frame" /\ r.got = <<>>
      /\ r.buf \in Seq(Byte) /\ Len(r.buf) = k
      /\ \A j \in 1..k : r.buf[j] = Body(f)[j]
  BY DEF Has, RxOK, Receiver
<1>2. /\ Body(f) \in Seq(Byte) /\ Len(Body(f)) = Len(f.pld) + 6
      /\ Len(f.pld) \in Nat /\ b \in Byte
  <2>1. /\ Body(f) \in Seq(Byte) /\ Len(Body(f)) = Len(f.pld) + 6
        /\ Len(f.pld) \in Nat
    BY BodyParts, FrameType, ByteNat
  <2>2. k + 1 \in 1..Len(Body(f))
    BY <2>1
  <2> QED
    BY <2>1, <2>2, ElementOfSeq
<1>3. /\ buf \in Seq(Byte) /\ Len(buf) = k + 1
      /\ \A j \in 1 .. k + 1 : buf[j] = Body(f)[j]
  <2>1. /\ buf \in Seq(Byte) /\ Len(buf) = Len(r.buf) + 1
        /\ \A i \in 1..Len(r.buf) : buf[i] = r.buf[i]
        /\ buf[Len(r.buf) + 1] = b
    BY <1>1, <1>2, AppendProperties
  <2> HIDE DEF buf
  <2>2. Len(r.buf) = k
    BY <1>1
  <2> SUFFICES ASSUME NEW j \in 1 .. k + 1
               PROVE  buf[j] = Body(f)[j]
    BY <2>1, <2>2
  <2>3. CASE j = k + 1
    BY <2>1, <2>2, <2>3
  <2>4. CASE j # k + 1
    <3>1. j \in 1..k
      BY <2>4
    <3> QED
      BY <1>1, <2>1, <2>2, <3>1
  <2> QED
    BY <2>3, <2>4
<1>4. ~(r.buf = <<>> /\ b >= 64)
  <2> SUFFICES ASSUME r.buf = <<>>
               PROVE  b < 64
    BY <1>2, ByteNat
  <2>1. k = 0
    BY <1>1
  <2>2. b = f.id
    BY <2>1, BodyParts
  <2> QED
    BY <2>2, FrameType
<1>5. Unpack(r, Tok(b)) = Collect(r, buf)
  BY <1>1, <1>4 DEF Unpack, Tok
<1> HIDE DEF b, buf
<1>6. CASE k + 1 < Len(Body(f))
  <2>1. ~Complete(buf)
    <3>1. ASSUME k + 1 >= 2 PROVE buf[2] = Len(f.pld)
      <4>1. 2 \in 1 .. k + 1
        BY <3>1
      <4> QED
        BY <1>3, <4>1, BodyParts
    <3> QED
      BY <1>2, <1>3, <1>6, <3>1 DEF Complete
  <2>2. Collect(r, buf) = [r EXCEPT !.buf = buf]
    BY <2>1 DEF Collect
  <2> QED
    BY <1>1, <1>3, <1>5, <1>6, <2>2 DEF Has, Receiver, b
<1>7. CASE k + 1 = Len(Body(f))
  <2>1. Complete(buf) /\ Decoded(buf) = f /\ Checked(buf) = Crc(f)
    BY <1>3, <1>7, DecodedBody
  <2>2. Collect(r, buf) = [buf |-> <<>>, want |-> "eof", got |-> Append(r.got, f)]
    BY <2>1 DEF Collect
  <2>3. Append(r.got, f) = <<f>>
    BY <1>1
  <2> QED
    BY <1>5, <1>7, <2>2, <2>3 DEF Has, b
<1> QED
  BY <1>2, <1>6, <1>7

\* a broken header starts over, whatever was collected
LEMMA StartsOver ==
  ASSUME NEW f \in Frames, NEW r, RxOK(r), r.got = <<>>
  PROVE  Has(Unpack(r, Bad), f, 0)
<1>1. 0 < Len(Body(f))
  <2>1. Len(Body(f)) = Len(f.pld) + 6
    BY BodyParts
  <2>2. Len(f.pld) \in Nat
    BY FrameType, ByteNat
  <2> QED
    BY <2>1, <2>2
<1>2. /\ r \in Receiver /\ r.want \in {"frame", "eof"}
      /\ (r.want = "eof" => r.buf = <<>>)
  BY DEF RxOK, Receiver
<1>3. /\ Unpack(r, Bad).want = "frame" /\ Unpack(r, Bad).got = <<>>
      /\ Unpack(r, Bad).buf = <<>>
  BY <1>2 DEF Unpack, Bad, Receiver
<1> QED
  BY <1>1, <1>3 DEF Has

\* the byte after a delivered frame is passed over
LEMMA TakesEnd ==
  ASSUME NEW f \in Frames, NEW r, RxOK(r), Has(r, f, Len(Body(f))), NEW t
  PROVE  Unpack(r, t).want = "frame" /\ Unpack(r, t).got = <<f>>
<1>1. Len(Body(f)) \in Nat
  BY BodyParts, FrameType, ByteNat
<1>2. r \in Receiver /\ r.want = "eof" /\ r.got = <<f>>
  BY <1>1 DEF Has, RxOK
<1> QED
  BY <1>2 DEF Unpack, Receiver

-----------------------------------------------------------------------------
(* The steps.                                                              *)

LEMMA LineType ==
  ASSUME TypeOK, InStep, NEW b \in Byte, Line(b)
  PROVE  /\ RxOK(rx') /\ pend' \in 0..2
         /\ good' \in 0..2 /\ faults' \in 0..MaxFaults
         /\ \/ good' = 0
            \/ good' = good /\ Receive(b)
<1>1. RxOK(rx) /\ pend \in 0..2 /\ good \in 0..2 /\ faults \in 0..MaxFaults
  BY DEF TypeOK, InStep, RxOK
<1>2. ASSUME Fault PROVE good' = 0 /\ faults' \in 0..MaxFaults
  BY <1>1, <1>2, LineAssumption DEF Fault
<1>3. CASE Receive(b) /\ UNCHANGED <<good, faults>>
  BY <1>1, <1>3, ReceiveType
<1>4. CASE Fault /\ UNCHANGED <<pend, rx>>
  BY <1>1, <1>2, <1>4
<1>5. CASE Fault /\ \E n \in Noise \ {b} : Receive(n)
  <2>1. PICK n \in Noise \ {b} : Receive(n)
    BY <1>5
  <2>2. n \in Byte
    BY LineAssumption
  <2> QED
    BY <1>1, <1>2, <1>5, <2>1, <2>2, ReceiveType
<1> QED
  BY <1>3, <1>4, <1>5 DEF Line

LEMMA InsertedType ==
  ASSUME TypeOK, InStep, Inserted
  PROVE  /\ RxOK(rx') /\ pend' \in 0..2 /\ good' = 0 /\ faults' \in 0..MaxFaults
         /\ UNCHANGED sender
<1>1. RxOK(rx) /\ pend \in 0..2 /\ faults \in 0..MaxFaults
  BY DEF TypeOK, InStep, RxOK
<1>2. good' = 0 /\ faults' \in 0..MaxFaults
  BY <1>1, LineAssumption DEF Inserted, Fault
<1>3. PICK n \in Noise : Receive(n) /\ UNCHANGED sender
  BY DEF Inserted
<1>4. n \in Byte
  BY LineAssumption
<1> QED
  BY <1>1, <1>2, <1>3, <1>4, ReceiveType

\* what both invariants say of a state
LEMMA Facts ==
  ASSUME TypeOK, InStep
  PROVE  /\ frame \in Frames /\ owed \in Seq(Frames)
         /\ pos \in Nat /\ cnt \in 0..2 /\ pend \in 0..2 /\ good \in 0..2
         /\ RxOK(rx) /\ rx \in Receiver
         /\ Body(frame) \in Seq(Byte) /\ Len(Body(frame)) \in Nat
         /\ Len(Body(frame)) >= 6 /\ pos <= Len(Body(frame))
         /\ at = "body" => Body(frame)[pos + 1] \in Byte
<1>1. frame \in Frames
  BY DEF TypeOK
<1>2. /\ Body(frame) \in Seq(Byte) /\ Len(Body(frame)) \in Nat
      /\ Len(Body(frame)) >= 6
  <2>1. Body(frame) \in Seq(Byte) /\ Len(Body(frame)) = Len(frame.pld) + 6
    BY <1>1, BodyParts
  <2>2. Len(frame.pld) \in Nat
    BY <1>1, FrameType, ByteNat
  <2> QED
    BY <2>1, <2>2
<1>3. pos \in Nat /\ pos <= Len(Body(frame))
  BY <1>2 DEF TypeOK
<1>4. ASSUME at = "body" PROVE Body(frame)[pos + 1] \in Byte
  <2>1. pos + 1 \in 1..Len(Body(frame))
    BY <1>2, <1>3, <1>4 DEF InStep
  <2> QED
    BY <1>2, <2>1, ElementOfSeq
<1> QED
  BY <1>1, <1>2, <1>3, <1>4 DEF TypeOK, InStep, RxOK

LEMMA InBodyNext ==
  ASSUME frame' = frame,
         pend' = IF at' = "stuff" THEN 2 ELSE cnt', pend' <= pos',
         \A j \in pos' - pend' + 1 .. pos' : Body(frame)[j] = HDR,
         Has(rx', frame, pos' - pend')
  PROVE  InBody'
BY DEF InBody, Has, Body

\* no header byte is held back
LEMMA InBodyNone ==
  ASSUME frame' = frame, pos' \in Nat, pend' = 0, cnt' = 0, at' # "stuff",
         Has(rx', frame, pos')
  PROVE  InBody'
<1> DEFINE n == pos'
<1>1. n \in Nat
  OBVIOUS
<1> HIDE DEF n
<1>2. n - 0 = n /\ 0 <= n /\ n - 0 + 1 .. n = {}
  BY <1>1
<1>3. /\ pos' - pend' = pos' /\ pend' <= pos'
      /\ pos' - pend' + 1 .. pos' = {}
  BY <1>2 DEF n
<1> QED
  BY <1>3, InBodyNext

\* a byte of the body: a header byte is held back, another one is collected
\* after those that were
LEMMA BodyByte ==
  ASSUME TypeOK, InStep, at = "body", InBody,
         Receive(Body(frame)[pos + 1]), After(Body(frame)[pos + 1]),
         pos' = pos + 1, frame' = frame
  PROVE  InBody'
<1> DEFINE b == Body(frame)[pos + 1]
<1>1. /\ frame \in Frames /\ pos \in Nat /\ pos < Len(Body(frame))
      /\ Len(Body(frame)) \in Nat /\ RxOK(rx) /\ cnt \in 0..1 /\ pend = cnt
  BY Facts DEF InStep, InBody
<1>2. /\ pend <= pos /\ Has(rx, frame, pos - pend)
      /\ \A j \in pos - pend + 1 .. pos : Body(frame)[j] = HDR
  BY DEF InBody
<1> HIDE DEF InBody, Has
<1>3. CASE b = HDR
  <2>1. pend' = pend + 1 /\ rx' = rx /\ cnt' = cnt + 1
    BY <1>1, <1>3 DEF Receive, After, HDR, STF
  <2>2. at' = "stuff" <=> cnt' = 2
    BY <1>1, <1>3, <2>1 DEF After
  <2>3. pos' - pend' = pos - pend
    BY <1>1, <2>1
  <2>4. \A j \in pos' - pend' + 1 .. pos' : Body(frame)[j] = HDR
    <3> SUFFICES ASSUME NEW j \in pos - pend + 1 .. pos + 1
                 PROVE  Body(frame)[j] = HDR
      BY <1>1, <2>3
    <3>1. j = pos + 1 \/ j \in pos - pend + 1 .. pos
      BY <1>1
    <3> QED
      BY <1>2, <1>3, <3>1
  <2> QED
    <3>1. pend' = IF at' = "stuff" THEN 2 ELSE cnt'
      BY <1>1, <2>1, <2>2
    <3>2. pend' <= pos'
      BY <1>1, <1>2, <2>1
    <3>3. Has(rx', frame, pos' - pend')
      BY <1>2, <2>1, <2>3
    <3> QED
      BY <2>4, <3>1, <3>2, <3>3, InBodyNext
<1>4. CASE b # HDR
  <2>1. pend' = 0 /\ cnt' = 0 /\ at' # "stuff"
    BY <1>1, <1>4 DEF Receive, After
  <2>2. CASE pend = 0
    <3>1. rx' = Unpack(rx, Tok(b))
      BY <1>4, <2>2 DEF Receive
    <3>2. Has(rx, frame, pos)
      BY <1>1, <1>2, <2>2
    <3>3. Has(rx', frame, pos + 1)
      BY <1>1, <3>1, <3>2, TakesNext
    <3> QED
      BY <1>1, <2>1, <3>3, InBodyNone
  <2>3. CASE pend = 1
    <3>1. rx' = Unpack(Unpack(rx, Tok(HDR)), Tok(b))
      BY <1>4, <2>3 DEF Receive
    <3>2. /\ pos - 1 \in Nat /\ pos - 1 < Len(Body(frame)) /\ pos - 1 + 1 = pos
          /\ Has(rx, frame, pos - 1) /\ Body(frame)[pos] = HDR
      BY <1>1, <1>2, <2>3
    <3>3. Has(Unpack(rx, Tok(HDR)), frame, pos)
      <4>1. Body(frame)[pos - 1 + 1] = HDR
        BY <3>2
      <4>2. Has(Unpack(rx, Tok(HDR)), frame, pos - 1 + 1)
        BY <1>1, <3>2, <4>1, TakesNext
      <4> QED
        BY <3>2, <4>2
    <3>4. RxOK(Unpack(rx, Tok(HDR)))
      BY <1>1, TokType, UnpackType
    <3>5. Has(rx', frame, pos + 1)
      BY <1>1, <3>1, <3>3, <3>4, TakesNext
    <3> QED
      BY <1>1, <2>1, <3>5, InBodyNone
  <2> QED
    BY <1>1, <2>2, <2>3
<1> QED
  BY <1>3, <1>4

\* a stuffing byte releases the two header bytes before it
LEMMA StuffingByte ==
  ASSUME TypeOK, InStep, at = "stuff", InBody, Receive(STF),
         cnt' = 0, at' # "stuff", pos' = pos, frame' = frame
  PROVE  InBody'
<1>1. /\ frame \in Frames /\ pos \in Nat /\ pos <= Len(Body(frame))
      /\ Len(Body(frame)) \in Nat /\ RxOK(rx) /\ pend = 2
  BY Facts DEF InBody
<1>2. /\ pend <= pos /\ Has(rx, frame, pos - pend)
      /\ \A j \in pos - pend + 1 .. pos : Body(frame)[j] = HDR
  BY DEF InBody
<1>3. rx' = Unpack(Unpack(rx, Tok(HDR)), Tok(HDR)) /\ pend' = 0
  BY <1>1 DEF Receive, HDR, STF
<1> HIDE DEF Has
<1>4. /\ pos - 2 \in Nat /\ pos - 2 < Len(Body(frame)) /\ pos - 2 + 1 = pos - 1
      /\ pos - 1 \in Nat /\ pos - 1 < Len(Body(frame)) /\ pos - 1 + 1 = pos
      /\ Has(rx, frame, pos - 2)
      /\ Body(frame)[pos - 1] = HDR /\ Body(frame)[pos] = HDR
  BY <1>1, <1>2
<1>5. Has(Unpack(rx, Tok(HDR)), frame, pos - 1)
  <2>1. Body(frame)[pos - 2 + 1] = HDR
    BY <1>4
  <2>2. Has(Unpack(rx, Tok(HDR)), frame, pos - 2 + 1)
    BY <1>1, <1>4, <2>1, TakesNext
  <2> QED
    BY <1>4, <2>2
<1>6. RxOK(Unpack(rx, Tok(HDR)))
  BY <1>1, TokType, UnpackType
<1>7. Has(rx', frame, pos)
  <2>1. Body(frame)[pos - 1 + 1] = HDR
    BY <1>4
  <2>2. Has(rx', frame, pos - 1 + 1)
    BY <1>1, <1>3, <1>4, <1>5, <1>6, <2>1, TakesNext
  <2> QED
    BY <1>4, <2>2
<1> QED
  BY <1>1, <1>3, <1>7, InBodyNone

\* the end byte releases a header byte and is passed over
LEMMA EndByte ==
  ASSUME TypeOK, InStep, at = "end", InBody, Receive(STF)
  PROVE  rx'.got = <<frame>>
<1>1. /\ frame \in Frames /\ pos \in Nat /\ pos = Len(Body(frame))
      /\ Len(Body(frame)) \in Nat /\ RxOK(rx) /\ pend \in 0..1
  BY Facts DEF InStep, InBody
<1>2. /\ pend <= pos /\ Has(rx, frame, pos - pend)
      /\ \A j \in pos - pend + 1 .. pos : Body(frame)[j] = HDR
  BY DEF InBody
<1>3. CASE pend = 0
  <2>1. rx' = Unpack(rx, Tok(STF))
    BY <1>3 DEF Receive, HDR, STF
  <2>2. Has(rx, frame, Len(Body(frame)))
    BY <1>1, <1>2, <1>3
  <2> QED
    BY <1>1, <2>1, <2>2, TakesEnd
<1>4. CASE pend = 1
  <2>1. rx' = Unpack(Unpack(rx, Tok(HDR)), Tok(STF))
    BY <1>4 DEF Receive, HDR, STF
  <2>2. /\ pos - 1 \in Nat /\ pos - 1 < Len(Body(frame)) /\ pos - 1 + 1 = pos
        /\ Has(rx, frame, pos - 1) /\ Body(frame)[pos] = HDR
    BY <1>1, <1>2, <1>4
  <2>3. Has(Unpack(rx, Tok(HDR)), frame, Len(Body(frame)))
    <3>1. Body(frame)[pos - 1 + 1] = HDR
      BY <2>2
    <3>2. Has(Unpack(rx, Tok(HDR)), frame, pos - 1 + 1)
      BY <1>1, <2>2, <3>1, TakesNext
    <3> QED
      BY <1>1, <2>2, <3>2
  <2>4. RxOK(Unpack(rx, Tok(HDR)))
    BY <1>1, TokType, UnpackType
  <2> QED
    BY <1>1, <2>1, <2>3, <2>4, TakesEnd
<1> QED
  BY <1>1, <1>3, <1>4

-----------------------------------------------------------------------------
(* The invariant.                                                          *)

Inv == TypeOK /\ InStep

LEMMA InitInv == Init => Inv
<1> SUFFICES ASSUME Init PROVE Inv
  OBVIOUS
<1>1. frame \in Frames /\ Len(Body(frame)) \in Nat
  BY BodyParts, FrameType, ByteNat DEF Init
<1>2. owed \in Seq(Frames) /\ rx \in Receiver
  BY EmptySeq DEF Init, Receiver
<1> QED
  BY <1>1, <1>2, LineAssumption DEF Init, Inv, TypeOK, InStep

LEMMA BeginInv == ASSUME Inv, Begin PROVE Inv'
<1>1. /\ frame \in Frames /\ owed \in Seq(Frames) /\ pend \in 0..2
      /\ good \in 0..2 /\ faults \in 0..MaxFaults /\ rx \in Receiver
      /\ rx.want = "eof" => rx.buf = <<>>
      /\ good >= 1 => pend = 0
  BY DEF Inv, TypeOK, InStep, Begin
<1>2. /\ frame' \in Frames /\ at' = "header" /\ pos' = 0 /\ cnt' = 0
      /\ pend' = pend /\ faults' = faults
      /\ good' = IF good = 0 THEN 1 ELSE 2
  BY DEF Begin
<1>3. owed' \in Seq(Frames)
  BY <1>1, EmptySeq DEF Begin
<1>4. /\ rx' \in Receiver /\ rx'.got = <<>>
      /\ rx'.want = rx.want /\ rx'.buf = rx.buf
  BY <1>1, EmptySeq DEF Begin, Receiver
<1>5. Len(Body(frame')) \in Nat
  BY <1>2, BodyParts, FrameType, ByteNat
<1>6. pos' \in 0..Len(Body(frame'))
  BY <1>2, <1>5
<1>7. Len(Body(frame))' = Len(Body(frame'))
  BY DEF Body
<1>8. TypeOK'
  BY <1>1, <1>2, <1>3, <1>4, <1>6, <1>7 DEF TypeOK
<1>9. InStep'
  BY <1>1, <1>2, <1>4 DEF InStep
<1> QED
  BY <1>8, <1>9 DEF Inv

\* what a step of Packer leaves to show
LEMMA SentInv ==
  ASSUME Inv, NEW b \in Byte, Line(b), frame' = frame, owed' = owed,
         at' \in {"idle", "header", "body", "stuff", "end"},
         pos' \in Nat, pos' <= Len(Body(frame)), cnt' \in 0..2,
         at' = "header" => pos' = 0,
         at' = "body" => pos' < Len(Body(frame)) /\ cnt' < 2,
         at' = "end" => pos' = Len(Body(frame)) /\ cnt' < 2,
         at' = "idle" /\ good' >= 1 => pend' = 0,
         at' = "header" /\ good' = 2 => pend' = cnt' /\ rx'.got = <<>>,
         at' \in {"body", "stuff", "end"} /\ good' = 2 => InBody',
         at' = "idle" /\ good' = 2 => rx'.got = <<frame>>
  PROVE  Inv'
<1>1. /\ RxOK(rx') /\ pend' \in 0..2
      /\ good' \in 0..2 /\ faults' \in 0..MaxFaults
  BY LineType DEF Inv
<1>2. frame \in Frames /\ owed \in Seq(Frames) /\ Len(Body(frame)) \in Nat
  BY Facts DEF Inv
<1>3. Len(Body(frame))' = Len(Body(frame))
  BY DEF Body
<1>4. pos' \in 0..Len(Body(frame))
  BY <1>2
<1>5. TypeOK'
  BY <1>1, <1>2, <1>3, <1>4 DEF TypeOK, RxOK
<1>6. rx'.want = "eof" => rx'.buf = <<>>
  BY <1>1 DEF RxOK
<1>7. InStep'
  BY <1>3, <1>6 DEF InStep
<1> QED
  BY <1>5, <1>7 DEF Inv

LEMMA SendHeaderInv == ASSUME Inv, SendHeader PROVE Inv'
<1>1. /\ TypeOK /\ InStep /\ at = "header" /\ HDR \in Byte /\ Line(HDR)
      /\ frame' = frame /\ owed' = owed /\ pos' = pos /\ pos = 0
  BY TokType DEF Inv, SendHeader, InStep
<1>2. /\ frame \in Frames /\ Len(Body(frame)) \in Nat /\ Len(Body(frame)) >= 6
      /\ cnt \in 0..2 /\ RxOK(rx)
  BY <1>1, Facts
<1>3. CASE cnt < 2
  <2>1. at' = "header" /\ cnt' = cnt + 1 /\ cnt' \in 0..2
    BY <1>1, <1>2, <1>3 DEF SendHeader
  <2>2. ASSUME good' = 2 PROVE pend' = cnt' /\ rx'.got = <<>>
    <3>1. good = 2 /\ Receive(HDR)
      BY <1>1, <2>2, LineType
    <3>2. pend = cnt /\ rx.got = <<>>
      BY <1>1, <3>1 DEF InStep
    <3>3. pend' = pend + 1 /\ rx' = rx
      BY <1>2, <1>3, <3>1, <3>2 DEF Receive, HDR, STF
    <3> QED
      BY <2>1, <3>2, <3>3
  <2> QED
    BY <1>1, <1>2, <2>1, <2>2, SentInv
<1>4. CASE ~(cnt < 2)
  <2>1. at' = "body" /\ cnt' = 0
    BY <1>1, <1>4 DEF SendHeader
  <2>2. ASSUME good' = 2 PROVE InBody'
    <3>1. good = 2 /\ Receive(HDR)
      BY <1>1, <2>2, LineType
    <3>2. pend = 2 /\ rx.got = <<>>
      BY <1>1, <1>2, <1>4, <3>1 DEF InStep
    <3>3. pend' = 0 /\ rx' = Unpack(rx, Bad)
      BY <3>1, <3>2 DEF Receive, HDR, STF
    <3>4. Has(rx', frame, 0)
      BY <1>2, <3>2, <3>3, StartsOver
    <3> QED
      BY <1>1, <2>1, <3>3, <3>4, InBodyNone
  <2> QED
    BY <1>1, <1>2, <2>1, <2>2, SentInv
<1> QED
  BY <1>3, <1>4

LEMMA SendBodyInv == ASSUME Inv, SendBody PROVE Inv'
<1> DEFINE b == Body(frame)[pos + 1]
<1>1. /\ TypeOK /\ InStep /\ at = "body" /\ Line(b) /\ After(b)
      /\ frame' = frame /\ owed' = owed /\ pos' = pos + 1
      /\ pos < Len(Body(frame)) /\ cnt < 2
  BY DEF Inv, SendBody, InStep
<1>2. /\ Len(Body(frame)) \in Nat /\ pos \in Nat /\ cnt \in 0..2 /\ b \in Byte
  BY <1>1, Facts
<1>3. ASSUME good' = 2 PROVE InBody'
  <2>1. good = 2 /\ Receive(b)
    BY <1>1, <1>2, <1>3, LineType
  <2>2. InBody
    BY <1>1, <2>1 DEF InStep
  <2> QED
    BY <1>1, <2>1, <2>2, BodyByte
<1> HIDE DEF b
<1>4. pos' \in Nat /\ pos' <= Len(Body(frame))
  BY <1>1, <1>2
<1>5. /\ at' \in {"stuff", "end", "body"} /\ cnt' \in 0..2
      /\ at' = "body" => pos' < Len(Body(frame)) /\ cnt' < 2
      /\ at' = "end" => pos' = Len(Body(frame)) /\ cnt' < 2
  BY <1>1, <1>2 DEF After
<1> QED
  BY <1>1, <1>2, <1>3, <1>4, <1>5, SentInv

LEMMA SendStuffingInv == ASSUME Inv, SendStuffing PROVE Inv'
<1>1. /\ TypeOK /\ InStep /\ at = "stuff" /\ STF \in Byte /\ Line(STF)
      /\ frame' = frame /\ owed' = owed /\ pos' = pos /\ cnt' = 0
      /\ at' = IF pos = Len(Body(frame)) THEN "end" ELSE "body"
  BY TokType DEF Inv, SendStuffing
<1>2. /\ Len(Body(frame)) \in Nat /\ pos \in Nat /\ pos <= Len(Body(frame))
  BY <1>1, Facts
<1>3. ASSUME good' = 2 PROVE InBody'
  <2>1. good = 2 /\ Receive(STF)
    BY <1>1, <1>3, LineType
  <2>2. InBody
    BY <1>1, <2>1 DEF InStep
  <2> QED
    BY <1>1, <2>1, <2>2, StuffingByte
<1>4. /\ at' \in {"end", "body"} /\ cnt' \in 0..2 /\ cnt' < 2
      /\ at' = "body" => pos' < Len(Body(frame))
      /\ at' = "end" => pos' = Len(Body(frame))
  BY <1>1, <1>2
<1> QED
  BY <1>1, <1>2, <1>3, <1>4, SentInv

LEMMA SendEndInv == ASSUME Inv, SendEnd PROVE Inv'
<1>1. /\ TypeOK /\ InStep /\ at = "end" /\ STF \in Byte /\ Line(STF)
      /\ frame' = frame /\ owed' = owed /\ pos' = pos /\ cnt' = 0 /\ at' = "idle"
  BY TokType DEF Inv, SendEnd
<1>2. /\ pos \in Nat /\ pos <= Len(Body(frame)) /\ good \in 0..2
  BY <1>1, Facts
<1>3. ASSUME good' >= 1 PROVE good' = good /\ Receive(STF) /\ pend' = 0
  <2>1. good' = good /\ Receive(STF)
    BY <1>1, <1>3, LineType
  <2> QED
    BY <2>1 DEF Receive, HDR, STF
<1>4. ASSUME good' = 2 PROVE rx'.got = <<frame>>
  <2>1. good = 2 /\ Receive(STF)
    BY <1>3, <1>4
  <2>2. InBody
    BY <1>1, <2>1 DEF InStep
  <2> QED
    BY <1>1, <2>1, <2>2, EndByte
<1> QED
  BY <1>1, <1>2, <1>3, <1>4, SentInv

LEMMA InsertedInv == ASSUME Inv, Inserted PROVE Inv'
<1>1. /\ RxOK(rx') /\ pend' \in 0..2 /\ good' = 0 /\ faults' \in 0..MaxFaults
      /\ frame' = frame /\ owed' = owed /\ at' = at /\ pos' = pos /\ cnt' = cnt
  BY InsertedType DEF Inv, sender
<1>2. Len(Body(frame))' = Len(Body(frame))
  BY <1>1 DEF Body
<1>3. TypeOK'
  BY <1>1, <1>2 DEF Inv, TypeOK, RxOK
<1>4. InStep'
  BY <1>1, <1>2 DEF Inv, InStep, RxOK
<1> QED
  BY <1>3, <1>4 DEF Inv

LEMMA UnchangedInv == ASSUME Inv, UNCHANGED vars PROVE Inv'
BY DEF Inv, TypeOK, InStep, InBody, Has, Body, vars, sender

LEMMA NextInv == Inv /\ [Next]_vars => Inv'
BY BeginInv, SendHeaderInv, SendBodyInv, SendStuffingInv, SendEndInv, InsertedInv,
   UnchangedInv DEF Next

\* Whatever frames, checksum and faults there are, every variable keeps its type,
\* and HDRStuf and Unpacker are in step with Packer as LinkInv says.
THEOREM LinkInvariant == Spec => []LinkInv
<1>1. Inv => LinkInv
  BY DEF Inv, LinkInv
<1> QED
  BY <1>1, InitInv, NextInv, PTL DEF Spec

\* For all frames, all checksums and any number of faults: two frames after the
\* last fault at the latest, a frame is delivered, once and unchanged.
THEOREM Resyncs == Spec => []BackInStep
<1>1. LinkInv => BackInStep
  BY DEF LinkInv, InStep, BackInStep
<1> QED
  BY <1>1, LinkInvariant, PTL

\* before the first fault only the first frame is still to come
Unharmed == faults = 0 => good = 2 \/ (at = "idle" /\ good = 1 /\ rx.got = <<>>)

LEMMA UnharmedNext == ASSUME Inv, Unharmed, [Next]_vars PROVE Unharmed'
<1>1. faults \in Nat /\ good \in 0..2
  BY LineAssumption DEF Inv, TypeOK
<1>2. CASE Begin
  <2>1. faults' = faults /\ good' = IF good = 0 THEN 1 ELSE 2
    BY <1>2 DEF Begin
  <2> QED
    BY <2>1 DEF Unharmed
<1>3. CASE SendHeader \/ SendBody \/ SendStuffing \/ SendEnd
  <2>1. at # "idle" /\ \E b : Line(b)
    BY <1>3 DEF SendHeader, SendBody, SendStuffing, SendEnd
  <2>2. UNCHANGED <<good, faults>> \/ faults' = faults + 1
    BY <2>1 DEF Line, Fault
  <2> QED
    BY <1>1, <2>1, <2>2 DEF Unharmed
<1>4. CASE Inserted
  BY <1>1, <1>4 DEF Inserted, Fault, Unharmed
<1>5. CASE UNCHANGED vars
  BY <1>5 DEF vars, sender, Unharmed
<1> QED
  BY <1>2, <1>3, <1>4, <1>5 DEF Next

\* The part of NothingForged that holds for all frames and all checksums: as long
\* as nothing has gone wrong, and again from the second frame after the last
\* fault on, Unpacker has nothing but the frame that is being sent, also while
\* its bytes are still on their way.
THEOREM NothingForgedInStep ==
  Spec => [](faults = 0 \/ good = 2 => NothingForged)
<1>1. Init => Unharmed
  BY DEF Init, Unharmed
<1>2. Inv /\ Unharmed => (faults = 0 \/ good = 2 => NothingForged)
  <2> SUFFICES ASSUME Inv, good = 2 PROVE NothingForged
    BY DEF Unharmed, NothingForged
  <2>1. at \in {"idle", "header", "body", "stuff", "end"}
    BY DEF Inv, TypeOK
  <2>2. at = "idle" => rx.got = <<frame>>
    BY DEF Inv, InStep
  <2>3. at = "header" => rx.got = <<>>
    BY DEF Inv, InStep
  <2>4. at \in {"body", "stuff", "end"} => rx.got \in {<<>>, <<frame>>}
    <3>1. at \in {"body", "stuff", "end"} => Has(rx, frame, pos - pend)
      BY DEF Inv, InStep, InBody
    <3> QED
      BY <3>1 DEF Has
  <2> QED
    BY <2>1, <2>2, <2>3, <2>4 DEF NothingForged
<1> QED
  BY <1>1, <1>2, InitInv, NextInv, UnharmedNext, PTL DEF Spec
=============================================================================

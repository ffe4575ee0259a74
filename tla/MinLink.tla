------------------------------- MODULE MinLink -------------------------------
(***************************************************************************)
(* The MIN transport of pywisp/min.py, which serial and UDP connections    *)
(* use: the bytes that Packer makes of a frame cross a line that may lose, *)
(* change or insert bytes, and go through HDRStuf and Unpacker one by one. *)
(*                                                                         *)
(* The receiving generators are driven by send, so each byte is worked off *)
(* to the end before the next one; the line keeps the order of the bytes.  *)
(* A byte is therefore received in the step that sends it.                 *)
(***************************************************************************)
EXTENDS Naturals, Sequences

CONSTANTS
  Frames,    \* the frames that are sent: records [id, pld]
  Crc(_),    \* the four bytes of the checksum of a frame
  Noise,     \* the values a changed or an inserted byte can have
  MaxFaults  \* bound on the faults of the line

HDR == 170
STF == 85
Byte == 0..255
Frame == [id : Byte, pld : Seq(Byte)]

\* the assertions of Packer, and the length of a CRC32
ASSUME FrameAssumption ==
  /\ HDR \in Byte /\ STF \in Byte
  /\ \A f \in Frames : /\ f \in Frame
                       /\ f.id < 64
                       /\ Len(f.pld) < 256
                       /\ Crc(f) \in Seq(Byte) /\ Len(Crc(f)) = 4
ASSUME LineAssumption == Noise \subseteq Byte /\ MaxFaults \in Nat

VARIABLES
  frame,   \* the frame that Packer is sending or has sent last
  owed,    \* the frame before it, if it had not been delivered by then
  at,      \* what Packer sends next: a header, body, stuffing or end byte
  pos,     \* how many bytes of the body have been sent
  cnt,     \* header bytes sent in a row
  pend,    \* HDR bytes that HDRStuf holds back
  rx,      \* Unpacker: the bytes of the frame so far, what it waits for, and
           \* the frames it has delivered since frame was begun
  good,    \* frames without a fault in a row, the present one included (0..2)
  faults   \* faults so far

sender == <<frame, owed, at, pos, cnt>>
vars == <<sender, pend, rx, good, faults>>

-----------------------------------------------------------------------------
(* Unpacker, which gets pairs of a byte and a flag.                        *)

Tok(b) == [b |-> b, ok |-> TRUE]
Bad == [b |-> 0, ok |-> FALSE]

\* what the collected bytes are: id, length, payload, checksum
Decoded(buf) == [id |-> buf[1], pld |-> [j \in 1..buf[2] |-> buf[j + 2]]]
Checked(buf) == [j \in 1..4 |-> buf[buf[2] + 2 + j]]
Complete(buf) == Len(buf) >= 2 /\ Len(buf) = buf[2] + 6

\* mutant: the checksum is read and not compared
CollectUnchecked(r, buf) ==
  IF ~Complete(buf) THEN [r EXCEPT !.buf = buf]
  ELSE [buf |-> <<>>, want |-> "eof", got |-> Append(r.got, Decoded(buf))]

Collect(r, buf) ==
  IF ~Complete(buf) THEN [r EXCEPT !.buf = buf]
  ELSE IF Checked(buf) = Crc(Decoded(buf))
       THEN [buf |-> <<>>, want |-> "eof", got |-> Append(r.got, Decoded(buf))]
       ELSE [r EXCEPT !.buf = <<>>]

\* mutant: a header inside a frame is passed over
UnpackOn(r, t) ==
  IF r.want = "eof" THEN [r EXCEPT !.want = "frame"]
  ELSE IF ~t.ok \/ (r.buf = <<>> /\ t.b >= 64) THEN r
  ELSE Collect(r, Append(r.buf, t.b))

\* a header starts over, an id of 64 or more is dropped, and whatever follows a
\* delivered frame is taken for its end
Unpack(r, t) ==
  IF r.want = "eof" THEN [r EXCEPT !.want = "frame"]
  ELSE IF ~t.ok \/ (r.buf = <<>> /\ t.b >= 64) THEN [r EXCEPT !.buf = <<>>]
  ELSE Collect(r, Append(r.buf, t.b))

\* HDRStuf, for each byte that Bytewise takes from a chunk
Receive(b) ==
  \/ /\ pend < 2 /\ b = HDR
     /\ pend' = pend + 1
     /\ UNCHANGED rx
  \/ /\ pend = 0 /\ b # HDR
     /\ rx' = Unpack(rx, Tok(b))
     /\ pend' = 0
  \/ /\ pend = 1 /\ b # HDR
     /\ rx' = Unpack(Unpack(rx, Tok(HDR)), Tok(b))
     /\ pend' = 0
  \/ /\ pend = 2 /\ b = STF
     /\ rx' = Unpack(Unpack(rx, Tok(HDR)), Tok(HDR))
     /\ pend' = 0
  \/ /\ pend = 2 /\ b # STF
     /\ rx' = Unpack(rx, Bad)
     /\ pend' = 0

-----------------------------------------------------------------------------
(* The line.                                                               *)

Fault == faults < MaxFaults /\ faults' = faults + 1 /\ good' = 0

\* byte b arrives, is lost, or arrives as another one
Line(b) ==
  \/ Receive(b) /\ UNCHANGED <<good, faults>>
  \/ Fault /\ UNCHANGED <<pend, rx>>
  \/ Fault /\ \E n \in Noise \ {b} : Receive(n)

\* a byte arrives that was never sent
Inserted == Fault /\ \E n \in Noise : Receive(n) /\ UNCHANGED sender

-----------------------------------------------------------------------------
(* Packer.                                                                 *)

Body(f) == <<f.id, Len(f.pld)>> \o f.pld \o Crc(f)

Init ==
  /\ frame \in Frames /\ owed = <<>>
  /\ at = "idle" /\ pos = 0 /\ cnt = 0
  /\ pend = 0 /\ rx = [buf |-> <<>>, want |-> "frame", got |-> <<>>]
  /\ good = 1 /\ faults = 0

\* tx.send of a frame
Begin ==
  /\ at = "idle"
  /\ frame' \in Frames
  /\ owed' = IF rx.got # <<>> /\ rx.got[Len(rx.got)] = frame THEN <<>> ELSE <<frame>>
  /\ at' = "header" /\ pos' = 0 /\ cnt' = 0
  /\ rx' = [rx EXCEPT !.got = <<>>]
  /\ good' = IF good = 0 THEN 1 ELSE 2
  /\ UNCHANGED <<pend, faults>>

SendHeader ==
  /\ at = "header"
  /\ Line(HDR)
  /\ IF cnt < 2 THEN cnt' = cnt + 1 /\ UNCHANGED at
     ELSE cnt' = 0 /\ at' = "body"
  /\ UNCHANGED <<frame, owed, pos>>

\* mutant: header bytes of the body are not counted
AfterPlain(b) ==
  /\ cnt' = 0
  /\ at' = IF pos + 1 = Len(Body(frame)) THEN "end" ELSE "body"

\* hdcnt: the second of two header bytes is followed by a stuffing byte
After(b) ==
  /\ cnt' = IF b = HDR THEN cnt + 1 ELSE 0
  /\ at' = IF b = HDR /\ cnt = 1 THEN "stuff"
           ELSE IF pos + 1 = Len(Body(frame)) THEN "end" ELSE "body"

SendBody ==
  /\ at = "body"
  /\ Line(Body(frame)[pos + 1])
  /\ After(Body(frame)[pos + 1])
  /\ pos' = pos + 1
  /\ UNCHANGED <<frame, owed>>

\* mutant: hdcnt is not reset after a stuffing byte
SendStuffingKeeps ==
  /\ at = "stuff"
  /\ Line(STF)
  /\ at' = IF pos = Len(Body(frame)) THEN "end" ELSE "body"
  /\ UNCHANGED <<frame, owed, pos, cnt>>

SendStuffing ==
  /\ at = "stuff"
  /\ Line(STF)
  /\ cnt' = 0
  /\ at' = IF pos = Len(Body(frame)) THEN "end" ELSE "body"
  /\ UNCHANGED <<frame, owed, pos>>

SendEnd ==
  /\ at = "end"
  /\ Line(STF)
  /\ at' = "idle" /\ cnt' = 0
  /\ UNCHANGED <<frame, owed, pos>>

Next == Begin \/ SendHeader \/ SendBody \/ SendStuffing \/ SendEnd \/ Inserted

Spec == Init /\ [][Next]_vars

-----------------------------------------------------------------------------
(* Properties.                                                             *)

\* Every variable keeps its type.
Receiver == [buf : Seq(Byte), want : {"frame", "eof"}, got : Seq(Frame)]
TypeOK ==
  /\ frame \in Frames /\ owed \in Seq(Frames)
  /\ at \in {"idle", "header", "body", "stuff", "end"}
  /\ pos \in 0..Len(Body(frame)) /\ cnt \in 0..2
  /\ pend \in 0..2 /\ rx \in Receiver
  /\ good \in 0..2 /\ faults \in 0..MaxFaults

\* A frame that crosses the line unharmed, as the frame before it did, is
\* delivered, exactly once and unchanged: after any faults the receiver is back
\* in step at the latest with the second frame. (Packer, HDRStuf, Unpacker)
BackInStep == at = "idle" /\ good = 2 => rx.got = <<frame>>

\* Whatever the line does, nothing is delivered that was not sent, nothing twice
\* and nothing out of order, if no payload carries the bytes of another frame; a
\* frame may come late, with the bytes of the next one, when its end was lost.
\* (Unpacker: the checksum)
NothingForged == rx.got \in {<<>>, owed, <<frame>>, owed \o <<frame>>}

\* What a receiver that is in step has: between two frames HDRStuf holds nothing
\* back; in a frame it holds the header bytes that Packer has counted, and
\* Unpacker has the other bytes of the body or, with the last one, has delivered
\* the frame.
Has(r, f, k) ==
  IF k < Len(Body(f))
  THEN /\ r.want = "frame" /\ r.got = <<>>
       /\ Len(r.buf) = k
       /\ \A j \in 1..k : r.buf[j] = Body(f)[j]
  ELSE r.want = "eof" /\ r.got = <<f>>
InBody ==
  /\ pend = IF at = "stuff" THEN 2 ELSE cnt
  /\ pend <= pos
  /\ \A j \in pos - pend + 1 .. pos : Body(frame)[j] = HDR
  /\ Has(rx, frame, pos - pend)
InStep ==
  /\ rx.want = "eof" => rx.buf = <<>>
  /\ at = "header" => pos = 0
  /\ at = "body" => pos < Len(Body(frame)) /\ cnt < 2
  /\ at = "end" => pos = Len(Body(frame)) /\ cnt < 2
  /\ at = "idle" /\ good >= 1 => pend = 0
  /\ at = "header" /\ good = 2 => pend = cnt /\ rx.got = <<>>
  /\ at \in {"body", "stuff", "end"} /\ good = 2 => InBody
  /\ at = "idle" /\ good = 2 => rx.got = <<frame>>

\* The inductive invariant behind BackInStep: HDRStuf and Unpacker stay in step
\* with Packer through every frame that the line leaves alone, and get back into
\* step with the frame after the next one after any faults.
LinkInv == TypeOK /\ InStep
=============================================================================

------------------------------ MODULE MCMinLink ------------------------------
(* Instances of MinLink for TLC, with the CRC32 of binascii.               *)
EXTENDS MinLink, Bitwise, FiniteSets

\* a 32 bit word is a pair of halves, since TLC's integers are too short
Shift(w) == <<w[1] \div 2, (w[2] \div 2) + 32768 * (w[1] % 2)>>
RECURSIVE Divide(_, _)
Divide(w, n) ==
  IF n = 0 THEN w
  ELSE LET s == Shift(w) IN
         Divide(IF w[2] % 2 = 0 THEN s ELSE <<s[1] ^^ 60856, s[2] ^^ 33568>>, n - 1)
CrcTable == [b \in Byte |-> Divide(<<0, b>>, 8)]

CrcStep(w, b) ==
  LET e == CrcTable[(w[2] % 256) ^^ b] IN
    <<(w[1] \div 256) ^^ e[1], ((w[2] \div 256) + 256 * (w[1] % 256)) ^^ e[2]>>
RECURSIVE CrcOf(_, _)
CrcOf(w, s) == IF s = <<>> THEN w ELSE CrcOf(CrcStep(w, Head(s)), Tail(s))

Checksum(f) ==
  LET w  == CrcOf(<<65535, 65535>>, <<f.id, Len(f.pld)>> \o f.pld)
      hi == 65535 - w[1]
      lo == 65535 - w[2]
  IN <<hi \div 256, hi % 256, lo \div 256, lo % 256>>

F(id, pld) == [id |-> id, pld |-> pld]
\* an empty payload; more than a header; one that looks like stuffing;
\* header bytes before a checksum that starts with one; checksums that end with
\* one and with two header bytes
MCFrames == {F(1, <<>>), F(1, <<HDR, HDR, HDR>>), F(1, <<HDR, STF>>),
             F(2, <<0, 2, HDR>>), F(10, <<2, 0, 1>>), F(2, <<42, 85>>)}

\* the checksums of the frames that are sent are computed once
Checksums == [f \in MCFrames |-> Checksum(f)]
CRC32(f) == IF f \in MCFrames THEN Checksums[f] ELSE Checksum(f)

\* as binascii.crc32 has it
ASSUME CrcAssumption ==
  /\ CRC32(F(2, <<42, 85>>)) = <<252, 163, 170, 170>>
  /\ CRC32(F(10, <<2, 0, 1>>)) = <<234, 164, 164, 170>>
=============================================================================

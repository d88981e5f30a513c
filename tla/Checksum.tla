------------------------------ MODULE Checksum ------------------------------
(***************************************************************************)
(* CRC-16/ARC, table-driven, as transport/framing.py computes it.          *)
(***************************************************************************)
EXTENDS Integers, Sequences, SequencesExt, Bitwise

RECURSIVE Shifted(_, _)
Shifted(c, times) ==
  IF times = 0 THEN c
  ELSE Shifted(IF c % 2 = 1 THEN (c \div 2) ^^ 40961 ELSE c \div 2, times - 1)
CrcTable == [i \in 0..255 |-> Shifted(i, 8)]

Crc16Arc == [payload \in Seq(0..255) |->
  FoldLeft(LAMBDA crc, b : (crc \div 256) ^^ CrcTable[(crc % 256) ^^ b], 0, payload)]
=============================================================================

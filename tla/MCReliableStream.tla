------------------------- MODULE MCReliableStream -------------------------
(***************************************************************************)
(* Instances of ReliableStream for TLC.  Half stands for 16#8000: TLC      *)
(* walks a circle of 8 numbers.  StartSeq puts the session where the run   *)
(* needs it, at zero or just before its counter wraps.                     *)
(***************************************************************************)
EXTENDS ReliableStream

\* The circle, two before its end.
CloseToWrap == SeqMod - 2
===========================================================================

----------------------------- MODULE MCFraming -----------------------------
(***************************************************************************)
(* Payloads of an XRCE session (129) that hold the flag and the escape     *)
(* octet, as data or in their checksum, and the checksum the code uses.    *)
(***************************************************************************)
EXTENDS Framing, Checksum

SomePayloads == <<<<129, 126, 1>>, <<129, 125, 94, 0>>, <<129, 0>>>>
=============================================================================

--------------------------- MODULE MCServiceCall ---------------------------
(***************************************************************************)
(* Instances of ServiceCall for TLC.                                       *)
(***************************************************************************)
EXTENDS ServiceCall
=============================================================================

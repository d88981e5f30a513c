------------------------------ MODULE SeqNum ------------------------------
(***************************************************************************)
(* Modular sequence numbers (snakeros/xrce/reliable.py).  The code works   *)
(* with 16-bit numbers, SEQNUM_MAX = 16#FFFF and _HALF = 16#8000; here the *)
(* width is the parameter Half so that TLC can walk the whole circle.      *)
(* `&' with SEQNUM_MAX is `%' with the modulus: both send a negative       *)
(* difference to its representative in 0 .. SeqMod - 1.                    *)
(***************************************************************************)
EXTENDS Integers

CONSTANT Half    \* half the sequence space (_HALF in the code)

ASSUME HalfAssumption == Half \in Nat \ {0}

SeqMod == 2 * Half
SeqNums == 0 .. SeqMod - 1

\* Mutant of seq_lt: the naive comparison, wrong where the numbers wrap.
seq_lt_Naive(a, b) == a < b

\* "a precedes b in modular sequence order"
seq_lt(a, b) == LET distance == (b - a) % SeqMod
                IN  distance # 0 /\ distance < Half

seq_le(a, b) == a = b \/ seq_lt(a, b)

seq_add(a, n) == (a + n) % SeqMod
=============================================================================

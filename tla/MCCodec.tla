------------------------------ MODULE MCCodec ------------------------------
(* Every shipped type, with the contents of a few shapes of message. *)
EXTENDS Codec, Messages

CONSTANTS MaxLength,  \* the longest string and sequence
          MaxLeaves   \* leaves of the largest message

\* Numbers and letters are told apart by where they are.
LeafOf(chars, items, i) ==
  [number |-> IF i % 5 = 0 THEN 0 ELSE ((11 * i) % 250) + 1,
   text |-> [j \in 1..chars |-> 97 + ((i + j) % 26)],
   count |-> items]

Samples == [m \in (0..MaxLength) \X (0..MaxLength) |->
              [i \in 1..MaxLeaves |-> LeafOf(m[1], m[2], i)]]

ResponseTypes ==
  {"Empty_Response", "SetBool_Response", "Trigger_Response", "DescribeParameters_Response",
   "GetParameterTypes_Response", "GetParameters_Response", "ListParameters_Response",
   "SetParametersAtomically_Response", "SetParameters_Response"}
=============================================================================

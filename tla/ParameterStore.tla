--------------------------- MODULE ParameterStore ---------------------------
(***************************************************************************)
(* What a parameter server promises.  An ordinary request is a row of      *)
(* assignments that succeed or fail each for itself.  An atomic request    *)
(* takes effect in one step, with its answer: either it sets everything it *)
(* asked for, the later of two assignments to a name winning, or nothing.  *)
(***************************************************************************)
EXTENDS Naturals, Sequences

CONSTANTS
  Names,
  Initial     \* what the parameters are when the node is built

VARIABLES
  store,      \* the value of each parameter
  asked,      \* the assignments of the request in progress: [name, value]
  atomic,     \* whether it is an atomic request
  told,       \* what its answer says of each assignment, so far
  phase       \* "no", "setting" or "reply"
vars == <<store, asked, atomic, told, phase>>

Init ==
  /\ store = Initial
  /\ asked = <<>> /\ atomic = FALSE /\ told = <<>> /\ phase = "no"

\* Whatever is asked.
Receive ==
  /\ phase = "no" /\ phase' = "setting"
  /\ told' = <<>>
  /\ UNCHANGED store

\* The next assignment of an ordinary request.
Assign(succeeds) ==
  LET next == asked[Len(told) + 1]
  IN  /\ phase = "setting" /\ ~ atomic /\ Len(told) < Len(asked)
      /\ told' = Append(told, succeeds)
      /\ store' = IF succeeds THEN [store EXCEPT ![next.name] = next.value] ELSE store
      /\ UNCHANGED <<asked, atomic, phase>>

Answer ==
  /\ phase = "setting" /\ ~ atomic /\ Len(told) = Len(asked)
  /\ phase' = "reply"
  /\ UNCHANGED <<store, asked, atomic, told>>

Naming(n) == {i \in DOMAIN asked : asked[i].name = n}
Latest(n) == CHOOSE i \in Naming(n) : \A j \in Naming(n) : j <= i

\* An atomic request, all of it.
Commit ==
  /\ phase = "setting" /\ atomic
  /\ store' = [n \in Names |-> IF Naming(n) = {} THEN store[n] ELSE asked[Latest(n)].value]
  /\ told' = [i \in DOMAIN asked |-> TRUE]
  /\ phase' = "reply"
  /\ UNCHANGED <<asked, atomic>>

\* An atomic request of which the last assignment tried was refused.
Refuse(last) ==
  /\ phase = "setting" /\ atomic
  /\ told' = [i \in 1 .. last |-> i < last]
  /\ phase' = "reply"
  /\ UNCHANGED <<store, asked, atomic>>

Return ==
  /\ phase = "reply" /\ phase' = "no"
  /\ asked' = <<>> /\ atomic' = FALSE /\ told' = <<>>
  /\ UNCHANGED store

\* The node sets one parameter of its own.
Local(n) ==
  /\ phase = "no"
  /\ \A m \in Names \ {n} : store'[m] = store[m]
  /\ UNCHANGED <<asked, atomic, told, phase>>

\* The node is built anew.
Restart ==
  /\ phase = "no"
  /\ store' = Initial
  /\ UNCHANGED <<asked, atomic, told, phase>>

Next ==
  \/ Receive \/ Answer \/ Commit \/ Return \/ Restart
  \/ \E succeeds \in BOOLEAN : Assign(succeeds)
  \/ \E last \in 1 .. Len(asked) : Refuse(last)
  \/ \E n \in Names : Local(n)

Spec == Init /\ [][Next]_vars
=============================================================================

--------------------------- MODULE StreamDelivery ---------------------------
(***************************************************************************)
(* What a reliable stream promises its user: messages, numbered in the     *)
(* order they were accepted, are handled by the Agent once each and in     *)
(* that order.  One is skipped only after the sender has given it up, and  *)
(* a message that was given up may still arrive, if its turn has not       *)
(* passed.                                                                 *)
(***************************************************************************)
EXTENDS Naturals

VARIABLES
  accepted,   \* how many messages the stream has taken
  handled,    \* those the Agent has handled
  forgone     \* those the sender no longer retains for a resend

vars == <<accepted, handled, forgone>>

Init ==
  /\ accepted = 0
  /\ handled = {}
  /\ forgone = {}

Accept ==
  /\ accepted' = accepted + 1
  /\ UNCHANGED <<handled, forgone>>

\* Everything before m was handled or given up; nothing after m was handled.
Handle(m) ==
  /\ m \notin handled
  /\ \A earlier \in 0 .. m - 1 : earlier \in handled \cup forgone
  /\ \A other \in handled : other < m
  /\ handled' = handled \cup {m}
  /\ UNCHANGED <<accepted, forgone>>

GiveUp(lost) ==
  /\ forgone' = forgone \cup lost
  /\ UNCHANGED <<accepted, handled>>

Next ==
  \/ Accept
  \/ \E m \in 0 .. accepted - 1 : Handle(m)
  \/ \E lost \in SUBSET (0 .. accepted - 1) : GiveUp(lost)

Spec == Init /\ [][Next]_vars
=============================================================================

------------------------------ MODULE FailSafe ------------------------------
(***************************************************************************)
(* What the reconnect loop takes a robot to be.  It has motors, which      *)
(* change in a control step and in a stop and at no other time, and        *)
(* commands that go stale.  A control step follows the last command while  *)
(* that is good, and afterwards leaves the motors standing.                *)
(***************************************************************************)

VARIABLES
  fresh,      \* the last command asks for motion and is not stale
  driving     \* the motors turn
vars == <<fresh, driving>>

Init == ~fresh /\ ~driving

\* A command, or the time that makes it stale.
Command == fresh' = TRUE /\ UNCHANGED driving
Expire == fresh' = FALSE /\ UNCHANGED driving

ControlStep == driving' = fresh /\ UNCHANGED fresh

\* on_disconnect.
Stop == driving' = FALSE /\ UNCHANGED fresh

\* The robot by itself, while its node spins.
Session == Command \/ Expire \/ ControlStep
SessionSpec == Init /\ [][Session]_vars

\* The robot and the loop around it.
Spec == Init /\ [][Session \/ Stop]_vars
=============================================================================

----------------------------- MODULE DiffDrive -----------------------------
(***************************************************************************)
(* The fail-safe of the differential-drive robot                           *)
(* (examples/diff_drive/robot.py) on a spinning node: cmd_vel samples come *)
(* through NodeSpin's subscription, control_step runs on its timer, and    *)
(* the motors must not outlive the commands, whatever is lost on the way.  *)
(*                                                                         *)
(* Commands are aged by time.time(), which moves in steps of ClockStep (a  *)
(* second on several boards).  Ages are counted from the command and stop  *)
(* at MaxAge, where a command is stale for good.                           *)
(***************************************************************************)
EXTENDS NodeSpin

CONSTANTS
  ClockStep,   \* resolution of time.time()
  Timeout,     \* CMD_TIMEOUT_S
  MaxAge       \* bound: older than any age that matters

ASSUME DriveAssumption ==
  /\ ClockStep \in Nat \ {0} /\ Timeout \in Nat
  /\ MaxAge \in Nat /\ MaxAge >= Timeout + ClockStep + Period + 2 * MaxGap

VARIABLES
  age,       \* true age of the last command
  clock,     \* how far time.time() is behind the true time
  asked,     \* whether target_linear, target_angular ask for motion
  turning,   \* whether the motors run
  halted     \* stopped_by_timeout
driveVars == <<age, clock, asked, turning, halted>>
vars == <<spinVars, driveVars>>

\* _last_cmd = 0.0: no command yet is a command long ago.
Init ==
  /\ SpinInit
  /\ age = MaxAge /\ clock = 0 /\ asked = FALSE /\ turning = FALSE /\ halted = FALSE

Passes(gap) ==
  /\ age' = IF age + gap < MaxAge THEN age + gap ELSE MaxAge
  /\ clock' = (clock + gap) % ClockStep

\* What time.time() - _last_cmd shows of the age.
ShownAge == IF age = MaxAge THEN MaxAge ELSE age - clock + ((clock - age) % ClockStep)

\* Mutant: a new command does not take back the stop.
OnCmdVel_KeepsFlag(moving) ==
  /\ asked' = moving /\ age' = 0
  /\ UNCHANGED <<clock, turning, halted>>

\* on_cmd_vel.
OnCmdVel(moving) ==
  /\ asked' = moving /\ age' = 0 /\ halted' = FALSE
  /\ UNCHANGED <<clock, turning>>

Stale == ShownAge > Timeout

\* control_step: stop once when the command is stale, drive otherwise.
ControlStep ==
  /\ IF Stale
     THEN turning' = (turning /\ halted) /\ halted' = TRUE
     ELSE turning' = asked /\ UNCHANGED halted
  /\ UNCHANGED <<age, clock, asked>>

\* A sample that does not decode is counted and dropped (_on_data).
ReceiveCommand == /\ Receive
                  /\ \/ UNCHANGED driveVars
                     \/ \E moving \in BOOLEAN : OnCmdVel(moving)

CheckTimers == /\ Timers
               /\ IF Due THEN ControlStep ELSE UNCHANGED driveVars

Moment(gap) == Passes(gap) /\ UNCHANGED <<asked, turning, halted>>

EndPoll == \E gap \in 1..MaxGap : PollEnds(gap) /\ Moment(gap)
Maintain == \E gap \in 0..MaxGap : Upkeep(gap) /\ Moment(gap)
Outside == Agent /\ UNCHANGED driveVars

Next == ReceiveCommand \/ CheckTimers \/ EndPoll \/ Maintain \/ Outside
Spec == Init /\ [][Next]_vars

\* The loop keeps turning, and the network does not lose every READ_DATA.
Fairness == /\ WF_vars(EndPoll) /\ WF_vars(CheckTimers) /\ WF_vars(Maintain)
            /\ SF_vars(AgentReads /\ UNCHANGED driveVars)
FairSpec == Spec /\ Fairness
-----------------------------------------------------------------------------
(***************************************************************************)
(* Properties.                                                             *)
(***************************************************************************)
\* "Fail safe: no command recently means stop": the motors outlive the last
\* command by no more than the timeout, the step of the clock, one period of the
\* control timer and the turn of the loop in which it falls due.
MotorsFollowCommands == turning => age < Timeout + (ClockStep - 1) + Period + 2 * MaxGap

\* They do while the control timer's time is a tick, also after the counter
\* wrapped and whatever time the timer lost there.
MotorsFollowTimer == ~ next.big => MotorsFollowCommands

\* Wherever the timer went, a stale command stops the motors in the end: it
\* comes due again before the ticks have come round, and control_step does not
\* take an old stop for a new one.
StaleStops == (turning /\ Stale) ~> ~ (turning /\ Stale)

\* A command that is still good is not cut short by more than a clock step.
NotTooSoon == halted => age > Timeout - ClockStep + 1

\* This is the robot that Resilience assumes: nothing but a control step moves
\* the motors, none moves them on a stale command, and the stop that a set
\* stopped_by_timeout lets control_step skip was always made.
Robot == INSTANCE FailSafe WITH fresh <- asked /\ ~Stale, driving <- turning
RobotSpec == Robot!SessionSpec

\* A subscription that used up its grant, or whose READ_DATA was lost, hears
\* from the Agent again (Subscription.maintain): silence is never for good.
SilenceEnds == (granted = 0) ~> (granted > 0)
=============================================================================

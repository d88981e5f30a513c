------------------------------ MODULE QwiicBot ------------------------------
(***************************************************************************)
(* The control of the QwiicBot (examples/qwiicbot/robot.py) over its       *)
(* parameter server: teleoperation with an obstacle veto and a command     *)
(* timeout, and the wander behaviour, switched by the parameter autonomous *)
(* whose callback acts on the motors while a request is being applied.     *)
(*                                                                         *)
(* Speeds and efforts are in hundredths, what Drive.set gives the motors;  *)
(* distances in centimetres, a missing echo being the longest.  Ages and   *)
(* the wander deadline are in turns of the clock and stop at MaxAge.       *)
(* The range finder may read anything at any time.                         *)
(***************************************************************************)
EXTENDS Parameters

CONSTANTS
  Readings,     \* of the range finder
  Speeds,       \* of a cmd_vel: linear
  Turns,        \* of a cmd_vel: angular * wheel_separation / 2
  Timeout,      \* CMD_TIMEOUT_S
  BackTime,     \* of the wander behaviour's backing
  TurnTime,     \* and of its turning
  MaxAge        \* bound: older than any age that matters

ASSUME BotAssumption ==
  /\ Readings \subseteq Nat /\ Speeds \subseteq Int /\ Turns \subseteq Int
  /\ {Timeout, BackTime, TurnTime, MaxAge} \subseteq Nat /\ MaxAge > Timeout + 1
  /\ {"max_speed", "stop_distance", "autonomous"} \subseteq Names
  /\ Declared["autonomous"].type = "BOOL" /\ Declared["autonomous"].callback
  /\ \A n \in Names \ {"autonomous"} : ~ Declared[n].callback
  /\ Declared["max_speed"].min = 0 /\ Declared["max_speed"].max = 100

VARIABLES
  drive,       \* efforts of the tracks
  target,      \* target_linear, target_angular
  age,         \* time since _last_cmd
  auto,        \* _auto_state
  until,       \* time to _auto_until
  ran,         \* whether a control step ran since the clock last turned
  clear        \* whether the last control step found the way ahead clear
botVars == <<drive, target, age, auto, until, ran, clear>>
vars == <<paramVars, botVars>>

Halt == [left |-> 0, right |-> 0]
autonomous == params["autonomous"].data = 1
max_speed == params["max_speed"].data
stop_distance == params["stop_distance"].data

BotInit ==
  /\ drive = Halt /\ target = [linear |-> 0, turn |-> 0]
  /\ age = MaxAge     \* _last_cmd = 0.0
  /\ auto = "drive" /\ until = 0 /\ ran = FALSE /\ clear = TRUE
Init == ParamInit /\ BotInit

Bound(x, low, high) == IF x < low THEN low ELSE IF x > high THEN high ELSE x
Abs(x) == IF x < 0 THEN - x ELSE x
Larger(x, y) == IF x > y THEN x ELSE y
\* int(abs(x) * 100) with the direction in a flag of its own: towards zero.
Part(x, d) == IF x < 0 THEN - ((- x) \div d) ELSE x \div d

\* Drive.set.
Set(left, right) == drive' = [left |-> Bound(left, -100, 100), right |-> Bound(right, -100, 100)]

\* on_cmd_vel.
OnCmdVel ==
  /\ serving = "no"
  /\ \E v \in Speeds, w \in Turns : target' = [linear |-> v, turn |-> w]
  /\ age' = 0 /\ UNCHANGED <<paramVars, drive, auto, until, ran, clear>>

\* Mutant: leaving the wander behaviour leaves the motors as they are.
OnAutonomous_NoStop(value) ==
  /\ UNCHANGED drive
  /\ auto' = IF value = 1 THEN "drive" ELSE auto

\* _on_autonomous.
OnAutonomous(value) ==
  /\ drive' = IF value = 1 THEN drive ELSE Halt
  /\ auto' = IF value = 1 THEN "drive" ELSE auto

\* The callback of setting s, before the value is known to stay.
Callback(s) ==
  /\ IF Calls(s) THEN OnAutonomous(Promoted(s.name, s.value).data) ELSE UNCHANGED <<drive, auto>>
  /\ UNCHANGED <<target, age, until, ran, clear>>

\* The parameter services; the callback is refused when the motors cannot be reached.
Serve ==
  \/ \E settings \in Requests, atomically \in BOOLEAN :
       Request(settings, atomically) /\ UNCHANGED botVars
  \/ \E accepts \in BOOLEAN : /\ SetEach(accepts) \/ SetAtomically(accepts)
                              /\ Callback(request[done + 1])
  \/ Answer /\ UNCHANGED botVars
  \/ Return /\ UNCHANGED botVars

\* on_autonomous_srv, whose answer is success either way.
OnAutonomousSrv ==
  \E value \in 0..1, accepts \in BOOLEAN :
    LET s == [name |-> "autonomous", value |-> [type |-> "BOOL", data |-> value]]
    IN  SetLocally(s, accepts) /\ Callback(s)

\* Mutant: only motion straight ahead is vetoed.
Vetoed_StraightOnly(reading) == target.linear > 0 /\ target.turn = 0 /\ reading < stop_distance

Vetoed(reading) == target.linear > 0 /\ reading < stop_distance

\* Mutant: the mix is scaled by its forward part alone.
Scale_Forward(left, right) == Larger(100, Abs((left + right) \div 2))

Scale(left, right) == Larger(100, Larger(Abs(left), Abs(right)))

\* _apply: mix, scale, and veto forward motion near an obstacle.
Apply(reading) ==
  LET linear == IF Vetoed(reading) THEN 0 ELSE target.linear
      left == linear - target.turn
      right == linear + target.turn
      scale == Scale(left, right)
  IN  Set(Part(max_speed * left, scale), Part(max_speed * right, scale))

\* Mutant: a robot whose commands have gone quiet keeps its course.
Teleop_NoTimeout(reading) == Apply(reading) /\ UNCHANGED <<auto, until>>

\* control_step without autonomy.
Teleop(reading) ==
  /\ IF age > Timeout THEN drive' = Halt ELSE Apply(reading)
  /\ UNCHANGED <<auto, until>>

\* _wander: drive up to a wall, back off, turn.
Wander(reading) ==
  \/ /\ auto = "drive" /\ reading < stop_distance
     /\ drive' = Halt /\ auto' = "back" /\ until' = BackTime
  \/ /\ auto = "drive" /\ reading >= stop_distance
     /\ Set(max_speed, max_speed) /\ UNCHANGED <<auto, until>>
  \/ /\ auto = "back"
     /\ Set(Part(-7 * max_speed, 10), Part(-7 * max_speed, 10))
     /\ IF until = 0 THEN auto' = "turn" /\ until' = TurnTime ELSE UNCHANGED <<auto, until>>
  \/ /\ auto = "turn"
     /\ Set(Part(7 * max_speed, 10), Part(-7 * max_speed, 10))
     /\ auto' = (IF until = 0 THEN "drive" ELSE auto) /\ UNCHANGED until

\* control_step, on its timer.
ControlStep ==
  /\ serving = "no"
  /\ \E reading \in Readings :
       /\ IF autonomous THEN Wander(reading) ELSE Teleop(reading)
       /\ clear' = (reading >= stop_distance)
  /\ ran' = TRUE
  /\ UNCHANGED <<paramVars, target, age>>

\* Time passes between control steps, at most one turn of the clock.
Tick ==
  /\ serving = "no" /\ ran
  /\ age' = (IF age < MaxAge THEN age + 1 ELSE age)
  /\ until' = (IF until > 0 THEN until - 1 ELSE 0)
  /\ ran' = FALSE
  /\ UNCHANGED <<paramVars, drive, target, auto, clear>>

\* The link is lost: stop(), and a new node with a new QwiicBot on it.
Rebuild ==
  /\ serving = "no"
  /\ params' = [n \in Names |-> Default(n)] /\ snapshot' = params'
  /\ drive' = Halt /\ target' = [linear |-> 0, turn |-> 0] /\ age' = MaxAge
  /\ auto' = "drive" /\ until' = 0 /\ ran' = FALSE /\ clear' = TRUE
  /\ UNCHANGED <<request, atomic, done, results, serving>>

Next == OnCmdVel \/ Serve \/ OnAutonomousSrv \/ ControlStep \/ Tick \/ Rebuild
Spec == Init /\ [][Next]_vars
-----------------------------------------------------------------------------
(***************************************************************************)
(* Properties.                                                             *)
(***************************************************************************)
Moving == drive # Halt
\* The robot makes way forwards only when the control step that set its motors
\* read a clear way, teleoperated or wandering, whatever is done to its
\* parameters ("obstacle veto on forward motion").
ForwardVeto == drive.left + drive.right > 0 => clear

\* A robot that is not wandering moves for no longer than the timeout and a
\* control step after its last command, also when it was stopped from
\* wandering by a request that was refused or rolled back.
StoppedUnlessCommanded == Moving => autonomous \/ age <= Timeout + 1

\* A control step gives neither track more than the ceiling that is set when
\* it runs, whatever the mix of speed and turn.
WithinCeiling == Abs(drive'.left) <= max_speed /\ Abs(drive'.right) <= max_speed
EffortCeiling == [][ControlStep => WithinCeiling]_vars
=============================================================================

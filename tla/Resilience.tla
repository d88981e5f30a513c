----------------------------- MODULE Resilience -----------------------------
(***************************************************************************)
(* A robot that survives a dropped link: ResilientNode                     *)
(* (snakeros/board.py) around the life cycle of a Node, its Session and    *)
(* its UDP socket, and the two fail-safes of DiffDriveRobot                *)
(* (examples/diff_drive/robot.py): on_disconnect and the command timeout.  *)
(*                                                                         *)
(* pc is where the one thread of the program stands.  The Agent crashes,   *)
(* restarts without its sessions, and answers late; every datagram lost or *)
(* late and every call that fails for a reason of its own is a fault, and  *)
(* a behaviour has at most MaxFaults of them.                              *)
(***************************************************************************)
EXTENDS Integers

CONSTANTS
  MaxMissed,       \* max_missed_pings
  Retries,         \* CREATE_CLIENT attempts of Session.connect
  MaxBackoff,      \* max_backoff_s, in units of retry_s
  MaxSockets,      \* size of the board's socket table
  Finalised,       \* whether gc.collect() closes sockets nothing refers to
  MaxFaults,       \* bound: faults of a behaviour
  InFlight         \* bound: GET_INFOs, and INFOs, under way at once

ASSUME ResilienceAssumption ==
  /\ MaxMissed \in Nat \ {0} /\ Retries \in Nat \ {0}
  /\ MaxBackoff \in Nat \ {0} /\ MaxSockets \in Nat \ {0}
  /\ InFlight \in Nat \ {0} /\ MaxFaults \in Nat
  /\ Finalised \in BOOLEAN

VARIABLES
  pc,            \* where the program stands
  node,          \* ResilientNode.node: none, a destroyed node, or a live one
  open,          \* the socket of the newest node is open
  leaked,        \* open sockets the program holds no reference to
  connected,     \* Session.connected of the newest node
  attempts,      \* CREATE_CLIENT attempts left
  backoff,       \* _backoff
  missed_pings,  \* missed_pings
  fresh,         \* the last cmd_vel is younger than CMD_TIMEOUT_S
  driving,       \* the motors turn
  agentUp,       \* the Agent runs
  agentKnows,    \* and has the session of the newest node
  goodbye,       \* the DELETE of an earlier session is under way
  probes,        \* GET_INFOs under way
  infos,         \* INFOs under way
  faults,        \* faults so far (bound)
  blame          \* history: faults since the last answered ping or setup

program == <<pc, node, open, leaked, connected, attempts, backoff, missed_pings>>
robot == <<fresh, driving>>
agent == <<agentUp, agentKnows>>
wire == <<goodbye, probes, infos>>
vars == <<program, robot, agent, wire, faults, blame>>

Places == {"factory", "handshake", "participant", "setup", "failed", "sleep",
           "spin", "ping", "lost", "exited"}

Flags ==
  /\ open \in BOOLEAN /\ connected \in BOOLEAN
  /\ fresh \in BOOLEAN /\ driving \in BOOLEAN
  /\ agentUp \in BOOLEAN /\ agentKnows \in BOOLEAN /\ goodbye \in BOOLEAN

Counters ==
  /\ leaked \in 0 .. MaxSockets
  /\ attempts \in 0 .. Retries
  /\ backoff \in 1 .. MaxBackoff
  /\ missed_pings \in 0 .. MaxMissed
  /\ probes \in 0 .. InFlight
  /\ infos \in 0 .. InFlight
  /\ faults \in 0 .. MaxFaults
  /\ blame \in 0 .. MaxFaults

TypeOK ==
  /\ pc \in Places
  /\ node \in {"none", "destroyed", "live"}
  /\ Flags
  /\ Counters

\* The Agent can do what the newest node asks of it.
Reachable == agentUp /\ agentKnows

\* Something outside the program goes wrong.
Fault ==
  /\ faults < MaxFaults
  /\ faults' = faults + 1
  /\ blame' = blame + 1

NoFault == UNCHANGED <<faults, blame>>

\* A request fails by itself when the Agent cannot answer, else by a fault.
Unanswered == IF Reachable THEN Fault ELSE NoFault

Init ==
  /\ pc = "factory" /\ node = "none"
  /\ open = FALSE /\ leaked = 0 /\ connected = FALSE
  /\ attempts = 0 /\ backoff = 1 /\ missed_pings = 0
  /\ fresh = FALSE /\ driving = FALSE
  /\ agentUp = TRUE /\ agentKnows = FALSE
  /\ goodbye = FALSE /\ probes = 0 /\ infos = 0
  /\ faults = 0 /\ blame = 0

-----------------------------------------------------------------------------
(* ResilientNode.connect.                                                  *)

\* factory() builds a Node; UDPTransport.open gets it a socket of its own.
Open ==
  /\ pc = "factory"
  /\ leaked < MaxSockets
  /\ pc' = "handshake"
  /\ open' = TRUE /\ connected' = FALSE /\ attempts' = Retries
  /\ agentKnows' = FALSE /\ probes' = 0 /\ infos' = 0
  /\ NoFault
  /\ UNCHANGED <<node, leaked, backoff, missed_pings, robot, agentUp, goodbye>>

\* The resolver fails, or the socket table is full.
OpenFails ==
  /\ pc = "factory"
  /\ IF leaked = MaxSockets THEN NoFault ELSE Fault
  /\ pc' = "failed"
  /\ UNCHANGED <<node, open, leaked, connected, attempts, backoff, missed_pings,
                 robot, agent, wire>>

\* One CREATE_CLIENT reaches the Agent, and its STATUS_AGENT comes back.
Handshake ==
  /\ pc = "handshake" /\ agentUp
  /\ pc' = "participant"
  /\ connected' = TRUE /\ agentKnows' = TRUE
  /\ NoFault
  /\ UNCHANGED <<node, open, leaked, attempts, backoff, missed_pings, robot,
                 agentUp, wire>>

\* No answer in this attempt's share of the timeout, though the request may
\* have arrived, or the Agent refuses.  After the last attempt, or a refusal,
\* Session.connect closes the transport.
HandshakeFails == \E refused \in BOOLEAN :
  /\ pc = "handshake"
  /\ refused => agentUp
  /\ IF agentUp
     THEN /\ Fault
          /\ \E arrived \in BOOLEAN : agentKnows' = (agentKnows \/ (arrived /\ ~refused))
     ELSE NoFault /\ UNCHANGED agentKnows
  /\ attempts' = attempts - 1
  /\ IF attempts = 1 \/ refused THEN pc' = "failed" /\ open' = FALSE
                                ELSE UNCHANGED <<pc, open>>
  /\ UNCHANGED <<node, leaked, connected, backoff, missed_pings, robot, agentUp, wire>>

\* Node.connect creates the participant; factory() returns the node.
CreateParticipant ==
  /\ pc = "participant" /\ Reachable
  /\ pc' = "setup" /\ node' = "live"
  /\ NoFault
  /\ UNCHANGED <<open, leaked, connected, attempts, backoff, missed_pings,
                 robot, agent, wire>>

\* EntityError out of Node.__init__: nobody is left to close the session.
CreateParticipantFails ==
  /\ pc = "participant"
  /\ Unanswered
  /\ pc' = "failed"
  /\ open' = FALSE /\ leaked' = leaked + 1 /\ connected' = FALSE
  /\ UNCHANGED <<node, attempts, backoff, missed_pings, robot, agent, wire>>

\* setup(node) builds a new robot, whose subscription may already have heard
\* a command by the time the last of its entities is created.
Setup ==
  /\ pc = "setup" /\ Reachable
  /\ pc' = "spin"
  /\ backoff' = 1
  /\ fresh' \in BOOLEAN
  /\ faults' = faults /\ blame' = 0
  /\ UNCHANGED <<node, open, leaked, connected, attempts, missed_pings, driving,
                 agent, wire>>

SetupFails ==
  /\ pc = "setup"
  /\ Unanswered
  /\ pc' = "failed"
  /\ UNCHANGED <<node, open, leaked, connected, attempts, backoff, missed_pings,
                 robot, agent, wire>>

\* Node.destroy, Session.close: DELETE if connected, then close the socket.
Destroy ==
  /\ goodbye' = (goodbye \/ connected)
  /\ connected' = FALSE
  /\ open' = FALSE

Collect_Omitted == UNCHANGED leaked          \* mutant of Collect: no gc.collect()

Collect == leaked' = IF Finalised THEN 0 ELSE leaked

\* The except clause.  The node it finds may be the one an earlier spin_once
\* destroyed; destroying that one again has no effect.
TearDown ==
  /\ pc = "failed"
  /\ IF node = "live" THEN Destroy ELSE UNCHANGED <<goodbye, connected, open>>
  /\ node' = "none"
  /\ Collect
  /\ pc' = "sleep"
  /\ UNCHANGED <<attempts, backoff, missed_pings, robot, agent, probes, infos,
                 faults, blame>>

Doubled == 2 * backoff                            \* mutant of NextBackoff

NextBackoff == IF 2 * backoff < MaxBackoff THEN 2 * backoff ELSE MaxBackoff

Sleep ==
  /\ pc = "sleep"
  /\ backoff' = NextBackoff
  /\ pc' = "factory"
  /\ UNCHANGED <<node, open, leaked, connected, attempts, missed_pings, robot,
                 agent, wire, faults, blame>>

-----------------------------------------------------------------------------
(* ResilientNode.spin_once.                                                *)

\* Mutant of ControlStep: a stale command is not looked for.
ControlStep_NoTimeout == driving' = (driving \/ fresh)

\* DiffDriveRobot.control_step: drive on a fresh command, stop on a stale one.
ControlStep == driving' = fresh

\* node.spin_once: the poll discards INFOs; control_step may be due.
Spin(due) ==
  /\ pc = "spin"
  /\ infos' \in 0 .. infos
  /\ IF due THEN ControlStep ELSE UNCHANGED driving

\* No probe is due.
SpinQuietly == \E due \in BOOLEAN :
  /\ Spin(due)
  /\ UNCHANGED <<program, fresh, agent, goodbye, probes, faults, blame>>

\* liveness_s have passed: _check_liveness sends GET_INFO.
SpinAndProbe == \E due \in BOOLEAN :
  /\ Spin(due)
  /\ pc' = "ping"
  /\ probes' = IF probes < InFlight THEN probes + 1 ELSE probes
  /\ UNCHANGED <<node, open, leaked, connected, attempts, backoff, missed_pings,
                 fresh, agent, goodbye, faults, blame>>

\* A send fails or a callback raises, in node.spin_once or in ping.
Raises ==
  /\ pc \in {"spin", "ping"}
  /\ Fault
  /\ pc' = "lost"
  /\ UNCHANGED <<node, open, leaked, connected, attempts, backoff, missed_pings,
                 robot, agent, wire>>

\* Mutant of PingAnswered: the misses of a whole run add up.
PingAnswered_NoReset ==
  /\ pc = "ping" /\ infos > 0
  /\ infos' = infos - 1
  /\ blame' = 0
  /\ pc' = "spin"
  /\ UNCHANGED <<node, open, leaked, connected, attempts, backoff, missed_pings,
                 robot, agent, goodbye, probes, faults>>

\* Any INFO counts, one that answers an earlier probe as well.
PingAnswered ==
  /\ pc = "ping" /\ infos > 0
  /\ infos' = infos - 1
  /\ missed_pings' = 0 /\ blame' = 0
  /\ pc' = "spin"
  /\ UNCHANGED <<node, open, leaked, connected, attempts, backoff, robot, agent,
                 goodbye, probes, faults>>

\* Mutant of PingMissed: the limit is never reached.
PingMissed_Forgiving ==
  /\ pc = "ping"
  /\ IF infos > 0 \/ (Reachable /\ probes > 0) THEN Fault ELSE NoFault
  /\ missed_pings' = 0
  /\ pc' = "spin"
  /\ UNCHANGED <<node, open, leaked, connected, attempts, backoff, robot, agent, wire>>

\* 400 ms without an INFO; at the limit spin_once raises.
PingMissed ==
  /\ pc = "ping"
  /\ IF infos > 0 \/ (Reachable /\ probes > 0) THEN Fault ELSE NoFault
  /\ missed_pings' = missed_pings + 1
  /\ pc' = IF missed_pings + 1 < MaxMissed THEN "spin" ELSE "lost"
  /\ UNCHANGED <<node, open, leaked, connected, attempts, backoff, robot, agent, wire>>

\* Mutant of Lost: the next session is not built before spinning goes on.
Lost_NoReconnect ==
  /\ pc = "lost"
  /\ driving' = FALSE
  /\ missed_pings' = 0
  /\ Destroy
  /\ node' = "destroyed"
  /\ Collect
  /\ pc' = "spin"
  /\ UNCHANGED <<attempts, backoff, fresh, agent, probes, infos, faults, blame>>

\* Mutant of Lost: on_disconnect is not called.
Lost_Silently ==
  /\ pc = "lost"
  /\ missed_pings' = 0
  /\ Destroy
  /\ node' = "destroyed"
  /\ Collect
  /\ pc' = "factory"
  /\ UNCHANGED <<attempts, backoff, robot, agent, probes, infos, faults, blame>>

\* The except clause of spin_once: on_disconnect, destroy, then connect.
Lost ==
  /\ pc = "lost"
  /\ driving' = FALSE
  /\ missed_pings' = 0
  /\ Destroy
  /\ node' = "destroyed"
  /\ Collect
  /\ pc' = "factory"
  /\ UNCHANGED <<attempts, backoff, fresh, agent, probes, infos, faults, blame>>

\* Ctrl-C at any time: spin, or main, returns, and nothing stops the motors.
Interrupt ==
  /\ pc # "exited"
  /\ pc' = "exited"
  /\ UNCHANGED <<node, open, leaked, connected, attempts, backoff, missed_pings,
                 robot, agent, wire, faults, blame>>

-----------------------------------------------------------------------------
(* The robot's commands and the Agent.                                     *)

\* on_cmd_vel, from a poll of node.spin_once or of ping.
Command ==
  /\ pc \in {"spin", "ping"} /\ Reachable
  /\ fresh' = TRUE
  /\ UNCHANGED <<program, driving, agent, wire, faults, blame>>

\* CMD_TIMEOUT_S pass without another command.
Expire ==
  /\ fresh
  /\ fresh' = FALSE
  /\ UNCHANGED <<program, driving, agent, wire, faults, blame>>

AgentInfo ==
  /\ probes > 0 /\ Reachable
  /\ probes' = probes - 1
  /\ infos' = IF infos < InFlight THEN infos + 1 ELSE infos
  /\ UNCHANGED <<program, robot, agent, goodbye, faults, blame>>

AgentCrash ==
  /\ agentUp
  /\ Fault
  /\ agentUp' = FALSE /\ agentKnows' = FALSE
  /\ UNCHANGED <<program, robot, wire>>

AgentRestart ==
  /\ ~agentUp
  /\ agentUp' = TRUE
  /\ UNCHANGED <<program, robot, agentKnows, wire, faults, blame>>

LoseProbe ==
  /\ probes > 0
  /\ Fault
  /\ probes' = probes - 1
  /\ UNCHANGED <<program, robot, agent, goodbye, infos>>

LoseInfo ==
  /\ infos > 0
  /\ Fault
  /\ infos' = infos - 1
  /\ UNCHANGED <<program, robot, agent, goodbye, probes>>

\* The client key is the same in every session: a DELETE that is overtaken
\* by the next CREATE_CLIENT ends the new session.
Goodbye ==
  /\ goodbye
  /\ goodbye' = FALSE
  /\ \/ NoFault /\ UNCHANGED agentKnows
     \/ Fault /\ agentKnows' = FALSE
  /\ UNCHANGED <<program, robot, agentUp, probes, infos>>

Connecting ==
  \/ Open \/ OpenFails
  \/ Handshake \/ HandshakeFails
  \/ CreateParticipant \/ CreateParticipantFails
  \/ Setup \/ SetupFails
  \/ TearDown \/ Sleep

Spinning ==
  \/ SpinQuietly \/ SpinAndProbe \/ Raises
  \/ PingAnswered \/ PingMissed
  \/ Lost

Environment ==
  \/ Command \/ Expire
  \/ AgentInfo \/ AgentCrash \/ AgentRestart
  \/ LoseProbe \/ LoseInfo \/ Goodbye

Next == Connecting \/ Spinning \/ Interrupt \/ Environment

Spec == Init /\ [][Next]_vars

(* The program always takes its next step, its timers and the probe come   *)
(* due again and again, time passes, and the Agent answers what reaches it.*)
Fairness ==
  /\ WF_vars(Connecting \/ Spinning)
  /\ SF_vars(Spin(TRUE) /\ Spinning)
  /\ SF_vars(SpinAndProbe)
  /\ WF_vars(AgentInfo)

FairSpec == Spec /\ Fairness

-----------------------------------------------------------------------------
(* Properties.                                                             *)

InSession == pc \in {"spin", "ping"}

\* "It calls on_disconnect so the application can stop the motors": they
\* turn only between setup and the end of a session, never while the
\* program destroys a node, waits, or builds the next one.
StoppedWhileDown == driving => InSession \/ pc \in {"lost", "exited"}

\* A session runs on an open socket of its own, on a node that spin_once can
\* destroy, whatever attempts failed before it.
SessionOwned == InSession => node = "live" /\ open /\ connected

\* The Agent is never given up for missed pings unless there were as many
\* faults since it last answered, or it is gone or has lost the session.
NoFalseAlarm ==
  pc = "lost" /\ missed_pings = MaxMissed => blame >= MaxMissed \/ ~Reachable

\* To the robot the reconnect loop does what a session does, and stops it.
Robot == INSTANCE FailSafe
RobotSpec == Robot!Spec

\* "Each attempt leaks a socket" is what the except clause of connect works
\* against: what a failed attempt left behind is gone before the next one, and
\* attempts without number never fill the socket table, where the collector
\* closes what nothing refers to.
NothingLeaked == Finalised /\ leaked > 0 => leaked = 1 /\ pc \in {"failed", "exited"}

Exits == pc = "exited"

\* When the Agent stays, a session with it is reached and kept.
Recovers == <>[]agentUp => <>Exits \/ <>[](InSession /\ agentKnows)

\* When the Agent is gone for good the program notices, late INFOs or not.
DetectsDeath == <>[]~agentUp => <>[]~InSession

\* A stale command stops being followed as long as the program runs, the
\* time it spends in a ping, on a lost link or in a new handshake included.
StaleStopsRunning == driving /\ ~fresh ~> ~driving \/ fresh \/ Exits

-----------------------------------------------------------------------------
(* The inductive invariant behind the safety properties above.             *)

\* What each place in the program may count on.
Lifecycle ==
  /\ pc \in {"handshake", "participant", "setup"} \/ InSession =>
       open /\ leaked < MaxSockets
  /\ pc = "handshake" => attempts > 0
  /\ pc \in {"participant", "setup"} \/ InSession => connected
  /\ pc = "setup" \/ InSession => node = "live"

\* A miss is counted only in a session, and is never counted without cause.
Blamed ==
  /\ blame <= faults
  /\ agentKnows => agentUp
  /\ InSession => missed_pings < MaxMissed
  /\ InSession \/ pc \in {"lost", "exited"} \/ missed_pings = 0
  /\ InSession /\ Reachable => missed_pings <= blame
  /\ pc = "ping" /\ Reachable /\ probes = 0 /\ infos = 0 => missed_pings < blame

ResilienceInv ==
  /\ TypeOK
  /\ Lifecycle
  /\ Blamed
  /\ StoppedWhileDown
  /\ NoFalseAlarm
=============================================================================

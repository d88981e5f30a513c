-------------------------- MODULE ResilienceProofs --------------------------
(***************************************************************************)
(* The safety properties of Resilience, for every number of missed pings,  *)
(* handshake attempts, sockets and faults, whether or not the collector    *)
(* closes sockets and the user may press Ctrl-C.                           *)
(***************************************************************************)
EXTENDS Resilience, TLAPS

USE ResilienceAssumption

PlacesOK == pc \in Places /\ node \in {"none", "destroyed", "live"}

\* The program starts safely: nothing open, nothing turning, nothing missed.
LEMMA StartSafe == Init => ResilienceInv
<1> SUFFICES ASSUME Init PROVE ResilienceInv
  OBVIOUS
<1> USE DEF Init
<1>1. PlacesOK /\ Flags
  BY DEF PlacesOK, Places, Flags
<1>2. Counters
  BY DEF Counters
<1>3. Lifecycle /\ Blamed
  BY DEF Lifecycle, Blamed, InSession, Reachable
<1>4. StoppedWhileDown /\ NoFalseAlarm
  BY DEF StoppedWhileDown, NoFalseAlarm
<1> QED
  BY <1>1, <1>2, <1>3, <1>4 DEF ResilienceInv, TypeOK, PlacesOK

\* Every step leads to one of the places, and to a node of a known kind.
LEMMA PlacesKept == ResilienceInv /\ Next => PlacesOK'
<1> SUFFICES ASSUME ResilienceInv, Next PROVE PlacesOK'
  OBVIOUS
<1> USE DEF ResilienceInv, TypeOK, PlacesOK, Places, program, robot, agent,
            wire
<1>1. CASE Open \/ OpenFails \/ Handshake \/ HandshakeFails \/
         CreateParticipant \/ CreateParticipantFails \/ Setup \/ SetupFails
         \/ TearDown \/ Sleep
  BY <1>1 DEF Open, NoFault, OpenFails, Fault, Handshake, HandshakeFails,
    CreateParticipant, CreateParticipantFails, Unanswered, Setup, SetupFails,
    TearDown, Destroy, Collect, Sleep, NextBackoff
<1>2. CASE SpinQuietly \/ SpinAndProbe \/ Raises \/ PingAnswered \/
         PingMissed \/ Lost
  BY <1>2 DEF SpinQuietly, Spin, ControlStep, SpinAndProbe, Raises, Fault,
    PingAnswered, PingMissed, NoFault, Lost, Destroy, Collect
<1>3. CASE Command \/ Expire \/ AgentInfo \/ AgentCrash \/ AgentRestart \/
         LoseProbe \/ LoseInfo \/ Goodbye
  BY <1>3 DEF Command, Expire, AgentInfo, AgentCrash, Fault, AgentRestart,
    LoseProbe, LoseInfo, Goodbye, NoFault
<1>4. CASE Interrupt
  BY <1>4 DEF Interrupt
<1> QED
  BY <1>1, <1>2, <1>3, <1>4
  DEF Next, Connecting, Spinning, Environment

\* Every flag stays a Boolean.
LEMMA FlagsKept == ResilienceInv /\ Next => Flags'
<1> SUFFICES ASSUME ResilienceInv, Next PROVE Flags'
  OBVIOUS
<1> USE DEF ResilienceInv, TypeOK, Flags, program, robot, agent, wire
<1>1. CASE HandshakeFails
  BY <1>1 DEF HandshakeFails, Fault, NoFault
<1>2. CASE TearDown
  BY <1>2 DEF TearDown, Destroy, Collect
<1>3. CASE Open \/ OpenFails \/ Handshake \/ CreateParticipant \/
         CreateParticipantFails \/ Setup \/ SetupFails \/ Sleep
  BY <1>3 DEF Open, NoFault, OpenFails, Fault, Handshake, CreateParticipant,
    CreateParticipantFails, Unanswered, Setup, SetupFails, Sleep, NextBackoff
<1>4. CASE Lost
  BY <1>4 DEF Lost, Destroy, Collect
<1>5. CASE SpinQuietly \/ SpinAndProbe \/ Raises \/ PingAnswered \/
         PingMissed
  BY <1>5 DEF SpinQuietly, Spin, ControlStep, SpinAndProbe, Raises, Fault,
    PingAnswered, PingMissed, NoFault
<1>6. CASE Goodbye
  BY <1>6 DEF Goodbye, Fault, NoFault
<1>7. CASE Command \/ Expire \/ AgentInfo \/ AgentCrash \/ AgentRestart \/
         LoseProbe \/ LoseInfo
  BY <1>7 DEF Command, Expire, AgentInfo, AgentCrash, Fault, AgentRestart,
    LoseProbe, LoseInfo
<1>8. CASE Interrupt
  BY <1>8 DEF Interrupt
<1> QED
  BY <1>1, <1>2, <1>3, <1>4, <1>5, <1>6, <1>7, <1>8
  DEF Next, Connecting, Spinning, Environment

\* What is counted down is positive before, what is counted up below its bound.
LEMMA CountersKept == ResilienceInv /\ Next => Counters'
<1> SUFFICES ASSUME ResilienceInv, Next PROVE Counters'
  OBVIOUS
<1> USE DEF ResilienceInv, TypeOK, Counters, Lifecycle, Blamed, InSession,
            Reachable, program, robot, agent, wire
<1>1. CASE HandshakeFails
  BY <1>1 DEF HandshakeFails, Fault, NoFault
<1>2. CASE CreateParticipantFails
  BY <1>2 DEF CreateParticipantFails, Unanswered, Fault, NoFault
<1>3. CASE TearDown
  BY <1>3 DEF TearDown, Destroy, Collect
<1>4. CASE Sleep
  BY <1>4 DEF Sleep, NextBackoff
<1>5. CASE Open \/ OpenFails \/ Handshake \/ CreateParticipant \/ Setup \/
         SetupFails
  BY <1>5 DEF Open, NoFault, OpenFails, Fault, Handshake, CreateParticipant,
    Setup, SetupFails, Unanswered
<1>6. CASE SpinAndProbe
  BY <1>6 DEF SpinAndProbe, Spin, ControlStep
<1>7. CASE PingMissed
  BY <1>7 DEF PingMissed, Fault, NoFault
<1>8. CASE SpinQuietly \/ Raises \/ PingAnswered \/ Lost
  BY <1>8 DEF SpinQuietly, Spin, ControlStep, Raises, Fault, PingAnswered,
    Lost, Destroy, Collect
<1>9. CASE AgentInfo
  BY <1>9 DEF AgentInfo
<1>10. CASE Goodbye
  BY <1>10 DEF Goodbye, Fault, NoFault
<1>11. CASE Command \/ Expire \/ AgentCrash \/ AgentRestart \/ LoseProbe \/
         LoseInfo
  BY <1>11 DEF Command, Expire, AgentCrash, Fault, AgentRestart, LoseProbe,
    LoseInfo
<1>12. CASE Interrupt
  BY <1>12 DEF Interrupt
<1> QED
  BY <1>1, <1>2, <1>3, <1>4, <1>5, <1>6, <1>7, <1>8, <1>9, <1>10, <1>11,
     <1>12
  DEF Next, Connecting, Spinning, Environment

\* Every place is entered with what it counts on.
LEMMA LifecycleKept == ResilienceInv /\ Next => Lifecycle'
<1> SUFFICES ASSUME ResilienceInv, Next PROVE Lifecycle'
  OBVIOUS
<1> USE DEF ResilienceInv, TypeOK, Counters, Flags, Places, Lifecycle,
            InSession, Reachable, program, robot, agent, wire
<1>1. CASE Open
  BY <1>1 DEF Open, NoFault
<1>2. CASE HandshakeFails
  <2>1. PICK refused \in BOOLEAN :
          /\ pc = "handshake"
          /\ attempts' = attempts - 1
          /\ IF attempts = 1 \/ refused THEN pc' = "failed" /\ open' = FALSE
                                        ELSE UNCHANGED <<pc, open>>
          /\ UNCHANGED <<node, leaked, connected>>
    BY <1>2 DEF HandshakeFails
  <2>2. CASE attempts = 1 \/ refused
    BY <2>1, <2>2
  <2>3. CASE ~(attempts = 1 \/ refused)
    BY <2>1, <2>3
  <2> QED
    BY <2>2, <2>3
<1>3. CASE CreateParticipantFails
  BY <1>3 DEF CreateParticipantFails, Unanswered, Fault, NoFault
<1>4. CASE TearDown
  BY <1>4 DEF TearDown, Destroy, Collect
<1>5. CASE OpenFails \/ Handshake \/ CreateParticipant \/ Setup \/ SetupFails
         \/ Sleep
  BY <1>5 DEF OpenFails, Fault, NoFault, Handshake, CreateParticipant, Setup,
    SetupFails, Unanswered, Sleep, NextBackoff
<1>6. CASE Lost
  BY <1>6 DEF Lost, Destroy, Collect
<1>7. CASE SpinQuietly \/ SpinAndProbe \/ Raises \/ PingAnswered \/
         PingMissed
  BY <1>7 DEF SpinQuietly, Spin, ControlStep, SpinAndProbe, Raises, Fault,
    PingAnswered, PingMissed, NoFault
<1>8. CASE Command \/ Expire \/ AgentInfo \/ AgentCrash \/ AgentRestart \/
         LoseProbe \/ LoseInfo \/ Goodbye
  BY <1>8 DEF Command, Expire, AgentInfo, AgentCrash, Fault, AgentRestart,
    LoseProbe, LoseInfo, Goodbye, NoFault
<1>9. CASE Interrupt
  BY <1>9 DEF Interrupt
<1> QED
  BY <1>1, <1>2, <1>3, <1>4, <1>5, <1>6, <1>7, <1>8, <1>9
  DEF Next, Connecting, Spinning, Environment

\* A miss of a reachable Agent has cost a fault since the last answer.
LEMMA BlamedKept == ResilienceInv /\ Next => Blamed'
<1> SUFFICES ASSUME ResilienceInv, Next PROVE Blamed'
  OBVIOUS
<1> USE DEF ResilienceInv, TypeOK, Counters, Flags, Places, Blamed,
            InSession, Reachable, program, robot, agent, wire
<1>1. CASE Open
  BY <1>1 DEF Open, NoFault
<1>2. CASE OpenFails
  BY <1>2 DEF OpenFails, Fault, NoFault
<1>3. CASE Handshake
  BY <1>3 DEF Handshake, NoFault
<1>4. CASE HandshakeFails
  BY <1>4 DEF HandshakeFails, Fault, NoFault
<1>5. CASE CreateParticipant
  BY <1>5 DEF CreateParticipant, NoFault
<1>6. CASE CreateParticipantFails
  BY <1>6 DEF CreateParticipantFails, Unanswered, Fault, NoFault
<1>7. CASE Setup
  BY <1>7 DEF Setup
<1>8. CASE SetupFails
  BY <1>8 DEF SetupFails, Unanswered, Fault, NoFault
<1>9. CASE TearDown
  BY <1>9 DEF TearDown, Destroy, Collect
<1>10. CASE Sleep
  BY <1>10 DEF Sleep, NextBackoff
<1>11. CASE SpinQuietly
  BY <1>11 DEF SpinQuietly, Spin, ControlStep
<1>12. CASE SpinAndProbe
  BY <1>12 DEF SpinAndProbe, Spin, ControlStep
<1>13. CASE Raises
  BY <1>13 DEF Raises, Fault
<1>14. CASE PingAnswered
  BY <1>14 DEF PingAnswered
<1>15. CASE PingMissed
  BY <1>15 DEF PingMissed, Fault, NoFault
<1>16. CASE Lost
  BY <1>16 DEF Lost, Destroy, Collect
<1>17. CASE Command
  BY <1>17 DEF Command
<1>18. CASE Expire
  BY <1>18 DEF Expire
<1>19. CASE AgentInfo
  BY <1>19 DEF AgentInfo
<1>20. CASE AgentCrash
  BY <1>20 DEF AgentCrash, Fault
<1>21. CASE AgentRestart
  BY <1>21 DEF AgentRestart
<1>22. CASE LoseProbe
  BY <1>22 DEF LoseProbe, Fault
<1>23. CASE LoseInfo
  BY <1>23 DEF LoseInfo, Fault
<1>24. CASE Goodbye
  BY <1>24 DEF Goodbye, Fault, NoFault
<1>25. CASE Interrupt
  BY <1>25 DEF Interrupt
<1> QED
  BY <1>1, <1>2, <1>3, <1>4, <1>5, <1>6, <1>7, <1>8, <1>9, <1>10, <1>11,
     <1>12, <1>13, <1>14, <1>15, <1>16, <1>17, <1>18, <1>19, <1>20, <1>21,
     <1>22, <1>23, <1>24, <1>25
  DEF Next, Connecting, Spinning, Environment

\* The only way out of a session, but for Ctrl-C, is through on_disconnect.
LEMMA MotorsKept == ResilienceInv /\ Next => StoppedWhileDown'
<1> SUFFICES ASSUME ResilienceInv, Next PROVE StoppedWhileDown'
  OBVIOUS
<1> USE DEF ResilienceInv, TypeOK, Flags, Places, StoppedWhileDown,
            InSession, Reachable, program, robot, agent, wire
<1>1. CASE Setup
  BY <1>1 DEF Setup
<1>2. CASE Open \/ OpenFails \/ Handshake \/ HandshakeFails \/
         CreateParticipant \/ CreateParticipantFails \/ SetupFails \/
         TearDown \/ Sleep
  BY <1>2 DEF Open, NoFault, OpenFails, Fault, Handshake, HandshakeFails,
    CreateParticipant, CreateParticipantFails, Unanswered, SetupFails,
    TearDown, Destroy, Collect, Sleep, NextBackoff
<1>3. CASE SpinQuietly
  BY <1>3 DEF SpinQuietly, Spin, ControlStep
<1>4. CASE SpinAndProbe
  BY <1>4 DEF SpinAndProbe, Spin, ControlStep
<1>5. CASE Raises
  BY <1>5 DEF Raises, Fault
<1>6. CASE PingMissed
  BY <1>6 DEF PingMissed, Fault, NoFault
<1>7. CASE Lost
  BY <1>7 DEF Lost, Destroy, Collect
<1>8. CASE PingAnswered
  BY <1>8 DEF PingAnswered
<1>9. CASE Command \/ Expire \/ AgentInfo \/ AgentCrash \/ AgentRestart \/
         LoseProbe \/ LoseInfo \/ Goodbye
  BY <1>9 DEF Command, Expire, AgentInfo, AgentCrash, Fault, AgentRestart,
    LoseProbe, LoseInfo, Goodbye, NoFault
<1>10. CASE Interrupt
  BY <1>10 DEF Interrupt
<1> QED
  BY <1>1, <1>2, <1>3, <1>4, <1>5, <1>6, <1>7, <1>8, <1>9, <1>10
  DEF Next, Connecting, Spinning, Environment

\* The ping that completes the limit was not missed without cause either.
LEMMA AlarmKept == ResilienceInv /\ Next => NoFalseAlarm'
<1> SUFFICES ASSUME ResilienceInv, Next PROVE NoFalseAlarm'
  OBVIOUS
<1> USE DEF ResilienceInv, TypeOK, Counters, Flags, Places, Blamed,
            NoFalseAlarm, InSession, Reachable, program, robot, agent, wire
<1>1. CASE Handshake
  BY <1>1 DEF Handshake, NoFault
<1>2. CASE Open \/ OpenFails \/ HandshakeFails \/ CreateParticipant \/
         CreateParticipantFails \/ Setup \/ SetupFails \/ TearDown \/ Sleep
  BY <1>2 DEF Open, NoFault, OpenFails, Fault, HandshakeFails,
    CreateParticipant, CreateParticipantFails, Unanswered, Setup, SetupFails,
    TearDown, Destroy, Collect, Sleep, NextBackoff
<1>3. CASE Raises
  BY <1>3 DEF Raises, Fault
<1>4. CASE PingMissed
  BY <1>4 DEF PingMissed, Fault, NoFault
<1>5. CASE SpinQuietly \/ SpinAndProbe \/ PingAnswered \/ Lost
  BY <1>5 DEF SpinQuietly, Spin, ControlStep, SpinAndProbe, PingAnswered,
    Lost, Destroy, Collect
<1>6. CASE AgentCrash
  BY <1>6 DEF AgentCrash, Fault
<1>7. CASE AgentRestart
  BY <1>7 DEF AgentRestart
<1>8. CASE LoseProbe
  BY <1>8 DEF LoseProbe, Fault
<1>9. CASE LoseInfo
  BY <1>9 DEF LoseInfo, Fault
<1>10. CASE Goodbye
  BY <1>10 DEF Goodbye, Fault, NoFault
<1>11. CASE Command \/ Expire \/ AgentInfo
  BY <1>11 DEF Command, Expire, AgentInfo
<1>12. CASE Interrupt
  BY <1>12 DEF Interrupt
<1> QED
  BY <1>1, <1>2, <1>3, <1>4, <1>5, <1>6, <1>7, <1>8, <1>9, <1>10, <1>11,
     <1>12
  DEF Next, Connecting, Spinning, Environment

\* The whole invariant is kept by a step and by stuttering.
LEMMA StepSafe == ResilienceInv /\ [Next]_vars => ResilienceInv'
<1>1. ASSUME ResilienceInv, Next PROVE ResilienceInv'
  <2>1. TypeOK'
    BY <1>1, PlacesKept, FlagsKept, CountersKept DEF TypeOK, PlacesOK
  <2> QED
    BY <1>1, <2>1, LifecycleKept, BlamedKept, MotorsKept, AlarmKept
    DEF ResilienceInv
<1>2. ASSUME ResilienceInv, UNCHANGED vars PROVE ResilienceInv'
  <2> USE <1>2 DEF ResilienceInv, vars, program, robot, agent, wire
  <2>1. TypeOK'
    BY DEF TypeOK, Flags, Counters
  <2>2. Lifecycle' /\ Blamed'
    BY DEF Lifecycle, Blamed, InSession, Reachable
  <2>3. StoppedWhileDown' /\ NoFalseAlarm'
    BY DEF StoppedWhileDown, NoFalseAlarm, InSession, Reachable
  <2> QED
    BY <2>1, <2>2, <2>3
<1> QED
  BY <1>1, <1>2

\* So the invariant holds in every state the program reaches: it says what
\* each place of the reconnect loop may count on, and why no miss of a ping is
\* counted without cause.
THEOREM AlwaysSafe == Spec => []ResilienceInv
  BY StartSafe, StepSafe, PTL DEF Spec

\* Every variable keeps its type: attempts, sockets and faults in bounds.
THEOREM ResilienceTypes == Spec => []TypeOK
<1>1. ResilienceInv => TypeOK
  BY DEF ResilienceInv
<1> QED
  BY AlwaysSafe, <1>1, PTL

\* However a session ends, by an exception anywhere in spin_once, a missed
\* ping or a refused send, the motors stand still before the program closes
\* the session, and until the next setup has returned.
THEOREM MotorsStopWhileDown == Spec => []StoppedWhileDown
<1>1. ResilienceInv => StoppedWhileDown
  BY DEF ResilienceInv
<1> QED
  BY AlwaysSafe, <1>1, PTL

\* However many attempts failed, and wherever, the session in use has a node
\* the program can destroy and an open socket of its own.
THEOREM SessionAlwaysOwned == Spec => []SessionOwned
<1>1. ResilienceInv => SessionOwned
  BY DEF ResilienceInv, Lifecycle, SessionOwned
<1> QED
  BY AlwaysSafe, <1>1, PTL

\* A reachable Agent is given up for missed pings only after that many
\* faults since its last answer.
THEOREM AlarmsHaveCause == Spec => []NoFalseAlarm
<1>1. ResilienceInv => NoFalseAlarm
  BY DEF ResilienceInv
<1> QED
  BY AlwaysSafe, <1>1, PTL

\* A socket that a failed attempt left behind is closed before the next one.
LEMMA LeakStep == ResilienceInv /\ NothingLeaked /\ [Next]_vars => NothingLeaked'
<1> SUFFICES ASSUME ResilienceInv, NothingLeaked, [Next]_vars, Finalised
             PROVE  leaked' > 0 => leaked' = 1 /\ pc' \in {"failed", "exited"}
  BY DEF NothingLeaked
<1>1. leaked \in Nat
  BY DEF ResilienceInv, TypeOK, Counters
<1>2. CASE TearDown \/ Lost
  BY <1>2 DEF TearDown, Lost, Collect
<1>3. CASE CreateParticipantFails
  <2>1. leaked = 0
    BY <1>1, <1>3 DEF CreateParticipantFails, NothingLeaked
  <2>2. QED
    BY <1>3, <2>1 DEF CreateParticipantFails
<1>4. CASE OpenFails \/ HandshakeFails \/ SetupFails \/ Interrupt
  BY <1>1, <1>4 DEF OpenFails, HandshakeFails, SetupFails, Interrupt, NothingLeaked
<1>5. CASE Open \/ Handshake \/ CreateParticipant \/ Setup \/ Sleep
  BY <1>1, <1>5 DEF Open, Handshake, CreateParticipant, Setup, Sleep, NothingLeaked
<1>6. CASE SpinQuietly \/ SpinAndProbe \/ Raises \/ PingAnswered \/ PingMissed
  BY <1>1, <1>6 DEF SpinQuietly, SpinAndProbe, Spin, Raises, PingAnswered, PingMissed,
                    program, NothingLeaked
<1>7. CASE Environment \/ UNCHANGED vars
  BY <1>7 DEF Environment, Command, Expire, AgentInfo, AgentCrash, AgentRestart,
              LoseProbe, LoseInfo, Goodbye, vars, program, NothingLeaked
<1>8. QED
  BY <1>2, <1>3, <1>4, <1>5, <1>6, <1>7 DEF Next, Connecting, Spinning

\* Where the collector closes sockets that nothing refers to, attempts without
\* number, failing anywhere, never have more than one left open, and none when
\* the next attempt opens its own.
THEOREM NoSocketLeaks == Spec => []NothingLeaked
<1>1. Init => NothingLeaked
  BY DEF Init, NothingLeaked
<1>2. QED
  BY <1>1, LeakStep, AlwaysSafe, PTL DEF Spec

\* The reconnect loop does to the robot what FailSafe allows.
THEOREM LoopKeepsRobot == Spec => RobotSpec
<1>1. Init => Robot!Init
  BY DEF Init, Robot!Init
<1>2. [Next]_vars => [Robot!Session \/ Robot!Stop]_(Robot!vars)
  <2> SUFFICES ASSUME [Next]_vars
               PROVE  Robot!Session \/ Robot!Stop \/ UNCHANGED <<fresh, driving>>
    BY DEF Robot!vars
  <2> USE DEF Robot!Session, Robot!Command, Robot!Expire, Robot!ControlStep, Robot!Stop
  <2>1. CASE Setup
    <3>1. fresh' \in BOOLEAN /\ driving' = driving
      BY <2>1 DEF Setup
    <3>2. QED
      BY <3>1
  <2>2. CASE SpinQuietly \/ SpinAndProbe
    BY <2>2 DEF SpinQuietly, SpinAndProbe, Spin, ControlStep
  <2>3. CASE Lost
    BY <2>3 DEF Lost
  <2>4. CASE Command \/ Expire
    BY <2>4 DEF Command, Expire
  <2>5. CASE \/ Open \/ OpenFails \/ Handshake \/ HandshakeFails \/ CreateParticipant
             \/ CreateParticipantFails \/ SetupFails \/ TearDown \/ Sleep
    BY <2>5 DEF Open, OpenFails, Handshake, HandshakeFails, CreateParticipant,
                CreateParticipantFails, SetupFails, TearDown, Sleep, robot
  <2>6. CASE \/ Raises \/ PingAnswered \/ PingMissed \/ Interrupt \/ AgentInfo \/ AgentCrash
             \/ AgentRestart \/ LoseProbe \/ LoseInfo \/ Goodbye \/ UNCHANGED vars
    BY <2>6 DEF Raises, PingAnswered, PingMissed, Interrupt, AgentInfo, AgentCrash,
                AgentRestart, LoseProbe, LoseInfo, Goodbye, robot, vars
  <2>7. QED
    BY <2>1, <2>2, <2>3, <2>4, <2>5, <2>6 DEF Next, Connecting, Spinning, Environment
<1>3. QED
  BY <1>1, <1>2, PTL DEF Spec, RobotSpec, Robot!Spec
=============================================================================

---------------------------- MODULE HomingProofs ----------------------------
(***************************************************************************)
(* Proofs about homing: for every travel, pull-off, poll rate and number   *)
(* of resets and door commands, whichever switch is broken.                *)
(***************************************************************************)
EXTENDS Homing, TLAPS

(* limits_go_home is at work; it holds for a moment at the poll loop.      *)
InCycle == pc \in {"start", "poll", "lock", "exit", "stop", "debounce", "finish"}
Searching == Polling \/ pc = "stop"

(* A motion that a failed homing has left running: a reset came before it  *)
(* started, so that the next mc_reset did nothing.                         *)
RunOn == \/ pc \in {"rt", "critical"} /\ ctx = "failed"
         \/ /\ abort /\ state = "ALARM"
            /\ \/ pc \in {"failed", "begin", "homed", "complete", "loop"}
               \/ pc \in {"rt", "critical"} /\ ctx = "homed"

(* After a pull-off a motor is this far out.                               *)
PulledOff == Pulloff + 1 - 2 * Lag..Pulloff

AxisHomed(a) ==
  /\ \A m \in MotorsOf(a) : dist[m] \in PulledOff /\ ~Closed(m)
  /\ sys_position[a] = Pulloff

(* Where the program can be, and what it knows there.                      *)
FlowInv ==
  /\ ctx \in {"loop", "complete", "homed", "failed"}
  /\ InCycle \/ pc \in {"settle", "check"} => state = "HOMING" /\ ~abort
  /\ pc = "begin" /\ ~abort => state = "HOMING"
  /\ pc = "begin" /\ abort => state = "ALARM"
  /\ pc = "failed" => abort /\ state = "ALARM"
  /\ pc = "critical" => state = "ALARM"
  /\ pc = "suspend" => state = "SAFETY_DOOR" /\ ctx \in {"loop", "homed"}
  /\ pc \in {"rt", "critical"} /\ ctx \in {"failed", "complete"}
       => state \in {"HOMING", "ALARM"}
  /\ pc = "rt" /\ ctx \in {"failed", "complete"} => "RESET" \in exec_state
  /\ pc = "rt" /\ ctx = "failed" => exec_alarm # "none" \/ state = "ALARM"
  /\ exec_alarm # "none" => "RESET" \in exec_state \/ pc = "critical"
  /\ pc = "startup" => ~abort
  /\ pc = "rt" /\ abort => state = "ALARM"

(* The limit interrupt is off in limits_go_home, and until main if it was  *)
(* given up.                                                               *)
GuardInv ==
  ~hard_limits => \/ InCycle \/ pc \in {"begin", "failed", "homed"}
                  \/ pc \in {"rt", "critical", "suspend"} /\ ctx \in {"failed", "homed"}
                  \/ pc \in {"complete", "loop"} /\ abort

StillInv == stepping => Searching \/ RunOn

(* A cycle stop is that of the motion in progress.                         *)
CycleStopInv ==
  "CYCLE_STOP" \in exec_state => (Polling /\ motion.left = 0 /\ ~stepping) \/ RunOn

(* How far the motion can still go.                                        *)
ReachInv ==
  /\ \A m \in Motor : dist[m] <= Travel
  /\ stepping /\ motion.direction = 1 =>
       /\ sys_position[motion.axis] + motion.left <= Pulloff
       /\ \A m \in MotorsOf(motion.axis) :
            m \notin dead /\ dist[m] + motion.left <= Pulloff
  /\ stepping /\ motion.direction = -1 =>
       sys_position[motion.axis] - motion.left >= -(Search + Locate)

(* The motions of one axis, and the other axis meanwhile.                  *)
CycleInv ==
  /\ InCycle /\ pc # "finish" => IF approach THEN n_cycle \in {1, 3} ELSE n_cycle \in {0, 2}
  /\ InCycle \/ (pc = "begin" /\ ~abort) =>
       IF cycle = "X" THEN ~Closed("Y") ELSE AxisHomed("X") /\ dead \cap {"X1", "X2"} = {}
  /\ pc = "begin" /\ ~abort => \A m \in MotorsOf(cycle) : ~Closed(m)
  /\ Searching => motion.axis = cycle /\ motion.direction = Direction

StartInv ==
  pc = "start" =>
    \A m \in MotorsOf(cycle) :
      IF approach THEN ~Closed(m) /\ (n_cycle = 1 => m \notin dead /\ dist[m] <= Pulloff)
      ELSE m \notin dead /\ dist[m] \in 1 - 2 * Lag..0

(* Steps the search has left when a switch closes.                         *)
Reserve == IF n_cycle = 3 THEN Search - Travel + 1 ELSE Locate - Pulloff

(* An approach.  A motor whose switch is closed was open at the poll       *)
(* before the last.                                                        *)
Seen(m) == pc = "lock" /\ m \in limit_state

ApproachInv ==
  Searching /\ approach =>
    /\ axislock \subseteq MotorsOf(cycle)
    /\ pc \in {"poll", "lock"} => axislock # {}
    /\ pc = "stop" => axislock = {}
    /\ sys_position[cycle] <= 0
    /\ limit_state \cap dead = {} \/ pc # "lock"
    /\ axislock = {} => motion.left >= Reserve + 1 - Lag - late
    /\ \A m \in MotorsOf(cycle) \ axislock :
         m \notin dead /\ dist[m] \in 1 - 2 * Lag..0
    /\ \A m \in axislock \ dead :
         /\ dist[m] < Travel
         /\ m \in stuck => dist[m] <= 0
         /\ dist[m] >= 1 => motion.left >= Reserve + dist[m]
         /\ IF Seen(m)
            THEN /\ dist[m] \in 1 - Lag - late..0
                 /\ motion.left >= Reserve + 1 - Lag - late
            ELSE /\ dist[m] >= 1 - late
                 /\ motion.left >= Reserve + 1 - late

PullInv ==
  Searching /\ ~approach =>
    /\ axislock = MotorsOf(cycle) /\ pc # "lock"
    /\ \A m \in MotorsOf(cycle) :
         m \notin dead /\ dist[m] + motion.left \in PulledOff
    /\ pc = "stop" => /\ motion.left = 0 /\ ~stepping
                      /\ \A m \in MotorsOf(cycle) : ~Closed(m)

SettledInv ==
  /\ pc = "debounce" =>
       \A m \in MotorsOf(cycle) :
         /\ m \notin dead
         /\ IF approach THEN dist[m] \in 1 - 2 * Lag..0
            ELSE dist[m] \in PulledOff /\ ~Closed(m)
  /\ pc = "finish" =>
       \A m \in MotorsOf(cycle) : m \notin dead /\ dist[m] \in PulledOff /\ ~Closed(m)

XMotors == {"X1", "X2"}
TriggerOf(m) == IF m = "X1" THEN "TRIGGER_1" ELSE "TRIGGER_2"
OtherX(m) == IF m = "X1" THEN "X2" ELSE "X1"

(* The dual-axis check runs while one motor is held.                       *)
DualInv ==
  /\ Polling /\ approach /\ cycle = "X" =>
       /\ axislock = XMotors => dual_check = {}
       /\ \A m \in XMotors : axislock = {OtherX(m)} => dual_check = {"ENABLE", TriggerOf(m)}
  /\ Polling /\ approach /\ cycle = "Y" => dual_check = {}

(* Both axes are home, or the cycle was given up and locked.               *)
HomedInv ==
  /\ pc = "homed" \/ (pc \in {"rt", "critical", "suspend"} /\ ctx = "homed") =>
       (abort /\ state = "ALARM") \/ (IsHomed /\ ~stepping)
  /\ pc = "complete" /\ ~abort => "RESET" \in exec_state \/ (IsHomed /\ ~stepping)
  /\ pc = "complete" /\ abort /\ ~hard_limits => state = "ALARM" \/ (IsHomed /\ ~stepping)
  /\ pc = "startup" => ~stepping /\ ("RESET" \in exec_state \/ IsHomed)

-----------------------------------------------------------------------------
HomeInv == /\ TypeOK /\ FlowInv /\ GuardInv /\ StillInv /\ CycleStopInv /\ ReachInv
           /\ CycleInv /\ StartInv /\ ApproachInv /\ PullInv /\ SettledInv /\ DualInv
           /\ HomedInv
-----------------------------------------------------------------------------
(* The flags stay Booleans, and the motors start in one place only.        *)
LEMMA Booleans ==
  ASSUME TypeOK, [Next]_vars
  PROVE  /\ abort' \in BOOLEAN /\ hard_limits' \in BOOLEAN
         /\ approach' \in BOOLEAN /\ stepping' \in BOOLEAN
         /\ stepping' => stepping \/ (pc = "start" /\ pc' = "poll")
<1> USE DEF TypeOK
<1>1. CASE ReceiveReset
  BY <1>1, Zenon DEF ReceiveReset, mc_reset, machine, broken, search
<1>2. CASE ReceiveDoor
  BY <1>2, Zenon DEF ReceiveDoor, machine, broken, search
<1>3. CASE LimitTrip
  BY <1>3, Zenon DEF LimitTrip, machine, broken, search
<1>4. CASE Step
  BY <1>4, Zenon DEF Step, broken, flags, search
<1>5. CASE StepEnd
  BY <1>5, Zenon DEF StepEnd, machine, broken, search
<1>6. CASE RtAlarm
  BY <1>6, Zenon DEF RtAlarm, Goto, machine, broken, search
<1>7. CASE RtCriticalEnd
  BY <1>7, Zenon DEF RtCriticalEnd, Goto, machine, broken, search
<1>8. CASE RtFlags
  BY <1>8, Zenon DEF RtFlags, Goto, machine, broken, search
<1>9. CASE Suspended
  BY <1>9, Zenon DEF Suspended, Goto, machine, broken, flags, search
<1>10. CASE Idle
  BY <1>10, Zenon DEF Idle, Pass, machine, broken, flags, search
<1>11. CASE Unlock
  BY <1>11, Zenon DEF Unlock, machine, broken, search
<1>12. CASE Reinitialise
  BY <1>12, Zenon DEF Reinitialise, machine, broken
<1>13. CASE Home
  BY <1>13, Zenon DEF Home, Goto, machine, broken, search
<1>14. CASE HomeArgument
  BY <1>14, Zenon DEF HomeArgument, machine, broken, search
<1>15. CASE SettlePen
  BY <1>15, Zenon DEF SettlePen, Pass, Goto, machine, broken, flags, search
<1>16. CASE CheckLimits
  BY <1>16, Zenon DEF CheckLimits, Goto, machine, broken
<1>17. CASE Begin
  BY <1>17, Zenon DEF Begin, NextCycle, Goto, machine, broken, flags, Pass
<1>18. CASE Start
  BY <1>18, Zenon DEF Start, Goto, broken, flags
<1>19. CASE Poll
  BY <1>19, Zenon DEF Poll, Goto, broken, flags
<1>20. CASE Lock
  BY <1>20, Zenon DEF Lock, mc_reset, Pass, Goto, machine, broken
<1>21. CASE Exit
  BY <1>21, Zenon DEF Exit, Goto, mc_reset, Pass, machine, broken, search
<1>22. CASE Stop
  BY <1>22, Zenon DEF Stop, Goto, machine, broken, flags, search
<1>23. CASE Debounce
  BY <1>23, Zenon DEF Debounce, Goto, machine, broken, flags
<1>24. CASE Finish
  BY <1>24, Zenon DEF Finish, NextCycle, broken, flags, Goto, Pass
<1>25. CASE Failed
  BY <1>25, Zenon DEF Failed, NextCycle, machine, broken, flags, Goto, Pass
<1>26. CASE Homed
  BY <1>26, Zenon DEF Homed, Goto, machine, broken, flags, search
<1>27. CASE Complete
  BY <1>27, Zenon DEF Complete, Goto, machine, broken, search
<1>28. CASE Startup
  BY <1>28, Zenon DEF Startup, Pass, machine, broken, flags, search
<1>29. CASE UNCHANGED vars
  BY <1>29, Zenon DEF vars, machine, broken, flags, search
<1>. QED  BY <1>1, <1>2, <1>3, <1>4, <1>5, <1>6, <1>7, <1>8, <1>9, <1>10,
    <1>11, <1>12, <1>13, <1>14, <1>15, <1>16, <1>17, <1>18, <1>19, <1>20,
    <1>21, <1>22, <1>23, <1>24, <1>25, <1>26, <1>27, <1>28, <1>29
    DEF Next, Interrupt, Stepper, Processor, HomingCycle

(* Every variable keeps its type: no step passes a pull-off, and the dual  *)
(* trigger is taken on an approach, at or before its origin.               *)
LEMMA TypeStep ==
  ASSUME TypeOK, ReachInv, ApproachInv, PullInv, DualInv, [Next]_vars
  PROVE  TypeOK'
<1> USE HomingAssumption DEF HomingAssumption, TypeOK, ReachInv, Motor,
    State, ExecFlag, Alarm, Axis, Pc, MotorsOf
<1>. /\ abort' \in BOOLEAN
     /\ hard_limits' \in BOOLEAN
     /\ approach' \in BOOLEAN
     /\ stepping' \in BOOLEAN
  BY Booleans
<1>1. CASE ReceiveReset
  <2>1. exec_state' \subseteq ExecFlag /\ exec_alarm' \in Alarm
    BY <1>1 DEF ReceiveReset, mc_reset
  <2>2. commands' \in 0..MaxCommands
    BY <1>1 DEF ReceiveReset
  <2>. QED  BY <1>1, <2>1, <2>2 DEF ReceiveReset, machine, broken, search
<1>2. CASE ReceiveDoor
  BY <1>2 DEF ReceiveDoor, machine, broken, search
<1>3. CASE LimitTrip
  BY <1>3 DEF LimitTrip, limits_get_state, machine, broken, search, Closed
<1>4. CASE Step
  BY <1>4 DEF Step, Prompt, Moving, AtStop, broken, flags, search, Polling
<1>5. CASE StepEnd
  BY <1>5 DEF StepEnd, machine, broken, search, Polling
<1>6. CASE RtAlarm
  <2>1. exec_state' \subseteq ExecFlag /\ exec_alarm' \in Alarm /\ state' \in State
    BY <1>6 DEF RtAlarm, LockState
  <2>2. pc' \in Pc /\ UNCHANGED ctx
    BY <1>6 DEF RtAlarm, Goto
  <2>. QED  BY <1>6, <2>1, <2>2 DEF RtAlarm, machine, broken, search
<1>7. CASE RtCriticalEnd
  BY <1>7 DEF RtCriticalEnd, Goto, machine, broken, search
<1>8. CASE RtFlags
  <2>1. exec_state' \subseteq ExecFlag /\ state' \in State
    BY <1>8 DEF RtFlags
  <2>2. pc' \in Pc /\ UNCHANGED ctx
    BY <1>8 DEF RtFlags, Goto, Caller
  <2>. QED  BY <1>8, <2>1, <2>2 DEF RtFlags, machine, broken, search
<1>9. CASE Suspended
  BY <1>9 DEF Suspended, Goto, machine, broken, flags, search
<1>10. CASE Idle
  BY <1>10 DEF Idle, Pass, machine, broken, flags, search
<1>11. CASE Unlock
  BY <1>11 DEF Unlock, machine, broken, search
<1>12. CASE Reinitialise
  BY <1>12 DEF Reinitialise, limits_get_state, machine, broken, Closed
<1>13. CASE Home
  BY <1>13 DEF Home, Goto, machine, broken, search
<1>14. CASE HomeArgument
  BY <1>14 DEF HomeArgument, machine, broken, search
<1>15. CASE SettlePen
  BY <1>15 DEF SettlePen, Pass, Goto, machine, broken, flags, search
<1>16. CASE CheckLimits
  <2>1. exec_state' \subseteq ExecFlag /\ exec_alarm' \in Alarm /\ cycle' \in Axis
    BY <1>16 DEF CheckLimits
  <2>2. pc' \in Pc /\ UNCHANGED ctx
    BY <1>16 DEF CheckLimits, Goto
  <2>. QED  BY <1>16, <2>1, <2>2 DEF CheckLimits, machine, broken
<1>17. CASE Begin
  BY <1>17 DEF Begin, NextCycle, Goto, machine, broken, flags, Pass
<1>18. CASE Start
  BY <1>18 DEF Start, Goto, broken, flags, Direction
<1>19. CASE Poll
  <2>1. limit_state' \subseteq Motor
    BY <1>19 DEF Poll, limits_get_state
  <2>2. late' \in 0..Lag /\ pc' \in Pc /\ UNCHANGED ctx
    BY <1>19 DEF Poll, Goto
  <2>. QED  BY <1>19, <2>1, <2>2 DEF Poll, broken, flags
<1>20. CASE Lock
  <2>1. exec_state' \subseteq ExecFlag /\ exec_alarm' \in Alarm
    BY <1>20 DEF Lock, mc_reset
  <2>2. dual_check' \subseteq DualCheck
    BY <1>20 DEF Lock, Triggered, DualCheck
  <2>3. dual_trigger_position' \in -(Search + Locate)..0
    <3>1. CASE cycle = "X"
      BY <1>20, <3>1 DEF Lock, Polling, Searching, ApproachInv, PullInv
    <3>2. CASE cycle = "Y"
      BY <1>20, <3>2 DEF Lock, Polling, Searching, ApproachInv, PullInv, DualInv, Triggered
    <3>. QED  BY <3>1, <3>2
  <2>4. axislock' \subseteq Motor /\ pc' \in Pc /\ ctx' \in Pc
    BY <1>20 DEF Lock, Pass, Goto
  <2>. QED  BY <1>20, <2>1, <2>2, <2>3, <2>4 DEF Lock, machine, broken
<1>21. CASE Exit
  <2>1. exec_state' \subseteq ExecFlag /\ exec_alarm' \in Alarm
    BY <1>21 DEF Exit, ExitReasons, Failure, mc_reset
  <2>2. pc' \in Pc /\ ctx' \in Pc
    BY <1>21 DEF Exit, Goto, Pass
  <2>. QED  BY <1>21, <2>1, <2>2 DEF Exit, machine, broken, search
<1>22. CASE Stop
  BY <1>22 DEF Stop, Goto, machine, broken, flags, search
<1>23. CASE Debounce
  BY <1>23 DEF Debounce, Goto, machine, broken, flags
<1>24. CASE Finish
  BY <1>24 DEF Finish, NextCycle, broken, flags, Goto, Pass
<1>25. CASE Failed
  BY <1>25 DEF Failed, NextCycle, machine, broken, flags, Goto, Pass
<1>26. CASE Homed
  <2>1. pc' \in Pc /\ UNCHANGED ctx
    BY <1>26 DEF Homed, Goto
  <2>2. UNCHANGED <<machine, broken, flags, search, stepping, commands>>
    BY <1>26 DEF Homed
  <2>. QED  BY <2>1, <2>2 DEF machine, broken, flags, search
<1>27. CASE Complete
  BY <1>27 DEF Complete, Goto, machine, broken, search
<1>28. CASE Startup
  BY <1>28 DEF Startup, Pass, machine, broken, flags, search
<1>29. CASE UNCHANGED vars
  BY <1>29 DEF vars, machine, broken, flags, search
<1>. QED  BY <1>1, <1>2, <1>3, <1>4, <1>5, <1>6, <1>7, <1>8, <1>9, <1>10,
    <1>11, <1>12, <1>13, <1>14, <1>15, <1>16, <1>17, <1>18, <1>19, <1>20,
    <1>21, <1>22, <1>23, <1>24, <1>25, <1>26, <1>27, <1>28, <1>29
    DEF Next, Interrupt, Stepper, Processor, HomingCycle

(* The main program is where its caller left it: HOMING inside the cycle,  *)
(* ALARM after it is given up.                                             *)
LEMMA FlowStep ==
  ASSUME FlowInv, [Next]_vars
  PROVE  FlowInv'
<1> USE DEF FlowInv, InCycle
<1>1. CASE ReceiveReset \/ ReceiveDoor \/ LimitTrip
  BY <1>1 DEF ReceiveReset, mc_reset, machine, broken, search, ReceiveDoor,
    LimitTrip, limits_get_state, Closed, Motor
<1>2. CASE Step
  BY <1>2 DEF Step, Prompt, Moving, AtStop, broken, flags, search, Polling,
    MotorsOf, Motor
<1>3. CASE StepEnd
  BY <1>3 DEF StepEnd, Polling, machine, broken, search
<1>4. CASE RtAlarm \/ RtCriticalEnd \/ RtFlags \/ Suspended
  BY <1>4 DEF RtAlarm, LockState, Goto, machine, broken, search,
    RtCriticalEnd, RtFlags, Caller, Suspended, flags
<1>5. CASE Idle \/ Unlock \/ Reinitialise \/ Home \/ HomeArgument
  BY <1>5 DEF Idle, Pass, machine, broken, flags, search, Unlock,
    Reinitialise, limits_get_state, Closed, Motor, Home, Goto, HomeArgument
<1>6. CASE SettlePen \/ CheckLimits \/ Begin
  BY <1>6 DEF SettlePen, Pass, Goto, machine, broken, flags, search,
    CheckLimits, limits_get_state, Closed, Motor, Begin, NextCycle
<1>7. CASE Start
  BY <1>7 DEF Start, MotorsOf, Direction, Goto, broken, flags
<1>8. CASE Poll
  BY <1>8 DEF Poll, limits_get_state, Goto, broken, flags, Closed, Motor
<1>9. CASE Lock
  BY <1>9 DEF Lock, Triggered, OutOfSquare, mc_reset, Pass, Goto, machine,
    broken
<1>10. CASE Exit
  BY <1>10 DEF Exit, ExitReasons, Goto, Failure, mc_reset, Pass, machine,
    broken, search, Unreleased, limits_get_state, MotorsOf, Closed, Motor
<1>11. CASE Stop \/ Debounce
  BY <1>11 DEF Stop, Goto, machine, broken, flags, search, Debounce
<1>12. CASE Finish
  BY <1>12 DEF Finish, NextCycle, broken, flags, Goto, Pass
<1>13. CASE Failed
  BY <1>13 DEF Failed, NextCycle, machine, broken, flags, Goto, Pass
<1>14. CASE Homed
  BY <1>14 DEF Homed, Goto, machine, broken, flags, search
<1>15. CASE Complete
  BY <1>15 DEF Complete, Goto, machine, broken, search
<1>16. CASE Startup
  BY <1>16 DEF Startup, Pass, machine, broken, flags, search
<1>17. CASE UNCHANGED vars
  BY <1>17 DEF vars, machine, broken, flags, search
<1>. QED  BY <1>1, <1>2, <1>3, <1>4, <1>5, <1>6, <1>7, <1>8, <1>9, <1>10,
    <1>11, <1>12, <1>13, <1>14, <1>15, <1>16, <1>17
    DEF Next, Interrupt, Stepper, Processor, HomingCycle

(* The limit interrupt is off inside limits_go_home only.                  *)
LEMMA GuardStep ==
  ASSUME GuardInv, [Next]_vars
  PROVE  GuardInv'
<1> USE DEF GuardInv, InCycle
<1>1. CASE ReceiveReset \/ ReceiveDoor \/ LimitTrip
  BY <1>1 DEF ReceiveReset, ReceiveDoor, LimitTrip
<1>2. CASE Step
  BY <1>2 DEF Step, flags
<1>3. CASE StepEnd
  BY <1>3 DEF StepEnd
<1>4. CASE RtAlarm \/ RtCriticalEnd \/ RtFlags \/ Suspended
  BY <1>4 DEF RtAlarm, Goto, RtCriticalEnd, RtFlags, Caller, Suspended
<1>5. CASE Idle \/ Unlock \/ Reinitialise \/ Home \/ HomeArgument
  BY <1>5 DEF Idle, Unlock, Reinitialise, Home, HomeArgument
<1>6. CASE SettlePen \/ CheckLimits \/ Begin
  BY <1>6 DEF SettlePen, CheckLimits, Goto, Begin, NextCycle, Pass
<1>7. CASE Start
  BY <1>7 DEF Start, Goto
<1>8. CASE Poll
  BY <1>8 DEF Poll, Goto
<1>9. CASE Lock
  BY <1>9 DEF Lock, Pass, Goto
<1>10. CASE Exit
  BY <1>10 DEF Exit, Goto, Pass
<1>11. CASE Stop \/ Debounce
  BY <1>11 DEF Stop, Goto, Debounce
<1>12. CASE Finish
  BY <1>12 DEF Finish, NextCycle, Goto, Pass
<1>13. CASE Failed
  BY <1>13 DEF Failed, NextCycle, Goto, Pass
<1>14. CASE Homed
  BY <1>14 DEF Homed, Goto, flags
<1>15. CASE Complete
  BY <1>15 DEF Complete, Goto
<1>16. CASE Startup
  BY <1>16 DEF Startup
<1>17. CASE UNCHANGED vars
  BY <1>17 DEF vars, flags
<1>. QED  BY <1>1, <1>2, <1>3, <1>4, <1>5, <1>6, <1>7, <1>8, <1>9, <1>10,
    <1>11, <1>12, <1>13, <1>14, <1>15, <1>16, <1>17
    DEF Next, Interrupt, Stepper, Processor, HomingCycle

(* Nothing moves outside a search, but for a motion that a failed homing   *)
(* left running.                                                           *)
LEMMA StillStep ==
  ASSUME TypeOK, FlowInv, StillInv, [Next]_vars
  PROVE  StillInv'
<1> USE DEF FlowInv, StillInv, Searching, RunOn, Polling
<1>. stepping' => stepping \/ (pc = "start" /\ pc' = "poll")
  BY Booleans
<1>1. CASE ReceiveReset
  BY <1>1 DEF ReceiveReset, mc_reset, machine, broken, search
<1>2. CASE ReceiveDoor
  BY <1>2 DEF ReceiveDoor, machine, broken, search
<1>3. CASE LimitTrip
  BY <1>3 DEF LimitTrip, limits_get_state, machine, broken, search, Closed,
    Motor
<1>4. CASE Step
  BY <1>4 DEF Step, Prompt, Moving, AtStop, broken, flags, search, MotorsOf,
    Motor
<1>5. CASE StepEnd
  BY <1>5 DEF StepEnd, machine, broken, search
<1>6. CASE RtAlarm
  BY <1>6 DEF RtAlarm, LockState, Goto, machine, broken, search
<1>7. CASE RtCriticalEnd
  BY <1>7 DEF RtCriticalEnd, Goto, machine, broken, search
<1>8. CASE RtFlags
  BY <1>8 DEF RtFlags, Goto, Caller, machine, broken, search
<1>9. CASE Suspended
  BY <1>9 DEF Suspended, Goto, machine, broken, flags, search
<1>10. CASE Idle
  BY <1>10 DEF Idle, Pass, machine, broken, flags, search
<1>11. CASE Unlock
  BY <1>11 DEF Unlock, machine, broken, search
<1>12. CASE Reinitialise
  BY <1>12 DEF Reinitialise, limits_get_state, machine, broken, Closed,
    Motor
<1>13. CASE Home
  BY <1>13 DEF Home, Goto, machine, broken, search
<1>14. CASE HomeArgument
  BY <1>14 DEF HomeArgument, machine, broken, search
<1>15. CASE SettlePen
  BY <1>15 DEF SettlePen, Pass, Goto, machine, broken, flags, search
<1>16. CASE CheckLimits
  BY <1>16 DEF CheckLimits, limits_get_state, Goto, machine, broken, Closed,
    Motor
<1>17. CASE Begin
  BY <1>17 DEF Begin, NextCycle, Goto, machine, broken, flags, Pass
<1>18. CASE Start
  BY <1>18 DEF Start, MotorsOf, Direction, Goto, broken, flags
<1>19. CASE Poll
  BY <1>19 DEF Poll, limits_get_state, Goto, broken, flags, Closed, Motor
<1>20. CASE Lock
  BY <1>20 DEF Lock, Triggered, OutOfSquare, mc_reset, Pass, Goto, machine,
    broken
<1>21. CASE Exit
  BY <1>21 DEF Exit, ExitReasons, Goto, Failure, mc_reset, Pass, machine,
    broken, search, Unreleased, limits_get_state, MotorsOf, Closed, Motor
<1>22. CASE Stop \/ Debounce
  BY <1>22 DEF Stop, Goto, machine, broken, flags, search, Debounce
<1>23. CASE Finish
  BY <1>23 DEF Finish, NextCycle, broken, flags, Goto, Pass
<1>24. CASE Failed
  BY <1>24 DEF Failed, NextCycle, machine, broken, flags, Goto, Pass
<1>25. CASE Homed
  BY <1>25 DEF Homed, Goto, machine, broken, flags, search
<1>26. CASE Complete
  BY <1>26 DEF Complete, Goto, machine, broken, search
<1>27. CASE Startup
  BY <1>27 DEF Startup, Pass, machine, broken, flags, search
<1>28. CASE UNCHANGED vars
  BY <1>28 DEF vars, machine, broken, flags, search
<1>. QED  BY <1>1, <1>2, <1>3, <1>4, <1>5, <1>6, <1>7, <1>8, <1>9, <1>10,
    <1>11, <1>12, <1>13, <1>14, <1>15, <1>16, <1>17, <1>18, <1>19, <1>20,
    <1>21, <1>22, <1>23, <1>24, <1>25, <1>26, <1>27, <1>28
    DEF Next, Interrupt, Stepper, Processor, HomingCycle

(* A cycle stop belongs to the motion in progress: the search that ends    *)
(* with it is longer than the way to the switch, so it is an approach      *)
(* whose switch is dead.                                                   *)
LEMMA CycleStopStep ==
  ASSUME TypeOK, FlowInv, StillInv, CycleStopInv, ApproachInv, PullInv,
         [Next]_vars
  PROVE  CycleStopInv'
<1> USE HomingAssumption DEF HomingAssumption, TypeOK, FlowInv, StillInv,
    CycleStopInv, ApproachInv, PullInv, Searching, RunOn, Polling, Reserve
<1>1. CASE ReceiveReset \/ ReceiveDoor \/ LimitTrip
  BY <1>1 DEF ReceiveReset, mc_reset, machine, broken, search, ReceiveDoor,
    LimitTrip, limits_get_state
<1>2. CASE Step
  BY <1>2 DEF Step, Prompt, Moving, AtStop, broken, flags, search
<1>3. CASE StepEnd
  BY <1>3 DEF StepEnd, machine, broken, search
<1>4. CASE RtAlarm \/ RtCriticalEnd \/ RtFlags \/ Suspended
  BY <1>4 DEF RtAlarm, LockState, Goto, machine, broken, search,
    RtCriticalEnd, RtFlags, Caller, Suspended, flags
<1>5. CASE Idle \/ Unlock \/ Reinitialise \/ Home \/ HomeArgument
  BY <1>5 DEF Idle, Pass, machine, broken, flags, search, Unlock,
    Reinitialise, limits_get_state, Home, Goto, HomeArgument
<1>6. CASE SettlePen \/ CheckLimits \/ Begin
  BY <1>6 DEF SettlePen, Pass, Goto, machine, broken, flags, search,
    CheckLimits, limits_get_state, Begin, NextCycle
<1>7. CASE Start
  BY <1>7 DEF Start, Goto, broken, flags, Direction
<1>8. CASE Poll
  BY <1>8 DEF Poll, limits_get_state, Goto, broken, flags
<1>9. CASE Lock
  BY <1>9 DEF Lock, Triggered, OutOfSquare, mc_reset, Pass, Goto, machine,
    broken
<1>10. CASE Exit
  BY <1>10 DEF Exit, ExitReasons, Goto, Failure, mc_reset, Pass, machine,
    broken, search, Unreleased, limits_get_state
<1>11. CASE Stop \/ Debounce
  BY <1>11 DEF Stop, Goto, machine, broken, flags, search, Debounce
<1>12. CASE Finish
  BY <1>12 DEF Finish, NextCycle, broken, flags, Goto, Pass
<1>13. CASE Failed
  BY <1>13 DEF Failed, NextCycle, machine, broken, flags, Goto, Pass
<1>14. CASE Homed
  BY <1>14 DEF Homed, Goto, machine, broken, flags, search
<1>15. CASE Complete
  BY <1>15 DEF Complete, Goto, machine, broken, search
<1>16. CASE Startup
  BY <1>16 DEF Startup, Pass, machine, broken, flags, search
<1>17. CASE UNCHANGED vars
  BY <1>17 DEF vars, machine, broken, flags, search
<1>. QED  BY <1>1, <1>2, <1>3, <1>4, <1>5, <1>6, <1>7, <1>8, <1>9, <1>10,
    <1>11, <1>12, <1>13, <1>14, <1>15, <1>16, <1>17
    DEF Next, Interrupt, Stepper, Processor, HomingCycle

(* A pull-off ends at Pulloff; a search ends within Search + Locate.       *)
LEMMA ReachStep ==
  ASSUME TypeOK, StillInv, ReachInv, StartInv, [Next]_vars
  PROVE  ReachInv'
<1> USE HomingAssumption DEF HomingAssumption, TypeOK, StillInv, ReachInv,
    StartInv, Motor, Searching, RunOn, MotorsOf, Polling
<1>1. CASE ReceiveReset \/ ReceiveDoor \/ LimitTrip
  BY <1>1 DEF ReceiveReset, mc_reset, machine, broken, search, ReceiveDoor,
    LimitTrip, limits_get_state
<1>2. CASE Step
  BY <1>2 DEF Step, Prompt, Moving, AtStop, broken, flags, search
<1>3. CASE StepEnd
  BY <1>3 DEF StepEnd, machine, broken, search
<1>4. CASE RtAlarm \/ RtCriticalEnd \/ RtFlags \/ Suspended
  BY <1>4 DEF RtAlarm, LockState, Goto, machine, broken, search,
    RtCriticalEnd, RtFlags, Caller, Suspended, flags
<1>5. CASE Idle \/ Unlock \/ Reinitialise \/ Home \/ HomeArgument
  BY <1>5 DEF Idle, Pass, machine, broken, flags, search, Unlock,
    Reinitialise, limits_get_state, Home, Goto, HomeArgument
<1>6. CASE SettlePen \/ CheckLimits \/ Begin
  BY <1>6 DEF SettlePen, Pass, Goto, machine, broken, flags, search,
    CheckLimits, limits_get_state, Begin, NextCycle
<1>7. CASE Start
  BY <1>7 DEF Start, Goto, broken, flags, Direction
<1>8. CASE Poll
  BY <1>8 DEF Poll, limits_get_state, Goto, broken, flags
<1>9. CASE Lock
  BY <1>9 DEF Lock, Triggered, OutOfSquare, mc_reset, Pass, Goto, machine,
    broken
<1>10. CASE Exit
  BY <1>10 DEF Exit, ExitReasons, Goto, Failure, mc_reset, Pass, machine,
    broken, search, Unreleased, limits_get_state
<1>11. CASE Stop \/ Debounce
  BY <1>11 DEF Stop, Goto, machine, broken, flags, search, Debounce
<1>12. CASE Finish
  BY <1>12 DEF Finish, NextCycle, broken, flags, Goto, Pass
<1>13. CASE Failed
  BY <1>13 DEF Failed, NextCycle, machine, broken, flags, Goto, Pass
<1>14. CASE Homed
  BY <1>14 DEF Homed, Goto, machine, broken, flags, search
<1>15. CASE Complete
  BY <1>15 DEF Complete, Goto, machine, broken, search
<1>16. CASE Startup
  BY <1>16 DEF Startup, Pass, machine, broken, flags, search
<1>17. CASE UNCHANGED vars
  BY <1>17 DEF vars, machine, broken, flags, search
<1>. QED  BY <1>1, <1>2, <1>3, <1>4, <1>5, <1>6, <1>7, <1>8, <1>9, <1>10,
    <1>11, <1>12, <1>13, <1>14, <1>15, <1>16, <1>17
    DEF Next, Interrupt, Stepper, Processor, HomingCycle

(* Approach and pull-off alternate; while Y is homed X stays home.         *)
LEMMA CycleStep ==
  ASSUME TypeOK, FlowInv, CycleInv, SettledInv, StillInv, [Next]_vars
  PROVE  CycleInv'
<1> USE DEF TypeOK, FlowInv, CycleInv, SettledInv, StillInv, Motor, InCycle,
    Closed, AxisHomed, MotorsOf, Searching, Direction, RunOn, Polling
<1>1. CASE ReceiveReset \/ ReceiveDoor \/ LimitTrip
  BY <1>1 DEF ReceiveReset, mc_reset, machine, broken, search, ReceiveDoor,
    LimitTrip, limits_get_state
<1>2. CASE Step
  BY <1>2 DEF Step, Prompt, Moving, AtStop, broken, flags, search
<1>3. CASE StepEnd
  BY <1>3 DEF StepEnd, machine, broken, search
<1>4. CASE RtAlarm \/ RtCriticalEnd \/ RtFlags \/ Suspended
  BY <1>4 DEF RtAlarm, LockState, Goto, machine, broken, search,
    RtCriticalEnd, RtFlags, Caller, Suspended, flags
<1>5. CASE Idle \/ Unlock \/ Reinitialise \/ Home \/ HomeArgument
  BY <1>5 DEF Idle, Pass, machine, broken, flags, search, Unlock,
    Reinitialise, limits_get_state, Home, Goto, HomeArgument
<1>6. CASE SettlePen \/ CheckLimits \/ Begin
  BY <1>6 DEF SettlePen, Pass, Goto, machine, broken, flags, search,
    CheckLimits, limits_get_state, Begin, NextCycle
<1>7. CASE Start
  BY <1>7 DEF Start, Goto, broken, flags
<1>8. CASE Poll
  BY <1>8 DEF Poll, limits_get_state, Goto, broken, flags
<1>9. CASE Lock
  BY <1>9 DEF Lock, Triggered, OutOfSquare, mc_reset, Pass, Goto, machine,
    broken
<1>10. CASE Exit
  BY <1>10 DEF Exit, ExitReasons, Goto, Failure, mc_reset, Pass, machine,
    broken, search, Unreleased, limits_get_state
<1>11. CASE Stop
  BY <1>11 DEF Stop, Goto, machine, broken, flags, search
<1>12. CASE Debounce
  <2>1. CASE approach
    BY <1>12, <2>1 DEF Debounce, Goto, machine, broken, flags
  <2>2. CASE ~approach
    <3>1. approach' = TRUE
      BY <1>12, <2>2 DEF Debounce
    <3>2. n_cycle # 0 => pc' = "start" /\ n_cycle' = 1
      BY <1>12, <2>2 DEF Debounce, Goto
    <3>3. n_cycle = 0 => pc' = "finish"
      BY <1>12, <2>2 DEF Debounce, Goto
    <3>4. UNCHANGED <<machine, broken, flags, axislock, cycle>>
      BY <1>12 DEF Debounce
    <3>. QED  BY <1>12, <2>2, <3>1, <3>2, <3>3, <3>4 DEF Debounce, machine, broken, flags
  <2>. QED  BY <2>1, <2>2
<1>13. CASE Finish
  BY <1>13 DEF Finish, NextCycle, broken, flags, Goto, Pass
<1>14. CASE Failed
  BY <1>14 DEF Failed, NextCycle, machine, broken, flags, Goto, Pass
<1>15. CASE Homed
  BY <1>15 DEF Homed, Goto, machine, broken, flags, search
<1>16. CASE Complete
  BY <1>16 DEF Complete, Goto, machine, broken, search
<1>17. CASE Startup
  BY <1>17 DEF Startup, Pass, machine, broken, flags, search
<1>18. CASE UNCHANGED vars
  BY <1>18 DEF vars, machine, broken, flags, search
<1>. QED  BY <1>1, <1>2, <1>3, <1>4, <1>5, <1>6, <1>7, <1>8, <1>9, <1>10,
    <1>11, <1>12, <1>13, <1>14, <1>15, <1>16, <1>17, <1>18
    DEF Next, Interrupt, Stepper, Processor, HomingCycle

(* Every motion starts from where the one before it has ended.             *)
LEMMA StartStep ==
  ASSUME FlowInv, CycleInv, StartInv, StillInv, TypeOK, SettledInv,
         [Next]_vars
  PROVE  StartInv'
<1> USE DEF FlowInv, CycleInv, StartInv, StillInv, Closed, Searching, RunOn,
    Polling
<1>1. CASE ReceiveReset \/ ReceiveDoor \/ LimitTrip
  BY <1>1 DEF ReceiveReset, mc_reset, machine, broken, search, ReceiveDoor,
    LimitTrip, limits_get_state, Motor
<1>2. CASE Step
  BY <1>2 DEF Step, Prompt, Moving, AtStop, broken, flags, search, Motor
<1>3. CASE StepEnd
  BY <1>3 DEF StepEnd, machine, broken, search
<1>4. CASE RtAlarm \/ RtCriticalEnd \/ RtFlags \/ Suspended
  BY <1>4 DEF RtAlarm, LockState, Goto, machine, broken, search,
    RtCriticalEnd, RtFlags, Caller, Suspended, flags
<1>5. CASE Idle \/ Unlock \/ Reinitialise \/ Home \/ HomeArgument
  BY <1>5 DEF Idle, Pass, machine, broken, flags, search, Unlock,
    Reinitialise, limits_get_state, Motor, Home, Goto, HomeArgument
<1>6. CASE SettlePen \/ CheckLimits \/ Begin
  BY <1>6 DEF SettlePen, Pass, Goto, machine, broken, flags, search,
    CheckLimits, limits_get_state, Motor, Begin, NextCycle
<1>7. CASE Start
  BY <1>7 DEF Start, Goto, broken, flags
<1>8. CASE Poll
  BY <1>8 DEF Poll, limits_get_state, Goto, broken, flags, Motor
<1>9. CASE Lock
  BY <1>9 DEF Lock, Triggered, OutOfSquare, mc_reset, Pass, Goto, machine,
    broken
<1>10. CASE Exit
  BY <1>10 DEF Exit, ExitReasons, Goto, Failure, mc_reset, Pass, machine,
    broken, search, Unreleased, limits_get_state, Motor
<1>11. CASE Stop
  BY <1>11 DEF Stop, Goto, machine, broken, flags, search
<1>12. CASE Debounce
  <2>1. CASE approach
    <3>1. approach' = FALSE
      BY <1>12, <2>1 DEF Debounce
    <3>2. UNCHANGED <<dist, dead, cycle>>
      BY <1>12 DEF Debounce, machine, broken
    <3>. QED  BY <1>12, <2>1, <3>1, <3>2 DEF Debounce, SettledInv
  <2>2. CASE ~approach
    <3>1. approach' = TRUE
      BY <1>12, <2>2 DEF Debounce
    <3>2. UNCHANGED <<dist, dead, stuck, cycle>>
      BY <1>12 DEF Debounce, machine, broken
    <3>3. pc' = "start" => n_cycle' = 1
      BY <1>12, <2>2 DEF Debounce, CycleInv, InCycle, Goto
    <3>. QED  BY <1>12, <2>2, <3>1, <3>2, <3>3 DEF Debounce, SettledInv, PulledOff, TypeOK
  <2>. QED  BY <2>1, <2>2
<1>13. CASE Finish \/ Failed \/ Homed \/ Complete \/ Startup
  BY <1>13 DEF Finish, NextCycle, broken, flags, Goto, Pass, Failed,
    machine, Homed, search, Complete, Startup
<1>14. CASE UNCHANGED vars
  BY <1>14 DEF vars, machine, broken, flags, search
<1>. QED  BY <1>1, <1>2, <1>3, <1>4, <1>5, <1>6, <1>7, <1>8, <1>9, <1>10,
    <1>11, <1>12, <1>13, <1>14
    DEF Next, Interrupt, Stepper, Processor, HomingCycle

(* The heart of it.  Between two polls a motor goes at most Lag steps past *)
(* its switch, and what is left of the search covers the way to it.        *)
LEMMA ApproachStep ==
  ASSUME TypeOK, FlowInv, CycleInv, ApproachInv, StartInv, [Next]_vars
  PROVE  ApproachInv'
<1> USE HomingAssumption DEF HomingAssumption, TypeOK, FlowInv, CycleInv,
    ApproachInv, Motor, ExecFlag, InCycle, Searching, Polling, MotorsOf,
    Direction, Reserve, Seen
<1>1. CASE ReceiveReset
  BY <1>1 DEF ReceiveReset, mc_reset, machine, broken, search
<1>2. CASE ReceiveDoor
  BY <1>2 DEF ReceiveDoor, machine, broken, search
<1>3. CASE LimitTrip
  BY <1>3 DEF LimitTrip, limits_get_state, machine, broken, search
<1>4. CASE Step
  BY <1>4 DEF Step, Prompt, Moving, AtStop, broken, flags, search
<1>5. CASE StepEnd
  BY <1>5 DEF StepEnd, machine, broken, search
<1>6. CASE RtAlarm
  BY <1>6 DEF RtAlarm, LockState, Goto, machine, broken, search
<1>7. CASE RtCriticalEnd
  BY <1>7 DEF RtCriticalEnd, Goto, machine, broken, search
<1>8. CASE RtFlags
  BY <1>8 DEF RtFlags, Goto, Caller, machine, broken, search
<1>9. CASE Suspended
  BY <1>9 DEF Suspended, Goto, machine, broken, flags, search
<1>10. CASE Idle
  BY <1>10 DEF Idle, Pass, machine, broken, flags, search
<1>11. CASE Unlock
  BY <1>11 DEF Unlock, machine, broken, search
<1>12. CASE Reinitialise
  BY <1>12 DEF Reinitialise, limits_get_state, machine, broken
<1>13. CASE Home
  BY <1>13 DEF Home, Goto, machine, broken, search
<1>14. CASE HomeArgument
  BY <1>14 DEF HomeArgument, machine, broken, search
<1>15. CASE SettlePen
  BY <1>15 DEF SettlePen, Pass, Goto, machine, broken, flags, search
<1>16. CASE CheckLimits
  BY <1>16 DEF CheckLimits, limits_get_state, Goto, machine, broken
<1>17. CASE Begin
  BY <1>17 DEF Begin, NextCycle, Goto, machine, broken, flags, Pass
<1>18. CASE Start
  <2>. SUFFICES ASSUME approach, Searching'  PROVE ApproachInv'
    BY <1>18 DEF Start, ApproachInv
  <2>. UNCHANGED <<dist, stuck, dead, cycle, approach, n_cycle, limit_state>>
    BY <1>18 DEF Start, broken, flags
  <2>. axislock' = MotorsOf(cycle) /\ pc' = "poll" /\ sys_position'[cycle] = 0 /\ late' = 0
    BY <1>18 DEF Start, Goto
  <2>1. MotorsOf(cycle)' = MotorsOf(cycle) /\ MotorsOf(cycle) # {}
    BY DEF Axis
  <2>2. ASSUME NEW m \in MotorsOf(cycle) \ dead
        PROVE  /\ dist[m] \in 1..Travel - 1 /\ m \notin stuck
               /\ n_cycle = 1 => dist[m] <= Pulloff
    BY <1>18, <2>2 DEF Start, StartInv, Closed
  <2>3. n_cycle \in {1, 3} /\ motion'.left = IF n_cycle = 3 THEN Search ELSE Locate
    BY <1>18 DEF Start
  <2>4. ASSUME NEW m \in MotorsOf(cycle) \ dead
        PROVE  /\ motion'.left \in Int /\ Reserve' \in Int
               /\ motion'.left >= Reserve' + dist[m]
    BY <2>2, <2>3, <2>4
  <2>5. \A m \in MotorsOf(cycle) : ~Seen(m)'
    BY DEF Seen
  <2>. HIDE DEF TypeOK, FlowInv, CycleInv, Reserve, MotorsOf, Seen, Polling,
      Searching
  <2>. QED  BY <2>1, <2>2, <2>3, <2>4, <2>5 DEF ApproachInv
<1>19. CASE Poll
  <2>. UNCHANGED <<dist, stuck, dead, sticky, motion, sys_position, axislock,
                   cycle, approach, n_cycle, stepping>> /\ late' = 0
    BY <1>19 DEF Poll, broken, flags
  <2>. approach => pc' = "lock" /\ limit_state' = limits_get_state
    BY <1>19 DEF Poll, Goto
  <2>. SUFFICES ASSUME approach, Searching'  PROVE ApproachInv'
    BY DEF ApproachInv
  <2>. Searching
    BY <1>19 DEF Poll
  <2>. Lag \in Nat \ {0} /\ late \in 0..Lag
    OBVIOUS
  <2>1. axislock \subseteq MotorsOf(cycle) /\ axislock # {}
    BY <1>19 DEF Poll
  <2>2. sys_position[cycle] <= 0
    OBVIOUS
  <2>3. \A m \in MotorsOf(cycle) \ axislock :
          m \notin dead /\ dist[m] \in 1 - 2 * Lag..0
    OBVIOUS
  <2>4. ASSUME NEW m \in axislock \ dead
        PROVE  /\ dist[m] < Travel
               /\ m \in stuck => dist[m] <= 0
               /\ dist[m] >= 1 => motion.left >= Reserve + dist[m]
               /\ dist[m] \in Int /\ motion.left \in Int /\ Reserve \in Int
               /\ dist[m] >= 1 - late
               /\ motion.left >= Reserve + 1 - late
    BY <1>19, <2>4 DEF Poll
  <2>5. ASSUME NEW m \in axislock \ dead
        PROVE  IF m \in limits_get_state
               THEN /\ dist[m] \in 1 - Lag..0
                    /\ motion.left >= Reserve + 1 - Lag
               ELSE /\ dist[m] >= 1
                    /\ motion.left >= Reserve + 1
    <3>1. m \in limits_get_state <=> dist[m] <= 0
      BY <2>4, <2>5 DEF limits_get_state, Closed
    <3>. QED  BY <2>4, <2>5, <3>1
  <2>6. \A m \in axislock \ dead : Seen(m)' <=> m \in limits_get_state
    BY DEF Seen
  <2>7. Reserve' = Reserve /\ MotorsOf(cycle)' = MotorsOf(cycle) /\ pc' = "lock"
    OBVIOUS
  <2>8. (limit_state \cap dead)' = {}
    BY DEF limits_get_state, Closed
  <2>. HIDE DEF TypeOK, FlowInv, CycleInv, Reserve, MotorsOf, Seen, Polling,
      Searching
  <2>. QED  BY <2>1, <2>2, <2>3, <2>4, <2>5, <2>6, <2>7, <2>8 DEF ApproachInv
<1>20. CASE Lock
  BY <1>20 DEF Lock, Triggered, OutOfSquare, mc_reset, Pass, Goto, machine,
    broken
<1>21. CASE Exit
  BY <1>21 DEF Exit, ExitReasons, Goto, Failure, mc_reset, Pass, machine,
    broken, search, Unreleased, limits_get_state
<1>22. CASE Stop
  BY <1>22 DEF Stop, Goto, machine, broken, flags, search
<1>23. CASE Debounce
  BY <1>23 DEF Debounce, Goto, machine, broken, flags
<1>24. CASE Finish
  BY <1>24 DEF Finish, NextCycle, broken, flags, Goto, Pass
<1>25. CASE Failed
  BY <1>25 DEF Failed, NextCycle, machine, broken, flags, Goto, Pass
<1>26. CASE Homed
  BY <1>26 DEF Homed, Goto, machine, broken, flags, search
<1>27. CASE Complete
  BY <1>27 DEF Complete, Goto, machine, broken, search
<1>28. CASE Startup
  BY <1>28 DEF Startup, Pass, machine, broken, flags, search
<1>29. CASE UNCHANGED vars
  BY <1>29 DEF vars, machine, broken, flags, search
<1>. QED  BY <1>1, <1>2, <1>3, <1>4, <1>5, <1>6, <1>7, <1>8, <1>9, <1>10,
    <1>11, <1>12, <1>13, <1>14, <1>15, <1>16, <1>17, <1>18, <1>19, <1>20,
    <1>21, <1>22, <1>23, <1>24, <1>25, <1>26, <1>27, <1>28, <1>29
    DEF Next, Interrupt, Stepper, Processor, HomingCycle

(* A pull-off carries both motors the whole way, and its last poll sees    *)
(* every switch open.                                                      *)
LEMMA PullStep ==
  ASSUME TypeOK, FlowInv, CycleInv, StartInv, PullInv, CycleStopInv,
         [Next]_vars
  PROVE  PullInv'
<1> USE HomingAssumption DEF HomingAssumption, TypeOK, FlowInv, CycleInv,
    StartInv, PullInv, CycleStopInv, ExecFlag, Closed, MotorsOf, Searching,
    Direction, PulledOff, RunOn, Polling
<1>1. CASE ReceiveReset \/ ReceiveDoor \/ LimitTrip
  BY <1>1 DEF ReceiveReset, mc_reset, machine, broken, search, ReceiveDoor,
    LimitTrip, limits_get_state
<1>2. CASE Step
  BY <1>2 DEF Step, Prompt, Moving, AtStop, broken, flags, search
<1>3. CASE StepEnd
  BY <1>3 DEF StepEnd, machine, broken, search
<1>4. CASE RtAlarm \/ RtCriticalEnd \/ RtFlags \/ Suspended
  BY <1>4 DEF RtAlarm, LockState, Goto, machine, broken, search,
    RtCriticalEnd, RtFlags, Caller, Suspended, flags
<1>5. CASE Idle \/ Unlock \/ Reinitialise \/ Home \/ HomeArgument
  BY <1>5 DEF Idle, Pass, machine, broken, flags, search, Unlock,
    Reinitialise, limits_get_state, Home, Goto, HomeArgument
<1>6. CASE SettlePen \/ CheckLimits \/ Begin
  BY <1>6 DEF SettlePen, Pass, Goto, machine, broken, flags, search,
    CheckLimits, limits_get_state, Begin, NextCycle
<1>7. CASE Start
  BY <1>7 DEF Start, Goto, broken, flags
<1>8. CASE Poll
  BY <1>8 DEF Poll, limits_get_state, Goto, broken, flags
<1>9. CASE Lock
  BY <1>9 DEF Lock, Triggered, OutOfSquare, mc_reset, Pass, Goto, machine,
    broken
<1>10. CASE Exit
  BY <1>10 DEF Exit, ExitReasons, Goto, Failure, mc_reset, Pass, machine,
    broken, search, Unreleased, limits_get_state
<1>11. CASE Stop \/ Debounce
  BY <1>11 DEF Stop, Goto, machine, broken, flags, search, Debounce
<1>12. CASE Finish
  BY <1>12 DEF Finish, NextCycle, broken, flags, Goto, Pass
<1>13. CASE Failed
  BY <1>13 DEF Failed, NextCycle, machine, broken, flags, Goto, Pass
<1>14. CASE Homed
  BY <1>14 DEF Homed, Goto, machine, broken, flags, search
<1>15. CASE Complete
  BY <1>15 DEF Complete, Goto, machine, broken, search
<1>16. CASE Startup
  BY <1>16 DEF Startup, Pass, machine, broken, flags, search
<1>17. CASE UNCHANGED vars
  BY <1>17 DEF vars, machine, broken, flags, search
<1>. QED  BY <1>1, <1>2, <1>3, <1>4, <1>5, <1>6, <1>7, <1>8, <1>9, <1>10,
    <1>11, <1>12, <1>13, <1>14, <1>15, <1>16, <1>17
    DEF Next, Interrupt, Stepper, Processor, HomingCycle

(* Between the motions nothing moves, and no switch is dead that closed.   *)
LEMMA SettledStep ==
  ASSUME TypeOK, FlowInv, SettledInv, ApproachInv, PullInv, StillInv,
         CycleInv, [Next]_vars
  PROVE  SettledInv'
<1> USE DEF TypeOK, FlowInv, SettledInv, ApproachInv, PullInv, StillInv,
    CycleInv, InCycle, Closed, Searching, RunOn, Polling
<1>1. CASE ReceiveReset \/ ReceiveDoor \/ LimitTrip
  BY <1>1 DEF ReceiveReset, mc_reset, machine, broken, search, ReceiveDoor,
    LimitTrip, limits_get_state
<1>2. CASE Step
  BY <1>2 DEF Step, Prompt, Moving, AtStop, broken, flags, search
<1>3. CASE StepEnd
  BY <1>3 DEF StepEnd, machine, broken, search
<1>4. CASE RtAlarm \/ RtCriticalEnd \/ RtFlags \/ Suspended
  BY <1>4 DEF RtAlarm, LockState, Goto, machine, broken, search,
    RtCriticalEnd, RtFlags, Caller, Suspended, flags
<1>5. CASE Idle \/ Unlock \/ Reinitialise \/ Home \/ HomeArgument
  BY <1>5 DEF Idle, Pass, machine, broken, flags, search, Unlock,
    Reinitialise, limits_get_state, Home, Goto, HomeArgument
<1>6. CASE SettlePen \/ CheckLimits \/ Begin
  BY <1>6 DEF SettlePen, Pass, Goto, machine, broken, flags, search,
    CheckLimits, limits_get_state, Begin, NextCycle
<1>7. CASE Start
  BY <1>7 DEF Start, Goto, broken, flags
<1>8. CASE Poll
  BY <1>8 DEF Poll, limits_get_state, Goto, broken, flags
<1>9. CASE Lock
  BY <1>9 DEF Lock, Triggered, OutOfSquare, mc_reset, Pass, Goto, machine,
    broken
<1>10. CASE Exit
  BY <1>10 DEF Exit, ExitReasons, Goto, Failure, mc_reset, Pass, machine,
    broken, search, Unreleased, limits_get_state
<1>11. CASE Stop \/ Debounce
  BY <1>11 DEF Stop, Goto, machine, broken, flags, search, Debounce
<1>12. CASE Finish
  BY <1>12 DEF Finish, NextCycle, broken, flags, Goto, Pass
<1>13. CASE Failed
  BY <1>13 DEF Failed, NextCycle, machine, broken, flags, Goto, Pass
<1>14. CASE Homed
  BY <1>14 DEF Homed, Goto, machine, broken, flags, search
<1>15. CASE Complete
  BY <1>15 DEF Complete, Goto, machine, broken, search
<1>16. CASE Startup
  BY <1>16 DEF Startup, Pass, machine, broken, flags, search
<1>17. CASE UNCHANGED vars
  BY <1>17 DEF vars, machine, broken, flags, search
<1>. QED  BY <1>1, <1>2, <1>3, <1>4, <1>5, <1>6, <1>7, <1>8, <1>9, <1>10,
    <1>11, <1>12, <1>13, <1>14, <1>15, <1>16, <1>17
    DEF Next, Interrupt, Stepper, Processor, HomingCycle

(* The dual-axis check is armed while one motor is held and the other not. *)
LEMMA DualStep ==
  ASSUME TypeOK, FlowInv, CycleInv, ApproachInv, DualInv, [Next]_vars
  PROVE  DualInv'
<1> USE DEF FlowInv, ApproachInv, DualInv, MotorsOf, Searching, Seen,
    Polling, XMotors, OtherX, TriggerOf
<1>. stepping' => stepping \/ (pc = "start" /\ pc' = "poll")
  BY Booleans
<1>1. CASE ReceiveReset \/ ReceiveDoor \/ LimitTrip
  BY <1>1 DEF ReceiveReset, mc_reset, machine, broken, search, ReceiveDoor,
    LimitTrip, limits_get_state, Motor
<1>2. CASE Step
  BY <1>2 DEF Step, Prompt, Moving, AtStop, broken, flags, search, Motor
<1>3. CASE StepEnd
  BY <1>3 DEF StepEnd, machine, broken, search
<1>4. CASE RtAlarm \/ RtCriticalEnd \/ RtFlags \/ Suspended
  BY <1>4 DEF RtAlarm, LockState, Goto, machine, broken, search,
    RtCriticalEnd, RtFlags, Caller, Suspended, flags
<1>5. CASE Idle \/ Unlock \/ Reinitialise \/ Home \/ HomeArgument
  BY <1>5 DEF Idle, Pass, machine, broken, flags, search, Unlock,
    Reinitialise, limits_get_state, Motor, Home, Goto, HomeArgument
<1>6. CASE SettlePen \/ CheckLimits \/ Begin
  BY <1>6 DEF SettlePen, Pass, Goto, machine, broken, flags, search,
    CheckLimits, limits_get_state, Motor, Begin, NextCycle
<1>7. CASE Start
  BY <1>7 DEF Start, Goto, broken, flags
<1>8. CASE Poll
  BY <1>8 DEF Poll, limits_get_state, Goto, broken, flags, Motor
<1>9. CASE Lock
  BY ZenonT(60), <1>9 DEF Lock, Triggered, OutOfSquare, mc_reset, Pass,
    Goto, machine, broken
<1>10. CASE Exit
  BY <1>10 DEF Exit, ExitReasons, Goto, Failure, mc_reset, Pass, machine,
    broken, search, Unreleased, limits_get_state, Motor
<1>11. CASE Stop \/ Debounce
  BY <1>11 DEF Stop, Goto, machine, broken, flags, search, Debounce
<1>12. CASE Finish
  BY <1>12 DEF Finish, NextCycle, broken, flags, Goto, Pass
<1>13. CASE Failed
  BY <1>13 DEF Failed, NextCycle, machine, broken, flags, Goto, Pass
<1>14. CASE Homed
  BY <1>14 DEF Homed, Goto, machine, broken, flags, search
<1>15. CASE Complete
  BY <1>15 DEF Complete, Goto, machine, broken, search
<1>16. CASE Startup
  BY <1>16 DEF Startup, Pass, machine, broken, flags, search
<1>17. CASE UNCHANGED vars
  BY <1>17 DEF vars, machine, broken, flags, search
<1>. QED  BY <1>1, <1>2, <1>3, <1>4, <1>5, <1>6, <1>7, <1>8, <1>9, <1>10,
    <1>11, <1>12, <1>13, <1>14, <1>15, <1>16, <1>17
    DEF Next, Interrupt, Stepper, Processor, HomingCycle

(* What the end of mc_homing_cycle finds.                                  *)
LEMMA HomedStep ==
  ASSUME TypeOK, FlowInv, HomedInv, CycleInv, SettledInv, StillInv,
         GuardInv, [Next]_vars
  PROVE  HomedInv'
<1> USE DEF TypeOK, FlowInv, HomedInv, CycleInv, SettledInv, StillInv,
    GuardInv, Motor, Axis, InCycle, IsHomed, Closed, AxisHomed, MotorsOf,
    Searching, PulledOff, RunOn, limits_get_state, Polling
<1>1. CASE ReceiveReset \/ ReceiveDoor \/ LimitTrip
  BY <1>1 DEF ReceiveReset, mc_reset, machine, broken, search, ReceiveDoor,
    LimitTrip
<1>2. CASE Step
  BY <1>2 DEF Step, Prompt, Moving, AtStop, broken, flags, search
<1>3. CASE StepEnd
  BY <1>3 DEF StepEnd, machine, broken, search
<1>4. CASE RtAlarm \/ RtCriticalEnd \/ RtFlags \/ Suspended
  BY <1>4 DEF RtAlarm, LockState, Goto, machine, broken, search,
    RtCriticalEnd, RtFlags, Caller, Suspended, flags
<1>5. CASE Idle \/ Unlock \/ Reinitialise \/ Home \/ HomeArgument
  BY <1>5 DEF Idle, Pass, machine, broken, flags, search, Unlock,
    Reinitialise, Home, Goto, HomeArgument
<1>6. CASE SettlePen \/ CheckLimits \/ Begin
  BY <1>6 DEF SettlePen, Pass, Goto, machine, broken, flags, search,
    CheckLimits, Begin, NextCycle
<1>7. CASE Start
  BY <1>7 DEF Start, Goto, broken, flags
<1>8. CASE Poll
  BY <1>8 DEF Poll, Goto, broken, flags
<1>9. CASE Lock
  BY <1>9 DEF Lock, Triggered, OutOfSquare, mc_reset, Pass, Goto, machine,
    broken
<1>10. CASE Exit
  BY <1>10 DEF Exit, ExitReasons, Goto, Failure, mc_reset, Pass, machine,
    broken, search, Unreleased
<1>11. CASE Stop \/ Debounce
  BY <1>11 DEF Stop, Goto, machine, broken, flags, search, Debounce
<1>12. CASE Finish
  BY <1>12 DEF Finish, NextCycle, broken, flags, Goto, Pass
<1>13. CASE Failed
  BY <1>13 DEF Failed, NextCycle, machine, broken, flags, Goto, Pass
<1>14. CASE Homed
  BY <1>14 DEF Homed, Goto, machine, broken, flags, search
<1>15. CASE Complete
  BY <1>15 DEF Complete, Goto, machine, broken, search
<1>16. CASE Startup
  BY <1>16 DEF Startup, Pass, machine, broken, flags, search
<1>17. CASE UNCHANGED vars
  BY <1>17 DEF vars, machine, broken, flags, search
<1>. QED  BY <1>1, <1>2, <1>3, <1>4, <1>5, <1>6, <1>7, <1>8, <1>9, <1>10,
    <1>11, <1>12, <1>13, <1>14, <1>15, <1>16, <1>17
    DEF Next, Interrupt, Stepper, Processor, HomingCycle

-----------------------------------------------------------------------------
(* At power-up nothing moves and no switch has been touched.               *)
LEMMA HomeInit == Init => HomeInv
<1> USE HomingAssumption DEF HomingAssumption
<1> SUFFICES ASSUME Init  PROVE HomeInv
  OBVIOUS
<1> USE DEF Init
<1>1. TypeOK
  <2>1. dist \in [Motor -> -Beyond..Travel + Pulloff]
    <3>1. \A x \in 1..Travel : x \in -Beyond..Travel + Pulloff
      OBVIOUS
    <3>. QED  BY <3>1 DEF Distances
  <2>2. sys_position \in [Axis -> -(Search + Locate)..Pulloff]
    BY DEF Axis
  <2>3. motion \in [axis : Axis, direction : {-1, 1}, left : 0..Search + Locate]
    BY DEF Axis
  <2>4. pc \in Pc /\ ctx \in Pc
    BY DEF Pc
  <2>5. dead \subseteq Motor /\ stuck \subseteq sticky /\ sticky \subseteq Motor
    BY DEF Motor
  <2>6. /\ abort \in BOOLEAN /\ hard_limits \in BOOLEAN
        /\ stepping \in BOOLEAN /\ approach \in BOOLEAN
    OBVIOUS
  <2>7. /\ n_cycle \in 0..3 /\ late \in 0..Lag /\ commands \in 0..MaxCommands
        /\ dual_trigger_position \in -(Search + Locate)..0
    OBVIOUS
  <2>8. /\ state \in State /\ exec_state \subseteq ExecFlag /\ exec_alarm \in Alarm
        /\ axislock \subseteq Motor /\ cycle \in Axis
        /\ limit_state \subseteq Motor /\ dual_check \subseteq DualCheck
    BY DEF State, Alarm, Axis
  <2>. HIDE DEF Init
  <2>. QED  BY <2>1, <2>2, <2>3, <2>4, <2>5, <2>6, <2>7, <2>8 DEF TypeOK
<1>2. FlowInv /\ GuardInv /\ StillInv /\ CycleStopInv
  BY DEF FlowInv, GuardInv, StillInv, CycleStopInv, InCycle
<1>3. ReachInv
  BY DEF ReachInv, Distances
<1>4. CycleInv /\ StartInv /\ ApproachInv /\ PullInv
  BY DEF CycleInv, StartInv, ApproachInv, PullInv, InCycle, Searching, Polling
<1>5. SettledInv /\ DualInv /\ HomedInv
  BY DEF SettledInv, DualInv, HomedInv, Polling
<1>. QED  BY <1>1, <1>2, <1>3, <1>4, <1>5 DEF HomeInv

(* No step of the program, of the stepper or of the user breaks it.        *)
LEMMA HomeStep == HomeInv /\ [Next]_vars => HomeInv'
<1> SUFFICES ASSUME HomeInv, [Next]_vars  PROVE HomeInv'
  OBVIOUS
<1> USE DEF HomeInv
<1>1. TypeOK' /\ FlowInv' /\ GuardInv' /\ StillInv'
  BY TypeStep, FlowStep, GuardStep, StillStep
<1>2. CycleStopInv' /\ ReachInv' /\ CycleInv' /\ StartInv'
  BY CycleStopStep, ReachStep, CycleStep, StartStep
<1>3. ApproachInv' /\ PullInv' /\ SettledInv' /\ DualInv' /\ HomedInv'
  BY ApproachStep, PullStep, SettledStep, DualStep, HomedStep
<1>. QED  BY <1>1, <1>2, <1>3

(* The inductive invariant of homing holds in every reachable state: for   *)
(* every travel, pull-off, poll rate and skew, whichever switch is broken, *)
(* and whatever resets, doors and limit trips come in between.             *)
THEOREM HomeAlways == Spec => []HomeInv
  BY HomeInit, HomeStep, PTL DEF Spec

(* Every variable has its type: no motor is further out than the travel    *)
(* and a pull-off, and no position the code counts runs past the searches. *)
THEOREM TypeCorrect == Spec => []TypeOK
  BY HomeAlways, PTL DEF HomeInv

(* When the startup lines run with no reset waiting, every motor is a      *)
(* pull-off from its switch, within what two polls miss, both positions    *)
(* are the pull-off and no switch is closed: after any number of           *)
(* abandoned cycles, with any broken switch.                               *)
THEOREM StartupAlwaysHomed == Spec => []StartupIsHomed
<1>1. HomeInv => StartupIsHomed
  BY DEF HomeInv, HomedInv, StartupIsHomed
<1>. QED  BY HomeAlways, <1>1, PTL

(* Whenever the main loop waits for a line, the limit interrupt that       *)
(* limits_go_home turned off is on again.                                  *)
THEOREM LimitsAlwaysGuarded == Spec => []LimitsGuarded
<1>1. HomeInv => LimitsGuarded
  BY DEF HomeInv, GuardInv, InCycle, LimitsGuarded
<1>. QED  BY HomeAlways, <1>1, PTL

(* A cycle given up after it took the limit interrupt leaves the alarm     *)
(* lock on, unless both axes were home already.                            *)
THEOREM AbandonedAlwaysLocked == Spec => []AbandonedIsLocked
<1>1. HomeInv => AbandonedIsLocked
  BY DEF HomeInv, HomedInv, AbandonedIsLocked
<1>. QED  BY HomeAlways, <1>1, PTL
-----------------------------------------------------------------------------
(* The gantry.                                                             *)

Within(b) == -b <= Skew /\ Skew <= b
Moved == dual_trigger_position - sys_position["X"]

(* After a failure in the poll loop, until the alarm: what a motion that   *)
(* runs on finds.                                                          *)
FailedInv ==
  pc = "rt" /\ state = "HOMING" /\ stepping /\ motion.axis = "X" =>
    /\ motion.direction = 1 => XMotors \subseteq axislock
    /\ motion.direction = -1 =>
         /\ \A m \in XMotors \ axislock : m \notin dead /\ dist[m] \in 1 - 2 * Lag..0
         /\ \A m \in (XMotors \cap axislock) \ dead : dist[m] >= 1 - Lag - late

(* One switch is dead: the gantry racks only while the other motor is      *)
(* held, and then that switch is closed for good.                          *)
RackOf(m) ==
  /\ dist[m] >= 1 => Within(MaxSkew)
  /\ Polling /\ cycle = "X" /\ m \in axislock => Within(MaxSkew)
  /\ Polling /\ cycle = "X" /\ m \notin axislock =>
       /\ Within(MaxSkew + Moved)
       /\ Moved <= Fail + late + IF pc = "lock" THEN Lag ELSE 0
  /\ pc = "rt" /\ state = "HOMING" /\ stepping /\ motion.axis = "X" =>
       /\ m \in axislock => Within(MaxSkew)
       /\ m \notin axislock => Within(MaxSkew + Fail + Lag + late)

RackInv == \A m \in XMotors : m \notin dead /\ OtherX(m) \in dead => RackOf(m)

SkewInv ==
  /\ GantryStaysSquare
  /\ dead \cap XMotors = {} => Within(MaxSkew + 2 * Lag)
  /\ XMotors \subseteq dead => Within(MaxSkew)

RacksInv == HomeInv /\ FailedInv /\ RackInv /\ SkewInv

(* A motion that is left running was in the poll loop a step before.       *)
LEMMA FailedStep ==
  ASSUME TypeOK, FlowInv, StillInv, CycleInv, ApproachInv, PullInv,
         FailedInv, [Next]_vars
  PROVE  FailedInv'
<1> USE HomingAssumption DEF HomingAssumption, TypeOK, FlowInv, StillInv,
    CycleInv, ApproachInv, PullInv, FailedInv, Motor, RunOn, MotorsOf,
    Direction, Seen, XMotors
<1>. stepping' => stepping \/ (pc = "start" /\ pc' = "poll")
  BY Booleans
<1>1. CASE ReceiveReset \/ ReceiveDoor \/ LimitTrip
  BY <1>1 DEF ReceiveReset, mc_reset, machine, broken, search, ReceiveDoor,
    LimitTrip, limits_get_state
<1>2. CASE Step
  BY <1>2 DEF Step, Prompt, Moving, AtStop, broken, flags, search
<1>3. CASE StepEnd
  BY <1>3 DEF StepEnd, machine, broken, search
<1>4. CASE RtAlarm \/ RtCriticalEnd \/ RtFlags \/ Suspended
  BY <1>4 DEF RtAlarm, LockState, Goto, machine, broken, search,
    RtCriticalEnd, RtFlags, Caller, Suspended, flags
<1>5. CASE Idle \/ Unlock \/ Reinitialise \/ Home \/ HomeArgument
  BY <1>5 DEF Idle, Pass, machine, broken, flags, search, Unlock,
    Reinitialise, limits_get_state, Home, Goto, HomeArgument
<1>6. CASE SettlePen \/ CheckLimits \/ Begin
  BY <1>6 DEF SettlePen, Pass, Goto, machine, broken, flags, search,
    CheckLimits, limits_get_state, Begin, NextCycle
<1>7. CASE Start
  BY <1>7 DEF Start, Goto, broken, flags
<1>8. CASE Poll
  BY <1>8 DEF Poll, limits_get_state, Goto, broken, flags
<1>9. CASE Lock
  BY <1>9 DEF Lock, Triggered, OutOfSquare, mc_reset, Pass, Goto, machine,
    broken
<1>10. CASE Exit
  BY <1>10 DEF Exit, ExitReasons, Goto, Failure, mc_reset, Pass, machine,
    broken, search, Unreleased, limits_get_state
<1>11. CASE Stop \/ Debounce
  BY <1>11 DEF Stop, Goto, machine, broken, flags, search, Debounce
<1>12. CASE Finish \/ Failed \/ Homed \/ Complete \/ Startup
  BY <1>12 DEF Finish, NextCycle, broken, flags, Goto, Pass, Failed,
    machine, Homed, search, Complete, Startup
<1>13. CASE UNCHANGED vars
  BY <1>13 DEF vars, machine, broken, flags, search
<1>. QED  BY <1>1, <1>2, <1>3, <1>4, <1>5, <1>6, <1>7, <1>8, <1>9, <1>10,
    <1>11, <1>12, <1>13
    DEF Next, Interrupt, Stepper, Processor, HomingCycle

(* While one motor is held the other goes at most Fail steps past the      *)
(* trigger, and the poll and the lag of the lock come on top.              *)
LEMMA RackStep ==
  ASSUME TypeOK, FlowInv, StillInv, CycleInv, ApproachInv, PullInv,
         StartInv, ReachInv, DualInv, FailedInv, RackInv, [Next]_vars
  PROVE  RackInv'
<1> USE HomingAssumption DEF HomingAssumption, TypeOK, FlowInv, StillInv,
    CycleInv, ApproachInv, PullInv, StartInv, ReachInv, DualInv, FailedInv,
    RackInv, RackOf, Motor, DualCheck, Pc, InCycle, Searching, RunOn, Closed,
    AxisHomed, MotorsOf, Direction, Reserve, Seen, PulledOff, Polling,
    XMotors, OtherX, TriggerOf, Within, Moved, Skew
<1>. /\ stepping' \in BOOLEAN
     /\ stepping' => stepping \/ (pc = "start" /\ pc' = "poll")
  BY Booleans
<1>1. CASE ReceiveReset
  BY <1>1 DEF ReceiveReset, mc_reset, machine, broken, search
<1>2. CASE ReceiveDoor
  BY <1>2 DEF ReceiveDoor, machine, broken, search
<1>3. CASE LimitTrip
  BY <1>3 DEF LimitTrip, limits_get_state, machine, broken, search
<1>4. CASE Step
  BY <1>4 DEF Step, Prompt, Moving, AtStop, broken, flags, search
<1>5. CASE StepEnd
  BY <1>5 DEF StepEnd, machine, broken, search
<1>6. CASE RtAlarm
  BY <1>6 DEF RtAlarm, LockState, Goto, machine, broken, search
<1>7. CASE RtCriticalEnd
  BY <1>7 DEF RtCriticalEnd, Goto, machine, broken, search
<1>8. CASE RtFlags
  BY <1>8 DEF RtFlags, Goto, Caller, machine, broken, search
<1>9. CASE Suspended
  BY <1>9 DEF Suspended, Goto, machine, broken, flags, search
<1>10. CASE Idle
  BY <1>10 DEF Idle, Pass, machine, broken, flags, search
<1>11. CASE Unlock
  BY <1>11 DEF Unlock, machine, broken, search
<1>12. CASE Reinitialise
  BY <1>12 DEF Reinitialise, limits_get_state, machine, broken
<1>13. CASE Home
  BY <1>13 DEF Home, Goto, machine, broken, search
<1>14. CASE HomeArgument
  BY <1>14 DEF HomeArgument, machine, broken, search
<1>15. CASE SettlePen
  BY <1>15 DEF SettlePen, Pass, Goto, machine, broken, flags, search
<1>16. CASE CheckLimits
  BY <1>16 DEF CheckLimits, limits_get_state, Goto, machine, broken
<1>17. CASE Begin
  BY <1>17 DEF Begin, NextCycle, Goto, machine, broken, flags, Pass
<1>18. CASE Start
  BY <1>18 DEF Start, Goto, broken, flags
<1>19. CASE Poll
  BY <1>19 DEF Poll, limits_get_state, Goto, broken, flags
<1>20. CASE Lock
  <2>. SUFFICES ASSUME NEW m \in XMotors, m \notin dead, OtherX(m) \in dead,
                       cycle = "X"
                PROVE  RackOf(m)'
    BY <1>20 DEF Lock, Goto, Pass, machine, broken
  <2>. UNCHANGED <<dist, stuck, dead, sys_position, motion, late, cycle, state>>
    BY <1>20 DEF Lock, machine, broken
  <2>1. /\ pc = "lock" /\ approach /\ Polling /\ Searching
        /\ axislock' = axislock \ limit_state /\ state = "HOMING"
    BY <1>20 DEF Lock
  <2>2. OtherX(m) \in axislock \ limit_state /\ axislock \subseteq XMotors
    BY <2>1
  <2>3. /\ dist[m] \in Int /\ dist[OtherX(m)] \in Int /\ late \in Nat
        /\ sys_position["X"] \in Int /\ dual_trigger_position \in Int
        /\ Moved \in Int /\ Skew \in Int
        /\ Lag \in Nat /\ Fail \in Nat /\ MaxSkew \in Nat
    BY DEF Axis
  <2>4. Skew' = Skew /\ (dist[m] >= 1 => Within(MaxSkew))
    OBVIOUS
  <2>5. pc' \in {"rt", "exit"}
    BY <1>20 DEF Lock, Goto, Pass
  <2>6. CASE m \notin axislock
    <3>1. dual_check = {"ENABLE", TriggerOf(m)} /\ Triggered = {}
      <4>1. axislock = {OtherX(m)}
        BY <2>2, <2>6, ZenonT(60)
      <4>2. dual_check = {"ENABLE", TriggerOf(m)}
        BY <2>1, <4>1 DEF DualInv
      <4>3. axislock \cap limit_state = {}
        BY <2>2, <4>1
      <4>. QED  BY <4>2, <4>3 DEF Triggered
    <3>2. dual_trigger_position' = dual_trigger_position
      BY <1>20, <3>1 DEF Lock
    <3>3. pc' = "exit" => Moved <= Fail
      BY <1>20, <2>3, <3>1 DEF Lock, OutOfSquare, Goto, Pass
    <3>4. Within(MaxSkew + Moved) /\ Moved <= Fail + late + Lag
      BY <2>1, <2>6
    <3>5. Moved' = Moved /\ m \notin axislock'
      BY <2>1, <2>6, <3>2
    <3>. HIDE DEF TypeOK, FlowInv, CycleInv, ApproachInv, RackInv, XMotors,
        OtherX, Skew, Moved
    <3>. QED  BY <2>3, <2>4, <2>5, <3>3, <3>4, <3>5 DEF RackOf
  <2>7. CASE m \in axislock
    <3>1. Within(MaxSkew) /\ dual_check = {}
      <4>1. axislock = XMotors
        BY <2>2, <2>7, ZenonT(60)
      <4>. QED  BY <2>1, <2>7, <4>1 DEF DualInv
    <3>2. pc' = "exit"
      <4>1. "ENABLE" \notin dual_check \cup Triggered
        BY <3>1 DEF Triggered
      <4>. QED  BY <1>20, <4>1 DEF Lock, Goto, Pass
    <3>3. CASE m \notin limit_state
      <4>1. m \in axislock'
        BY <2>1, <2>7, <3>3
      <4>. HIDE DEF TypeOK, FlowInv, CycleInv, ApproachInv, RackInv, XMotors,
          OtherX, Skew, Moved
      <4>. QED  BY <2>4, <3>1, <3>2, <4>1 DEF RackOf
    <3>4. CASE m \in limit_state
      <4>1. Triggered = {TriggerOf(m)}
        BY <2>2, <2>7, <3>4 DEF Triggered
      <4>2. dual_trigger_position' = sys_position["X"]
        BY <1>20, <3>1, <4>1 DEF Lock
      <4>3. Moved' = 0
        BY <2>3, <4>2
      <4>. HIDE DEF TypeOK, FlowInv, CycleInv, ApproachInv, RackInv, XMotors,
          OtherX, Skew, Moved
      <4>. QED  BY <2>3, <2>4, <3>1, <3>2, <4>3 DEF RackOf
    <3>. QED  BY <3>3, <3>4
  <2>. QED  BY <2>6, <2>7
<1>21. CASE Exit
  BY <1>21 DEF Exit, ExitReasons, Goto, Failure, mc_reset, Pass, machine,
    broken, search, Unreleased, limits_get_state
<1>22. CASE Stop
  BY <1>22 DEF Stop, Goto, machine, broken, flags, search
<1>23. CASE Debounce
  BY <1>23 DEF Debounce, Goto, machine, broken, flags
<1>24. CASE Finish
  BY <1>24 DEF Finish, NextCycle, broken, flags, Goto, Pass
<1>25. CASE Failed
  BY <1>25 DEF Failed, NextCycle, machine, broken, flags, Goto, Pass
<1>26. CASE Homed
  BY <1>26 DEF Homed, Goto, machine, broken, flags, search
<1>27. CASE Complete
  BY <1>27 DEF Complete, Goto, machine, broken, search
<1>28. CASE Startup
  BY <1>28 DEF Startup, Pass, machine, broken, flags, search
<1>29. CASE UNCHANGED vars
  BY <1>29 DEF vars, machine, broken, flags, search
<1>. QED  BY <1>1, <1>2, <1>3, <1>4, <1>5, <1>6, <1>7, <1>8, <1>9, <1>10,
    <1>11, <1>12, <1>13, <1>14, <1>15, <1>16, <1>17, <1>18, <1>19, <1>20,
    <1>21, <1>22, <1>23, <1>24, <1>25, <1>26, <1>27, <1>28, <1>29
    DEF Next, Interrupt, Stepper, Processor, HomingCycle

(* The rack at a failure, and what is left of the motion, bound the skew.  *)
LEMMA SkewStep ==
  ASSUME TypeOK, FlowInv, StillInv, CycleInv, ApproachInv, PullInv,
         FailedInv, RackInv, SkewInv, [Next]_vars
  PROVE  SkewInv'
<1> USE HomingAssumption DEF HomingAssumption, TypeOK, FlowInv, StillInv,
    CycleInv, ApproachInv, PullInv, FailedInv, RackInv, RackOf, SkewInv, Motor,
    Searching, RunOn, MotorsOf, Direction, PulledOff, XMotors, OtherX,
    Within, Polling, Moved, GantryStaysSquare, Skew, SkewBound
<1>1. CASE ReceiveReset
  BY <1>1 DEF ReceiveReset, mc_reset, machine, broken, search
<1>2. CASE ReceiveDoor
  BY <1>2 DEF ReceiveDoor, machine, broken, search
<1>3. CASE LimitTrip
  BY <1>3 DEF LimitTrip, limits_get_state, machine, broken, search
<1>4. CASE Step
  BY <1>4 DEF Step, Prompt, Moving, AtStop, broken, flags, search
<1>5. CASE StepEnd
  BY <1>5 DEF StepEnd, machine, broken, search
<1>6. CASE RtAlarm
  BY <1>6 DEF RtAlarm, LockState, Goto, machine, broken, search
<1>7. CASE RtCriticalEnd
  BY <1>7 DEF RtCriticalEnd, Goto, machine, broken, search
<1>8. CASE RtFlags
  BY <1>8 DEF RtFlags, Goto, Caller, machine, broken, search
<1>9. CASE Suspended
  BY <1>9 DEF Suspended, Goto, machine, broken, flags, search
<1>10. CASE Idle
  BY <1>10 DEF Idle, Pass, machine, broken, flags, search
<1>11. CASE Unlock
  BY <1>11 DEF Unlock, machine, broken, search
<1>12. CASE Reinitialise
  BY <1>12 DEF Reinitialise, limits_get_state, machine, broken
<1>13. CASE Home
  BY <1>13 DEF Home, Goto, machine, broken, search
<1>14. CASE HomeArgument
  BY <1>14 DEF HomeArgument, machine, broken, search
<1>15. CASE SettlePen
  BY <1>15 DEF SettlePen, Pass, Goto, machine, broken, flags, search
<1>16. CASE CheckLimits
  BY <1>16 DEF CheckLimits, limits_get_state, Goto, machine, broken
<1>17. CASE Begin
  BY <1>17 DEF Begin, NextCycle, Goto, machine, broken, flags, Pass
<1>18. CASE Start
  BY <1>18 DEF Start, Goto, broken, flags
<1>19. CASE Poll
  BY <1>19 DEF Poll, limits_get_state, Goto, broken, flags
<1>20. CASE Lock
  BY <1>20 DEF Lock, Triggered, OutOfSquare, mc_reset, Pass, Goto, machine,
    broken
<1>21. CASE Exit
  BY <1>21 DEF Exit, ExitReasons, Goto, Failure, mc_reset, Pass, machine,
    broken, search, Unreleased, limits_get_state
<1>22. CASE Stop
  BY <1>22 DEF Stop, Goto, machine, broken, flags, search
<1>23. CASE Debounce
  BY <1>23 DEF Debounce, Goto, machine, broken, flags
<1>24. CASE Finish
  BY <1>24 DEF Finish, NextCycle, broken, flags, Goto, Pass
<1>25. CASE Failed
  BY <1>25 DEF Failed, NextCycle, machine, broken, flags, Goto, Pass
<1>26. CASE Homed
  BY <1>26 DEF Homed, Goto, machine, broken, flags, search
<1>27. CASE Complete
  BY <1>27 DEF Complete, Goto, machine, broken, search
<1>28. CASE Startup
  BY <1>28 DEF Startup, Pass, machine, broken, flags, search
<1>29. CASE UNCHANGED vars
  BY <1>29 DEF vars, machine, broken, flags, search
<1>. QED  BY <1>1, <1>2, <1>3, <1>4, <1>5, <1>6, <1>7, <1>8, <1>9, <1>10,
    <1>11, <1>12, <1>13, <1>14, <1>15, <1>16, <1>17, <1>18, <1>19, <1>20,
    <1>21, <1>22, <1>23, <1>24, <1>25, <1>26, <1>27, <1>28, <1>29
    DEF Next, Interrupt, Stepper, Processor, HomingCycle

(* At power-up the skew is within MaxSkew.                                 *)
LEMMA RacksInit == Init => FailedInv /\ RackInv /\ SkewInv
<1> USE HomingAssumption DEF HomingAssumption
<1> SUFFICES ASSUME Init  PROVE FailedInv /\ RackInv /\ SkewInv
  OBVIOUS
<1>1. Within(MaxSkew) /\ Skew \in Int
  BY DEF Init, Distances, Within, Skew
<1>2. pc = "loop" /\ ~Polling
  BY DEF Init, Polling
<1>3. FailedInv /\ RackInv
  BY <1>1, <1>2 DEF FailedInv, RackInv, RackOf
<1>4. GantryStaysSquare
  BY <1>1 DEF GantryStaysSquare, SkewBound, Within
<1>5. Within(MaxSkew + 2 * Lag)
  BY <1>1 DEF Within
<1>. QED  BY <1>1, <1>3, <1>4, <1>5, Zenon DEF SkewInv

(* No step racks it further.                                               *)
LEMMA RacksStep == RacksInv /\ [Next]_vars => RacksInv'
<1> SUFFICES ASSUME RacksInv, [Next]_vars  PROVE RacksInv'
  OBVIOUS
<1>1. HomeInv'
  BY HomeStep DEF RacksInv
<1>2. FailedInv' /\ RackInv' /\ SkewInv'
  BY FailedStep, RackStep, SkewStep DEF RacksInv, HomeInv
<1>. QED  BY <1>1, <1>2 DEF RacksInv

(* The two motors of X are never further apart than the dual-axis check    *)
(* allows, the poll that ends the motion and what the gantry was racked    *)
(* by before: over any number of attempts, with resets and doors in any    *)
(* of them, and whichever switch is dead or sticks (limits.c 260-330).     *)
THEOREM GantryAlwaysSquare == Spec => []GantryStaysSquare
<1>1. Init => RacksInv
  BY HomeInit, RacksInit DEF RacksInv
<1>2. RacksInv => GantryStaysSquare
  BY DEF RacksInv, SkewInv
<1>. QED  BY <1>1, <1>2, RacksStep, PTL DEF Spec
=============================================================================

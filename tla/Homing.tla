------------------------------- MODULE Homing -------------------------------
(***************************************************************************)
(* $H: mc_homing_cycle and limits_go_home, the gantry with its two X       *)
(* motors, the switches, and what a reset, a door command or a hard limit  *)
(* does at any point of it.                                                *)
(*                                                                         *)
(* dist is where each motor really is, in steps from its home switch; what *)
(* the code knows is sys_position.  Motors are X1 and X2 (the dual axis)   *)
(* and Y; an X step moves both unless a lock holds one of them.  A switch  *)
(* may never close (dead) or, once closed, never open (sticky).            *)
(*                                                                         *)
(* The loop of limits_go_home polls the switches; at most Lag steps fall   *)
(* between two polls.  A search is longer than the way to the switch by    *)
(* what two polls may miss.  Passes of protocol_execute_realtime are       *)
(* atomic here: what can fall inside one is the subject of Realtime.       *)
(***************************************************************************)
EXTENDS Integers, FiniteSets

CONSTANTS Travel,         \* of every axis; a switch is at both ends
          MaxSkew,        \* between the ends of the gantry, before homing
          Search,         \* length of the first approach
          Locate,         \* length of the second one
          Pulloff,        \* homing_pulloff
          Fail,           \* dual_fail_distance
          Lag,            \* steps between two polls
          Beyond,         \* steps past a switch to the mechanical stop
          MaxCommands     \* resets, door commands and limit trips

ASSUME HomingAssumption ==
  /\ {Travel, Pulloff, Lag} \subseteq Nat \ {0}
  /\ {MaxSkew, Fail, Beyond, MaxCommands} \subseteq Nat
  /\ Search \in Nat /\ Search >= Travel + 2 * Lag - 1
  /\ Locate \in Nat /\ Locate >= Pulloff + 2 * Lag
  /\ Pulloff > 2 * Lag - 1 /\ Travel > Pulloff

Axis == {"X", "Y"}
Motor == {"X1", "X2", "Y"}
MotorsOf(a) == IF a = "X" THEN {"X1", "X2"} ELSE {"Y"}

State == {"IDLE", "ALARM", "HOMING", "SAFETY_DOOR"}
Alarm == {"none", "HARD_LIMIT", "FAIL_RESET", "FAIL_DOOR", "FAIL_PULLOFF",
          "FAIL_APPROACH", "FAIL_DUAL_APPROACH"}
ExecFlag == {"RESET", "SAFETY_DOOR", "CYCLE_STOP"}
DualCheck == {"ENABLE", "TRIGGER_1", "TRIGGER_2"}

VARIABLES
  dist,         \* motor -> steps from its home switch
  dead, sticky, \* motors whose switch is broken
  stuck,        \* sticky switches that have closed
  state, abort, \* sys.state, sys.abort
  exec_state, exec_alarm,
  hard_limits,  \* the limit interrupt is enabled
  sys_position, \* axis -> steps, as the code counts them
  axislock,     \* motors that may step: homing_axis_lock and its dual
  stepping,     \* the stepper interrupt is on
  motion,       \* the planned block: its axis, direction and steps left
  cycle, approach, n_cycle,
  limit_state,  \* the switches as last polled
  dual_check, dual_trigger_position,
  late,         \* steps since the last poll
  pc, ctx,      \* where the main program is; where it goes after a pass
  commands

machine == <<dist, stuck, sys_position, motion, late>>
broken == <<dead, sticky>>
flags == <<state, abort, exec_state, exec_alarm>>
search == <<axislock, cycle, approach, n_cycle, limit_state, dual_check,
            dual_trigger_position>>
vars == <<machine, broken, flags, search, hard_limits, stepping, pc, ctx,
          commands>>

Closed(m) == m \notin dead /\ (dist[m] <= 0 \/ dist[m] >= Travel \/ m \in stuck)
limits_get_state == {m \in Motor : Closed(m)}

Distances == {d \in [Motor -> 1..Travel] : d["X1"] - d["X2"] \in -MaxSkew..MaxSkew}

(* Power up: HOMING_INIT_LOCK.  At most one switch is broken, or both of X *)
(* are dead.                                                               *)
Init ==
  /\ dist \in Distances
  /\ \/ dead \in {{}, {"X1", "X2"}} \cup {{m} : m \in Motor} /\ sticky = {}
     \/ dead = {} /\ sticky \in {{m} : m \in Motor}
  /\ stuck = {}
  /\ state = "ALARM" /\ abort = FALSE /\ exec_state = {} /\ exec_alarm = "none"
  /\ hard_limits = TRUE
  /\ sys_position = [a \in Axis |-> 0]
  /\ axislock = {} /\ stepping = FALSE /\ late = 0
  /\ motion = [axis |-> "X", direction |-> -1, left |-> 0]
  /\ cycle = "X" /\ approach = TRUE /\ n_cycle = 0
  /\ limit_state = {} /\ dual_check = {} /\ dual_trigger_position = 0
  /\ pc = "loop" /\ ctx = "loop" /\ commands = 0

-----------------------------------------------------------------------------
(* mc_reset after alarm a was set ("none" if none was): only the first one *)
(* stops the motors and it adds no alarm to one that is there.             *)
mc_reset(a) ==
  IF "RESET" \in exec_state THEN exec_alarm' = a /\ UNCHANGED <<exec_state, stepping>>
  ELSE /\ exec_state' = exec_state \cup {"RESET"}
       /\ IF state = "HOMING"
          THEN /\ stepping' = FALSE
               /\ exec_alarm' = IF a = "none" THEN "FAIL_RESET" ELSE a
          ELSE exec_alarm' = a /\ UNCHANGED stepping

(* Interrupts.                                                             *)
ReceiveReset ==
  /\ commands < MaxCommands \/ pc = "critical"  \* the user always has a reset
  /\ commands' = IF pc = "critical" THEN commands ELSE commands + 1
  /\ mc_reset(exec_alarm)
  /\ UNCHANGED <<machine, broken, state, abort, search, hard_limits, pc, ctx>>

(* A door command; what it does outside homing is in Realtime.             *)
ReceiveDoor ==
  /\ commands < MaxCommands /\ state = "HOMING"
  /\ commands' = commands + 1
  /\ exec_state' = exec_state \cup {"SAFETY_DOOR"}
  /\ UNCHANGED <<machine, broken, state, abort, exec_alarm, search,
                 hard_limits, stepping, pc, ctx>>

LimitTrip ==
  /\ commands < MaxCommands
  /\ hard_limits /\ limits_get_state # {}
  /\ state # "ALARM" /\ exec_alarm = "none"
  /\ commands' = commands + 1
  /\ exec_alarm' = "HARD_LIMIT"
  /\ exec_state' = exec_state \cup {"RESET"}
  /\ IF "RESET" \notin exec_state /\ state = "HOMING"
     THEN stepping' = FALSE ELSE UNCHANGED stepping
  /\ UNCHANGED <<machine, broken, state, abort, search, hard_limits, pc, ctx>>

Polling == pc \in {"poll", "lock", "exit"}

(* From a poll on, the code runs straight through until the next poll, the *)
(* stop of the steppers, or the alarm: at most Lag steps fall in it.       *)
Prompt == Polling \/ pc = "stop" \/ (pc = "rt" /\ state = "HOMING")

(* A step of the motion.  The locks hold in state HOMING only.             *)
Moving == MotorsOf(motion.axis) \cap (IF state = "HOMING" THEN axislock ELSE Motor)
AtStop(m) == motion.direction = -1 /\ dist[m] = -Beyond

Step ==
  /\ stepping /\ motion.left > 0
  /\ Prompt => late < Lag
  /\ dist' = [m \in Motor |-> IF m \in Moving /\ ~AtStop(m)
                              THEN dist[m] + motion.direction ELSE dist[m]]
  /\ stuck' = stuck \cup {m \in sticky : dist'[m] <= 0}
  /\ sys_position' = [sys_position EXCEPT ![motion.axis] = @ + motion.direction]
  /\ motion' = [motion EXCEPT !.left = @ - 1]
  /\ late' = IF Prompt THEN late + 1 ELSE late
  /\ UNCHANGED <<broken, flags, search, hard_limits, stepping, pc, ctx,
                 commands>>

(* The motion is over, or nobody fills the segment buffer any more.        *)
StepEnd ==
  /\ stepping
  /\ Polling \/ pc = "stop" => motion.left = 0
  /\ stepping' = FALSE
  /\ exec_state' = exec_state \cup {"CYCLE_STOP"}
  /\ UNCHANGED <<machine, broken, state, abort, exec_alarm, search,
                 hard_limits, pc, ctx, commands>>

Stepper == Step \/ StepEnd
Interrupt == ReceiveReset \/ ReceiveDoor \/ LimitTrip \/ Stepper

-----------------------------------------------------------------------------
Goto(p) == pc' = p /\ UNCHANGED ctx
Pass(p) == pc' = "rt" /\ ctx' = p        \* protocol_execute_realtime, then p

(* A pass: alarm, reset, or a door command.  A door command that is still  *)
(* there when homing is over finds no hold to complete.                    *)
LockNone == state   \* mutant: the alarm is reported and not locked
LockState == "ALARM"

RtAlarm ==
  /\ pc = "rt" /\ exec_alarm # "none"
  /\ state' = LockState
  /\ IF exec_alarm = "HARD_LIMIT"
     THEN /\ exec_state' = exec_state \ {"RESET"}
          /\ Goto("critical") /\ UNCHANGED exec_alarm
     ELSE exec_alarm' = "none" /\ UNCHANGED <<exec_state, pc, ctx>>
  /\ UNCHANGED <<machine, broken, abort, search, hard_limits, stepping,
                 commands>>

RtCriticalEnd ==
  /\ pc = "critical" /\ "RESET" \in exec_state
  /\ exec_alarm' = "none" /\ Goto("rt")
  /\ UNCHANGED <<machine, broken, state, abort, exec_state, search,
                 hard_limits, stepping, commands>>

Caller == IF state = "SAFETY_DOOR" THEN "suspend" ELSE ctx

RtFlags ==
  /\ pc = "rt" /\ exec_alarm = "none"
  /\ IF "RESET" \in exec_state
     THEN abort' = TRUE /\ Goto(Caller) /\ UNCHANGED <<state, exec_state>>
     ELSE /\ exec_state' = {}
          /\ IF "SAFETY_DOOR" \in exec_state /\ state = "HOMING"
             THEN state' = "SAFETY_DOOR" /\ Goto("suspend")
             ELSE UNCHANGED state /\ Goto(Caller)
          /\ UNCHANGED abort
  /\ UNCHANGED <<machine, broken, exec_alarm, search, hard_limits, stepping,
                 commands>>

(* The suspend loop without SUSPEND_HOLD_COMPLETE: passes until a reset.   *)
Suspended ==
  /\ pc = "suspend"
  /\ Goto(IF abort THEN ctx ELSE "rt")
  /\ UNCHANGED <<machine, broken, flags, search, hard_limits, stepping,
                 commands>>

-----------------------------------------------------------------------------
(* The main loop: a pass between lines, $X and $H.                         *)
Idle ==
  /\ pc = "loop" /\ ~abort
  /\ Pass("loop")
  /\ UNCHANGED <<machine, broken, flags, search, hard_limits, stepping,
                 commands>>

Unlock ==
  /\ pc = "loop" /\ ~abort /\ state = "ALARM"
  /\ state' = "IDLE"
  /\ UNCHANGED <<machine, broken, abort, exec_state, exec_alarm, search,
                 hard_limits, stepping, pc, ctx, commands>>

(* main, and the head of protocol_main_loop: state survives, unless it is  *)
(* HOMING, and a closed switch locks the machine.                          *)
Reinitialise ==
  /\ pc = "loop" /\ abort
  /\ abort' = FALSE /\ exec_state' = {} /\ exec_alarm' = "none"
  /\ hard_limits' = TRUE /\ stepping' = FALSE /\ axislock' = {}
  /\ state' = IF state = "ALARM" \/ limits_get_state # {} THEN "ALARM" ELSE "IDLE"
  /\ UNCHANGED <<machine, broken, cycle, approach, n_cycle, limit_state,
                 dual_check, dual_trigger_position, pc, ctx, commands>>

(* $H, and $H followed by anything, which is refused too late.             *)
Home ==
  /\ pc = "loop" /\ ~abort /\ state \in {"IDLE", "ALARM"}
  /\ state' = "HOMING"
  /\ Goto("settle")
  /\ UNCHANGED <<machine, broken, abort, exec_state, exec_alarm, search,
                 hard_limits, stepping, commands>>

HomeArgument ==
  /\ pc = "loop" /\ ~abort /\ state \in {"IDLE", "ALARM"}
  /\ state' = "HOMING"
  /\ UNCHANGED <<machine, broken, abort, exec_state, exec_alarm, search,
                 hard_limits, stepping, pc, ctx, commands>>

(* mc_homing_cycle: the pen goes up and settles.                           *)
SettlePen ==
  /\ pc = "settle"
  /\ IF "RESET" \in exec_state THEN Pass("complete") ELSE Goto("check")
  /\ UNCHANGED <<machine, broken, flags, search, hard_limits, stepping,
                 commands>>

(* A closed switch may be that of the wrong end: no homing.                *)
CheckLimitsMissing ==   \* mutant: LIMITS_TWO_SWITCHES_ON_AXES off
  /\ pc = "check"
  /\ hard_limits' = FALSE /\ cycle' = "X" /\ Goto("begin")
  /\ UNCHANGED <<exec_state, exec_alarm, stepping>>
  /\ UNCHANGED <<machine, broken, state, abort, axislock, approach, n_cycle,
                 limit_state, dual_check, dual_trigger_position, commands>>
CheckLimits ==
  /\ pc = "check"
  /\ IF limits_get_state # {}
     THEN /\ exec_state' = exec_state \cup {"RESET"}
          /\ exec_alarm' = "HARD_LIMIT"
          /\ stepping' = FALSE
          /\ Goto("complete")
          /\ UNCHANGED <<hard_limits, cycle>>
     ELSE /\ hard_limits' = FALSE /\ cycle' = "X"
          /\ Goto("begin")
          /\ UNCHANGED <<exec_state, exec_alarm, stepping>>
  /\ UNCHANGED <<machine, broken, state, abort, axislock, approach, n_cycle,
                 limit_state, dual_check, dual_trigger_position, commands>>

NextCycle == IF cycle = "X" THEN cycle' = "Y" /\ Goto("begin")
             ELSE UNCHANGED cycle /\ Pass("homed")

(* limits_go_home: an approach, a pull-off, a slower approach, a pull-off. *)
Begin ==
  /\ pc = "begin"
  /\ approach' = TRUE
  /\ IF abort THEN NextCycle /\ UNCHANGED n_cycle
     ELSE n_cycle' = 3 /\ Goto("start") /\ UNCHANGED cycle
  /\ UNCHANGED <<machine, broken, flags, axislock, limit_state, dual_check,
                 dual_trigger_position, hard_limits, stepping, commands>>

DirectionIgnored == 1   \* mutant: always away from the switch
Direction == IF approach THEN -1 ELSE 1

Start ==
  /\ pc = "start"
  /\ sys_position' = [sys_position EXCEPT ![cycle] = 0]
  /\ axislock' = MotorsOf(cycle)
  /\ dual_check' = {} /\ dual_trigger_position' = 0
  /\ motion' = [axis |-> cycle, direction |-> Direction,
                left |-> IF ~approach THEN Pulloff
                         ELSE IF n_cycle = 3 THEN Search ELSE Locate]
  /\ late' = 0
  /\ stepping' = TRUE
  /\ Goto("poll")
  /\ UNCHANGED <<dist, stuck, broken, flags, cycle, approach, n_cycle,
                 limit_state, hard_limits, commands>>

Poll ==
  /\ pc = "poll"
  /\ limit_state' = IF approach THEN limits_get_state ELSE limit_state
  /\ late' = 0
  /\ Goto(IF approach THEN "lock" ELSE "exit")
  /\ UNCHANGED <<dist, stuck, sys_position, motion, broken, flags, axislock,
                 cycle, approach, n_cycle, dual_check, dual_trigger_position,
                 hard_limits, stepping, commands>>

(* Lock the motors whose switch has closed.  From the first of the two X   *)
(* switches on, count the steps to the second.                             *)
Triggered == {t \in {"TRIGGER_1", "TRIGGER_2"} :
                (IF t = "TRIGGER_1" THEN "X1" ELSE "X2")
                  \in axislock \cap limit_state}
OutOfSquare(p) ==
  LET d == p - sys_position["X"] IN d > Fail \/ d < -Fail

Lock ==
  /\ pc = "lock"
  /\ axislock' = axislock \ limit_state
  /\ LET check == dual_check \cup Triggered
         both == {"TRIGGER_1", "TRIGGER_2"} \subseteq check
         failed == "ENABLE" \in check /\ ~both
                     /\ OutOfSquare(dual_trigger_position)
     IN  /\ dual_check' = CASE check = {} -> {}
                            [] "ENABLE" \in check /\ both -> {}
                            [] OTHER -> check \cup {"ENABLE"}
         /\ dual_trigger_position' =
              IF check # {} /\ "ENABLE" \notin check
              THEN sys_position["X"] ELSE dual_trigger_position
         /\ IF failed THEN mc_reset("FAIL_DUAL_APPROACH") /\ Pass("failed")
            ELSE UNCHANGED <<exec_state, exec_alarm, stepping>> /\ Goto("exit")
  /\ UNCHANGED <<machine, broken, state, abort, cycle, approach, n_cycle,
                 limit_state, hard_limits, commands>>

(* Why the motion cannot go on, if it cannot; of several reasons the last. *)
UnreleasedOne ==   \* mutant: the mask of the cycle, without the second switch
  ~approach /\ limits_get_state \cap (MotorsOf(cycle) \ {"X2"}) # {}
Unreleased == ~approach /\ limits_get_state \cap MotorsOf(cycle) # {}
Failure ==
  IF approach /\ "CYCLE_STOP" \in exec_state THEN "FAIL_APPROACH"
  ELSE IF Unreleased THEN "FAIL_PULLOFF"
  ELSE IF "SAFETY_DOOR" \in exec_state THEN "FAIL_DOOR"
  ELSE IF "RESET" \in exec_state THEN "FAIL_RESET"
  ELSE exec_alarm

ExitReasonsFew == exec_state \ {"CYCLE_STOP"}   \* mutant: the end is not seen
ExitReasons == exec_state

Exit ==
  /\ pc = "exit"
  /\ IF ExitReasons = {}
     THEN /\ Goto(IF axislock = {} THEN "stop" ELSE "poll")
          /\ UNCHANGED <<exec_state, exec_alarm, stepping>>
     ELSE IF Failure # "none" THEN mc_reset(Failure) /\ Pass("failed")
     ELSE /\ exec_state' = exec_state \ {"CYCLE_STOP"} /\ Goto("stop")
          /\ UNCHANGED <<exec_alarm, stepping>>
  /\ UNCHANGED <<machine, broken, state, abort, search, hard_limits,
                 commands>>

(* st_reset, the debounce delay, and on to the next motion.                *)
Stop ==
  /\ pc = "stop"
  /\ stepping' = FALSE
  /\ Goto("debounce")
  /\ UNCHANGED <<machine, broken, flags, search, hard_limits, commands>>

Debounce ==
  /\ pc = "debounce"
  /\ approach' = ~approach
  /\ IF n_cycle = 0 THEN UNCHANGED n_cycle /\ Goto("finish")
     ELSE n_cycle' = n_cycle - 1 /\ Goto("start")
  /\ UNCHANGED <<machine, broken, flags, axislock, cycle, limit_state,
                 dual_check, dual_trigger_position, hard_limits, stepping,
                 commands>>

Finish ==
  /\ pc = "finish"
  /\ sys_position' = [sys_position EXCEPT ![cycle] = Pulloff]
  /\ NextCycle
  /\ UNCHANGED <<dist, stuck, motion, late, broken, flags, axislock, approach,
                 n_cycle, limit_state, dual_check, dual_trigger_position,
                 hard_limits, stepping, commands>>

Failed ==
  /\ pc = "failed"
  /\ NextCycle
  /\ UNCHANGED <<machine, broken, flags, axislock, approach, n_cycle,
                 limit_state, dual_check, dual_trigger_position, hard_limits,
                 stepping, commands>>

(* The end of mc_homing_cycle, and what system_execute_line makes of it.   *)
HomedUnguarded ==   \* mutant: no limits_init
  /\ pc = "homed"
  /\ Goto("complete")
  /\ UNCHANGED <<machine, broken, flags, search, hard_limits, stepping, commands>>
Homed ==
  /\ pc = "homed"
  /\ hard_limits' = IF abort THEN hard_limits ELSE TRUE
  /\ Goto("complete")
  /\ UNCHANGED <<machine, broken, flags, search, stepping, commands>>

Complete ==
  /\ pc = "complete"
  /\ IF abort THEN UNCHANGED <<state, stepping>> /\ Goto("loop")
     ELSE state' = "IDLE" /\ stepping' = FALSE /\ Goto("startup")
  /\ UNCHANGED <<machine, broken, abort, exec_state, exec_alarm, search,
                 hard_limits, commands>>

Startup ==
  /\ pc = "startup"
  /\ Pass("loop")
  /\ UNCHANGED <<machine, broken, flags, search, hard_limits, stepping,
                 commands>>

-----------------------------------------------------------------------------
HomingCycle ==
  \/ SettlePen \/ CheckLimits \/ Begin \/ Start \/ Poll \/ Lock \/ Exit
  \/ Stop \/ Debounce \/ Finish \/ Failed \/ Homed \/ Complete \/ Startup
Processor == RtAlarm \/ RtCriticalEnd \/ RtFlags \/ Suspended \/ Idle
               \/ Reinitialise \/ HomingCycle

Next == Interrupt \/ Processor \/ Unlock \/ Home \/ HomeArgument

(* The processor and the stepper timer run; the user need not do anything. *)
Spec == Init /\ [][Next]_vars /\ WF_vars(Processor) /\ WF_vars(Stepper)
-----------------------------------------------------------------------------
(* Every variable has its type; no motor is past its mechanical stop or    *)
(* further out than a pull-off can take it.                                *)
Pc == {"loop", "rt", "critical", "suspend", "settle", "check", "begin",
       "start", "poll", "lock", "exit", "stop", "debounce", "finish",
       "failed", "homed", "complete", "startup"}

TypeOK ==
  /\ dist \in [Motor -> -Beyond..Travel + Pulloff]
  /\ dead \subseteq Motor /\ stuck \subseteq sticky /\ sticky \subseteq Motor
  /\ state \in State /\ abort \in BOOLEAN
  /\ exec_state \subseteq ExecFlag /\ exec_alarm \in Alarm
  /\ hard_limits \in BOOLEAN /\ stepping \in BOOLEAN
  /\ sys_position \in [Axis -> -(Search + Locate)..Pulloff]
  /\ axislock \subseteq Motor
  /\ motion \in [axis : Axis, direction : {-1, 1}, left : 0..Search + Locate]
  /\ cycle \in Axis /\ approach \in BOOLEAN /\ n_cycle \in 0..3
  /\ limit_state \subseteq Motor /\ dual_check \subseteq DualCheck
  /\ dual_trigger_position \in -(Search + Locate)..0
  /\ late \in 0..Lag /\ pc \in Pc /\ ctx \in Pc /\ commands \in 0..MaxCommands

Skew == dist["X1"] - dist["X2"]

(* When the startup lines run and no reset waits, both axes are where      *)
(* limits_go_home says they are, every motor to within the steps two polls *)
(* miss; the gantry is square, and no switch is closed.  However long the  *)
(* machine was used before, whichever switch is broken.                    *)
IsHomed ==
  /\ \A m \in Motor : dist[m] \in Pulloff + 1 - 2 * Lag..Pulloff
  /\ \A a \in Axis : sys_position[a] = Pulloff
  /\ limits_get_state = {}
StartupIsHomed == pc = "startup" /\ "RESET" \notin exec_state => IsHomed

(* The dual-axis check bounds how far the gantry can be racked, over any   *)
(* number of attempts, resets in any of them and either switch broken.     *)
SkewBound == MaxSkew + Fail + 2 * Lag
GantryStaysSquare == Skew \in -SkewBound..SkewBound

(* Back in the main loop the hard limits guard the machine again.          *)
LimitsGuarded == pc = "loop" /\ ~abort => hard_limits

(* Once homing has touched the limit interrupt, a cycle that is given up   *)
(* leaves the machine locked, unless both axes were home already.          *)
AbandonedIsLocked ==
  pc = "complete" /\ abort /\ ~hard_limits => state = "ALARM" \/ IsHomed

(* A homing cycle ends: in the main loop, in a critical alarm, or, when a  *)
(* door command comes after the last poll, in the suspend loop.            *)
HomingEnds ==
  (state = "HOMING" /\ pc # "loop") ~> (pc \in {"loop", "critical", "suspend"})

(* What the repository says and the code does not do; each is violated.    *)

(* system.h:79: STATE_HOMING means that a homing cycle is being performed; *)
(* no line is waited for in it.                                            *)
HomingIsPerformed == pc = "loop" => state # "HOMING"

(* system.c:195: startup lines run after successful homing only.           *)
StartupNeedsHoming == pc = "startup" => IsHomed

(* limits.c:338: a homing that failed has stopped the motors.              *)
FailureStopsMotors == pc = "rt" /\ ctx = "failed" => ~stepping

(* main.c:61: only a homing cycle or $X ends the alarm lock; a machine     *)
(* that was given up before it is home starts again locked.                *)
LockIsKept == pc = "complete" /\ abort => state = "ALARM" \/ IsHomed
=============================================================================

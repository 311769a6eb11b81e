------------------------------ MODULE Realtime ------------------------------
(***************************************************************************)
(* The realtime state machine of protocol.c and everything that runs into  *)
(* it: the receive, limit and stepper interrupts, mc_reset, the main loop  *)
(* with the lines it executes, the suspend loop, and the initialisation    *)
(* loop of main.c.                                                         *)
(*                                                                         *)
(* The main program is one sequential process; pc is where it is, ctx the  *)
(* check point that called protocol_execute_realtime, sub what the suspend *)
(* loop is doing.  An interrupt may fall between any two of its steps; a   *)
(* step never both reads and later clears a flag that an interrupt sets.   *)
(*                                                                         *)
(* Motion is counted in units: a planner block is one to BlockUnits units, *)
(* st_prep_buffer turns a unit into a segment, the stepper interrupt       *)
(* executes a segment at a time.  A block and a segment carry the pen      *)
(* position they are to be drawn with.                                     *)
(***************************************************************************)
EXTENDS Naturals, Sequences, FiniteSets

CONSTANTS BlockSlots,     \* planner blocks (BLOCK_BUFFER_SIZE - 1)
          SegmentSlots,   \* segments (SEGMENT_BUFFER_SIZE - 1)
          BlockUnits,     \* longest block, in segments
          MaxLines,       \* lines, the startup line and the host's
          MaxCommands     \* realtime commands and limit trips

ASSUME RealtimeAssumption ==
  /\ BlockSlots \in Nat \ {0} /\ SegmentSlots \in Nat \ {0}
  /\ BlockUnits \in Nat \ {0} /\ MaxLines \in Nat /\ MaxCommands \in Nat

State == {"IDLE", "ALARM", "CHECK_MODE", "CYCLE", "HOLD", "JOG",
          "SAFETY_DOOR", "SLEEP"}
ExecFlag == {"CYCLE_START", "CYCLE_STOP", "FEED_HOLD", "RESET",
             "SAFETY_DOOR", "MOTION_CANCEL", "SLEEP"}
Alarm == {"none", "HARD_LIMIT", "SOFT_LIMIT", "ABORT_CYCLE"}
SuspendFlag == {"HOLD_COMPLETE", "RESTART_RETRACT", "RETRACT_COMPLETE",
                "INITIATE_RESTORE", "RESTORE_COMPLETE", "SAFETY_DOOR_AJAR",
                "MOTION_CANCEL", "JOG_CANCEL"}
StepFlag == {"END_MOTION", "EXECUTE_HOLD"}
StopOverride == {"DISABLED", "INITIATE", "ENABLED", "RESTORE", "RESTORE_CYCLE"}
Pen == {"up", "down"}

HoldFlags == {"MOTION_CANCEL", "FEED_HOLD", "SAFETY_DOOR", "SLEEP"}
Critical == {"HARD_LIMIT", "SOFT_LIMIT"}

VARIABLES
  sys,        \* the system_t struct
  exec_state, \* sys_rt_exec_state, a set of flags
  exec_alarm, \* sys_rt_exec_alarm
  ovr_stop,   \* EXEC_SPINDLE_OVR_STOP in sys_rt_exec_accessory_override
  blocks,     \* planner blocks, oldest first
  segments,   \* prepared segments, oldest first: the pen of each
  stepping,   \* the stepper interrupt is enabled (OCIE1A)
  pen,        \* commanded pen position (OCR2B)
  modal,      \* gc_state.modal.spindle: the pen of the program
  restore,    \* restore_condition of protocol_exec_rt_suspend
  pc, ctx, sub,
  rt_exec,    \* the snapshot protocol_exec_rt_system works on
  line,       \* the line being executed
  lost,       \* a reset has killed the steppers in motion
  stale,      \* a restore was flagged complete when it was over already
  lines, commands   \* how many there have been so far

motion == <<blocks, segments, stepping>>
main == <<pc, ctx, sub, rt_exec, line, restore>>
harm == <<lost, stale>>
budget == <<lines, commands>>
vars == <<sys, exec_state, exec_alarm, ovr_stop, blocks, segments, stepping,
          pen, modal, restore, pc, ctx, sub, rt_exec, line, lost, stale,
          lines, commands>>

ClearedSys(s) ==
  [state |-> s, suspend |-> {}, step_control |-> {}, abort |-> FALSE,
   soft_limit |-> FALSE, spindle_stop_ovr |-> "DISABLED"]

Init ==
  /\ \E s \in {"IDLE", "ALARM"} : sys = ClearedSys(s)   \* HOMING_INIT_LOCK
  /\ exec_state = {} /\ exec_alarm = "none" /\ ovr_stop = FALSE
  /\ blocks = << >> /\ segments = << >> /\ stepping = FALSE
  /\ pen = "up" /\ modal = "up" /\ restore = "up"
  /\ pc = "init" /\ ctx = "idle" /\ sub = "none"
  /\ rt_exec = {} /\ line = "none" /\ lost = FALSE /\ stale = FALSE
  /\ lines = 0 /\ commands = 0

-----------------------------------------------------------------------------
(* Steppers and pen.                                                       *)

(* st_go_idle.                                                             *)
GoIdle == stepping' = FALSE

(* The steppers killed by a reset: the position is lost if they were still *)
(* executing segments.                                                     *)
KillSteppers == GoIdle /\ lost' = (lost \/ (stepping /\ segments # << >>))

PenSetUnguarded(p) == p        \* mutant: no check for a reset

(* _spindle_set_state: not over a reset that is pending or under way.      *)
PenSet(p) == IF sys.abort \/ "RESET" \in exec_state THEN pen ELSE p

(* mc_reset, leaving alarm a behind it.  Kills the steppers in a motion    *)
(* state only.                                                             *)
KillsMotion == \/ sys.state \in {"CYCLE", "JOG"}
               \/ "EXECUTE_HOLD" \in sys.step_control

mc_reset ==
  IF "RESET" \in exec_state
  THEN UNCHANGED <<exec_state, exec_alarm, pen, stepping, lost>>
  ELSE /\ exec_state' = exec_state \cup {"RESET"}
       /\ pen' = "up"
       /\ IF KillsMotion
          THEN exec_alarm' = "ABORT_CYCLE" /\ KillSteppers
          ELSE UNCHANGED <<exec_alarm, stepping, lost>>

(* mc_reset followed by system_set_exec_alarm(a).                          *)
mc_reset_with(a) ==
  /\ exec_state' = exec_state \cup {"RESET"}
  /\ exec_alarm' = a
  /\ IF "RESET" \in exec_state
     THEN UNCHANGED <<pen, stepping, lost>>
     ELSE /\ pen' = "up"
          /\ IF KillsMotion THEN KillSteppers
             ELSE UNCHANGED <<stepping, lost>>

-----------------------------------------------------------------------------
(* Interrupts.                                                             *)

(* ISR(SERIAL_RX) on a realtime command.                                   *)
ReceiveFlag(f) ==
  /\ commands < MaxCommands
  /\ commands' = commands + 1
  /\ exec_state' = exec_state \cup {f}
  /\ UNCHANGED <<sys, exec_alarm, ovr_stop, motion, pen, modal, main, harm,
                 lines>>

ReceiveJogCancel ==
  /\ sys.state = "JOG"
  /\ ReceiveFlag("MOTION_CANCEL")

ReceiveStopOverride ==         \* free in a hold, where alone it matters
  /\ commands < MaxCommands \/ sys.state = "HOLD"
  /\ commands' = IF sys.state = "HOLD" THEN commands ELSE commands + 1
  /\ ovr_stop' = TRUE
  /\ UNCHANGED <<sys, exec_state, exec_alarm, motion, pen, modal, main, harm,
                 lines>>

ReceiveReset ==
  /\ commands < MaxCommands \/ pc = "critical"  \* the user always has a reset
  /\ commands' = IF pc = "critical" THEN commands ELSE commands + 1
  /\ mc_reset
  /\ UNCHANGED <<sys, ovr_stop, blocks, segments, modal, main, lines, stale>>

(* The limit pin change interrupt, with a switch open.                     *)
LimitTrip ==
  /\ commands < MaxCommands
  /\ commands' = commands + 1
  /\ sys.state # "ALARM" /\ exec_alarm = "none"
  /\ mc_reset_with("HARD_LIMIT")
  /\ UNCHANGED <<sys, ovr_stop, blocks, segments, modal, main, lines, stale>>

(* The stepper interrupt: a segment, or the end of the segment buffer.     *)
StepSegment ==
  /\ stepping /\ segments # << >>
  /\ segments' = Tail(segments)
  /\ UNCHANGED <<sys, exec_state, exec_alarm, ovr_stop, blocks, stepping, pen,
                 modal, main, harm, budget>>

StepEmpty ==
  /\ stepping /\ segments = << >>
  /\ stepping' = FALSE
  /\ exec_state' = exec_state \cup {"CYCLE_STOP"}
  /\ UNCHANGED <<sys, exec_alarm, ovr_stop, blocks, segments, pen, modal,
                 main, harm, budget>>

Stepper == StepSegment \/ StepEmpty

Interrupt ==
  \/ \E f \in {"CYCLE_START", "FEED_HOLD", "SAFETY_DOOR"} : ReceiveFlag(f)
  \/ ReceiveJogCancel
  \/ ReceiveStopOverride
  \/ ReceiveReset
  \/ LimitTrip
  \/ Stepper

-----------------------------------------------------------------------------
(* protocol_exec_rt_system.                                                *)

(* The sections of one pass, in order, for a snapshot f.                   *)
AfterStart(f) == IF "CYCLE_STOP" \in f THEN "stop" ELSE "ovr"
AfterHold(f) == IF "CYCLE_START" \in f THEN "cycleStart" ELSE AfterStart(f)
AfterSnap(f) == IF f \cap HoldFlags # {} THEN "hold" ELSE AfterHold(f)

Goto(p) == pc' = p /\ UNCHANGED <<ctx, sub, rt_exec, line, restore>>

RtNoAlarm ==
  /\ pc = "rt" /\ exec_alarm = "none"
  /\ Goto("snap")
  /\ UNCHANGED <<sys, exec_state, exec_alarm, ovr_stop, motion, pen, modal,
                 harm, budget>>

RtAlarm ==
  /\ pc = "rt" /\ exec_alarm # "none"
  /\ sys' = [sys EXCEPT !.state = "ALARM"]
  /\ IF exec_alarm \in Critical
     THEN exec_state' = exec_state \ {"RESET"} /\ Goto("critical")
     ELSE UNCHANGED exec_state /\ Goto("clearAlarm")
  /\ UNCHANGED <<exec_alarm, ovr_stop, motion, pen, modal, harm, budget>>

(* The loop after a critical event: only a new reset leaves it.            *)
RtCriticalEnd ==
  /\ pc = "critical" /\ "RESET" \in exec_state
  /\ Goto("clearAlarm")
  /\ UNCHANGED <<sys, exec_state, exec_alarm, ovr_stop, motion, pen, modal,
                 harm, budget>>

RtClearAlarm ==
  /\ pc = "clearAlarm"
  /\ exec_alarm' = "none"
  /\ Goto("snap")
  /\ UNCHANGED <<sys, exec_state, ovr_stop, motion, pen, modal, harm, budget>>

RtSnapshot ==
  /\ pc = "snap"
  /\ IF "RESET" \in exec_state
     THEN /\ sys' = [sys EXCEPT !.abort = TRUE]
          /\ Goto("return")
     ELSE /\ rt_exec' = exec_state
          /\ pc' = AfterSnap(exec_state)
          /\ UNCHANGED <<sys, ctx, sub, line, restore>>
  /\ UNCHANGED <<exec_state, exec_alarm, ovr_stop, motion, pen, modal, harm,
                 budget>>

(* Hold, door, motion cancel and sleep: how each changes system_t.         *)
BeginHold(s) ==    \* lines 263 to 273
  LET held == s.suspend \cap {"MOTION_CANCEL", "JOG_CANCEL"} # {}
      jog == s.state = "JOG" /\ "SLEEP" \notin rt_exec
  IN  IF s.state \in {"CYCLE", "JOG"} /\ ~held
      THEN [s EXCEPT !.step_control = {"EXECUTE_HOLD"},
                     !.suspend = IF jog THEN @ \cup {"JOG_CANCEL"} ELSE @]
      ELSE IF s.state = "IDLE" THEN [s EXCEPT !.suspend = {"HOLD_COMPLETE"}]
      ELSE s

MotionCancel(s) ==
  IF "MOTION_CANCEL" \in rt_exec /\ s.state # "JOG"
  THEN [s EXCEPT !.suspend = @ \cup {"MOTION_CANCEL"}] ELSE s

FeedHold(s) ==
  IF "FEED_HOLD" \in rt_exec /\ s.state \notin {"SAFETY_DOOR", "JOG", "SLEEP"}
  THEN [s EXCEPT !.state = "HOLD"] ELSE s

SafetyDoor(s) ==
  IF "SAFETY_DOOR" \notin rt_exec THEN s
  ELSE LET restarts == s.state = "SAFETY_DOOR"
                         /\ "INITIATE_RESTORE" \in s.suspend
           opened == IF "JOG_CANCEL" \in s.suspend THEN s
             ELSE [s EXCEPT
               !.suspend = IF restarts
                 THEN (@ \ {"RETRACT_COMPLETE", "INITIATE_RESTORE",
                            "RESTORE_COMPLETE"}) \cup {"RESTART_RETRACT"}
                 ELSE @,
               !.state = IF @ = "SLEEP" THEN @ ELSE "SAFETY_DOOR"]
       IN  [opened EXCEPT !.suspend = @ \cup {"SAFETY_DOOR_AJAR"}]

Sleep(s) ==
  IF "SLEEP" \notin rt_exec THEN s
  ELSE [s EXCEPT
    !.suspend = IF s.state = "ALARM"
                THEN @ \cup {"RETRACT_COMPLETE", "HOLD_COMPLETE"} ELSE @,
    !.state = "SLEEP"]

RtHold ==
  /\ pc = "hold"
  /\ sys' = Sleep(IF sys.state \in {"ALARM", "CHECK_MODE"} THEN sys
                  ELSE SafetyDoor(FeedHold(MotionCancel(BeginHold(sys)))))
  /\ Goto("holdClear")
  /\ UNCHANGED <<exec_state, exec_alarm, ovr_stop, motion, pen, modal, harm,
                 budget>>

RtHoldClearAll ==              \* mutant: clears the cycle stop as well
  /\ pc = "holdClear"
  /\ exec_state' = exec_state \ (HoldFlags \cup {"CYCLE_STOP"})
  /\ Goto(AfterHold(rt_exec))
  /\ UNCHANGED <<sys, exec_alarm, ovr_stop, motion, pen, modal, harm, budget>>

RtHoldClear ==
  /\ pc = "holdClear"
  /\ exec_state' = exec_state \ HoldFlags
  /\ Goto(AfterHold(rt_exec))
  /\ UNCHANGED <<sys, exec_alarm, ovr_stop, motion, pen, modal, harm, budget>>

(* Cycle start.  A door that has closed resumes in two goes: restore, then *)
(* the cycle.  The restored door state falls through to the cycle start.   *)
ResumeDoor(s) ==
  IF s.state = "SAFETY_DOOR" /\ "SAFETY_DOOR_AJAR" \notin s.suspend
  THEN IF "RESTORE_COMPLETE" \in s.suspend THEN [s EXCEPT !.state = "IDLE"]
       ELSE IF "RETRACT_COMPLETE" \in s.suspend
       THEN [s EXCEPT !.suspend = @ \cup {"INITIATE_RESTORE"}]
       ELSE s
  ELSE s

StartCycleSuspended(s) ==      \* mutant: the suspend flags survive
  [s EXCEPT !.step_control = {},
            !.state = IF blocks # << >> THEN "CYCLE" ELSE "IDLE"]

StartCycle(s) ==
  IF blocks # << >> /\ "MOTION_CANCEL" \notin s.suspend
  THEN [s EXCEPT !.step_control = {}, !.suspend = {}, !.state = "CYCLE"]
  ELSE [s EXCEPT !.step_control = {}, !.suspend = {}, !.state = "IDLE"]

ReadyOrHolding(s) == s.state \in {"IDLE", "HOLD"}   \* mutant

ReadyToStart(s) ==
  \/ s.state = "IDLE"
  \/ s.state = "HOLD" /\ "HOLD_COMPLETE" \in s.suspend

RtStart ==
  /\ pc = "cycleStart"
  /\ LET blocked == rt_exec \cap {"FEED_HOLD", "MOTION_CANCEL", "SAFETY_DOOR"}
                      # {}
         s == ResumeDoor(sys)
         ready == ReadyToStart(s)
         started == StartCycle(s)
     IN  CASE blocked -> UNCHANGED sys /\ Goto("startClear")
           [] ~blocked /\ ~ready -> sys' = s /\ Goto("startClear")
           [] ~blocked /\ ready /\ s.state = "HOLD"
                /\ s.spindle_stop_ovr # "DISABLED" ->
                sys' = [s EXCEPT !.spindle_stop_ovr =
                          IF @ = "INITIATE" THEN @ ELSE "RESTORE_CYCLE"]
                  /\ Goto("startClear")
           [] OTHER -> sys' = started
                  /\ Goto(IF started.state = "CYCLE" THEN "startPrep"
                          ELSE "startClear")
  /\ UNCHANGED <<exec_state, exec_alarm, ovr_stop, motion, pen, modal, harm,
                 budget>>

RtStartClearAll ==             \* mutant: clears the cycle stop as well
  /\ pc = "startClear"
  /\ exec_state' = exec_state \ {"CYCLE_START", "CYCLE_STOP"}
  /\ Goto(AfterStart(rt_exec))
  /\ UNCHANGED <<sys, exec_alarm, ovr_stop, motion, pen, modal, harm, budget>>

RtStartClear ==
  /\ pc = "startClear"
  /\ exec_state' = exec_state \ {"CYCLE_START"}
  /\ Goto(AfterStart(rt_exec))
  /\ UNCHANGED <<sys, exec_alarm, ovr_stop, motion, pen, modal, harm, budget>>

(* st_wake_up, after the segment buffer was filled for a cycle or a jog.   *)
WakeUp ==
  /\ pc \in {"startWake", "jogWake"}
  /\ stepping' = TRUE
  /\ Goto(IF pc = "startWake" THEN "startClear" ELSE "lineEnd")
  /\ UNCHANGED <<sys, exec_state, exec_alarm, ovr_stop, blocks, segments, pen,
                 modal, harm, budget>>

(* Cycle stop: a hold is complete, or the motion is over.                  *)
StopsHold == /\ sys.state \in {"HOLD", "SAFETY_DOOR", "SLEEP"}
             /\ ~sys.soft_limit
             /\ "JOG_CANCEL" \notin sys.suspend

RtStopHold ==
  /\ pc = "stop" /\ StopsHold
  /\ sys' = [sys EXCEPT
       !.suspend = IF "EXECUTE_HOLD" \in sys.step_control
                   THEN @ \cup {"HOLD_COMPLETE"} ELSE @,
       !.step_control = @ \ {"EXECUTE_HOLD"}]
  /\ Goto("stopClear")
  /\ UNCHANGED <<exec_state, exec_alarm, ovr_stop, motion, pen, modal, harm,
                 budget>>

RtStopMotion ==
  /\ pc = "stop" /\ ~StopsHold
  /\ IF "JOG_CANCEL" \in sys.suspend          \* plan_reset, st_reset
     THEN blocks' = << >> /\ segments' = << >> /\ GoIdle
     ELSE UNCHANGED motion
  /\ sys' =
       LET steps == IF "JOG_CANCEL" \in sys.suspend THEN {}
                    ELSE sys.step_control
       IN IF "SAFETY_DOOR_AJAR" \in sys.suspend
          THEN [sys EXCEPT !.step_control = steps, !.state = "SAFETY_DOOR",
                  !.suspend = (@ \ {"JOG_CANCEL"}) \cup {"HOLD_COMPLETE"}]
          ELSE [sys EXCEPT !.step_control = steps, !.state = "IDLE",
                  !.suspend = {}]
  /\ Goto("stopClear")
  /\ UNCHANGED <<exec_state, exec_alarm, ovr_stop, pen, modal, harm, budget>>

RtStopClear ==
  /\ pc = "stopClear"
  /\ exec_state' = exec_state \ {"CYCLE_STOP"}
  /\ Goto("ovr")
  /\ UNCHANGED <<sys, exec_alarm, ovr_stop, motion, pen, modal, harm, budget>>

(* The spindle stop override, then the decision to reload segments.        *)
RtOverride ==
  /\ pc = "ovr"
  /\ ovr_stop' = FALSE
  /\ sys' = [sys EXCEPT !.spindle_stop_ovr =
       IF ~ovr_stop \/ sys.state # "HOLD" THEN @
       ELSE IF @ = "DISABLED" THEN "INITIATE"
       ELSE IF @ = "ENABLED" THEN "RESTORE" ELSE @]
  /\ Goto(IF sys.state \in {"CYCLE", "HOLD", "SAFETY_DOOR", "SLEEP", "JOG"}
          THEN "prep" ELSE "return")
  /\ UNCHANGED <<exec_state, exec_alarm, motion, pen, modal, harm, budget>>

-----------------------------------------------------------------------------
(* st_prep_buffer, a segment at a time.  A forced deceleration ends at any *)
(* point of a block.                                                       *)
Prepping == pc \in {"startPrep", "jogPrep", "prep"}
PrepBlocked == \/ "END_MOTION" \in sys.step_control
               \/ Len(segments) = SegmentSlots
               \/ blocks = << >>

PrepSegment ==
  /\ Prepping /\ ~PrepBlocked
  /\ segments' = Append(segments, Head(blocks).pen)
  /\ blocks' = IF Head(blocks).left = 1 THEN Tail(blocks)
               ELSE [blocks EXCEPT ![1].left = @ - 1]
  /\ UNCHANGED <<sys, exec_state, exec_alarm, ovr_stop, stepping, pen, modal,
                 main, harm, budget>>

PrepHoldEnd ==
  /\ Prepping /\ ~PrepBlocked
  /\ "EXECUTE_HOLD" \in sys.step_control
  /\ sys' = [sys EXCEPT !.step_control = @ \cup {"END_MOTION"}]
  /\ UNCHANGED <<exec_state, exec_alarm, ovr_stop, motion, pen, modal, main,
                 harm, budget>>

PrepReturn ==
  /\ Prepping /\ PrepBlocked
  /\ Goto(CASE pc = "startPrep" -> "startWake"
            [] pc = "jogPrep" -> "jogWake"
            [] pc = "prep" -> "return")
  /\ UNCHANGED <<sys, exec_state, exec_alarm, ovr_stop, motion, pen, modal,
                 harm, budget>>

-----------------------------------------------------------------------------
(* protocol_execute_realtime and protocol_exec_rt_suspend.                 *)

(* The pen to restore is that of the block that was interrupted.           *)
RestoreStale == restore        \* mutant: not taken anew

RestoreCondition == IF blocks = << >> THEN modal ELSE Head(blocks).pen

RtReturn ==
  /\ pc = "return"
  /\ rt_exec' = {}
  /\ CASE sub = "none" /\ sys.suspend # {} ->
            sub' = "loop" /\ restore' = RestoreCondition /\ pc' = "suspend"
       [] sub = "none" /\ sys.suspend = {} ->
            pc' = ctx /\ UNCHANGED <<sub, restore>>
       [] sub = "loop" -> pc' = "suspend" /\ UNCHANGED <<sub, restore>>
       [] sub = "sleep" /\ sys.abort ->
            sub' = "none" /\ pc' = ctx /\ UNCHANGED restore
       [] sub = "sleep" /\ ~sys.abort ->
            pc' = "rt" /\ UNCHANGED <<sub, restore>>
       [] sub = "delay" -> pc' = "delay" /\ UNCHANGED <<sub, restore>>
  /\ UNCHANGED <<sys, exec_state, exec_alarm, ovr_stop, motion, pen, modal,
                 ctx, line, harm, budget>>

SuspendEnd ==
  /\ pc = "suspend"
  /\ sys.suspend = {} \/ sys.abort
  /\ sub' = "none" /\ pc' = ctx
  /\ UNCHANGED <<sys, exec_state, exec_alarm, ovr_stop, motion, pen, modal,
                 ctx, rt_exec, line, restore, harm, budget>>

Suspended == pc = "suspend" /\ sys.suspend # {} /\ ~sys.abort
Stopped == Suspended /\ "HOLD_COMPLETE" \in sys.suspend
Parked == sys.state \in {"SAFETY_DOOR", "SLEEP"}

SuspendWait ==
  /\ Suspended
  /\ \/ "HOLD_COMPLETE" \notin sys.suspend
     \/ Stopped /\ ~Parked /\ sys.spindle_stop_ovr = "DISABLED"
     \/ /\ Stopped /\ sys.state = "SAFETY_DOOR"
        /\ "RETRACT_COMPLETE" \in sys.suspend
        /\ "SAFETY_DOOR_AJAR" \notin sys.suspend
        /\ "INITIATE_RESTORE" \notin sys.suspend
  /\ Goto("rt")
  /\ UNCHANGED <<sys, exec_state, exec_alarm, ovr_stop, motion, pen, modal,
                 harm, budget>>

SuspendRetract ==
  /\ Stopped /\ Parked /\ "RETRACT_COMPLETE" \notin sys.suspend
  /\ sys' = [sys EXCEPT !.spindle_stop_ovr = "DISABLED",
       !.suspend = (@ \ {"RESTART_RETRACT"}) \cup {"RETRACT_COMPLETE"}]
  /\ pen' = PenSet("up")
  /\ Goto("rt")
  /\ UNCHANGED <<exec_state, exec_alarm, ovr_stop, motion, modal, harm,
                 budget>>

SuspendSleep ==
  /\ Stopped /\ sys.state = "SLEEP" /\ "RETRACT_COMPLETE" \in sys.suspend
  /\ pen' = PenSet("up")
  /\ GoIdle
  /\ sub' = "sleep" /\ pc' = "rt"
  /\ UNCHANGED <<sys, exec_state, exec_alarm, ovr_stop, blocks, segments,
                 modal, ctx, rt_exec, line, restore, harm, budget>>

(* No door switch is fitted: the door counts as closed at once.            *)
SuspendDoorClosed ==
  /\ Stopped /\ sys.state = "SAFETY_DOOR"
  /\ "RETRACT_COMPLETE" \in sys.suspend
  /\ "SAFETY_DOOR_AJAR" \in sys.suspend
  /\ "INITIATE_RESTORE" \notin sys.suspend
  /\ sys' = [sys EXCEPT !.suspend = @ \ {"SAFETY_DOOR_AJAR"}]
  /\ Goto("rt")
  /\ UNCHANGED <<exec_state, exec_alarm, ovr_stop, motion, pen, modal, harm,
                 budget>>

(* Restore: lower the pen again if the program had it down, wait, resume.  *)
SuspendRestore ==
  /\ Stopped /\ sys.state = "SAFETY_DOOR"
  /\ {"RETRACT_COMPLETE", "INITIATE_RESTORE"} \subseteq sys.suspend
  /\ sys' = [sys EXCEPT !.suspend = @ \ {"SAFETY_DOOR_AJAR"}]
  /\ IF modal = "down" /\ "RESTART_RETRACT" \notin sys.suspend
     THEN pen' = PenSet(restore) /\ sub' = "delay"
     ELSE UNCHANGED <<pen, sub>>
  /\ pc' = "delay"
  /\ UNCHANGED <<exec_state, exec_alarm, ovr_stop, motion, modal, ctx,
                 rt_exec, line, restore, harm, budget>>

(* delay_sec in suspend mode: passes of protocol_exec_rt_system until the  *)
(* time is over, the door opens again or a reset comes.                    *)
DelayPass ==
  /\ pc = "delay" /\ sub = "delay"
  /\ ~sys.abort /\ "RESTART_RETRACT" \notin sys.suspend
  /\ Goto("rt")
  /\ UNCHANGED <<sys, exec_state, exec_alarm, ovr_stop, motion, pen, modal,
                 harm, budget>>

DelayOver ==
  /\ pc = "delay"
  /\ sub' = "loop" /\ pc' = "rt"
  /\ IF "RESTART_RETRACT" \in sys.suspend THEN UNCHANGED <<sys, exec_state>>
     ELSE /\ sys' = [sys EXCEPT !.suspend = @ \cup {"RESTORE_COMPLETE"}]
          /\ exec_state' = exec_state \cup {"CYCLE_START"}
  /\ stale' = (stale \/ {"RESTART_RETRACT", "INITIATE_RESTORE"}
                           \cap sys.suspend = {})
  /\ UNCHANGED <<exec_alarm, ovr_stop, motion, pen, modal, ctx, rt_exec, line,
                 restore, lost, budget>>

(* The feed hold manager: the pen lifted and lowered during a hold.        *)
SuspendStopPen ==
  /\ Stopped /\ ~Parked /\ sys.spindle_stop_ovr = "INITIATE"
  /\ pen' = IF modal = "down" THEN PenSet("up") ELSE pen
  /\ sys' = [sys EXCEPT !.spindle_stop_ovr =
               IF modal = "down" THEN "ENABLED" ELSE "DISABLED"]
  /\ Goto("rt")
  /\ UNCHANGED <<exec_state, exec_alarm, ovr_stop, motion, modal, harm,
                 budget>>

SuspendRestorePen ==
  /\ Stopped /\ ~Parked
  /\ sys.spindle_stop_ovr \in {"RESTORE", "RESTORE_CYCLE"}
  /\ pen' = IF modal = "down" THEN PenSet(restore) ELSE pen
  /\ exec_state' = IF sys.spindle_stop_ovr = "RESTORE_CYCLE"
                   THEN exec_state \cup {"CYCLE_START"} ELSE exec_state
  /\ sys' = [sys EXCEPT !.spindle_stop_ovr = "DISABLED"]
  /\ Goto("rt")
  /\ UNCHANGED <<exec_alarm, ovr_stop, motion, modal, harm, budget>>

SuspendPenStopped ==
  /\ Stopped /\ ~Parked /\ sys.spindle_stop_ovr = "ENABLED"
  /\ Goto("rt")
  /\ UNCHANGED <<sys, exec_state, exec_alarm, ovr_stop, motion, pen, modal,
                 harm, budget>>

-----------------------------------------------------------------------------
(* main: re-initialisation.  State survives, flags are cleared first, the  *)
(* steppers are stopped last.                                              *)

InitFlags ==
  /\ pc = "init"
  /\ sys' = ClearedSys(sys.state)
  /\ exec_state' = {} /\ exec_alarm' = "none" /\ ovr_stop' = FALSE
  /\ stale' = FALSE
  /\ Goto("initReset")
  /\ UNCHANGED <<motion, pen, modal, lost, budget>>

InitReset ==
  /\ pc = "initReset"
  /\ modal' = "up" /\ pen' = "up"
  /\ blocks' = << >> /\ segments' = << >> /\ GoIdle
  /\ Goto("start")
  /\ UNCHANGED <<sys, exec_state, exec_alarm, ovr_stop, harm, budget>>

(* The head of protocol_main_loop.  A limit switch may be engaged.         *)
StartLoop ==
  /\ pc = "start"
  /\ \E engaged \in BOOLEAN :
       LET alarmed == engaged \/ sys.state \in {"ALARM", "SLEEP"}
       IN  /\ sys' = [sys EXCEPT !.state = IF alarmed THEN "ALARM" ELSE "IDLE"]
           /\ Goto(IF alarmed THEN "loop" ELSE "startup")
  /\ UNCHANGED <<exec_state, exec_alarm, ovr_stop, motion, pen, modal, harm,
                 budget>>

(* system_execute_startup: a stored line runs with no further check.       *)
StartupLine ==
  /\ pc = "startup"
  /\ \/ line' = "none" /\ pc' = "loop" /\ UNCHANGED lines
     \/ /\ lines < MaxLines /\ lines' = lines + 1
        /\ line' \in {"move", "penDown"} /\ pc' = "execute"
  /\ UNCHANGED <<sys, exec_state, exec_alarm, ovr_stop, motion, pen, modal,
                 ctx, sub, rt_exec, restore, harm, commands>>

-----------------------------------------------------------------------------
(* protocol_main_loop and the lines it executes.                           *)

(* protocol_auto_cycle_start.                                              *)
AutoCycleStart == exec_state' = IF blocks = << >> THEN exec_state
                                ELSE exec_state \cup {"CYCLE_START"}

(* protocol_execute_realtime from check point c.                           *)
CheckPoint(c) == /\ pc' = "rt" /\ ctx' = c
                 /\ UNCHANGED <<sub, rt_exec, line, restore>>

EndOfLine ==
  /\ pc = "loop" /\ lines < MaxLines
  /\ lines' = lines + 1
  /\ CheckPoint("eol")
  /\ UNCHANGED <<sys, exec_state, exec_alarm, ovr_stop, motion, pen, modal,
                 harm, commands>>

(* No more characters to read.                                             *)
NoData ==
  /\ pc = "loop"
  /\ AutoCycleStart
  /\ CheckPoint("idle")
  /\ UNCHANGED <<sys, exec_alarm, ovr_stop, motion, pen, modal, harm, budget>>

BailOrLoop ==
  /\ (pc = "idle") \/ (pc = "eol" /\ sys.abort)
  /\ Goto(IF sys.abort THEN "init" ELSE "loop")
  /\ UNCHANGED <<sys, exec_state, exec_alarm, ovr_stop, motion, pen, modal,
                 harm, budget>>

GCode == {"move", "movePause", "outside", "penDown", "penUp", "pause", "end"}
SystemLine == {"jog", "unlock", "sleep", "check"}

(* What is let through: $ lines check the state themselves.                *)
Admitted(l) ==
  CASE l \in GCode -> sys.state \notin {"ALARM", "JOG"}
    [] l = "jog" -> sys.state \in {"IDLE", "JOG"}
    [] l = "unlock" -> sys.state = "ALARM"
    [] l = "sleep" -> sys.state \in {"IDLE", "ALARM"}
    [] l = "check" -> sys.state \in {"IDLE", "CHECK_MODE"}

ReadLine ==
  /\ pc = "eol" /\ ~sys.abort
  /\ \E l \in GCode \cup SystemLine :
       /\ line' = l
       /\ pc' = IF Admitted(l) THEN "execute" ELSE "lineEnd"
  /\ UNCHANGED <<sys, exec_state, exec_alarm, ovr_stop, motion, pen, modal,
                 ctx, sub, rt_exec, restore, harm, budget>>

LineEnd ==
  /\ pc = "lineEnd"
  /\ line' = "none" /\ pc' = "loop"
  /\ UNCHANGED <<sys, exec_state, exec_alarm, ovr_stop, motion, pen, modal,
                 ctx, sub, rt_exec, restore, harm, budget>>

(* $X, $C and $SLP.                                                        *)
Unlock ==
  /\ pc = "execute" /\ line = "unlock"
  /\ sys' = [sys EXCEPT !.state = "IDLE"]
  /\ lost' = FALSE                      \* the operator takes it on himself
  /\ Goto("lineEnd")
  /\ UNCHANGED <<exec_state, exec_alarm, ovr_stop, motion, pen, modal, stale,
                 budget>>

ToggleCheck ==
  /\ pc = "execute" /\ line = "check"
  /\ IF sys.state = "CHECK_MODE" THEN mc_reset /\ UNCHANGED sys
     ELSE /\ sys' = [sys EXCEPT !.state = "CHECK_MODE"]
          /\ UNCHANGED <<exec_state, exec_alarm, pen, stepping, lost>>
  /\ Goto("lineEnd")
  /\ UNCHANGED <<ovr_stop, blocks, segments, modal, budget, stale>>

RequestSleep ==
  /\ pc = "execute" /\ line = "sleep"
  /\ exec_state' = exec_state \cup {"SLEEP"}
  /\ Goto("lineEnd")
  /\ UNCHANGED <<sys, exec_alarm, ovr_stop, motion, pen, modal, harm, budget>>

(* What follows the motion of a line: M0 on the same line waits for it.    *)
AfterMotion ==
  /\ pc' = CASE line = "jog" -> "jogStart"
             [] line = "movePause" -> "execute"
             [] OTHER -> "lineEnd"
  /\ line' = IF line = "movePause" THEN "pause" ELSE line
  /\ UNCHANGED <<ctx, sub, rt_exec, restore>>

(* mc_line: soft limits, then a place in the planner.                      *)
McLine ==
  /\ pc = "execute" /\ line \in {"move", "movePause", "jog"}
  /\ IF sys.state = "CHECK_MODE" THEN AfterMotion ELSE CheckPoint("plan")
  /\ UNCHANGED <<sys, exec_state, exec_alarm, ovr_stop, motion, pen, modal,
                 harm, budget>>

(* limits_soft_check on a target outside: hold a running cycle first.      *)
SoftLimit ==
  /\ pc = "execute" /\ line = "outside"
  /\ sys' = [sys EXCEPT !.soft_limit = TRUE]
  /\ IF sys.state = "CYCLE"
     THEN exec_state' = exec_state \cup {"FEED_HOLD"} /\ CheckPoint("softHold")
     ELSE UNCHANGED exec_state /\ Goto("softReset")
  /\ UNCHANGED <<exec_alarm, ovr_stop, motion, pen, modal, harm, budget>>

SoftHold ==
  /\ pc = "softHold"
  /\ Goto(IF sys.abort THEN "lineEnd"
          ELSE IF sys.state = "IDLE" THEN "softReset" ELSE "rt")
  /\ UNCHANGED <<sys, exec_state, exec_alarm, ovr_stop, motion, pen, modal,
                 harm, budget>>

SoftReset ==
  /\ pc = "softReset"
  /\ mc_reset_with("SOFT_LIMIT")
  /\ CheckPoint("plan")
  /\ UNCHANGED <<sys, ovr_stop, blocks, segments, modal, budget, stale>>

PlanAbort ==
  /\ pc = "plan" /\ sys.abort
  /\ AfterMotion
  /\ UNCHANGED <<sys, exec_state, exec_alarm, ovr_stop, motion, pen, modal,
                 harm, budget>>

PlanFullLate == Len(blocks) > BlockSlots             \* mutant
plan_check_full_buffer == Len(blocks) >= BlockSlots

PlanFull ==
  /\ pc = "plan" /\ ~sys.abort /\ plan_check_full_buffer
  /\ AutoCycleStart
  /\ CheckPoint("plan")
  /\ UNCHANGED <<sys, exec_alarm, ovr_stop, motion, pen, modal, harm, budget>>

(* plan_buffer_line: a motion of no length is not queued.                  *)
PlanLine ==
  /\ pc = "plan" /\ ~sys.abort /\ ~plan_check_full_buffer
  /\ \E n \in 0..BlockUnits :
       blocks' = IF n = 0 THEN blocks
                 ELSE Append(blocks, [left |-> n, pen |-> modal])
  /\ AfterMotion
  /\ UNCHANGED <<sys, exec_state, exec_alarm, ovr_stop, segments, stepping,
                 pen, modal, harm, budget>>

(* jog_execute after mc_line: start at once, whatever is in the planner.   *)
JogStart ==
  /\ pc = "jogStart"
  /\ IF sys.state = "IDLE" /\ blocks # << >>
     THEN sys' = [sys EXCEPT !.state = "JOG"] /\ Goto("jogPrep")
     ELSE UNCHANGED sys /\ Goto("lineEnd")
  /\ UNCHANGED <<exec_state, exec_alarm, ovr_stop, motion, pen, modal, harm,
                 budget>>

(* Lines that wait for the motion to end: M3, M5, M0 and M2.  In check     *)
(* mode spindle_sync returns, the program flow waits like any other.       *)
PenOf(l) == IF l = "penDown" THEN "down" ELSE "up"
PenLine == line \in {"penDown", "penUp"}

LineSync ==
  /\ pc = "execute" /\ line \in {"penDown", "penUp", "pause", "end"}
  /\ IF PenLine /\ (modal = PenOf(line) \/ sys.state = "CHECK_MODE")
     THEN modal' = PenOf(line) /\ UNCHANGED exec_state /\ Goto("lineEnd")
     ELSE UNCHANGED modal /\ AutoCycleStart /\ CheckPoint("sync")
  /\ UNCHANGED <<sys, exec_alarm, ovr_stop, motion, pen, harm, budget>>

(* protocol_buffer_synchronize.                                            *)
SyncDoneOnly == blocks = << >> /\ sys.state # "CYCLE"   \* mutant: no abort
SyncDone == sys.abort \/ (blocks = << >> /\ sys.state # "CYCLE")

SyncWait ==
  /\ pc = "sync" /\ ~SyncDone
  /\ CheckPoint("sync")
  /\ UNCHANGED <<sys, exec_state, exec_alarm, ovr_stop, motion, pen, modal,
                 harm, budget>>

SyncPen ==
  /\ pc = "sync" /\ SyncDone /\ PenLine
  /\ pen' = PenSet(PenOf(line)) /\ modal' = PenOf(line)
  /\ Goto("lineEnd")
  /\ UNCHANGED <<sys, exec_state, exec_alarm, ovr_stop, motion, harm, budget>>

(* M0 is a feed hold.                                                      *)
SyncPause ==
  /\ pc = "sync" /\ SyncDone /\ line = "pause"
  /\ IF sys.state = "CHECK_MODE"
     THEN UNCHANGED exec_state /\ Goto("lineEnd")
     ELSE exec_state' = exec_state \cup {"FEED_HOLD"} /\ CheckPoint("lineEnd")
  /\ UNCHANGED <<sys, exec_alarm, ovr_stop, motion, pen, modal, harm, budget>>

(* M2 flags a change of work coordinates, which synchronises once more,    *)
(* and lifts the pen.                                                      *)
SyncEnd ==
  /\ pc = "sync" /\ SyncDone /\ line = "end"
  /\ modal' = "up"
  /\ IF sys.state = "CHECK_MODE" THEN UNCHANGED exec_state /\ Goto("lineEnd")
     ELSE /\ AutoCycleStart
          /\ pc' = "rt" /\ ctx' = "sync" /\ line' = "penUp"
          /\ UNCHANGED <<sub, rt_exec, restore>>
  /\ UNCHANGED <<sys, exec_alarm, ovr_stop, motion, pen, harm, budget>>

-----------------------------------------------------------------------------
RtSystem ==
  \/ RtNoAlarm \/ RtAlarm \/ RtCriticalEnd \/ RtClearAlarm \/ RtSnapshot
  \/ RtHold \/ RtHoldClear \/ RtStart \/ RtStartClear \/ WakeUp
  \/ RtStopHold \/ RtStopMotion \/ RtStopClear \/ RtOverride
  \/ PrepSegment \/ PrepHoldEnd \/ PrepReturn \/ RtReturn

SuspendLoop ==
  \/ SuspendEnd \/ SuspendWait \/ SuspendRetract \/ SuspendSleep
  \/ SuspendDoorClosed \/ SuspendRestore \/ DelayPass
  \/ SuspendStopPen \/ SuspendRestorePen \/ SuspendPenStopped

MainLoop ==
  \/ InitFlags \/ InitReset \/ StartLoop \/ StartupLine
  \/ NoData \/ BailOrLoop \/ ReadLine \/ LineEnd
  \/ Unlock \/ ToggleCheck \/ RequestSleep
  \/ McLine \/ SoftLimit \/ SoftHold \/ SoftReset
  \/ PlanAbort \/ PlanFull \/ PlanLine \/ JogStart
  \/ LineSync \/ SyncWait \/ SyncPen \/ SyncPause \/ SyncEnd

(* The processor always makes progress; only the arrival of a line is up   *)
(* to the host.                                                            *)
Processor == RtSystem \/ SuspendLoop \/ MainLoop

Next == Interrupt \/ Processor \/ DelayOver \/ EndOfLine

(* Neither processor nor stepper timer stands still, and a delay ends.     *)
Spec == /\ Init /\ [][Next]_vars
        /\ WF_vars(Processor) /\ WF_vars(Stepper) /\ SF_vars(DelayOver)

-----------------------------------------------------------------------------
(* Types, and the positions of the program that go with each other.        *)

PC == {"init", "initReset", "start", "startup", "loop", "idle", "eol",
       "execute", "lineEnd", "plan", "jogStart", "jogPrep", "jogWake",
       "softHold", "softReset", "sync", "rt", "critical", "clearAlarm",
       "snap", "hold", "holdClear", "cycleStart", "startPrep", "startWake",
       "startClear", "stop", "stopClear", "ovr", "prep", "return",
       "suspend", "delay"}
CheckPoints == {"idle", "eol", "plan", "softHold", "sync", "lineEnd"}

Sys == [state : State, suspend : SUBSET SuspendFlag,
        step_control : SUBSET StepFlag, abort : BOOLEAN,
        soft_limit : BOOLEAN, spindle_stop_ovr : StopOverride]
Block == [left : 1..BlockUnits, pen : Pen]

(* Every variable has its type; the buffers stay within their size.        *)
TypeOK ==
  /\ sys \in Sys
  /\ exec_state \in SUBSET ExecFlag /\ exec_alarm \in Alarm
  /\ ovr_stop \in BOOLEAN
  /\ blocks \in Seq(Block) /\ Len(blocks) <= BlockSlots
  /\ segments \in Seq(Pen) /\ Len(segments) <= SegmentSlots
  /\ stepping \in BOOLEAN /\ lost \in BOOLEAN /\ stale \in BOOLEAN
  /\ pen \in Pen /\ modal \in Pen /\ restore \in Pen
  /\ pc \in PC /\ ctx \in CheckPoints
  /\ sub \in {"none", "loop", "sleep", "delay"}
  /\ rt_exec \in SUBSET ExecFlag
  /\ line \in GCode \cup SystemLine \cup {"none"}
  /\ lines \in 0..MaxLines /\ commands \in 0..MaxCommands

-----------------------------------------------------------------------------
(* Safety.                                                                 *)

ResetPending == "RESET" \in exec_state \/ sys.abort

(* From the reset interrupt to the end of re-initialisation, and while the *)
(* critical alarm waits for the operator, no code path lowers the pen: not *)
(* a line that was waiting for motion to end, not the suspend loop.        *)
PenUpUnderReset == ResetPending \/ pc = "critical" => pen = "up"

(* Between lines the pen is where the program put it, whatever holds, stop *)
(* overrides and door cycles came in between; and it is never left down by *)
(* a program that has lifted it.  Check mode moves the modal state only.   *)
(* The exception to the first half is a restore flagged complete when      *)
(* nothing was left to restore; ResumeRestoresPen has no exception.        *)
AtCheckPoint == pc \in {"loop", "idle", "eol", "plan", "execute", "lineEnd"}

PenIsModal ==
  sys.state \in {"CYCLE", "JOG", "IDLE"} /\ AtCheckPoint /\ ~ResetPending
    => pen = modal \/ (line = "penUp" /\ pen = "down")

PenMatchesProgram ==
  /\ ~stale => PenIsModal
  /\ pen = "down" /\ sys.state # "CHECK_MODE"
       => modal = "down" \/ line = "penUp"

(* A hold that reports itself complete has stopped the steppers.           *)
HoldIsStill ==
  "HOLD_COMPLETE" \in sys.suspend /\ ~ResetPending => ~stepping

(* A cycle starts, or resumes, from a standstill: a cycle start never cuts *)
(* into the deceleration of a hold.                                        *)
StartsFromStandstill ==
  [][sys.state # "CYCLE" /\ sys'.state = "CYCLE"
       => ~stepping \/ ResetPending]_vars

-----------------------------------------------------------------------------
(* Liveness.                                                               *)

(* Wherever the main program waits, a reset gets it back to main, or into  *)
(* the critical loop, which asks for another one.                          *)
ResetTaken == "RESET" \in exec_state ~> pc \in {"initReset", "critical"}

(* A hold comes to its end: the stepper's cycle stop is never lost.        *)
HoldEnds == sys.state = "HOLD"
              ~> sys.state # "HOLD" \/ "HOLD_COMPLETE" \in sys.suspend

(* So does a cycle.                                                        *)
CycleEnds == sys.state = "CYCLE" ~> sys.state # "CYCLE"

-----------------------------------------------------------------------------
(* What the documentation says and the code does not keep.                 *)

(* protocol_buffer_synchronize: "Block until all buffered steps are        *)
(* executed".  So a segment is drawn with the pen it was planned for.      *)
PenFollowsProgram ==
  stepping /\ segments # << >> /\ ~ResetPending
    /\ pc \notin {"critical", "initReset"}
    => pen = Head(segments)

(* The same comment: a line that waits for motion gets on, unless a hold,  *)
(* an alarm or a reset takes over.                                         *)
SyncEnds ==
  pc = "sync" ~> \/ pc = "lineEnd" \/ ResetPending
                 \/ sys.state \in {"HOLD", "SAFETY_DOOR", "SLEEP", "ALARM"}

(* "MOTION_CANCEL only occurs during a CYCLE": a jog cancel does not       *)
(* suspend an idle machine.                                                *)
IdleIsNotSuspended ==
  pc = "suspend" /\ sys.suspend # {} /\ ~sys.abort => sys.state # "IDLE"

(* A reset "kills the steppers": none starts before re-initialisation.     *)
ResetStopsMotion ==
  [][ResetPending /\ ResetPending' /\ stepping' => stepping]_vars

(* A reset that kills the steppers flags "position lost".                  *)
PositionLossIsAlarmed == pc = "startup" => ~lost

(* A door cycle leaves the pen where it found it: the restoring "calls     *)
(* CYCLE_START automatically to resume and exit the suspend", once it is   *)
(* complete.                                                               *)
ResumeRestoresPen == PenIsModal

=============================================================================

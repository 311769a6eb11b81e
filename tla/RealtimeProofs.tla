--------------------------- MODULE RealtimeProofs ---------------------------
(***************************************************************************)
(* Proofs about the realtime state machine, for buffers of every size and  *)
(* any number of lines and commands.                                       *)
(***************************************************************************)
EXTENDS Realtime, TLAPS

USE RealtimeAssumption

(* The hold section of protocol_exec_rt_system leaves a system_t behind    *)
(* and never touches abort.                                                *)
LEMMA HoldSteps ==
  ASSUME NEW s \in Sys
  PROVE  /\ BeginHold(s) \in Sys /\ MotionCancel(s) \in Sys
         /\ FeedHold(s) \in Sys /\ SafetyDoor(s) \in Sys /\ Sleep(s) \in Sys
         /\ BeginHold(s).abort = s.abort /\ MotionCancel(s).abort = s.abort
         /\ FeedHold(s).abort = s.abort /\ SafetyDoor(s).abort = s.abort
         /\ Sleep(s).abort = s.abort
<1>1. BeginHold(s) \in Sys /\ BeginHold(s).abort = s.abort
  BY DEF BeginHold, Sys, SuspendFlag, StepFlag
<1>2. MotionCancel(s) \in Sys /\ MotionCancel(s).abort = s.abort
  BY DEF MotionCancel, Sys, SuspendFlag
<1>3. FeedHold(s) \in Sys /\ FeedHold(s).abort = s.abort
  BY DEF FeedHold, Sys, State
<1>4. SafetyDoor(s) \in Sys /\ SafetyDoor(s).abort = s.abort
  BY DEF SafetyDoor, Sys, State, SuspendFlag
<1>5. Sleep(s) \in Sys /\ Sleep(s).abort = s.abort
  BY DEF Sleep, Sys, State, SuspendFlag
<1> QED BY <1>1, <1>2, <1>3, <1>4, <1>5

(* Nor does its cycle start section.                                       *)
LEMMA StartSteps ==
  ASSUME NEW s \in Sys
  PROVE  /\ ResumeDoor(s) \in Sys /\ StartCycle(s) \in Sys
         /\ ResumeDoor(s).abort = s.abort /\ StartCycle(s).abort = s.abort
<1>1. ResumeDoor(s) \in Sys /\ ResumeDoor(s).abort = s.abort
  BY DEF ResumeDoor, Sys, State, SuspendFlag
<1>2. StartCycle(s) \in Sys /\ StartCycle(s).abort = s.abort
  BY DEF StartCycle, Sys, State, SuspendFlag, StepFlag
<1> QED BY <1>1, <1>2

(* Types hold at power-up ...                                              *)
LEMMA InitType == Init => TypeOK
<1> SUFFICES ASSUME Init PROVE TypeOK
  OBVIOUS
<1>1. sys \in Sys
  BY DEF Init, ClearedSys, Sys, State, SuspendFlag, StepFlag, StopOverride
<1>2. /\ ovr_stop \in BOOLEAN /\ stepping \in BOOLEAN
      /\ lost \in BOOLEAN /\ stale \in BOOLEAN
  BY Zenon DEF Init
<1>3. /\ blocks \in Seq(Block) /\ Len(blocks) <= BlockSlots
      /\ segments \in Seq(Pen) /\ Len(segments) <= SegmentSlots
  BY DEF Init
<1>4. exec_state \in SUBSET ExecFlag /\ rt_exec \in SUBSET ExecFlag
  BY DEF Init
<1>5. exec_alarm \in Alarm /\ pen \in Pen /\ modal \in Pen /\ restore \in Pen
  BY DEF Init, Alarm, Pen
<1>6. /\ pc \in PC /\ ctx \in CheckPoints
      /\ sub \in {"none", "loop", "sleep", "delay"}
      /\ line \in GCode \cup SystemLine \cup {"none"}
      /\ lines \in 0..MaxLines /\ commands \in 0..MaxCommands
  BY DEF Init, PC, CheckPoints
<1> QED BY <1>1, <1>2, <1>3, <1>4, <1>5, <1>6, SMT DEF TypeOK

(* ... through every interrupt ...                                         *)
LEMMA InterruptType == TypeOK /\ Interrupt => TypeOK'
<1> SUFFICES ASSUME TypeOK, Interrupt PROVE TypeOK'
  OBVIOUS
<1> USE DEF TypeOK, motion, main, harm, budget
<1>1. ASSUME NEW f \in ExecFlag, ReceiveFlag(f) PROVE TypeOK'
  BY <1>1 DEF ReceiveFlag
<1>2. CASE ReceiveStopOverride
  BY <1>2 DEF ReceiveStopOverride
<1>3. CASE ReceiveReset
  <2>1. stepping' \in BOOLEAN /\ lost' \in BOOLEAN /\ stale' \in BOOLEAN
    BY <1>3, Zenon DEF ReceiveReset, mc_reset, KillSteppers, GoIdle
  <2>2. /\ exec_state' \in SUBSET ExecFlag
        /\ exec_alarm' \in Alarm
        /\ pen' \in Pen
    BY <1>3 DEF ReceiveReset, mc_reset, ExecFlag, Alarm, Pen
  <2>3. commands' \in 0..MaxCommands
    BY <1>3 DEF ReceiveReset
  <2>4. UNCHANGED <<sys, ovr_stop, blocks, segments, modal, main, lines>>
    BY <1>3 DEF ReceiveReset
  <2> QED BY <2>1, <2>2, <2>3, <2>4
<1>4. CASE LimitTrip
  <2>1. stepping' \in BOOLEAN /\ lost' \in BOOLEAN /\ stale' \in BOOLEAN
    BY <1>4, Zenon DEF LimitTrip, mc_reset_with, KillSteppers, GoIdle
  <2> QED BY <1>4, <2>1 DEF LimitTrip, mc_reset_with, ExecFlag, Alarm, Pen
<1>5. CASE StepSegment
  BY <1>5 DEF StepSegment
<1>6. CASE StepEmpty
  BY <1>6 DEF StepEmpty, ExecFlag
<1> QED BY <1>1, <1>2, <1>3, <1>4, <1>5, <1>6
       DEF Interrupt, Stepper, ReceiveJogCancel, ExecFlag
-----------------------------------------------------------------------------
(* What _spindle_set_state, the restore condition and st_prep_buffer leave *)
(* behind is a pen position, and a block.                                  *)
LEMMA PenSetInPen == ASSUME TypeOK, NEW p \in Pen PROVE PenSet(p) \in Pen
BY DEF PenSet, TypeOK

(* The pen to restore after a hold (protocol.c 519 to 527).                *)
LEMMA RestoreInPen == ASSUME TypeOK PROVE RestoreCondition \in Pen
<1>1. CASE blocks = << >>
  BY <1>1 DEF RestoreCondition, TypeOK
<1>2. CASE blocks # << >>
  <2>1. Head(blocks) \in Block
    BY <1>2 DEF TypeOK
  <2> QED BY <1>2, <2>1 DEF RestoreCondition, Block
<1> QED BY <1>1, <1>2

(* A block from which a segment was taken is a block.                      *)
LEMMA ShorterBlock ==
  ASSUME NEW b \in Block, b.left # 1
  PROVE  [b EXCEPT !.left = @ - 1] \in Block
<1>1. b.left - 1 \in 1..BlockUnits
  BY DEF Block
<1> QED BY <1>1 DEF Block

(* ... through protocol_exec_rt_system and st_prep_buffer ...              *)
LEMMA RtSystemType == TypeOK /\ RtSystem => TypeOK'
<1> SUFFICES ASSUME TypeOK, RtSystem PROVE TypeOK'
  OBVIOUS
<1> USE DEF TypeOK, Goto, motion, harm, budget
<1>1. CASE RtNoAlarm
  BY <1>1 DEF RtNoAlarm, PC
<1>2. CASE RtAlarm
  BY <1>2 DEF RtAlarm, PC, Sys, State
<1>3. CASE RtCriticalEnd
  BY <1>3 DEF RtCriticalEnd, PC
<1>4. CASE RtClearAlarm
  BY <1>4 DEF RtClearAlarm, PC, Alarm
<1>5. CASE RtSnapshot
  <2>1. sys' \in Sys
    BY <1>5 DEF RtSnapshot, Sys
  <2>2. pc' \in PC
    BY <1>5 DEF RtSnapshot, AfterSnap, AfterHold, AfterStart, PC
  <2> QED BY <1>5, <2>1, <2>2 DEF RtSnapshot
<1>6. CASE RtHold
  BY <1>6, HoldSteps DEF RtHold, PC
<1>7. CASE RtHoldClear
  BY <1>7 DEF RtHoldClear, AfterHold, AfterStart, PC
<1>8. CASE RtStart
  <2>1. sys' \in Sys
    BY <1>8, StartSteps DEF RtStart, Sys, StopOverride
  <2>2. pc' \in PC
    BY <1>8 DEF RtStart, PC
  <2> QED BY <1>8, <2>1, <2>2 DEF RtStart
<1>9. CASE RtStartClear
  BY <1>9 DEF RtStartClear, AfterStart, PC
<1>10. CASE WakeUp
  BY <1>10 DEF WakeUp, PC
<1>11. CASE RtStopHold
  BY <1>11 DEF RtStopHold, Sys, SuspendFlag, StepFlag, PC
<1>12. CASE RtStopMotion
  <2>1. sys' \in Sys
    BY <1>12 DEF RtStopMotion, Sys, SuspendFlag, StepFlag, State
  <2>2. stepping' \in BOOLEAN /\ lost' \in BOOLEAN /\ stale' \in BOOLEAN
    BY <1>12, Zenon DEF RtStopMotion, GoIdle
  <2>3. /\ blocks' \in Seq(Block) /\ Len(blocks') <= BlockSlots
        /\ segments' \in Seq(Pen) /\ Len(segments') <= SegmentSlots
    <3>1. CASE "JOG_CANCEL" \in sys.suspend
      <4>1. blocks' = << >> /\ segments' = << >>
        BY <1>12, <3>1 DEF RtStopMotion
      <4> QED BY <4>1
    <3>2. CASE "JOG_CANCEL" \notin sys.suspend
      BY <1>12, <3>2 DEF RtStopMotion
    <3> QED BY <3>1, <3>2
  <2>4. /\ pc' \in PC
        /\ UNCHANGED <<exec_state, exec_alarm, ovr_stop, pen, modal, budget,
                       ctx, sub, rt_exec, line, restore>>
    BY <1>12 DEF RtStopMotion, PC
  <2> QED BY <2>1, <2>2, <2>3, <2>4
<1>13. CASE RtStopClear
  BY <1>13 DEF RtStopClear, PC
<1>14. CASE RtOverride
  <2>1. sys' \in Sys
    BY <1>14 DEF RtOverride, Sys, StopOverride
  <2>2. ovr_stop' \in BOOLEAN
    BY <1>14, Zenon DEF RtOverride
  <2>3. /\ pc' \in PC
        /\ UNCHANGED <<exec_state, exec_alarm, motion, pen, modal, harm,
                       budget, ctx, sub, rt_exec, line, restore>>
    BY <1>14 DEF RtOverride, PC
  <2> QED BY <2>1, <2>2, <2>3
<1>15. CASE PrepSegment
  <2>1. Head(blocks) \in Block /\ blocks # << >>
    BY <1>15 DEF PrepSegment, PrepBlocked
  <2>2. segments' \in Seq(Pen) /\ Len(segments') <= SegmentSlots
    BY <1>15, <2>1 DEF PrepSegment, PrepBlocked, Block
  <2>3. blocks' \in Seq(Block) /\ Len(blocks') <= BlockSlots
    <3>1. CASE Head(blocks).left = 1
      BY <1>15, <2>1, <3>1 DEF PrepSegment
    <3>2. CASE Head(blocks).left # 1
      <4>1. [blocks[1] EXCEPT !.left = @ - 1] \in Block
        BY <2>1, <3>2, ShorterBlock
      <4>2. blocks' = [blocks EXCEPT ![1] = [blocks[1] EXCEPT !.left = @ - 1]]
        BY <1>15, <3>2 DEF PrepSegment
      <4> QED BY <2>1, <4>1, <4>2
    <3> QED BY <3>1, <3>2
  <2> QED BY <1>15, <2>2, <2>3 DEF PrepSegment, main
<1>16. CASE PrepHoldEnd
  BY <1>16 DEF PrepHoldEnd, Sys, StepFlag, main
<1>17. CASE PrepReturn
  BY <1>17 DEF PrepReturn, Prepping, PC
<1>18. CASE RtReturn
  <2>1. restore' \in Pen
    BY <1>18, RestoreInPen DEF RtReturn
  <2>2. pc' \in PC /\ sub' \in {"none", "loop", "sleep", "delay"}
    BY <1>18 DEF RtReturn, PC, CheckPoints
  <2> QED BY <1>18, <2>1, <2>2 DEF RtReturn
<1> QED BY <1>1, <1>2, <1>3, <1>4, <1>5, <1>6, <1>7, <1>8, <1>9, <1>10, <1>11,
           <1>12, <1>13, <1>14, <1>15, <1>16, <1>17, <1>18 DEF RtSystem

(* ... through protocol_exec_rt_suspend ...                                *)
LEMMA SuspendLoopType == TypeOK /\ (SuspendLoop \/ DelayOver) => TypeOK'
<1> SUFFICES ASSUME TypeOK, SuspendLoop \/ DelayOver PROVE TypeOK'
  OBVIOUS
<1> USE PenSetInPen DEF TypeOK, Goto, motion, harm, budget
<1> "up" \in Pen
  BY DEF Pen
<1>1. CASE SuspendEnd
  BY <1>1 DEF SuspendEnd, PC, CheckPoints
<1>2. CASE SuspendWait
  BY <1>2 DEF SuspendWait, PC
<1>3. CASE SuspendRetract
  BY <1>3 DEF SuspendRetract, PC, Sys, SuspendFlag, StopOverride
<1>4. CASE SuspendSleep
  <2>1. stepping' \in BOOLEAN /\ lost' \in BOOLEAN /\ stale' \in BOOLEAN
    BY <1>4, Zenon DEF SuspendSleep, GoIdle
  <2> QED BY <1>4, <2>1 DEF SuspendSleep, PC
<1>5. CASE SuspendDoorClosed
  BY <1>5 DEF SuspendDoorClosed, PC, Sys, SuspendFlag
<1>6. CASE SuspendRestore
  BY SMTT(30), <1>6 DEF SuspendRestore, PC, Sys, SuspendFlag
<1>7. CASE DelayPass
  BY <1>7 DEF DelayPass, PC
<1>8. CASE DelayOver
  <2>1. stale' \in BOOLEAN
    BY <1>8, Zenon DEF DelayOver
  <2> QED BY <1>8, <2>1 DEF DelayOver, PC, Sys, SuspendFlag, ExecFlag
<1>9. CASE SuspendStopPen
  BY <1>9 DEF SuspendStopPen, PC, Sys, StopOverride
<1>10. CASE SuspendRestorePen
  BY <1>10 DEF SuspendRestorePen, PC, Sys, StopOverride, ExecFlag
<1>11. CASE SuspendPenStopped
  BY <1>11 DEF SuspendPenStopped, PC
<1> QED BY <1>1, <1>2, <1>3, <1>4, <1>5, <1>6, <1>7, <1>8, <1>9, <1>10, <1>11
        DEF SuspendLoop

(* ... and through main, protocol_main_loop and the lines it executes.     *)
LEMMA MainLoopType == TypeOK /\ (MainLoop \/ EndOfLine) => TypeOK'
<1> SUFFICES ASSUME TypeOK, MainLoop \/ EndOfLine PROVE TypeOK'
  OBVIOUS
<1> USE PenSetInPen DEF TypeOK, Goto, CheckPoint, AutoCycleStart, motion, harm,
    budget
<1>1. CASE InitFlags
  <2>1. sys' \in Sys
    BY <1>1 DEF InitFlags, ClearedSys, Sys, SuspendFlag, StepFlag, StopOverride
  <2>2. ovr_stop' \in BOOLEAN /\ stale' \in BOOLEAN
    BY <1>1, Zenon DEF InitFlags
  <2>3. /\ pc' \in PC /\ exec_state' = {} /\ exec_alarm' \in Alarm
        /\ UNCHANGED <<motion, pen, modal, lost, budget, ctx, sub, rt_exec,
                       line, restore>>
    BY <1>1 DEF InitFlags, PC, Alarm
  <2> QED BY <2>1, <2>2, <2>3
<1>2. CASE InitReset
  <2>1. stepping' \in BOOLEAN /\ lost' \in BOOLEAN /\ stale' \in BOOLEAN
    BY <1>2, Zenon DEF InitReset, GoIdle
  <2> QED BY <1>2, <2>1 DEF InitReset, PC, Pen
<1>3. CASE StartLoop
  BY SMTT(30), <1>3 DEF StartLoop, Sys, State, PC
<1>4. CASE StartupLine
  BY <1>4 DEF StartupLine, PC, GCode
<1>5. CASE EndOfLine
  BY <1>5 DEF EndOfLine, PC, CheckPoints
<1>6. CASE NoData
  BY <1>6 DEF NoData, PC, CheckPoints, ExecFlag
<1>7. CASE BailOrLoop
  BY <1>7 DEF BailOrLoop, PC
<1>8. CASE ReadLine
  BY <1>8 DEF ReadLine, PC
<1>9. CASE LineEnd
  BY <1>9 DEF LineEnd, PC
<1>10. CASE Unlock
  <2>1. lost' \in BOOLEAN
    BY <1>10, Zenon DEF Unlock
  <2> QED BY <1>10, <2>1 DEF Unlock, PC, Sys, State
<1>11. CASE ToggleCheck
  <2>1. stepping' \in BOOLEAN /\ lost' \in BOOLEAN /\ stale' \in BOOLEAN
    BY <1>11, Zenon DEF ToggleCheck, mc_reset, KillSteppers, GoIdle
  <2>2. /\ exec_state' \in SUBSET ExecFlag
        /\ exec_alarm' \in Alarm
        /\ pen' \in Pen
    BY <1>11 DEF ToggleCheck, mc_reset, ExecFlag, Alarm, Pen
  <2>3. sys' \in Sys
    BY <1>11 DEF ToggleCheck, Sys, State
  <2>4. /\ pc' \in PC
        /\ UNCHANGED <<ovr_stop, blocks, segments, modal, budget, ctx, sub,
                       rt_exec, line, restore>>
    BY <1>11 DEF ToggleCheck, PC
  <2> QED BY <2>1, <2>2, <2>3, <2>4
<1>12. CASE RequestSleep
  BY <1>12 DEF RequestSleep, PC, ExecFlag
<1>13. CASE McLine
  BY <1>13 DEF McLine, AfterMotion, PC, CheckPoints, GCode
<1>14. CASE SoftLimit
  BY ZenonT(60), <1>14 DEF SoftLimit, PC, CheckPoints, Sys, ExecFlag
<1>15. CASE SoftHold
  BY <1>15 DEF SoftHold, PC
<1>16. CASE SoftReset
  <2>1. stepping' \in BOOLEAN /\ lost' \in BOOLEAN /\ stale' \in BOOLEAN
    BY <1>16, Zenon DEF SoftReset, mc_reset_with, KillSteppers, GoIdle
  <2>2. /\ exec_state' \in SUBSET ExecFlag
        /\ exec_alarm' \in Alarm
        /\ pen' \in Pen
    BY <1>16 DEF SoftReset, mc_reset_with, ExecFlag, Alarm, Pen
  <2>3. /\ pc' \in PC /\ ctx' \in CheckPoints
        /\ UNCHANGED <<sys, ovr_stop, blocks, segments, modal, budget, sub,
                       rt_exec, line, restore>>
    BY <1>16 DEF SoftReset, PC, CheckPoints
  <2> QED BY <2>1, <2>2, <2>3
<1>17. CASE PlanAbort
  BY <1>17 DEF PlanAbort, AfterMotion, PC, GCode
<1>18. CASE PlanFull
  BY <1>18 DEF PlanFull, PC, CheckPoints, ExecFlag
<1>19. CASE PlanLine
  <2>1. blocks' \in Seq(Block) /\ Len(blocks') <= BlockSlots
    <3>1. PICK n \in 0..BlockUnits :
            blocks' = IF n = 0 THEN blocks
                      ELSE Append(blocks, [left |-> n, pen |-> modal])
      BY <1>19 DEF PlanLine
    <3>2. n # 0 => [left |-> n, pen |-> modal] \in Block
      BY DEF Block
    <3> QED BY <1>19, <3>1, <3>2 DEF PlanLine, plan_check_full_buffer
  <2> QED BY <1>19, <2>1 DEF PlanLine, AfterMotion, PC, GCode
<1>20. CASE JogStart
  BY <1>20 DEF JogStart, PC, Sys, State
<1>21. CASE LineSync
  <2>1. modal' \in Pen
    BY <1>21 DEF LineSync, PenOf, Pen
  <2>2. exec_state' \in SUBSET ExecFlag
    BY <1>21 DEF LineSync, ExecFlag
  <2>3. pc' \in PC /\ ctx' \in CheckPoints
    BY <1>21 DEF LineSync, PC, CheckPoints
  <2> QED BY <1>21, <2>1, <2>2, <2>3 DEF LineSync
<1>22. CASE SyncWait
  BY <1>22 DEF SyncWait, PC, CheckPoints
<1>23. CASE SyncPen
  BY <1>23 DEF SyncPen, PenOf, Pen, PC
<1>24. CASE SyncPause
  BY ZenonT(60), <1>24 DEF SyncPause, PC, CheckPoints, ExecFlag
<1>25. CASE SyncEnd
  <2>1. modal' \in Pen
    BY <1>25 DEF SyncEnd, Pen
  <2>2. exec_state' \in SUBSET ExecFlag
    BY <1>25 DEF SyncEnd, ExecFlag
  <2>3. /\ pc' \in PC /\ ctx' \in CheckPoints
        /\ line' \in GCode \cup SystemLine \cup {"none"}
    BY <1>25 DEF SyncEnd, PC, CheckPoints, GCode
  <2> QED BY <1>25, <2>1, <2>2, <2>3 DEF SyncEnd
<1> QED BY <1>1, <1>2, <1>3, <1>4, <1>5, <1>6, <1>7, <1>8, <1>9, <1>10, <1>11,
           <1>12, <1>13, <1>14, <1>15, <1>16, <1>17, <1>18, <1>19, <1>20,
           <1>21, <1>22, <1>23, <1>24, <1>25 DEF MainLoop

(* So every step keeps the types.                                          *)
LEMMA StepType == TypeOK /\ [Next]_vars => TypeOK'
<1>1. TypeOK /\ UNCHANGED vars => TypeOK'
  BY DEF TypeOK, vars
<1> QED BY <1>1, InterruptType, RtSystemType, SuspendLoopType, MainLoopType
        DEF Next, Processor

(* Every variable always has its type; planner and segment buffer never    *)
(* hold more than they have room for.                                      *)
THEOREM TypeCorrect == Spec => []TypeOK
BY InitType, StepType, PTL DEF Spec

-----------------------------------------------------------------------------
(* PenUpUnderReset made inductive: a critical alarm clears the reset that  *)
(* raised it, so an alarm in waiting must be known to come with one.       *)
ResetInv ==
  /\ PenUpUnderReset
  /\ exec_alarm # "none" => "RESET" \in exec_state \/ pc = "critical"

(* _spindle_set_state does nothing under a reset (spindle_control.c 60).   *)
LEMMA PenSetUnderReset == ResetPending => \A p : PenSet(p) = pen
BY DEF ResetPending, PenSet

(* No step of an interrupt or of the program leaves the invariant.         *)
LEMMA StepReset == TypeOK /\ ResetInv /\ [Next]_vars => ResetInv'
<1> SUFFICES ASSUME TypeOK, ResetInv, [Next]_vars PROVE ResetInv'
  OBVIOUS
<1> USE PenSetUnderReset
        DEF ResetInv, PenUpUnderReset, ResetPending, motion, main, harm,
            budget, Goto, CheckPoint, AutoCycleStart
<1>0. sys \in Sys
  BY DEF TypeOK
<1>1. CASE Interrupt
  <2>1. ASSUME NEW f, f # "RESET", ReceiveFlag(f) PROVE ResetInv'
    BY <2>1 DEF ReceiveFlag
  <2>2. CASE ReceiveStopOverride
    BY <2>2 DEF ReceiveStopOverride
  <2>3. CASE ReceiveReset
    BY <2>3 DEF ReceiveReset, mc_reset
  <2>4. CASE LimitTrip
    BY <2>4 DEF LimitTrip, mc_reset_with
  <2>5. CASE Stepper
    BY <2>5 DEF Stepper, StepSegment, StepEmpty
  <2> QED BY <1>1, <2>1, <2>2, <2>3, <2>4, <2>5
          DEF Interrupt, ReceiveJogCancel
<1>2. CASE RtSystem
  <2>1. CASE RtNoAlarm \/ RtAlarm \/ RtCriticalEnd \/ RtClearAlarm
    BY <1>0, <2>1 DEF RtNoAlarm, RtAlarm, RtCriticalEnd, RtClearAlarm, Sys
  <2>2. CASE RtSnapshot
    BY <1>0, <2>2 DEF RtSnapshot, AfterSnap, AfterHold, AfterStart, Sys
  <2>3. CASE RtHold
    <3>1. sys'.abort = sys.abort
      BY <1>0, <2>3, HoldSteps DEF RtHold
    <3> QED BY <2>3, <3>1 DEF RtHold
  <2>4. CASE RtHoldClear \/ RtStartClear \/ RtStopClear
    BY <2>4 DEF RtHoldClear, RtStartClear, RtStopClear, AfterHold, AfterStart,
            HoldFlags
  <2>5. CASE RtStart
    <3>1. sys'.abort = sys.abort
      BY <1>0, <2>5, StartSteps DEF RtStart, Sys
    <3> QED BY <2>5, <3>1 DEF RtStart
  <2>6. CASE WakeUp
    BY <2>6 DEF WakeUp
  <2>7. CASE RtStopHold \/ RtOverride
    BY <1>0, <2>7 DEF RtStopHold, RtOverride, Sys
  <2>8. CASE RtStopMotion
    <3>1. sys'.abort = sys.abort
      BY <1>0, <2>8 DEF RtStopMotion, Sys
    <3> QED BY <2>8, <3>1 DEF RtStopMotion
  <2>9. CASE PrepSegment \/ PrepHoldEnd \/ PrepReturn
    BY <1>0, <2>9 DEF PrepSegment, PrepHoldEnd, PrepReturn, Prepping, Sys
  <2>10. CASE RtReturn
    BY <2>10 DEF RtReturn, TypeOK, CheckPoints
  <2> QED BY <1>2, <2>1, <2>2, <2>3, <2>4, <2>5, <2>6, <2>7, <2>8, <2>9,
             <2>10 DEF RtSystem
<1>3. CASE SuspendLoop \/ DelayOver
  <2>1. sys'.abort = sys.abort
    BY <1>0, <1>3 DEF SuspendLoop, SuspendEnd, SuspendWait, SuspendRetract,
       SuspendSleep, SuspendDoorClosed, SuspendRestore, DelayPass, DelayOver,
       SuspendStopPen, SuspendRestorePen, SuspendPenStopped, Sys
  <2>2. /\ "RESET" \in exec_state' <=> "RESET" \in exec_state
        /\ UNCHANGED exec_alarm
        /\ pc # "critical" /\ pc' # "critical"
    BY <1>3 DEF SuspendLoop, SuspendEnd, SuspendWait, SuspendRetract,
       SuspendSleep, SuspendDoorClosed, SuspendRestore, DelayPass, DelayOver,
       SuspendStopPen, SuspendRestorePen, SuspendPenStopped, Stopped,
       Suspended, TypeOK, CheckPoints
  <2>3. \/ pen' = pen
        \/ \E p : pen' = PenSet(p)
    BY <1>3 DEF SuspendLoop, SuspendEnd, SuspendWait, SuspendRetract,
       SuspendSleep, SuspendDoorClosed, SuspendRestore, DelayPass, DelayOver,
       SuspendStopPen, SuspendRestorePen, SuspendPenStopped
  <2> QED BY <2>1, <2>2, <2>3
<1>4. CASE MainLoop \/ EndOfLine
  <2>1. CASE InitFlags \/ InitReset \/ StartLoop \/ StartupLine
    BY <1>0, <2>1 DEF InitFlags, InitReset, StartLoop, StartupLine, Sys,
            ClearedSys
  <2>2. CASE NoData \/ BailOrLoop \/ ReadLine \/ LineEnd \/ EndOfLine
    BY <2>2 DEF NoData, BailOrLoop, ReadLine, LineEnd, EndOfLine
  <2>3. CASE Unlock \/ RequestSleep
    BY <1>0, <2>3 DEF Unlock, RequestSleep, Sys
  <2>4. CASE ToggleCheck
    BY <1>0, <2>4 DEF ToggleCheck, mc_reset, Sys
  <2>5. CASE McLine \/ SoftLimit \/ SoftHold
    BY <1>0, <2>5 DEF McLine, AfterMotion, SoftLimit, SoftHold, Sys
  <2>6. CASE SoftReset
    BY <2>6 DEF SoftReset, mc_reset_with
  <2>7. CASE PlanAbort \/ PlanFull \/ PlanLine
    BY <2>7 DEF PlanAbort, PlanFull, PlanLine, AfterMotion
  <2>8. CASE JogStart
    BY <1>0, <2>8 DEF JogStart, Sys
  <2>9. CASE LineSync \/ SyncWait \/ SyncPen \/ SyncPause \/ SyncEnd
    BY <2>9 DEF LineSync, SyncWait, SyncPen, SyncPause, SyncEnd
  <2> QED BY <1>4, <2>1, <2>2, <2>3, <2>4, <2>5, <2>6, <2>7, <2>8, <2>9
          DEF MainLoop
<1>5. CASE UNCHANGED vars
  BY <1>5 DEF vars
<1> QED BY <1>1, <1>2, <1>3, <1>4, <1>5 DEF Next, Processor

(* From a reset interrupt until main has initialised everything again the  *)
(* pen is up, whatever the program was doing (docs/STEP4.md 46: a reset    *)
(* "requests up").                                                         *)
THEOREM PenAlwaysUpUnderReset == Spec => []PenUpUnderReset
<1>1. Init => ResetInv
  BY DEF Init, ClearedSys, ResetInv, PenUpUnderReset, ResetPending
<1>2. ResetInv => PenUpUnderReset
  BY DEF ResetInv
<1> QED BY <1>1, <1>2, TypeCorrect, StepReset, PTL DEF Spec
=============================================================================

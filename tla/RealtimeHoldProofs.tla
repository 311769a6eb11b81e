------------------------- MODULE RealtimeHoldProofs -------------------------
(* What TLAPS proves of holds and of starts (protocol.c 218-560, stepper.c *)
(* st_prep_buffer and the interrupt): a hold that reports itself complete  *)
(* stands still, and a cycle starts from a standstill; and of the pen that *)
(* a hold retracts and a start restores, at the end of this module.        *)
(*                                                                         *)
(* Neither is inductive.  A flag raised in an interrupt is acted upon some *)
(* passes later, in a state that other flags have changed by then; the     *)
(* invariants below say which flags, suspend bits and positions of the     *)
(* program can meet, and together they are inductive (HoldInv).            *)
EXTENDS RealtimeProofs

(* A motion is under way, or one that the hold has still to stop.          *)
Moving(s) == /\ s.state \in {"CYCLE", "JOG", "HOLD", "SAFETY_DOOR", "SLEEP"}
             /\ "HOLD_COMPLETE" \notin s.suspend
InMotion == Moving(sys)

(* A door that has closed was retracted from: the hold was complete.       *)
ClosedHeld(s) ==
  s.state = "SAFETY_DOOR" /\ "SAFETY_DOOR_AJAR" \notin s.suspend
    => "HOLD_COMPLETE" \in s.suspend

(* The program goes on normally: no reset is pending or half done.         *)
Undisturbed == ~ResetPending /\ pc \notin {"critical", "init", "initReset"}

(* No reset has been taken: one may wait in exec_state.                    *)
Taken == \/ sys.abort \/ pc \in {"critical", "clearAlarm", "init", "initReset"}
         \/ pc = "snap" /\ "RESET" \in exec_state

AtProgram == pc \in {"start", "startup", "loop", "idle", "eol", "execute",
                     "lineEnd", "plan", "jogStart", "jogPrep", "jogWake",
                     "softHold", "softReset", "sync"}
Sections == {"hold", "holdClear", "cycleStart", "startPrep", "startWake",
             "startClear", "stop", "stopClear"}

(* Within a pass: the snapshot of a cycle stop is still standing.          *)
PassInv ==
  /\ pc = "clearAlarm" => "RESET" \in exec_state
  /\ pc \in Sections /\ "CYCLE_STOP" \in rt_exec => "CYCLE_STOP" \in exec_state
  /\ pc = "stop" => "CYCLE_STOP" \in rt_exec

(* The program is out of the suspend loop when nothing suspends it.        *)
SuspendInv ==
  /\ AtProgram \/ pc = "init" =>
       sub = "none" /\ (sys.abort \/ sys.suspend = {})
  /\ pc = "delay" => sub \in {"loop", "delay"}
  /\ pc = "suspend" => sub = "loop"
  /\ pc = "softHold" => ctx = "softHold"
  /\ pc \in {"initReset", "start"} =>
       sub = "none" /\ sys = ClearedSys(sys.state)
  /\ pc \notin {"initReset", "start"} => ClosedHeld(sys)

FreshInv ==
  pc = "start" => blocks = << >> /\ ~stepping /\ pen = "up" /\ modal = "up"

(* Between lines there is no line; a $ line is executed in the states that *)
(* let it through.                                                         *)
LineKnown ==
  /\ (IF AtProgram THEN pc \in {"start", "startup", "loop", "idle", "eol"}
      ELSE pc \in {"init", "initReset"} \/ ctx \in {"idle", "eol"})
       => line = "none"
  /\ pc = "execute" =>
       /\ line \in {"unlock", "check", "sleep"} => ~sys.abort
       /\ line = "unlock" => sys.state = "ALARM"
       /\ line = "check" => sys.state \in {"IDLE", "CHECK_MODE"}
       /\ line = "sleep" => sys.state \in {"IDLE", "ALARM"}
       /\ line = "jog" => sys.state \in {"IDLE", "JOG"}

(* A cycle stop that is left over from before the initialisation; the      *)
(* first pass takes it.                                                    *)
StaleStop ==
  /\ blocks = << >>
  /\ \/ pc \in {"start", "startup", "loop", "rt", "snap"}
     \/ pc = "execute" /\ line \in {"move", "penDown"}
     \/ pc \in Sections /\ "CYCLE_STOP" \in rt_exec
  /\ pc # "start" => sys.state \notin {"CHECK_MODE", "JOG"}
  /\ sub = "none" /\ "JOG_CANCEL" \notin sys.suspend /\ ~sys.soft_limit
  /\ modal = "up"

HeldInv ==
  Taken /\ ~sys.abort /\ "HOLD_COMPLETE" \in sys.suspend => ~stepping
StandInv ==
  ~Taken =>
    /\ stepping => InMotion
    /\ "CYCLE_STOP" \in exec_state =>
         ~stepping /\ (InMotion \/ pc = "stopClear" \/ StaleStop)
    /\ pc \in {"startPrep", "startWake"} =>
         /\ ~stepping /\ "CYCLE_STOP" \notin exec_state
         /\ sys.state = "CYCLE" /\ sys.suspend = {}
         /\ "CYCLE_STOP" \notin rt_exec
    /\ pc \in {"jogPrep", "jogWake"} =>
         ~stepping /\ "CYCLE_STOP" \notin exec_state /\ sys.state = "JOG"
-----------------------------------------------------------------------------
(* A retraction has been done, or is to be done again.                     *)
Retracted == sys.suspend \cap {"RETRACT_COMPLETE", "RESTART_RETRACT"} # {}

(* The five parts of the hold section, field by field: s is what each one  *)
(* finds, t what it leaves.                                                *)
Kept(s, t) == /\ t.spindle_stop_ovr = s.spindle_stop_ovr
              /\ t.soft_limit = s.soft_limit /\ t.abort = s.abort

Begun(s, t) ==
  /\ Kept(s, t) /\ t.state = s.state
  /\ t.suspend = IF s.state = "IDLE" THEN {"HOLD_COMPLETE"}
                 ELSE IF /\ s.state = "JOG" /\ "SLEEP" \notin rt_exec
                         /\ s.suspend \cap {"MOTION_CANCEL", "JOG_CANCEL"} = {}
                 THEN s.suspend \cup {"JOG_CANCEL"} ELSE s.suspend

Cancelled(s, t) ==
  /\ Kept(s, t) /\ t.state = s.state
  /\ t.suspend = IF "MOTION_CANCEL" \in rt_exec /\ s.state # "JOG"
                 THEN s.suspend \cup {"MOTION_CANCEL"} ELSE s.suspend

Held(s, t) ==
  /\ Kept(s, t) /\ t.suspend = s.suspend
  /\ t.state = IF "FEED_HOLD" \in rt_exec
                  /\ s.state \notin {"SAFETY_DOOR", "JOG", "SLEEP"}
               THEN "HOLD" ELSE s.state

Opened(s, t) ==
  LET opens == "SAFETY_DOOR" \in rt_exec /\ "JOG_CANCEL" \notin s.suspend
  IN  /\ Kept(s, t)
      /\ t.state = IF opens /\ s.state # "SLEEP" THEN "SAFETY_DOOR"
                   ELSE s.state
      /\ t.suspend =
           IF "SAFETY_DOOR" \notin rt_exec THEN s.suspend
           ELSE IF opens /\ s.state = "SAFETY_DOOR"
                   /\ "INITIATE_RESTORE" \in s.suspend
           THEN (s.suspend \ {"RETRACT_COMPLETE", "INITIATE_RESTORE",
                              "RESTORE_COMPLETE"})
                  \cup {"RESTART_RETRACT", "SAFETY_DOOR_AJAR"}
           ELSE s.suspend \cup {"SAFETY_DOOR_AJAR"}

Slept(s, t) ==
  /\ Kept(s, t)
  /\ t.state = IF "SLEEP" \in rt_exec THEN "SLEEP" ELSE s.state
  /\ t.suspend = IF "SLEEP" \in rt_exec /\ s.state = "ALARM"
                 THEN s.suspend \cup {"RETRACT_COMPLETE", "HOLD_COMPLETE"}
                 ELSE s.suspend

(* That is what the operators of the model compute.                        *)
LEMMA HoldParts ==
  ASSUME NEW s \in Sys
  PROVE  /\ Begun(s, BeginHold(s)) /\ Cancelled(s, MotionCancel(s))
         /\ Held(s, FeedHold(s)) /\ Opened(s, SafetyDoor(s))
         /\ Slept(s, Sleep(s))
<1> USE DEF Sys, Kept
<1>1. Begun(s, BeginHold(s))
  BY DEF Begun, BeginHold
<1>2. Cancelled(s, MotionCancel(s)) /\ Held(s, FeedHold(s))
  BY DEF Cancelled, MotionCancel, Held, FeedHold
<1>3. Opened(s, SafetyDoor(s))
  <2>1. CASE "JOG_CANCEL" \in s.suspend
    BY <2>1 DEF Opened, SafetyDoor
  <2>2. CASE "JOG_CANCEL" \notin s.suspend
    BY <2>2 DEF Opened, SafetyDoor
  <2> QED  BY <2>1, <2>2
<1>4. Slept(s, Sleep(s))
  BY DEF Slept, Sleep
<1> QED  BY <1>1, <1>2, <1>3, <1>4

(* What the hold section as a whole does to a motion, to a retraction and  *)
(* to the state.                                                           *)
LEMMA HoldEffect ==
  ASSUME sys \in Sys, RtHold
  PROVE  /\ pc = "hold" /\ pc' = "holdClear"
         /\ UNCHANGED <<exec_state, exec_alarm, ovr_stop, blocks, segments,
                        stepping, pen, modal, restore, ctx, sub, rt_exec, line,
                        lost, stale, lines, commands>>
         /\ sys' \in Sys /\ sys'.abort = sys.abort
         /\ sys'.spindle_stop_ovr = sys.spindle_stop_ovr
         /\ sys'.soft_limit = sys.soft_limit
         /\ Moving(sys) => Moving(sys')
         /\ ClosedHeld(sys) => ClosedHeld(sys')
         /\ "HOLD_COMPLETE" \in sys'.suspend =>
              \/ "HOLD_COMPLETE" \in sys.suspend
              \/ sys.state \in {"IDLE", "ALARM"}
         /\ "HOLD_COMPLETE" \in sys.suspend => "HOLD_COMPLETE" \in sys'.suspend
         /\ IF "SLEEP" \in rt_exec THEN sys'.state = "SLEEP"
            ELSE /\ sys'.state \in {sys.state, "HOLD", "SAFETY_DOOR"}
                 /\ sys.state \in {"ALARM", "CHECK_MODE"} => sys' = sys
                 /\ sys.state \in {"SAFETY_DOOR", "SLEEP"}
                      => sys'.state = sys.state
                 /\ sys.state \in {"IDLE", "CYCLE"} /\ sys.suspend = {}
                      /\ rt_exec \cap HoldFlags \notin {{}, {"MOTION_CANCEL"}}
                      => sys'.state \in {"HOLD", "SAFETY_DOOR"}
         /\ "JOG_CANCEL" \in sys'.suspend =>
              \/ "JOG_CANCEL" \in sys.suspend
              \/ sys.state = "JOG" /\ "SLEEP" \notin rt_exec
         /\ sys.state = "JOG" /\ "SLEEP" \notin rt_exec
              /\ "JOG_CANCEL" \in sys'.suspend => sys'.state = "JOG"
         /\ sys.state \in {"SAFETY_DOOR", "SLEEP"} /\ Retracted => Retracted'
         /\ \A f \in {"RESTORE_COMPLETE", "INITIATE_RESTORE"} :
              f \in sys'.suspend => f \in sys.suspend
         /\ "RETRACT_COMPLETE" \in sys'.suspend =>
              \/ "RETRACT_COMPLETE" \in sys.suspend
              \/ /\ sys.state = "ALARM" /\ "SLEEP" \in rt_exec
                 /\ "HOLD_COMPLETE" \in sys'.suspend
         /\ "RESTART_RETRACT" \in sys'.suspend =>
              \/ "RESTART_RETRACT" \in sys.suspend
              \/ "INITIATE_RESTORE" \in sys.suspend
         /\ sys.state = "SAFETY_DOOR" =>
              \/ /\ sys'.suspend \ {"SAFETY_DOOR_AJAR", "MOTION_CANCEL"}
                      = sys.suspend \ {"SAFETY_DOOR_AJAR", "MOTION_CANCEL"}
              \/ /\ "INITIATE_RESTORE" \notin sys'.suspend
                 /\ "RESTORE_COMPLETE" \notin sys'.suspend
                 /\ "RETRACT_COMPLETE" \notin sys'.suspend
<1> DEFINE b == BeginHold(sys)
           m == MotionCancel(b)
           f == FeedHold(m)
           d == SafetyDoor(f)
           h == IF sys.state \in {"ALARM", "CHECK_MODE"} THEN sys ELSE d
<1>1. b \in Sys /\ m \in Sys /\ f \in Sys /\ d \in Sys /\ h \in Sys
  BY HoldSteps
<1>2. sys' = Sleep(h)
  BY DEF RtHold
<1>3. sys' \in Sys
  BY <1>1, <1>2, HoldSteps
<1>4. /\ Begun(sys, b) /\ Cancelled(b, m) /\ Held(m, f) /\ Opened(f, d)
      /\ Slept(h, sys')
  BY <1>1, <1>2, HoldParts
<1> HIDE DEF b, m, f, d
<1> USE DEF Kept, Begun, Cancelled, Held, Opened
<1>5. /\ Kept(sys, d)
      /\ d.state \in {sys.state, "HOLD", "SAFETY_DOOR"}
      /\ Moving(sys) => Moving(d)
      /\ ClosedHeld(sys) => ClosedHeld(d)
      /\ "HOLD_COMPLETE" \in d.suspend =>
           "HOLD_COMPLETE" \in sys.suspend \/ sys.state = "IDLE"
      /\ "HOLD_COMPLETE" \in sys.suspend => "HOLD_COMPLETE" \in d.suspend
      /\ sys.state \in {"SAFETY_DOOR", "SLEEP"} => d.state = sys.state
  BY <1>4 DEF Moving, ClosedHeld
<1>6. /\ sys.state \in {"IDLE", "CYCLE"} /\ sys.suspend = {}
           /\ rt_exec \cap HoldFlags \notin {{}, {"MOTION_CANCEL"}}
           /\ "SLEEP" \notin rt_exec
           => d.state \in {"HOLD", "SAFETY_DOOR"}
      /\ d.suspend \cap {"INITIATE_RESTORE", "RETRACT_COMPLETE"}
           \subseteq sys.suspend
      /\ "RESTORE_COMPLETE" \in d.suspend => "RESTORE_COMPLETE" \in sys.suspend
      /\ "RESTART_RETRACT" \in d.suspend =>
           \/ "RESTART_RETRACT" \in sys.suspend
           \/ "INITIATE_RESTORE" \in sys.suspend
  BY <1>4 DEF HoldFlags
<1>7. sys.state = "SAFETY_DOOR" =>
        \/ /\ d.suspend \ {"SAFETY_DOOR_AJAR", "MOTION_CANCEL"}
                = sys.suspend \ {"SAFETY_DOOR_AJAR", "MOTION_CANCEL"}
        \/ /\ "INITIATE_RESTORE" \notin d.suspend
           /\ "RESTORE_COMPLETE" \notin d.suspend
           /\ "RETRACT_COMPLETE" \notin d.suspend
  BY <1>4
<1>8. sys.state \in {"SAFETY_DOOR", "SLEEP"} /\ Retracted
        => d.suspend \cap {"RETRACT_COMPLETE", "RESTART_RETRACT"} # {}
  BY <1>4 DEF Retracted
<1>10. "JOG_CANCEL" \in d.suspend =>
         \/ "JOG_CANCEL" \in sys.suspend
         \/ sys.state = "JOG" /\ "SLEEP" \notin rt_exec
  BY <1>4
<1>11. sys.state = "JOG" /\ "JOG_CANCEL" \in d.suspend => d.state = "JOG"
  <2>1. "JOG_CANCEL" \in d.suspend => "JOG_CANCEL" \in f.suspend
    BY <1>4
  <2>2. f.state = "JOG" /\ "JOG_CANCEL" \in f.suspend => d.state = "JOG"
    BY <1>4
  <2>3. sys.state = "JOG" => f.state = "JOG"
    BY <1>4
  <2> QED  BY <2>1, <2>2, <2>3
<1>9. sys.state \in {"ALARM", "CHECK_MODE"} /\ "SLEEP" \notin rt_exec
        => sys' = sys
  BY <1>2 DEF Sleep
<1> QED  BY SMTT(30), <1>3, <1>4, <1>5, <1>6, <1>7, <1>8, <1>9, <1>10, <1>11
         DEF RtHold, Goto, motion, harm, budget, Moving, ClosedHeld, Retracted,
             Slept

(* The cycle start section: a motion under way is not started again.       *)
LEMMA StartEffect ==
  ASSUME sys \in Sys, RtStart, SuspendInv
  PROVE  /\ pc = "cycleStart"
         /\ UNCHANGED <<exec_state, exec_alarm, ovr_stop, blocks, segments,
                        stepping, pen, modal, restore, ctx, sub, rt_exec, line,
                        lost, stale, lines, commands>>
         /\ sys' \in Sys
         /\ sys'.abort = sys.abort /\ sys'.soft_limit = sys.soft_limit
         /\ ClosedHeld(sys')
         /\ \/ pc' = "startClear" /\ sys' = sys
            \/ /\ pc' = "startClear" /\ sys.state = "SAFETY_DOOR"
               /\ {"HOLD_COMPLETE", "RETRACT_COMPLETE"} \subseteq sys.suspend
               /\ sys'.suspend = sys.suspend \cup {"INITIATE_RESTORE"}
               /\ sys'.state = sys.state
               /\ sys'.spindle_stop_ovr = sys.spindle_stop_ovr
            \/ /\ pc' = "startClear"
               /\ sys.state = "HOLD" /\ sys'.state = "HOLD"
               /\ sys'.suspend = sys.suspend
               /\ "HOLD_COMPLETE" \in sys.suspend
               /\ sys.spindle_stop_ovr # "DISABLED"
               /\ sys'.spindle_stop_ovr =
                    IF sys.spindle_stop_ovr = "INITIATE" THEN "INITIATE"
                    ELSE "RESTORE_CYCLE"
            \/ /\ \/ /\ sys'.state = "CYCLE" /\ blocks # << >>
                     /\ pc' = "startPrep"
                  \/ sys'.state = "IDLE" /\ pc' = "startClear"
               /\ sys'.suspend = {}
               /\ sys'.spindle_stop_ovr = sys.spindle_stop_ovr
               /\ ~Moving(sys)
               /\ {} = rt_exec \cap
                         {"FEED_HOLD", "MOTION_CANCEL", "SAFETY_DOOR"}
               /\ \/ sys.state = "IDLE"
                  \/ /\ sys.state = "HOLD" /\ "HOLD_COMPLETE" \in sys.suspend
                     /\ sys.spindle_stop_ovr = "DISABLED"
                  \/ /\ sys.state = "SAFETY_DOOR"
                     /\ "RESTORE_COMPLETE" \in sys.suspend
<1>0. ClosedHeld(sys) /\ pc = "cycleStart"
  BY DEF RtStart, SuspendInv
<1> DEFINE s == ResumeDoor(sys)
           c == StartCycle(s)
<1>1. s \in Sys /\ s.abort = sys.abort /\ c \in Sys /\ c.abort = s.abort
  BY StartSteps
<1>2. /\ \/ s = sys
         \/ /\ sys.state = "SAFETY_DOOR" /\ "HOLD_COMPLETE" \in sys.suspend
            /\ \/ /\ s.state = "IDLE" /\ s.suspend = sys.suspend
                  /\ "RESTORE_COMPLETE" \in sys.suspend
               \/ /\ s.state = "SAFETY_DOOR"
                  /\ "RETRACT_COMPLETE" \in sys.suspend
                  /\ s.suspend = sys.suspend \cup {"INITIATE_RESTORE"}
      /\ s.soft_limit = sys.soft_limit
      /\ s.spindle_stop_ovr = sys.spindle_stop_ovr
  BY <1>0 DEF ResumeDoor, Sys, ClosedHeld
<1> HIDE DEF s
<1>3. /\ c.suspend = {} /\ c.soft_limit = s.soft_limit
      /\ c.spindle_stop_ovr = s.spindle_stop_ovr
      /\ \/ c.state = "CYCLE" /\ blocks # << >>
         \/ c.state = "IDLE"
  BY <1>1 DEF StartCycle, Sys
<1> HIDE DEF c
<1>4. \/ sys' = sys /\ pc' = "startClear"
      \/ sys' = s /\ pc' = "startClear" /\ ~ReadyToStart(s)
      \/ /\ pc' = "startClear" /\ ReadyToStart(s) /\ s.state = "HOLD"
         /\ s.spindle_stop_ovr # "DISABLED"
         /\ sys' = [s EXCEPT !.spindle_stop_ovr =
                       IF @ = "INITIATE" THEN @ ELSE "RESTORE_CYCLE"]
      \/ /\ sys' = c /\ ReadyToStart(s)
         /\ s.state = "HOLD" => s.spindle_stop_ovr = "DISABLED"
         /\ rt_exec \cap {"FEED_HOLD", "MOTION_CANCEL", "SAFETY_DOOR"} = {}
         /\ pc' = IF c.state = "CYCLE" THEN "startPrep" ELSE "startClear"
  BY DEF RtStart, Goto, s, c
<1>5. /\ sys' \in Sys
      /\ sys'.abort = sys.abort /\ sys'.soft_limit = sys.soft_limit
  BY <1>1, <1>2, <1>3, <1>4 DEF Sys, StopOverride
<1>6. ClosedHeld(sys')
  BY <1>0, <1>1, <1>2, <1>3, <1>4 DEF ClosedHeld, Sys
<1>7. UNCHANGED <<exec_state, exec_alarm, ovr_stop, blocks, segments, stepping,
                  pen, modal, restore, ctx, sub, rt_exec, line, lost, stale,
                  lines, commands>>
  BY DEF RtStart, Goto, motion, harm, budget
<1>8. CASE sys' = s /\ pc' = "startClear" /\ ~ReadyToStart(s)
  BY <1>0, <1>1, <1>2, <1>5, <1>6, <1>7, <1>8 DEF ReadyToStart
<1>9. CASE /\ pc' = "startClear" /\ ReadyToStart(s) /\ s.state = "HOLD"
           /\ s.spindle_stop_ovr # "DISABLED"
           /\ sys' = [s EXCEPT !.spindle_stop_ovr =
                         IF @ = "INITIATE" THEN @ ELSE "RESTORE_CYCLE"]
  BY <1>0, <1>1, <1>2, <1>5, <1>6, <1>7, <1>9 DEF ReadyToStart, Sys
<1>10. CASE /\ sys' = c /\ ReadyToStart(s)
            /\ s.state = "HOLD" => s.spindle_stop_ovr = "DISABLED"
            /\ rt_exec \cap {"FEED_HOLD", "MOTION_CANCEL", "SAFETY_DOOR"} = {}
            /\ pc' = IF c.state = "CYCLE" THEN "startPrep" ELSE "startClear"
  BY <1>0, <1>1, <1>2, <1>3, <1>5, <1>6, <1>7, <1>10 DEF ReadyToStart, Moving
<1> QED  BY <1>0, <1>4, <1>5, <1>6, <1>7, <1>8, <1>9, <1>10

(* protocol_exec_rt_system returns to its caller, or enters the suspend    *)
(* loop when something suspends the program.                               *)
LEMMA ReturnEffect ==
  ASSUME TypeOK, RtReturn
  PROVE  /\ pc = "return" /\ rt_exec' = {}
         /\ UNCHANGED <<sys, exec_state, exec_alarm, ovr_stop, blocks,
                        segments, stepping, pen, modal, ctx, line, lost, stale,
                        lines, commands>>
         /\ \/ /\ sub = "none" /\ sys.suspend # {} /\ sub' = "loop"
               /\ pc' = "suspend" /\ restore' = RestoreCondition
            \/ /\ sub = "none" /\ sys.suspend = {} /\ sub' = "none"
               /\ pc' = ctx /\ restore' = restore
            \/ /\ sub = "loop" /\ sub' = "loop"
               /\ pc' = "suspend" /\ restore' = restore
            \/ /\ sub = "sleep" /\ sys.abort /\ sub' = "none"
               /\ pc' = ctx /\ restore' = restore
            \/ /\ sub = "sleep" /\ ~sys.abort /\ sub' = "sleep"
               /\ pc' = "rt" /\ restore' = restore
            \/ /\ sub = "delay" /\ sub' = "delay"
               /\ pc' = "delay" /\ restore' = restore
<1>1. sub \in {"none", "loop", "sleep", "delay"}
  BY DEF TypeOK
<1>2. /\ pc = "return" /\ rt_exec' = {}
      /\ UNCHANGED <<sys, exec_state, exec_alarm, ovr_stop, motion, pen, modal,
                     ctx, line, harm, budget>>
  BY DEF RtReturn
<1>3. CASE sub = "none" /\ sys.suspend # {}
  BY <1>2, <1>3, Zenon DEF RtReturn, motion, harm, budget
<1>4. CASE sub = "none" /\ sys.suspend = {}
  BY <1>2, <1>4 DEF RtReturn, motion, harm, budget
<1>5. CASE sub = "loop"
  BY <1>2, <1>5 DEF RtReturn, motion, harm, budget
<1>6. CASE sub = "sleep"
  BY <1>2, <1>6 DEF RtReturn, motion, harm, budget
<1>7. CASE sub = "delay"
  BY <1>2, <1>7 DEF RtReturn, motion, harm, budget
<1> QED BY <1>1, <1>3, <1>4, <1>5, <1>6, <1>7

(* The states in which a $ line is let through.                            *)
LEMMA AdmittedStates ==
  /\ Admitted("unlock") => sys.state = "ALARM"
  /\ Admitted("check") => sys.state \in {"IDLE", "CHECK_MODE"}
  /\ Admitted("sleep") => sys.state \in {"IDLE", "ALARM"}
  /\ Admitted("jog") => sys.state \in {"IDLE", "JOG"}
  /\ \A l \in GCode \cup SystemLine :
       Admitted(l) /\ sys.state = "ALARM" => l \in {"unlock", "sleep"}
BY DEF Admitted, GCode, SystemLine

-----------------------------------------------------------------------------
(* Only st_wake_up enables the stepper interrupt.                          *)
LEMMA OnlyWakeUp ==
  ASSUME [Next]_vars, stepping', ~stepping
  PROVE  WakeUp
<1> USE DEF motion, KillSteppers, GoIdle
<1>1. CASE UNCHANGED vars
  BY <1>1, Zenon DEF vars
<1>2. CASE Interrupt
  <2>1. ASSUME NEW f, ReceiveFlag(f) PROVE FALSE
    BY <2>1, Zenon DEF ReceiveFlag
  <2>2. CASE ReceiveJogCancel \/ ReceiveStopOverride
    BY <2>1, <2>2, Zenon DEF ReceiveJogCancel, ReceiveStopOverride
  <2>3. CASE ReceiveReset \/ LimitTrip
    BY <2>3, Zenon DEF ReceiveReset, mc_reset, LimitTrip, mc_reset_with
  <2>4. CASE Stepper
    BY <2>4, Zenon DEF Stepper, StepSegment, StepEmpty
  <2> QED  BY <1>2, <2>1, <2>2, <2>3, <2>4, Zenon DEF Interrupt
<1>3. CASE RtSystem /\ ~WakeUp
  <2>1. CASE \/ RtNoAlarm \/ RtAlarm \/ RtCriticalEnd \/ RtClearAlarm
             \/ RtSnapshot
    BY <2>1, Zenon DEF RtNoAlarm, RtAlarm, RtCriticalEnd, RtClearAlarm,
       RtSnapshot
  <2>2. CASE RtHold \/ RtHoldClear \/ RtStart \/ RtStartClear
    BY <2>2, Zenon DEF RtHold, RtHoldClear, RtStart, RtStartClear
  <2>3. CASE RtStopHold \/ RtStopMotion \/ RtStopClear \/ RtOverride
    BY <2>3, Zenon DEF RtStopHold, RtStopMotion, RtStopClear, RtOverride
  <2>4. CASE PrepSegment \/ PrepHoldEnd \/ PrepReturn \/ RtReturn
    BY <2>4, Zenon DEF PrepSegment, PrepHoldEnd, PrepReturn, RtReturn
  <2> QED  BY <1>3, <2>1, <2>2, <2>3, <2>4, Zenon DEF RtSystem
<1>4. CASE SuspendLoop \/ DelayOver
  <2>1. CASE SuspendEnd \/ SuspendWait \/ SuspendRetract \/ SuspendSleep
    BY <2>1, Zenon DEF SuspendEnd, SuspendWait, SuspendRetract, SuspendSleep
  <2>2. CASE SuspendDoorClosed \/ SuspendRestore \/ DelayPass \/ DelayOver
    BY <2>2, Zenon DEF SuspendDoorClosed, SuspendRestore, DelayPass, DelayOver
  <2>3. CASE SuspendStopPen \/ SuspendRestorePen \/ SuspendPenStopped
    BY <2>3, Zenon DEF SuspendStopPen, SuspendRestorePen, SuspendPenStopped
  <2> QED  BY <1>4, <2>1, <2>2, <2>3, Zenon DEF SuspendLoop
<1>5. CASE MainLoop \/ EndOfLine
  <2>1. CASE InitFlags \/ InitReset \/ StartLoop \/ StartupLine
    BY <2>1, Zenon DEF InitFlags, InitReset, StartLoop, StartupLine
  <2>2. CASE NoData \/ BailOrLoop \/ ReadLine \/ LineEnd \/ EndOfLine
    BY <2>2, Zenon DEF NoData, BailOrLoop, ReadLine, LineEnd, EndOfLine
  <2>3. CASE Unlock \/ ToggleCheck \/ RequestSleep
    BY <2>3, Zenon DEF Unlock, ToggleCheck, mc_reset, RequestSleep
  <2>4. CASE McLine \/ SoftLimit \/ SoftHold \/ SoftReset
    BY <2>4, Zenon DEF McLine, SoftLimit, SoftHold, SoftReset, mc_reset_with
  <2>5. CASE PlanAbort \/ PlanFull \/ PlanLine \/ JogStart
    BY <2>5, Zenon DEF PlanAbort, PlanFull, PlanLine, JogStart
  <2>6. CASE LineSync \/ SyncWait \/ SyncPen \/ SyncPause \/ SyncEnd
    BY <2>6, Zenon DEF LineSync, SyncWait, SyncPen, SyncPause, SyncEnd
  <2> QED  BY <1>5, <2>1, <2>2, <2>3, <2>4, <2>5, <2>6, Zenon DEF MainLoop
<1> QED  BY <1>1, <1>2, <1>3, <1>4, <1>5, Zenon DEF Next, Processor

(* What a step does to the types and to the stepper interrupt.             *)
LEMMA StepFacts ==
  ASSUME TypeOK, [Next]_vars
  PROVE  /\ sys \in Sys /\ sys' \in Sys /\ ctx \in CheckPoints
         /\ modal \in Pen /\ pen \in Pen
         /\ sub \in {"none", "loop", "sleep", "delay"}
         /\ stepping' => \/ stepping
                         \/ /\ pc \in {"startWake", "jogWake"}
                            /\ pc' \in {"startClear", "lineEnd"}
<1>1. TypeOK'
  BY StepType
<1>2. stepping' /\ ~stepping => /\ pc \in {"startWake", "jogWake"}
                                /\ pc' \in {"startClear", "lineEnd"}
  <2>1. WakeUp => /\ pc \in {"startWake", "jogWake"}
                  /\ pc' \in {"startClear", "lineEnd"}
    BY DEF WakeUp, Goto
  <2> QED  BY <2>1, OnlyWakeUp
<1> QED  BY <1>1, <1>2 DEF TypeOK

-----------------------------------------------------------------------------
(* The sections of a pass keep what the snapshot found.                    *)
LEMMA PassStep ==
  ASSUME TypeOK, ResetInv, SuspendInv, PassInv, [Next]_vars
  PROVE  PassInv'
<1> USE DEF ResetInv, PassInv, CheckPoints, Sections
<1>. /\ sys \in Sys
     /\ ctx \in CheckPoints
  BY StepFacts
<1>1. CASE \/ \E f \in {"CYCLE_START", "FEED_HOLD", "SAFETY_DOOR"} :
                ReceiveFlag(f)
           \/ ReceiveJogCancel \/ ReceiveStopOverride
  BY <1>1 DEF ReceiveFlag, motion, main, harm, ReceiveJogCancel,
     ReceiveStopOverride
<1>2. CASE ReceiveReset \/ LimitTrip
  BY <1>2 DEF ReceiveReset, mc_reset, main, KillsMotion, KillSteppers,
     GoIdle, LimitTrip, mc_reset_with
<1>3. CASE StepSegment \/ StepEmpty
  BY <1>3 DEF StepSegment, main, harm, budget, StepEmpty
<1>4. CASE RtNoAlarm \/ RtAlarm \/ RtCriticalEnd \/ RtClearAlarm
  BY <1>4 DEF RtNoAlarm, Goto, motion, harm, budget, RtAlarm, Critical,
     RtCriticalEnd, RtClearAlarm
<1>5. CASE RtSnapshot
  BY <1>5 DEF RtSnapshot, Goto, AfterSnap, motion, harm, budget, HoldFlags,
     AfterHold, AfterStart
<1>6. CASE RtHold
  BY <1>6, HoldEffect
<1>7. CASE RtStart
  BY <1>7, StartEffect
<1>8. CASE RtHoldClear \/ RtStartClear \/ RtStopClear
  BY <1>8 DEF RtHoldClear, HoldFlags, Goto, AfterHold, motion, harm, budget,
     AfterStart, RtStartClear, RtStopClear
<1>9. CASE WakeUp
  BY <1>9 DEF WakeUp, Goto, harm, budget
<1>10. CASE RtStopHold
  BY <1>10 DEF RtStopHold, StopsHold, Goto, motion, harm, budget
<1>11. CASE RtStopMotion
  BY <1>11 DEF StopsHold, Goto, motion, harm, budget, RtStopMotion, GoIdle
<1>12. CASE RtOverride
  BY <1>12 DEF RtOverride, Goto, motion, harm, budget
<1>13. CASE PrepSegment \/ PrepHoldEnd \/ PrepReturn
  BY <1>13 DEF PrepSegment, Prepping, PrepBlocked, main, harm, budget,
     PrepHoldEnd, motion, PrepReturn, Goto
<1>14. CASE RtReturn
  BY <1>14, ReturnEffect
<1>15. CASE SuspendEnd \/ SuspendWait \/ DelayPass \/ SuspendDoorClosed \/
    SuspendPenStopped
  BY <1>15 DEF SuspendEnd, motion, harm, budget, SuspendWait, Suspended,
     Stopped, Parked, Goto, DelayPass, SuspendDoorClosed, SuspendPenStopped
<1>16. CASE SuspendRetract
  BY <1>16 DEF SuspendRetract, Goto
<1>17. CASE SuspendSleep
  BY <1>17 DEF Goto, SuspendSleep
<1>18. CASE SuspendRestore
  BY <1>18 DEF Goto, SuspendRestore
<1>19. CASE SuspendStopPen
  BY <1>19 DEF Goto, SuspendStopPen
<1>20. CASE SuspendRestorePen
  BY <1>20 DEF Goto, SuspendRestorePen
<1>21. CASE DelayOver
  BY <1>21 DEF DelayOver, motion, budget
<1>22. CASE InitFlags \/ InitReset
  BY <1>22 DEF InitFlags, Goto, motion, budget, InitReset, GoIdle, harm
<1>23. CASE StartLoop \/ StartupLine
  BY <1>23 DEF StartLoop, Goto, motion, harm, budget, StartupLine
<1>24. CASE EndOfLine \/ NoData \/ BailOrLoop \/ ReadLine \/ LineEnd
  BY <1>24, AdmittedStates DEF EndOfLine, CheckPoint, motion, harm, NoData,
     AutoCycleStart, budget, BailOrLoop, Goto, ReadLine, LineEnd
<1>25. CASE Unlock \/ ToggleCheck \/ RequestSleep
  BY <1>25 DEF Unlock, Goto, motion, budget, ToggleCheck, mc_reset,
     KillsMotion, KillSteppers, GoIdle, RequestSleep, harm
<1>26. CASE SoftLimit \/ SoftHold \/ SoftReset
  BY <1>26 DEF SoftLimit, CheckPoint, Goto, motion, harm, budget, SoftHold,
     SoftReset, mc_reset_with, KillsMotion, KillSteppers, GoIdle
<1>27. CASE McLine \/ PlanAbort \/ PlanFull \/ PlanLine \/ JogStart
  BY <1>27 DEF McLine, AfterMotion, CheckPoint, motion, harm, budget,
     PlanAbort, PlanFull, plan_check_full_buffer, AutoCycleStart, PlanLine,
     JogStart, Goto
<1>28. CASE LineSync \/ SyncWait \/ SyncPen \/ SyncPause \/ SyncEnd
  BY <1>28 DEF LineSync, PenLine, PenOf, Goto, AutoCycleStart, CheckPoint,
     motion, harm, budget, SyncWait, SyncDone, SyncPen, SyncPause, SyncEnd
<1>29. CASE UNCHANGED vars
  BY <1>29 DEF vars, motion, main, harm, budget
<1>. QED  BY <1>1, <1>2, <1>3, <1>4, <1>5, <1>6, <1>7, <1>8, <1>9, <1>10,
    <1>11, <1>12, <1>13, <1>14, <1>15, <1>16, <1>17, <1>18, <1>19, <1>20,
    <1>21, <1>22, <1>23, <1>24, <1>25, <1>26, <1>27, <1>28, <1>29
    DEF Next, Interrupt, Stepper, Processor, RtSystem, SuspendLoop, MainLoop

(* The program runs only when nothing suspends it.                         *)
LEMMA SuspendStep ==
  ASSUME TypeOK, SuspendInv, [Next]_vars
  PROVE  SuspendInv'
<1> USE DEF SuspendInv, Sys, CheckPoints, AtProgram, ClearedSys, ClosedHeld
<1>. /\ sys \in Sys
     /\ ctx \in CheckPoints
  BY StepFacts
<1>1. CASE \/ \E f \in {"CYCLE_START", "FEED_HOLD", "SAFETY_DOOR"} :
                ReceiveFlag(f)
           \/ ReceiveJogCancel \/ ReceiveStopOverride
  BY <1>1 DEF ReceiveFlag, motion, main, harm, ReceiveJogCancel,
     ReceiveStopOverride
<1>2. CASE ReceiveReset \/ LimitTrip
  BY <1>2 DEF ReceiveReset, mc_reset, main, KillsMotion, KillSteppers,
     GoIdle, LimitTrip, mc_reset_with
<1>3. CASE StepSegment \/ StepEmpty
  BY <1>3 DEF StepSegment, main, harm, budget, StepEmpty
<1>4. CASE RtNoAlarm \/ RtAlarm \/ RtCriticalEnd \/ RtClearAlarm
  BY <1>4 DEF RtNoAlarm, Goto, motion, harm, budget, RtAlarm, Critical,
     RtCriticalEnd, RtClearAlarm
<1>5. CASE RtSnapshot
  BY <1>5 DEF RtSnapshot, Goto, AfterSnap, motion, harm, budget, HoldFlags,
     AfterHold, AfterStart
<1>6. CASE RtHold
  BY <1>6, HoldEffect
<1>7. CASE RtStart
  BY <1>7, StartEffect
<1>8. CASE RtHoldClear \/ RtStartClear \/ RtStopClear
  BY <1>8 DEF RtHoldClear, HoldFlags, Goto, AfterHold, motion, harm, budget,
     AfterStart, RtStartClear, RtStopClear
<1>9. CASE WakeUp
  BY <1>9 DEF WakeUp, Goto, harm, budget
<1>10. CASE RtStopHold
  BY <1>10 DEF RtStopHold, StopsHold, Goto, motion, harm, budget
<1>11. CASE RtStopMotion
  BY <1>11 DEF RtStopMotion, StopsHold, GoIdle, motion, Goto, harm, budget
<1>12. CASE RtOverride
  BY <1>12 DEF RtOverride, Goto, motion, harm, budget
<1>13. CASE PrepSegment \/ PrepHoldEnd \/ PrepReturn
  BY <1>13 DEF PrepSegment, Prepping, PrepBlocked, main, harm, budget,
     PrepHoldEnd, motion, PrepReturn, Goto
<1>14. CASE RtReturn
  BY <1>14, ReturnEffect
<1>15. CASE SuspendEnd \/ SuspendWait \/ DelayPass \/ SuspendDoorClosed \/
    SuspendPenStopped
  BY <1>15 DEF SuspendEnd, motion, harm, budget, SuspendWait, Suspended,
     Stopped, Parked, Goto, DelayPass, SuspendDoorClosed, SuspendPenStopped
<1>16. CASE SuspendRetract
  BY <1>16 DEF SuspendRetract, Stopped, Parked, Goto, motion, harm, budget,
     Suspended
<1>17. CASE SuspendSleep
  BY <1>17 DEF SuspendSleep, Stopped, GoIdle, harm, budget, Suspended
<1>18. CASE SuspendRestore
  BY <1>18 DEF SuspendRestore, Stopped, motion, harm, budget, Suspended
<1>19. CASE SuspendStopPen
  BY <1>19 DEF SuspendStopPen, Stopped, Parked, Goto, motion, harm, budget,
     Suspended
<1>20. CASE SuspendRestorePen
  BY <1>20 DEF SuspendRestorePen, Stopped, Parked, Goto, motion, harm,
     budget, Suspended
<1>21. CASE DelayOver
  BY <1>21 DEF DelayOver, motion, budget
<1>22. CASE InitFlags \/ InitReset
  BY <1>22 DEF InitFlags, Goto, motion, budget, InitReset, GoIdle, harm
<1>23. CASE StartLoop \/ StartupLine
  BY <1>23 DEF StartLoop, Goto, motion, harm, budget, StartupLine
<1>24. CASE EndOfLine \/ NoData \/ BailOrLoop \/ ReadLine \/ LineEnd
  BY <1>24, AdmittedStates DEF EndOfLine, CheckPoint, motion, harm, NoData,
     AutoCycleStart, budget, BailOrLoop, Goto, ReadLine, LineEnd
<1>25. CASE Unlock \/ ToggleCheck \/ RequestSleep
  BY <1>25 DEF Unlock, Goto, motion, budget, ToggleCheck, mc_reset,
     KillsMotion, KillSteppers, GoIdle, RequestSleep, harm
<1>26. CASE SoftLimit \/ SoftHold \/ SoftReset
  BY <1>26 DEF SoftLimit, CheckPoint, Goto, motion, harm, budget, SoftHold,
     SoftReset, mc_reset_with, KillsMotion, KillSteppers, GoIdle
<1>27. CASE McLine \/ PlanAbort \/ PlanFull \/ PlanLine \/ JogStart
  BY <1>27 DEF McLine, AfterMotion, CheckPoint, motion, harm, budget,
     PlanAbort, PlanFull, plan_check_full_buffer, AutoCycleStart, PlanLine,
     JogStart, Goto
<1>28. CASE LineSync \/ SyncWait \/ SyncPen \/ SyncPause \/ SyncEnd
  BY <1>28 DEF LineSync, PenLine, PenOf, Goto, AutoCycleStart, CheckPoint,
     motion, harm, budget, SyncWait, SyncDone, SyncPen, SyncPause, SyncEnd
<1>29. CASE UNCHANGED vars
  BY <1>29 DEF vars, motion, main, harm, budget
<1>. QED  BY <1>1, <1>2, <1>3, <1>4, <1>5, <1>6, <1>7, <1>8, <1>9, <1>10,
    <1>11, <1>12, <1>13, <1>14, <1>15, <1>16, <1>17, <1>18, <1>19, <1>20,
    <1>21, <1>22, <1>23, <1>24, <1>25, <1>26, <1>27, <1>28, <1>29
    DEF Next, Interrupt, Stepper, Processor, RtSystem, SuspendLoop, MainLoop

(* A controller that starts has no motion and its pen up.                  *)
LEMMA FreshStep ==
  ASSUME TypeOK, SuspendInv, FreshInv, [Next]_vars
  PROVE  FreshInv'
<1> USE DEF FreshInv, CheckPoints
<1>. /\ sys \in Sys
     /\ ctx \in CheckPoints
  BY StepFacts
<1>1. CASE \/ \E f \in {"CYCLE_START", "FEED_HOLD", "SAFETY_DOOR"} :
                ReceiveFlag(f)
           \/ ReceiveJogCancel \/ ReceiveStopOverride
  BY <1>1 DEF ReceiveFlag, motion, main, harm, ReceiveJogCancel,
     ReceiveStopOverride
<1>2. CASE ReceiveReset \/ LimitTrip
  BY <1>2 DEF ReceiveReset, mc_reset, main, KillsMotion, KillSteppers,
     GoIdle, LimitTrip, mc_reset_with
<1>3. CASE StepSegment \/ StepEmpty
  BY <1>3 DEF StepSegment, main, harm, budget, StepEmpty
<1>4. CASE RtNoAlarm \/ RtAlarm \/ RtCriticalEnd \/ RtClearAlarm
  BY <1>4 DEF RtNoAlarm, Goto, motion, harm, budget, RtAlarm, Critical,
     RtCriticalEnd, RtClearAlarm
<1>5. CASE RtSnapshot
  BY <1>5 DEF RtSnapshot, Goto, AfterSnap, motion, harm, budget, HoldFlags,
     AfterHold, AfterStart
<1>6. CASE RtHold
  BY <1>6, HoldEffect
<1>7. CASE RtStart
  BY <1>7, StartEffect
<1>8. CASE RtHoldClear \/ RtStartClear \/ RtStopClear
  BY <1>8 DEF RtHoldClear, HoldFlags, Goto, AfterHold, motion, harm, budget,
     AfterStart, RtStartClear, RtStopClear
<1>9. CASE WakeUp
  BY <1>9 DEF WakeUp, Goto, harm, budget
<1>10. CASE RtStopHold
  BY <1>10 DEF RtStopHold, StopsHold, Goto, motion, harm, budget
<1>11. CASE RtStopMotion
  BY <1>11 DEF StopsHold, Goto, motion, harm, budget, RtStopMotion, GoIdle
<1>12. CASE RtOverride
  BY <1>12 DEF RtOverride, Goto, motion, harm, budget
<1>13. CASE PrepSegment \/ PrepHoldEnd \/ PrepReturn
  BY <1>13 DEF PrepSegment, Prepping, PrepBlocked, main, harm, budget,
     PrepHoldEnd, motion, PrepReturn, Goto
<1>14. CASE RtReturn
  BY <1>14, ReturnEffect
<1>15. CASE SuspendEnd \/ SuspendWait \/ DelayPass \/ SuspendDoorClosed \/
    SuspendPenStopped
  BY <1>15 DEF SuspendEnd, motion, harm, budget, SuspendWait, Suspended,
     Stopped, Parked, Goto, DelayPass, SuspendDoorClosed, SuspendPenStopped
<1>16. CASE SuspendRetract
  BY <1>16 DEF SuspendRetract, Stopped, Parked, Goto, motion, harm, budget,
     Suspended
<1>17. CASE SuspendSleep
  BY <1>17 DEF Stopped, harm, budget, Suspended, SuspendSleep, GoIdle
<1>18. CASE SuspendRestore
  BY <1>18 DEF Stopped, motion, harm, budget, Suspended, SuspendRestore
<1>19. CASE SuspendStopPen
  BY <1>19 DEF Stopped, Parked, Goto, motion, harm, budget, Suspended,
     SuspendStopPen
<1>20. CASE SuspendRestorePen
  BY <1>20 DEF Stopped, Parked, Goto, motion, harm, budget, Suspended,
     SuspendRestorePen
<1>21. CASE DelayOver
  BY <1>21 DEF DelayOver, motion, budget
<1>22. CASE InitFlags \/ InitReset
  BY <1>22 DEF InitFlags, Goto, motion, budget, InitReset, GoIdle, harm
<1>23. CASE StartLoop \/ StartupLine
  BY <1>23 DEF StartLoop, Goto, motion, harm, budget, StartupLine
<1>24. CASE EndOfLine \/ NoData \/ BailOrLoop \/ ReadLine \/ LineEnd
  BY <1>24, AdmittedStates DEF EndOfLine, CheckPoint, motion, harm, NoData,
     AutoCycleStart, budget, BailOrLoop, Goto, ReadLine, LineEnd
<1>25. CASE Unlock \/ ToggleCheck \/ RequestSleep
  BY <1>25 DEF Unlock, Goto, motion, budget, ToggleCheck, mc_reset,
     KillsMotion, KillSteppers, GoIdle, RequestSleep, harm
<1>26. CASE SoftLimit \/ SoftHold \/ SoftReset
  BY <1>26 DEF SoftLimit, CheckPoint, Goto, motion, harm, budget, SoftHold,
     SoftReset, mc_reset_with, KillsMotion, KillSteppers, GoIdle
<1>27. CASE McLine \/ PlanAbort \/ PlanFull \/ PlanLine \/ JogStart
  BY <1>27 DEF McLine, AfterMotion, CheckPoint, motion, harm, budget,
     PlanAbort, PlanFull, plan_check_full_buffer, AutoCycleStart, PlanLine,
     JogStart, Goto
<1>28. CASE LineSync \/ SyncWait \/ SyncPen \/ SyncPause \/ SyncEnd
  BY <1>28 DEF LineSync, PenLine, PenOf, Goto, AutoCycleStart, CheckPoint,
     motion, harm, budget, SyncWait, SyncDone, SyncPen, SyncPause, SyncEnd
<1>29. CASE UNCHANGED vars
  BY <1>29 DEF vars, motion, main, harm, budget
<1>. QED  BY <1>1, <1>2, <1>3, <1>4, <1>5, <1>6, <1>7, <1>8, <1>9, <1>10,
    <1>11, <1>12, <1>13, <1>14, <1>15, <1>16, <1>17, <1>18, <1>19, <1>20,
    <1>21, <1>22, <1>23, <1>24, <1>25, <1>26, <1>27, <1>28, <1>29
    DEF Next, Interrupt, Stepper, Processor, RtSystem, SuspendLoop, MainLoop

(* A line is known while it is executed, and only then.                    *)
LEMMA LineKnownStep ==
  ASSUME TypeOK, SuspendInv, LineKnown, [Next]_vars
  PROVE  LineKnown'
<1> USE DEF SuspendInv, LineKnown, CheckPoints, AtProgram
<1>. /\ sys \in Sys
     /\ ctx \in CheckPoints
  BY StepFacts
<1>1. CASE \/ \E f \in {"CYCLE_START", "FEED_HOLD", "SAFETY_DOOR"} :
                ReceiveFlag(f)
           \/ ReceiveJogCancel \/ ReceiveStopOverride
  BY <1>1 DEF ReceiveFlag, motion, main, harm, ReceiveJogCancel,
     ReceiveStopOverride
<1>2. CASE ReceiveReset \/ LimitTrip
  BY <1>2 DEF ReceiveReset, mc_reset, main, KillsMotion, KillSteppers,
     GoIdle, LimitTrip, mc_reset_with
<1>3. CASE StepSegment \/ StepEmpty
  BY <1>3 DEF StepSegment, main, harm, budget, StepEmpty
<1>4. CASE RtNoAlarm \/ RtAlarm \/ RtCriticalEnd \/ RtClearAlarm
  BY <1>4 DEF RtNoAlarm, Goto, motion, harm, budget, RtAlarm, Critical,
     RtCriticalEnd, RtClearAlarm
<1>5. CASE RtSnapshot
  BY <1>5 DEF RtSnapshot, Goto, AfterSnap, motion, harm, budget, HoldFlags,
     AfterHold, AfterStart
<1>6. CASE RtHold
  BY <1>6, HoldEffect
<1>7. CASE RtStart
  BY <1>7, StartEffect
<1>8. CASE RtHoldClear \/ RtStartClear \/ RtStopClear
  BY <1>8 DEF RtHoldClear, HoldFlags, Goto, AfterHold, motion, harm, budget,
     AfterStart, RtStartClear, RtStopClear
<1>9. CASE WakeUp
  BY <1>9 DEF WakeUp, Goto, harm, budget
<1>10. CASE RtStopHold
  BY <1>10 DEF RtStopHold, StopsHold, Goto, motion, harm, budget
<1>11. CASE RtStopMotion
  BY <1>11 DEF StopsHold, Goto, motion, harm, budget, RtStopMotion, GoIdle
<1>12. CASE RtOverride
  BY <1>12 DEF RtOverride, Goto, motion, harm, budget
<1>13. CASE PrepSegment \/ PrepHoldEnd \/ PrepReturn
  BY <1>13 DEF PrepSegment, Prepping, PrepBlocked, main, harm, budget,
     PrepHoldEnd, motion, PrepReturn, Goto
<1>14. CASE RtReturn
  BY <1>14, ReturnEffect
<1>15. CASE SuspendEnd \/ SuspendWait \/ DelayPass \/ SuspendDoorClosed \/
    SuspendPenStopped
  BY <1>15 DEF SuspendEnd, motion, harm, budget, SuspendWait, Suspended,
     Stopped, Parked, Goto, DelayPass, SuspendDoorClosed, SuspendPenStopped
<1>16. CASE SuspendRetract
  BY <1>16 DEF SuspendRetract, Stopped, Parked, Goto, motion, harm, budget,
     Suspended
<1>17. CASE SuspendSleep
  BY <1>17 DEF Stopped, harm, budget, Suspended, SuspendSleep, GoIdle
<1>18. CASE SuspendRestore
  BY <1>18 DEF Stopped, motion, harm, budget, Suspended, SuspendRestore
<1>19. CASE SuspendStopPen
  BY <1>19 DEF Stopped, Parked, Goto, motion, harm, budget, Suspended,
     SuspendStopPen
<1>20. CASE SuspendRestorePen
  BY <1>20 DEF Stopped, Parked, Goto, motion, harm, budget, Suspended,
     SuspendRestorePen
<1>21. CASE DelayOver
  BY <1>21 DEF DelayOver, motion, budget
<1>22. CASE InitFlags \/ InitReset
  BY <1>22 DEF InitFlags, Goto, motion, budget, InitReset, GoIdle, harm
<1>23. CASE StartLoop \/ StartupLine
  BY <1>23 DEF StartLoop, Goto, motion, harm, budget, StartupLine
<1>24. CASE EndOfLine \/ NoData \/ BailOrLoop \/ ReadLine \/ LineEnd
  BY <1>24, AdmittedStates DEF EndOfLine, CheckPoint, motion, harm, NoData,
     AutoCycleStart, budget, BailOrLoop, Goto, ReadLine, LineEnd
<1>25. CASE Unlock \/ ToggleCheck \/ RequestSleep
  BY <1>25 DEF Unlock, Goto, motion, budget, ToggleCheck, mc_reset,
     KillsMotion, KillSteppers, GoIdle, RequestSleep, harm
<1>26. CASE SoftLimit \/ SoftHold \/ SoftReset
  BY <1>26 DEF SoftLimit, CheckPoint, Goto, motion, harm, budget, SoftHold,
     SoftReset, mc_reset_with, KillsMotion, KillSteppers, GoIdle
<1>27. CASE McLine \/ PlanAbort \/ PlanFull \/ PlanLine \/ JogStart
  BY <1>27 DEF McLine, AfterMotion, CheckPoint, motion, harm, budget,
     PlanAbort, PlanFull, plan_check_full_buffer, AutoCycleStart, PlanLine,
     JogStart, Goto
<1>28. CASE LineSync \/ SyncWait \/ SyncPen \/ SyncPause \/ SyncEnd
  BY <1>28 DEF LineSync, PenLine, PenOf, Goto, AutoCycleStart, CheckPoint,
     motion, harm, budget, SyncWait, SyncDone, SyncPen, SyncPause, SyncEnd
<1>29. CASE UNCHANGED vars
  BY <1>29 DEF vars, motion, main, harm, budget
<1>. QED  BY <1>1, <1>2, <1>3, <1>4, <1>5, <1>6, <1>7, <1>8, <1>9, <1>10,
    <1>11, <1>12, <1>13, <1>14, <1>15, <1>16, <1>17, <1>18, <1>19, <1>20,
    <1>21, <1>22, <1>23, <1>24, <1>25, <1>26, <1>27, <1>28, <1>29
    DEF Next, Interrupt, Stepper, Processor, RtSystem, SuspendLoop, MainLoop

(* A motion under way is stopped before it is called held, and started     *)
(* only from a standstill.                                                 *)
LEMMA StandStep ==
  ASSUME TypeOK, PassInv, SuspendInv, FreshInv, LineKnown, StandInv,
         [Next]_vars
  PROVE  StandInv'
<1> USE DEF PassInv, SuspendInv, FreshInv, LineKnown, StandInv, Sys,
    CheckPoints, Sections, AtProgram, ClearedSys, Taken, InMotion, StaleStop,
    Moving
<1>. /\ sys \in Sys
     /\ ctx \in CheckPoints
  BY StepFacts
<1>1. CASE \/ \E f \in {"CYCLE_START", "FEED_HOLD", "SAFETY_DOOR"} :
                ReceiveFlag(f)
           \/ ReceiveJogCancel \/ ReceiveStopOverride
  BY <1>1 DEF ReceiveFlag, motion, main, harm, ReceiveJogCancel,
     ReceiveStopOverride
<1>2. CASE ReceiveReset \/ LimitTrip
  BY <1>2 DEF ReceiveReset, mc_reset, main, KillsMotion, KillSteppers,
     GoIdle, LimitTrip, mc_reset_with
<1>3. CASE StepSegment \/ StepEmpty
  BY <1>3 DEF StepSegment, main, harm, budget, StepEmpty
<1>4. CASE RtNoAlarm \/ RtAlarm \/ RtCriticalEnd \/ RtClearAlarm
  BY <1>4 DEF RtNoAlarm, Goto, motion, harm, budget, RtAlarm, Critical,
     RtCriticalEnd, RtClearAlarm
<1>5. CASE RtSnapshot
  BY <1>5 DEF RtSnapshot, Goto, AfterSnap, motion, harm, budget, HoldFlags,
     AfterHold, AfterStart
<1>6. CASE RtHold
  BY <1>6, HoldEffect
<1>7. CASE RtStart
  BY <1>7, StartEffect
<1>8. CASE RtHoldClear \/ RtStartClear \/ RtStopClear
  BY <1>8 DEF RtHoldClear, HoldFlags, Goto, AfterHold, motion, harm, budget,
     AfterStart, RtStartClear, RtStopClear
<1>9. CASE WakeUp
  BY <1>9 DEF WakeUp, Goto, harm, budget
<1>10. CASE RtStopHold
  BY <1>10 DEF RtStopHold, StopsHold, Goto, motion, harm, budget
<1>11. CASE RtStopMotion
  BY <1>11 DEF RtStopMotion, StopsHold, GoIdle, motion, Goto, harm, budget
<1>12. CASE RtOverride
  BY <1>12 DEF RtOverride, Goto, motion, harm, budget
<1>13. CASE PrepSegment \/ PrepHoldEnd \/ PrepReturn
  BY <1>13 DEF PrepSegment, Prepping, PrepBlocked, main, harm, budget,
     PrepHoldEnd, motion, PrepReturn, Goto
<1>14. CASE RtReturn
  BY <1>14, ReturnEffect
<1>15. CASE SuspendEnd \/ SuspendWait \/ DelayPass \/ SuspendDoorClosed \/
    SuspendPenStopped
  BY <1>15 DEF SuspendEnd, motion, harm, budget, SuspendWait, Suspended,
     Stopped, Parked, Goto, DelayPass, SuspendDoorClosed, SuspendPenStopped
<1>16. CASE SuspendRetract
  BY <1>16 DEF SuspendRetract, Stopped, Parked, Goto, motion, harm, budget,
     Suspended
<1>17. CASE SuspendSleep
  BY <1>17 DEF Stopped, harm, budget, Suspended, SuspendSleep, GoIdle
<1>18. CASE SuspendRestore
  BY <1>18 DEF Stopped, motion, harm, budget, Suspended, SuspendRestore
<1>19. CASE SuspendStopPen
  BY <1>19 DEF Stopped, Parked, Goto, motion, harm, budget, Suspended,
     SuspendStopPen
<1>20. CASE SuspendRestorePen
  BY <1>20 DEF Stopped, Parked, Goto, motion, harm, budget, Suspended,
     SuspendRestorePen
<1>21. CASE DelayOver
  BY <1>21 DEF DelayOver, motion, budget
<1>22. CASE InitFlags \/ InitReset
  BY <1>22 DEF InitFlags, Goto, motion, budget, InitReset, GoIdle, harm
<1>23. CASE StartLoop \/ StartupLine
  BY <1>23 DEF StartLoop, Goto, motion, harm, budget, StartupLine
<1>24. CASE EndOfLine \/ NoData \/ BailOrLoop \/ ReadLine \/ LineEnd
  BY <1>24, AdmittedStates DEF EndOfLine, CheckPoint, motion, harm, NoData,
     AutoCycleStart, budget, BailOrLoop, Goto, ReadLine, LineEnd
<1>25. CASE Unlock \/ ToggleCheck \/ RequestSleep
  BY <1>25 DEF Unlock, Goto, motion, budget, ToggleCheck, mc_reset,
     KillsMotion, KillSteppers, GoIdle, RequestSleep, harm
<1>26. CASE SoftLimit \/ SoftHold \/ SoftReset
  BY <1>26 DEF SoftLimit, CheckPoint, Goto, motion, harm, budget, SoftHold,
     SoftReset, mc_reset_with, KillsMotion, KillSteppers, GoIdle
<1>27. CASE McLine \/ PlanAbort \/ PlanFull \/ PlanLine \/ JogStart
  BY <1>27 DEF McLine, AfterMotion, CheckPoint, motion, harm, budget,
     PlanAbort, PlanFull, plan_check_full_buffer, AutoCycleStart, PlanLine,
     JogStart, Goto
<1>28. CASE LineSync \/ SyncWait \/ SyncPen \/ SyncPause \/ SyncEnd
  BY <1>28 DEF LineSync, PenLine, PenOf, Goto, AutoCycleStart, CheckPoint,
     motion, harm, budget, SyncWait, SyncDone, SyncPen, SyncPause, SyncEnd
<1>29. CASE UNCHANGED vars
  BY <1>29 DEF vars, motion, main, harm, budget
<1>. QED  BY <1>1, <1>2, <1>3, <1>4, <1>5, <1>6, <1>7, <1>8, <1>9, <1>10,
    <1>11, <1>12, <1>13, <1>14, <1>15, <1>16, <1>17, <1>18, <1>19, <1>20,
    <1>21, <1>22, <1>23, <1>24, <1>25, <1>26, <1>27, <1>28, <1>29
    DEF Next, Interrupt, Stepper, Processor, RtSystem, SuspendLoop, MainLoop

(* A hold that is complete when a reset is taken stays a standstill.       *)
LEMMA HeldStep ==
  ASSUME TypeOK, SuspendInv, StandInv, HeldInv, [Next]_vars
  PROVE  HeldInv'
<1> USE DEF StandInv, HeldInv, Sys, ClearedSys, Taken, InMotion, Moving
<1>. sys \in Sys
  BY StepFacts
<1>1. CASE \/ \E f \in {"CYCLE_START", "FEED_HOLD", "SAFETY_DOOR"} :
                ReceiveFlag(f)
           \/ ReceiveJogCancel \/ ReceiveStopOverride
  BY <1>1 DEF ReceiveFlag, motion, main, harm, ReceiveJogCancel,
     ReceiveStopOverride
<1>2. CASE ReceiveReset \/ LimitTrip
  BY <1>2 DEF ReceiveReset, mc_reset, main, KillsMotion, KillSteppers,
     GoIdle, LimitTrip, mc_reset_with
<1>3. CASE StepSegment \/ StepEmpty
  BY <1>3 DEF StepSegment, main, harm, budget, StepEmpty
<1>4. CASE RtNoAlarm \/ RtAlarm \/ RtCriticalEnd \/ RtClearAlarm
  BY <1>4 DEF RtNoAlarm, Goto, motion, harm, budget, RtAlarm, Critical,
     RtCriticalEnd, RtClearAlarm
<1>5. CASE RtSnapshot
  BY <1>5 DEF RtSnapshot, Goto, AfterSnap, motion, harm, budget, HoldFlags,
     AfterHold, AfterStart
<1>6. CASE RtHold
  BY <1>6, HoldEffect
<1>7. CASE RtStart
  BY <1>7, StartEffect
<1>8. CASE RtHoldClear \/ RtStartClear \/ RtStopClear
  BY <1>8 DEF RtHoldClear, HoldFlags, Goto, AfterHold, motion, harm, budget,
     AfterStart, RtStartClear, RtStopClear
<1>9. CASE WakeUp
  BY <1>9 DEF WakeUp, Goto, harm, budget
<1>10. CASE RtStopHold
  BY <1>10 DEF RtStopHold, StopsHold, Goto, motion, harm, budget
<1>11. CASE RtStopMotion
  BY <1>11 DEF StopsHold, Goto, motion, harm, budget, RtStopMotion, GoIdle
<1>12. CASE RtOverride
  BY <1>12 DEF RtOverride, Goto, motion, harm, budget
<1>13. CASE PrepSegment \/ PrepHoldEnd \/ PrepReturn
  BY <1>13 DEF PrepSegment, Prepping, PrepBlocked, main, harm, budget,
     PrepHoldEnd, motion, PrepReturn, Goto
<1>14. CASE RtReturn
  BY <1>14, ReturnEffect
<1>15. CASE SuspendEnd \/ SuspendWait \/ DelayPass \/ SuspendDoorClosed \/
    SuspendPenStopped
  BY <1>15 DEF SuspendEnd, motion, harm, budget, SuspendWait, Suspended,
     Stopped, Parked, Goto, DelayPass, SuspendDoorClosed, SuspendPenStopped
<1>16. CASE SuspendRetract
  BY <1>16 DEF SuspendRetract, Stopped, Parked, Goto, motion, harm, budget,
     Suspended
<1>17. CASE SuspendSleep
  BY <1>17 DEF Stopped, harm, budget, Suspended, SuspendSleep, GoIdle
<1>18. CASE SuspendRestore
  BY <1>18 DEF Stopped, motion, harm, budget, Suspended, SuspendRestore
<1>19. CASE SuspendStopPen
  BY <1>19 DEF Stopped, Parked, Goto, motion, harm, budget, Suspended,
     SuspendStopPen
<1>20. CASE SuspendRestorePen
  BY <1>20 DEF Stopped, Parked, Goto, motion, harm, budget, Suspended,
     SuspendRestorePen
<1>21. CASE DelayOver
  BY <1>21 DEF DelayOver, motion, budget
<1>22. CASE InitFlags \/ InitReset
  BY <1>22 DEF InitFlags, Goto, motion, budget, InitReset, GoIdle, harm
<1>23. CASE StartLoop \/ StartupLine
  BY <1>23 DEF StartLoop, Goto, motion, harm, budget, StartupLine
<1>24. CASE EndOfLine \/ NoData \/ BailOrLoop \/ ReadLine \/ LineEnd
  BY <1>24, AdmittedStates DEF EndOfLine, CheckPoint, motion, harm, NoData,
     AutoCycleStart, budget, BailOrLoop, Goto, ReadLine, LineEnd
<1>25. CASE Unlock \/ ToggleCheck \/ RequestSleep
  BY <1>25 DEF Unlock, Goto, motion, budget, ToggleCheck, mc_reset,
     KillsMotion, KillSteppers, GoIdle, RequestSleep, harm
<1>26. CASE SoftLimit \/ SoftHold \/ SoftReset
  BY <1>26 DEF SoftLimit, CheckPoint, Goto, motion, harm, budget, SoftHold,
     SoftReset, mc_reset_with, KillsMotion, KillSteppers, GoIdle
<1>27. CASE McLine \/ PlanAbort \/ PlanFull \/ PlanLine \/ JogStart
  BY <1>27 DEF McLine, AfterMotion, CheckPoint, motion, harm, budget,
     PlanAbort, PlanFull, plan_check_full_buffer, AutoCycleStart, PlanLine,
     JogStart, Goto
<1>28. CASE LineSync \/ SyncWait \/ SyncPen \/ SyncPause \/ SyncEnd
  BY <1>28 DEF LineSync, PenLine, PenOf, Goto, AutoCycleStart, CheckPoint,
     motion, harm, budget, SyncWait, SyncDone, SyncPen, SyncPause, SyncEnd
<1>29. CASE UNCHANGED vars
  BY <1>29 DEF vars, motion, main, harm, budget
<1>. QED  BY <1>1, <1>2, <1>3, <1>4, <1>5, <1>6, <1>7, <1>8, <1>9, <1>10,
    <1>11, <1>12, <1>13, <1>14, <1>15, <1>16, <1>17, <1>18, <1>19, <1>20,
    <1>21, <1>22, <1>23, <1>24, <1>25, <1>26, <1>27, <1>28, <1>29
    DEF Next, Interrupt, Stepper, Processor, RtSystem, SuspendLoop, MainLoop
-----------------------------------------------------------------------------
(* Together they are inductive ...                                         *)
HoldInv == /\ ResetInv /\ PassInv /\ SuspendInv /\ FreshInv /\ LineKnown
           /\ StandInv /\ HeldInv

(* ... hold at power-up ...                                                *)
LEMMA InitHold == Init => HoldInv
<1> SUFFICES ASSUME Init PROVE HoldInv
  OBVIOUS
<1> USE DEF Init, ClearedSys
<1>1. PICK s \in {"IDLE", "ALARM"} : sys = ClearedSys(s)
  OBVIOUS
<1>2. /\ exec_state = {} /\ exec_alarm = "none" /\ blocks = << >>
      /\ pen = "up" /\ modal = "up" /\ pc = "init" /\ sub = "none"
      /\ line = "none" /\ sys.suspend = {} /\ sys.abort = FALSE
      /\ sys.state = s
  BY <1>1
<1>3. ~stepping
  BY Zenon
<1>4. ResetInv /\ PassInv /\ LineKnown
  BY <1>2 DEF ResetInv, PenUpUnderReset, ResetPending, PassInv, Sections,
     LineKnown, AtProgram
<1>5. SuspendInv /\ FreshInv
  BY <1>2 DEF SuspendInv, ClosedHeld, AtProgram, FreshInv
<1>6. StandInv /\ HeldInv
  BY <1>2, <1>3 DEF StandInv, HeldInv, Taken
<1> QED  BY <1>4, <1>5, <1>6 DEF HoldInv

(* ... and in every step.                                                  *)
LEMMA StepHold ==
  ASSUME TypeOK, HoldInv, [Next]_vars
  PROVE  HoldInv'
<1>1. ResetInv'
  BY StepReset DEF HoldInv
<1>2. PassInv' /\ SuspendInv' /\ FreshInv' /\ LineKnown'
  BY PassStep, SuspendStep, FreshStep, LineKnownStep DEF HoldInv
<1>3. StandInv' /\ HeldInv'
  BY StandStep, HeldStep DEF HoldInv
<1> QED  BY <1>1, <1>2, <1>3 DEF HoldInv

(* A hold that reports itself complete has stopped the steppers: the       *)
(* retraction, the stop override and the resume of protocol_exec_rt_suspend*)
(* all act on a machine at rest.                                           *)
THEOREM HoldAlwaysStill == Spec => []HoldIsStill
<1>1. HoldInv => HoldIsStill
  BY DEF HoldInv, StandInv, HeldInv, Taken, InMotion, Moving, HoldIsStill,
     ResetPending
<1> QED  BY <1>1, InitHold, StepHold, TypeCorrect, PTL DEF Spec

(* The state becomes CYCLE in the cycle start section alone.               *)
LEMMA OnlyStart ==
  ASSUME TypeOK, [Next]_vars, sys.state # "CYCLE", sys'.state = "CYCLE"
  PROVE  RtStart
<1> USE DEF Sys
<1>0. sys \in Sys
  BY DEF TypeOK
<1>1. CASE UNCHANGED vars
  BY <1>1 DEF vars
<1>2. CASE Interrupt
  BY <1>2 DEF Interrupt, ReceiveFlag, ReceiveJogCancel, ReceiveStopOverride,
     ReceiveReset, LimitTrip, Stepper, StepSegment, StepEmpty
<1>3. CASE RtHold
  BY <1>0, <1>3, HoldEffect
<1>4. CASE RtSystem /\ ~RtHold /\ ~RtStart
  BY <1>0, <1>4 DEF RtSystem, RtNoAlarm, RtAlarm, RtCriticalEnd, RtClearAlarm,
     RtSnapshot, RtHoldClear, RtStartClear, WakeUp, RtStopHold, RtStopMotion,
     RtStopClear, RtOverride, PrepSegment, PrepHoldEnd, PrepReturn, RtReturn
<1>5. CASE SuspendLoop \/ DelayOver
  BY <1>0, <1>5 DEF SuspendLoop, SuspendEnd, SuspendWait, SuspendRetract,
     SuspendSleep, SuspendDoorClosed, SuspendRestore, DelayPass, DelayOver,
     SuspendStopPen, SuspendRestorePen, SuspendPenStopped
<1>6. CASE MainLoop \/ EndOfLine
  BY <1>0, <1>6 DEF MainLoop, InitFlags, ClearedSys, InitReset, StartLoop,
     StartupLine, NoData, BailOrLoop, ReadLine, LineEnd, EndOfLine, Unlock,
     ToggleCheck, RequestSleep, McLine, SoftLimit, SoftHold, SoftReset,
     PlanAbort, PlanFull, PlanLine, JogStart, LineSync, SyncWait, SyncPen,
     SyncPause, SyncEnd
<1> QED  BY <1>1, <1>2, <1>3, <1>4, <1>5, <1>6 DEF Next, Processor

(* A cycle starts, or resumes, from a standstill: neither `~` nor an auto  *)
(* start cuts into the deceleration of a hold.                             *)
THEOREM AlwaysStartsFromStandstill == Spec => StartsFromStandstill
<1> DEFINE Standing == sys.state # "CYCLE" /\ sys'.state = "CYCLE"
                         => ~stepping \/ ResetPending
<1>1. ASSUME TypeOK, HoldInv, [Next]_vars PROVE [Standing]_vars
  <2> SUFFICES ASSUME sys.state # "CYCLE", sys'.state = "CYCLE",
                      stepping, ~ResetPending
               PROVE  FALSE
    BY DEF Standing
  <2>1. RtStart
    BY <1>1, OnlyStart
  <2>2. sys \in Sys /\ SuspendInv
    BY <1>1 DEF TypeOK, HoldInv
  <2>3. pc = "cycleStart" /\ ~Moving(sys)
    BY <2>1, <2>2, StartEffect
  <2> QED  BY <1>1, <2>3 DEF HoldInv, StandInv, Taken, InMotion, ResetPending
<1>2. [][TypeOK /\ HoldInv /\ [Next]_vars]_vars => [][Standing]_vars
  BY <1>1, PTL
<1> QED  BY <1>1, InitHold, StepHold, TypeCorrect, PTL
         DEF Spec, StartsFromStandstill, Standing

-----------------------------------------------------------------------------
(* What TLAPS proves of the pen (protocol.c 560-770): outside a reset it   *)
(* is where the program put it, up to the retractions and stop overrides   *)
(* of a hold that is still on, and nothing but a hold that restarts during *)
(* a delay of the restore (stale) makes an exception.                      *)

(* What the next pass finds: a jog cancel belongs to a jog, a sleep is     *)
(* requested between lines.                                                *)
FlagInv ==
  /\ pc = "hold" =>
       /\ rt_exec \subseteq exec_state /\ rt_exec \cap HoldFlags # {}
       /\ "SLEEP" \in exec_state => "SLEEP" \in rt_exec
  /\ "MOTION_CANCEL" \in exec_state =>
       /\ sys.state # "CYCLE"
       /\ sys.state = "HOLD" => pc = "holdClear"
       /\ pc = "cycleStart" => sys.state = "JOG"
  /\ Undisturbed /\ "JOG_CANCEL" \in sys.suspend => sys.state = "JOG"
  /\ "SLEEP" \in exec_state =>
       /\ pc \notin {"hold", "holdClear"} => sys.suspend = {}
       /\ sys.state \in {"IDLE", "ALARM", "SLEEP"} /\ sub = "none"
       /\ \/ pc \in {"lineEnd", "loop"}
          \/ /\ ctx \in {"idle", "eol"}
             /\ \/ pc \in {"rt", "critical", "clearAlarm", "snap", "hold",
                           "holdClear"}
                \/ sys.abort /\ pc \in {"return", "idle", "eol", "init"}

(* A stop override is under way in a hold; a soft limit may have ended the *)
(* hold, and the program then waits for the motion to end.                 *)
OverrideInv ==
  Undisturbed /\ ~stale =>
    /\ sys.soft_limit => IF AtProgram THEN pc \in {"softHold", "softReset"}
                         ELSE ctx = "softHold"
    /\ sys.state = "ALARM" => sys.spindle_stop_ovr = "DISABLED"
    /\ sys.spindle_stop_ovr # "DISABLED" =>
         /\ "MOTION_CANCEL" \in exec_state => pc = "holdClear"
         /\ sys.suspend \cap {"RETRACT_COMPLETE", "RESTART_RETRACT",
                              "INITIATE_RESTORE", "RESTORE_COMPLETE"} = {}
         /\ \/ sys.state \in {"HOLD", "SAFETY_DOOR"}
            \/ /\ sys.state \in {"IDLE", "CYCLE"} /\ sys.soft_limit
               /\ sys.suspend = {}

(* A restore follows a retraction, and is undone by the next one.          *)
RestoreInv ==
  Undisturbed /\ ~stale =>
    /\ "INITIATE_RESTORE" \in sys.suspend =>
         /\ sys.state = "SAFETY_DOOR" /\ "RETRACT_COMPLETE" \in sys.suspend
    /\ sys.suspend \cap {"RETRACT_COMPLETE", "RESTART_RETRACT"} # {} =>
         /\ sys.state \in {"SAFETY_DOOR", "SLEEP"}
         /\ "HOLD_COMPLETE" \in sys.suspend
    /\ ~({"RETRACT_COMPLETE", "RESTART_RETRACT"} \subseteq sys.suspend)
    /\ sys.state = "ALARM" => sys.suspend = {}
    /\ "RESTORE_COMPLETE" \in sys.suspend => "INITIATE_RESTORE" \in sys.suspend

(* The pen in a hold: lifted by a stop override, or by the retraction.     *)
Overridden == sys.spindle_stop_ovr \in {"ENABLED", "RESTORE", "RESTORE_CYCLE"}
Lifting == /\ line = "penUp"
           /\ IF AtProgram THEN pc = "sync" ELSE ctx = "sync"

(* Every block in the planner is to be drawn with pen position p.          *)
Drawn(p) == \A i \in 1..Len(blocks) : blocks[i].pen = p

PenInv ==
  Undisturbed /\ ~stale /\ sys.state # "CHECK_MODE" =>
    /\ \/ pen = modal
       \/ /\ Lifting /\ pen = "down" /\ modal = "up"
          /\ "RETRACT_COMPLETE" \notin sys.suspend
       \/ /\ pen = "up" /\ modal = "down" /\ "HOLD_COMPLETE" \in sys.suspend
          /\ \/ Overridden
             \/ /\ sys.state \in {"SAFETY_DOOR", "SLEEP"} /\ Retracted
                /\ "RESTORE_COMPLETE" \notin sys.suspend
    /\ Overridden => /\ "HOLD_COMPLETE" \in sys.suspend /\ sub = "loop"
                     /\ sys.state \in {"HOLD", "SAFETY_DOOR"}
    /\ pc = "delay" \/ sub = "delay" => pen = modal
    /\ Drawn(modal)
    /\ sub # "none" => restore = modal
    /\ sys.state = "ALARM" =>
         /\ pen = "up" /\ modal = "up"
         /\ IF AtProgram
            THEN \/ pc \in {"start", "loop", "idle", "eol", "lineEnd"}
                 \/ pc = "execute" /\ line \in {"unlock", "sleep"}
            ELSE ctx \in {"idle", "eol"}

LineInv ==
  sys.state # "CHECK_MODE" /\ pen = "down" => modal = "down" \/ Lifting
-----------------------------------------------------------------------------
(* The end of delay_sec: the restore is flagged complete unless the door   *)
(* has opened again; stale if there is none any more.                      *)
LEMMA DelayEffect ==
  ASSUME DelayOver
  PROVE  ~stale' => /\ ~stale
                    /\ \/ "RESTART_RETRACT" \in sys.suspend
                       \/ "INITIATE_RESTORE" \in sys.suspend
<1>1. stale' = (stale \/ {"RESTART_RETRACT", "INITIATE_RESTORE"}
                           \cap sys.suspend = {})
  BY Zenon DEF DelayOver
<1>2. SUFFICES ASSUME ~stale' PROVE /\ ~stale
                    /\ \/ "RESTART_RETRACT" \in sys.suspend
                       \/ "INITIATE_RESTORE" \in sys.suspend
  OBVIOUS
<1>3. ~stale /\ {"RESTART_RETRACT", "INITIATE_RESTORE"} \cap sys.suspend # {}
  BY <1>1, <1>2, Zenon
<1> QED  BY <1>3

(* Outside a reset the pen goes where it is told, under one nowhere.       *)
LEMMA PenSetDone ==
  /\ Undisturbed => \A p : PenSet(p) = p
  /\ \A p : PenSet(p) \in {pen, p}
BY DEF Undisturbed, ResetPending, PenSet

(* The planner is only ever filled with blocks of the pen in force, and    *)
(* what st_prep_buffer leaves of a block keeps its pen.                    *)
LEMMA DrawnSteps ==
  ASSUME TypeOK
  PROVE  /\ PrepSegment => \A p \in Pen : Drawn(p) => Drawn(p)'
         /\ PlanLine => (Drawn(modal) => Drawn(modal)')
         /\ blocks = << >> => \A p \in Pen : Drawn(p)
         /\ Drawn(modal) => RestoreCondition = modal
         /\ \A p \in Pen : blocks' = << >> => Drawn(p)'
<1> USE DEF TypeOK
<1>1. ASSUME PrepSegment, NEW p \in Pen, Drawn(p) PROVE Drawn(p)'
  <2>1. blocks # << >> /\ Head(blocks) = blocks[1]
    BY <1>1 DEF PrepSegment, PrepBlocked
  <2>2. CASE Head(blocks).left = 1
    <3>1. blocks' = Tail(blocks)
      BY <1>1, <2>2 DEF PrepSegment
    <3> QED  BY <1>1, <2>1, <3>1 DEF Drawn
  <2>3. CASE Head(blocks).left # 1
    <3>1. blocks' = [blocks EXCEPT ![1].left = @ - 1]
      BY <1>1, <2>3 DEF PrepSegment
    <3>2. \A i \in 1..Len(blocks) : blocks[i] \in Block
      OBVIOUS
    <3>3. Len(blocks') = Len(blocks)
      BY <3>1
    <3>4. \A i \in 1..Len(blocks) : blocks'[i].pen = blocks[i].pen
      BY <2>1, <3>1, <3>2 DEF Block
    <3> QED  BY <1>1, <3>3, <3>4 DEF Drawn
  <2> QED  BY <2>2, <2>3
<1>2. ASSUME PlanLine, Drawn(modal) PROVE Drawn(modal)'
  <2>1. PICK n \in 0..BlockUnits :
          blocks' = IF n = 0 THEN blocks
                    ELSE Append(blocks, [left |-> n, pen |-> modal])
    BY <1>2 DEF PlanLine
  <2>2. modal' = modal
    BY <1>2 DEF PlanLine
  <2>3. CASE n = 0
    BY <1>2, <2>1, <2>2, <2>3 DEF Drawn
  <2>4. CASE n # 0
    <3> DEFINE b == [left |-> n, pen |-> modal]
    <3>1. blocks' = Append(blocks, b) /\ b.pen = modal
      BY <2>1, <2>4
    <3>2. b \in Block
      BY <2>4 DEF Block
    <3> HIDE DEF b
    <3> QED  BY <1>2, <2>2, <3>1, <3>2 DEF Drawn
  <2> QED  BY <2>3, <2>4
<1>3. blocks = << >> => \A p \in Pen : Drawn(p)
  BY DEF Drawn
<1>4. Drawn(modal) => RestoreCondition = modal
  BY DEF Drawn, RestoreCondition
<1>5. \A p \in Pen : blocks' = << >> => Drawn(p)'
  BY DEF Drawn
<1> QED  BY <1>1, <1>2, <1>3, <1>4, <1>5
-----------------------------------------------------------------------------
(* Flags are raised in the states that have a use for them.                *)
LEMMA FlagStep ==
  ASSUME TypeOK, ResetInv, SuspendInv, LineKnown, FlagInv, [Next]_vars
  PROVE  FlagInv'
<1> USE DEF ResetInv, SuspendInv, LineKnown, FlagInv, Sys, CheckPoints,
    AtProgram, ClearedSys, HoldFlags, Undisturbed, ResetPending
<1>. /\ sys \in Sys
     /\ ctx \in CheckPoints
  BY StepFacts
<1>1. CASE \/ \E f \in {"CYCLE_START", "FEED_HOLD", "SAFETY_DOOR"} :
                ReceiveFlag(f)
           \/ ReceiveJogCancel \/ ReceiveStopOverride
  BY <1>1 DEF ReceiveFlag, motion, main, harm, ReceiveJogCancel,
     ReceiveStopOverride
<1>2. CASE ReceiveReset \/ LimitTrip
  BY <1>2 DEF ReceiveReset, mc_reset, main, KillsMotion, KillSteppers,
     GoIdle, LimitTrip, mc_reset_with
<1>3. CASE StepSegment \/ StepEmpty
  BY <1>3 DEF StepSegment, main, harm, budget, StepEmpty
<1>4. CASE RtNoAlarm \/ RtAlarm \/ RtCriticalEnd \/ RtClearAlarm
  BY <1>4 DEF RtNoAlarm, Goto, motion, harm, budget, RtAlarm, Critical,
     RtCriticalEnd, RtClearAlarm
<1>5. CASE RtSnapshot
  BY <1>5 DEF RtSnapshot, Goto, AfterSnap, motion, harm, budget, AfterHold,
     AfterStart
<1>6. CASE RtHold
  BY <1>6, HoldEffect
<1>7. CASE RtStart
  BY <1>7, StartEffect
<1>8. CASE RtHoldClear \/ RtStartClear \/ RtStopClear
  BY <1>8 DEF RtHoldClear, Goto, AfterHold, motion, harm, budget, AfterStart,
     RtStartClear, RtStopClear
<1>9. CASE WakeUp
  BY <1>9 DEF WakeUp, Goto, harm, budget
<1>10. CASE RtStopHold
  BY <1>10 DEF RtStopHold, StopsHold, Goto, motion, harm, budget
<1>11. CASE RtStopMotion
  BY <1>11 DEF RtStopMotion, StopsHold, GoIdle, motion, Goto, harm, budget
<1>12. CASE RtOverride
  BY <1>12 DEF RtOverride, Goto, motion, harm, budget
<1>13. CASE PrepSegment \/ PrepHoldEnd \/ PrepReturn
  BY <1>13 DEF PrepSegment, Prepping, PrepBlocked, main, harm, budget,
     PrepHoldEnd, motion, PrepReturn, Goto
<1>14. CASE RtReturn
  BY <1>14, ReturnEffect
<1>15. CASE SuspendEnd \/ SuspendWait \/ DelayPass \/ SuspendDoorClosed \/
    SuspendPenStopped
  BY <1>15 DEF SuspendEnd, motion, harm, budget, SuspendWait, Suspended,
     Stopped, Parked, Goto, DelayPass, SuspendDoorClosed, SuspendPenStopped
<1>16. CASE SuspendRetract
  BY <1>16, PenSetDone DEF SuspendRetract, Stopped, Parked, Goto, motion,
     harm, budget, Suspended
<1>17. CASE SuspendSleep
  BY <1>17, PenSetDone DEF SuspendSleep, Stopped, GoIdle, harm, budget,
     Suspended
<1>18. CASE SuspendRestore
  BY <1>18, PenSetDone DEF SuspendRestore, Stopped, motion, harm, budget,
     Suspended
<1>19. CASE SuspendStopPen
  BY <1>19, PenSetDone DEF SuspendStopPen, Stopped, Parked, Goto, motion,
     harm, budget, Suspended
<1>20. CASE SuspendRestorePen
  BY <1>20, PenSetDone DEF SuspendRestorePen, Stopped, Parked, Goto, motion,
     harm, budget, Suspended
<1>21. CASE DelayOver
  BY <1>21, DelayEffect DEF DelayOver, motion, budget
<1>22. CASE InitFlags \/ InitReset
  BY <1>22 DEF InitFlags, Goto, motion, budget, InitReset, GoIdle, harm
<1>23. CASE StartLoop \/ StartupLine
  BY <1>23 DEF StartLoop, Goto, motion, harm, budget, StartupLine
<1>24. CASE EndOfLine \/ NoData \/ BailOrLoop \/ ReadLine \/ LineEnd
  BY <1>24, AdmittedStates DEF EndOfLine, CheckPoint, motion, harm, NoData,
     AutoCycleStart, budget, BailOrLoop, Goto, ReadLine, LineEnd
<1>25. CASE Unlock \/ ToggleCheck \/ RequestSleep
  BY <1>25 DEF Unlock, Goto, motion, budget, ToggleCheck, mc_reset,
     KillsMotion, KillSteppers, GoIdle, RequestSleep, harm
<1>26. CASE SoftLimit \/ SoftHold \/ SoftReset
  BY <1>26 DEF SoftLimit, CheckPoint, Goto, motion, harm, budget, SoftHold,
     SoftReset, mc_reset_with, KillsMotion, KillSteppers, GoIdle
<1>27. CASE McLine \/ PlanAbort \/ PlanFull \/ PlanLine \/ JogStart
  BY <1>27 DEF McLine, AfterMotion, CheckPoint, motion, harm, budget,
     PlanAbort, PlanFull, plan_check_full_buffer, AutoCycleStart, PlanLine,
     JogStart, Goto
<1>28. CASE LineSync \/ SyncWait \/ SyncPen \/ SyncPause \/ SyncEnd
  BY <1>28, PenSetDone DEF LineSync, PenLine, PenOf, Goto, AutoCycleStart,
     CheckPoint, motion, harm, budget, SyncWait, SyncDone, SyncPen,
     SyncPause, SyncEnd
<1>29. CASE UNCHANGED vars
  BY <1>29 DEF vars, motion, main, harm, budget
<1>. QED  BY <1>1, <1>2, <1>3, <1>4, <1>5, <1>6, <1>7, <1>8, <1>9, <1>10,
    <1>11, <1>12, <1>13, <1>14, <1>15, <1>16, <1>17, <1>18, <1>19, <1>20,
    <1>21, <1>22, <1>23, <1>24, <1>25, <1>26, <1>27, <1>28, <1>29
    DEF Next, Interrupt, Stepper, Processor, RtSystem, SuspendLoop, MainLoop

(* A stop override is over when the hold that it belongs to is.            *)
LEMMA OverrideStep ==
  ASSUME TypeOK, ResetInv, SuspendInv, LineKnown, FlagInv, RestoreInv,
         OverrideInv, [Next]_vars
  PROVE  OverrideInv'
<1> USE DEF ResetInv, SuspendInv, LineKnown, FlagInv, RestoreInv,
    OverrideInv, Sys, AtProgram, ClearedSys, HoldFlags, Undisturbed, State,
    SuspendFlag, StepFlag, StopOverride, ResetPending
<1>. sys \in Sys
  BY StepFacts
<1>1. CASE \/ \E f \in {"CYCLE_START", "FEED_HOLD", "SAFETY_DOOR"} :
                ReceiveFlag(f)
           \/ ReceiveJogCancel \/ ReceiveStopOverride
  BY <1>1 DEF ReceiveFlag, motion, main, harm, ReceiveJogCancel,
     ReceiveStopOverride
<1>2. CASE ReceiveReset \/ LimitTrip
  BY <1>2 DEF ReceiveReset, mc_reset, main, KillsMotion, KillSteppers,
     GoIdle, LimitTrip, mc_reset_with
<1>3. CASE StepSegment \/ StepEmpty
  BY <1>3 DEF StepSegment, main, harm, budget, StepEmpty
<1>4. CASE RtNoAlarm \/ RtAlarm \/ RtCriticalEnd \/ RtClearAlarm
  BY <1>4 DEF RtNoAlarm, Goto, motion, harm, budget, RtAlarm, Critical,
     RtCriticalEnd, RtClearAlarm
<1>5. CASE RtSnapshot
  BY <1>5 DEF RtSnapshot, Goto, AfterSnap, motion, harm, budget, AfterHold,
     AfterStart
<1>6. CASE RtHold
  BY <1>6, HoldEffect
<1>7. CASE RtStart
  BY <1>7, StartEffect
<1>8. CASE RtHoldClear \/ RtStartClear \/ RtStopClear
  BY <1>8 DEF RtHoldClear, Goto, AfterHold, motion, harm, budget, AfterStart,
     RtStartClear, RtStopClear
<1>9. CASE WakeUp
  BY <1>9 DEF WakeUp, Goto, harm, budget
<1>10. CASE RtStopHold
  BY <1>10 DEF RtStopHold, StopsHold, Goto, motion, harm, budget
<1>11. CASE RtStopMotion
  BY <1>11 DEF RtStopMotion, StopsHold, GoIdle, motion, Goto, harm, budget
<1>12. CASE RtOverride
  BY <1>12 DEF RtOverride, Goto, motion, harm, budget
<1>13. CASE PrepSegment \/ PrepHoldEnd \/ PrepReturn
  BY <1>13 DEF PrepSegment, Prepping, PrepBlocked, main, harm, budget,
     PrepHoldEnd, motion, PrepReturn, Goto
<1>14. CASE RtReturn
  BY <1>14, ReturnEffect
<1>15. CASE SuspendEnd \/ SuspendWait \/ DelayPass \/ SuspendDoorClosed \/
    SuspendPenStopped
  BY <1>15 DEF SuspendEnd, motion, harm, budget, SuspendWait, Suspended,
     Stopped, Parked, Goto, DelayPass, SuspendDoorClosed, SuspendPenStopped
<1>16. CASE SuspendRetract
  BY <1>16, PenSetDone DEF SuspendRetract, Stopped, Parked, Goto, motion,
     harm, budget, Suspended
<1>17. CASE SuspendSleep
  BY <1>17, PenSetDone DEF SuspendSleep, Stopped, GoIdle, harm, budget,
     Suspended
<1>18. CASE SuspendRestore
  BY <1>18, PenSetDone DEF SuspendRestore, Stopped, motion, harm, budget,
     Suspended
<1>19. CASE SuspendStopPen
  BY <1>19, PenSetDone DEF SuspendStopPen, Stopped, Parked, Goto, motion,
     harm, budget, Suspended
<1>20. CASE SuspendRestorePen
  BY <1>20, PenSetDone DEF SuspendRestorePen, Stopped, Parked, Goto, motion,
     harm, budget, Suspended
<1>21. CASE DelayOver
  BY <1>21, DelayEffect DEF DelayOver, motion, budget
<1>22. CASE InitFlags \/ InitReset
  BY <1>22 DEF InitFlags, Goto, motion, budget, InitReset, GoIdle, harm
<1>23. CASE StartLoop \/ StartupLine
  BY <1>23 DEF StartLoop, Goto, motion, harm, budget, StartupLine
<1>24. CASE EndOfLine \/ NoData \/ BailOrLoop \/ ReadLine \/ LineEnd
  BY <1>24, AdmittedStates DEF EndOfLine, CheckPoint, motion, harm, NoData,
     AutoCycleStart, budget, BailOrLoop, Goto, ReadLine, LineEnd
<1>25. CASE Unlock \/ ToggleCheck \/ RequestSleep
  BY <1>25 DEF Unlock, Goto, motion, budget, ToggleCheck, mc_reset,
     KillsMotion, KillSteppers, GoIdle, RequestSleep, harm
<1>26. CASE SoftLimit \/ SoftHold \/ SoftReset
  BY <1>26 DEF SoftLimit, CheckPoint, Goto, motion, harm, budget, SoftHold,
     SoftReset, mc_reset_with, KillsMotion, KillSteppers, GoIdle
<1>27. CASE McLine \/ PlanAbort \/ PlanFull \/ PlanLine \/ JogStart
  BY <1>27 DEF McLine, AfterMotion, CheckPoint, motion, harm, budget,
     PlanAbort, PlanFull, plan_check_full_buffer, AutoCycleStart, PlanLine,
     JogStart, Goto
<1>28. CASE LineSync \/ SyncWait \/ SyncPen \/ SyncPause \/ SyncEnd
  BY <1>28, PenSetDone DEF LineSync, PenLine, PenOf, Goto, AutoCycleStart,
     CheckPoint, motion, harm, budget, SyncWait, SyncDone, SyncPen,
     SyncPause, SyncEnd
<1>29. CASE UNCHANGED vars
  BY <1>29 DEF vars, motion, main, harm, budget
<1>. QED  BY <1>1, <1>2, <1>3, <1>4, <1>5, <1>6, <1>7, <1>8, <1>9, <1>10,
    <1>11, <1>12, <1>13, <1>14, <1>15, <1>16, <1>17, <1>18, <1>19, <1>20,
    <1>21, <1>22, <1>23, <1>24, <1>25, <1>26, <1>27, <1>28, <1>29
    DEF Next, Interrupt, Stepper, Processor, RtSystem, SuspendLoop, MainLoop

(* The flags of a retraction and of its restore go together.               *)
LEMMA RestoreStep ==
  ASSUME TypeOK, ResetInv, SuspendInv, FlagInv, RestoreInv, [Next]_vars
  PROVE  RestoreInv'
<1> USE DEF ResetInv, SuspendInv, FlagInv, RestoreInv, Sys, AtProgram,
    ClearedSys, ClosedHeld, HoldFlags, Undisturbed, State, SuspendFlag,
    StepFlag, StopOverride, ResetPending
<1>. sys \in Sys
  BY StepFacts
<1>1. CASE \/ \E f \in {"CYCLE_START", "FEED_HOLD", "SAFETY_DOOR"} :
                ReceiveFlag(f)
           \/ ReceiveJogCancel \/ ReceiveStopOverride
  BY <1>1 DEF ReceiveFlag, motion, main, harm, ReceiveJogCancel,
     ReceiveStopOverride
<1>2. CASE ReceiveReset \/ LimitTrip
  BY <1>2 DEF ReceiveReset, mc_reset, main, KillsMotion, KillSteppers,
     GoIdle, LimitTrip, mc_reset_with
<1>3. CASE StepSegment \/ StepEmpty
  BY <1>3 DEF StepSegment, main, harm, budget, StepEmpty
<1>4. CASE RtNoAlarm \/ RtAlarm \/ RtCriticalEnd \/ RtClearAlarm
  BY <1>4 DEF RtNoAlarm, Goto, motion, harm, budget, RtAlarm, Critical,
     RtCriticalEnd, RtClearAlarm
<1>5. CASE RtSnapshot
  BY <1>5 DEF RtSnapshot, Goto, AfterSnap, motion, harm, budget, AfterHold,
     AfterStart
<1>6. CASE RtHold
  BY <1>6, HoldEffect
<1>7. CASE RtStart
  BY <1>7, StartEffect
<1>8. CASE RtHoldClear \/ RtStartClear \/ RtStopClear
  BY <1>8 DEF RtHoldClear, Goto, AfterHold, motion, harm, budget, AfterStart,
     RtStartClear, RtStopClear
<1>9. CASE WakeUp
  BY <1>9 DEF WakeUp, Goto, harm, budget
<1>10. CASE RtStopHold
  BY <1>10 DEF RtStopHold, StopsHold, Goto, motion, harm, budget
<1>11. CASE RtStopMotion
  BY <1>11 DEF RtStopMotion, StopsHold, GoIdle, motion, Goto, harm, budget
<1>12. CASE RtOverride
  BY <1>12 DEF RtOverride, Goto, motion, harm, budget
<1>13. CASE PrepSegment \/ PrepHoldEnd \/ PrepReturn
  BY <1>13 DEF PrepSegment, Prepping, PrepBlocked, main, harm, budget,
     PrepHoldEnd, motion, PrepReturn, Goto
<1>14. CASE RtReturn
  BY <1>14, ReturnEffect
<1>15. CASE SuspendEnd \/ SuspendWait \/ DelayPass \/ SuspendDoorClosed \/
    SuspendPenStopped
  BY <1>15 DEF SuspendEnd, motion, harm, budget, SuspendWait, Suspended,
     Stopped, Parked, Goto, DelayPass, SuspendDoorClosed, SuspendPenStopped
<1>16. CASE SuspendRetract
  BY <1>16, PenSetDone DEF SuspendRetract, Stopped, Parked, Goto, motion,
     harm, budget, Suspended
<1>17. CASE SuspendSleep
  BY <1>17, PenSetDone DEF SuspendSleep, Stopped, GoIdle, harm, budget,
     Suspended
<1>18. CASE SuspendRestore
  BY <1>18, PenSetDone DEF SuspendRestore, Stopped, motion, harm, budget,
     Suspended
<1>19. CASE SuspendStopPen
  BY <1>19, PenSetDone DEF SuspendStopPen, Stopped, Parked, Goto, motion,
     harm, budget, Suspended
<1>20. CASE SuspendRestorePen
  BY <1>20, PenSetDone DEF SuspendRestorePen, Stopped, Parked, Goto, motion,
     harm, budget, Suspended
<1>21. CASE DelayOver
  BY <1>21, DelayEffect DEF DelayOver, motion, budget
<1>22. CASE InitFlags \/ InitReset
  BY <1>22 DEF InitFlags, Goto, motion, budget, InitReset, GoIdle, harm
<1>23. CASE StartLoop \/ StartupLine
  BY <1>23 DEF StartLoop, Goto, motion, harm, budget, StartupLine
<1>24. CASE EndOfLine \/ NoData \/ BailOrLoop \/ ReadLine \/ LineEnd
  BY <1>24, AdmittedStates DEF EndOfLine, CheckPoint, motion, harm, NoData,
     AutoCycleStart, budget, BailOrLoop, Goto, ReadLine, LineEnd
<1>25. CASE Unlock \/ ToggleCheck \/ RequestSleep
  BY <1>25 DEF Unlock, Goto, motion, budget, ToggleCheck, mc_reset,
     KillsMotion, KillSteppers, GoIdle, RequestSleep, harm
<1>26. CASE SoftLimit \/ SoftHold \/ SoftReset
  BY <1>26 DEF SoftLimit, CheckPoint, Goto, motion, harm, budget, SoftHold,
     SoftReset, mc_reset_with, KillsMotion, KillSteppers, GoIdle
<1>27. CASE McLine \/ PlanAbort \/ PlanFull \/ PlanLine \/ JogStart
  BY <1>27 DEF McLine, AfterMotion, CheckPoint, motion, harm, budget,
     PlanAbort, PlanFull, plan_check_full_buffer, AutoCycleStart, PlanLine,
     JogStart, Goto
<1>28. CASE LineSync \/ SyncWait \/ SyncPen \/ SyncPause \/ SyncEnd
  BY <1>28, PenSetDone DEF LineSync, PenLine, PenOf, Goto, AutoCycleStart,
     CheckPoint, motion, harm, budget, SyncWait, SyncDone, SyncPen,
     SyncPause, SyncEnd
<1>29. CASE UNCHANGED vars
  BY <1>29 DEF vars, motion, main, harm, budget
<1>. QED  BY <1>1, <1>2, <1>3, <1>4, <1>5, <1>6, <1>7, <1>8, <1>9, <1>10,
    <1>11, <1>12, <1>13, <1>14, <1>15, <1>16, <1>17, <1>18, <1>19, <1>20,
    <1>21, <1>22, <1>23, <1>24, <1>25, <1>26, <1>27, <1>28, <1>29
    DEF Next, Interrupt, Stepper, Processor, RtSystem, SuspendLoop, MainLoop

(* The pen differs from the program only where something will restore it.  *)
LEMMA PenStep ==
  ASSUME TypeOK, ResetInv, PassInv, SuspendInv, FreshInv, LineKnown,
         StandInv, FlagInv, OverrideInv, RestoreInv, PenInv, [Next]_vars
  PROVE  PenInv'
<1> USE DEF ResetInv, PassInv, SuspendInv, FreshInv, LineKnown, StandInv,
    FlagInv, OverrideInv, RestoreInv, PenInv, Sys, Pen, PenUpUnderReset,
    Sections, AtProgram, ClearedSys, ClosedHeld, Taken, InMotion, StaleStop,
    HoldFlags, Undisturbed, Lifting, Overridden, Retracted, Drawn, State,
    SuspendFlag, StepFlag, StopOverride, ResetPending, Moving
<1>. /\ sys \in Sys
     /\ pen \in Pen
  BY StepFacts
<1>1. CASE \/ \E f \in {"CYCLE_START", "FEED_HOLD", "SAFETY_DOOR"} :
                ReceiveFlag(f)
           \/ ReceiveJogCancel \/ ReceiveStopOverride
  BY <1>1 DEF ReceiveFlag, motion, main, harm, ReceiveJogCancel,
     ReceiveStopOverride
<1>2. CASE ReceiveReset \/ LimitTrip
  BY <1>2 DEF ReceiveReset, mc_reset, main, KillsMotion, KillSteppers,
     GoIdle, LimitTrip, mc_reset_with
<1>3. CASE StepSegment \/ StepEmpty
  BY <1>3 DEF StepSegment, main, harm, budget, StepEmpty
<1>4. CASE RtNoAlarm \/ RtAlarm \/ RtCriticalEnd \/ RtClearAlarm
  BY <1>4 DEF RtNoAlarm, Goto, motion, harm, budget, RtAlarm, Critical,
     RtCriticalEnd, RtClearAlarm
<1>5. CASE RtSnapshot
  BY <1>5 DEF RtSnapshot, Goto, AfterSnap, motion, harm, budget, AfterHold,
     AfterStart
<1>6. CASE RtHold
  BY <1>6, HoldEffect
<1>7. CASE RtStart
  BY <1>7, StartEffect
<1>8. CASE RtHoldClear \/ RtStartClear \/ RtStopClear
  BY <1>8 DEF RtHoldClear, Goto, AfterHold, motion, harm, budget, AfterStart,
     RtStartClear, RtStopClear
<1>9. CASE WakeUp
  BY <1>9 DEF WakeUp, Goto, harm, budget
<1>10. CASE RtStopHold
  BY <1>10 DEF RtStopHold, StopsHold, Goto, motion, harm, budget
<1>11. CASE RtStopMotion
  BY <1>11 DEF RtStopMotion, StopsHold, GoIdle, motion, Goto, harm, budget
<1>12. CASE RtOverride
  BY <1>12 DEF RtOverride, Goto, motion, harm, budget
<1>13. CASE PrepSegment \/ PrepHoldEnd \/ PrepReturn
  BY <1>13, DrawnSteps DEF PrepSegment, Prepping, PrepBlocked, main, harm,
     budget, PrepHoldEnd, motion, PrepReturn, Goto
<1>14. CASE RtReturn
  BY <1>14, ReturnEffect, DrawnSteps
<1>15. CASE SuspendEnd \/ SuspendWait \/ DelayPass \/ SuspendDoorClosed \/
    SuspendPenStopped
  BY <1>15 DEF SuspendEnd, motion, harm, budget, SuspendWait, Suspended,
     Stopped, Parked, Goto, DelayPass, SuspendDoorClosed, SuspendPenStopped
<1>16. CASE SuspendRetract
  BY <1>16, PenSetDone DEF SuspendRetract, Stopped, Parked, Goto, motion,
     harm, budget, Suspended
<1>17. CASE SuspendSleep
  BY <1>17, PenSetDone DEF SuspendSleep, Stopped, GoIdle, harm, budget,
     Suspended
<1>18. CASE SuspendRestore
  BY <1>18, PenSetDone DEF SuspendRestore, Stopped, motion, harm, budget,
     Suspended
<1>19. CASE SuspendStopPen
  BY <1>19, PenSetDone DEF SuspendStopPen, Stopped, Parked, Goto, motion,
     harm, budget, Suspended
<1>20. CASE SuspendRestorePen
  BY <1>20, PenSetDone DEF SuspendRestorePen, Stopped, Parked, Goto, motion,
     harm, budget, Suspended
<1>21. CASE DelayOver
  BY <1>21, DelayEffect DEF DelayOver, motion, budget
<1>22. CASE InitFlags \/ InitReset
  BY <1>22 DEF InitFlags, Goto, motion, budget, InitReset, GoIdle, harm
<1>23. CASE StartLoop \/ StartupLine
  BY <1>23 DEF StartLoop, Goto, motion, harm, budget, StartupLine
<1>24. CASE EndOfLine \/ NoData \/ BailOrLoop \/ ReadLine \/ LineEnd
  BY <1>24, AdmittedStates DEF EndOfLine, CheckPoint, motion, harm, NoData,
     AutoCycleStart, budget, BailOrLoop, Goto, ReadLine, LineEnd
<1>25. CASE Unlock \/ ToggleCheck \/ RequestSleep
  BY <1>25 DEF Unlock, Goto, motion, budget, ToggleCheck, mc_reset,
     KillsMotion, KillSteppers, GoIdle, RequestSleep, harm
<1>26. CASE SoftLimit \/ SoftHold \/ SoftReset
  BY <1>26 DEF SoftLimit, CheckPoint, Goto, motion, harm, budget, SoftHold,
     SoftReset, mc_reset_with, KillsMotion, KillSteppers, GoIdle
<1>27. CASE McLine
  BY <1>27 DEF McLine, AfterMotion, CheckPoint, motion, harm, budget
<1>28. CASE PlanAbort
  BY <1>28 DEF PlanAbort, AfterMotion, motion, harm, budget
<1>29. CASE PlanFull
  BY <1>29 DEF PlanFull, plan_check_full_buffer, AutoCycleStart, CheckPoint,
     motion, harm, budget
<1>30. CASE PlanLine
  BY <1>30, DrawnSteps DEF PlanLine, plan_check_full_buffer, AfterMotion,
     harm, budget
<1>31. CASE JogStart
  BY <1>31 DEF JogStart, Goto, motion, harm, budget
<1>32. CASE LineSync \/ SyncWait \/ SyncPen \/ SyncPause \/ SyncEnd
  BY <1>32, PenSetDone DEF LineSync, PenLine, PenOf, Goto, AutoCycleStart,
     CheckPoint, motion, harm, budget, SyncWait, SyncDone, SyncPen,
     SyncPause, SyncEnd
<1>33. CASE UNCHANGED vars
  BY <1>33 DEF vars, motion, main, harm, budget
<1>. QED  BY <1>1, <1>2, <1>3, <1>4, <1>5, <1>6, <1>7, <1>8, <1>9, <1>10,
    <1>11, <1>12, <1>13, <1>14, <1>15, <1>16, <1>17, <1>18, <1>19, <1>20,
    <1>21, <1>22, <1>23, <1>24, <1>25, <1>26, <1>27, <1>28, <1>29, <1>30,
    <1>31, <1>32, <1>33
    DEF Next, Interrupt, Stepper, Processor, RtSystem, SuspendLoop, MainLoop

(* A pen that is down is down for the program.                             *)
LEMMA LineStep ==
  ASSUME TypeOK, ResetInv, PassInv, SuspendInv, FreshInv, LineKnown,
         StandInv, FlagInv, LineInv, [Next]_vars
  PROVE  LineInv'
<1> USE DEF ResetInv, PassInv, SuspendInv, FreshInv, LineKnown, StandInv,
    FlagInv, LineInv, Sys, CheckPoints, Pen, PenUpUnderReset, Sections,
    AtProgram, ClearedSys, ClosedHeld, Taken, InMotion, StaleStop, HoldFlags,
    Undisturbed, Lifting, State, SuspendFlag, StepFlag, StopOverride,
    ResetPending, Moving
<1>. /\ sys \in Sys
     /\ sys' \in Sys
     /\ ctx \in CheckPoints
     /\ modal \in Pen
     /\ pen \in Pen
     /\ sub \in {"none", "loop", "sleep", "delay"}
     /\ stepping' => stepping \/
          /\ pc \in {"startWake", "jogWake"}
          /\ pc' \in {"startClear", "lineEnd"}
  BY StepFacts
<1>1. CASE \/ \E f \in {"CYCLE_START", "FEED_HOLD", "SAFETY_DOOR"} :
                ReceiveFlag(f)
           \/ ReceiveJogCancel \/ ReceiveStopOverride
  BY <1>1 DEF ReceiveFlag, motion, main, harm, ReceiveJogCancel,
     ReceiveStopOverride
<1>2. CASE ReceiveReset \/ LimitTrip
  BY <1>2 DEF ReceiveReset, mc_reset, main, KillsMotion, KillSteppers,
     GoIdle, LimitTrip, mc_reset_with
<1>3. CASE StepSegment \/ StepEmpty
  BY <1>3 DEF StepSegment, main, harm, budget, StepEmpty
<1>4. CASE RtNoAlarm \/ RtAlarm \/ RtCriticalEnd \/ RtClearAlarm
  BY <1>4 DEF RtNoAlarm, Goto, motion, harm, budget, RtAlarm, Critical,
     RtCriticalEnd, RtClearAlarm
<1>5. CASE RtSnapshot
  BY <1>5 DEF RtSnapshot, Goto, AfterSnap, motion, harm, budget, AfterHold,
     AfterStart
<1>6. CASE RtHold
  BY <1>6, HoldEffect
<1>7. CASE RtStart
  BY <1>7, StartEffect
<1>8. CASE RtHoldClear \/ RtStartClear \/ RtStopClear
  BY <1>8 DEF RtHoldClear, Goto, AfterHold, motion, harm, budget, AfterStart,
     RtStartClear, RtStopClear
<1>9. CASE WakeUp
  BY <1>9 DEF WakeUp, Goto, harm, budget
<1>10. CASE RtStopHold
  BY <1>10 DEF RtStopHold, StopsHold, Goto, motion, harm, budget
<1>11. CASE RtStopMotion
  BY <1>11 DEF StopsHold, Goto, motion, harm, budget, RtStopMotion, GoIdle
<1>12. CASE RtOverride
  BY <1>12 DEF RtOverride, Goto, motion, harm, budget
<1>13. CASE PrepSegment \/ PrepHoldEnd \/ PrepReturn
  BY <1>13 DEF PrepSegment, Prepping, PrepBlocked, main, harm, budget,
     PrepHoldEnd, motion, PrepReturn, Goto
<1>14. CASE RtReturn
  BY <1>14, ReturnEffect
<1>15. CASE SuspendEnd \/ SuspendWait \/ DelayPass \/ SuspendDoorClosed \/
    SuspendPenStopped
  BY <1>15 DEF SuspendEnd, motion, harm, budget, SuspendWait, Suspended,
     Stopped, Parked, Goto, DelayPass, SuspendDoorClosed, SuspendPenStopped
<1>16. CASE SuspendRetract
  BY <1>16, PenSetDone DEF SuspendRetract, Stopped, Parked, Goto, motion,
     harm, budget, Suspended
<1>17. CASE SuspendSleep
  BY <1>17, PenSetDone DEF Stopped, harm, budget, Suspended, SuspendSleep,
     GoIdle
<1>18. CASE SuspendRestore
  BY <1>18, PenSetDone DEF Stopped, motion, harm, budget, Suspended,
     SuspendRestore
<1>19. CASE SuspendStopPen
  BY <1>19, PenSetDone DEF Stopped, Parked, Goto, motion, harm, budget,
     Suspended, SuspendStopPen
<1>20. CASE SuspendRestorePen
  BY <1>20, PenSetDone DEF Stopped, Parked, Goto, motion, harm, budget,
     Suspended, SuspendRestorePen
<1>21. CASE DelayOver
  BY <1>21, DelayEffect DEF DelayOver, motion, budget
<1>22. CASE InitFlags \/ InitReset
  BY <1>22 DEF InitFlags, Goto, motion, budget, InitReset, GoIdle, harm
<1>23. CASE StartLoop \/ StartupLine
  BY <1>23 DEF StartLoop, Goto, motion, harm, budget, StartupLine
<1>24. CASE EndOfLine \/ NoData \/ BailOrLoop \/ ReadLine \/ LineEnd
  BY <1>24, AdmittedStates DEF EndOfLine, CheckPoint, motion, harm, NoData,
     AutoCycleStart, budget, BailOrLoop, Goto, ReadLine, LineEnd
<1>25. CASE Unlock \/ ToggleCheck \/ RequestSleep
  BY <1>25 DEF Unlock, Goto, motion, budget, ToggleCheck, mc_reset,
     KillsMotion, KillSteppers, GoIdle, RequestSleep, harm
<1>26. CASE SoftLimit \/ SoftHold \/ SoftReset
  BY <1>26 DEF SoftLimit, CheckPoint, Goto, motion, harm, budget, SoftHold,
     SoftReset, mc_reset_with, KillsMotion, KillSteppers, GoIdle
<1>27. CASE McLine \/ PlanAbort \/ PlanFull \/ PlanLine \/ JogStart
  BY <1>27 DEF McLine, AfterMotion, CheckPoint, motion, harm, budget,
     PlanAbort, PlanFull, plan_check_full_buffer, AutoCycleStart, PlanLine,
     JogStart, Goto
<1>28. CASE LineSync \/ SyncWait \/ SyncPen \/ SyncPause \/ SyncEnd
  BY <1>28, PenSetDone DEF LineSync, PenLine, PenOf, Goto, AutoCycleStart,
     CheckPoint, motion, harm, budget, SyncWait, SyncDone, SyncPen,
     SyncPause, SyncEnd
<1>29. CASE UNCHANGED vars
  BY <1>29 DEF vars, motion, main, harm, budget
<1>. QED  BY <1>1, <1>2, <1>3, <1>4, <1>5, <1>6, <1>7, <1>8, <1>9, <1>10,
    <1>11, <1>12, <1>13, <1>14, <1>15, <1>16, <1>17, <1>18, <1>19, <1>20,
    <1>21, <1>22, <1>23, <1>24, <1>25, <1>26, <1>27, <1>28, <1>29
    DEF Next, Interrupt, Stepper, Processor, RtSystem, SuspendLoop, MainLoop
-----------------------------------------------------------------------------
(* With what is known of a hold they are inductive ...                     *)
DrawInv == /\ FlagInv /\ OverrideInv /\ RestoreInv /\ PenInv /\ LineInv

(* ... hold at power-up ...                                                *)
LEMMA InitDraw == Init => DrawInv
<1> SUFFICES ASSUME Init PROVE DrawInv
  OBVIOUS
<1>1. PICK s \in {"IDLE", "ALARM"} : sys = ClearedSys(s)
  BY DEF Init
<1>2. /\ exec_state = {} /\ blocks = << >> /\ pen = "up" /\ modal = "up"
      /\ pc = "init" /\ sub = "none" /\ sys.suspend = {}
  BY <1>1 DEF Init, ClearedSys
<1>3. FlagInv /\ OverrideInv
  BY <1>2 DEF FlagInv, OverrideInv, Undisturbed
<1>4. RestoreInv /\ PenInv /\ LineInv
  BY <1>2 DEF RestoreInv, PenInv, LineInv, Undisturbed
<1> QED  BY <1>3, <1>4 DEF DrawInv

(* ... and in every step.                                                  *)
LEMMA StepDraw ==
  ASSUME TypeOK, HoldInv, DrawInv, [Next]_vars
  PROVE  DrawInv'
<1>1. FlagInv' /\ OverrideInv' /\ RestoreInv'
  BY FlagStep, OverrideStep, RestoreStep DEF HoldInv, DrawInv
<1>2. PenInv' /\ LineInv'
  BY PenStep, LineStep DEF HoldInv, DrawInv
<1> QED  BY <1>1, <1>2 DEF DrawInv

(* Between lines the pen is where the program put it, whatever holds, stop *)
(* overrides and door cycles came in between; and it is never left down by *)
(* a program that has lifted it.                                           *)
THEOREM PenAlwaysMatches == Spec => []PenMatchesProgram
<1>1. ASSUME HoldInv, DrawInv PROVE PenMatchesProgram
  <2>1. ASSUME ~stale, sys.state \in {"CYCLE", "JOG", "IDLE"}, AtCheckPoint,
               ~ResetPending
        PROVE  pen = modal \/ (line = "penUp" /\ pen = "down")
    <3>1. Undisturbed /\ AtProgram
      BY <2>1 DEF Undisturbed, AtProgram, AtCheckPoint
    <3>2. sys.suspend = {}
      BY <1>1, <2>1, <3>1 DEF HoldInv, SuspendInv, ResetPending
    <3> QED  BY <1>1, <2>1, <3>1, <3>2 DEF DrawInv, PenInv, Lifting
  <2>2. pen = "down" /\ sys.state # "CHECK_MODE"
          => modal = "down" \/ line = "penUp"
    BY <1>1 DEF DrawInv, LineInv, Lifting
  <2> QED  BY <2>1, <2>2 DEF PenMatchesProgram, PenIsModal
<1> QED  BY <1>1, InitHold, StepHold, InitDraw, StepDraw, TypeCorrect, PTL
         DEF Spec
=============================================================================

------------------------------ MODULE Segments ------------------------------
(***************************************************************************)
(* From planned blocks to step pulses (stepper.c): st_prep_buffer cuts the *)
(* blocks into segments, and the stepper interrupt executes the segments   *)
(* with the Bresenham algorithm and AMASS, pulses the two motors of the X  *)
(* axis and that of the Y axis, and counts sys_position.                   *)
(*                                                                         *)
(* The interrupt may fall between any two accesses of st_prep_buffer to    *)
(* what they share: the ring of segments and the ring of block data the    *)
(* segments point to.  It is never itself interrupted by the main program. *)
(* How many steps a segment has, and how slow it is, is left open (Planner *)
(* has the speeds), and so is when the queue is planned anew.              *)
(***************************************************************************)
EXTENDS Integers, Sequences, FiniteSets

CONSTANTS SegmentBufferSize,     \* SEGMENT_BUFFER_SIZE
          BlockSlots,            \* planner blocks (BLOCK_BUFFER_SIZE - 1)
          MaxAmassLevel,         \* MAX_AMASS_LEVEL
          Moves,                 \* the moves of blocks: signed steps of X and Y
          MaxBlocks,             \* blocks queued in a behaviour
          MaxResets              \* resets in a behaviour

Axis == {"X", "Y"}

ASSUME SegmentsAssumption ==
  /\ SegmentBufferSize \in Nat /\ SegmentBufferSize > 2
  /\ BlockSlots \in Nat \ {0} /\ MaxAmassLevel \in Nat \ {0} /\ MaxBlocks \in Nat
  /\ MaxResets \in Nat
  /\ Moves \subseteq [Axis -> Int]
  /\ \A m \in Moves : m["X"] # 0 \/ m["Y"] # 0

SegmentIndex == 0..SegmentBufferSize - 1
StBlockIndex == 0..SegmentBufferSize - 2
NULL == SegmentBufferSize        \* st.exec_segment: no segment

VARIABLES
  blocks,          \* planner queue: moves with the position they end at
  pl_position,     \* pl.position
  pl_block,        \* st_prep_buffer is working on the first block
  prep,            \* st_block_index, recalculate_flag, steps_remaining
  segment_buffer, segment_buffer_tail, segment_buffer_head, segment_next_head,
  st_block_buffer,
  st,              \* the stepper_t struct
  stepping,        \* the interrupt is enabled (OCIE1A)
  sys_position,
  motor,           \* pulses put out to the motors X, X2 and Y, signed
  goal,            \* history: where the block in execution ends
  state, step_control, hold_complete, cycle_stop,
  pc,              \* where the main program is in st_prep_buffer
  wake,            \* st_wake_up is to follow
  reset,           \* "none", or how mc_reset found the machine
  missed,          \* history: steps counted that a reset cut off from their pulse
  queued, resets   \* bounds: blocks queued, resets done

planner == <<blocks, pl_position>>
segments == <<segment_buffer, segment_buffer_tail, segment_buffer_head,
              segment_next_head, st_block_buffer>>
machine == <<st, stepping, sys_position, motor, goal, cycle_stop>>
control == <<state, hold_complete, missed, queued, resets>>
vars == <<blocks, pl_position, pl_block, prep, segment_buffer,
          segment_buffer_tail, segment_buffer_head, segment_next_head,
          st_block_buffer, st, stepping, sys_position, motor, goal, state,
          step_control, hold_complete, cycle_stop, pc, wake, reset, missed,
          queued, resets>>

(* What a shift to the left by n multiplies by.                            *)
Pow2[n \in 0..MaxAmassLevel] == IF n = 0 THEN 1 ELSE 2 * Pow2[n - 1]

Abs(n) == IF n < 0 THEN -n ELSE n
Sign(n) == IF n < 0 THEN -1 ELSE 1

(* step_event_count of a move.                                             *)
Events(m) == IF Abs(m["X"]) > Abs(m["Y"]) THEN Abs(m["X"]) ELSE Abs(m["Y"])

Plus(p, m) == [a \in Axis |-> p[a] + m[a]]
Origin == [a \in Axis |-> 0]
AtRest == [X |-> 0, X2 |-> 0, Y |-> 0]

NextSegment(i) == IF i + 1 = SegmentBufferSize THEN 0 ELSE i + 1
NextBlockShort(i) == IF i >= SegmentBufferSize - 3 THEN 0 ELSE i + 1 \* mutant: a slot short
st_next_block_index(i) == IF i + 1 = SegmentBufferSize - 1 THEN 0 ELSE i + 1

ClearedPrep == [st_block_index |-> 0, recalculate |-> FALSE, steps_remaining |-> 0]
ClearedSt == [exec_segment |-> NULL, step_count |-> 0, exec_block_index |-> 0,
              level |-> 0, counter |-> Origin, step_outbits |-> {},
              step_outbits_dual |-> FALSE, dir_outbits |-> [a \in Axis |-> 1]]
NoSegment == [n_step |-> 0, st_block_index |-> 0, amass_level |-> 0]

Init ==
  /\ blocks = << >> /\ pl_position = Origin
  /\ pl_block = FALSE /\ prep = ClearedPrep
  /\ segment_buffer = [i \in SegmentIndex |-> NoSegment]
  /\ segment_buffer_tail = 0 /\ segment_buffer_head = 0 /\ segment_next_head = 1
  /\ st_block_buffer = [i \in StBlockIndex |-> Origin]
  /\ st = ClearedSt /\ stepping = FALSE
  /\ sys_position = Origin
  /\ motor = AtRest /\ goal = Origin
  /\ state = "IDLE" /\ step_control = {} /\ hold_complete = FALSE
  /\ cycle_stop = FALSE
  /\ pc = "idle" /\ wake = FALSE
  /\ reset = "none" /\ missed = Origin /\ queued = 0 /\ resets = 0

-----------------------------------------------------------------------------
(* The stepper interrupt, TIMER1_COMPA.                                    *)

(* What it puts out first: the steps computed by the one before.           *)
Pulsed ==
  [X |-> motor.X + (IF "X" \in st.step_outbits THEN st.dir_outbits["X"] ELSE 0),
   X2 |-> motor.X2 + (IF st.step_outbits_dual THEN st.dir_outbits["X"] ELSE 0),
   Y |-> motor.Y + (IF "Y" \in st.step_outbits THEN st.dir_outbits["Y"] ELSE 0)]

Popped == segment_buffer[segment_buffer_tail]

(* st with the segment at the tail taken up.                               *)
LoadKeepsCounters ==      \* mutant: counters not set anew with a block
  LET b == st_block_buffer[Popped.st_block_index]
  IN  [st EXCEPT !.exec_segment = segment_buffer_tail, !.step_count = Popped.n_step,
                 !.level = Popped.amass_level, !.exec_block_index = Popped.st_block_index,
                 !.dir_outbits = [a \in Axis |-> Sign(b[a])]]
LoadSegment ==
  LET new == st.exec_block_index # Popped.st_block_index
      b == st_block_buffer[Popped.st_block_index]
  IN  [st EXCEPT !.exec_segment = segment_buffer_tail,
                 !.step_count = Popped.n_step,
                 !.level = Popped.amass_level,
                 !.exec_block_index = Popped.st_block_index,
                 !.counter = IF new THEN [a \in Axis |-> (Events(b) * Pow2[MaxAmassLevel]) \div 2]
                             ELSE @,
                 !.dir_outbits = [a \in Axis |-> Sign(b[a])]]

(* One tick of the Bresenham algorithm.                                    *)
Tick(s) ==
  LET b == st_block_buffer[s.exec_block_index]
      count == Events(b) * Pow2[MaxAmassLevel]
      sum(a) == s.counter[a] + (Abs(b[a]) * Pow2[MaxAmassLevel]) \div Pow2[s.level]
      steps == {a \in Axis : sum(a) > count}
      last == s.step_count = 1
  IN  /\ st' = [s EXCEPT !.counter = [a \in Axis |-> IF a \in steps THEN sum(a) - count
                                                     ELSE sum(a)],
                         !.step_outbits = steps,
                         !.step_outbits_dual = "X" \in steps,
                         !.step_count = @ - 1,
                         !.exec_segment = IF last THEN NULL ELSE @]
      /\ sys_position' = [a \in Axis |-> IF a \in steps THEN sys_position[a] + Sign(b[a])
                                         ELSE sys_position[a]]
      /\ segment_buffer_tail' = IF last THEN NextSegment(segment_buffer_tail)
                                ELSE segment_buffer_tail

StepperTick ==
  /\ stepping
  /\ motor' = Pulsed
  /\ IF st.exec_segment # NULL THEN Tick(st) /\ UNCHANGED goal
     ELSE /\ segment_buffer_head # segment_buffer_tail
          /\ Tick(LoadSegment)
          /\ goal' = IF Popped.st_block_index = st.exec_block_index THEN goal
                     ELSE Plus(goal, st_block_buffer[Popped.st_block_index])
  /\ UNCHANGED <<planner, pl_block, prep, segment_buffer, segment_buffer_head,
                 segment_next_head, st_block_buffer, stepping, control,
                 step_control, cycle_stop, pc, wake, reset>>

StepperEmptySilent ==     \* mutant: the main program is not told
  /\ stepping
  /\ st.exec_segment = NULL /\ segment_buffer_head = segment_buffer_tail
  /\ motor' = Pulsed /\ stepping' = FALSE
  /\ UNCHANGED <<planner, pl_block, prep, segments, st, sys_position, goal, cycle_stop,
                 control, step_control, pc, wake, reset>>
(* No segment left: st_go_idle.                                            *)
StepperEmpty ==
  /\ stepping
  /\ st.exec_segment = NULL /\ segment_buffer_head = segment_buffer_tail
  /\ motor' = Pulsed
  /\ stepping' = FALSE
  /\ cycle_stop' = TRUE
  /\ UNCHANGED <<planner, pl_block, prep, segments, st, sys_position, goal,
                 control, step_control, pc, wake, reset>>

-----------------------------------------------------------------------------
(* st_prep_buffer.                                                         *)

Goto(p) == pc' = p /\ UNCHANGED <<wake, reset>>

Holding == "EXECUTE_HOLD" \in step_control
Ended == "END_MOTION" \in step_control

WakeUpKeepsBits == stepping' = TRUE /\ UNCHANGED st       \* mutant: bits not cleared
st_wake_up ==
  /\ stepping' = TRUE
  /\ st' = [st EXCEPT !.step_outbits = {}]

PrepReturn ==
  /\ pc' = "idle" /\ wake' = FALSE /\ UNCHANGED reset
  /\ IF wake THEN st_wake_up ELSE UNCHANGED <<st, stepping>>

(* Room for a segment, and a block to take it from.                        *)
PrepCheck ==
  /\ pc = "check"
  /\ IF Ended \/ segment_buffer_tail = segment_next_head \/ (~pl_block /\ blocks = << >>)
     THEN PrepReturn
     ELSE Goto("load") /\ UNCHANGED <<st, stepping>>
  /\ UNCHANGED <<planner, pl_block, prep, segments, sys_position, motor, goal,
                 control, step_control, cycle_stop>>

PrepLoad ==
  /\ pc = "load"
  /\ pl_block' = TRUE
  /\ LET i == st_next_block_index(prep.st_block_index)
     IN  IF pl_block \/ prep.recalculate
         THEN /\ prep' = [prep EXCEPT !.recalculate = FALSE]
              /\ UNCHANGED st_block_buffer
         ELSE /\ prep' = [prep EXCEPT !.st_block_index = i,
                                      !.steps_remaining = Events(Head(blocks))]
              /\ st_block_buffer' = [st_block_buffer EXCEPT ![i] = Head(blocks)]
  /\ Goto("fill")
  /\ UNCHANGED <<planner, segment_buffer, segment_buffer_tail, segment_buffer_head,
                 segment_next_head, machine, control, step_control>>

(* A segment of n steps, smoothed to an AMASS level.                       *)
PrepFill(n, level) ==
  /\ pc = "fill"
  /\ n <= prep.steps_remaining
  /\ segment_buffer' = [segment_buffer EXCEPT ![segment_buffer_head] =
                          [n_step |-> n * Pow2[level], amass_level |-> level,
                           st_block_index |-> prep.st_block_index]]
  /\ prep' = [prep EXCEPT !.steps_remaining = @ - n]
  /\ Goto("publish")
  /\ UNCHANGED <<planner, pl_block, segment_buffer_tail, segment_buffer_head,
                 segment_next_head, st_block_buffer, machine, control, step_control>>

PrepNoStepFills ==        \* mutant: a segment of no step
  /\ pc = "fill" /\ Holding
  /\ segment_buffer' = [segment_buffer EXCEPT ![segment_buffer_head] =
                          [n_step |-> 0, amass_level |-> 0,
                           st_block_index |-> prep.st_block_index]]
  /\ Goto("publish")
  /\ UNCHANGED <<planner, pl_block, prep, segment_buffer_tail, segment_buffer_head,
                 segment_next_head, st_block_buffer, machine, control, step_control>>
(* A hold that ends with less than a step to go: no segment.               *)
PrepNoStep ==
  /\ pc = "fill" /\ Holding
  /\ step_control' = step_control \cup {"END_MOTION"}
  /\ PrepReturn
  /\ UNCHANGED <<planner, pl_block, prep, segments, sys_position, motor, goal,
                 control, cycle_stop>>

Publish ==
  /\ segment_buffer_head' = segment_next_head
  /\ segment_next_head' = NextSegment(segment_next_head)

(* The block is done, or goes on.                                          *)
PrepPublish ==
  /\ pc = "publish"
  /\ Publish
  /\ IF prep.steps_remaining = 0
     THEN pl_block' = FALSE /\ blocks' = Tail(blocks)
     ELSE UNCHANGED <<pl_block, blocks>>
  /\ Goto("check")
  /\ UNCHANGED <<pl_position, prep, segment_buffer, segment_buffer_tail,
                 st_block_buffer, machine, control, step_control>>

(* A hold that ends within the block.                                      *)
PrepForcedEnd ==
  /\ pc = "publish" /\ Holding /\ prep.steps_remaining > 0
  /\ Publish
  /\ step_control' = step_control \cup {"END_MOTION"}
  /\ PrepReturn
  /\ UNCHANGED <<planner, pl_block, prep, segment_buffer, segment_buffer_tail,
                 st_block_buffer, sys_position, motor, goal, control, cycle_stop>>

-----------------------------------------------------------------------------
(* The main program outside st_prep_buffer.                                *)

AtLoop == pc = "idle" /\ reset = "none"

st_update_plan_block_parameters ==
  /\ pl_block' = FALSE
  /\ prep' = IF pl_block THEN [prep EXCEPT !.recalculate = TRUE] ELSE prep

(* plan_buffer_line; the plan may change the block in execution.           *)
Queue(m) ==
  /\ AtLoop /\ state \in {"IDLE", "CYCLE"}
  /\ Len(blocks) < BlockSlots /\ queued < MaxBlocks
  /\ queued' = queued + 1
  /\ pl_position' = Plus(pl_position, m)
  /\ blocks' = Append(blocks, m)
  /\ st_update_plan_block_parameters \/ UNCHANGED <<pl_block, prep>>
  /\ UNCHANGED <<segments, machine, state, step_control, hold_complete, pc, wake,
                 reset, missed, resets>>

(* plan_cycle_reinitialize for an override.                                *)
Replan ==
  /\ AtLoop
  /\ st_update_plan_block_parameters
  /\ UNCHANGED <<planner, segments, machine, control, step_control, pc, wake, reset>>

CallPrep ==
  /\ AtLoop /\ state \in {"CYCLE", "HOLD"}
  /\ pc' = "check" /\ UNCHANGED <<wake, reset>>
  /\ UNCHANGED <<planner, pl_block, prep, segments, machine, control, step_control>>

FeedHold ==
  /\ AtLoop
  /\ \/ /\ state = "CYCLE"
        /\ step_control' = {"EXECUTE_HOLD"} /\ UNCHANGED hold_complete
        /\ st_update_plan_block_parameters
     \/ /\ state = "IDLE"
        /\ hold_complete' = TRUE
        /\ UNCHANGED <<step_control, pl_block, prep>>
  /\ state' = "HOLD"
  /\ UNCHANGED <<planner, segments, machine, pc, wake, reset, missed, queued, resets>>

CycleStop ==
  /\ AtLoop /\ cycle_stop
  /\ cycle_stop' = FALSE
  /\ IF state = "HOLD"
     THEN /\ st_update_plan_block_parameters
          /\ hold_complete' = (hold_complete \/ Holding)
          /\ step_control' = step_control \ {"EXECUTE_HOLD"}
          /\ UNCHANGED state
     ELSE /\ state' = "IDLE" /\ hold_complete' = FALSE
          /\ UNCHANGED <<pl_block, prep, step_control>>
  /\ UNCHANGED <<planner, segments, st, stepping, sys_position, motor, goal, pc,
                 wake, reset, missed, queued, resets>>

(* A pass that has read the flags and finds a cycle start among them.      *)
CycleStart ==
  /\ AtLoop
  /\ state = "IDLE" \/ (state = "HOLD" /\ hold_complete)
  /\ step_control' = {}
  /\ IF blocks # << >>
     THEN pc' = "start" /\ UNCHANGED <<state, hold_complete>>
     ELSE state' = "IDLE" /\ hold_complete' = FALSE /\ UNCHANGED pc
  /\ UNCHANGED <<planner, pl_block, prep, segments, machine, wake, reset, missed,
                 queued, resets>>

(* ... sets the state and goes on to st_prep_buffer and st_wake_up, without *)
(* a look at what has been flagged since.                                  *)
BeginCycle ==
  /\ pc = "start"
  /\ state' = "CYCLE" /\ hold_complete' = FALSE
  /\ pc' = "check" /\ wake' = TRUE
  /\ UNCHANGED <<planner, pl_block, prep, segments, machine, step_control, reset,
                 missed, queued, resets>>

-----------------------------------------------------------------------------
(* Reset.                                                                  *)

InMotion == state = "CYCLE" \/ Holding

(* ^X, in the serial interrupt: it may fall anywhere in st_prep_buffer, and *)
(* while a cycle starts, where it finds no motion to stop.                 *)
mc_reset ==
  /\ reset = "none" /\ resets < MaxResets
  /\ resets' = resets + 1
  /\ reset' = IF InMotion THEN "alarm" ELSE IF pc = "start" THEN "starting" ELSE "quiet"
  /\ stepping' = (stepping /\ ~InMotion)
  /\ UNCHANGED <<planner, pl_block, prep, segments, st, sys_position, motor, goal,
                 cycle_stop, state, hold_complete, missed, queued, step_control, pc,
                 wake>>

(* main.c: plan_reset, st_reset and plan_sync_position.  After an alarm the *)
(* position is unknown until homing finds it (external).  st_reset cuts off *)
(* the step that is counted and waits for the next interrupt.              *)
Reinit ==
  /\ reset # "none" /\ pc = "idle"
  /\ blocks' = << >> /\ pl_block' = FALSE /\ prep' = ClearedPrep
  /\ segment_buffer_tail' = 0 /\ segment_buffer_head' = 0 /\ segment_next_head' = 1
  /\ st' = ClearedSt /\ stepping' = FALSE
  /\ IF reset = "alarm"
     THEN /\ sys_position' = Origin /\ pl_position' = Origin /\ goal' = Origin
          /\ motor' = AtRest
     ELSE /\ pl_position' = sys_position /\ goal' = sys_position
          /\ UNCHANGED <<sys_position, motor>>
  /\ missed' = [a \in Axis |-> IF reset = "alarm" THEN 0
                               ELSE IF reset = "starting" THEN sys_position[a] - motor[a]
                               ELSE missed[a]]
  /\ state' = "IDLE" /\ step_control' = {} /\ hold_complete' = FALSE
  /\ cycle_stop' = FALSE /\ reset' = "none"
  /\ UNCHANGED <<segment_buffer, st_block_buffer, pc, wake, queued, resets>>

-----------------------------------------------------------------------------
st_prep_buffer ==
  \/ PrepCheck \/ PrepLoad \/ PrepNoStep \/ PrepPublish \/ PrepForcedEnd
  \/ \E n \in 1..prep.steps_remaining, level \in 0..MaxAmassLevel : PrepFill(n, level)

Stepper == StepperTick \/ StepperEmpty

Next ==
  \/ Stepper \/ st_prep_buffer \/ CallPrep
  \/ \E m \in Moves : Queue(m)
  \/ Replan \/ FeedHold \/ CycleStop \/ CycleStart \/ BeginCycle
  \/ mc_reset \/ Reinit

(* The timer keeps firing, st_prep_buffer returns, and the main loop keeps *)
(* coming round: it takes up the flags before every st_prep_buffer.        *)
Spec == Init /\ [][Next]_vars
             /\ WF_vars(Stepper) /\ WF_vars(st_prep_buffer \/ BeginCycle)
             /\ WF_vars(CallPrep) /\ SF_vars(CycleStop) /\ WF_vars(Reinit)

-----------------------------------------------------------------------------
(* Properties.                                                             *)

TypeOK ==
  /\ blocks \in Seq(Moves) /\ Len(blocks) <= BlockSlots
  /\ pl_position \in [Axis -> Int] /\ goal \in [Axis -> Int]
  /\ sys_position \in [Axis -> Int] /\ motor \in [{"X", "X2", "Y"} -> Int]
  /\ pl_block \in BOOLEAN /\ (pl_block => blocks # << >>)
  /\ prep.st_block_index \in StBlockIndex /\ prep.steps_remaining \in Nat
  /\ prep.recalculate \in BOOLEAN
  /\ segment_buffer_tail \in SegmentIndex /\ segment_buffer_head \in SegmentIndex
  /\ segment_next_head = NextSegment(segment_buffer_head)
  /\ st.exec_segment \in {NULL, segment_buffer_tail}
  /\ (st.exec_segment # NULL) => st.step_count > 0
  /\ st.exec_block_index \in StBlockIndex
  /\ state \in {"IDLE", "CYCLE", "HOLD"} /\ step_control \subseteq {"EXECUTE_HOLD", "END_MOTION"}
  /\ reset \in {"none", "quiet", "starting", "alarm"} /\ missed \in [Axis -> Int]

Live ==
  {i \in SegmentIndex :
     IF segment_buffer_tail <= segment_buffer_head
     THEN segment_buffer_tail <= i /\ i < segment_buffer_head
     ELSE segment_buffer_tail <= i \/ i < segment_buffer_head}

(* The planner discards a block while its last segments still wait or run: *)
(* the copy of its data (stepper.c:62-64) is not overwritten until the last *)
(* of them has been executed.                                              *)
LiveDataKept ==
  [][reset' = reset =>
       \A s \in Live : LET i == segment_buffer[s].st_block_index
                       IN  st_block_buffer'[i] = st_block_buffer[i]
                           /\ segment_buffer'[s] = segment_buffer[s]]_vars

(* "retains the Bresenham algorithm exactness" (stepper.c:297-300): however *)
(* blocks are cut, at whatever levels, through holds, replans and underruns, *)
(* each block ends exactly on its target, and with nothing left to execute *)
(* the machine is where the planner believes it to be.                     *)
BlocksEndExactly ==
  reset = "none" =>
    /\ (Live # {} /\ st.exec_segment = NULL /\ Popped.st_block_index # st.exec_block_index)
         => sys_position = goal
    /\ (Live = {} /\ blocks = << >> /\ pc = "idle") => sys_position = pl_position

(* Every step counted in sys_position is pulsed once, by the next interrupt *)
(* or before motion stops; "ensure first ISR call does not step"           *)
(* (stepper.c:231): none is pulsed again at the next start.  A reset that  *)
(* raises no alarm loses none, unless it came while a cycle was starting   *)
(* (protocol.c:240-359): the timer then runs until st_reset stops it, and  *)
(* each motor may miss the one step it was due.                            *)
MotorsFollowPosition ==
  reset # "alarm" =>
    LET p == IF stepping THEN Pulsed ELSE motor
    IN  \A a \in Axis : p[a] + missed[a] = sys_position[a] /\ Abs(missed[a]) <= resets

(* The second motor of the X axis makes the steps of the first.            *)
MotorsInStep == reset # "alarm" => motor.X2 = motor.X

(* Motion comes to an end, or its hold completes: main program and         *)
(* interrupt, each of which waits for the other, never both wait; and the  *)
(* cycle stop of the last segment is neither lost nor outrun.              *)
MotionEnds ==
  (state = "CYCLE" \/ (state = "HOLD" /\ ~hold_complete))
     ~> (state = "IDLE" \/ (state = "HOLD" /\ hold_complete))
=============================================================================

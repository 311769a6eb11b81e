--------------------------- MODULE SegmentsProofs ---------------------------
(***************************************************************************)
(* Proofs about stepper.c, for rings of segments of every size, and for    *)
(* every set of moves and every AMASS level.                               *)
(***************************************************************************)
EXTENDS Segments, TLAPS, WellFoundedInduction

-----------------------------------------------------------------------------
(* The rings.                                                              *)

Count == IF segment_buffer_tail <= segment_buffer_head
         THEN segment_buffer_head - segment_buffer_tail
         ELSE segment_buffer_head - segment_buffer_tail + SegmentBufferSize

(* How far behind the head a live segment is; the newest is at 1.          *)
Behind(s) == IF s < segment_buffer_head THEN segment_buffer_head - s
             ELSE segment_buffer_head - s + SegmentBufferSize

(* How many slots of block data have been taken since slot i was.          *)
Lag(i) == IF i <= prep.st_block_index THEN prep.st_block_index - i
          ELSE prep.st_block_index - i + SegmentBufferSize - 1

StFields == {"exec_segment", "step_count", "exec_block_index", "level", "counter",
             "step_outbits", "step_outbits_dual", "dir_outbits"}

RingTypes ==
  /\ segment_buffer_tail \in SegmentIndex /\ segment_buffer_head \in SegmentIndex
  /\ segment_next_head = NextSegment(segment_buffer_head)
  /\ DOMAIN prep = {"st_block_index", "recalculate", "steps_remaining"}
  /\ DOMAIN st = StFields
  /\ prep.st_block_index \in StBlockIndex
  /\ DOMAIN segment_buffer = SegmentIndex
  /\ DOMAIN st_block_buffer = StBlockIndex
  /\ \A s \in Live : segment_buffer[s].st_block_index \in StBlockIndex

(* st_prep_buffer found room, and the segment it makes is of its block.    *)
PrepInv ==
  /\ pc \in {"load", "fill", "publish"} => Count <= SegmentBufferSize - 2
  /\ pc = "publish" =>
       segment_buffer[segment_buffer_head].st_block_index = prep.st_block_index

Between == IF pl_block \/ prep.recalculate THEN 0 ELSE 1

(* A segment's block is no older than the number of segments behind it.    *)
LagInv == \A s \in Live : Lag(segment_buffer[s].st_block_index) <= Behind(s) - Between

ExecInv == (st.exec_segment # NULL) => segment_buffer_tail # segment_buffer_head

RingInv == RingTypes /\ PrepInv /\ LagInv /\ ExecInv

-----------------------------------------------------------------------------
(* The step interrupt's view.                                              *)

DirOf(b) == [a \in Axis |-> Sign(b[a])]

StepTypes ==
  /\ sys_position \in [Axis -> Int] /\ missed \in [Axis -> Int] /\ resets \in Nat
  /\ reset \in {"none", "quiet", "starting", "alarm"}
  /\ motor \in [{"X", "X2", "Y"} -> Int] /\ st.dir_outbits \in [Axis -> {-1, 1}]

(* The directions put out are those of the block in execution.             *)
DirInv ==
  st.exec_segment # NULL =>
    /\ st.exec_block_index = segment_buffer[segment_buffer_tail].st_block_index
    /\ st.dir_outbits = DirOf(st_block_buffer[st.exec_block_index])

(* The timer runs only in a motion the main program knows of, so that a    *)
(* start finds it stopped, and so does a reset that raises no alarm, but   *)
(* for one that comes while a cycle starts.                                *)
TimerInv ==
  /\ Holding => state = "HOLD" /\ ~hold_complete
  /\ hold_complete => state = "HOLD"
  /\ wake => pc # "idle"
  /\ pc = "start" => /\ ~stepping /\ ~cycle_stop /\ ~wake /\ ~InMotion
                     /\ reset \in {"none", "starting"}
  /\ reset = "starting" /\ wake => ~stepping
  /\ reset = "none" =>
       /\ stepping => InMotion /\ ~cycle_stop /\ ~wake
       /\ cycle_stop => InMotion /\ ~wake
       /\ wake => state = "CYCLE"
  /\ reset = "quiet" => ~stepping /\ ~wake

(* A step is missed by a reset that has been executed.                     *)
MissedInv ==
  reset # "alarm" =>
    \A a \in Axis : Abs(missed[a]) <= (IF reset = "starting" THEN resets - 1 ELSE resets)

PulseInv ==
  RingInv /\ StepTypes /\ DirInv /\ TimerInv /\ MissedInv /\ MotorsFollowPosition

-----------------------------------------------------------------------------
LEMMA NextInRing ==
  ASSUME NEW i \in SegmentIndex
  PROVE  NextSegment(i) \in SegmentIndex
BY SegmentsAssumption DEF SegmentIndex, NextSegment

LEMMA NextBlockInRing ==
  ASSUME NEW i \in StBlockIndex
  PROVE  st_next_block_index(i) \in StBlockIndex
BY SegmentsAssumption DEF StBlockIndex, st_next_block_index

(* A live segment is behind the head, and no further than the tail.        *)
LEMMA LiveIsBehind ==
  ASSUME RingTypes, NEW s \in Live
  PROVE  s \in SegmentIndex /\ s # segment_buffer_head /\ Behind(s) \in 1..Count
BY SegmentsAssumption DEF RingTypes, Live, SegmentIndex, Behind, Count

(* With the same rings, and the main program no further in st_prep_buffer. *)
LEMMA RingFrame ==
  ASSUME RingInv,
         UNCHANGED <<segment_buffer, segment_buffer_tail, segment_buffer_head,
                     segment_next_head, st_block_buffer>>,
         DOMAIN prep' = DOMAIN prep, DOMAIN st' = StFields,
         prep'.st_block_index = prep.st_block_index,
         (pl_block' \/ prep'.recalculate) <=> (pl_block \/ prep.recalculate),
         pc' = pc \/ pc' \in {"idle", "check", "start"},
         st'.exec_segment \in {st.exec_segment, NULL}
  PROVE  RingInv'
<1>1. Live' = Live /\ Count' = Count /\ Between' = Between
  BY DEF Live, Count, Between
<1>2. RingTypes'
  BY <1>1 DEF RingInv, RingTypes
<1>3. PrepInv'
  BY <1>1 DEF RingInv, PrepInv
<1>4. LagInv'
  BY <1>1 DEF RingInv, LagInv, Lag, Behind
<1>5. ExecInv'
  BY DEF RingInv, ExecInv
<1> QED
  BY <1>2, <1>3, <1>4, <1>5 DEF RingInv

LEMMA RingInit == Init => RingInv
<1> SUFFICES ASSUME Init PROVE RingInv
  OBVIOUS
<1>1. Live = {}
  BY SegmentsAssumption DEF Init, Live, SegmentIndex
<1>2. RingTypes
  BY <1>1, SegmentsAssumption
  DEF Init, RingTypes, SegmentIndex, StBlockIndex, NextSegment, ClearedPrep,
      ClearedSt, StFields
<1>3. PrepInv /\ LagInv /\ ExecInv
  BY <1>1 DEF Init, PrepInv, LagInv, ExecInv, ClearedSt
<1> QED
  BY <1>2, <1>3 DEF RingInv

LEMMA LoadedFields ==
  ASSUME RingTypes
  PROVE  /\ DOMAIN LoadSegment = StFields
         /\ LoadSegment.exec_block_index = Popped.st_block_index
         /\ LoadSegment.dir_outbits = [a \in Axis |-> Sign(st_block_buffer[Popped.st_block_index][a])]
BY DEF RingTypes, StFields, LoadSegment

(* A tick may end its segment, and moves the axes it steps.                *)
LEMMA TickEffect ==
  ASSUME NEW s, DOMAIN s = StFields, Tick(s)
  PROVE  /\ DOMAIN st' = StFields
         /\ \/ segment_buffer_tail' = segment_buffer_tail /\ st'.exec_segment = s.exec_segment
            \/ segment_buffer_tail' = NextSegment(segment_buffer_tail) /\ st'.exec_segment = NULL
         /\ st'.exec_block_index = s.exec_block_index
         /\ st'.dir_outbits = s.dir_outbits
         /\ sys_position' = [a \in Axis |-> IF a \in st'.step_outbits
                                            THEN sys_position[a] + Sign(st_block_buffer[s.exec_block_index][a])
                                            ELSE sys_position[a]]
<1> DEFINE b == st_block_buffer[s.exec_block_index]
           count == Events(b) * Pow2[MaxAmassLevel]
           sum(a) == s.counter[a] + (Abs(b[a]) * Pow2[MaxAmassLevel]) \div Pow2[s.level]
           steps == {a \in Axis : sum(a) > count}
           counter == [a \in Axis |-> IF a \in steps THEN sum(a) - count ELSE sum(a)]
           last == s.step_count = 1
<1>1. /\ st' = [s EXCEPT !.counter = counter, !.step_outbits = steps,
                         !.step_outbits_dual = "X" \in steps,
                         !.step_count = @ - 1,
                         !.exec_segment = IF last THEN NULL ELSE @]
      /\ sys_position' = [a \in Axis |-> IF a \in steps THEN sys_position[a] + Sign(b[a])
                                         ELSE sys_position[a]]
      /\ segment_buffer_tail' = IF last THEN NextSegment(segment_buffer_tail)
                                ELSE segment_buffer_tail
  BY DEF Tick
<1> HIDE DEF steps, counter, last
<1>2. /\ DOMAIN st' = StFields /\ st'.step_outbits = steps
      /\ st'.exec_block_index = s.exec_block_index
      /\ st'.dir_outbits = s.dir_outbits
      /\ st'.exec_segment = IF last THEN NULL ELSE s.exec_segment
  BY <1>1 DEF StFields
<1> QED
  BY <1>1, <1>2

(* A segment is executed: the live segments are those that were, without   *)
(* the one at the tail if it was its last step.                            *)
LEMMA RingTick ==
  ASSUME RingInv, StepperTick
  PROVE  RingInv'
<1> USE SegmentsAssumption DEF RingInv
<1>1. /\ UNCHANGED <<segment_buffer, segment_buffer_head, segment_next_head,
                     st_block_buffer, prep, pl_block, pc>>
      /\ DOMAIN st' = StFields
      /\ segment_buffer_tail # segment_buffer_head
      /\ \/ segment_buffer_tail' = segment_buffer_tail
         \/ segment_buffer_tail' = NextSegment(segment_buffer_tail) /\ st'.exec_segment = NULL
  <2>1. UNCHANGED <<segment_buffer, segment_buffer_head, segment_next_head,
                    st_block_buffer, prep, pl_block, pc>>
    BY DEF StepperTick
  <2>2. segment_buffer_tail # segment_buffer_head
        /\ \E s \in {st, LoadSegment} : Tick(s)
    BY DEF StepperTick, ExecInv
  <2>3. DOMAIN st = StFields /\ DOMAIN LoadSegment = StFields
    BY LoadedFields DEF RingTypes
  <2>4. PICK s \in {st, LoadSegment} : Tick(s)
    BY <2>2
  <2>5. DOMAIN s = StFields
    BY <2>3
  <2> QED
    BY <2>1, <2>2, <2>4, <2>5, TickEffect
<1>2. segment_buffer_tail' \in SegmentIndex
  BY <1>1, NextInRing DEF RingTypes
<1>3. Live' \subseteq Live
  BY <1>1 DEF RingTypes, Live, SegmentIndex, NextSegment
<1>4. Count' <= Count
  BY <1>1 DEF RingTypes, Count, SegmentIndex, NextSegment
<1>5. RingTypes'
  BY <1>1, <1>2, <1>3 DEF RingTypes
<1>6. PrepInv'
  <2>1. Count \in Int /\ Count' \in Int
    BY <1>1, <1>2 DEF RingTypes, Count, SegmentIndex
  <2> QED
    BY <1>1, <1>4, <2>1 DEF PrepInv
<1>7. LagInv'
  BY <1>1, <1>3 DEF LagInv, Lag, Behind, Between
<1>8. ExecInv'
  BY <1>1 DEF ExecInv
<1> QED
  BY <1>5, <1>6, <1>7, <1>8

LEMMA RingCheck ==
  ASSUME RingInv, PrepCheck
  PROVE  RingInv'
<1>1. CASE Ended \/ segment_buffer_tail = segment_next_head \/ (~pl_block /\ blocks = << >>)
  <2>1. st'.exec_segment = st.exec_segment /\ DOMAIN st' = StFields
    BY <1>1 DEF PrepCheck, PrepReturn, st_wake_up, RingInv, RingTypes, StFields
  <2> QED
    BY <1>1, <2>1, RingFrame DEF PrepCheck, PrepReturn, segments
<1>2. CASE ~(Ended \/ segment_buffer_tail = segment_next_head \/ (~pl_block /\ blocks = << >>))
  <2>1. /\ UNCHANGED <<segment_buffer, segment_buffer_tail, segment_buffer_head,
                       segment_next_head, st_block_buffer, prep, pl_block, st>>
        /\ pc' = "load" /\ segment_buffer_tail # NextSegment(segment_buffer_head)
    BY <1>2 DEF PrepCheck, Goto, segments, RingInv, RingTypes
  <2>2. Count <= SegmentBufferSize - 2
    BY <2>1, SegmentsAssumption DEF RingInv, RingTypes, Count, SegmentIndex, NextSegment
  <2>3. Live' = Live /\ Count' = Count /\ Between' = Between
    BY <2>1 DEF Live, Count, Between
  <2>4. RingTypes' /\ PrepInv' /\ ExecInv'
    BY <2>1, <2>2, <2>3 DEF RingInv, RingTypes, PrepInv, ExecInv
  <2>5. LagInv'
    BY <2>1, <2>3 DEF RingInv, LagInv, Lag, Behind
  <2> QED
    BY <2>4, <2>5 DEF RingInv
<1> QED
  BY <1>1, <1>2

(* The slot a new block takes is referred to by no live segment.           *)
LEMMA NewSlotIsFree ==
  ASSUME RingInv, pc = "load", ~(pl_block \/ prep.recalculate), NEW s \in Live
  PROVE  segment_buffer[s].st_block_index # st_next_block_index(prep.st_block_index)
<1> DEFINE i == segment_buffer[s].st_block_index
<1>1. i \in StBlockIndex /\ prep.st_block_index \in StBlockIndex
  BY DEF RingInv, RingTypes
<1>2. Behind(s) \in Int /\ Behind(s) <= SegmentBufferSize - 2
  <2>1. Behind(s) \in 1..Count /\ Count <= SegmentBufferSize - 2
    BY LiveIsBehind DEF RingInv, PrepInv
  <2>2. Count \in Int
    BY SegmentsAssumption DEF RingInv, RingTypes, Count, SegmentIndex
  <2> QED
    BY <2>1, <2>2, SegmentsAssumption
<1>3. Lag(i) <= Behind(s) - 1
  BY DEF RingInv, LagInv, Between
<1> QED
  BY <1>1, <1>2, <1>3, SegmentsAssumption DEF Lag, StBlockIndex, st_next_block_index

LEMMA RingLoad ==
  ASSUME RingInv, PrepLoad
  PROVE  RingInv'
<1> USE SegmentsAssumption
<1>1. /\ UNCHANGED <<segment_buffer, segment_buffer_tail, segment_buffer_head,
                     segment_next_head, st>>
      /\ pc = "load" /\ pc' = "fill" /\ pl_block' = TRUE
  BY DEF PrepLoad, Goto, machine
<1>2. Live' = Live /\ Count' = Count /\ Between' = 0
  BY <1>1 DEF Live, Count, Between
<1>3. PrepInv' /\ ExecInv'
  BY <1>1, <1>2 DEF RingInv, PrepInv, ExecInv
<1>4. CASE pl_block \/ prep.recalculate
  <2>1. /\ prep' = [prep EXCEPT !.recalculate = FALSE]
        /\ st_block_buffer' = st_block_buffer
    BY <1>4 DEF PrepLoad
  <2>2. DOMAIN prep' = DOMAIN prep /\ prep'.st_block_index = prep.st_block_index
    BY <2>1
  <2>3. RingTypes'
    BY <1>1, <1>2, <2>1, <2>2 DEF RingInv, RingTypes
  <2>4. LagInv'
    BY <1>1, <1>2, <1>4, <2>2 DEF RingInv, LagInv, Lag, Behind, Between
  <2> QED
    BY <1>3, <2>3, <2>4 DEF RingInv
<1>5. CASE ~(pl_block \/ prep.recalculate)
  <2> DEFINE i == st_next_block_index(prep.st_block_index)
  <2>1. /\ prep' = [prep EXCEPT !.st_block_index = i, !.steps_remaining = Events(Head(blocks))]
        /\ st_block_buffer' = [st_block_buffer EXCEPT ![i] = Head(blocks)]
    BY <1>5 DEF PrepLoad
  <2>2. DOMAIN prep' = DOMAIN prep /\ prep'.st_block_index = i
    BY <2>1 DEF RingInv, RingTypes
  <2>3. i \in StBlockIndex /\ prep.st_block_index \in StBlockIndex
    BY NextBlockInRing DEF RingInv, RingTypes
  <2>4. RingTypes'
    BY <1>1, <1>2, <2>1, <2>2, <2>3 DEF RingInv, RingTypes
  <2>5. LagInv'
    <3> SUFFICES ASSUME NEW s \in Live
                 PROVE  Lag(segment_buffer[s].st_block_index)' <= Behind(s)
      <4>1. \A s \in Live : Behind(s) \in Int
        BY LiveIsBehind DEF RingInv, RingTypes, Behind, SegmentIndex
      <4> QED
        BY <1>1, <1>2, <4>1 DEF LagInv, Behind, Between
    <3> DEFINE j == segment_buffer[s].st_block_index
    <3>1. j \in StBlockIndex /\ j # i
      BY <1>1, <1>5, NewSlotIsFree DEF RingInv, RingTypes
    <3>2. Lag(j) <= Behind(s) - 1 /\ Behind(s) \in Int
      BY <1>5, LiveIsBehind DEF RingInv, RingTypes, LagInv, Between, Behind, SegmentIndex
    <3>3. Lag(j)' <= Lag(j) + 1
      BY <1>1, <2>2, <2>3, <3>1 DEF Lag, StBlockIndex, st_next_block_index
    <3>4. Lag(j) \in Int /\ Lag(j)' \in Int
      BY <1>1, <2>2, <2>3, <3>1 DEF Lag, StBlockIndex
    <3> QED
      BY <3>2, <3>3, <3>4
  <2> QED
    BY <1>3, <2>4, <2>5 DEF RingInv
<1> QED
  BY <1>4, <1>5

LEMMA RingFill ==
  ASSUME RingInv, NEW n, NEW level, PrepFill(n, level)
  PROVE  RingInv'
<1> DEFINE made == [n_step |-> n * Pow2[level], amass_level |-> level,
                    st_block_index |-> prep.st_block_index]
<1>1. /\ UNCHANGED <<segment_buffer_tail, segment_buffer_head, segment_next_head,
                     st_block_buffer, st, pl_block>>
      /\ pc = "fill" /\ pc' = "publish"
      /\ segment_buffer' = [segment_buffer EXCEPT ![segment_buffer_head] = made]
      /\ prep' = [prep EXCEPT !.steps_remaining = @ - n]
  BY DEF PrepFill, Goto, machine
<1>2. /\ DOMAIN prep' = DOMAIN prep
      /\ prep'.st_block_index = prep.st_block_index
      /\ prep'.recalculate = prep.recalculate
  BY <1>1
<1>3. /\ DOMAIN segment_buffer' = DOMAIN segment_buffer
      /\ segment_buffer'[segment_buffer_head] = made
      /\ \A s \in Live : segment_buffer'[s] = segment_buffer[s]
  <2> HIDE DEF made
  <2> QED
    BY <1>1, LiveIsBehind DEF RingInv, RingTypes
<1>4. Live' = Live /\ Count' = Count /\ Between' = Between
  BY <1>1, <1>2 DEF Live, Count, Between
<1>5. RingTypes'
  BY <1>1, <1>2, <1>3, <1>4 DEF RingInv, RingTypes
<1>6. PrepInv'
  BY <1>1, <1>2, <1>3, <1>4 DEF RingInv, PrepInv
<1>7. LagInv' /\ ExecInv'
  BY <1>1, <1>2, <1>3, <1>4 DEF RingInv, LagInv, Lag, Behind, ExecInv
<1> QED
  BY <1>5, <1>6, <1>7 DEF RingInv

(* Publishing makes the slot at the head live, as the newest.              *)
LEMMA RingPublish ==
  ASSUME RingInv, pc = "publish", Publish, pc' \in {"idle", "check"},
         UNCHANGED <<segment_buffer, segment_buffer_tail, st_block_buffer, prep>>,
         DOMAIN st' = StFields, st'.exec_segment = st.exec_segment
  PROVE  RingInv'
<1> USE SegmentsAssumption DEF RingInv
<1>1. /\ segment_buffer_head' = NextSegment(segment_buffer_head)
      /\ segment_next_head' = NextSegment(segment_buffer_head')
      /\ segment_buffer_head' \in SegmentIndex
  BY NextInRing DEF Publish, RingTypes
<1>2. Count <= SegmentBufferSize - 2
  BY DEF PrepInv
<1>3. /\ segment_buffer_head' # segment_buffer_tail
      /\ Live' = Live \cup {segment_buffer_head}
  BY <1>1, <1>2 DEF RingTypes, Count, Live, SegmentIndex, NextSegment
<1>4. RingTypes'
  BY <1>1, <1>3 DEF RingTypes, PrepInv
<1>5. PrepInv' /\ ExecInv'
  BY <1>3 DEF PrepInv, ExecInv
<1>6. LagInv'
  <2> SUFFICES ASSUME NEW s \in Live'
               PROVE  Lag(segment_buffer[s].st_block_index) <= Behind(s)' - Between'
    BY DEF LagInv, Lag
  <2>1. Between \in 0..1 /\ Between' \in 0..1
    BY DEF Between
  <2>2. CASE s \in Live
    <3>0. s \in SegmentIndex /\ s # segment_buffer_head
      BY <2>2, LiveIsBehind
    <3>1. Behind(s) \in Int /\ Behind(s)' = Behind(s) + 1
      BY <1>1, <3>0 DEF RingTypes, Behind, SegmentIndex, NextSegment
    <3>2. Lag(segment_buffer[s].st_block_index) <= Behind(s) - Between
      BY <2>2 DEF LagInv
    <3>3. Lag(segment_buffer[s].st_block_index) \in Int
      BY <2>2 DEF RingTypes, Lag, StBlockIndex
    <3> QED
      BY <2>1, <3>1, <3>2, <3>3
  <2>3. CASE s = segment_buffer_head
    <3>1. Behind(s)' = 1
      BY <1>1, <2>3 DEF RingTypes, Behind, SegmentIndex, NextSegment
    <3>2. Lag(segment_buffer[s].st_block_index) = 0
      BY <2>3 DEF RingTypes, PrepInv, Lag, StBlockIndex
    <3>3. 0 <= 1 - Between'
      BY DEF Between
    <3> QED
      BY <3>1, <3>2, <3>3
  <2> QED
    BY <1>3, <2>2, <2>3
<1> QED
  BY <1>4, <1>5, <1>6

LEMMA RingEmpty ==
  ASSUME RingInv, Reinit
  PROVE  RingInv'
<1>1. Live' = {}
  BY SegmentsAssumption DEF Reinit, Live, SegmentIndex
<1>2. RingTypes'
  BY <1>1, SegmentsAssumption
  DEF Reinit, RingInv, RingTypes, SegmentIndex, StBlockIndex, NextSegment, ClearedPrep,
      ClearedSt, StFields
<1>3. PrepInv' /\ LagInv' /\ ExecInv'
  BY <1>1 DEF Reinit, PrepInv, LagInv, ExecInv, ClearedSt
<1> QED
  BY <1>2, <1>3 DEF RingInv

LEMMA UpdatedPrep ==
  ASSUME RingTypes, st_update_plan_block_parameters
  PROVE  /\ DOMAIN prep' = DOMAIN prep
         /\ prep'.st_block_index = prep.st_block_index
         /\ (pl_block' \/ prep'.recalculate) <=> (pl_block \/ prep.recalculate)
BY DEF RingTypes, st_update_plan_block_parameters

(* What each action does to the rings and to what refers to them: the      *)
(* actions of RingFrame.                                                   *)
LEMMA RingKept ==
  ASSUME RingInv,
         \/ StepperEmpty \/ PrepNoStep \/ CallPrep \/ \E m \in Moves : Queue(m)
         \/ Replan \/ FeedHold \/ CycleStop \/ CycleStart \/ BeginCycle \/ mc_reset \/ UNCHANGED vars
  PROVE  RingInv'
<1> USE RingFrame DEF RingInv, segments, machine
<1>0. DOMAIN st = StFields
  BY DEF RingTypes
<1>1. CASE StepperEmpty
  BY <1>0, <1>1 DEF StepperEmpty
<1>2. CASE PrepNoStep
  <2>1. DOMAIN st' = StFields /\ st'.exec_segment = st.exec_segment
    BY <1>0, <1>2 DEF PrepNoStep, PrepReturn, st_wake_up, StFields
  <2> QED
    BY <1>2, <2>1 DEF PrepNoStep, PrepReturn
<1>3. CASE CallPrep
  BY <1>0, <1>3 DEF CallPrep
<1>4. ASSUME NEW m \in Moves, Queue(m) PROVE RingInv'
  BY <1>0, <1>4, UpdatedPrep DEF Queue
<1>5. CASE Replan
  BY <1>0, <1>5, UpdatedPrep DEF Replan
<1>6. CASE FeedHold
  BY <1>0, <1>6, UpdatedPrep DEF FeedHold
<1>7. CASE CycleStop
  BY <1>0, <1>7, UpdatedPrep DEF CycleStop
<1>8. CASE CycleStart \/ BeginCycle
  BY <1>0, <1>8 DEF CycleStart, BeginCycle
<1>9. CASE mc_reset
  BY <1>0, <1>9 DEF mc_reset
<1>10. CASE UNCHANGED vars
  BY <1>0, <1>10 DEF vars
<1> QED
  BY <1>1, <1>2, <1>3, <1>4, <1>5, <1>6, <1>7, <1>8, <1>9, <1>10

LEMMA RingStep ==
  ASSUME RingInv, [Next]_vars
  PROVE  RingInv'
<1>1. CASE PrepPublish
  BY <1>1, RingPublish DEF PrepPublish, Goto, machine, RingInv, RingTypes
<1>2. CASE PrepForcedEnd
  <2>1. DOMAIN st' = StFields /\ st'.exec_segment = st.exec_segment
    BY <1>2 DEF PrepForcedEnd, PrepReturn, st_wake_up, RingInv, RingTypes, StFields
  <2> QED
    BY <1>2, <2>1, RingPublish DEF PrepForcedEnd, PrepReturn
<1> QED
  BY <1>1, <1>2, RingTick, RingCheck, RingLoad, RingFill, RingEmpty, RingKept
  DEF Next, Stepper, st_prep_buffer

(* The rings keep their types and order, and no segment's block is further *)
(* back than the segments behind it are many (stepper.c:559-620).          *)
THEOREM RingInvariant == Spec => []RingInv
<1>1. Init => RingInv
  BY RingInit
<1>2. RingInv /\ [Next]_vars => RingInv'
  BY RingStep
<1> QED
  BY <1>1, <1>2, PTL DEF Spec

(* The data of a live segment stay: only PrepLoad writes block data, into  *)
(* a slot no live segment refers to, and only PrepFill writes a segment,   *)
(* the one at the head, which is not live.                                 *)
LEMMA LiveDataStep ==
  ASSUME RingInv, [Next]_vars, reset' = reset, NEW s \in Live
  PROVE  LET i == segment_buffer[s].st_block_index
         IN  st_block_buffer'[i] = st_block_buffer[i] /\ segment_buffer'[s] = segment_buffer[s]
<1> DEFINE Kept == UNCHANGED <<segment_buffer, st_block_buffer>>
<1>1. CASE PrepLoad
  <2>1. segment_buffer' = segment_buffer
    BY <1>1 DEF PrepLoad
  <2>2. CASE pl_block \/ prep.recalculate
    BY <1>1, <2>1, <2>2 DEF PrepLoad
  <2>3. CASE ~(pl_block \/ prep.recalculate)
    <3>1. pc = "load"
      BY <1>1 DEF PrepLoad
    <3>2. segment_buffer[s].st_block_index # st_next_block_index(prep.st_block_index)
      BY <2>3, <3>1, NewSlotIsFree
    <3>3. st_block_buffer' = [st_block_buffer EXCEPT
                                ![st_next_block_index(prep.st_block_index)] = Head(blocks)]
      BY <1>1, <2>3 DEF PrepLoad
    <3>4. segment_buffer[s].st_block_index \in DOMAIN st_block_buffer
      BY DEF RingInv, RingTypes
    <3> QED
      BY <2>1, <3>2, <3>3, <3>4
  <2> QED
    BY <2>2, <2>3
<1>2. ASSUME NEW n, NEW level, PrepFill(n, level)
      PROVE  /\ st_block_buffer' = st_block_buffer
             /\ segment_buffer'[s] = segment_buffer[s]
  <2>1. s # segment_buffer_head /\ s \in DOMAIN segment_buffer
    BY LiveIsBehind DEF RingInv, RingTypes
  <2> QED
    BY <1>2, <2>1 DEF PrepFill
<1>3. CASE Stepper
  BY <1>3 DEF Stepper, StepperTick, StepperEmpty, segments
<1>4. CASE PrepCheck \/ PrepNoStep \/ PrepPublish \/ PrepForcedEnd
  BY <1>4 DEF PrepCheck, PrepNoStep, PrepPublish, PrepForcedEnd, segments
<1>5. CASE CallPrep \/ (\E m \in Moves : Queue(m)) \/ Replan \/ FeedHold \/ CycleStop
           \/ CycleStart \/ BeginCycle \/ mc_reset \/ Reinit \/ UNCHANGED vars
  BY <1>5 DEF CallPrep, Queue, Replan, FeedHold, CycleStop, CycleStart, BeginCycle, mc_reset, Reinit,
              segments, vars
<1> QED
  BY <1>1, <1>2, <1>3, <1>4, <1>5 DEF Next, st_prep_buffer

(* No slot of block data is taken again while a segment that waits or runs *)
(* refers to it, however many segments a block was cut into                *)
(* (stepper.c:62-64).                                                      *)
THEOREM LiveDataAlwaysKept == Spec => LiveDataKept
<1>1. RingInv /\ [Next]_vars =>
        [reset' = reset =>
           \A s \in Live : LET i == segment_buffer[s].st_block_index
                           IN  st_block_buffer'[i] = st_block_buffer[i]
                               /\ segment_buffer'[s] = segment_buffer[s]]_vars
  BY LiveDataStep
<1> QED
  BY <1>1, RingInvariant, PTL DEF Spec, LiveDataKept

-----------------------------------------------------------------------------
(* What is pulsed is a whole number of steps.                              *)
LEMMA PulsedTyped ==
  ASSUME StepTypes
  PROVE  Pulsed \in [{"X", "X2", "Y"} -> Int]
<1>1. /\ motor.X \in Int /\ motor.X2 \in Int /\ motor.Y \in Int
      /\ st.dir_outbits["X"] \in Int /\ st.dir_outbits["Y"] \in Int
  BY DEF StepTypes, Axis
<1> DEFINE x == motor.X + (IF "X" \in st.step_outbits THEN st.dir_outbits["X"] ELSE 0)
           z == motor.X2 + (IF st.step_outbits_dual THEN st.dir_outbits["X"] ELSE 0)
           y == motor.Y + (IF "Y" \in st.step_outbits THEN st.dir_outbits["Y"] ELSE 0)
<1>2. x \in Int /\ z \in Int /\ y \in Int
  BY <1>1
<1>3. Pulsed = [X |-> x, X2 |-> z, Y |-> y]
  BY DEF Pulsed
<1> HIDE DEF x, y, z
<1> QED
  BY <1>2, <1>3

(* What a reset leaves in st and prep.                                     *)
LEMMA ClearedFields ==
  /\ ClearedSt.dir_outbits \in [Axis -> {-1, 1}] /\ ClearedSt.exec_segment = NULL
  /\ ClearedPrep.recalculate = FALSE
<1>1. ClearedSt.dir_outbits = [a \in Axis |-> 1] /\ ClearedSt.exec_segment = NULL
  BY DEF ClearedSt
<1>2. [a \in Axis |-> 1] \in [Axis -> {-1, 1}]
  OBVIOUS
<1>3. ClearedPrep.recalculate = FALSE
  BY DEF ClearedPrep
<1> QED
  BY <1>1, <1>2, <1>3

LEMMA PulseInit == Init => PulseInv
<1> SUFFICES ASSUME Init PROVE PulseInv
  OBVIOUS
<1>1. StepTypes
  <2>1. AtRest \in [{"X", "X2", "Y"} -> Int] /\ Origin \in [Axis -> Int]
    BY DEF AtRest, Origin
  <2>2. ClearedSt.dir_outbits \in [Axis -> {-1, 1}]
    BY ClearedFields
  <2> QED
    BY <2>1, <2>2 DEF Init, StepTypes
<1>2. DirInv
  BY DEF Init, DirInv, ClearedSt
<1>3. TimerInv
  BY DEF Init, TimerInv, Holding
<1>4. MotorsFollowPosition
  BY DEF Init, MotorsFollowPosition, AtRest, Origin, Axis, Abs
<1>5. MissedInv
  BY DEF Init, MissedInv, Origin, Axis, Abs
<1> QED
  BY RingInit, <1>1, <1>2, <1>3, <1>4, <1>5 DEF PulseInv

(* A tick executes the block whose directions it puts out.                 *)
LEMMA TickDirections ==
  ASSUME RingInv, DirInv, StepperTick
  PROVE  \E i :
           /\ st'.dir_outbits = DirOf(st_block_buffer[i])
           /\ sys_position' = [a \in Axis |-> IF a \in st'.step_outbits
                                              THEN sys_position[a] + Sign(st_block_buffer[i][a])
                                              ELSE sys_position[a]]
           /\ st'.exec_segment # NULL =>
                st'.exec_block_index = i /\ segment_buffer_tail' = segment_buffer_tail
                /\ i = segment_buffer[segment_buffer_tail].st_block_index
<1>1. CASE st.exec_segment # NULL
  <2>1. DOMAIN st = StFields /\ Tick(st)
    BY <1>1 DEF StepperTick, RingInv, RingTypes
  <2> QED
    BY <1>1, <2>1, TickEffect DEF DirInv
<1>2. CASE st.exec_segment = NULL
  <2>1. DOMAIN LoadSegment = StFields /\ Tick(LoadSegment)
    BY <1>2, LoadedFields DEF StepperTick, RingInv
  <2>2. LoadSegment.dir_outbits = DirOf(st_block_buffer[LoadSegment.exec_block_index])
    BY LoadedFields DEF RingInv, DirOf
  <2>3. LoadSegment.exec_block_index = segment_buffer[segment_buffer_tail].st_block_index
    BY LoadedFields DEF RingInv, Popped
  <2> HIDE DEF LoadSegment
  <2> QED
    BY <2>1, <2>2, <2>3, TickEffect
<1> QED
  BY <1>1, <1>2

(* While a segment runs, it stays at the tail and its block's data stay.   *)
LEMMA DirStep ==
  ASSUME RingInv, DirInv, [Next]_vars
  PROVE  DirInv'
<1>1. CASE StepperTick
  <2>1. UNCHANGED <<segment_buffer, st_block_buffer>>
    BY <1>1 DEF StepperTick
  <2> QED
    BY <1>1, <2>1, TickDirections DEF DirInv
<1>2. CASE Reinit
  BY <1>2 DEF Reinit, DirInv, ClearedSt
<1>3. CASE mc_reset
  BY <1>3 DEF mc_reset, segments, DirInv
<1>4. CASE ~StepperTick /\ ~Reinit /\ ~mc_reset
  <2>1. /\ reset' = reset /\ segment_buffer_tail' = segment_buffer_tail
        /\ st'.exec_segment = st.exec_segment
        /\ st'.exec_block_index = st.exec_block_index
        /\ st'.dir_outbits = st.dir_outbits
    <3>1. CASE StepperEmpty
      BY <3>1 DEF StepperEmpty, segments
    <3>2. CASE st_prep_buffer
      <4>1. st' = st \/ st' = [st EXCEPT !.step_outbits = {}]
        BY <3>2 DEF st_prep_buffer, PrepCheck, PrepLoad, PrepNoStep, PrepPublish, PrepForcedEnd,
                    PrepFill, PrepReturn, st_wake_up, machine
      <4>2. reset' = reset /\ segment_buffer_tail' = segment_buffer_tail
        BY <3>2 DEF st_prep_buffer, PrepCheck, PrepLoad, PrepNoStep, PrepPublish, PrepForcedEnd,
                    PrepFill, PrepReturn, Goto, segments
      <4> QED
        BY <4>1, <4>2 DEF RingInv, RingTypes, StFields
    <3>3. CASE CallPrep \/ (\E m \in Moves : Queue(m)) \/ Replan \/ FeedHold \/ CycleStop
               \/ CycleStart \/ BeginCycle \/ UNCHANGED vars
      BY <3>3 DEF CallPrep, Queue, Replan, FeedHold, CycleStop, CycleStart, BeginCycle, segments, machine,
                  vars
    <3> QED
      BY <1>4, <3>1, <3>2, <3>3 DEF Next, Stepper
  <2>2. SUFFICES ASSUME st.exec_segment # NULL
                 PROVE  /\ segment_buffer'[segment_buffer_tail] = segment_buffer[segment_buffer_tail]
                        /\ st_block_buffer'[st.exec_block_index] = st_block_buffer[st.exec_block_index]
    BY <2>1 DEF DirInv
  <2>3. segment_buffer_tail \in Live
    BY <2>2, SegmentsAssumption DEF RingInv, RingTypes, ExecInv, Live, SegmentIndex
  <2> QED
    BY <2>1, <2>2, <2>3, LiveDataStep DEF DirInv
<1> QED
  BY <1>1, <1>2, <1>3, <1>4

LEMMA TimerStep ==
  ASSUME TimerInv, StepTypes, [Next]_vars
  PROVE  TimerInv'
<1> USE DEF TimerInv, Holding, InMotion
<1>1. CASE StepperTick
  BY <1>1 DEF StepperTick, control
<1>2. CASE StepperEmpty
  BY <1>2 DEF StepperEmpty, control
<1>3. CASE PrepCheck
  BY <1>3 DEF PrepCheck, PrepReturn, Goto, st_wake_up, control
<1>4. CASE PrepLoad \/ (\E n, level : PrepFill(n, level)) \/ PrepPublish
  BY <1>4 DEF PrepLoad, PrepFill, PrepPublish, Goto, machine, control
<1>5. CASE PrepNoStep \/ PrepForcedEnd
  BY <1>5 DEF PrepNoStep, PrepForcedEnd, PrepReturn, st_wake_up, control
<1>6. CASE (\E m \in Moves : Queue(m)) \/ Replan \/ CallPrep
  BY <1>6 DEF Queue, Replan, CallPrep, machine, control
<1>7. CASE FeedHold
  BY <1>7 DEF FeedHold, AtLoop, machine
<1>8. CASE CycleStop
  BY <1>8 DEF CycleStop, AtLoop
<1>9. CASE CycleStart
  BY <1>9 DEF AtLoop, CycleStart, machine
<1>13. CASE BeginCycle
  BY <1>13 DEF BeginCycle, machine
<1>10. CASE mc_reset
  BY <1>10 DEF mc_reset
<1>11. CASE Reinit
  BY <1>11 DEF Reinit
<1>12. CASE UNCHANGED vars
  BY <1>12 DEF vars
<1> QED
  BY <1>1, <1>2, <1>3, <1>4, <1>5, <1>6, <1>7, <1>8, <1>9, <1>10, <1>11, <1>12, <1>13
  DEF Next, Stepper, st_prep_buffer

(* st_wake_up leaves the directions alone.                                 *)
LEMMA ReturnKeepsDirections ==
  ASSUME RingInv, st_prep_buffer
  PROVE  st'.dir_outbits = st.dir_outbits
<1>1. st' = st \/ st' = [st EXCEPT !.step_outbits = {}]
  BY DEF st_prep_buffer, PrepCheck, PrepLoad, PrepNoStep, PrepPublish, PrepForcedEnd,
         PrepFill, PrepReturn, st_wake_up, machine
<1> QED
  BY <1>1 DEF RingInv, RingTypes, StFields

(* Positions and pulses are whole numbers of steps.                        *)
LEMMA StepTypesStep ==
  ASSUME RingInv, DirInv, StepTypes, [Next]_vars
  PROVE  StepTypes'
<1>1. CASE StepperTick
  <2>1. PICK i :
          /\ st'.dir_outbits = DirOf(st_block_buffer[i])
          /\ sys_position' = [a \in Axis |-> IF a \in st'.step_outbits
                                             THEN sys_position[a] + Sign(st_block_buffer[i][a])
                                             ELSE sys_position[a]]
    BY <1>1, TickDirections
  <2>2. \A n : Sign(n) \in {-1, 1}
    BY DEF Sign
  <2>3. UNCHANGED <<reset, missed, resets>> /\ motor' = Pulsed
    BY <1>1 DEF StepperTick, control
  <2>4. sys_position' \in [Axis -> Int]
    BY <2>1, <2>2 DEF StepTypes
  <2>5. st'.dir_outbits \in [Axis -> {-1, 1}]
    BY <2>1, <2>2 DEF DirOf
  <2> QED
    BY <2>3, <2>4, <2>5, PulsedTyped DEF StepTypes
<1>2. CASE StepperEmpty
  BY <1>2, PulsedTyped DEF StepperEmpty, control, StepTypes
<1>3. CASE st_prep_buffer
  <2>1. UNCHANGED <<sys_position, missed, resets, reset, motor>>
    BY <1>3 DEF st_prep_buffer, PrepCheck, PrepLoad, PrepFill, PrepNoStep, PrepPublish,
                PrepForcedEnd, PrepReturn, Goto, machine, control
  <2> QED
    BY <1>3, <2>1, ReturnKeepsDirections DEF StepTypes
<1>4. CASE CallPrep \/ (\E m \in Moves : Queue(m)) \/ Replan \/ FeedHold \/ CycleStop
           \/ CycleStart \/ BeginCycle \/ UNCHANGED vars
  BY <1>4 DEF CallPrep, Queue, Replan, FeedHold, CycleStop, CycleStart, BeginCycle, machine,
              control, vars, StepTypes
<1>5. CASE mc_reset
  BY <1>5 DEF mc_reset, StepTypes
<1>6. CASE Reinit
  <2>1. sys_position' \in [Axis -> Int] /\ motor' \in [{"X", "X2", "Y"} -> Int]
    <3>1. AtRest \in [{"X", "X2", "Y"} -> Int] /\ Origin \in [Axis -> Int]
      BY DEF AtRest, Origin
    <3> QED
      BY <1>6, <3>1 DEF Reinit, StepTypes
  <2>2. st'.dir_outbits \in [Axis -> {-1, 1}]
    BY <1>6, ClearedFields DEF Reinit
  <2>3. missed' \in [Axis -> Int]
    <3>1. ASSUME NEW a \in Axis PROVE motor[a] \in Int /\ sys_position[a] \in Int /\ missed[a] \in Int
      BY DEF StepTypes, Axis
    <3>2. missed' = [a \in Axis |-> IF reset = "alarm" THEN 0
                                    ELSE IF reset = "starting" THEN sys_position[a] - motor[a]
                                    ELSE missed[a]]
      BY <1>6 DEF Reinit
    <3> QED
      BY <3>1, <3>2
  <2>4. reset' = "none" /\ resets' = resets
    BY <1>6 DEF Reinit
  <2> QED
    BY <2>1, <2>2, <2>3, <2>4 DEF StepTypes
<1> QED
  BY <1>1, <1>2, <1>3, <1>4, <1>5, <1>6 DEF Next, Stepper

(* What a motor has been given, with the step that waits for its pulse.    *)
Due == IF stepping THEN Pulsed ELSE motor

(* Where nothing the motors see has changed.                               *)
LEMMA MotorsFrame ==
  ASSUME MotorsFollowPosition, UNCHANGED <<motor, sys_position, missed>>,
         resets' = resets \/ (resets \in Nat /\ resets' = resets + 1 /\ missed \in [Axis -> Int]),
         (reset' # "alarm") => (reset # "alarm"),
         \/ UNCHANGED <<st, stepping>>
         \/ ~stepping /\ ~stepping'
         \/ reset' = "alarm"
  PROVE  MotorsFollowPosition'
<1> SUFFICES ASSUME reset' # "alarm", NEW a \in Axis
             PROVE  /\ Due[a]' + missed'[a] = sys_position'[a]
                    /\ Abs(missed'[a]) <= resets'
  BY DEF MotorsFollowPosition, Due
<1>1. Due[a] + missed[a] = sys_position[a] /\ Abs(missed[a]) <= resets
  BY DEF MotorsFollowPosition, Due
<1>2. Due' = Due
  BY DEF Due, Pulsed
<1>3. Abs(missed'[a]) <= resets'
  BY <1>1 DEF Abs
<1> QED
  BY <1>1, <1>2, <1>3

(* One axis of what is pulsed.                                             *)
LEMMA PulsedAxis ==
  ASSUME StepTypes, NEW a \in Axis
  PROVE  /\ Pulsed[a] = motor[a] + (IF a \in st.step_outbits THEN st.dir_outbits[a] ELSE 0)
         /\ motor[a] \in Int /\ Pulsed[a] \in Int /\ st.dir_outbits[a] \in {-1, 1}
         /\ missed[a] \in Int /\ sys_position[a] \in Int
<1>1. a = "X" \/ a = "Y"
  BY DEF Axis
<1>2. /\ motor[a] \in Int /\ st.dir_outbits[a] \in {-1, 1}
      /\ missed[a] \in Int /\ sys_position[a] \in Int
  BY <1>1 DEF StepTypes
<1>3. Pulsed[a] = motor[a] + (IF a \in st.step_outbits THEN st.dir_outbits[a] ELSE 0)
  <2>1. CASE a = "X"
    BY <2>1 DEF Pulsed
  <2>2. CASE a = "Y"
    BY <2>2 DEF Pulsed
  <2> QED
    BY <1>1, <2>1, <2>2
<1> QED
  BY <1>2, <1>3

(* ... and of what the next interrupt will pulse.                          *)
LEMMA PulsedAxisNext ==
  ASSUME StepTypes', NEW a \in Axis
  PROVE  /\ Pulsed'[a] = motor'[a] + (IF a \in st'.step_outbits THEN st'.dir_outbits[a] ELSE 0)
         /\ motor'[a] \in Int /\ st'.dir_outbits[a] \in {-1, 1}
<1>1. a = "X" \/ a = "Y"
  BY DEF Axis
<1>2. motor'[a] \in Int /\ st'.dir_outbits[a] \in {-1, 1}
  BY <1>1 DEF StepTypes
<1>3. Pulsed'[a] = motor'[a] + (IF a \in st'.step_outbits THEN st'.dir_outbits[a] ELSE 0)
  <2>1. CASE a = "X"
    BY <2>1 DEF Pulsed
  <2>2. CASE a = "Y"
    BY <2>2 DEF Pulsed
  <2> QED
    BY <1>1, <2>1, <2>2
<1> QED
  BY <1>2, <1>3

(* The steps of a tick are counted now and pulsed by the next interrupt.   *)
LEMMA MotorsTick ==
  ASSUME RingInv, StepTypes, StepTypes', DirInv, MotorsFollowPosition, StepperTick
  PROVE  MotorsFollowPosition'
<1> SUFFICES ASSUME reset' # "alarm", NEW a \in Axis
             PROVE  /\ Pulsed'[a] + missed'[a] = sys_position'[a]
                    /\ Abs(missed'[a]) <= resets'
  BY DEF StepperTick, MotorsFollowPosition
<1>1. stepping /\ stepping' = stepping /\ reset # "alarm" /\ motor' = Pulsed
      /\ UNCHANGED <<missed, resets>>
  BY DEF StepperTick, control
<1>2. motor'[a] + missed[a] = sys_position[a] /\ Abs(missed[a]) <= resets
  BY <1>1 DEF MotorsFollowPosition
<1>3. PICK i :
        /\ st'.dir_outbits = DirOf(st_block_buffer[i])
        /\ sys_position' = [b \in Axis |-> IF b \in st'.step_outbits
                                           THEN sys_position[b] + Sign(st_block_buffer[i][b])
                                           ELSE sys_position[b]]
  BY TickDirections
<1>4. st'.dir_outbits[a] = Sign(st_block_buffer[i][a])
  BY <1>3 DEF DirOf
<1>5. sys_position[a] \in Int /\ missed[a] \in Int
  BY PulsedAxis
<1>6. /\ Pulsed'[a] = motor'[a] + (IF a \in st'.step_outbits THEN st'.dir_outbits[a] ELSE 0)
      /\ motor'[a] \in Int /\ st'.dir_outbits[a] \in {-1, 1}
  BY PulsedAxisNext
<1>7. sys_position'[a] = IF a \in st'.step_outbits
                         THEN sys_position[a] + Sign(st_block_buffer[i][a])
                         ELSE sys_position[a]
  BY <1>3
<1> QED
  BY <1>1, <1>2, <1>4, <1>5, <1>6, <1>7

(* A start finds the timer stopped, and begins without a step.             *)
LEMMA MotorsReturn ==
  ASSUME RingInv, StepTypes, StepTypes', TimerInv, MotorsFollowPosition, PrepReturn,
         UNCHANGED <<motor, sys_position, missed, resets>>
  PROVE  MotorsFollowPosition'
<1>1. reset' = reset
  BY DEF PrepReturn
<1>2. CASE ~wake
  BY <1>1, <1>2, MotorsFrame DEF PrepReturn
<1>3. CASE wake /\ reset # "alarm"
  <2>1. ~stepping
    BY <1>3 DEF TimerInv, StepTypes
  <2>2. stepping' = TRUE /\ st'.step_outbits = {}
    BY <1>3 DEF PrepReturn, st_wake_up, RingInv, RingTypes, StFields
  <2>3. ASSUME NEW a \in Axis
        PROVE  Pulsed'[a] + missed'[a] = sys_position'[a] /\ Abs(missed'[a]) <= resets'
    <3>1. motor[a] + missed[a] = sys_position[a] /\ Abs(missed[a]) <= resets
      BY <1>3, <2>1 DEF MotorsFollowPosition
    <3>2. Pulsed'[a] = motor'[a] + 0 /\ motor'[a] \in Int
      BY <2>2, PulsedAxisNext
    <3> QED
      BY <3>1, <3>2
  <2> QED
    BY <2>2, <2>3 DEF MotorsFollowPosition
<1>4. CASE reset = "alarm"
  BY <1>1, <1>4, MotorsFrame
<1> QED
  BY <1>2, <1>3, <1>4

(* A reset loses nothing before it is executed.                            *)
LEMMA MissedReset ==
  ASSUME StepTypes, MissedInv, mc_reset
  PROVE  MissedInv'
<1>1. resets' = resets + 1 /\ resets \in Nat /\ missed' = missed
  BY DEF mc_reset, StepTypes
<1>2. ASSUME NEW a \in Axis
      PROVE  Abs(missed'[a]) <= resets' - 1 /\ Abs(missed'[a]) <= resets'
  <2>1. Abs(missed[a]) <= resets
    BY DEF mc_reset, MissedInv
  <2>2. missed[a] \in Int
    BY DEF StepTypes
  <2> QED
    BY <1>1, <2>1, <2>2, SMT DEF Abs
<1> QED
  BY <1>2 DEF MissedInv

(* What a reset cuts off is a step that waited for its pulse.              *)
LEMMA MotorsReinit ==
  ASSUME StepTypes, StepTypes', TimerInv, MissedInv, MotorsFollowPosition, Reinit
  PROVE  MissedInv' /\ MotorsFollowPosition'
<1>1. reset' = "none" /\ resets' = resets /\ stepping' = FALSE
  BY DEF Reinit
<1>2. SUFFICES ASSUME NEW a \in Axis
               PROVE  /\ motor'[a] + missed'[a] = sys_position'[a]
                      /\ Abs(missed'[a]) <= resets'
  BY <1>1 DEF MissedInv, MotorsFollowPosition
<1>3. missed'[a] = IF reset = "alarm" THEN 0
                   ELSE IF reset = "starting" THEN sys_position[a] - motor[a]
                   ELSE missed[a]
  BY DEF Reinit
<1>4. CASE reset = "alarm"
  <2>1. motor'[a] = 0 /\ sys_position'[a] = 0
    BY <1>4 DEF Reinit, AtRest, Origin, Axis
  <2> QED
    BY <1>1, <1>3, <1>4, <2>1 DEF Abs, StepTypes
<1>5. CASE reset = "starting"
  <2>1. UNCHANGED <<motor, sys_position>>
    BY <1>5 DEF Reinit
  <2>2. Abs(missed[a]) <= resets - 1
    BY <1>5 DEF MissedInv
  <2>3. Due[a] + missed[a] = sys_position[a]
    BY <1>5 DEF MotorsFollowPosition, Due
  <2>4. Due[a] - motor[a] \in {-1, 0, 1} /\ Due[a] \in Int
    BY PulsedAxis DEF Due
  <2>5. motor[a] \in Int /\ missed[a] \in Int /\ sys_position[a] \in Int
    BY PulsedAxis
  <2>6. missed'[a] = sys_position[a] - motor[a]
    BY <1>3, <1>5
  <2>7. resets \in Nat
    BY DEF StepTypes
  <2> QED
    BY <1>1, <2>1, <2>2, <2>3, <2>4, <2>5, <2>6, <2>7 DEF Abs
<1>6. CASE reset = "quiet" \/ reset = "none"
  <2>1. ~stepping
    BY <1>6 DEF Reinit, TimerInv
  <2>2. UNCHANGED <<motor, sys_position>>
    BY <1>6 DEF Reinit
  <2>3. motor[a] + missed[a] = sys_position[a] /\ Abs(missed[a]) <= resets
    BY <1>6, <2>1 DEF MotorsFollowPosition
  <2> QED
    BY <1>1, <1>3, <1>6, <2>2, <2>3
<1> QED
  BY <1>4, <1>5, <1>6 DEF StepTypes

LEMMA PulseStep ==
  ASSUME PulseInv, [Next]_vars
  PROVE  PulseInv'
<1> USE DEF PulseInv
<1>1. RingInv' /\ DirInv' /\ TimerInv' /\ StepTypes'
  BY RingStep, DirStep, TimerStep, StepTypesStep
<1>2. MotorsFollowPosition'
  <2>1. CASE StepperTick
    BY <1>1, <2>1, MotorsTick
  <2>2. CASE StepperEmpty
    BY <2>2 DEF StepperEmpty, control, MotorsFollowPosition
  <2>3. CASE PrepCheck
    <3>1. UNCHANGED <<motor, sys_position, missed, resets>>
          /\ (PrepReturn \/ UNCHANGED <<st, stepping, reset>>)
      BY <2>3 DEF PrepCheck, Goto, control
    <3> QED
      BY <1>1, <3>1, MotorsReturn, MotorsFrame
  <2>4. CASE PrepNoStep \/ PrepForcedEnd
    BY <1>1, <2>4, MotorsReturn DEF PrepNoStep, PrepForcedEnd, control
  <2>5. CASE PrepLoad \/ (\E n, level : PrepFill(n, level)) \/ PrepPublish
    <3>1. UNCHANGED <<motor, sys_position, missed, resets, st, stepping, reset>>
      BY <2>5 DEF PrepLoad, PrepFill, PrepPublish, Goto, machine, control
    <3> QED
      BY <3>1, MotorsFrame
  <2>6. CASE CallPrep \/ (\E m \in Moves : Queue(m)) \/ Replan \/ FeedHold \/ CycleStop
             \/ CycleStart \/ BeginCycle \/ UNCHANGED vars
    <3>1. UNCHANGED <<motor, sys_position, missed, resets, st, stepping, reset>>
      BY <2>6 DEF CallPrep, Queue, Replan, FeedHold, CycleStop, CycleStart, BeginCycle,
                  machine, control, vars
    <3> QED
      BY <3>1, MotorsFrame
  <2>7. CASE mc_reset
    <3>1. UNCHANGED <<motor, sys_position, st, missed>> /\ reset = "none" /\ resets' = resets + 1
          /\ (IF InMotion THEN reset' = "alarm" ELSE reset' \in {"quiet", "starting"})
      BY <2>7 DEF mc_reset
    <3>2. ~InMotion => ~stepping /\ ~stepping'
      BY <2>7, <3>1 DEF mc_reset, TimerInv
    <3>3. resets \in Nat /\ missed \in [Axis -> Int]
      BY DEF StepTypes
    <3> QED
      BY <3>1, <3>2, <3>3, MotorsFrame
  <2>8. CASE Reinit
    BY <1>1, <2>8, MotorsReinit
  <2> QED
    BY <2>1, <2>2, <2>3, <2>4, <2>5, <2>6, <2>7, <2>8
    DEF Next, Stepper, st_prep_buffer
<1>3. MissedInv'
  <2>1. CASE UNCHANGED <<missed, resets, reset>>
    <3>1. MissedInv
      OBVIOUS
    <3> QED
      BY <2>1, <3>1 DEF MissedInv
  <2>2. CASE mc_reset
    BY <2>2, MissedReset
  <2>3. CASE Reinit
    BY <1>1, <2>3, MotorsReinit
  <2>4. UNCHANGED <<missed, resets, reset>> \/ mc_reset \/ Reinit
    BY DEF Next, Stepper, StepperTick, StepperEmpty, st_prep_buffer, PrepCheck, PrepLoad,
           PrepFill, PrepNoStep, PrepPublish, PrepForcedEnd, PrepReturn, Goto, CallPrep, Queue,
           Replan, FeedHold, CycleStop, CycleStart, BeginCycle, control, vars
  <2> QED
    BY <2>1, <2>2, <2>3, <2>4
<1> QED
  BY <1>1, <1>2, <1>3

(* Every step counted in sys_position reaches the motors once, through     *)
(* holds, underruns, starts and resets, whatever the moves and however     *)
(* their blocks are cut (stepper.c:226-250, 317-486); but for a step of an *)
(* axis that each reset taken while a cycle starts may cut off             *)
(* (protocol.c:240-359, main.c:95).                                        *)
THEOREM MotorsAlwaysFollow == Spec => []MotorsFollowPosition
<1>1. Init => PulseInv
  BY PulseInit
<1>2. PulseInv /\ [Next]_vars => PulseInv'
  BY PulseStep
<1>3. PulseInv => MotorsFollowPosition
  BY DEF PulseInv
<1> QED
  BY <1>1, <1>2, <1>3, PTL DEF Spec

-----------------------------------------------------------------------------
(* Numbers.                                                                *)

(* A set of numbers has a least one.                                       *)
LEMMA LeastNumber ==
  ASSUME NEW S \in SUBSET Nat, S # {}
  PROVE  \E n \in S : \A m \in S : n <= m
<1> DEFINE R == {p \in Nat \X Nat : p[1] < p[2]}
<1>1. IsWellFoundedOn(R, Nat)
  BY NatLessThanWellFounded, Zenon DEF OpToRel
<1>2. PICK n \in S : \A m \in S : ~(<<m, n>> \in R)
  BY <1>1, WFMin, Zenon
<1>3. ASSUME NEW m \in S PROVE n <= m
  <2>1. SUFFICES ASSUME m < n PROVE FALSE
    OBVIOUS
  <2>2. <<m, n>> \in Nat \X Nat /\ <<m, n>>[1] = m /\ <<m, n>>[2] = n
    OBVIOUS
  <2>3. <<m, n>> \in R
    BY <2>1, <2>2
  <2> QED
    BY <1>2, <2>3
<1> QED
  BY <1>3

(* What holds of 0, and of a level when it holds of the one below, holds of *)
(* every level.                                                            *)
LEMMA EveryLevel ==
  ASSUME NEW S, 0 \in S, \A n \in 1..MaxAmassLevel : n - 1 \in S => n \in S
  PROVE  \A n \in 0..MaxAmassLevel : n \in S
<1> DEFINE D == {n \in 0..MaxAmassLevel : n \notin S}
<1> SUFFICES ASSUME D # {} PROVE FALSE
  OBVIOUS
<1>1. D \in SUBSET Nat
  OBVIOUS
<1>2. PICK n \in D : \A m \in D : n <= m
  BY <1>1, LeastNumber, Zenon
<1>3. MaxAmassLevel \in Nat
  BY SegmentsAssumption
<1>4. n \in 1..MaxAmassLevel /\ n - 1 \in 0..MaxAmassLevel /\ n \notin S
  BY <1>2, <1>3
<1>5. n - 1 \in S
  BY <1>2, <1>4
<1> QED
  BY <1>4, <1>5

(* The recursion of the powers of two has its solution.                    *)
LEMMA PowersOfTwo ==
  /\ Pow2 \in [0..MaxAmassLevel -> Nat \ {0}] /\ Pow2[0] = 1
  /\ \A n \in 1..MaxAmassLevel : Pow2[n] = 2 * Pow2[n - 1]
<1> DEFINE L == 0..MaxAmassLevel
           Doubles(f, m) == /\ f \in [L -> Nat \ {0}] /\ f[0] = 1
                            /\ \A n \in 1..m : f[n] = 2 * f[n - 1]
           S == {m \in L : \E f : Doubles(f, m)}
           Body(f, n) == IF n = 0 THEN 1 ELSE 2 * f[n - 1]
<1>1. MaxAmassLevel \in Nat /\ MaxAmassLevel >= 1 /\ 0 \in L /\ MaxAmassLevel \in L
  BY SegmentsAssumption
<1>2. 0 \in S
  <2>1. Doubles([n \in L |-> 1], 0)
    BY <1>1
  <2> QED
    BY <1>1, <2>1
<1>3. ASSUME NEW m \in 1..MaxAmassLevel, m - 1 \in S PROVE m \in S
  <2>1. PICK f : Doubles(f, m - 1)
    BY <1>3
  <2>2. m \in L /\ m - 1 \in L /\ m # 0
    BY <1>1
  <2> DEFINE g == [f EXCEPT ![m] = 2 * f[m - 1]]
  <2>3. g \in [L -> Nat \ {0}] /\ g[0] = 1 /\ g[m] = 2 * f[m - 1]
        /\ \A n \in L : n # m => g[n] = f[n]
    <3>1. f[m - 1] \in Nat \ {0}
      BY <2>1, <2>2
    <3>2. 2 * f[m - 1] \in Nat \ {0}
      BY <3>1
    <3> QED
      BY <1>1, <2>1, <2>2, <3>2
  <2>4. ASSUME NEW n \in 1..m PROVE g[n] = 2 * g[n - 1]
    <3>1. n \in L /\ n - 1 \in L /\ n - 1 # m
      BY <1>1
    <3>2. CASE n = m
      BY <2>3, <3>1, <3>2
    <3>3. CASE n # m
      <4>1. n \in 1..m - 1
        BY <3>3
      <4> QED
        BY <2>1, <2>3, <3>1, <3>3, <4>1
    <3> QED
      BY <3>2, <3>3
  <2>5. Doubles(g, m)
    BY <2>3, <2>4
  <2> QED
    BY <2>2, <2>5
<1>4. MaxAmassLevel \in S
  <2> HIDE DEF S
  <2> QED
    BY <1>1, <1>2, <1>3, EveryLevel
<1>5. PICK f : Doubles(f, MaxAmassLevel)
  BY <1>4
<1>6. f = [n \in L |-> Body(f, n)]
  <2>1. ASSUME NEW n \in L PROVE f[n] = Body(f, n)
    <3>1. n = 0 \/ n \in 1..MaxAmassLevel
      BY <1>1
    <3> QED
      BY <1>5, <3>1
  <2>2. f = [n \in L |-> f[n]]
    BY <1>5
  <2> HIDE DEF Body
  <2> QED
    BY <2>1, <2>2
<1>7. Pow2 = CHOOSE h : h = [n \in L |-> Body(h, n)]
  BY Zenon DEF Pow2
<1>8. PICK h : h = Pow2
  OBVIOUS
<1>9. h = [n \in L |-> Body(h, n)]
  <2> HIDE DEF Body, L
  <2> QED
    BY <1>6, <1>7, <1>8, Zenon
<1>10. /\ h[0] = 1 /\ \A n \in 1..MaxAmassLevel : h[n] = 2 * h[n - 1]
  <2>1. \A n \in L : h[n] = IF n = 0 THEN 1 ELSE 2 * h[n - 1]
    BY <1>9
  <2>2. \A n \in 1..MaxAmassLevel : n \in L /\ n # 0
    BY <1>1
  <2> QED
    BY <1>1, <2>1, <2>2
<1>11. \A n \in L : h[n] \in Nat \ {0}
  <2> DEFINE T == {n \in L : h[n] \in Nat \ {0}}
  <2>1. 0 \in T
    BY <1>1, <1>10
  <2>2. ASSUME NEW n \in 1..MaxAmassLevel, n - 1 \in T PROVE n \in T
    BY <1>1, <1>10, <2>2
  <2> HIDE DEF T
  <2>3. \A n \in L : n \in T
    BY <2>1, <2>2, EveryLevel
  <2> QED
    BY <2>3 DEF T
<1>12. h \in [L -> Nat \ {0}]
  <2> HIDE DEF Body
  <2> QED
    BY <1>9, <1>11
<1> QED
  BY <1>8, <1>10, <1>12

(* A power of two is divided by every lower one.                           *)
LEMMA LowerPower ==
  ASSUME NEW l \in 0..MaxAmassLevel
  PROVE  \E q \in Nat \ {0} : Pow2[MaxAmassLevel] = q * Pow2[l]
<1> DEFINE S == {n \in 0..MaxAmassLevel : n >= l => \E q \in Nat \ {0} : Pow2[n] = q * Pow2[l]}
<1>1. MaxAmassLevel \in Nat /\ 0 \in 0..MaxAmassLevel /\ Pow2[l] \in Nat
  BY SegmentsAssumption, PowersOfTwo
<1>2. \E q \in Nat \ {0} : Pow2[l] = q * Pow2[l]
  <2>1. 1 \in Nat \ {0} /\ Pow2[l] = 1 * Pow2[l]
    BY <1>1
  <2> QED
    BY <2>1
<1>3. 0 \in S
  BY <1>1, <1>2
<1>4. ASSUME NEW n \in 1..MaxAmassLevel, n - 1 \in S PROVE n \in S
  <2>1. n \in 0..MaxAmassLevel /\ Pow2[n] = 2 * Pow2[n - 1]
    BY <1>1, PowersOfTwo
  <2>2. CASE n = l
    BY <1>2, <2>1, <2>2
  <2>3. CASE n # l
    <3>1. SUFFICES ASSUME n >= l PROVE \E q \in Nat \ {0} : Pow2[n] = q * Pow2[l]
      BY <2>1
    <3>2. n - 1 >= l
      BY <2>3, <3>1
    <3>3. PICK q \in Nat \ {0} : Pow2[n - 1] = q * Pow2[l]
      BY <1>4, <3>2
    <3>4. Pow2[n] = 2 * (q * Pow2[l])
      BY <2>1, <3>3
    <3>5. 2 * q \in Nat \ {0} /\ Pow2[n] = (2 * q) * Pow2[l]
      <4> DEFINE p == Pow2[l]
      <4>1. p \in Nat
        BY <1>1
      <4> HIDE DEF p
      <4>2. 2 * (q * p) = (2 * q) * p
        BY <4>1
      <4> QED
        BY <3>4, <4>2 DEF p
    <3> QED
      BY <3>5
  <2> QED
    BY <2>2, <2>3
<1> HIDE DEF S
<1>5. MaxAmassLevel \in 0..MaxAmassLevel
  BY <1>1
<1>6. MaxAmassLevel \in S
  BY <1>3, <1>4, <1>5, EveryLevel
<1> QED
  BY <1>1, <1>6 DEF S

(* Dividing what was multiplied.                                           *)
LEMMA DivideProduct ==
  ASSUME NEW a \in Nat, NEW d \in Nat \ {0}
  PROVE  (a * d) \div d = a
OBVIOUS

(* What a tick adds at a level, taken by as many ticks as make up a step.  *)
LEMMA TickShare ==
  ASSUME NEW x \in Nat, NEW l \in 0..MaxAmassLevel
  PROVE  /\ (x * Pow2[MaxAmassLevel]) \div Pow2[l] \in Nat
         /\ Pow2[l] * ((x * Pow2[MaxAmassLevel]) \div Pow2[l]) = x * Pow2[MaxAmassLevel]
         /\ (x * Pow2[MaxAmassLevel]) \div Pow2[l] <= x * Pow2[MaxAmassLevel]
<1>1. PICK q \in Nat \ {0} : Pow2[MaxAmassLevel] = q * Pow2[l]
  BY LowerPower
<1>2. PICK p : p = Pow2[l]
  OBVIOUS
<1>3. p \in Nat \ {0}
  BY <1>2, PowersOfTwo
<1>4. x * (q * p) = (x * q) * p /\ x * q \in Nat /\ p * (x * q) = x * (q * p)
  BY <1>3
<1>5. ((x * q) * p) \div p = x * q
  BY <1>3, <1>4, DivideProduct
<1>6. x * q <= (x * q) * p
  <2>1. PICK y : y = x * q
    OBVIOUS
  <2>2. y \in Nat
    BY <1>4, <2>1
  <2>3. y <= y * p
    BY <1>3, <2>2
  <2> QED
    BY <2>1, <2>3
<1> QED
  BY <1>1, <1>2, <1>4, <1>5, <1>6

-----------------------------------------------------------------------------
(* Blocks and their segments.                                              *)

Position == [Axis -> Int]

(* st_prep_buffer is not done with the first block.                        *)
Active == pl_block \/ prep.recalculate

(* The segments made, the one not yet published included, and the slot     *)
(* behind them.                                                            *)
Made == IF pc = "publish" THEN Live \cup {segment_buffer_head} ELSE Live
MadeEnd == IF pc = "publish" THEN segment_next_head ELSE segment_buffer_head

(* The slot of the segment the interrupt takes up next.                    *)
Upcoming == IF st.exec_segment = NULL THEN segment_buffer_tail
            ELSE NextSegment(segment_buffer_tail)

(* Before a segment g there is a block at slot i of the data B with r      *)
(* steps left, which ends at p; behind it one at j with q left, up to e.   *)
(* The segment goes on with its block, or is the first of the next.        *)
CutsOff(g, B, i, r, p, j, q, e) ==
  \E n \in Nat \ {0}, l \in 0..MaxAmassLevel :
    /\ g.n_step = n * Pow2[l] /\ g.amass_level = l /\ g.st_block_index = j
    /\ B[j] \in Moves
    /\ \/ j = i /\ r = q + n /\ e = p
       \/ j = st_next_block_index(i) /\ r = 0 /\ Events(B[j]) = q + n /\ e = Plus(p, B[j])

(* Every segment made is cut off where I, R and G say.                     *)
MadeInv(I, R, G) ==
  \A s \in Made : LET t == NextSegment(s)
                  IN  CutsOff(segment_buffer[s], st_block_buffer,
                              I[s], R[s], G[s], I[t], R[t], G[t])

(* The block st_prep_buffer is at ends at E: it is that of the last        *)
(* segment made, or no segment of it is made yet.                          *)
PrepLink(i, r, p, E) ==
  LET b == st_block_buffer[prep.st_block_index]
  IN  /\ Active => b \in Moves
      /\ ~Active => prep.steps_remaining = 0
      /\ \/ prep.st_block_index = i /\ prep.steps_remaining = r /\ E = p
         \/ /\ Active /\ pc # "publish"
            /\ prep.st_block_index = st_next_block_index(i) /\ r = 0
            /\ prep.steps_remaining = Events(b) /\ E = Plus(p, b)

(* From there the blocks of the queue lead to the planner's position.      *)
QueueLink(E) ==
  \E q \in [0..Len(blocks) -> Position] :
    /\ q[IF Active THEN 1 ELSE 0] = E /\ q[Len(blocks)] = pl_position
    /\ \A k \in 1..Len(blocks) : q[k] = Plus(q[k - 1], blocks[k])

(* What a tick adds to a counter, where the counters begin, and how many   *)
(* steps an axis is from the end.                                          *)
Share(x, l) == (Abs(x) * Pow2[MaxAmassLevel]) \div Pow2[l]
Half(b) == (Events(b) * Pow2[MaxAmassLevel]) \div 2
StepsTo(x, from, to) == IF x < 0 THEN from - to ELSE to - from

(* What the w ticks to come of the segment in execution, and the r steps   *)
(* of its block that follow, add to the counters is what the steps still   *)
(* to be made take off.                                                    *)
Balance(s, from, to, b, w, r) ==
  \A a \in Axis :
    LET count == Events(b) * Pow2[MaxAmassLevel]
    IN  /\ s.counter[a] \in 0..count
        /\ s.counter[a] + w * Share(b[a], s.level) + r * (Abs(b[a]) * Pow2[MaxAmassLevel])
             = Half(b) + count * StepsTo(b[a], from[a], to[a])

(* The ticks to come of the segment in execution.                          *)
TicksLeft == IF st.exec_segment = NULL THEN 0 ELSE st.step_count

(* The interrupt is in the block at slot i, which ends at p.               *)
ExecLink(i, r, p) ==
  LET b == st_block_buffer[st.exec_block_index]
  IN  /\ st.exec_block_index = i /\ goal = p
      /\ st.level \in 0..MaxAmassLevel
      /\ st.exec_segment # NULL => st.step_count \in Nat \ {0}
      /\ IF TicksLeft = 0 /\ r = 0 THEN sys_position = goal
         ELSE b \in Moves /\ Balance(st, sys_position, goal, b, TicksLeft, r)

(* Along the ring: I is the slot of the data of the block before a         *)
(* segment, R the steps of it left, G where it ends; and E is where the    *)
(* block that st_prep_buffer is at ends.                                   *)
CutInv ==
  \E I \in [SegmentIndex -> StBlockIndex], R \in [SegmentIndex -> Nat],
     G \in [SegmentIndex -> Position], E \in Position :
    /\ MadeInv(I, R, G)
    /\ PrepLink(I[MadeEnd], R[MadeEnd], G[MadeEnd], E)
    /\ QueueLink(E)
    /\ ExecLink(I[Upcoming], R[Upcoming], G[Upcoming])

(* The types the cuts need, and where st_prep_buffer has a block.          *)
PrepTypes ==
  /\ blocks \in Seq(Moves) /\ pl_position \in Position /\ goal \in Position
  /\ prep.steps_remaining \in Nat
  /\ Active => blocks # << >>
  /\ pc = "load" => blocks # << >>
  /\ pc \in {"fill", "publish"} => pl_block /\ ~prep.recalculate

BlockInv == PulseInv /\ PrepTypes /\ CutInv

(* The largest of its moves is that of a block's events.                   *)
LEMMA EventsOf ==
  ASSUME NEW b \in Moves
  PROVE  /\ b \in Position /\ Events(b) \in Nat \ {0}
         /\ \A a \in Axis : Abs(b[a]) \in Nat /\ Abs(b[a]) <= Events(b)
<1>1. b \in [Axis -> Int] /\ (b["X"] # 0 \/ b["Y"] # 0)
  BY SegmentsAssumption
<1>2. PICK x, y \in Int : x = b["X"] /\ y = b["Y"]
  BY <1>1 DEF Axis
<1> QED
  BY <1>1, <1>2 DEF Position, Events, Abs, Axis

(* The event count is even.                                                *)
LEMMA HalfOf ==
  ASSUME NEW b \in Moves
  PROVE  /\ Half(b) \in Nat \ {0}
         /\ Events(b) * Pow2[MaxAmassLevel] = 2 * Half(b)
<1>1. MaxAmassLevel \in 1..MaxAmassLevel /\ MaxAmassLevel - 1 \in 0..MaxAmassLevel
  BY SegmentsAssumption
<1>2. Pow2[MaxAmassLevel] = 2 * Pow2[MaxAmassLevel - 1] /\ Pow2[MaxAmassLevel - 1] \in Nat \ {0}
  BY <1>1, PowersOfTwo
<1>3. PICK n \in Nat \ {0}, p \in Nat \ {0} : n = Events(b) /\ p = Pow2[MaxAmassLevel - 1]
  BY <1>2, EventsOf
<1>4. n * (2 * p) = 2 * (n * p) /\ n * p \in Nat \ {0}
  OBVIOUS
<1>5. (2 * (n * p)) \div 2 = n * p
  BY <1>4
<1> QED
  BY <1>2, <1>3, <1>4, <1>5 DEF Half

(* The Bresenham counter of one axis: k of C, c ticks of this segment to   *)
(* come that add m each, z to follow, d steps to be made.                  *)
LEMMA TickAxis ==
  ASSUME NEW C \in Nat, NEW k \in 0..C, NEW m \in 0..C, NEW c \in Nat \ {0}, NEW z \in Nat,
         NEW h \in Nat, NEW d \in Int, k + c * m + z = h + C * d
  PROVE  /\ k + m > C => k + m - C \in 0..C /\ (k + m - C) + (c - 1) * m + z = h + C * (d - 1)
         /\ ~(k + m > C) => k + m \in 0..C /\ (k + m) + (c - 1) * m + z = h + C * d
<1>1. PICK u \in Int, v \in Int : u = c * m /\ v = C * d
  OBVIOUS
<1>2. (c - 1) * m = u - m /\ C * (d - 1) = v - C
  BY <1>1
<1> QED
  BY <1>1, <1>2

(* With nothing to be added, no step is left.                              *)
LEMMA NoStepLeft ==
  ASSUME NEW h \in Nat \ {0}, NEW k \in 0..2 * h, NEW d \in Int, k = h + (2 * h) * d
  PROVE  d = 0
<1>1. d >= 1 => (2 * h) * d >= 2 * h
  OBVIOUS
<1>2. d <= -1 => (2 * h) * d <= -(2 * h)
  OBVIOUS
<1>3. (2 * h) * d \in Int
  OBVIOUS
<1> QED
  BY <1>1, <1>2, <1>3

(* The ticks of a segment of n steps at level l, and the q steps after it, *)
(* add what n + q steps do.                                                *)
SameShare(x, l, n, q) ==
  (n * Pow2[l]) * ((x * Pow2[MaxAmassLevel]) \div Pow2[l]) + q * (x * Pow2[MaxAmassLevel])
    = (q + n) * (x * Pow2[MaxAmassLevel])

(* They add the same at every level.                                       *)
LEMMA SegmentShare ==
  ASSUME NEW x \in Nat, NEW l \in 0..MaxAmassLevel, NEW n \in Nat, NEW q \in Nat
  PROVE  SameShare(x, l, n, q)
<1>1. PICK s \in Nat, y \in Nat, p \in Nat :
        /\ s = (x * Pow2[MaxAmassLevel]) \div Pow2[l]
        /\ y = x * Pow2[MaxAmassLevel]
        /\ p = Pow2[l] /\ p * s = y
  <2>1. Pow2[l] \in Nat /\ Pow2[MaxAmassLevel] \in Nat
    BY PowersOfTwo, SegmentsAssumption
  <2>2. x * Pow2[MaxAmassLevel] \in Nat
    BY <2>1
  <2> QED
    BY <2>1, <2>2, TickShare
<1>2. (n * p) * s = n * (p * s)
  OBVIOUS
<1>3. n * y + q * y = (q + n) * y
  OBVIOUS
<1> QED
  BY <1>1, <1>2, <1>3 DEF SameShare

(* The counters and positions a tick leaves.                               *)
LEMMA TickCounts ==
  ASSUME NEW s, DOMAIN s = StFields, Tick(s)
  PROVE  LET b == st_block_buffer[s.exec_block_index]
             count == Events(b) * Pow2[MaxAmassLevel]
             sum(a) == s.counter[a] + Share(b[a], s.level)
         IN  /\ \A a \in Axis : st'.counter[a] = IF sum(a) > count THEN sum(a) - count ELSE sum(a)
             /\ sys_position' = [a \in Axis |-> IF sum(a) > count
                                                THEN sys_position[a] + Sign(b[a])
                                                ELSE sys_position[a]]
             /\ st'.step_count = s.step_count - 1
             /\ st'.level = s.level /\ st'.exec_block_index = s.exec_block_index
             /\ st'.exec_segment = IF s.step_count = 1 THEN NULL ELSE s.exec_segment
             /\ segment_buffer_tail' = IF s.step_count = 1 THEN NextSegment(segment_buffer_tail)
                                       ELSE segment_buffer_tail
<1> DEFINE b == st_block_buffer[s.exec_block_index]
           count == Events(b) * Pow2[MaxAmassLevel]
           sum(a) == s.counter[a] + Share(b[a], s.level)
           steps == {a \in Axis : sum(a) > count}
           counter == [a \in Axis |-> IF a \in steps THEN sum(a) - count ELSE sum(a)]
           last == s.step_count = 1
<1>1. /\ st' = [s EXCEPT !.counter = counter, !.step_outbits = steps,
                         !.step_outbits_dual = "X" \in steps,
                         !.step_count = @ - 1,
                         !.exec_segment = IF last THEN NULL ELSE @]
      /\ sys_position' = [a \in Axis |-> IF a \in steps THEN sys_position[a] + Sign(b[a])
                                         ELSE sys_position[a]]
      /\ segment_buffer_tail' = IF last THEN NextSegment(segment_buffer_tail)
                                ELSE segment_buffer_tail
  BY Zenon DEF Tick, Share
<1>2. \A a \in Axis : a \in steps <=> sum(a) > count
  OBVIOUS
<1>3. \A a \in Axis : counter[a] = IF sum(a) > count THEN sum(a) - count ELSE sum(a)
  BY <1>2
<1>4. sys_position' = [a \in Axis |-> IF sum(a) > count THEN sys_position[a] + Sign(b[a])
                                      ELSE sys_position[a]]
  BY <1>1, <1>2
<1> HIDE DEF steps, counter, last
<1>5. /\ st'.counter = counter
      /\ st'.step_count = s.step_count - 1
      /\ st'.level = s.level /\ st'.exec_block_index = s.exec_block_index
      /\ st'.exec_segment = IF last THEN NULL ELSE s.exec_segment
  BY <1>1 DEF StFields
<1> QED
  BY <1>1, <1>3, <1>4, <1>5 DEF last

(* A tick keeps the balance, and the last of a block ends on its target.   *)
LEMMA TickBalance ==
  ASSUME NEW s, DOMAIN s = StFields, Tick(s), sys_position \in Position,
         NEW e \in Position, NEW b \in Moves, b = st_block_buffer[s.exec_block_index],
         s.step_count \in Nat \ {0}, s.level \in 0..MaxAmassLevel,
         NEW r \in Nat, Balance(s, sys_position, e, b, s.step_count, r)
  PROVE  /\ Balance(st', sys_position', e, b, s.step_count - 1, r)
         /\ s.step_count = 1 /\ r = 0 => sys_position' = e
<1>1. PICK C \in Nat, h \in Nat \ {0}, c \in Nat \ {0}, P \in Nat :
        /\ C = Events(b) * Pow2[MaxAmassLevel] /\ C = 2 * h /\ h = Half(b)
        /\ c = s.step_count /\ P = Pow2[MaxAmassLevel]
  <2>1. Pow2[MaxAmassLevel] \in Nat
    BY PowersOfTwo, SegmentsAssumption
  <2>2. Half(b) \in Nat \ {0} /\ Events(b) * Pow2[MaxAmassLevel] = 2 * Half(b)
    BY HalfOf
  <2>3. 2 * Half(b) \in Nat
    BY <2>2
  <2> QED
    BY <2>1, <2>2, <2>3
<1>2. ASSUME NEW a \in Axis
      PROVE  /\ st'.counter[a] \in 0..C
             /\ st'.counter[a] + (c - 1) * Share(b[a], s.level) + r * (Abs(b[a]) * P)
                  = h + C * StepsTo(b[a], sys_position'[a], e[a])
             /\ c = 1 /\ r = 0 => sys_position'[a] = e[a]
  <2>1. PICK x \in Int, y \in Int, z \in Int : x = b[a] /\ y = sys_position[a] /\ z = e[a]
    BY EventsOf DEF Position
  <2>2. PICK m \in 0..C, w \in Nat : m = Share(b[a], s.level) /\ w = r * (Abs(b[a]) * P)
    <3>1. PICK v \in Nat : v = Abs(b[a]) /\ v <= Events(b) /\ Events(b) \in Nat
      BY EventsOf
    <3>2. v * P <= Events(b) * P /\ v * P \in Nat
      BY <3>1
    <3>3. r * (v * P) \in Nat
      BY <3>2
    <3>4. Share(b[a], s.level) \in Nat /\ Share(b[a], s.level) <= v * P
      BY <1>1, <3>1, TickShare DEF Share
    <3> QED
      BY <1>1, <3>1, <3>2, <3>3, <3>4
  <2>3. PICK k \in 0..C, d \in Int :
          /\ k = s.counter[a] /\ d = StepsTo(x, y, z)
          /\ k + c * m + w = h + C * d
    <3>1. StepsTo(x, y, z) \in Int
      BY DEF StepsTo
    <3>2. s.counter[a] \in 0..C
      BY <1>1 DEF Balance
    <3>3. s.counter[a] + s.step_count * Share(b[a], s.level) + r * (Abs(b[a]) * Pow2[MaxAmassLevel])
            = Half(b) + (Events(b) * Pow2[MaxAmassLevel]) * StepsTo(b[a], sys_position[a], e[a])
      BY Zenon DEF Balance
    <3> QED
      BY <1>1, <2>1, <2>2, <3>1, <3>2, <3>3
  <2>4. /\ st'.counter[a] = IF k + m > C THEN k + m - C ELSE k + m
        /\ sys_position'[a] = IF k + m > C THEN y + Sign(x) ELSE y
    BY <1>1, <2>1, <2>2, <2>3, TickCounts
  <2>5. PICK f \in Int : f = StepsTo(x, sys_position'[a], z) /\ f = IF k + m > C THEN d - 1 ELSE d
    BY <2>3, <2>4 DEF StepsTo, Sign
  <2>6. /\ st'.counter[a] \in 0..C
        /\ st'.counter[a] + (c - 1) * m + w = h + C * f
    BY <2>3, <2>4, <2>5, TickAxis
  <2>7. ASSUME c = 1, r = 0 PROVE sys_position'[a] = z
    <3>1. w = 0
      <4>1. PICK v \in Nat : v = Abs(b[a]) * P
        <5>1. Abs(b[a]) \in Nat
          BY EventsOf
        <5>2. Abs(b[a]) * P \in Nat
          BY <5>1
        <5> QED
          BY <5>2
      <4> QED
        BY <2>2, <2>7, <4>1
    <3>2. (c - 1) * m = 0
      BY <2>7
    <3>3. PICK j \in 0..2 * h : j = st'.counter[a]
      BY <1>1, <2>6
    <3>4. j = h + (2 * h) * f
      BY <1>1, <2>6, <3>1, <3>2, <3>3
    <3>5. f = 0
      BY <3>4, NoStepLeft
    <3>6. sys_position'[a] \in Int
      BY <2>4 DEF Sign
    <3> QED
      BY <2>5, <3>5, <3>6 DEF StepsTo
  <2> QED
    BY <2>1, <2>2, <2>5, <2>6, <2>7
<1>3. st'.level = s.level
  BY TickCounts
<1>4. Balance(st', sys_position', e, b, s.step_count - 1, r)
  BY <1>1, <1>2, <1>3 DEF Balance
<1>5. ASSUME s.step_count = 1, r = 0 PROVE sys_position' = e
  <2>1. \A a \in Axis : sys_position'[a] = e[a]
    BY <1>1, <1>2, <1>5
  <2>2. sys_position' = [a \in Axis |-> sys_position'[a]]
    BY TickCounts
  <2>3. e = [a \in Axis |-> e[a]]
    BY DEF Position
  <2> QED
    BY <2>1, <2>2, <2>3
<1> QED
  BY <1>4, <1>5

(* The slot after a slot of block data is another one.                     *)
LEMMA NextBlockDiffers ==
  ASSUME NEW i \in StBlockIndex
  PROVE  st_next_block_index(i) # i
BY SegmentsAssumption DEF StBlockIndex, st_next_block_index

(* The ticks of no segment add nothing.                                    *)
LEMMA NoTicks ==
  ASSUME NEW x \in Int, NEW l \in 0..MaxAmassLevel
  PROVE  0 * Share(x, l) = 0
<1>1. Abs(x) \in Nat
  BY DEF Abs
<1>2. Share(x, l) \in Nat
  BY <1>1, TickShare DEF Share
<1> QED
  BY <1>2

(* A segment taken up is in balance with its block, whether it goes on     *)
(* with it or begins it.                                                   *)
LEMMA LoadBalance ==
  ASSUME RingTypes, sys_position \in Position, goal \in Position, st.exec_segment = NULL,
         NEW r \in Nat, NEW q \in Nat, NEW i \in StBlockIndex, NEW j \in StBlockIndex,
         NEW e \in Position,
         ExecLink(i, r, goal), CutsOff(Popped, st_block_buffer, i, r, goal, j, q, e)
  PROVE  /\ j = Popped.st_block_index /\ i = st.exec_block_index
         /\ LoadSegment.exec_block_index = j /\ st_block_buffer[j] \in Moves
         /\ LoadSegment.step_count \in Nat \ {0} /\ LoadSegment.level \in 0..MaxAmassLevel
         /\ e = (IF j = i THEN goal ELSE Plus(goal, st_block_buffer[j]))
         /\ Balance(LoadSegment, sys_position, e, st_block_buffer[j], LoadSegment.step_count, q)
<1> DEFINE b == st_block_buffer[j]
<1>1. PICK n \in Nat \ {0}, l \in 0..MaxAmassLevel :
        /\ Popped.n_step = n * Pow2[l] /\ Popped.amass_level = l /\ Popped.st_block_index = j
        /\ b \in Moves
        /\ \/ j = i /\ r = q + n /\ e = goal
           \/ j = st_next_block_index(i) /\ r = 0 /\ Events(b) = q + n /\ e = Plus(goal, b)
  BY DEF CutsOff
<1>2. st.exec_block_index = i /\ TicksLeft = 0 /\ st.level \in 0..MaxAmassLevel
  BY DEF ExecLink, TicksLeft
<1>3. PICK N \in Nat \ {0} : N = n * Pow2[l]
  <2>1. PICK p \in Nat \ {0} : p = Pow2[l]
    BY PowersOfTwo
  <2>2. n * p \in Nat \ {0}
    OBVIOUS
  <2> QED
    BY <2>1, <2>2
<1>4. /\ LoadSegment.step_count = N /\ LoadSegment.level = l
      /\ LoadSegment.exec_block_index = j
      /\ LoadSegment.counter = IF i # j THEN [a \in Axis |-> Half(b)] ELSE st.counter
  BY <1>1, <1>2, <1>3 DEF LoadSegment, RingTypes, StFields, Half
<1>5. e = IF j = i THEN goal ELSE Plus(goal, b)
  BY <1>1, NextBlockDiffers
<1>6. PICK C \in Nat, P \in Nat :
        C = Events(b) * Pow2[MaxAmassLevel] /\ P = Pow2[MaxAmassLevel] /\ C = Events(b) * P
        /\ C = 2 * Half(b) /\ Half(b) \in Nat
  <2>1. Pow2[MaxAmassLevel] \in Nat
    BY PowersOfTwo, SegmentsAssumption
  <2>2. Half(b) \in Nat \ {0} /\ Events(b) * Pow2[MaxAmassLevel] = 2 * Half(b)
    BY <1>1, HalfOf
  <2>3. 2 * Half(b) \in Nat
    BY <2>2
  <2> QED
    BY <2>1, <2>2, <2>3
<1>7. ASSUME NEW a \in Axis
      PROVE  /\ LoadSegment.counter[a] \in 0..C
             /\ LoadSegment.counter[a] + N * Share(b[a], l) + q * (Abs(b[a]) * P)
                  = Half(b) + C * StepsTo(b[a], sys_position[a], e[a])
  <2>1. PICK x \in Int, v \in Nat : x = b[a] /\ v = Abs(x) /\ v = Abs(b[a])
    BY <1>1, EventsOf DEF Position
  <2>2. N * Share(x, l) + q * (v * P) = (q + n) * (v * P)
    <3>1. (n * Pow2[l]) * ((v * Pow2[MaxAmassLevel]) \div Pow2[l])
             + q * (v * Pow2[MaxAmassLevel]) = (q + n) * (v * Pow2[MaxAmassLevel])
      <4>1. SameShare(v, l, n, q)
        BY SegmentShare
      <4> QED
        BY <4>1 DEF SameShare
    <3>2. Share(x, l) = (v * Pow2[MaxAmassLevel]) \div Pow2[l]
      BY <2>1 DEF Share
    <3> QED
      BY <1>3, <1>6, <3>1, <3>2, Zenon
  <2>3. PICK S \in Nat, y \in Nat, z \in Nat :
          S = N * Share(x, l) /\ y = q * (v * P) /\ z = (q + n) * (v * P) /\ S + y = z
    <3>1. Share(x, l) \in Nat
      BY <2>1, TickShare DEF Share
    <3>2. N * Share(x, l) \in Nat /\ q * (v * P) \in Nat /\ (q + n) * (v * P) \in Nat
      <4>1. v * P \in Nat
        OBVIOUS
      <4> QED
        BY <3>1, <4>1
    <3> QED
      BY <2>2, <3>2
  <2>4. CASE j = i
    <3>1. r = q + n /\ r # 0 /\ e = goal
      BY <1>1, <2>4, NextBlockDiffers
    <3>2. Balance(st, sys_position, goal, b, 0, r)
      BY <1>2, <2>4, <3>1 DEF ExecLink
    <3>3. PICK k \in 0..C : k = st.counter[a]
      BY <1>6, <3>2 DEF Balance
    <3>4. k + 0 * Share(x, st.level) + r * (v * P)
            = Half(b) + C * StepsTo(x, sys_position[a], goal[a])
      BY <1>6, <2>1, <3>2, <3>3, Zenon DEF Balance
    <3>5. 0 * Share(x, st.level) = 0
      BY <1>2, NoTicks
    <3>6. k + z = Half(b) + C * StepsTo(x, sys_position[a], goal[a])
      BY <2>3, <3>1, <3>4, <3>5
    <3>7. (k + S) + y = k + z
      BY <2>3
    <3>8. LoadSegment.counter[a] = k
      BY <1>4, <2>4, <3>3
    <3> QED
      BY <2>1, <2>3, <3>1, <3>3, <3>6, <3>7, <3>8, Zenon
  <2>5. CASE j # i
    <3>1. r = 0 /\ Events(b) = q + n /\ e = Plus(goal, b)
      BY <1>1, <2>5
    <3>2. sys_position = goal
      BY <1>2, <3>1 DEF ExecLink
    <3>3. PICK g \in Int : g = goal[a]
      BY DEF Position
    <3>4. e[a] = g + x
      BY <2>1, <3>1, <3>3 DEF Plus
    <3>5. StepsTo(x, sys_position[a], e[a]) = v
      BY <2>1, <3>2, <3>3, <3>4 DEF StepsTo, Abs
    <3>6. LoadSegment.counter[a] = Half(b)
      BY <1>4, <2>5
    <3>7. z = C * v
      <4>1. z = (q + n) * (v * P)
        BY <2>3
      <4>2. (q + n) * (v * P) = ((q + n) * P) * v
        OBVIOUS
      <4> QED
        BY <1>6, <3>1, <4>1, <4>2
    <3>8. (Half(b) + S) + y = Half(b) + C * v
      BY <1>6, <2>3, <3>7
    <3>9. Half(b) \in 0..C
      BY <1>6
    <3> QED
      BY <2>1, <2>3, <3>5, <3>6, <3>8, <3>9, Zenon
  <2> QED
    BY <2>4, <2>5
<1>8. Balance(LoadSegment, sys_position, e, b, N, q)
  BY <1>4, <1>6, <1>7, Zenon DEF Balance
<1> QED
  BY <1>1, <1>2, <1>3, <1>4, <1>5, <1>8

(* A tick of a segment in balance with its block leaves the interrupt in   *)
(* that block, and the segment after it to come.                           *)
LEMMA ExecTick ==
  ASSUME NEW s, DOMAIN s = StFields, Tick(s), sys_position \in Position,
         s.exec_segment # NULL, NEW j, j = s.exec_block_index,
         NEW e \in Position, st_block_buffer[j] \in Moves,
         s.step_count \in Nat \ {0}, s.level \in 0..MaxAmassLevel,
         NEW r \in Nat, Balance(s, sys_position, e, st_block_buffer[j], s.step_count, r),
         st_block_buffer' = st_block_buffer, goal' = e
  PROVE  ExecLink(j, r, e)' /\ Upcoming' = NextSegment(segment_buffer_tail)
<1>1. /\ st'.step_count = s.step_count - 1
      /\ st'.level = s.level /\ st'.exec_block_index = j
      /\ st'.exec_segment = IF s.step_count = 1 THEN NULL ELSE s.exec_segment
      /\ segment_buffer_tail' = IF s.step_count = 1 THEN NextSegment(segment_buffer_tail)
                                ELSE segment_buffer_tail
  BY TickCounts
<1>2. PICK c \in Nat \ {0} : c = s.step_count
  OBVIOUS
<1>3. TicksLeft' = c - 1
  BY <1>1, <1>2 DEF TicksLeft
<1>4. /\ Balance(st', sys_position', e, st_block_buffer[j], c - 1, r)
      /\ c = 1 /\ r = 0 => sys_position' = e
  BY <1>2, TickBalance
<1>5. Upcoming' = NextSegment(segment_buffer_tail)
  BY <1>1 DEF Upcoming
<1>6. st'.exec_segment # NULL => st'.step_count \in Nat \ {0}
  BY <1>1, <1>2
<1>7. c - 1 = 0 => c = 1
  BY <1>2
<1>8. ExecLink(j, r, e)'
  BY <1>1, <1>3, <1>4, <1>6, <1>7 DEF ExecLink, Balance
<1> QED
  BY <1>5, <1>8

(* A tail that is not the head is the slot of a live segment.              *)
LEMMA TailIsLive ==
  ASSUME RingTypes, segment_buffer_tail # segment_buffer_head
  PROVE  segment_buffer_tail \in Live
BY SegmentsAssumption DEF RingTypes, Live, SegmentIndex

(* A stepper interrupt: the segment it takes up is cut from the block      *)
(* whose data it reads, and its tick keeps the balance.                    *)
LEMMA CutTick ==
  ASSUME BlockInv, StepperTick
  PROVE  CutInv'
<1> USE DEF BlockInv, PulseInv
<1>0. RingInv /\ RingTypes /\ RingInv' /\ sys_position \in Position /\ goal \in Position
  BY RingTick DEF RingInv, StepTypes, PrepTypes, Position
<1>1. PICK I \in [SegmentIndex -> StBlockIndex], R \in [SegmentIndex -> Nat],
           G \in [SegmentIndex -> Position], E \in Position :
        /\ MadeInv(I, R, G)
        /\ PrepLink(I[MadeEnd], R[MadeEnd], G[MadeEnd], E)
        /\ QueueLink(E)
        /\ ExecLink(I[Upcoming], R[Upcoming], G[Upcoming])
  BY DEF CutInv
<1>2. /\ UNCHANGED <<blocks, pl_position, segment_buffer, segment_buffer_head, segment_next_head,
                     st_block_buffer, prep, pl_block, pc>>
      /\ segment_buffer_tail # segment_buffer_head
  BY DEF StepperTick, planner, RingInv, ExecInv
<1>3. segment_buffer_tail \in Live /\ segment_buffer_tail \in SegmentIndex
      /\ NextSegment(segment_buffer_tail) \in SegmentIndex
  BY <1>0, <1>2, TailIsLive, NextInRing DEF RingTypes
<1>5. PICK t \in SegmentIndex : t = NextSegment(segment_buffer_tail)
  BY <1>3
<1>4. ExecLink(I[t], R[t], G[t])' /\ Upcoming' = t
  <2>1. I[t] \in StBlockIndex /\ R[t] \in Nat /\ G[t] \in Position
    BY <1>3
  <2>2. CASE st.exec_segment # NULL
    <3>1. Tick(st) /\ goal' = goal
      BY <2>2 DEF StepperTick
    <3>2. Upcoming = t /\ TicksLeft = st.step_count
      BY <1>5, <2>2 DEF Upcoming, TicksLeft
    <3>3. /\ st.exec_block_index = I[t] /\ goal = G[t]
          /\ st.level \in 0..MaxAmassLevel /\ st.step_count \in Nat \ {0}
          /\ st_block_buffer[I[t]] \in Moves
          /\ Balance(st, sys_position, goal, st_block_buffer[I[t]], st.step_count, R[t])
      BY <1>1, <2>2, <3>2 DEF ExecLink
    <3>4. DOMAIN st = StFields
      BY <1>0 DEF RingTypes
    <3>5. PICK j \in StBlockIndex, r \in Nat, e \in Position : j = I[t] /\ r = R[t] /\ e = G[t]
      BY <2>1
    <3>6. ExecLink(j, r, e)' /\ Upcoming' = NextSegment(segment_buffer_tail)
      BY <1>0, <1>2, <2>2, <3>1, <3>3, <3>4, <3>5, ExecTick
    <3> QED
      BY <1>5, <3>5, <3>6
  <2>3. CASE st.exec_segment = NULL
    <3>1. PICK j \in StBlockIndex, q \in Nat, e \in Position : j = I[t] /\ q = R[t] /\ e = G[t]
      BY <2>1
    <3>2. PICK i \in StBlockIndex, r \in Nat :
            i = I[segment_buffer_tail] /\ r = R[segment_buffer_tail]
      BY <1>3
    <3>3. Upcoming = segment_buffer_tail
      BY <2>3 DEF Upcoming
    <3>4. ExecLink(i, r, goal) /\ goal = G[segment_buffer_tail]
      BY <1>1, <3>2, <3>3 DEF ExecLink
    <3>5. CutsOff(Popped, st_block_buffer, i, r, goal, j, q, e)
      <4>1. segment_buffer_tail \in Made
        BY <1>3 DEF Made
      <4> QED
        BY <1>1, <1>5, <3>1, <3>2, <3>4, <4>1 DEF MadeInv, Popped
    <3>6. /\ j = Popped.st_block_index /\ i = st.exec_block_index
          /\ LoadSegment.exec_block_index = j /\ st_block_buffer[j] \in Moves
          /\ LoadSegment.step_count \in Nat \ {0} /\ LoadSegment.level \in 0..MaxAmassLevel
          /\ e = (IF j = i THEN goal ELSE Plus(goal, st_block_buffer[j]))
          /\ Balance(LoadSegment, sys_position, e, st_block_buffer[j], LoadSegment.step_count, q)
      BY <1>0, <2>3, <3>4, <3>5, LoadBalance
    <3>7. Tick(LoadSegment) /\ goal' = e
      BY <2>3, <3>6 DEF StepperTick
    <3>8. DOMAIN LoadSegment = StFields /\ LoadSegment.exec_segment # NULL
      <4>1. LoadSegment.exec_segment = segment_buffer_tail
        BY <1>0 DEF LoadSegment, RingTypes, StFields
      <4> QED
        BY <1>0, <1>3, <4>1, LoadedFields, SegmentsAssumption DEF SegmentIndex, NULL
    <3>9. ExecLink(j, q, e)' /\ Upcoming' = NextSegment(segment_buffer_tail)
      BY <1>0, <1>2, <3>6, <3>7, <3>8, ExecTick
    <3> QED
      BY <1>5, <3>1, <3>9
  <2> QED
    BY <2>2, <2>3
<1>6. /\ MadeEnd' = MadeEnd /\ Active' = Active
      /\ \A s \in Made' : s \in Made
  <2>1. \/ segment_buffer_tail' = segment_buffer_tail
        \/ segment_buffer_tail' = NextSegment(segment_buffer_tail)
    BY <1>2 DEF StepperTick, Tick
  <2>2. Live' \subseteq Live
    BY <1>0, <1>2, <2>1, SegmentsAssumption DEF RingTypes, Live, SegmentIndex, NextSegment
  <2> QED
    BY <1>2, <2>2 DEF MadeEnd, Active, Made
<1>7. MadeInv(I, R, G)'
  BY <1>1, <1>2, <1>6 DEF MadeInv
<1>8. PrepLink(I[MadeEnd], R[MadeEnd], G[MadeEnd], E)'
  BY <1>1, <1>2, <1>6 DEF PrepLink
<1>9. QueueLink(E)'
  BY <1>1, <1>2, <1>6 DEF QueueLink
<1>10. ExecLink(I[Upcoming], R[Upcoming], G[Upcoming])'
  BY <1>4 DEF ExecLink
<1> QED
  BY <1>7, <1>8, <1>9, <1>10 DEF CutInv

(* Where the links see no change.                                          *)
LEMMA CutFrame ==
  ASSUME CutInv, Made' = Made, MadeEnd' = MadeEnd, Upcoming' = Upcoming, TicksLeft' = TicksLeft,
         UNCHANGED <<blocks, pl_position, segment_buffer, st_block_buffer, sys_position, goal>>,
         Active' <=> Active, pc = "publish" \/ pc' # "publish",
         prep'.st_block_index = prep.st_block_index,
         prep'.steps_remaining = prep.steps_remaining,
         st'.counter = st.counter, st'.level = st.level, st'.step_count = st.step_count,
         st'.exec_block_index = st.exec_block_index,
         (st'.exec_segment # NULL) => (st.exec_segment # NULL)
  PROVE  CutInv'
<1>1. PICK I \in [SegmentIndex -> StBlockIndex], R \in [SegmentIndex -> Nat],
           G \in [SegmentIndex -> Position], E \in Position :
        /\ MadeInv(I, R, G)
        /\ PrepLink(I[MadeEnd], R[MadeEnd], G[MadeEnd], E)
        /\ QueueLink(E)
        /\ ExecLink(I[Upcoming], R[Upcoming], G[Upcoming])
  BY DEF CutInv
<1>2. MadeInv(I, R, G)'
  BY <1>1 DEF MadeInv
<1>3. PrepLink(I[MadeEnd], R[MadeEnd], G[MadeEnd], E)'
  BY <1>1 DEF PrepLink
<1>4. QueueLink(E)'
  BY <1>1 DEF QueueLink
<1>5. ExecLink(I[Upcoming], R[Upcoming], G[Upcoming])'
  BY <1>1 DEF ExecLink, Balance
<1> QED
  BY <1>2, <1>3, <1>4, <1>5 DEF CutInv

(* At the start nothing is cut, and everything is at the origin.           *)
LEMMA CutInit == Init => CutInv
<1> SUFFICES ASSUME Init PROVE CutInv
  OBVIOUS
<1> DEFINE I == [s \in SegmentIndex |-> 0]
           R == [s \in SegmentIndex |-> 0]
           G == [s \in SegmentIndex |-> Origin]
<1>1. /\ I \in [SegmentIndex -> StBlockIndex] /\ R \in [SegmentIndex -> Nat]
      /\ G \in [SegmentIndex -> Position] /\ Origin \in Position
      /\ 0 \in SegmentIndex /\ I[0] = 0 /\ R[0] = 0 /\ G[0] = Origin
  BY SegmentsAssumption DEF StBlockIndex, SegmentIndex, Position, Origin
<1>2. /\ Made = {} /\ MadeEnd = 0 /\ Upcoming = 0 /\ ~Active /\ TicksLeft = 0
  BY SegmentsAssumption
  DEF Init, Made, Live, MadeEnd, Upcoming, Active, ClearedPrep, ClearedSt, SegmentIndex, TicksLeft
<1> HIDE DEF I, R, G
<1>3. MadeInv(I, R, G)
  BY <1>2 DEF MadeInv
<1>4. PrepLink(I[MadeEnd], R[MadeEnd], G[MadeEnd], Origin)
  BY <1>1, <1>2 DEF Init, PrepLink, ClearedPrep
<1>5. QueueLink(Origin)
  <2>1. PICK q \in [0..0 -> Position] : q[0] = Origin
    <3> DEFINE q == [k \in 0..0 |-> Origin]
    <3>1. q \in [0..0 -> Position] /\ q[0] = Origin
      BY <1>1
    <3> QED
      BY <3>1
  <2>2. Len(blocks) = 0 /\ pl_position = Origin
    BY DEF Init
  <2> QED
    BY <1>2, <2>1, <2>2 DEF QueueLink
<1>6. ExecLink(I[Upcoming], R[Upcoming], G[Upcoming])
  BY <1>1, <1>2, SegmentsAssumption DEF Init, ExecLink, ClearedSt
<1> QED
  BY <1>1, <1>3, <1>4, <1>5, <1>6 DEF CutInv

(* The segment made is published: it is one of those made already.         *)
LEMMA MadePublished ==
  ASSUME RingInv, pc = "publish", Publish, pc' # "publish", segment_buffer_tail' = segment_buffer_tail
  PROVE  Made' = Made /\ MadeEnd' = MadeEnd
<1>1. segment_buffer_head' = NextSegment(segment_buffer_head) /\ Count <= SegmentBufferSize - 2
      /\ segment_next_head = NextSegment(segment_buffer_head)
  BY DEF Publish, RingInv, RingTypes, PrepInv
<1>2. Live' = Live \cup {segment_buffer_head}
  BY <1>1, SegmentsAssumption DEF RingInv, RingTypes, Count, Live, SegmentIndex, NextSegment
<1> QED
  BY <1>1, <1>2 DEF Made, MadeEnd

(* A move from a position leads to a position.                             *)
LEMMA PlusIsPosition ==
  ASSUME NEW p \in Position, NEW m \in Position
  PROVE  Plus(p, m) \in Position
BY DEF Plus, Position

(* A segment is cut the same from data that agree on its block.            *)
LEMMA CutsOffFrame ==
  ASSUME NEW g, NEW B, NEW D, NEW i, NEW r, NEW p, NEW j, NEW q, NEW e,
         CutsOff(g, B, i, r, p, j, q, e), D[j] = B[j]
  PROVE  CutsOff(g, D, i, r, p, j, q, e)
BY DEF CutsOff

(* What the interrupt still needs of its block's data is not overwritten.  *)
LEMMA ExecDataKept ==
  ASSUME BlockInv, pc = "load", ~Active,
         NEW I \in [SegmentIndex -> StBlockIndex], NEW R \in [SegmentIndex -> Nat], NEW G,
         NEW E, MadeInv(I, R, G), PrepLink(I[MadeEnd], R[MadeEnd], G[MadeEnd], E),
         ExecLink(I[Upcoming], R[Upcoming], G[Upcoming]),
         ~(TicksLeft = 0 /\ R[Upcoming] = 0)
  PROVE  st.exec_block_index # st_next_block_index(prep.st_block_index)
<1> USE DEF BlockInv, PulseInv
<1>0. RingInv /\ RingTypes
  BY DEF RingInv
<1>1. MadeEnd = segment_buffer_head /\ Made = Live
  BY DEF MadeEnd, Made
<1>2. R[segment_buffer_head] = 0
  BY <1>1 DEF PrepLink
<1>3. segment_buffer_tail # segment_buffer_head
  <2>1. CASE st.exec_segment # NULL
    BY <1>0, <2>1 DEF RingInv, ExecInv
  <2>2. CASE st.exec_segment = NULL
    BY <1>2, <2>2 DEF TicksLeft, Upcoming
  <2> QED
    BY <2>1, <2>2
<1>4. segment_buffer_tail \in Live
  BY <1>0, <1>3, TailIsLive
<1>5. st.exec_block_index = segment_buffer[segment_buffer_tail].st_block_index
  <2>1. CASE st.exec_segment # NULL
    BY <2>1 DEF DirInv
  <2>2. CASE st.exec_segment = NULL
    <3>1. /\ Upcoming = segment_buffer_tail /\ TicksLeft = 0
          /\ st.exec_block_index = I[segment_buffer_tail]
          /\ R[segment_buffer_tail] # 0
      BY <2>2 DEF Upcoming, TicksLeft, ExecLink
    <3>2. PICK j, q, e : CutsOff(segment_buffer[segment_buffer_tail], st_block_buffer,
                                 I[segment_buffer_tail], R[segment_buffer_tail],
                                 G[segment_buffer_tail], j, q, e)
      BY <1>1, <1>4 DEF MadeInv
    <3> QED
      BY <3>1, <3>2 DEF CutsOff
  <2> QED
    BY <2>1, <2>2
<1> QED
  BY <1>0, <1>4, <1>5, NewSlotIsFree DEF Active

(* A new block is loaded: its end is that of the block before, and its     *)
(* move on top.                                                            *)
LEMMA CutLoad ==
  ASSUME BlockInv, PrepLoad
  PROVE  CutInv'
<1> USE DEF BlockInv, PulseInv
<1>0. RingInv /\ RingTypes
  BY DEF RingInv
<1>1. /\ UNCHANGED <<blocks, pl_position, segment_buffer, segment_buffer_tail,
                     segment_buffer_head, segment_next_head, st, sys_position, goal>>
      /\ pc = "load" /\ pc' = "fill" /\ pl_block' = TRUE
  BY DEF PrepLoad, Goto, machine, planner
<1>2. /\ Made' = Made /\ Made = Live /\ MadeEnd' = MadeEnd /\ Upcoming' = Upcoming
      /\ TicksLeft' = TicksLeft /\ Active'
  BY <1>1 DEF Made, Live, MadeEnd, Upcoming, TicksLeft, Active
<1>3. CASE Active
  <2>1. prep' = [prep EXCEPT !.recalculate = FALSE] /\ st_block_buffer' = st_block_buffer
    BY <1>3 DEF PrepLoad, Active
  <2>2. prep'.st_block_index = prep.st_block_index /\ prep'.steps_remaining = prep.steps_remaining
    BY <2>1
  <2> QED
    BY <1>1, <1>2, <1>3, <2>1, <2>2, CutFrame
<1>4. CASE ~Active
  <2>1. PICK I \in [SegmentIndex -> StBlockIndex], R \in [SegmentIndex -> Nat],
             G \in [SegmentIndex -> Position], E \in Position :
          /\ MadeInv(I, R, G)
          /\ PrepLink(I[MadeEnd], R[MadeEnd], G[MadeEnd], E)
          /\ QueueLink(E)
          /\ ExecLink(I[Upcoming], R[Upcoming], G[Upcoming])
    BY DEF CutInv
  <2>2. PICK i \in StBlockIndex, b \in Moves :
          /\ i = st_next_block_index(prep.st_block_index) /\ b = Head(blocks) /\ b = blocks[1]
          /\ Len(blocks) \in Nat \ {0}
    <3>1. blocks # << >> /\ blocks \in Seq(Moves)
      BY <1>1 DEF PrepTypes
    <3>2. Head(blocks) \in Moves /\ Head(blocks) = blocks[1] /\ Len(blocks) \in Nat \ {0}
      BY <3>1
    <3>3. st_next_block_index(prep.st_block_index) \in StBlockIndex
      BY <1>0, NextBlockInRing DEF RingTypes
    <3> QED
      BY <3>2, <3>3
  <2>3. /\ prep'.st_block_index = i /\ prep'.steps_remaining = Events(b)
        /\ st_block_buffer' = [st_block_buffer EXCEPT ![i] = b]
        /\ st_block_buffer'[i] = b
        /\ \A j \in StBlockIndex : j # i => st_block_buffer'[j] = st_block_buffer[j]
    <3>1. /\ prep' = [prep EXCEPT !.st_block_index = i, !.steps_remaining = Events(b)]
          /\ st_block_buffer' = [st_block_buffer EXCEPT ![i] = b]
      BY <1>4, <2>2 DEF PrepLoad, Active
    <3>2. prep'.st_block_index = i /\ prep'.steps_remaining = Events(b)
      BY <1>0, <3>1 DEF RingTypes
    <3>3. DOMAIN st_block_buffer = StBlockIndex
      BY <1>0 DEF RingTypes
    <3> QED
      BY <3>1, <3>2, <3>3
  <2>4. /\ prep.st_block_index = I[MadeEnd] /\ R[MadeEnd] = 0 /\ E = G[MadeEnd]
    BY <1>4, <2>1 DEF PrepLink
  <2>5. PICK F \in Position : F = Plus(E, b)
    <3>1. b \in Position
      BY EventsOf
    <3>2. Plus(E, b) \in Position
      BY <3>1, PlusIsPosition
    <3> QED
      BY <3>2
  <2>6. MadeInv(I, R, G)'
    <3> SUFFICES ASSUME NEW s \in Live
                 PROVE  CutsOff(segment_buffer[s], st_block_buffer', I[s], R[s], G[s],
                                I[NextSegment(s)], R[NextSegment(s)], G[NextSegment(s)])
      BY <1>1, <1>2 DEF MadeInv
    <3>1. CutsOff(segment_buffer[s], st_block_buffer, I[s], R[s], G[s],
                  I[NextSegment(s)], R[NextSegment(s)], G[NextSegment(s)])
      BY <1>2, <2>1 DEF MadeInv
    <3>2. segment_buffer[s].st_block_index # i
      BY <1>0, <1>1, <1>4, <2>2, NewSlotIsFree DEF Active
    <3>3. I[NextSegment(s)] = segment_buffer[s].st_block_index
      BY <3>1 DEF CutsOff
    <3>4. segment_buffer[s].st_block_index \in StBlockIndex
      BY <1>0 DEF RingTypes
    <3> QED
      <4>1. st_block_buffer'[I[NextSegment(s)]] = st_block_buffer[I[NextSegment(s)]]
        BY <2>3, <3>2, <3>3, <3>4
      <4> QED
        BY <3>1, <4>1, CutsOffFrame
  <2>7. PrepLink(I[MadeEnd], R[MadeEnd], G[MadeEnd], F)'
    BY <1>1, <1>2, <2>2, <2>3, <2>4, <2>5 DEF PrepLink
  <2>8. QueueLink(F)'
    <3>1. PICK q \in [0..Len(blocks) -> Position] :
            /\ q[0] = E /\ q[Len(blocks)] = pl_position
            /\ \A k \in 1..Len(blocks) : q[k] = Plus(q[k - 1], blocks[k])
      BY <1>4, <2>1 DEF QueueLink
    <3>2. q[1] = F
      <4>1. 1 \in 1..Len(blocks) /\ 1 - 1 = 0
        BY <2>2
      <4> QED
        BY <2>2, <2>5, <3>1, <4>1
    <3> QED
      BY <1>1, <1>2, <3>1, <3>2 DEF QueueLink
  <2>9. ExecLink(I[Upcoming], R[Upcoming], G[Upcoming])'
    <3>1. CASE TicksLeft = 0 /\ R[Upcoming] = 0
      BY <1>1, <1>2, <2>1, <3>1 DEF ExecLink
    <3>2. CASE ~(TicksLeft = 0 /\ R[Upcoming] = 0)
      <4>1. st.exec_block_index # i
        BY <1>1, <1>4, <2>1, <2>2, <3>2, ExecDataKept
      <4>2. st.exec_block_index \in StBlockIndex
        <5>1. Upcoming \in SegmentIndex
          BY <1>0, NextInRing DEF Upcoming, RingTypes
        <5> QED
          BY <2>1, <5>1 DEF ExecLink
      <4>3. st_block_buffer'[st.exec_block_index] = st_block_buffer[st.exec_block_index]
        BY <2>3, <4>1, <4>2
      <4> QED
        BY <1>1, <1>2, <2>1, <3>2, <4>3 DEF ExecLink
    <3> QED
      BY <3>1, <3>2
  <2> QED
    BY <2>6, <2>7, <2>8, <2>9 DEF CutInv
<1> QED
  BY <1>3, <1>4

(* A segment is filled in behind those made.                               *)
LEMMA CutFill ==
  ASSUME BlockInv, NEW n \in 1..prep.steps_remaining, NEW level \in 0..MaxAmassLevel,
         PrepFill(n, level)
  PROVE  CutInv'
<1> USE DEF BlockInv, PulseInv
<1> DEFINE made == [n_step |-> n * Pow2[level], amass_level |-> level,
                    st_block_index |-> prep.st_block_index]
<1>0. RingInv /\ RingTypes /\ prep.steps_remaining \in Nat
  BY DEF RingInv, PrepTypes
<1>1. /\ UNCHANGED <<blocks, pl_position, segment_buffer_tail, segment_buffer_head,
                     segment_next_head, st_block_buffer, pl_block, st, sys_position, goal>>
      /\ pc = "fill" /\ pc' = "publish"
      /\ segment_buffer' = [segment_buffer EXCEPT ![segment_buffer_head] = made]
      /\ prep' = [prep EXCEPT !.steps_remaining = @ - n]
  BY DEF PrepFill, Goto, machine, planner
<1>2. PICK h \in SegmentIndex, t \in SegmentIndex :
        /\ h = segment_buffer_head /\ t = NextSegment(h) /\ t = segment_next_head
        /\ t # h /\ t # segment_buffer_tail /\ t \notin Live /\ h \notin Live
        /\ \A s \in Live : s \in SegmentIndex /\ NextSegment(s) # t
  <2>1. Count <= SegmentBufferSize - 2
    BY <1>0, <1>1 DEF RingInv, PrepInv
  <2>2. PICK h \in SegmentIndex, t \in SegmentIndex :
          h = segment_buffer_head /\ t = NextSegment(h) /\ t = segment_next_head
    BY <1>0, NextInRing DEF RingTypes
  <2>3. t # h
    BY <2>2, SegmentsAssumption DEF SegmentIndex, NextSegment
  <2>4. t # segment_buffer_tail /\ t \notin Live /\ h \notin Live
    BY <1>0, <2>1, <2>2, SegmentsAssumption
    DEF RingTypes, Count, Live, SegmentIndex, NextSegment
  <2>5. ASSUME NEW s \in Live PROVE s \in SegmentIndex /\ NextSegment(s) # t
    <3>1. s \in SegmentIndex /\ s # h
      BY <2>2, <2>4 DEF Live
    <3> QED
      BY <2>2, <3>1, SegmentsAssumption DEF SegmentIndex, NextSegment
  <2> QED
    BY <2>2, <2>3, <2>4, <2>5
<1>3. /\ prep'.st_block_index = prep.st_block_index
      /\ prep'.steps_remaining = prep.steps_remaining - n
      /\ prep'.recalculate = prep.recalculate
  BY <1>0, <1>1 DEF RingTypes
<1>4. PICK i \in StBlockIndex, c \in Nat : i = prep.st_block_index /\ c = prep.steps_remaining - n
        /\ prep.steps_remaining = c + n
  BY <1>0 DEF RingTypes
<1>5. /\ segment_buffer'[h] = made
      /\ \A s \in Live : segment_buffer'[s] = segment_buffer[s]
  <2> HIDE DEF made
  <2> QED
    BY <1>0, <1>1, <1>2 DEF RingTypes
<1>6. /\ Made = Live /\ Made' = Live \cup {h} /\ MadeEnd = h /\ MadeEnd' = t
      /\ Upcoming' = Upcoming /\ TicksLeft' = TicksLeft /\ Active' /\ Active
  BY <1>1, <1>2, <1>3 DEF Made, Live, MadeEnd, Upcoming, TicksLeft, Active, PrepTypes
<1>7. PICK I \in [SegmentIndex -> StBlockIndex], R \in [SegmentIndex -> Nat],
           G \in [SegmentIndex -> Position], E \in Position :
        /\ MadeInv(I, R, G)
        /\ PrepLink(I[MadeEnd], R[MadeEnd], G[MadeEnd], E)
        /\ QueueLink(E)
        /\ ExecLink(I[Upcoming], R[Upcoming], G[Upcoming])
  BY DEF CutInv
<1>8. PICK J \in [SegmentIndex -> StBlockIndex], S \in [SegmentIndex -> Nat],
           H \in [SegmentIndex -> Position] :
        /\ J[t] = i /\ S[t] = c /\ H[t] = E
        /\ \A s \in SegmentIndex : s # t => J[s] = I[s] /\ S[s] = R[s] /\ H[s] = G[s]
  <2> DEFINE J == [I EXCEPT ![t] = i]
             S == [R EXCEPT ![t] = c]
             H == [G EXCEPT ![t] = E]
  <2>1. /\ J \in [SegmentIndex -> StBlockIndex] /\ J[t] = i
        /\ \A s \in SegmentIndex : s # t => J[s] = I[s]
    OBVIOUS
  <2>2. /\ S \in [SegmentIndex -> Nat] /\ S[t] = c
        /\ \A s \in SegmentIndex : s # t => S[s] = R[s]
    OBVIOUS
  <2>3. /\ H \in [SegmentIndex -> Position] /\ H[t] = E
        /\ \A s \in SegmentIndex : s # t => H[s] = G[s]
    OBVIOUS
  <2> HIDE DEF J, S, H
  <2> QED
    BY <2>1, <2>2, <2>3
<1>9. MadeInv(J, S, H)'
  <2>1. ASSUME NEW s \in Live
        PROVE  CutsOff(segment_buffer'[s], st_block_buffer, J[s], S[s], H[s],
                       J[NextSegment(s)], S[NextSegment(s)], H[NextSegment(s)])
    <3>1. CutsOff(segment_buffer[s], st_block_buffer, I[s], R[s], G[s],
                  I[NextSegment(s)], R[NextSegment(s)], G[NextSegment(s)])
      BY <1>6, <1>7 DEF MadeInv
    <3>2. s \in SegmentIndex /\ s # t /\ NextSegment(s) \in SegmentIndex /\ NextSegment(s) # t
      BY <1>2, NextInRing
    <3>3. /\ J[s] = I[s] /\ S[s] = R[s] /\ H[s] = G[s]
          /\ J[NextSegment(s)] = I[NextSegment(s)] /\ S[NextSegment(s)] = R[NextSegment(s)]
          /\ H[NextSegment(s)] = G[NextSegment(s)]
      BY <1>8, <3>2
    <3> QED
      BY <1>5, <3>1, <3>3
  <2>2. CutsOff(made, st_block_buffer, J[h], S[h], H[h], i, c, E)
    <3>1. J[h] = I[h] /\ S[h] = R[h] /\ H[h] = G[h] /\ R[h] \in Nat
      BY <1>2, <1>8
    <3>2. PrepLink(I[h], R[h], G[h], E)
      BY <1>6, <1>7
    <3>3. st_block_buffer[i] \in Moves
      BY <1>4, <1>6, <3>2 DEF PrepLink
    <3>4. \/ i = I[h] /\ R[h] = c + n /\ E = G[h]
          \/ /\ i = st_next_block_index(I[h]) /\ R[h] = 0
             /\ Events(st_block_buffer[i]) = c + n /\ E = Plus(G[h], st_block_buffer[i])
      BY <1>4, <3>2 DEF PrepLink
    <3>5. /\ made.n_step = n * Pow2[level] /\ made.amass_level = level /\ made.st_block_index = i
          /\ n \in Nat \ {0}
      BY <1>0, <1>4
    <3> HIDE DEF made
    <3> QED
      BY <3>1, <3>3, <3>4, <3>5 DEF CutsOff
  <2>3. ASSUME NEW s \in Made'
        PROVE  CutsOff(segment_buffer'[s], st_block_buffer, J[s], S[s], H[s],
                       J[NextSegment(s)], S[NextSegment(s)], H[NextSegment(s)])
    <3>1. CASE s = h
      BY <1>2, <1>5, <1>8, <2>2, <3>1
    <3> QED
      BY <1>6, <2>1, <3>1
  <2> QED
    BY <1>1, <2>3 DEF MadeInv
<1>10. PrepLink(J[MadeEnd], S[MadeEnd], H[MadeEnd], E)'
  <2>1. Active => st_block_buffer[prep.st_block_index] \in Moves
    BY <1>7 DEF PrepLink
  <2> QED
    BY <1>1, <1>3, <1>4, <1>6, <1>8, <2>1 DEF PrepLink
<1>11. QueueLink(E)'
  BY <1>1, <1>6, <1>7 DEF QueueLink
<1>12. ExecLink(J[Upcoming], S[Upcoming], H[Upcoming])'
  <2>1. Upcoming \in SegmentIndex /\ Upcoming # t
    <3>1. CASE st.exec_segment = NULL
      BY <1>0, <1>2, <3>1 DEF Upcoming, RingTypes
    <3>2. CASE st.exec_segment # NULL
      <4>1. segment_buffer_tail \in Live
        BY <1>0, <3>2, TailIsLive DEF RingInv, ExecInv
      <4> QED
        BY <1>2, <3>2, <4>1, NextInRing DEF Upcoming
    <3> QED
      BY <3>1, <3>2
  <2>2. /\ J[Upcoming] = I[Upcoming] /\ S[Upcoming] = R[Upcoming] /\ H[Upcoming] = G[Upcoming]
    BY <1>8, <2>1
  <2>3. ExecLink(J[Upcoming], S[Upcoming], H[Upcoming])
    BY <1>7, <2>2
  <2> QED
    BY <1>1, <1>6, <2>3 DEF ExecLink
<1> QED
  BY <1>9, <1>10, <1>11, <1>12 DEF CutInv

(* The last segment of a block is published, and the block discarded.      *)
LEMMA CutDiscard ==
  ASSUME BlockInv, PrepPublish, prep.steps_remaining = 0
  PROVE  CutInv'
<1> USE DEF BlockInv, PulseInv
<1>1. /\ UNCHANGED <<pl_position, prep, segment_buffer, segment_buffer_tail,
                     st_block_buffer, st, sys_position, goal>>
      /\ pc = "publish" /\ pc' = "check" /\ Publish
      /\ pl_block' = FALSE /\ blocks' = Tail(blocks)
  BY DEF PrepPublish, Goto, machine
<1>2. pl_block /\ ~prep.recalculate /\ blocks \in Seq(Moves) /\ blocks # << >>
  BY <1>1 DEF PrepTypes, Active
<1>3. Active /\ ~Active' /\ Upcoming' = Upcoming /\ TicksLeft' = TicksLeft
  BY <1>1, <1>2 DEF Active, Upcoming, TicksLeft
<1>4. Made' = Made /\ MadeEnd' = MadeEnd
  BY <1>1, MadePublished
<1>5. PICK I \in [SegmentIndex -> StBlockIndex], R \in [SegmentIndex -> Nat],
           G \in [SegmentIndex -> Position], E \in Position :
        /\ MadeInv(I, R, G)
        /\ PrepLink(I[MadeEnd], R[MadeEnd], G[MadeEnd], E)
        /\ QueueLink(E)
        /\ ExecLink(I[Upcoming], R[Upcoming], G[Upcoming])
  BY DEF CutInv
<1>6. MadeInv(I, R, G)'
  BY <1>1, <1>4, <1>5 DEF MadeInv
<1>7. PrepLink(I[MadeEnd], R[MadeEnd], G[MadeEnd], E)'
  BY <1>1, <1>3, <1>4, <1>5 DEF PrepLink
<1>8. QueueLink(E)'
  <2>1. PICK q \in [0..Len(blocks) -> Position] :
          /\ q[1] = E /\ q[Len(blocks)] = pl_position
          /\ \A k \in 1..Len(blocks) : q[k] = Plus(q[k - 1], blocks[k])
    BY <1>3, <1>5 DEF QueueLink
  <2>2. PICK n \in Nat : Len(blocks) = n + 1 /\ Len(blocks') = n
                         /\ \A k \in 1..n : blocks'[k] = blocks[k + 1]
    <3>1. /\ Len(blocks) \in Nat \ {0} /\ Len(Tail(blocks)) = Len(blocks) - 1
          /\ \A k \in 1..Len(blocks) - 1 : Tail(blocks)[k] = blocks[k + 1]
      <4>1. Len(blocks) \in Nat \ {0} /\ Len(Tail(blocks)) = Len(blocks) - 1
        BY <1>2
      <4>2. ASSUME NEW k \in 1..Len(blocks) - 1 PROVE Tail(blocks)[k] = blocks[k + 1]
        BY <1>2, <4>1
      <4> QED
        BY <4>1, <4>2
    <3>2. PICK n \in Nat : n = Len(blocks) - 1
      <4>1. PICK l \in Nat \ {0} : l = Len(blocks)
        BY <3>1
      <4>2. l - 1 \in Nat
        OBVIOUS
      <4> QED
        BY <4>1, <4>2
    <3>3. Len(blocks) = n + 1
      <4>1. Len(blocks) \in Nat
        BY <3>1
      <4> QED
        BY <3>2, <4>1
    <3> QED
      BY <1>1, <3>1, <3>2, <3>3
  <2> DEFINE p == [k \in 0..n |-> q[k + 1]]
  <2>3. /\ p \in [0..n -> Position] /\ p[0] = E /\ p[n] = pl_position
        /\ \A k \in 0..n : p[k] = q[k + 1]
    BY <2>1, <2>2
  <2> HIDE DEF p
  <2>4. ASSUME NEW k \in 1..n PROVE p[k] = Plus(p[k - 1], blocks'[k])
    <3>1. k + 1 \in 1..n + 1 /\ (k + 1) - 1 = k /\ k - 1 \in 0..n /\ (k - 1) + 1 = k /\ k \in 0..n
      OBVIOUS
    <3>2. q[k + 1] = Plus(q[k], blocks[k + 1])
      BY <2>1, <2>2, <3>1
    <3>3. p[k] = q[k + 1] /\ p[k - 1] = q[k]
      BY <2>3, <3>1
    <3> QED
      BY <2>2, <3>2, <3>3
  <2> QED
    BY <1>1, <1>3, <2>2, <2>3, <2>4 DEF QueueLink
<1>9. ExecLink(I[Upcoming], R[Upcoming], G[Upcoming])'
  BY <1>1, <1>3, <1>5 DEF ExecLink
<1> QED
  BY <1>6, <1>7, <1>8, <1>9 DEF CutInv

(* A block is queued: the planner's position moves by it.                  *)
LEMMA CutQueue ==
  ASSUME BlockInv, NEW m \in Moves, Queue(m)
  PROVE  CutInv'
<1> USE DEF BlockInv, PulseInv
<1>1. /\ UNCHANGED <<segment_buffer, segment_buffer_tail, segment_buffer_head,
                     segment_next_head, st_block_buffer, st, sys_position, goal, pc>>
      /\ pl_position' = Plus(pl_position, m) /\ blocks' = Append(blocks, m)
      /\ prep'.st_block_index = prep.st_block_index
      /\ prep'.steps_remaining = prep.steps_remaining
      /\ Active' <=> Active
  BY DEF Queue, segments, machine, st_update_plan_block_parameters, Active, RingInv, RingTypes
<1>2. /\ Made' = Made /\ MadeEnd' = MadeEnd /\ Upcoming' = Upcoming /\ TicksLeft' = TicksLeft
  BY <1>1 DEF Made, Live, MadeEnd, Upcoming, TicksLeft
<1>3. PICK I \in [SegmentIndex -> StBlockIndex], R \in [SegmentIndex -> Nat],
           G \in [SegmentIndex -> Position], E \in Position :
        /\ MadeInv(I, R, G)
        /\ PrepLink(I[MadeEnd], R[MadeEnd], G[MadeEnd], E)
        /\ QueueLink(E)
        /\ ExecLink(I[Upcoming], R[Upcoming], G[Upcoming])
  BY DEF CutInv
<1>4. MadeInv(I, R, G)'
  BY <1>1, <1>2, <1>3 DEF MadeInv
<1>5. PrepLink(I[MadeEnd], R[MadeEnd], G[MadeEnd], E)'
  BY <1>1, <1>2, <1>3 DEF PrepLink
<1>6. QueueLink(E)'
  <2>1. PICK q \in [0..Len(blocks) -> Position] :
          /\ q[IF Active THEN 1 ELSE 0] = E /\ q[Len(blocks)] = pl_position
          /\ \A k \in 1..Len(blocks) : q[k] = Plus(q[k - 1], blocks[k])
    BY <1>3 DEF QueueLink
  <2>2. PICK n \in Nat, a \in 0..1 :
          /\ n = Len(blocks) /\ Len(blocks') = n + 1 /\ blocks'[n + 1] = m
          /\ \A k \in 1..n : blocks'[k] = blocks[k]
          /\ a = (IF Active THEN 1 ELSE 0) /\ a <= n
    <3>1. /\ blocks \in Seq(Moves)
          /\ Active => blocks # << >>
      BY DEF PrepTypes
    <3>2. /\ Len(blocks) \in Nat /\ Len(Append(blocks, m)) = Len(blocks) + 1
          /\ Append(blocks, m)[Len(blocks) + 1] = m
          /\ \A k \in 1..Len(blocks) : Append(blocks, m)[k] = blocks[k]
          /\ blocks # << >> => Len(blocks) > 0
      BY <3>1
    <3>3. PICK n \in Nat : n = Len(blocks)
      BY <3>2
    <3>4. PICK a \in 0..1 : a = (IF Active THEN 1 ELSE 0)
      OBVIOUS
    <3>5. a <= n
      BY <3>1, <3>2, <3>3, <3>4
    <3> QED
      BY <1>1, <3>2, <3>3, <3>4, <3>5
  <2>3. PICK F \in Position : F = Plus(pl_position, m)
    <3>1. Plus(pl_position, m) \in Position
      BY EventsOf, PlusIsPosition DEF PrepTypes
    <3> QED
      BY <3>1
  <2> DEFINE p == [k \in 0..n + 1 |-> IF k = n + 1 THEN F ELSE q[k]]
  <2>4. /\ p \in [0..n + 1 -> Position] /\ p[n + 1] = F
        /\ \A k \in 0..n : p[k] = q[k]
    BY <2>1, <2>2
  <2> HIDE DEF p
  <2>5. ASSUME NEW k \in 1..n + 1 PROVE p[k] = Plus(p[k - 1], blocks'[k])
    <3>1. CASE k = n + 1
      <4>1. n \in 0..n /\ k - 1 = n
        BY <3>1
      <4> QED
        BY <2>1, <2>2, <2>3, <2>4, <3>1, <4>1
    <3>2. CASE k # n + 1
      <4>1. k \in 1..n /\ k \in 0..n /\ k - 1 \in 0..n
        BY <3>2
      <4> QED
        BY <2>1, <2>2, <2>4, <4>1
    <3> QED
      BY <3>1, <3>2
  <2>6. p[a] = E
    <3>1. a \in 0..n
      BY <2>2
    <3> QED
      BY <2>1, <2>2, <2>4, <3>1
  <2> QED
    BY <1>1, <2>2, <2>3, <2>4, <2>5, <2>6 DEF QueueLink
<1>7. ExecLink(I[Upcoming], R[Upcoming], G[Upcoming])'
  BY <1>1, <1>2, <1>3 DEF ExecLink
<1> QED
  BY <1>4, <1>5, <1>6, <1>7 DEF CutInv

(* The planner starts again from where the machine is.                     *)
LEMMA CutReinit ==
  ASSUME BlockInv, Reinit
  PROVE  CutInv'
<1> USE DEF BlockInv, PulseInv
<1>1. PICK g \in Position : sys_position' = g /\ pl_position' = g /\ goal' = g
  <2>1. sys_position \in Position /\ Origin \in Position
    BY DEF StepTypes, Position, Origin
  <2> QED
    BY <2>1 DEF Reinit
<1> DEFINE I == [s \in SegmentIndex |-> 0]
           R == [s \in SegmentIndex |-> 0]
           G == [s \in SegmentIndex |-> g]
<1>2. /\ I \in [SegmentIndex -> StBlockIndex] /\ R \in [SegmentIndex -> Nat]
      /\ G \in [SegmentIndex -> Position]
      /\ 0 \in SegmentIndex /\ I[0] = 0 /\ R[0] = 0 /\ G[0] = g
  BY SegmentsAssumption DEF StBlockIndex, SegmentIndex
<1>3. /\ Made' = {} /\ MadeEnd' = 0 /\ Upcoming' = 0 /\ ~Active' /\ TicksLeft' = 0
  BY SegmentsAssumption
  DEF Reinit, Made, Live, MadeEnd, Upcoming, Active, ClearedPrep, ClearedSt, SegmentIndex, TicksLeft
<1> HIDE DEF I, R, G
<1>4. MadeInv(I, R, G)'
  BY <1>3 DEF MadeInv
<1>5. PrepLink(I[MadeEnd], R[MadeEnd], G[MadeEnd], g)'
  BY <1>2, <1>3 DEF Reinit, PrepLink, ClearedPrep
<1>6. QueueLink(g)'
  <2>1. PICK q \in [0..0 -> Position] : q[0] = g
    <3> DEFINE q == [k \in 0..0 |-> g]
    <3>1. q \in [0..0 -> Position] /\ q[0] = g
      BY <1>1
    <3> QED
      BY <3>1
  <2>2. Len(blocks') = 0 /\ pl_position' = g
    BY <1>1 DEF Reinit
  <2> QED
    BY <1>3, <2>1, <2>2 DEF QueueLink
<1>7. ExecLink(I[Upcoming], R[Upcoming], G[Upcoming])'
  BY <1>1, <1>2, <1>3, SegmentsAssumption DEF Reinit, ExecLink, ClearedSt
<1> QED
  BY <1>2, <1>4, <1>5, <1>6, <1>7 DEF CutInv

(* A replanning leaves the block that is being cut and the steps left of   *)
(* it.                                                                     *)
LEMMA UpdatedSteps ==
  ASSUME RingTypes, st_update_plan_block_parameters
  PROVE  prep'.steps_remaining = prep.steps_remaining
BY DEF RingTypes, st_update_plan_block_parameters

(* What the start of a motion does to the interrupt's state.               *)
LEMMA ReturnFields ==
  ASSUME RingTypes, PrepReturn
  PROVE  /\ st'.counter = st.counter /\ st'.level = st.level
         /\ st'.step_count = st.step_count
         /\ st'.exec_block_index = st.exec_block_index
         /\ st'.exec_segment = st.exec_segment
BY DEF RingTypes, PrepReturn, st_wake_up, StFields

(* The actions of CutFrame.                                                *)
LEMMA CutKept ==
  ASSUME BlockInv,
         \/ StepperEmpty \/ PrepCheck \/ PrepNoStep \/ CallPrep \/ Replan \/ FeedHold
         \/ CycleStop \/ CycleStart \/ BeginCycle \/ mc_reset \/ UNCHANGED vars
  PROVE  CutInv'
<1> USE DEF BlockInv, PulseInv
<1>0. RingTypes /\ CutInv
  BY DEF RingInv
<1>1. /\ UNCHANGED <<blocks, pl_position, segment_buffer, segment_buffer_tail,
                     segment_buffer_head, segment_next_head, st_block_buffer,
                     sys_position, goal>>
      /\ pc = "publish" \/ pc' # "publish"
  <2>1. CASE StepperEmpty \/ PrepCheck \/ PrepNoStep
    BY <2>1 DEF StepperEmpty, PrepCheck, PrepNoStep, PrepReturn, Goto, planner, segments
  <2>2. CASE CallPrep \/ Replan \/ FeedHold
    BY <2>2 DEF CallPrep, Replan, FeedHold, planner, segments, machine
  <2>3. CASE CycleStop \/ CycleStart \/ BeginCycle
    BY <2>3 DEF CycleStop, CycleStart, BeginCycle, planner, segments, machine
  <2>4. CASE mc_reset
    BY <2>4 DEF mc_reset, planner, segments
  <2>5. CASE UNCHANGED vars
    BY <2>5 DEF vars
  <2> QED
    BY <2>1, <2>2, <2>3, <2>4, <2>5
<1>2. (pc' = "publish") <=> (pc = "publish")
  <2>1. CASE StepperEmpty \/ PrepCheck \/ PrepNoStep
    BY <2>1 DEF StepperEmpty, PrepCheck, PrepNoStep, PrepReturn, Goto
  <2>2. CASE CallPrep \/ Replan \/ FeedHold
    BY <2>2 DEF CallPrep, Replan, FeedHold, AtLoop
  <2>3. CASE CycleStop \/ CycleStart \/ BeginCycle \/ mc_reset
    BY <2>3 DEF CycleStop, CycleStart, BeginCycle, mc_reset, AtLoop
  <2>4. CASE UNCHANGED vars
    BY <2>4 DEF vars
  <2> QED
    BY <2>1, <2>2, <2>3, <2>4
<1>3. /\ st'.counter = st.counter /\ st'.level = st.level
      /\ st'.step_count = st.step_count
      /\ st'.exec_block_index = st.exec_block_index
      /\ st'.exec_segment = st.exec_segment
  <2>1. CASE PrepReturn
    BY <1>0, <2>1, ReturnFields
  <2>2. CASE st' = st
    BY <2>2
  <2>3. PrepReturn \/ st' = st
    <3>1. CASE StepperEmpty \/ PrepCheck \/ PrepNoStep
      BY <3>1 DEF StepperEmpty, PrepCheck, PrepNoStep
    <3>2. CASE CallPrep \/ Replan \/ FeedHold
      BY <3>2 DEF CallPrep, Replan, FeedHold, machine
    <3>3. CASE CycleStop \/ CycleStart \/ BeginCycle \/ mc_reset \/ UNCHANGED vars
      BY <3>3 DEF CycleStop, CycleStart, BeginCycle, mc_reset, machine, vars
    <3> QED
      BY <3>1, <3>2, <3>3
  <2> QED
    BY <2>1, <2>2, <2>3
<1>4. /\ prep'.st_block_index = prep.st_block_index
      /\ prep'.steps_remaining = prep.steps_remaining
      /\ Active' <=> Active
  <2>1. CASE st_update_plan_block_parameters
    BY <1>0, <2>1, UpdatedPrep, UpdatedSteps DEF Active
  <2>2. CASE UNCHANGED <<pl_block, prep>>
    BY <2>2 DEF Active
  <2>3. st_update_plan_block_parameters \/ UNCHANGED <<pl_block, prep>>
    <3>1. CASE StepperEmpty \/ PrepCheck \/ PrepNoStep
      BY <3>1 DEF StepperEmpty, PrepCheck, PrepNoStep
    <3>2. CASE CallPrep \/ Replan \/ FeedHold
      BY <3>2 DEF CallPrep, Replan, FeedHold
    <3>3. CASE CycleStop \/ CycleStart \/ BeginCycle \/ mc_reset \/ UNCHANGED vars
      BY <3>3 DEF CycleStop, CycleStart, BeginCycle, mc_reset, vars
    <3> QED
      BY <3>1, <3>2, <3>3
  <2> QED
    BY <2>1, <2>2, <2>3
<1>5. Made' = Made /\ MadeEnd' = MadeEnd /\ Upcoming' = Upcoming /\ TicksLeft' = TicksLeft
  BY <1>1, <1>2, <1>3 DEF Made, Live, MadeEnd, Upcoming, TicksLeft
<1> QED
  BY <1>0, <1>1, <1>3, <1>4, <1>5, CutFrame

(* Every step of the main program and of the interrupt keeps the cuts.     *)
LEMMA CutStep ==
  ASSUME BlockInv, [Next]_vars
  PROVE  CutInv'
<1>0. RingTypes /\ RingInv /\ CutInv
  BY DEF BlockInv, PulseInv, RingInv
<1>1. CASE PrepPublish \/ PrepForcedEnd
  <2>1. CASE PrepPublish /\ prep.steps_remaining = 0
    BY <2>1, CutDiscard
  <2>2. CASE PrepForcedEnd \/ (PrepPublish /\ prep.steps_remaining # 0)
    <3>1. /\ UNCHANGED <<blocks, pl_position, pl_block, prep, segment_buffer,
                         segment_buffer_tail, st_block_buffer, sys_position, goal>>
          /\ pc = "publish" /\ pc' # "publish" /\ Publish
          /\ PrepReturn \/ st' = st
      BY <2>2 DEF PrepPublish, PrepForcedEnd, PrepReturn, Goto, planner, machine
    <3>2. /\ st'.counter = st.counter /\ st'.level = st.level
          /\ st'.step_count = st.step_count
          /\ st'.exec_block_index = st.exec_block_index
          /\ st'.exec_segment = st.exec_segment
      BY <1>0, <3>1, ReturnFields
    <3>3. Made' = Made /\ MadeEnd' = MadeEnd
      BY <1>0, <3>1, MadePublished
    <3>4. Upcoming' = Upcoming /\ TicksLeft' = TicksLeft /\ (Active' <=> Active)
      BY <3>1, <3>2 DEF Upcoming, TicksLeft, Active
    <3> QED
      BY <1>0, <3>1, <3>2, <3>3, <3>4, CutFrame
  <2> QED
    BY <1>1, <2>1, <2>2
<1>2. CASE \E n \in 1..prep.steps_remaining, level \in 0..MaxAmassLevel : PrepFill(n, level)
  BY <1>2, CutFill
<1>3. CASE \E m \in Moves : Queue(m)
  BY <1>3, CutQueue
<1>4. CASE StepperTick \/ PrepLoad \/ Reinit
  BY <1>4, CutTick, CutLoad, CutReinit
<1>5. CASE \/ StepperEmpty \/ PrepCheck \/ PrepNoStep \/ CallPrep \/ Replan \/ FeedHold
           \/ CycleStop \/ CycleStart \/ BeginCycle \/ mc_reset \/ UNCHANGED vars
  BY <1>5, CutKept
<1> QED
  BY <1>1, <1>2, <1>3, <1>4, <1>5 DEF Next, Stepper, st_prep_buffer

(* The queue, the positions and the steps left to cut keep their types.    *)
LEMMA PrepTypesStep ==
  ASSUME BlockInv, [Next]_vars
  PROVE  PrepTypes'
<1> USE DEF PrepTypes
<1>0. RingTypes /\ PrepTypes /\ sys_position \in Position /\ Origin \in Position
  BY DEF BlockInv, PulseInv, RingInv, StepTypes, Position, Origin
<1>1. CASE StepperTick
  <2>1. UNCHANGED <<blocks, pl_position, prep, pl_block, pc>>
    BY <1>1 DEF StepperTick, planner
  <2>2. goal' \in Position
    <3>1. CutInv'
      BY <1>1, CutTick
    <3>2. Upcoming' \in SegmentIndex
      BY <1>1, RingTick, NextInRing DEF BlockInv, PulseInv, RingInv, RingTypes, Upcoming
    <3>3. PICK G \in [SegmentIndex -> Position] : goal' = G[Upcoming']
      BY <3>1 DEF CutInv, ExecLink
    <3> QED
      BY <3>2, <3>3
  <2> QED
    BY <1>0, <2>1, <2>2 DEF Active
<1>2. CASE StepperEmpty
  BY <1>0, <1>2 DEF StepperEmpty, planner, Active
<1>3. CASE PrepCheck
  <2>1. UNCHANGED <<blocks, pl_position, goal, prep, pl_block>>
    BY <1>3 DEF PrepCheck, planner
  <2>2. pc' = "idle" \/ (pc' = "load" /\ (pl_block \/ blocks # << >>))
    BY <1>3 DEF PrepCheck, PrepReturn, Goto
  <2> QED
    BY <1>0, <2>1, <2>2 DEF Active
<1>4. CASE PrepLoad
  <2>1. UNCHANGED <<blocks, pl_position, goal>> /\ pl_block' = TRUE /\ pc = "load" /\ pc' = "fill"
    BY <1>4 DEF PrepLoad, planner, machine, Goto
  <2>2. prep'.steps_remaining \in Nat /\ ~prep'.recalculate
    <3>1. CASE Active
      <4>1. prep' = [prep EXCEPT !.recalculate = FALSE]
        BY <1>4, <3>1 DEF PrepLoad, Active
      <4> QED
        BY <1>0, <4>1 DEF RingTypes
    <3>2. CASE ~Active
      <4>1. prep' = [prep EXCEPT !.st_block_index = st_next_block_index(prep.st_block_index),
                                 !.steps_remaining = Events(Head(blocks))]
        BY <1>4, <3>2 DEF PrepLoad, Active
      <4>2. Head(blocks) \in Moves
        BY <1>0, <2>1
      <4>3. Events(Head(blocks)) \in Nat
        BY <4>2, EventsOf
      <4>4. prep'.steps_remaining = Events(Head(blocks)) /\ prep'.recalculate = prep.recalculate
        BY <1>0, <4>1 DEF RingTypes
      <4> QED
        BY <3>2, <4>3, <4>4 DEF Active
    <3> QED
      BY <3>1, <3>2
  <2> QED
    BY <1>0, <2>1, <2>2
<1>5. ASSUME NEW n \in 1..prep.steps_remaining, NEW level, PrepFill(n, level) PROVE PrepTypes'
  <2>1. /\ UNCHANGED <<blocks, pl_position, goal, pl_block>> /\ pc = "fill" /\ pc' = "publish"
        /\ prep' = [prep EXCEPT !.steps_remaining = @ - n]
    BY <1>5 DEF PrepFill, planner, machine, Goto
  <2>2. prep'.steps_remaining = prep.steps_remaining - n /\ prep'.recalculate = prep.recalculate
    BY <1>0, <2>1 DEF RingTypes
  <2>3. prep'.steps_remaining \in Nat
    BY <1>0, <2>2
  <2> QED
    BY <1>0, <2>1, <2>2, <2>3 DEF Active
<1>6. CASE PrepNoStep \/ PrepForcedEnd
  <2>1. UNCHANGED <<blocks, pl_position, goal, prep, pl_block>> /\ pc' = "idle"
    BY <1>6 DEF PrepNoStep, PrepForcedEnd, PrepReturn, planner
  <2> QED
    BY <1>0, <2>1 DEF Active
<1>7. CASE PrepPublish
  <2>1. UNCHANGED <<pl_position, goal, prep>> /\ pc = "publish" /\ pc' = "check"
        /\ \/ UNCHANGED <<blocks, pl_block>>
           \/ pl_block' = FALSE /\ blocks' = Tail(blocks)
    BY <1>7 DEF PrepPublish, machine, Goto
  <2>2. blocks \in Seq(Moves) /\ blocks # << >> /\ ~prep.recalculate
    BY <1>0, <2>1 DEF Active
  <2>3. Tail(blocks) \in Seq(Moves)
    BY <2>2
  <2> QED
    BY <1>0, <2>1, <2>2, <2>3 DEF Active
<1>8. ASSUME NEW m \in Moves, Queue(m) PROVE PrepTypes'
  <2>1. /\ UNCHANGED <<goal, pc>> /\ pc = "idle" /\ pl_position' = Plus(pl_position, m)
        /\ blocks' = Append(blocks, m)
        /\ prep'.steps_remaining = prep.steps_remaining
    BY <1>0, <1>8, UpdatedSteps DEF Queue, AtLoop, machine
  <2>2. pl_position' \in Position
    BY <1>0, <2>1, EventsOf, PlusIsPosition
  <2>3. Append(blocks, m) \in Seq(Moves) /\ Append(blocks, m) # << >>
    BY <1>0
  <2> QED
    BY <1>0, <2>1, <2>2, <2>3
<1>9. CASE CallPrep \/ Replan \/ FeedHold \/ CycleStop \/ CycleStart \/ BeginCycle \/ UNCHANGED vars
  <2>1. UNCHANGED <<blocks, pl_position, goal>> /\ (pc' = pc \/ pc' \in {"check", "start"})
    BY <1>9 DEF CallPrep, Replan, FeedHold, CycleStop, CycleStart, BeginCycle, planner, machine, vars
  <2>2. st_update_plan_block_parameters \/ UNCHANGED <<pl_block, prep>>
    BY <1>9 DEF CallPrep, Replan, FeedHold, CycleStop, CycleStart, BeginCycle, vars
  <2>3. prep'.steps_remaining = prep.steps_remaining /\ (Active' <=> Active)
    BY <1>0, <2>2, UpdatedPrep, UpdatedSteps DEF Active
  <2>4. pc' \in {"fill", "publish"} => UNCHANGED <<pl_block, prep>>
    BY <1>9 DEF CallPrep, Replan, FeedHold, CycleStop, CycleStart, BeginCycle, AtLoop, vars
  <2> QED
    BY <1>0, <2>1, <2>3, <2>4
<1>10. CASE mc_reset
  BY <1>0, <1>10 DEF mc_reset, planner, Active
<1>11. CASE Reinit
  <2>1. /\ blocks' = << >> /\ pl_block' = FALSE /\ prep' = ClearedPrep /\ pc = "idle" /\ pc' = pc
        /\ pl_position' \in Position /\ goal' \in Position
    BY <1>0, <1>11 DEF Reinit
  <2> QED
    BY <2>1 DEF ClearedPrep, Active
<1> QED
  BY <1>1, <1>2, <1>3, <1>4, <1>5, <1>6, <1>7, <1>8, <1>9, <1>10, <1>11
  DEF Next, Stepper, st_prep_buffer

(* The initial states.                                                     *)
LEMMA BlockInit == Init => BlockInv
<1> SUFFICES ASSUME Init PROVE BlockInv
  OBVIOUS
<1>1. PrepTypes
  BY DEF Init, PrepTypes, ClearedPrep, Active, Position, Origin
<1> QED
  BY <1>1, PulseInit, CutInit DEF BlockInv

(* Blocks are cut without loss, whatever the interrupt does in between.    *)
THEOREM BlockInvariant == Spec => []BlockInv
<1>1. BlockInv /\ [Next]_vars => BlockInv'
  BY PulseStep, PrepTypesStep, CutStep DEF BlockInv
<1> QED
  BY <1>1, BlockInit, PTL DEF Spec

(* Where a block ends, and where all end.                                  *)
LEMMA BlockEnds ==
  ASSUME BlockInv
  PROVE  BlocksEndExactly
<1>0. RingTypes /\ RingInv
  BY DEF BlockInv, PulseInv, RingInv
<1>1. PICK I \in [SegmentIndex -> StBlockIndex], R \in [SegmentIndex -> Nat],
           G \in [SegmentIndex -> Position], E \in Position :
        /\ MadeInv(I, R, G)
        /\ PrepLink(I[MadeEnd], R[MadeEnd], G[MadeEnd], E)
        /\ QueueLink(E)
        /\ ExecLink(I[Upcoming], R[Upcoming], G[Upcoming])
  BY DEF BlockInv, CutInv
<1>2. ASSUME Live # {}, st.exec_segment = NULL, Popped.st_block_index # st.exec_block_index
      PROVE  sys_position = goal
  <2>1. segment_buffer_tail \in Live /\ segment_buffer_tail \in Made
    <3>1. segment_buffer_tail # segment_buffer_head
      BY <1>0, <1>2 DEF RingTypes, Live, SegmentIndex
    <3> QED
      BY <1>0, <3>1, TailIsLive DEF Made
  <2>2. PICK j, q, e : CutsOff(segment_buffer[segment_buffer_tail], st_block_buffer,
                               I[segment_buffer_tail], R[segment_buffer_tail],
                               G[segment_buffer_tail], j, q, e)
    BY <1>1, <2>1 DEF MadeInv
  <2>3. Upcoming = segment_buffer_tail /\ TicksLeft = 0
    BY <1>2 DEF Upcoming, TicksLeft
  <2>4. st.exec_block_index = I[segment_buffer_tail]
    BY <1>1, <2>3 DEF ExecLink
  <2>5. R[segment_buffer_tail] = 0
    BY <1>2, <2>2, <2>4 DEF CutsOff, Popped
  <2> QED
    BY <1>1, <2>3, <2>5 DEF ExecLink
<1>3. ASSUME Live = {}, blocks = << >>, pc = "idle"
      PROVE  sys_position = pl_position
  <2>1. segment_buffer_tail = segment_buffer_head
    BY <1>0, <1>3, TailIsLive
  <2>2. st.exec_segment = NULL
    BY <1>0, <2>1 DEF RingInv, ExecInv
  <2>3. ~Active
    BY <1>3 DEF BlockInv, PrepTypes
  <2>4. Upcoming = MadeEnd /\ TicksLeft = 0
    BY <1>3, <2>1, <2>2 DEF Upcoming, MadeEnd, TicksLeft
  <2>5. R[MadeEnd] = 0 /\ E = G[MadeEnd]
    BY <1>1, <2>3 DEF PrepLink
  <2>6. E = pl_position
    BY <1>1, <1>3, <2>3 DEF QueueLink
  <2> QED
    BY <1>1, <2>4, <2>5, <2>6 DEF ExecLink
<1> QED
  BY <1>2, <1>3 DEF BlocksEndExactly

(* "retains the Bresenham algorithm exactness" (stepper.c:297-300): for    *)
(* every size of the ring, every move and every AMASS level, each block    *)
(* ends on its target, and an emptied machine stands where the planner     *)
(* believes it to be.                                                      *)
THEOREM BlocksAlwaysEndExactly == Spec => []BlocksEndExactly
<1>1. BlockInv => BlocksEndExactly
  BY BlockEnds
<1> QED
  BY <1>1, BlockInvariant, PTL

-----------------------------------------------------------------------------
(* Types.                                                                  *)

(* What TypeOK says of the variables that the invariants above leave out.  *)
RestTypes ==
  /\ Len(blocks) <= BlockSlots
  /\ pl_block \in BOOLEAN /\ prep.recalculate \in BOOLEAN
  /\ st.exec_segment \in {NULL, segment_buffer_tail}
  /\ state \in {"IDLE", "CYCLE", "HOLD"}
  /\ step_control \subseteq {"EXECUTE_HOLD", "END_MOTION"}

(* Every step keeps these types.                                           *)
LEMMA RestStep ==
  ASSUME RingInv, PrepTypes, RestTypes, [Next]_vars
  PROVE  RestTypes'
<1> USE DEF RestTypes
<1>0. RingTypes
  BY DEF RingInv
<1>1. CASE StepperTick
  <2>1. UNCHANGED <<blocks, pl_block, prep, state, step_control>>
    BY <1>1 DEF StepperTick, planner, control
  <2>2. PICK s \in {st, LoadSegment} : Tick(s)
    BY <1>1 DEF StepperTick
  <2>3. DOMAIN s = StFields /\ s.exec_segment \in {NULL, segment_buffer_tail}
    <3>1. CASE s = st
      BY <1>0, <3>1 DEF RingTypes
    <3>2. CASE s = LoadSegment
      <4>1. LoadSegment.exec_segment = segment_buffer_tail
        BY <1>0 DEF LoadSegment, RingTypes, StFields
      <4> QED
        BY <1>0, <3>2, <4>1, LoadedFields
    <3> QED
      BY <3>1, <3>2
  <2>4. st'.exec_segment \in {NULL, segment_buffer_tail'}
    BY <2>2, <2>3, TickEffect
  <2> QED
    BY <2>1, <2>4
<1>2. CASE StepperEmpty
  BY <1>2 DEF StepperEmpty, planner, segments, control
<1>3. CASE st_prep_buffer
  <2>1. /\ UNCHANGED <<state, segment_buffer_tail>>
        /\ step_control' \in {step_control, step_control \cup {"END_MOTION"}}
        /\ blocks' = blocks \/ (blocks' = Tail(blocks) /\ pc = "publish")
    BY <1>3 DEF st_prep_buffer, PrepCheck, PrepLoad, PrepFill, PrepNoStep, PrepPublish,
                PrepForcedEnd, PrepReturn, Goto, planner, segments, machine, control
  <2>2. Len(blocks') <= BlockSlots
    <3>1. CASE pc = "publish"
      <4>1. blocks \in Seq(Moves) /\ blocks # << >>
        BY <3>1 DEF PrepTypes, Active
      <4>2. Len(Tail(blocks)) = Len(blocks) - 1 /\ Len(blocks) \in Nat /\ BlockSlots \in Nat
        BY <4>1, SegmentsAssumption
      <4> QED
        BY <2>1, <4>2
    <3> QED
      BY <2>1, <3>1
  <2>3. st'.exec_segment = st.exec_segment
    <3>1. st' = st \/ st' = [st EXCEPT !.step_outbits = {}]
      BY <1>3 DEF st_prep_buffer, PrepCheck, PrepLoad, PrepNoStep, PrepPublish, PrepForcedEnd,
                  PrepFill, PrepReturn, st_wake_up, machine
    <3> QED
      BY <1>0, <3>1 DEF RingTypes, StFields
  <2>4. pl_block' \in BOOLEAN /\ prep'.recalculate \in BOOLEAN
    <3>1. CASE PrepCheck \/ PrepNoStep \/ PrepPublish \/ PrepForcedEnd
      BY <3>1 DEF PrepCheck, PrepNoStep, PrepPublish, PrepForcedEnd
    <3>2. CASE PrepLoad
      <4>1. pl_block' = TRUE
        BY <3>2 DEF PrepLoad
      <4>2. prep'.recalculate \in {FALSE, prep.recalculate}
        BY <1>0, <3>2 DEF PrepLoad, RingTypes
      <4> QED
        BY <4>1, <4>2
    <3>3. ASSUME NEW n, NEW level, PrepFill(n, level)
          PROVE  pl_block' \in BOOLEAN /\ prep'.recalculate \in BOOLEAN
      <4>1. pl_block' = pl_block /\ prep'.recalculate = prep.recalculate
        BY <1>0, <3>3 DEF PrepFill, RingTypes
      <4> QED
        BY <4>1
    <3> QED
      BY <1>3, <3>1, <3>2, <3>3 DEF st_prep_buffer
  <2>5. step_control' \subseteq {"EXECUTE_HOLD", "END_MOTION"}
    BY <2>1
  <2> QED
    BY <2>1, <2>2, <2>3, <2>4, <2>5
<1>4. CASE CallPrep \/ (\E m \in Moves : Queue(m)) \/ Replan \/ FeedHold \/ CycleStop
           \/ CycleStart \/ BeginCycle \/ mc_reset \/ UNCHANGED vars
  <2>1. UNCHANGED <<segment_buffer_tail, st>>
    BY <1>4 DEF CallPrep, Queue, Replan, FeedHold, CycleStop, CycleStart, BeginCycle, mc_reset, segments,
                machine, vars
  <2>2. Len(blocks') <= BlockSlots
    <3>1. ASSUME NEW m \in Moves, Queue(m) PROVE Len(blocks') <= BlockSlots
      <4>1. /\ blocks' = Append(blocks, m) /\ Len(blocks) < BlockSlots
            /\ blocks \in Seq(Moves) /\ BlockSlots \in Nat
        BY <3>1, SegmentsAssumption DEF Queue, PrepTypes
      <4>2. Len(Append(blocks, m)) = Len(blocks) + 1 /\ Len(blocks) \in Nat
        BY <4>1
      <4> QED
        BY <4>1, <4>2
    <3>2. CASE CallPrep \/ Replan \/ FeedHold \/ CycleStop \/ CycleStart \/ BeginCycle \/ mc_reset
               \/ UNCHANGED vars
      BY <3>2 DEF CallPrep, Replan, FeedHold, CycleStop, CycleStart, BeginCycle, mc_reset, planner, vars
    <3> QED
      BY <1>4, <3>1, <3>2
  <2>3. pl_block' \in BOOLEAN /\ prep'.recalculate \in BOOLEAN
    <3>1. st_update_plan_block_parameters \/ UNCHANGED <<pl_block, prep>>
      BY <1>4 DEF CallPrep, Queue, Replan, FeedHold, CycleStop, CycleStart, BeginCycle, mc_reset, vars
    <3>2. CASE st_update_plan_block_parameters
      <4>1. prep'.recalculate \in {TRUE, prep.recalculate}
        BY <1>0, <3>2 DEF st_update_plan_block_parameters, RingTypes
      <4> QED
        BY <3>2, <4>1 DEF st_update_plan_block_parameters
    <3> QED
      BY <3>1, <3>2
  <2>4. state' \in {"IDLE", "CYCLE", "HOLD"} /\ step_control' \subseteq {"EXECUTE_HOLD", "END_MOTION"}
    BY <1>4 DEF CallPrep, Queue, Replan, FeedHold, CycleStop, CycleStart, BeginCycle, mc_reset, control, vars
  <2> QED
    BY <2>1, <2>2, <2>3, <2>4
<1>5. CASE Reinit
  <2>2. /\ blocks' = << >> /\ pl_block' = FALSE /\ prep' = ClearedPrep /\ st' = ClearedSt
        /\ state' = "IDLE" /\ step_control' = {}
    BY <1>5 DEF Reinit
  <2>3. Len(blocks') = 0 /\ 0 <= BlockSlots
    BY <2>2, SegmentsAssumption
  <2>4. st'.exec_segment = NULL /\ prep'.recalculate = FALSE
    BY <2>2, ClearedFields
  <2> QED
    BY <2>2, <2>3, <2>4
<1> QED
  BY <1>1, <1>2, <1>3, <1>4, <1>5 DEF Next, Stepper

(* The rings, the position and the blocks keep their types, a segment in   *)
(* execution is the one at the tail and has ticks to come, and st_prep_buffer *)
(* works on a block only while the queue has one.                          *)
THEOREM TypeCorrect == Spec => []TypeOK
<1>1. Init => RestTypes
  <2> SUFFICES ASSUME Init PROVE RestTypes
    OBVIOUS
  <2>2. Len(blocks) = 0 /\ 0 <= BlockSlots
    BY SegmentsAssumption DEF Init
  <2>3. /\ blocks = << >> /\ pl_block = FALSE /\ prep = ClearedPrep /\ st = ClearedSt
        /\ state = "IDLE" /\ step_control = {}
    BY DEF Init
  <2>4. st.exec_segment = NULL /\ prep.recalculate = FALSE
    BY <2>3, ClearedFields
  <2> QED
    BY <2>2, <2>3, <2>4 DEF RestTypes
<1>2. BlockInv /\ RestTypes /\ [Next]_vars => RestTypes'
  BY RestStep DEF BlockInv, PulseInv
<1>3. BlockInv /\ RestTypes => TypeOK
  <2> SUFFICES ASSUME BlockInv, RestTypes PROVE TypeOK
    OBVIOUS
  <2>1. RingTypes /\ StepTypes /\ PrepTypes
    BY DEF BlockInv, PulseInv, RingInv
  <2>2. Upcoming \in SegmentIndex
    BY <2>1, NextInRing DEF Upcoming, RingTypes
  <2>3. PICK i \in StBlockIndex, r \in Nat, p \in Position : ExecLink(i, r, p)
    BY <2>2 DEF BlockInv, CutInv
  <2>4. /\ st.exec_block_index \in StBlockIndex
        /\ (st.exec_segment # NULL) => st.step_count > 0
    BY <2>3 DEF ExecLink
  <2> QED
    BY <2>1, <2>4 DEF TypeOK, RingTypes, StepTypes, PrepTypes, RestTypes, Active, Position
<1> QED
  BY <1>1, <1>2, <1>3, BlockInvariant, PTL DEF Spec
=============================================================================

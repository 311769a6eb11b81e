------------------------------- MODULE Planner -------------------------------
(***************************************************************************)
(* The look-ahead planner (planner.c), the consumption of its blocks by    *)
(* st_prep_buffer (stepper.c), and the feed and rapid overrides, holds and *)
(* resets of protocol.c that make it plan again.                           *)
(*                                                                         *)
(* Speeds are squared, as in the code, and a distance is the change of     *)
(* squared speed that the acceleration of the block allows over it,        *)
(* 2*acceleration*millimeters: so braking or accelerating over d changes a *)
(* squared speed by at most d.  A segment covers any part of the block     *)
(* that is left, so the model does not fix DT_SEGMENT.  The stepper        *)
(* interrupt is seen only when it runs out of segments.                    *)
(*                                                                         *)
(* The main program keeps the segment buffer filled; what happens when it  *)
(* does not is in Realtime.                                                *)
(***************************************************************************)
EXTENDS Integers, FiniteSets, FiniteSetsExt

CONSTANTS Size,          \* BLOCK_BUFFER_SIZE
          Lengths,       \* 2*acceleration*millimeters of a new block
          FeedRates,     \* programmed rates of feed motions
          FixedRates,    \* of motions that ignore the feed override
          RapidRate,     \* rapid_rate of every block
          Junctions,     \* max_junction_speed_sqr between two blocks
          SystemLengths, \* lengths of system motions
          Commands,      \* override commands that may be pending in a pass
          MaxFeed, MinFeed, Coarse, Fine   \* the feed override, config.h

DefaultOverride == 100
RapidMedium == 50
RapidLow == 25
FeedCommand == {"F_RESET", "COARSE_PLUS", "COARSE_MINUS", "FINE_PLUS",
                "FINE_MINUS"}
RapidCommand == {"R_RESET", "R_MEDIUM", "R_LOW"}

ASSUME PlannerAssumption ==
  /\ Size \in Nat /\ Size > 2
  /\ Lengths \subseteq Nat \ {0} /\ SystemLengths \subseteq Nat \ {0}
  /\ FeedRates \subseteq Nat /\ FixedRates \subseteq Nat /\ RapidRate \in Nat
  /\ Junctions \subseteq Nat
  /\ Commands \subseteq FeedCommand \cup RapidCommand
  /\ MaxFeed \in DefaultOverride..255 /\ MinFeed \in 1..DefaultOverride
  /\ Coarse \in 1..99 /\ Fine \in 1..99

Index == 0..Size - 1
NULL == Size                      \* pl_block: no block is being prepared
SomeLargeValue == 1000000
MinimumFeedRate == 1

VARIABLES
  block_buffer, block_buffer_tail, block_buffer_head, next_buffer_head,
  block_buffer_planned,
  previous_nominal_speed,         \* pl.previous_nominal_speed
  pl_block,                       \* the slot st_prep_buffer works on, or NULL
  prep,                           \* its velocity profile
  state, step_control,            \* of the system
  hold_complete,                  \* SUSPEND_HOLD_COMPLETE
  f_override, r_override,
  slowed                          \* history: an override has been lowered
                                  \* since the queue was last empty

ring == <<block_buffer_tail, block_buffer_head, next_buffer_head,
          block_buffer_planned>>
queue == <<block_buffer, ring, previous_nominal_speed>>
stepper == <<pl_block, prep>>
control == <<state, step_control, hold_complete>>
override == <<f_override, r_override, slowed>>
vars == <<block_buffer, block_buffer_tail, block_buffer_head, next_buffer_head,
          block_buffer_planned, previous_nominal_speed, pl_block, prep, state,
          step_control, hold_complete, f_override, r_override, slowed>>

-----------------------------------------------------------------------------
(* The ring of blocks.                                                     *)

NextUnwrapped(i) == i + 1      \* mutant: no wrap at the end of the ring
plan_next_block_index(i) == IF i + 1 = Size THEN 0 ELSE i + 1
plan_prev_block_index(i) == IF i = 0 THEN Size - 1 ELSE i - 1

Ahead(i, k) == IF i + k < Size THEN i + k ELSE i + k - Size   \* k slots on
Span(i, j) == IF j >= i THEN j - i ELSE j - i + Size          \* slots from i to j

Empty == block_buffer_head = block_buffer_tail
Count == Span(block_buffer_tail, block_buffer_head)
Block(k) == block_buffer[Ahead(block_buffer_tail, k)]   \* k-th of the queue

plan_check_full_buffer == block_buffer_tail = next_buffer_head

plan_get_exec_block_exit_speed_sqr ==
  LET next == plan_next_block_index(block_buffer_tail)
  IN  IF next = block_buffer_head THEN 0 ELSE block_buffer[next].entry

-----------------------------------------------------------------------------
(* Speeds of a block.                                                      *)

Min2(a, b) == IF a < b THEN a ELSE b
Max2(a, b) == IF a < b THEN b ELSE a

Scaled(rate, percent) == (rate * percent) \div 100

plan_compute_profile_nominal_speed(b, f, r) ==
  Max2(MinimumFeedRate,
       CASE b.kind = "rapid" -> Scaled(b.rate, r)
         [] b.kind = "feed"  -> Min2(Scaled(b.rate, f), RapidRate)
         [] b.kind = "fixed" -> Min2(b.rate, RapidRate))

(* plan_compute_profile_parameters: the max_entry_speed_sqr.               *)
MaxEntry(junction, nominal, prev_nominal) ==
  Min2(Min2(nominal, prev_nominal) * Min2(nominal, prev_nominal), junction)

-----------------------------------------------------------------------------
(* planner_recalculate.  B is the buffer, planned and head its pointers;   *)
(* the result is the new buffer and the new planned pointer.               *)
(*                                                                         *)
(* When the queue is empty the passes go once round the ring, over what    *)
(* old blocks have left in it: no live block is changed, and the planned   *)
(* pointer may be left at any slot.  The first block of a queue has a      *)
(* maximum entry speed of zero, and the forward pass ends on it.           *)

ReversePass(B, planned, m) ==
  LET at(k) == B[Ahead(planned, k)]
      rev[k \in 0..m] ==
        IF k = 0 \/ (k < m /\ at(k).entry = at(k).max_entry) THEN at(k).entry
        ELSE Min2(at(k).max_entry, at(k).mm + (IF k = m THEN 0 ELSE rev[k + 1]))
  IN  rev

ForwardPass(B, planned, m, rev) ==
  LET fwd[k \in 0..m] ==
        IF k = 0 THEN rev[0]
        ELSE Min2(rev[k], fwd[k - 1] + B[Ahead(planned, k - 1)].mm)
  IN  fwd

BreakpointsAnyLimit(B, planned, m, rev, fwd) ==
  {k \in 1..m : fwd[k] <= rev[k]}  \* mutant: not only where acceleration limits

(* The forward pass moves planned to the last block that is either reached *)
(* at full acceleration or entered at its maximum.                         *)
Breakpoints(B, planned, m, rev, fwd) ==
  {k \in 1..m : \/ fwd[k] < rev[k]
                \/ fwd[k] = B[Ahead(planned, k)].max_entry}

Replanned(B, planned, head) ==
  LET m == Span(planned, plan_prev_block_index(head))
      rev == ReversePass(B, planned, m)
      fwd == ForwardPass(B, planned, m, rev)
      stops == Breakpoints(B, planned, m, rev, fwd)
  IN  [buffer |-> [i \in Index |->
                     IF Span(planned, i) \in 1..m
                     THEN [B[i] EXCEPT !.entry = fwd[Span(planned, i)]]
                     ELSE B[i]],
       planned |-> IF stops = {} THEN planned ELSE Ahead(planned, Max(stops))]

(* plan from pointer planned on, for a queue that ends at head.            *)
planner_recalculate(B, planned, head) ==
  LET n == Span(block_buffer_tail, head)
      r == Replanned(B, planned, head)
  IN  CASE n = 0 -> block_buffer' = B /\ block_buffer_planned' \in Index
        [] n = 1 -> block_buffer' = B /\ block_buffer_planned' = block_buffer_tail
        [] n > 1 -> block_buffer' = r.buffer /\ block_buffer_planned' = r.planned

(* st_update_plan_block_parameters: the block in execution is planned on   *)
(* from the speed it has now, and its profile computed anew.               *)
StaleEntry(B) == B                \* mutant: the block keeps its entry speed
Updated(B) == IF pl_block = NULL THEN B
              ELSE [B EXCEPT ![pl_block].entry = prep.current]
KeepProfile == UNCHANGED <<pl_block, prep>>  \* mutant: the profile is not redone
st_update_plan_block_parameters ==
  /\ pl_block' = NULL
  /\ prep' = IF pl_block = NULL THEN prep ELSE [prep EXCEPT !.recalculate = TRUE]

plan_cycle_reinitialize(B) ==
  /\ st_update_plan_block_parameters
  /\ planner_recalculate(Updated(B), block_buffer_tail, block_buffer_head)

-----------------------------------------------------------------------------
(* Queueing blocks.                                                        *)

(* What a slot that is not in use holds is never read before the next      *)
(* plan_buffer_line clears it.                                             *)
FreeBlock == [kind |-> "feed", rate |-> 0, mm |-> 0, entry |-> 0,
              max_entry |-> 0, max_junction |-> 0]

Motion == [kind : {"feed"}, rate : FeedRates, mm : Lengths]
          \cup [kind : {"fixed"}, rate : FixedRates, mm : Lengths]
          \cup [kind : {"rapid"}, rate : {RapidRate}, mm : Lengths]

NewBlock(m, junction, prev_nominal, nominal) ==
  [kind |-> m.kind, rate |-> m.rate, mm |-> m.mm, entry |-> 0,
   max_entry |-> MaxEntry(junction, nominal, prev_nominal),
   max_junction |-> junction]

plan_buffer_line(m, junction) ==
  LET nominal == plan_compute_profile_nominal_speed(m, f_override, r_override)
      B == [block_buffer EXCEPT ![block_buffer_head] =
              NewBlock(m, junction, previous_nominal_speed, nominal)]
  IN  /\ state \in {"IDLE", "CYCLE"}
      /\ ~plan_check_full_buffer
      /\ junction \in IF Empty THEN {0} ELSE Junctions   \* starts from rest
      /\ previous_nominal_speed' = nominal
      /\ block_buffer_head' = next_buffer_head
      /\ next_buffer_head' = plan_next_block_index(next_buffer_head)
      /\ IF ~Empty /\ block_buffer_planned = block_buffer_tail
         THEN /\ st_update_plan_block_parameters
              /\ planner_recalculate(Updated(B), block_buffer_planned, next_buffer_head)
         ELSE /\ UNCHANGED stepper
              /\ planner_recalculate(B, block_buffer_planned, next_buffer_head)
      /\ UNCHANGED <<block_buffer_tail, control, override>>

DiscardOnly ==         \* mutant: the planned pointer is not pushed
  /\ block_buffer_tail' = plan_next_block_index(block_buffer_tail)
  /\ UNCHANGED block_buffer_planned
  /\ slowed' = (slowed /\ block_buffer_tail' # block_buffer_head)
plan_discard_current_block ==
  LET next == plan_next_block_index(block_buffer_tail)
  IN  /\ block_buffer_tail' = next
      /\ block_buffer_planned' = IF block_buffer_tail = block_buffer_planned
                                 THEN next ELSE block_buffer_planned
      /\ slowed' = (slowed /\ next # block_buffer_head)

-----------------------------------------------------------------------------
(* st_prep_buffer.                                                         *)

Holding == "EXECUTE_HOLD" \in step_control
SystemMotion == "EXECUTE_SYS_MOTION" \in step_control

Work == IF SystemMotion THEN block_buffer_head ELSE block_buffer_tail
Running == /\ state \in {"CYCLE", "HOLD", "HOMING"}
           /\ "END_MOTION" \notin step_control
           /\ SystemMotion \/ ~Empty

(* The entry speed the block is loaded with, at its first segment or after *)
(* the plan has changed.                                                   *)
LoadedAsPlanned(b) == b.entry     \* mutant: a block loaded in a hold as planned
LoadedEntry(b) ==
  IF ~prep.recalculate /\ (Holding \/ prep.decel_override) THEN prep.exit
  ELSE b.entry

(* The velocity profile of block b, entered at b.entry.                    *)
Profile(b) ==
  LET N == LET n == plan_compute_profile_nominal_speed(b, f_override, r_override)
           IN  n * n
      X == IF SystemMotion THEN 0 ELSE plan_get_exec_block_exit_speed_sqr
      p == [current |-> IF prep.recalculate THEN prep.current ELSE b.entry,
            exit |-> X, mm_complete |-> 0, ramp |-> "DECEL", maximum |-> 0,
            recalculate |-> FALSE, decel_override |-> FALSE]
  IN  CASE Holding /\ b.entry > b.mm -> [p EXCEPT !.exit = b.entry - b.mm]
        [] Holding /\ b.entry <= b.mm ->
             [p EXCEPT !.exit = 0, !.mm_complete = b.mm - b.entry]
        [] ~Holding /\ b.entry > N /\ b.mm <= b.entry - N ->
             [p EXCEPT !.exit = b.entry - b.mm, !.decel_override = TRUE]
        [] ~Holding /\ b.entry > N /\ b.mm > b.entry - N ->
             [p EXCEPT !.ramp = "DECEL_OVERRIDE", !.maximum = N]
        [] ~Holding /\ b.entry <= N /\ b.mm <= b.entry - X -> p
        [] ~Holding /\ b.entry <= N /\ b.mm > b.entry - X ->
             [p EXCEPT !.ramp = "TRAPEZOID",
                       !.maximum = IF b.mm <= X - b.entry THEN X ELSE N]

(* The speed of profile p at mm from the end of the block, when left is    *)
(* where it has its current speed. (Where a lowered override must be followed *)
(* and there is no room to brake afterwards, the speed is cut to p.exit+mm; *)
(* stepper.c:811-815, 915-919 would jump back to where braking begins.)    *)
SpeedAt(p, left, mm) ==
  CASE mm = p.mm_complete -> p.exit
    [] mm # p.mm_complete /\ p.ramp = "DECEL" -> p.current - (left - mm)
    [] mm # p.mm_complete /\ p.ramp = "DECEL_OVERRIDE" ->
         Min2(Max2(p.maximum, p.current - (left - mm)), p.exit + mm)
    [] mm # p.mm_complete /\ p.ramp = "TRAPEZOID" ->
         Min2(Min2(p.maximum, p.current + (left - mm)), p.exit + mm)

(* The block being worked on and its profile, loaded or reloaded if        *)
(* pl_block is NULL.                                                       *)
Loaded == LET b == block_buffer[Work]
          IN  IF pl_block = NULL THEN [b EXCEPT !.entry = LoadedEntry(b)] ELSE b
Planned == IF pl_block = NULL THEN Profile(Loaded) ELSE prep

(* One turn of the loop of st_prep_buffer: a segment that leaves mm of the *)
(* block to be executed.                                                   *)
PrepSegment(mm) ==
  LET b == Loaded
      p == Planned
  IN  /\ Running
      /\ mm \in p.mm_complete..b.mm - 1
      /\ mm = p.mm_complete \/ SpeedAt(p, b.mm, mm) > 0
      /\ prep' = [p EXCEPT !.current = SpeedAt(p, b.mm, mm)]
      /\ step_control' = IF mm = p.mm_complete /\ (mm > 0 \/ SystemMotion)
                         THEN step_control \cup {"END_MOTION"} ELSE step_control
      /\ IF mm = 0 /\ ~SystemMotion
         THEN /\ block_buffer' = [block_buffer EXCEPT ![Work] = FreeBlock]
              /\ pl_block' = NULL
              /\ plan_discard_current_block
         ELSE /\ block_buffer' = [block_buffer EXCEPT ![Work] = [b EXCEPT !.mm = mm]]
              /\ pl_block' = Work
              /\ UNCHANGED <<block_buffer_tail, block_buffer_planned, slowed>>
      /\ UNCHANGED <<block_buffer_head, next_buffer_head, previous_nominal_speed,
                     state, hold_complete, f_override, r_override>>

(* A hold that ends where the last segment did: no segment.                *)
PrepHoldEnd ==
  LET b == Loaded
      p == Planned
  IN  /\ Running /\ Holding
      /\ p.mm_complete = b.mm
      /\ prep' = [p EXCEPT !.current = p.exit]
      /\ step_control' = step_control \cup {"END_MOTION"}
      /\ block_buffer' = [block_buffer EXCEPT ![Work] = b]
      /\ pl_block' = Work
      /\ UNCHANGED <<ring, previous_nominal_speed, state, hold_complete, override>>

-----------------------------------------------------------------------------
(* protocol_exec_rt_system.                                                *)

FeedHold ==
  /\ state \in {"IDLE", "CYCLE"}
  /\ state' = "HOLD"
  /\ IF state = "CYCLE"
     THEN /\ st_update_plan_block_parameters
          /\ block_buffer' = Updated(block_buffer)
          /\ step_control' = {"EXECUTE_HOLD"}
          /\ UNCHANGED hold_complete
     ELSE /\ hold_complete' = TRUE
          /\ UNCHANGED <<stepper, block_buffer, step_control>>
  /\ UNCHANGED <<ring, previous_nominal_speed, override>>

CycleStart ==
  /\ state = "IDLE" \/ (state = "HOLD" /\ hold_complete)
  /\ step_control' = {}
  /\ hold_complete' = FALSE
  /\ state' = IF Empty THEN "IDLE" ELSE "CYCLE"
  /\ UNCHANGED <<queue, stepper, override>>

(* EXEC_CYCLE_STOP: the stepper interrupt has executed every segment.      *)
CycleStop ==
  /\ state \in {"CYCLE", "HOLD"} /\ ~hold_complete
  /\ Empty \/ "END_MOTION" \in step_control
  /\ IF state = "HOLD"
     THEN /\ plan_cycle_reinitialize(block_buffer)
          /\ hold_complete' = TRUE
          /\ step_control' = step_control \ {"EXECUTE_HOLD"}
          /\ UNCHANGED state
     ELSE /\ state' = "IDLE"
          /\ UNCHANGED <<block_buffer, block_buffer_planned, stepper, step_control,
                         hold_complete>>
  /\ UNCHANGED <<block_buffer_tail, block_buffer_head, next_buffer_head,
                 previous_nominal_speed, override>>

(* A pass over the pending override commands, in bytes.                    *)
Byte(x) == x % 256
FeedOverride(c) ==
  LET f0 == IF "F_RESET" \in c THEN DefaultOverride ELSE f_override
      f1 == IF "COARSE_PLUS" \in c THEN Byte(f0 + Coarse) ELSE f0
      f2 == IF "COARSE_MINUS" \in c THEN Byte(f1 - Coarse) ELSE f1
      f3 == IF "FINE_PLUS" \in c THEN Byte(f2 + Fine) ELSE f2
      f4 == IF "FINE_MINUS" \in c THEN Byte(f3 - Fine) ELSE f3
  IN  Max2(Min2(f4, MaxFeed), MinFeed)
RapidOverride(c) ==
  CASE "R_LOW" \in c -> RapidLow
    [] "R_LOW" \notin c /\ "R_MEDIUM" \in c -> RapidMedium
    [] c \cap {"R_LOW", "R_MEDIUM"} = {} /\ "R_RESET" \in c -> DefaultOverride
    [] c \cap RapidCommand = {} -> r_override

(* plan_update_velocity_profile_parameters, under overrides f and r: the   *)
(* buffer with its maximum entry speeds anew.                              *)
Reprofiled(f, r) ==
  LET nominal(k) == plan_compute_profile_nominal_speed(Block(k), f, r)
      prev(k) == IF k = 0 THEN SomeLargeValue ELSE nominal(k - 1)
  IN  [i \in Index |->
         LET k == Span(block_buffer_tail, i)
         IN  IF k < Count
             THEN [block_buffer[i] EXCEPT !.max_entry =
                     MaxEntry(block_buffer[i].max_junction, nominal(k), prev(k))]
             ELSE block_buffer[i]]
LastNominal(f, r) ==
  IF Empty THEN SomeLargeValue
  ELSE plan_compute_profile_nominal_speed(Block(Count - 1), f, r)

ExecuteOverrides(c) ==
  LET f == FeedOverride(c)
      r == RapidOverride(c)
  IN  /\ state # "HOMING"
      /\ <<f, r>> # <<f_override, r_override>>
      /\ f_override' = f /\ r_override' = r
      /\ slowed' = (~Empty /\ (slowed \/ f < f_override \/ r < r_override))
      /\ previous_nominal_speed' = LastNominal(f, r)
      /\ plan_cycle_reinitialize(Reprofiled(f, r))
      /\ UNCHANGED <<block_buffer_tail, block_buffer_head, next_buffer_head, control>>

(* M2 and M30 put the overrides back when the queue is empty, and leave    *)
(* previous_nominal_speed as it was.                                       *)
ProgramEnd ==
  /\ state = "IDLE" /\ Empty
  /\ <<f_override, r_override>> # <<DefaultOverride, DefaultOverride>>
  /\ f_override' = DefaultOverride /\ r_override' = DefaultOverride
  /\ UNCHANGED <<queue, stepper, control, slowed>>

-----------------------------------------------------------------------------
(* Homing motions and reset.                                               *)

Stopped == [current |-> 0, exit |-> 0, mm_complete |-> 0, ramp |-> "DECEL",
            maximum |-> 0, recalculate |-> FALSE, decel_override |-> FALSE]

(* plan_buffer_line of a system motion, in the slot at the head.           *)
BeginSystemMotion(m) ==
  /\ state = "IDLE" /\ Empty
  /\ block_buffer' = [block_buffer EXCEPT ![block_buffer_head] =
                        [FreeBlock EXCEPT !.kind = "fixed", !.rate = RapidRate,
                                          !.mm = m]]
  /\ state' = "HOMING"
  /\ step_control' = {"EXECUTE_SYS_MOTION"}
  /\ UNCHANGED <<ring, previous_nominal_speed, stepper, hold_complete, override>>

(* limits_go_home: st_reset when a switch is met or the motion has ended.  *)
EndSystemMotion ==
  /\ state = "HOMING"
  /\ block_buffer' = [block_buffer EXCEPT ![block_buffer_head] = FreeBlock]
  /\ pl_block' = NULL /\ prep' = Stopped
  /\ state' = "IDLE" /\ step_control' = {}
  /\ UNCHANGED <<ring, previous_nominal_speed, hold_complete, override>>

Init ==
  /\ block_buffer = [i \in Index |-> FreeBlock]
  /\ block_buffer_tail = 0 /\ block_buffer_head = 0 /\ next_buffer_head = 1
  /\ block_buffer_planned = 0 /\ previous_nominal_speed = 0
  /\ pl_block = NULL /\ prep = Stopped
  /\ state = "IDLE" /\ step_control = {} /\ hold_complete = FALSE
  /\ f_override = DefaultOverride /\ r_override = DefaultOverride
  /\ slowed = FALSE

(* main.c after a reset: plan_reset, st_reset, and sys cleared.            *)
Reset ==
  /\ block_buffer' = [i \in Index |-> FreeBlock]
  /\ block_buffer_tail' = 0 /\ block_buffer_head' = 0 /\ next_buffer_head' = 1
  /\ block_buffer_planned' = 0 /\ previous_nominal_speed' = 0
  /\ pl_block' = NULL /\ prep' = Stopped
  /\ state' = "IDLE" /\ step_control' = {} /\ hold_complete' = FALSE
  /\ f_override' = DefaultOverride /\ r_override' = DefaultOverride
  /\ slowed' = FALSE

Next ==
  \/ \E m \in Motion, j \in Junctions \cup {0} : plan_buffer_line(m, j)
  \/ \E mm \in 0..Max(Lengths \cup SystemLengths) : PrepSegment(mm)
  \/ PrepHoldEnd
  \/ FeedHold \/ CycleStart \/ CycleStop
  \/ \E c \in SUBSET Commands : ExecuteOverrides(c)
  \/ \E m \in SystemLengths : BeginSystemMotion(m)
  \/ EndSystemMotion \/ ProgramEnd
  \/ Reset

Spec == Init /\ [][Next]_vars

-----------------------------------------------------------------------------
(* Properties.                                                             *)

TypeOK ==
  /\ block_buffer \in [Index -> [kind : {"feed", "fixed", "rapid"}, rate : Nat,
                                 mm : Nat, entry : Nat, max_entry : Nat,
                                 max_junction : Nat]]
  /\ {block_buffer_tail, block_buffer_head, next_buffer_head,
      block_buffer_planned} \subseteq Index
  /\ previous_nominal_speed \in Nat
  /\ pl_block \in Index \cup {NULL}
  /\ prep \in [current : Nat, exit : Nat, mm_complete : Nat,
               ramp : {"DECEL", "DECEL_OVERRIDE", "TRAPEZOID"}, maximum : Nat,
               recalculate : BOOLEAN, decel_override : BOOLEAN]
  /\ state \in {"IDLE", "CYCLE", "HOLD", "HOMING"}
  /\ step_control \subseteq {"EXECUTE_HOLD", "EXECUTE_SYS_MOTION", "END_MOTION"}
  /\ {hold_complete, slowed} \subseteq BOOLEAN
  /\ f_override \in MinFeed..MaxFeed
  /\ r_override \in {DefaultOverride, RapidMedium, RapidLow}

(* The planned pointer is never behind the tail nor past the last block,   *)
(* or planner_recalculate would run over slots that are not in use.        *)
PlannedInQueue ==
  /\ next_buffer_head = plan_next_block_index(block_buffer_head)
  /\ ~Empty => Span(block_buffer_tail, block_buffer_planned) < Count

(* Where the k-th block of the queue begins, and ends the one before it,   *)
(* from where the machine is; distances between such places.               *)
Start[k \in 0..Count] == IF k = 0 THEN 0 ELSE Start[k - 1] + Block(k - 1).mm
Dist(j, k) == Start[k] - Start[j]
Gap(j, k) == IF j < k THEN Dist(j, k) ELSE Dist(k, j)

SpeedNow == IF pl_block = NULL THEN Block(0).entry ELSE prep.current

(* The fastest speed at the start of the k-th block: within braking        *)
(* distance of every limit of the queue and of its end, and within         *)
(* accelerating distance of the speed now.                                 *)
Optimal(k) ==
  Min({Block(j).max_entry + Gap(j, k) : j \in 1..Count - 1}
      \cup {Dist(k, Count), SpeedNow + Dist(0, k)})

(* The incremental passes, which stop at the planned pointer, lose nothing *)
(* against planning the whole queue anew, whatever of it has been executed *)
(* and however often holds and raised overrides have started them again.   *)
PlanIsOptimal ==
  ~slowed /\ ~Holding => \A k \in 1..Count - 1 : Block(k).entry = Optimal(k)

(* The exit speed the stepper has cached in its profile is the planner's.  *)
ExitIsPlanned ==
  pl_block # NULL /\ ~Holding /\ ~SystemMotion /\ ~prep.decel_override
    /\ "END_MOTION" \notin step_control
  => prep.exit = plan_get_exec_block_exit_speed_sqr

(* A hold ends at rest, and the plan that is resumed starts from rest.     *)
HoldEndsAtRest ==
  hold_complete /\ ~slowed /\ (Empty \/ "END_MOTION" \in step_control)
  => prep.current = 0 /\ (~Empty => Block(0).entry = 0)

(* From one segment to the next, over junctions, holds and new plans, the  *)
(* speed changes by no more than the acceleration gives over the distance  *)
(* covered.                                                                *)
Segment == PrepHoldEnd \/ \E mm \in 0..Max(Lengths \cup SystemLengths) : PrepSegment(mm)
Covered == block_buffer[Work].mm - block_buffer'[Work].mm
NoHarshStep ==
  [][~slowed /\ ~slowed' /\ Segment
       => prep'.current - prep.current \in -Covered..Covered]_vars

(* What planner.c:76 says of a plan: no block is entered faster than it    *)
(* can brake to its exit speed.                                            *)
BrakesInTime ==
  ~Holding =>
    \A k \in 1..Count - 1 :
      Block(k).entry <= Block(k).mm + (IF k = Count - 1 THEN 0 ELSE Block(k + 1).entry)

(* A command to lower the feed override never raises it.                   *)
OverrideObeys ==
  [][\A c \in SUBSET {"COARSE_MINUS", "FINE_MINUS"} :
       ExecuteOverrides(c) => f_override' <= f_override]_vars
=============================================================================

------------------------------- MODULE Gcode -------------------------------
(***************************************************************************)
(* The g-code parser (gcode.c): a line is read into gc_block, checked as a *)
(* whole (steps 1 to 3) and then executed (step 4), which updates gc_state, *)
(* queues motion, writes coordinate data, and switches spindle and coolant. *)
(*                                                                         *)
(* A line is a set of commands ("G1") and a set of value words (<<"X",1>>); *)
(* formatting and status codes are left out, and one axis stands for both. *)
(* Realtime commands reach the parser through the calls that wait: mc_line *)
(* and protocol_buffer_synchronize return early when the system is reset.  *)
(* The machine executes the blocks queued, one at a time, between lines.   *)
(***************************************************************************)
EXTENDS Integers, Sequences, FiniteSets

CONSTANTS Lines,         \* lines of g-code: [cmds, words]
          JogLines,      \* lines after $J=
          StartupOverwrites, \* records a startup line overwrites ($N9=, see Settings)
          Systems,       \* coordinate systems, <<"G54", "G55", ...>>
          Travel,        \* the axis goes from 0 to Travel
          MmPerInch,     \* MM_PER_INCH, as an integer
          Corrupt,       \* coordinate data whose checksum does not match
          None,
          PlanSlots,     \* blocks the planner holds
          MaxLines       \* bound: lines in a behaviour

ASSUME GcodeAssumption ==
  /\ Travel \in Nat \ {0} /\ MmPerInch \in Nat /\ MmPerInch > 1 /\ MaxLines \in Nat
  /\ PlanSlots \in Nat \ {0, 1}
  /\ Systems \in Seq(STRING) /\ Len(Systems) > 0 /\ Systems[1] = "G54"
  /\ \A n \in 1..Len(Systems) : Systems[n] # "G28"
  /\ \A l \in Lines \cup JogLines : \A v \in l.words : v[2] \in Int
  /\ Corrupt \notin Int /\ None \notin {"motion", "non_modal"}

VARIABLES
  gc,             \* gc_state
  coord_data,     \* coordinate data in EEPROM: a position, or Corrupt
  plan,           \* what the planner holds, and where the machine is
  state,          \* sys.state, where CYCLE stands for HOLD and DOOR too; "ABORT"
                  \* from a reset to the initialization, "LOST" if it locks
  asked,          \* history: what the last line asked for, None where it did not
  stray,          \* history: "yes" from a homing with blocks queued, "was" from
                  \* when positions are next read from the machine, else "no"
  spoilt,         \* history: a startup line has overwritten the selected record
  lines           \* bound: lines executed

vars == <<gc, coord_data, plan, state, asked, stray, spoilt, lines>>

CoordinateSystems == {Systems[n] : n \in 1..Len(Systems)}
Stored == CoordinateSystems \cup {"G28"}

-----------------------------------------------------------------------------
(* Commands and their modal groups.                                        *)

MotionModes == {"G0", "G1", "G2", "G3", "G38.2", "G38.3", "G80"}
Probing == {"G38.2", "G38.3"}
Arcs == {"G2", "G3"}
AxisNonModal == {"G10", "G28", "G92"}
ModalGroups ==
  {AxisNonModal \cup {"G4", "G28.1", "G53", "G92.1"}, MotionModes, {"G17"},
   {"G90", "G91"}, {"G91.1"}, {"G93", "G94"}, {"G20", "G21"}, {"G40"},
   {"G43.1", "G49"}, CoordinateSystems, {"G61"}, {"M0", "M1", "M2", "M30"},
   {"M3", "M5"}, {"M8", "M9"}}
Supported == UNION ModalGroups

Has(l, w) == \E v \in l.words : v[1] = w
Val(l, w) == IF Has(l, w) THEN (CHOOSE v \in l.words : v[1] = w)[2] ELSE 0
Called(l, group, current) ==
  IF l.cmds \cap group = {} THEN current ELSE CHOOSE c \in l.cmds : c \in group

(* gc_block.modal: the modes in force, changed by the line's own commands. *)
Block(l, jog) ==
  [motion |-> Called(l, MotionModes, IF jog THEN "G1" ELSE gc.motion),
   distance |-> Called(l, {"G90", "G91"}, gc.distance),
   feed_mode |-> Called(l, {"G93", "G94"}, IF jog THEN "G94" ELSE gc.feed_mode),
   units |-> Called(l, {"G20", "G21"}, gc.units),
   coord |-> Called(l, CoordinateSystems, gc.coord),
   spindle |-> Called(l, {"M3", "M5"}, gc.spindle),
   coolant |-> Called(l, {"M8", "M9"}, gc.coolant),
   speed |-> IF Has(l, "S") THEN Val(l, "S") ELSE gc.speed]

Scale(b) == IF b.units = "G20" THEN MmPerInch ELSE 1

(* axis_command after step 2 and the first check of step 3.                *)
Explicit(l) == l.cmds \cap (AxisNonModal \cup (MotionModes \ {"G80"}) \cup {"G43.1", "G49"})
axis_command(l) ==
  IF Explicit(l) \cap AxisNonModal # {} THEN "non_modal"
  ELSE IF Explicit(l) \cap MotionModes # {} THEN "motion"
  ELSE IF Explicit(l) # {} THEN "tool_length"
  ELSE IF Has(l, "X") THEN "motion" ELSE None

(* ... and at the end of step 3: without axis words, nothing to execute.   *)
AxisCommand(l, b) ==
  IF ~Has(l, "X") /\ (\/ "G28" \in l.cmds
                      \/ axis_command(l) = "motion" /\ b.motion \in {"G0", "G1"})
  THEN None ELSE axis_command(l)

-----------------------------------------------------------------------------
(* Step 3: what the line means.                                            *)

(* gc_block.values.f: F in inches is converted only if G94 was in force.   *)
BlockFeed(l, b, jog) ==
  IF jog THEN Val(l, "F") * Scale(b)
  ELSE IF b.feed_mode = "G93" THEN Val(l, "F")
  ELSE IF gc.feed_mode = "G94"
  THEN IF Has(l, "F") THEN Val(l, "F") * Scale(b) ELSE gc.feed_rate
  ELSE Val(l, "F")

(* A read of coordinate data: zeros if it fails.                           *)
FailsUncleared(d) == d               \* mutant: a failed read leaves the caller its bytes
settings_read_coord_data(d) == IF d = Corrupt THEN 0 ELSE d

(* The coordinate data step 3 reads, in order.                             *)
Selects(l, b) == l.cmds \cap CoordinateSystems # {} /\ b.coord # gc.coord
P(l) == Val(l, "P") % 256           \* coord_select is a byte, and so is values.l
L(l) == Val(l, "L") % 256
SetSystem(l, b) == IF P(l) > 0 THEN Systems[P(l)] ELSE b.coord      \* G10
ThenReads(l, b) == IF "G10" \in l.cmds THEN {SetSystem(l, b)}
                   ELSE l.cmds \cap {"G28"}

BlockCoord(l, b) ==
  IF Selects(l, b) THEN settings_read_coord_data(coord_data[b.coord]) ELSE gc.coord_system

X(l, b) == Val(l, "X") * Scale(b)

(* The target position of a line with axis words.                          *)
Target(l, b) ==
  IF ~Has(l, "X") THEN gc.position
  ELSE IF "G53" \in l.cmds THEN X(l, b)
  ELSE IF b.distance = "G90" THEN X(l, b) + BlockCoord(l, b) + gc.coord_offset
  ELSE X(l, b) + gc.position

(* G10: the new coordinate data.                                           *)
NewCoordOfActive(l, b) ==            \* mutant: L20 forgets the G92 offset
  IF L(l) = 20 THEN gc.position - X(l, b) ELSE X(l, b)
NewCoord(l, b) ==
  IF L(l) = 20 THEN gc.position - gc.coord_offset - X(l, b) ELSE X(l, b)

NewOffset(l, b) == gc.position - BlockCoord(l, b) - X(l, b)        \* G92

-----------------------------------------------------------------------------
(* Steps 2 and 3: errors.                                                  *)

WordErrors(l) ==
  \/ ~ l.cmds \subseteq Supported
  \/ \E g \in ModalGroups : Cardinality(l.cmds \cap g) > 1
  \/ Cardinality(Explicit(l)) > 1
  \/ \E v, w \in l.words : v[1] = w[1] /\ v # w
  \/ \E v \in l.words : v[1] \in {"F", "N", "P", "S", "T"} /\ v[2] < 0
Malformed == {l \in Lines \cup JogLines : WordErrors(l)}

FeedErrors(l, b, jog) ==
  IF jog THEN ~Has(l, "F")
  ELSE b.feed_mode = "G93" /\ axis_command(l) = "motion"
       /\ b.motion \notin {"G80", "G0"} /\ ~Has(l, "F")

EarlyErrors(l, b, jog) ==
  \/ l \in Malformed
  \/ FeedErrors(l, b, jog)
  \/ "G4" \in l.cmds /\ ~Has(l, "P")
  \/ "G43.1" \in l.cmds                 \* its axis is Z, which is refused

NonModalErrors(l, b) ==
  \/ "G10" \in l.cmds /\ (\/ ~Has(l, "X")
                          \/ ~Has(l, "P") /\ ~Has(l, "L")
                          \/ P(l) > Len(Systems)
                          \/ L(l) \notin {2, 20}
                          \/ L(l) = 2 /\ Has(l, "R"))
  \/ "G92" \in l.cmds /\ ~Has(l, "X")

(* Arcs along the axis: by radius, or by the offset of the centre.         *)
Abs(n) == IF n < 0 THEN -n ELSE n
ArcErrors(l, b) ==
  LET d == Target(l, b) - gc.position
      i == Val(l, "I") * Scale(b)
      r == Val(l, "R") * Scale(b)
  IN  \/ ~Has(l, "X")
      \/ IF Has(l, "R") THEN d = 0 \/ 4 * r * r < d * d
         ELSE ~Has(l, "I") \/ Abs(d - i) # Abs(i)

MotionErrors(l, b, jog) ==
  IF b.motion = "G80" THEN Has(l, "X")
  ELSE /\ axis_command(l) = "motion" /\ b.motion # "G0"
       /\ \/ BlockFeed(l, b, jog) = 0
          \/ b.motion \in Arcs /\ ArcErrors(l, b)
          \/ b.motion \in Probing /\ (~Has(l, "X") \/ Target(l, b) = gc.position)

(* value_words that nothing has used.                                      *)
Unused(l, b, jog) ==
  LET arc == axis_command(l) = "motion" /\ b.motion \in Arcs
      used == {"N", "F"} \cup (IF jog THEN {} ELSE {"S", "T"})
              \cup (IF l.cmds \cap {"G4", "G10"} # {} THEN {"P"} ELSE {})
              \cup (IF "G10" \in l.cmds THEN {"L"} ELSE {})
              \cup (IF ~arc THEN {} ELSE IF Has(l, "R") THEN {"R"} ELSE {"I", "J", "K"})
              \cup (IF AxisCommand(l, b) # None THEN {"X"} ELSE {})
  IN  {v \in l.words : v[1] \notin used}

JogErrors(l) ==
  l.cmds \ ({"G90", "G91", "G20", "G21"} \cup AxisNonModal \cup {"G4", "G28.1", "G53", "G92.1"}) # {}
  \/ l.cmds \cap (AxisNonModal \cup {"G4", "G28.1", "G92.1"}) # {}

LateErrors(l, b, jog) ==
  \/ "G53" \in l.cmds /\ b.motion \notin {"G0", "G1"}
  \/ MotionErrors(l, b, jog)
  \/ Unused(l, b, jog) # {}
  \/ jog /\ JogErrors(l)

(* A read that fails stores a zero position and refuses the line.          *)
Restored(S) == [s \in Stored |-> IF s \in S /\ coord_data[s] = Corrupt THEN 0 ELSE coord_data[s]]
Bad(S) == \E s \in S : coord_data[s] = Corrupt
SelectReads(l, b) == IF Selects(l, b) THEN {b.coord} ELSE {}

(* What a refused line has restored, and whether the line is refused.      *)
ReadsOf(l, b, jog) ==
  IF EarlyErrors(l, b, jog) THEN {}
  ELSE IF Bad(SelectReads(l, b)) \/ NonModalErrors(l, b) THEN SelectReads(l, b)
  ELSE SelectReads(l, b) \cup ThenReads(l, b)

Refused(l, b, jog) ==
  \/ EarlyErrors(l, b, jog) \/ NonModalErrors(l, b)
  \/ Bad(ReadsOf(l, b, jog)) \/ LateErrors(l, b, jog)

Nothing(l) == [ok |-> TRUE, work |-> None, feed |-> None,
               stay |-> ~Has(l, "X") /\ "G28" \notin l.cmds]

-----------------------------------------------------------------------------
(* The plan: blocks, by where the machine will be at the end of each; the  *)
(* place of the machine where the first of them starts; and pl.position,   *)
(* from which plan_buffer_line takes the length of the next.               *)

Rest(q) == IF q.blocks = << >> THEN q.machine ELSE q.blocks[Len(q.blocks)]

plan_buffer_line(q, t) ==
  [machine |-> q.machine, position |-> t,
   blocks |-> IF t = q.position THEN q.blocks
              ELSE Append(q.blocks, Rest(q) + t - q.position)]

Emptied(q) == [machine |-> Rest(q), position |-> q.position, blocks |-> << >>]

(* Where the machine may be stopped while it executes the blocks.          *)
Between(p, q) == (p..q) \cup (q..p)
Passed(q) ==
  {q.machine} \cup
  UNION {Between(IF i = 1 THEN q.machine ELSE q.blocks[i - 1], q.blocks[i]) :
         i \in 1..Len(q.blocks)}
Advanced(q) ==                       \* the first block has been executed
  [machine |-> q.blocks[1], position |-> q.position, blocks |-> Tail(q.blocks)]
StoppedAt(p) == [machine |-> p, position |-> plan.position, blocks |-> << >>]

(* A reset: the planner is emptied, and the position lost if it was moving. *)
(* (If gc_init then fails to read G54, its write waits for the planner,     *)
(* which main.c empties only later: what was queued is executed after all.  *)
(* The machine still ends on its path.)                                     *)
Cut(q, S) == (\E p \in Passed(q) : plan' = StoppedAt(p)) /\ state' \in S

(* protocol_buffer_synchronize, on its own. In check mode nothing starts   *)
(* the blocks that were queued before, so only a reset ends the wait. (In  *)
(* a hold it may return with the last block still moving: see Realtime.)   *)
protocol_buffer_synchronize ==
  \/ /\ state # "CHECK" \/ plan.blocks = << >>
     /\ plan' = Emptied(plan)
     /\ state' = IF state = "CYCLE" THEN "IDLE" ELSE state
  \/ /\ plan.blocks # << >>
     /\ Cut(plan, IF state = "CHECK" THEN {"ABORT"} ELSE {"ABORT", "LOST"})

(* A refused line changes nothing but the records it could not read.       *)
Refuse(l, b, jog) ==
  /\ asked' = [Nothing(l) EXCEPT !.ok = FALSE]
  /\ coord_data' = Restored(ReadsOf(l, b, jog))
  /\ IF Bad(ReadsOf(l, b, jog)) THEN protocol_buffer_synchronize
     ELSE UNCHANGED <<plan, state>>
  /\ UNCHANGED <<gc, stray, spoilt>>

-----------------------------------------------------------------------------
(* Step 4, up to the motion.                                               *)

ProgramEnd(l) == l.cmds \cap {"M2", "M30"} # {}
ProgramFlow(l) == l.cmds \cap {"M0", "M2", "M30"} # {}

(* The steps before the motion that empty the planner before they take     *)
(* effect; the first kind does so in check mode as well.                   *)
Waits(l, b) ==
  b.coord # gc.coord \/ l.cmds \cap {"G10", "G28.1", "G92", "G92.1"} # {}
Synced(l, b) ==
  \/ Waits(l, b)
  \/ b.spindle # gc.spindle \/ b.coolant # gc.coolant \/ "G4" \in l.cmds
  \/ b.speed # gc.speed /\ gc.spindle = "M3"

Written(l, b) ==
  LET read == Restored(ReadsOf(l, b, FALSE))
  IN  IF "G10" \in l.cmds THEN [read EXCEPT ![SetSystem(l, b)] = NewCoord(l, b)]
      ELSE IF "G28.1" \in l.cmds THEN [read EXCEPT !["G28"] = gc.position]
      ELSE read

Modal(l, b) ==
  [gc EXCEPT !.feed_mode = b.feed_mode, !.feed_rate = BlockFeed(l, b, FALSE),
             !.spindle = b.spindle, !.coolant = b.coolant, !.speed = b.speed,
             !.units = b.units, !.coord = b.coord, !.distance = b.distance,
             !.motion = b.motion]

Modes(l, b) ==
  [Modal(l, b) EXCEPT
     !.coord_system = IF "G10" \in l.cmds /\ SetSystem(l, b) = b.coord
                      THEN NewCoord(l, b) ELSE BlockCoord(l, b),
     !.coord_offset = IF "G92" \in l.cmds THEN NewOffset(l, b)
                      ELSE IF "G92.1" \in l.cmds THEN 0 ELSE @]

(* The targets handed to mc_line, in order. Of the many lines of an arc    *)
(* there are two here, to some point between its ends and to its end.      *)
Arc(l, b) == "G28" \notin l.cmds /\ AxisCommand(l, b) = "motion" /\ b.motion \in Arcs
Via(l, b) == IF Arc(l, b) THEN 0..Travel ELSE {0}
Moves(l, b, via) ==
  IF "G28" \in l.cmds
  THEN IF AxisCommand(l, b) = None THEN <<coord_data["G28"]>>
       ELSE <<Target(l, b), coord_data["G28"]>>
  ELSE IF AxisCommand(l, b) # "motion" THEN << >>
  ELSE IF Arc(l, b) THEN <<via, Target(l, b)>> ELSE <<Target(l, b)>>
Moving(l, b) == "G28" \in l.cmds \/ AxisCommand(l, b) = "motion"
Probes(l, b) == Moving(l, b) /\ "G28" \notin l.cmds /\ b.motion \in Probing

(* The plan with these moves, those from the first out of travel left out. *)
NoSoftLimit(p) == TRUE               \* mutant: soft limits are not checked
InTravel(p) == p \in 0..Travel       \* system_check_travel_limits

Queue(q, m) ==
  IF m = << >> \/ ~InTravel(m[1]) THEN q
  ELSE IF Len(m) = 1 \/ ~InTravel(m[2]) THEN plan_buffer_line(q, m[1])
  ELSE plan_buffer_line(plan_buffer_line(q, m[1]), m[2])

(* The line names a work position: it sets it there, or goes there.        *)
NamesPosition(l, b) ==
  \/ "G92" \in l.cmds
  \/ "G10" \in l.cmds /\ L(l) = 20 /\ SetSystem(l, b) = b.coord
  \/ /\ Moving(l, b) /\ b.distance = "G90" /\ ~Probes(l, b)
     /\ l.cmds \cap {"G28", "G53", "G92.1"} = {}

Asked(l, b) ==
  [Nothing(l) EXCEPT
     !.work = IF NamesPosition(l, b) /\ ~ProgramEnd(l) THEN X(l, b) ELSE None,
     !.feed = IF b.feed_mode = "G94" /\ Has(l, "F") THEN Val(l, "F") * Scale(b) ELSE None]

(* M0 waits for the planner to empty; M2 and M30 also set modes back. In   *)
(* check mode the coordinate system is not read.                           *)
EndModes(g) ==
  [g EXCEPT !.motion = "G1", !.distance = "G90", !.feed_mode = "G94", !.coord = "G54",
            !.spindle = "M5", !.coolant = "M9"]

EndWithoutRead(g, w) == EndModes(g)  \* mutant: M30 selects G54 and keeps its old offset
EndOfProgram(g, w) ==
  [EndModes(g) EXCEPT !.coord_system = settings_read_coord_data(w["G54"])]

(* The offset in force is one this line has read or written.               *)
Loads(l, b) ==
  \/ Selects(l, b) \/ ProgramEnd(l)
  \/ "G10" \in l.cmds /\ SetSystem(l, b) = b.coord

(* The line has been executed but for its program flow: the parser is left *)
(* with g, the plan is q, and the state s.                                 *)
Finish(l, b, g, q, s) ==
  LET w == Written(l, b)
      ends == ProgramEnd(l) /\ s # "CHECK"
      fails == ends /\ w["G54"] = Corrupt
  IN  /\ plan' = IF ProgramFlow(l) /\ s # "CHECK" THEN Emptied(q) ELSE q
      /\ state' = s
      /\ gc' = IF ends THEN EndOfProgram(g, w) ELSE IF ProgramEnd(l) THEN EndModes(g) ELSE g
      /\ coord_data' = IF fails THEN [w EXCEPT !["G54"] = 0] ELSE w
      /\ asked' = [Asked(l, b) EXCEPT !.ok = ~fails]
      /\ spoilt' = (spoilt /\ ~Loads(l, b))

(* The moves are queued, once there is room, or only checked in check mode. *)
Synchronised(l, b) == IF Synced(l, b) THEN Emptied(plan) ELSE plan

Motion(l, b) ==
  \E via \in Via(l, b) :
    LET m == Moves(l, b, via)
        q == Queue(Synchronised(l, b), m)
        g == [Modes(l, b) EXCEPT !.position = IF m = << >> THEN @ ELSE m[Len(m)]]
    IN  /\ state # "CHECK" \/ ~Probes(l, b) => \A i \in 1..Len(m) : InTravel(m[i])
        /\ UNCHANGED stray
        /\ IF state = "CHECK"
           THEN /\ Waits(l, b) \/ ProgramFlow(l) => plan.blocks = << >>
                /\ Finish(l, b, g, plan, "CHECK")
           ELSE /\ ~Probes(l, b) /\ Len(q.blocks) <= PlanSlots
                /\ Finish(l, b, g, q, IF Synced(l, b) \/ ProgramFlow(l) THEN "IDLE" ELSE state)

(* A probe that is closed from the start stops with an alarm; one that is  *)
(* not reached ends at its target, with an alarm unless it is G38.3; else  *)
(* parser and planner take over the position where it closed.              *)
At(p) == [machine |-> p, position |-> p, blocks |-> << >>]
Read == IF stray = "yes" THEN "was" ELSE stray

ProbeToTarget(l, b, p) ==            \* mutant: the parser believes it reached the target
  [Modes(l, b) EXCEPT !.position = Target(l, b)]
ProbeFound(l, b, p) == [Modes(l, b) EXCEPT !.position = p]

ProbeCycle(l, b) ==
  LET t == Target(l, b)
      q == plan_buffer_line(Emptied(plan), t)
  IN  /\ Probes(l, b) /\ state \in {"IDLE", "CYCLE"}
      /\ \/ Finish(l, b, Modes(l, b), Emptied(plan), "ALARM") /\ UNCHANGED stray
         \/ /\ InTravel(t) /\ UNCHANGED stray
            /\ Finish(l, b, [Modes(l, b) EXCEPT !.position = t], At(Rest(q)),
                      IF b.motion = "G38.2" THEN "ALARM" ELSE "IDLE")
         \/ /\ InTravel(t) /\ stray' = Read
            /\ \E p \in Between(q.machine, Rest(q)) :
                 Finish(l, b, ProbeFound(l, b, p), At(p), "IDLE")

(* A reset, or a target out of travel, ends the line at one of its calls   *)
(* that wait. The rest of the line runs without effect but for what it     *)
(* writes; gc_state, cleared before it is read again, is left out.         *)
CutShort(l, b, S) ==
  /\ IF state = "CHECK" THEN Cut(plan, S)
     ELSE \E via \in Via(l, b) : Cut(Queue(plan, Moves(l, b, via)), S)
  /\ coord_data' = Written(l, b)
  /\ asked' = Nothing(l)
  /\ UNCHANGED <<gc, stray, spoilt>>

SoftLimit(l, b) ==
  /\ Arc(l, b) \/ \E i \in 1..Len(Moves(l, b, 0)) : ~InTravel(Moves(l, b, 0)[i])
  /\ state = "CHECK" => ~Probes(l, b) /\ (Waits(l, b) => plan.blocks = << >>)
  /\ CutShort(l, b, {"LOST"})

ResetDuring(l, b) ==
  IF state = "CHECK"
  THEN (Waits(l, b) \/ ProgramFlow(l)) /\ plan.blocks # << >> /\ CutShort(l, b, {"ABORT"})
  ELSE /\ Synced(l, b) \/ ProgramFlow(l) \/ Moving(l, b)
       /\ CutShort(l, b, IF plan.blocks # << >> \/ Moving(l, b) THEN {"ABORT", "LOST"}
                         ELSE {"ABORT"})

gc_execute_line(l) ==
  LET b == Block(l, FALSE)
  IN  /\ state \in {"IDLE", "CYCLE", "CHECK"} /\ lines < MaxLines /\ lines' = lines + 1
      /\ IF Refused(l, b, FALSE) THEN Refuse(l, b, FALSE)
         ELSE Motion(l, b) \/ ProbeCycle(l, b) \/ SoftLimit(l, b) \/ ResetDuring(l, b)

-----------------------------------------------------------------------------
(* Jogs: the same parsing, of which only the position is kept. A line      *)
(* without axis words has a target of zeros.                               *)

JogTarget(l, b) == IF Has(l, "X") THEN Target(l, b) ELSE 0

(* The jog is queued: at once; in IDLE with the planner full, after its    *)
(* cycle was started; or after a cancel of the jog that filled it.         *)
jog_execute(t) ==
  \/ LET q == plan_buffer_line(plan, t)
     IN  /\ Len(plan.blocks) < PlanSlots
         /\ plan' = q /\ UNCHANGED stray
         /\ state' = IF q.blocks # << >> THEN "JOG" ELSE state
  \/ /\ Len(plan.blocks) = PlanSlots /\ state = "IDLE"
     /\ plan' = plan_buffer_line(Advanced(plan), t)
     /\ state' = "CYCLE" /\ UNCHANGED stray
  \/ /\ Len(plan.blocks) = PlanSlots /\ state = "JOG"
     /\ \E p \in Passed(plan) : plan' = plan_buffer_line(At(p), t)
     /\ state' = (IF plan'.blocks # << >> THEN "JOG" ELSE "IDLE") /\ stray' = Read

Jog(l) ==
  LET b == Block(l, TRUE)
      t == JogTarget(l, b)
  IN  /\ state \in {"IDLE", "JOG"} /\ lines < MaxLines /\ lines' = lines + 1
      /\ IF Refused(l, b, TRUE) THEN Refuse(l, b, TRUE)
         ELSE /\ coord_data' = Restored(ReadsOf(l, b, TRUE))
              /\ asked' = [Nothing(l) EXCEPT !.ok = InTravel(t)]
              /\ UNCHANGED spoilt
              /\ IF ~InTravel(t) THEN UNCHANGED <<gc, plan, state, stray>>
                 ELSE gc' = [gc EXCEPT !.position = t] /\ jog_execute(t)

-----------------------------------------------------------------------------
(* Steps of the machine and of the system that the parser shares state with. *)

NoLine == [ok |-> TRUE, work |-> None, feed |-> None, stay |-> FALSE]
Quiet == asked' = NoLine /\ UNCHANGED lines

(* A cycle starts when the stream pauses (protocol_auto_cycle_start) or on *)
(* request, executes block after block, and stops, also when the segments  *)
(* run out in the middle of the plan.                                      *)
CycleStart ==
  /\ state = "IDLE" /\ plan.blocks # << >> /\ state' = "CYCLE"
  /\ UNCHANGED <<gc, coord_data, plan, asked, stray, spoilt, lines>>

Executes ==
  /\ state \in {"CYCLE", "JOG"} /\ plan.blocks # << >>
  /\ plan' = Advanced(plan)
  /\ UNCHANGED <<gc, coord_data, state, asked, stray, spoilt, lines>>

CycleStop ==
  /\ state \in {"CYCLE", "JOG"} /\ state' = "IDLE"
  /\ UNCHANGED <<gc, coord_data, plan, asked, stray, spoilt, lines>>

JogCancelled(p) == [gc EXCEPT !.position = p]

JogCancel ==
  /\ state = "JOG"
  /\ \E p \in Passed(plan) : gc' = JogCancelled(p) /\ plan' = At(p)
  /\ state' = "IDLE" /\ stray' = Read /\ Quiet
  /\ UNCHANGED <<coord_data, spoilt>>

(* Homing: the machine is at the origin, the parser and pl.position too,   *)
(* and whatever was queued is left in the planner.                         *)
Homed(p) == [gc EXCEPT !.position = p, !.spindle = "M5"]

mc_homing_cycle ==
  /\ state \in {"IDLE", "ALARM"} /\ Quiet
  /\ UNCHANGED <<coord_data, spoilt>>
  /\ \/ /\ gc' = Homed(0) /\ state' = "IDLE"
        /\ plan' = [machine |-> 0, position |-> 0,
                    blocks |-> [i \in 1..Len(plan.blocks) |-> plan.blocks[i] - plan.machine]]
        /\ stray' = IF plan.blocks = << >> THEN "no" ELSE "yes"
     \/ /\ \E p \in 0..Travel : plan' = StoppedAt(p)    \* it failed, or a reset
        /\ state' = "LOST" /\ UNCHANGED <<gc, stray>>

CheckMode ==
  /\ state = "IDLE" /\ state' = "CHECK" /\ Quiet
  /\ UNCHANGED <<gc, coord_data, plan, stray, spoilt>>

Unlock ==
  /\ state = "ALARM" /\ state' = "IDLE" /\ Quiet
  /\ UNCHANGED <<gc, coord_data, plan, stray, spoilt>>

(* $RST=#: the first write waits for the machine, then a reset is forced.  *)
RestoreParameters ==
  /\ state \in {"IDLE", "ALARM"}
  /\ coord_data' = [s \in Stored |-> 0]
  /\ Cut(plan, IF state = "ALARM" THEN {"LOST"} ELSE
               IF plan.blocks = << >> THEN {"ABORT"} ELSE {"ABORT", "LOST"})
  /\ Quiet /\ UNCHANGED <<gc, stray, spoilt>>

(* $Nn=: waits for the machine, and writes where n says.                   *)
StoreStartupLine ==
  /\ state = "IDLE" /\ lines < MaxLines /\ lines' = lines + 1 /\ asked' = NoLine
  /\ protocol_buffer_synchronize
  /\ \E s \in SUBSET StartupOverwrites :
       /\ coord_data' = [r \in Stored |-> IF r \in s THEN Corrupt ELSE coord_data[r]]
       /\ spoilt' = (spoilt \/ gc.coord \in s)
  /\ UNCHANGED <<gc, stray>>

(* A reset, also the one that ends check mode.                             *)
mc_reset ==
  /\ state \notin {"ABORT", "LOST"}
  /\ Cut(plan, IF state \in {"ALARM", "JOG"} THEN {"LOST"}
               ELSE IF state = "CYCLE" THEN {"ABORT", "LOST"} ELSE {"ABORT"})
  /\ Quiet /\ UNCHANGED <<gc, coord_data, stray, spoilt>>

(* Power fails while coordinate data are written, some bytes of them old.  *)
(* Positions are counted from where the machine is then.                   *)
PowerLost ==
  /\ state \in {"IDLE", "CHECK"} /\ lines < MaxLines /\ lines' = lines + 1
  /\ \E s \in Stored : coord_data' = [coord_data EXCEPT ![s] = Corrupt]
  /\ plan' = At(0) /\ stray' = "no"
  /\ state' = "LOST" /\ asked' = NoLine
  /\ UNCHANGED <<gc, spoilt>>

Cleared(p, c) ==
  [motion |-> "G0", distance |-> "G90", feed_mode |-> "G94", units |-> "G21",
   coord |-> "G54", spindle |-> "M5", coolant |-> "M9", speed |-> 0, feed_rate |-> 0,
   position |-> p, coord_system |-> c, coord_offset |-> 0]

BootData(d) == [d EXCEPT !["G54"] = settings_read_coord_data(@)]

(* gc_init, and both positions from that of the machine.                   *)
gc_init ==
  /\ state \in {"ABORT", "LOST"}
  /\ coord_data' = BootData(coord_data)
  /\ gc' = Cleared(plan.machine, settings_read_coord_data(coord_data["G54"]))
  /\ plan' = At(plan.machine)
  /\ state' = (IF state = "LOST" THEN "ALARM" ELSE "IDLE") /\ Quiet
  /\ stray' = Read /\ spoilt' = FALSE

Init ==
  /\ gc = Cleared(0, 0)
  /\ coord_data = [s \in Stored |-> 0]
  /\ plan = At(0) /\ state = "ALARM"
  /\ asked = NoLine /\ stray = "no" /\ spoilt = FALSE
  /\ lines = 0

Next ==
  \/ \E l \in Lines : gc_execute_line(l)
  \/ \E l \in JogLines : Jog(l)
  \/ CycleStart \/ Executes \/ CycleStop
  \/ JogCancel \/ mc_homing_cycle \/ CheckMode \/ Unlock
  \/ RestoreParameters \/ StoreStartupLine \/ mc_reset \/ PowerLost \/ gc_init

Spec == Init /\ [][Next]_vars

-----------------------------------------------------------------------------
TypeOK ==
  /\ gc.motion \in MotionModes /\ gc.coord \in CoordinateSystems
  /\ gc.position \in Int /\ gc.coord_system \in Int /\ gc.coord_offset \in Int
  /\ gc.feed_rate \in Nat
  /\ \A s \in Stored : coord_data[s] \in Int \/ coord_data[s] = Corrupt
  /\ plan.machine \in Int /\ plan.position \in Int
  /\ plan.blocks \in Seq(Int) /\ Len(plan.blocks) <= PlanSlots
  /\ state \in {"IDLE", "CYCLE", "JOG", "CHECK", "ALARM", "ABORT", "LOST"}
  /\ stray \in {"no", "yes", "was"} /\ spoilt \in BOOLEAN
  /\ lines \in 0..MaxLines

(* "As far as the parser is concerned, the position is now == target"      *)
(* (gcode.c:1086): the next target is computed from where the planner      *)
(* ends, and the machine with it, after whatever move, probe, jog, cancel, *)
(* homing, reset or alarm, except from a homing that found blocks queued.  *)
PositionFollowsPlan ==
  state \in {"IDLE", "CYCLE", "JOG", "ALARM"} /\ stray # "yes" =>
    gc.position = plan.position /\ plan.position = Rest(plan)

(* The machine stays within its travel, wherever it is stopped; again      *)
(* unless it was homed with blocks queued, and not homed since.            *)
StaysInTravel ==
  stray = "no" =>
    plan.machine \in 0..Travel /\ \A i \in 1..Len(plan.blocks) : plan.blocks[i] \in 0..Travel

(* A homing starts with the planner empty (motion_control.c:204-205,       *)
(* limits.c:262).                                                          *)
HomedWithEmptyPlan == stray = "no"

(* The offset in force is the one stored for the selected system, whoever  *)
(* wrote it last and however it was selected. The exceptions are check     *)
(* mode, which ends with a reset, and a record that a startup line has     *)
(* overwritten, until it is next read or written.                          *)
CoordMatchesSelection ==
  state \notin {"CHECK", "ABORT", "LOST"} /\ ~spoilt => gc.coord_system = coord_data[gc.coord]

(* "all commands and values in this block are dumped and will not update   *)
(* the active system g-code modes" (gcode.c:355-356), of every line that   *)
(* returns an error, the program end included, where step 4 can fail.      *)
RefusedChangesNothing ==
  [][lines' # lines /\ ~asked'.ok => UNCHANGED gc]_vars

(* A line that sets or reaches a work position leaves the parser there.    *)
WorkPositionAsAsked ==
  asked.work # None /\ state \in {"IDLE", "CYCLE", "CHECK", "ALARM"} =>
    gc.position - gc.coord_system - gc.coord_offset = asked.work

(* "ensure value is in mm/min" (gcode.c:429): F words count in the units   *)
(* of their line.                                                          *)
FeedInMm ==
  asked.feed # None /\ state \in {"IDLE", "CYCLE", "CHECK"} => gc.feed_rate = asked.feed

(* "Feed rate word and axis word checks have already been performed"       *)
(* (gcode.c:872): a line without axis words moves only if it is a G28.     *)
AxisWordsMove ==
  [][lines' # lines /\ asked'.stay /\ state' \notin {"ABORT", "LOST"} =>
       plan'.position = plan.position]_vars
=============================================================================

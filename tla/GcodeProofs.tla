----------------------------- MODULE GcodeProofs -----------------------------
(***************************************************************************)
(* Proofs about gcode.c, for every set of lines, every number of them, and *)
(* every set of coordinate systems.                                        *)
(***************************************************************************)
EXTENDS Gcode, TLAPS, FiniteSetTheorems, SequenceTheorems

GcFields == {"motion", "distance", "feed_mode", "units", "coord", "spindle", "coolant",
             "speed", "feed_rate", "position", "coord_system", "coord_offset"}

GcTypes == /\ DOMAIN gc = GcFields
           /\ coord_data \in [Stored -> Int \cup {Corrupt}]
           /\ TypeOK

GcInv == GcTypes /\ PositionFollowsPlan /\ StaysInTravel /\ CoordMatchesSelection

Line == Lines \cup JogLines

-----------------------------------------------------------------------------
(* The values of a line.                                                   *)

LEMMA SystemsStored == /\ "G54" \in CoordinateSystems
                       /\ CoordinateSystems \subseteq Stored
BY GcodeAssumption DEF CoordinateSystems, Stored

LEMMA ValIsInt ==
  ASSUME NEW l \in Line, NEW w
  PROVE  Val(l, w) \in Int
<1>1. CASE Has(l, w)
  <2> DEFINE v == CHOOSE u \in l.words : u[1] = w
  <2>1. v \in l.words
    BY <1>1 DEF Has
  <2> QED
    BY <1>1, <2>1, GcodeAssumption DEF Val, Line
<1>2. CASE ~Has(l, w)
  BY <1>2 DEF Val
<1> QED
  BY <1>1, <1>2

LEMMA CalledIn ==
  ASSUME NEW l, NEW group, NEW current
  PROVE  /\ Called(l, group, current) \in group \cup {current}
         /\ (l.cmds \cap group = {}) => Called(l, group, current) = current
<1>1. CASE l.cmds \cap group = {}
  BY <1>1 DEF Called
<1>2. CASE l.cmds \cap group # {}
  BY <1>2 DEF Called
<1> QED
  BY <1>1, <1>2

LEMMA BlockModes ==
  ASSUME GcTypes, NEW l, NEW jog
  PROVE  LET b == Block(l, jog)
         IN  /\ (jog = FALSE) => b.motion \in MotionModes
             /\ b.coord \in CoordinateSystems
             /\ ~Selects(l, b) => b.coord = gc.coord
<1>1. Block(l, jog).motion = Called(l, MotionModes, IF jog THEN "G1" ELSE gc.motion)
      /\ Block(l, jog).coord = Called(l, CoordinateSystems, gc.coord)
  BY DEF Block
<1>2. (jog = FALSE) => Called(l, MotionModes, IF jog THEN "G1" ELSE gc.motion) \in MotionModes
  BY CalledIn DEF GcTypes, TypeOK
<1>3. Called(l, CoordinateSystems, gc.coord) \in CoordinateSystems
  BY CalledIn DEF GcTypes, TypeOK
<1>4. (l.cmds \cap CoordinateSystems = {}) => Called(l, CoordinateSystems, gc.coord) = gc.coord
  BY CalledIn
<1> QED
  BY <1>1, <1>2, <1>3, <1>4 DEF Selects

(* Positions and offsets are numbers, whatever is stored.                  *)
LEMMA ValuesAreInt ==
  ASSUME GcTypes, NEW l \in Line, NEW b, b.coord \in CoordinateSystems
  PROVE  /\ X(l, b) \in Int /\ BlockCoord(l, b) \in Int /\ Target(l, b) \in Int
         /\ NewCoord(l, b) \in Int /\ NewOffset(l, b) \in Int
<1>1. Scale(b) \in Int
  BY GcodeAssumption DEF Scale
<1>2. X(l, b) \in Int
  BY <1>1, ValIsInt DEF X
<1>3. coord_data[b.coord] \in Int \/ coord_data[b.coord] = Corrupt
  BY SystemsStored DEF GcTypes, TypeOK
<1>4. BlockCoord(l, b) \in Int
  BY <1>3 DEF BlockCoord, settings_read_coord_data, GcTypes, TypeOK
<1>5. gc.position \in Int /\ gc.coord_offset \in Int
  BY DEF GcTypes, TypeOK
<1>6. Target(l, b) \in Int
  BY <1>2, <1>4, <1>5 DEF Target
<1>7. NewCoord(l, b) \in Int /\ NewOffset(l, b) \in Int
  BY <1>2, <1>4, <1>5 DEF NewCoord, NewOffset
<1> QED
  BY <1>2, <1>4, <1>6, <1>7

LEMMA FeedIsNat ==
  ASSUME GcTypes, NEW l \in Line, NEW b, ~WordErrors(l)
  PROVE  BlockFeed(l, b, FALSE) \in Nat
<1>1. Scale(b) \in Nat
  BY GcodeAssumption DEF Scale
<1>2. Val(l, "F") \in Nat
  <2>1. CASE Has(l, "F")
    <3> DEFINE v == CHOOSE u \in l.words : u[1] = "F"
    <3>1. v \in l.words /\ v[1] = "F"
      BY <2>1 DEF Has
    <3>2. ~(v[2] < 0) /\ v[2] \in Int
      BY <3>1, GcodeAssumption DEF WordErrors, Line
    <3> QED
      BY <2>1, <3>2 DEF Val
  <2>2. CASE ~Has(l, "F")
    BY <2>2 DEF Val
  <2> QED
    BY <2>1, <2>2
<1>3. Val(l, "F") * Scale(b) \in Nat
  BY <1>1, <1>2
<1> QED
  BY <1>2, <1>3 DEF BlockFeed, GcTypes, TypeOK

-----------------------------------------------------------------------------
(* Plans.                                                                  *)

IsPlan(q) == q.machine \in Int /\ q.position \in Int /\ q.blocks \in Seq(Int)

(* The next block starts where the last one ends.                          *)
Follows(q) == q.position = Rest(q)

(* No block starts or ends out of travel.                                  *)
Inside(q) == q.machine \in 0..Travel /\ \A i \in 1..Len(q.blocks) : q.blocks[i] \in 0..Travel

LEMMA AppendInts ==
  ASSUME NEW s \in Seq(Int), NEW e \in Int
  PROVE  LET a == Append(s, e)
         IN  /\ a \in Seq(Int) /\ Len(a) = Len(s) + 1 /\ a # << >> /\ a[Len(a)] = e
             /\ \A i \in 1..Len(a) : a[i] = IF i = Len(a) THEN e ELSE s[i]
<1>1. Append(s, e) \in Seq(Int) /\ Len(Append(s, e)) = Len(s) + 1
  OBVIOUS
<1>2. Append(s, e) # << >>
  BY AppendProperties
<1>3. \A i \in 1..Len(Append(s, e)) : Append(s, e)[i] = IF i = Len(Append(s, e)) THEN e ELSE s[i]
  BY <1>1
<1> QED
  BY <1>1, <1>2, <1>3

LEMMA TailInts ==
  ASSUME NEW s \in Seq(Int), s # << >>
  PROVE  LET t == Tail(s)
         IN  /\ s[1] \in Int /\ t \in Seq(Int) /\ Len(s) \in Nat /\ Len(s) > 0
             /\ Len(t) = Len(s) - 1
             /\ \A i \in 1..Len(t) : i + 1 \in 1..Len(s) /\ t[i] = s[i + 1]
             /\ t = << >> <=> Len(s) = 1
<1>1. Len(s) \in Nat /\ Len(s) > 0 /\ s[1] \in Int
  OBVIOUS
<1>2. Tail(s) \in Seq(Int) /\ Len(Tail(s)) = Len(s) - 1
  BY <1>1
<1>3. \A i \in 1..Len(Tail(s)) : i + 1 \in 1..Len(s) /\ Tail(s)[i] = s[i + 1]
  BY <1>1, <1>2
<1>4. Tail(s) = << >> <=> Len(s) = 1
  <2> DEFINE t == Tail(s)
  <2>1. t = << >> => Len(t) = 0
    BY EmptySeq
  <2>2. t # << >> => Len(t) # 0
    BY <1>2, EmptySeq
  <2> QED
    BY <1>1, <1>2, <2>1, <2>2
<1> QED
  BY <1>1, <1>2, <1>3, <1>4

LEMMA TravelIsNat == Travel \in Nat /\ 0 \in 0..Travel
BY GcodeAssumption

LEMMA RestOfPlan ==
  ASSUME NEW q, IsPlan(q)
  PROVE  Rest(q) \in Int /\ (Inside(q) => Rest(q) \in 0..Travel)
<1>1. CASE q.blocks = << >>
  BY <1>1 DEF Rest, IsPlan, Inside
<1>2. CASE q.blocks # << >>
  <2>1. Len(q.blocks) \in 1..Len(q.blocks)
    BY <1>2 DEF IsPlan
  <2>2. q.blocks[Len(q.blocks)] \in Int
    BY <2>1 DEF IsPlan
  <2> QED
    BY <1>2, <2>1, <2>2 DEF Rest, Inside
<1> QED
  BY <1>1, <1>2

(* A new block ends as far from the last as its target from pl.position.   *)
LEMMA BufferedPlan ==
  ASSUME NEW q, IsPlan(q), NEW t \in Int
  PROVE  LET r == plan_buffer_line(q, t)
         IN  /\ IsPlan(r) /\ r.position = t /\ r.machine = q.machine
             /\ Len(r.blocks) <= Len(q.blocks) + 1
             /\ Follows(q) => Follows(r)
             /\ Follows(q) /\ Inside(q) /\ t \in 0..Travel => Inside(r)
<1> DEFINE r == plan_buffer_line(q, t)
           e == Rest(q) + t - q.position
<1>1. e \in Int /\ q.blocks \in Seq(Int) /\ (Follows(q) => e = t)
  BY RestOfPlan DEF IsPlan, Follows
<1> HIDE DEF e
<1>2. r.machine = q.machine /\ r.position = t
  BY DEF plan_buffer_line
<1>3. CASE t = q.position
  <2>1. r.blocks = q.blocks
    BY <1>3 DEF plan_buffer_line
  <2> HIDE DEF r
  <2>2. IsPlan(r) /\ Rest(r) = Rest(q)
    BY <1>1, <1>2, <2>1 DEF IsPlan, Rest
  <2>3. Inside(q) => Inside(r)
    BY <1>2, <2>1 DEF Inside
  <2>4. Len(r.blocks) <= Len(q.blocks) + 1
    BY <1>1, <2>1
  <2>5. Follows(q) => Follows(r)
    BY <1>2, <1>3, <2>2 DEF Follows
  <2> QED
    BY <1>2, <2>2, <2>3, <2>4, <2>5 DEF r
<1>4. CASE t # q.position
  <2>1. r.blocks = Append(q.blocks, e)
    BY <1>4 DEF plan_buffer_line, e
  <2> HIDE DEF r
  <2>2. /\ r.blocks \in Seq(Int) /\ Len(r.blocks) = Len(q.blocks) + 1
        /\ r.blocks # << >> /\ r.blocks[Len(r.blocks)] = e
        /\ \A i \in 1..Len(r.blocks) : r.blocks[i] = IF i = Len(r.blocks) THEN e ELSE q.blocks[i]
    BY <1>1, <2>1, AppendInts
  <2>3. IsPlan(r) /\ Rest(r) = e
    BY <1>2, <2>2 DEF IsPlan, Rest
  <2>4. ASSUME Follows(q), Inside(q), t \in 0..Travel
        PROVE  Inside(r)
    <3>1. \A i \in 1..Len(r.blocks) : r.blocks[i] \in 0..Travel
      <4> TAKE i \in 1..Len(r.blocks)
      <4>1. CASE i = Len(r.blocks)
        BY <1>1, <2>2, <2>4, <4>1
      <4>2. CASE i # Len(r.blocks)
        <5>1. i \in 1..Len(q.blocks) /\ r.blocks[i] = q.blocks[i]
          BY <1>1, <2>2, <4>2
        <5> QED
          BY <5>1, <2>4 DEF Inside
      <4> QED
        BY <4>1, <4>2
    <3> QED
      BY <1>2, <2>4, <3>1 DEF Inside
  <2>5. Follows(q) => Follows(r)
    BY <1>1, <1>2, <2>3 DEF Follows
  <2>6. Len(r.blocks) <= Len(q.blocks) + 1
    BY <1>1, <2>2
  <2> QED
    BY <1>2, <2>3, <2>4, <2>5, <2>6 DEF r
<1> QED
  BY <1>3, <1>4

LEMMA EmptiedPlan ==
  ASSUME NEW q, IsPlan(q)
  PROVE  LET r == Emptied(q)
         IN  /\ IsPlan(r) /\ Len(r.blocks) = 0 /\ r.position = q.position
             /\ Rest(r) = Rest(q) /\ r.machine = Rest(q)
             /\ Follows(q) => Follows(r)
             /\ Inside(q) => Inside(r)
<1> DEFINE r == Emptied(q)
<1>1. r.machine = Rest(q) /\ r.position = q.position /\ r.blocks = << >>
  BY DEF Emptied
<1> HIDE DEF r
<1>2. Rest(r) = Rest(q) /\ Len(r.blocks) = 0
  BY <1>1 DEF Rest
<1>3. IsPlan(r)
  BY <1>1, RestOfPlan DEF IsPlan
<1>4. Inside(q) => Inside(r)
  BY <1>1, <1>2, RestOfPlan, TravelIsNat DEF Inside
<1> QED
  BY <1>1, <1>2, <1>3, <1>4 DEF Follows, r

LEMMA AdvancedPlan ==
  ASSUME NEW q, IsPlan(q), q.blocks # << >>
  PROVE  LET r == Advanced(q)
         IN  /\ IsPlan(r) /\ Len(r.blocks) = Len(q.blocks) - 1 /\ r.position = q.position
             /\ Follows(q) => Follows(r)
             /\ Inside(q) => Inside(r)
<1> DEFINE r == Advanced(q)
<1>1. r.machine = q.blocks[1] /\ r.position = q.position /\ r.blocks = Tail(q.blocks)
  BY DEF Advanced
<1>2. q.blocks \in Seq(Int) /\ Len(q.blocks) \in Nat /\ Len(q.blocks) >= 1
  BY DEF IsPlan
<1> HIDE DEF r
<1>3. /\ r.machine \in Int /\ r.blocks \in Seq(Int) /\ Len(r.blocks) = Len(q.blocks) - 1
      /\ \A i \in 1..Len(r.blocks) : i + 1 \in 1..Len(q.blocks) /\ r.blocks[i] = q.blocks[i + 1]
      /\ r.blocks = << >> <=> Len(q.blocks) = 1
  BY <1>1, <1>2, TailInts
<1>4. IsPlan(r)
  BY <1>1, <1>3 DEF IsPlan
<1>5. Rest(r) = Rest(q)
  <2>1. CASE Len(q.blocks) = 1
    BY <1>1, <1>3, <2>1 DEF Rest
  <2>2. CASE Len(q.blocks) # 1
    <3>1. r.blocks # << >> /\ Len(r.blocks) \in 1..Len(r.blocks)
          /\ Len(r.blocks) + 1 = Len(q.blocks)
      <4>1. r.blocks # << >>
        BY <1>3, <2>2
      <4>2. Len(r.blocks) = Len(q.blocks) - 1 /\ Len(q.blocks) \in Nat /\ Len(q.blocks) > 1
        BY <1>2, <1>3, <2>2
      <4> QED
        BY <2>2, <4>1, <4>2
    <3>2. r.blocks[Len(r.blocks)] = q.blocks[Len(q.blocks)]
      BY <1>3, <3>1
    <3> QED
      BY <3>1, <3>2 DEF Rest
  <2> QED
    BY <2>1, <2>2
<1>6. Inside(q) => Inside(r)
  <2> SUFFICES ASSUME Inside(q) PROVE Inside(r)
    OBVIOUS
  <2>1. r.machine \in 0..Travel
    BY <1>1, <1>2 DEF Inside
  <2>2. ASSUME NEW i \in 1..Len(r.blocks) PROVE r.blocks[i] \in 0..Travel
    BY <1>3 DEF Inside
  <2> QED
    BY <2>1, <2>2 DEF Inside
<1> QED
  BY <1>1, <1>3, <1>4, <1>5, <1>6 DEF Follows, r

(* Where the machine may stop is between the ends of its blocks.           *)
LEMMA PassedPoints ==
  ASSUME NEW q, IsPlan(q), NEW p \in Passed(q)
  PROVE  p \in Int /\ (Inside(q) => p \in 0..Travel)
<1>1. CASE p = q.machine
  BY <1>1 DEF IsPlan, Inside
<1>2. CASE p # q.machine
  <2>1. PICK i \in 1..Len(q.blocks) :
          p \in Between(IF i = 1 THEN q.machine ELSE q.blocks[i - 1], q.blocks[i])
    BY <1>2 DEF Passed
  <2> DEFINE f == IF i = 1 THEN q.machine ELSE q.blocks[i - 1]
             t == q.blocks[i]
  <2>2. q.blocks \in Seq(Int) /\ Len(q.blocks) \in Nat /\ (i = 1 \/ i - 1 \in 1..Len(q.blocks))
    BY DEF IsPlan
  <2>3. f \in Int /\ t \in Int
    BY <2>2 DEF IsPlan
  <2>4. Inside(q) => f \in 0..Travel /\ t \in 0..Travel
    BY <2>2 DEF Inside
  <2>5. p \in Between(f, t)
    BY <2>1
  <2> HIDE DEF f, t
  <2> QED
    BY <2>3, <2>4, <2>5, TravelIsNat DEF Between
<1> QED
  BY <1>1, <1>2

LEMMA PlanAt ==
  ASSUME NEW p \in Int
  PROVE  /\ IsPlan(At(p)) /\ Len(At(p).blocks) = 0 /\ At(p).position = p /\ Rest(At(p)) = p
         /\ Follows(At(p)) /\ (p \in 0..Travel => Inside(At(p)))
<1>1. At(p).machine = p /\ At(p).position = p /\ At(p).blocks = << >>
  BY DEF At
<1>2. Rest(At(p)) = p /\ Len(At(p).blocks) = 0
  BY <1>1 DEF Rest
<1>3. IsPlan(At(p))
  BY <1>1 DEF IsPlan
<1>4. p \in 0..Travel => Inside(At(p))
  BY <1>1, <1>2, TravelIsNat DEF Inside
<1> QED
  BY <1>1, <1>2, <1>3, <1>4 DEF Follows

(* Only moves within travel are queued.                                    *)
LEMMA QueuedPlan ==
  ASSUME NEW q, IsPlan(q), NEW m
  PROVE  LET r == Queue(q, m)
         IN  /\ IsPlan(r)
             /\ Follows(q) => Follows(r)
             /\ Follows(q) /\ Inside(q) => Inside(r)
<1>1. \A t : InTravel(t) => t \in Int /\ t \in 0..Travel
  BY TravelIsNat DEF InTravel
<1> DEFINE r1 == plan_buffer_line(q, m[1])
           r2 == plan_buffer_line(r1, m[2])
<1>2. InTravel(m[1]) => /\ IsPlan(r1) /\ (Follows(q) => Follows(r1))
                        /\ (Follows(q) /\ Inside(q) => Inside(r1))
  BY <1>1, BufferedPlan
<1>3. InTravel(m[1]) /\ InTravel(m[2]) =>
                        /\ IsPlan(r2) /\ (Follows(r1) => Follows(r2))
                        /\ (Follows(r1) /\ Inside(r1) => Inside(r2))
  <2> HIDE DEF r1
  <2> QED
    BY <1>1, <1>2, BufferedPlan
<1>4. Queue(q, m) = IF m = << >> \/ ~InTravel(m[1]) THEN q
                    ELSE IF Len(m) = 1 \/ ~InTravel(m[2]) THEN r1 ELSE r2
  BY DEF Queue
<1> HIDE DEF r1, r2
<1> QED
  BY <1>2, <1>3, <1>4

-----------------------------------------------------------------------------
(* Coordinate data.                                                        *)

(* A read that fails puts a zero where nothing of use was.                 *)
LEMMA RestoredData ==
  ASSUME GcTypes, NEW S
  PROVE  /\ Restored(S) \in [Stored -> Int \cup {Corrupt}]
         /\ \A s \in Stored : coord_data[s] # Corrupt => Restored(S)[s] = coord_data[s]
BY DEF Restored, GcTypes, TypeOK

LEMMA SetRecord ==
  ASSUME NEW d \in [Stored -> Int \cup {Corrupt}], NEW r, NEW v \in Int
  PROVE  [d EXCEPT ![r] = v] \in [Stored -> Int \cup {Corrupt}]
OBVIOUS

LEMMA ActiveSystemReads ==
  ASSUME GcTypes, CoordMatchesSelection, state \notin {"CHECK", "ABORT", "LOST"}, ~spoilt
  PROVE  coord_data[gc.coord] # Corrupt
BY GcodeAssumption DEF GcTypes, TypeOK, CoordMatchesSelection

(* What a line writes are numbers.                                         *)
LEMMA WrittenData ==
  ASSUME GcTypes, NEW l \in Line, NEW b, b.coord \in CoordinateSystems
  PROVE  LET w == Written(l, b)
         IN  /\ w \in [Stored -> Int \cup {Corrupt}]
             /\ \A s \in Stored : coord_data[s] # Corrupt => w[s] # Corrupt
<1> DEFINE read == Restored(ReadsOf(l, b, FALSE))
<1>1. /\ read \in [Stored -> Int \cup {Corrupt}]
      /\ \A s \in Stored : coord_data[s] # Corrupt => read[s] # Corrupt
  BY RestoredData
<1>2. NewCoord(l, b) \in Int /\ gc.position \in Int /\ Corrupt \notin Int
  BY ValuesAreInt, GcodeAssumption DEF GcTypes, TypeOK
<1>3. Written(l, b) = IF "G10" \in l.cmds THEN [read EXCEPT ![SetSystem(l, b)] = NewCoord(l, b)]
                      ELSE IF "G28.1" \in l.cmds THEN [read EXCEPT !["G28"] = gc.position]
                      ELSE read
  BY DEF Written
<1> HIDE DEF read
<1> QED
  BY <1>1, <1>2, <1>3

(* A line that is not refused finds the systems it reads as they are.      *)
LEMMA AcceptedReads ==
  ASSUME GcTypes, NEW l \in Line, NEW b, ~Refused(l, b, FALSE), b.coord \in CoordinateSystems
  PROVE  /\ ~WordErrors(l)
         /\ Selects(l, b) => coord_data[b.coord] # Corrupt
         /\ Restored(ReadsOf(l, b, FALSE)) = coord_data
<1>1. ~EarlyErrors(l, b, FALSE) /\ ~NonModalErrors(l, b) /\ ~Bad(ReadsOf(l, b, FALSE))
  BY DEF Refused
<1>2. SelectReads(l, b) \subseteq ReadsOf(l, b, FALSE)
  BY <1>1 DEF ReadsOf
<1>3. Restored(ReadsOf(l, b, FALSE)) = coord_data
  BY <1>1 DEF Bad, Restored, GcTypes
<1>4. ~WordErrors(l)
  BY <1>1 DEF EarlyErrors, Malformed, Line
<1> QED
  BY <1>1, <1>2, <1>3, <1>4 DEF SelectReads, Bad

(* The offset a line leaves in force is the one it leaves in store, if it  *)
(* loads one, or the one before was.                                       *)
LEMMA OffsetIsStored ==
  ASSUME GcTypes, CoordMatchesSelection, state \notin {"CHECK", "ABORT", "LOST"},
         NEW l \in Line, NEW b, ~Refused(l, b, FALSE), b.coord \in CoordinateSystems,
         ~Selects(l, b) => b.coord = gc.coord,
         ~ProgramEnd(l), ~spoilt \/ Loads(l, b)
  PROVE  (IF "G10" \in l.cmds /\ SetSystem(l, b) = b.coord THEN NewCoord(l, b)
          ELSE BlockCoord(l, b)) = Written(l, b)[b.coord]
<1>1. b.coord \in DOMAIN coord_data /\ b.coord # "G28"
  <2>1. b.coord \in Stored
    BY SystemsStored
  <2>2. b.coord # "G28"
    BY GcodeAssumption DEF CoordinateSystems
  <2> QED
    BY <2>1, <2>2 DEF GcTypes
<1>2. Restored(ReadsOf(l, b, FALSE)) = coord_data
  BY AcceptedReads
<1>3. CASE "G10" \in l.cmds /\ SetSystem(l, b) = b.coord
  BY <1>1, <1>2, <1>3 DEF Written
<1>4. CASE ~("G10" \in l.cmds /\ SetSystem(l, b) = b.coord)
  <2>1. ~Selects(l, b) => gc.coord_system = coord_data[b.coord]
    BY <1>4 DEF Loads, CoordMatchesSelection
  <2>2. BlockCoord(l, b) = coord_data[b.coord]
    BY <2>1, AcceptedReads DEF BlockCoord, settings_read_coord_data
  <2> QED
    BY <1>1, <1>2, <1>4, <2>2 DEF Written
<1> QED
  BY <1>3, <1>4

-----------------------------------------------------------------------------
(* The invariant, part by part.                                            *)

(* Modes with their types.                                                 *)
Typed(g) ==
  /\ DOMAIN g = GcFields
  /\ g.motion \in MotionModes /\ g.coord \in CoordinateSystems /\ g.feed_rate \in Nat
  /\ g.position \in Int /\ g.coord_system \in Int /\ g.coord_offset \in Int

Fits(q) == IsPlan(q) /\ Len(q.blocks) <= PlanSlots

States == {"IDLE", "CYCLE", "JOG", "CHECK", "ALARM", "ABORT", "LOST"}

LEMMA ThePlan ==
  ASSUME GcInv
  PROVE  /\ Fits(plan) /\ Typed(gc)
         /\ stray = "no" => Inside(plan)
         /\ state \in {"IDLE", "CYCLE", "JOG", "ALARM"} /\ stray # "yes" =>
              Follows(plan) /\ gc.position = plan.position
BY DEF GcInv, GcTypes, TypeOK, StaysInTravel, PositionFollowsPlan, IsPlan, Inside, Follows,
       Fits, Typed

LEMMA TypesNext ==
  ASSUME Typed(gc'), coord_data' \in [Stored -> Int \cup {Corrupt}], Fits(plan'),
         state' \in States, stray' \in {"no", "yes", "was"}, spoilt' \in BOOLEAN,
         lines' \in 0..MaxLines
  PROVE  GcTypes'
BY DEF GcTypes, TypeOK, Typed, Fits, IsPlan, States

LEMMA PlanNext ==
  ASSUME NEW q, plan' = q, stray' = "no" => Inside(q),
         state' \in {"IDLE", "CYCLE", "JOG", "ALARM"} /\ stray' # "yes" =>
           Follows(q) /\ gc'.position = q.position
  PROVE  PositionFollowsPlan' /\ StaysInTravel'
BY DEF PositionFollowsPlan, StaysInTravel, Inside, Follows, Rest

(* The offset in force stays, and no record gets worse.                    *)
LEMMA CoordNext ==
  ASSUME GcInv, spoilt' = spoilt,
         gc'.coord = gc.coord, gc'.coord_system = gc.coord_system,
         \A s \in Stored : coord_data[s] # Corrupt => coord_data'[s] = coord_data[s],
         state' \in {"CHECK", "ABORT", "LOST"} \/ state \notin {"CHECK", "ABORT", "LOST"}
  PROVE  CoordMatchesSelection'
<1>1. gc.coord \in Stored
  BY SystemsStored DEF GcInv, GcTypes, TypeOK
<1> QED
  BY <1>1, ActiveSystemReads DEF GcInv, CoordMatchesSelection

(* Until the initialization only the types, and travel, matter.            *)
LEMMA StoppedInv ==
  ASSUME GcInv, gc' = gc, NEW q, plan' = q, Fits(q),
         stray' \in {"no", "yes", "was"}, stray' = "no" => Inside(q),
         coord_data' \in [Stored -> Int \cup {Corrupt}], spoilt' = spoilt,
         lines' \in 0..MaxLines, state' \in {"ABORT", "LOST"}
  PROVE  GcInv'
<1>1. Typed(gc')
  BY ThePlan
<1>2. spoilt' \in BOOLEAN
  BY DEF GcInv, GcTypes, TypeOK
<1>3. GcTypes'
  BY <1>1, <1>2, TypesNext DEF States
<1>4. PositionFollowsPlan' /\ StaysInTravel'
  BY PlanNext
<1>5. CoordMatchesSelection'
  BY DEF CoordMatchesSelection
<1> QED
  BY <1>3, <1>4, <1>5 DEF GcInv

(* A reset stops the machine on its way.                                   *)
LEMMA StoppedPlan ==
  ASSUME GcInv, NEW q, IsPlan(q), stray = "no" => Inside(q), NEW p \in Passed(q)
  PROVE  Fits(StoppedAt(p)) /\ (stray = "no" => Inside(StoppedAt(p)))
<1>1. p \in Int /\ (stray = "no" => p \in 0..Travel)
  BY PassedPoints
<1> DEFINE r == StoppedAt(p)
<1>2. r.machine = p /\ r.position = plan.position /\ r.blocks = << >>
  BY DEF StoppedAt
<1>3. plan.position \in Int /\ PlanSlots \in Nat
  BY GcodeAssumption DEF GcInv, GcTypes, TypeOK
<1> HIDE DEF r
<1>4. IsPlan(r) /\ Len(r.blocks) = 0
  BY <1>1, <1>2, <1>3, EmptySeq DEF IsPlan
<1>5. Fits(r)
  BY <1>3, <1>4 DEF Fits
<1>6. stray = "no" => Inside(r)
  BY <1>1, <1>2, <1>4 DEF Inside
<1> QED
  BY <1>5, <1>6 DEF r

(* A reset stops the machine on its way.                                   *)
LEMMA CutInv ==
  ASSUME GcInv, NEW q, IsPlan(q), stray = "no" => Inside(q),
         NEW S \in SUBSET {"ABORT", "LOST"}, Cut(q, S),
         gc' = gc, stray' = stray, spoilt' = spoilt,
         coord_data' \in [Stored -> Int \cup {Corrupt}], lines' \in 0..MaxLines
  PROVE  GcInv'
<1>1. PICK p \in Passed(q) : plan' = StoppedAt(p)
  BY DEF Cut
<1>2. Fits(StoppedAt(p)) /\ (stray = "no" => Inside(StoppedAt(p)))
  BY StoppedPlan
<1>3. state' \in {"ABORT", "LOST"} /\ stray' \in {"no", "yes", "was"}
  BY DEF Cut, GcInv, GcTypes, TypeOK
<1> QED
  BY <1>1, <1>2, <1>3, StoppedInv

-----------------------------------------------------------------------------
(* The end of a line.                                                      *)

(* The G92 offset a line leaves.                                           *)
Offset(l, b) == IF "G92" \in l.cmds THEN NewOffset(l, b)
                ELSE IF "G92.1" \in l.cmds THEN 0 ELSE gc.coord_offset

(* The modes a line leaves, up to the position.                            *)
Leaves(g, l, b) ==
  /\ DOMAIN g = GcFields
  /\ g.motion \in MotionModes /\ g.position \in Int /\ g.feed_rate \in Nat
  /\ g.coord = b.coord
  /\ g.coord_offset \in Int /\ g.coord_offset = Offset(l, b)
  /\ g.coord_system = IF "G10" \in l.cmds /\ SetSystem(l, b) = b.coord THEN NewCoord(l, b)
                      ELSE BlockCoord(l, b)

LEMMA LineModes ==
  ASSUME GcTypes, NEW l \in Line, NEW b, ~Refused(l, b, FALSE),
         b.coord \in CoordinateSystems, b.motion \in MotionModes
  PROVE  /\ Leaves(Modes(l, b), l, b)
         /\ Modes(l, b).position = gc.position
<1>1. BlockFeed(l, b, FALSE) \in Nat /\ NewOffset(l, b) \in Int
  BY AcceptedReads, FeedIsNat, ValuesAreInt
<1>2. gc.position \in Int /\ gc.coord_offset \in Int
  BY DEF GcTypes, TypeOK
<1> DEFINE g == Modal(l, b)
<1>3. /\ DOMAIN g = GcFields /\ g.position = gc.position /\ g.coord_offset = gc.coord_offset
      /\ g.motion = b.motion /\ g.coord = b.coord /\ g.feed_rate = BlockFeed(l, b, FALSE)
  BY DEF Modal, GcTypes, GcFields
<1> HIDE DEF g
<1>4. Modes(l, b) =
        [g EXCEPT
           !.coord_system = IF "G10" \in l.cmds /\ SetSystem(l, b) = b.coord
                            THEN NewCoord(l, b) ELSE BlockCoord(l, b),
           !.coord_offset = IF "G92" \in l.cmds THEN NewOffset(l, b)
                            ELSE IF "G92.1" \in l.cmds THEN 0 ELSE @]
  BY DEF Modes, g
<1> DEFINE cs == IF "G10" \in l.cmds /\ SetSystem(l, b) = b.coord
                 THEN NewCoord(l, b) ELSE BlockCoord(l, b)
           co == IF "G92" \in l.cmds THEN NewOffset(l, b)
                 ELSE IF "G92.1" \in l.cmds THEN 0 ELSE g.coord_offset
<1>5. co \in Int /\ co = Offset(l, b)
  BY <1>1, <1>2, <1>3 DEF Offset
<1>6. Modes(l, b) = [g EXCEPT !.coord_system = cs, !.coord_offset = co]
  BY <1>4
<1>7. Leaves(Modes(l, b), l, b) <=> Leaves([g EXCEPT !.coord_system = cs, !.coord_offset = co], l, b)
  BY <1>6
<1> HIDE DEF cs, co
<1>8. LET h == [g EXCEPT !.coord_system = cs, !.coord_offset = co]
      IN  /\ DOMAIN h = GcFields /\ h.position = gc.position /\ h.coord_offset = co
          /\ h.motion = b.motion /\ h.coord = b.coord /\ h.feed_rate = BlockFeed(l, b, FALSE)
          /\ h.coord_system = cs
  BY <1>3 DEF GcFields
<1> QED
  BY <1>1, <1>2, <1>5, <1>6, <1>7, <1>8 DEF Leaves, cs

LEMMA EndOfProgramModes ==
  ASSUME NEW g, NEW w, DOMAIN g = GcFields
  PROVE  \A h \in {EndModes(g), EndOfProgram(g, w)} :
           /\ DOMAIN h = GcFields /\ h.motion = "G1" /\ h.coord = "G54"
           /\ h.position = g.position /\ h.feed_rate = g.feed_rate
           /\ h.coord_offset = g.coord_offset
           /\ h.coord_system \in {g.coord_system, settings_read_coord_data(w["G54"])}
<1>1. LET h == EndModes(g)
      IN  /\ DOMAIN h = GcFields /\ h.motion = "G1" /\ h.coord = "G54"
          /\ h.position = g.position /\ h.feed_rate = g.feed_rate
          /\ h.coord_offset = g.coord_offset /\ h.coord_system = g.coord_system
  BY DEF EndModes, GcFields
<1>2. LET h == EndOfProgram(g, w) d == EndModes(g)
      IN  /\ DOMAIN h = DOMAIN d /\ h.motion = d.motion /\ h.coord = d.coord
          /\ h.position = d.position
          /\ h.feed_rate = d.feed_rate /\ h.coord_offset = d.coord_offset
          /\ h.coord_system = settings_read_coord_data(w["G54"])
  BY <1>1 DEF EndOfProgram, GcFields
<1> QED
  BY <1>1, <1>2

LEMMA FinishedInv ==
  ASSUME GcInv, NEW l \in Lines, NEW b, ~Refused(l, b, FALSE),
         b.coord \in CoordinateSystems, ~Selects(l, b) => b.coord = gc.coord,
         NEW g, Leaves(g, l, b), NEW q, Fits(q),
         NEW s, s \in {"IDLE", "CYCLE", "CHECK", "ALARM"},
         state \in {"IDLE", "CYCLE", "CHECK"}, s = "CHECK" <=> state = "CHECK",
         s # "CHECK" /\ stray' # "yes" => g.position = q.position /\ Follows(q),
         stray' \in {"no", "yes", "was"}, stray' = "no" => Inside(q),
         lines' \in 0..MaxLines, Finish(l, b, g, q, s)
  PROVE  GcInv'
<1> DEFINE w == Written(l, b)
           fails == ProgramEnd(l) /\ s # "CHECK" /\ w["G54"] = Corrupt
<1>1. w \in [Stored -> Int \cup {Corrupt}]
  BY WrittenData DEF GcInv, Line
<1>2. /\ state' = s /\ spoilt' = (spoilt /\ ~Loads(l, b))
      /\ plan' = IF ProgramFlow(l) /\ s # "CHECK" THEN Emptied(q) ELSE q
      /\ coord_data' = IF fails THEN [w EXCEPT !["G54"] = 0] ELSE w
  BY Zenon DEF Finish
<1>3. gc' = IF ProgramEnd(l) /\ s # "CHECK" THEN EndOfProgram(g, w)
            ELSE IF ProgramEnd(l) THEN EndModes(g) ELSE g
  BY Zenon DEF Finish
<1>4. g.coord_system \in Int
  BY ValuesAreInt DEF GcInv, Leaves, Line
<1>5. Typed(gc') /\ gc'.position = g.position
  <2>1. CASE ~ProgramEnd(l)
    BY <1>3, <1>4, <2>1 DEF Typed, Leaves
  <2>2. CASE ProgramEnd(l)
    <3>1. gc' \in {EndModes(g), EndOfProgram(g, w)}
      BY <1>3, <2>2
    <3>2. DOMAIN g = GcFields
      BY DEF Leaves
    <3> HIDE DEF w
    <3>3. /\ DOMAIN gc' = GcFields /\ gc'.motion = "G1" /\ gc'.coord = "G54"
          /\ gc'.position = g.position /\ gc'.feed_rate = g.feed_rate
          /\ gc'.coord_offset = g.coord_offset
          /\ gc'.coord_system \in {g.coord_system, settings_read_coord_data(w["G54"])}
      BY <3>1, <3>2, EndOfProgramModes
    <3>4. settings_read_coord_data(w["G54"]) \in Int
      BY <1>1, SystemsStored DEF settings_read_coord_data
    <3>5. gc'.coord_system \in Int
      BY <1>4, <3>3, <3>4
    <3> QED
      BY <3>3, <3>5, SystemsStored DEF Typed, Leaves, MotionModes
  <2> QED
    BY <2>1, <2>2
<1>6. coord_data' \in [Stored -> Int \cup {Corrupt}]
  <2> HIDE DEF w, fails
  <2>1. [w EXCEPT !["G54"] = 0] \in [Stored -> Int \cup {Corrupt}]
    BY <1>1, SetRecord
  <2> QED
    BY <1>1, <1>2, <2>1
<1>7. PICK r : /\ plan' = r /\ Fits(r) /\ r.position = q.position
               /\ (Follows(q) => Follows(r)) /\ (Inside(q) => Inside(r))
  <2>1. /\ IsPlan(Emptied(q)) /\ Len(Emptied(q).blocks) = 0 /\ Emptied(q).position = q.position
        /\ (Follows(q) => Follows(Emptied(q))) /\ (Inside(q) => Inside(Emptied(q)))
    BY EmptiedPlan DEF Fits
  <2>2. Fits(Emptied(q))
    BY <2>1, GcodeAssumption DEF Fits
  <2> QED
    BY <1>2, <2>1, <2>2
<1>8. GcTypes'
  <2>1. Fits(plan') /\ state' \in States /\ spoilt' \in BOOLEAN
    BY <1>2, <1>7 DEF States, GcInv, GcTypes, TypeOK
  <2> QED
    BY <1>5, <1>6, <2>1, TypesNext
<1>9. PositionFollowsPlan' /\ StaysInTravel'
  <2>1. state' # "CHECK" => s # "CHECK"
    BY <1>2
  <2> QED
    BY <1>5, <1>7, <2>1, PlanNext
<1>10. CoordMatchesSelection'
  <2> SUFFICES ASSUME state' \notin {"CHECK", "ABORT", "LOST"}, ~spoilt'
               PROVE  gc'.coord_system = coord_data'[gc'.coord]
    BY DEF CoordMatchesSelection
  <2>1. s # "CHECK" /\ (~spoilt \/ Loads(l, b))
    BY <1>2
  <2>2. CASE ProgramEnd(l)
    <3>1. gc' = EndOfProgram(g, w) /\ "G54" \in Stored /\ DOMAIN g = GcFields
      BY <1>3, <2>1, <2>2, SystemsStored DEF Leaves
    <3>2. gc'.coord_system = settings_read_coord_data(w["G54"]) /\ gc'.coord = "G54"
      BY <3>1 DEF EndOfProgram, EndModes, GcFields
    <3>3. CASE w["G54"] = Corrupt
      <4>1. coord_data' = [w EXCEPT !["G54"] = 0]
        BY <1>2, <2>1, <2>2, <3>3
      <4>2. settings_read_coord_data(w["G54"]) = 0
        BY <3>3 DEF settings_read_coord_data
      <4>3. DOMAIN w = Stored
        BY <1>1
      <4> HIDE DEF w
      <4>4. coord_data'["G54"] = 0
        BY <3>1, <4>1, <4>3
      <4> QED
        BY <3>2, <4>2, <4>4
    <3>4. CASE w["G54"] # Corrupt
      <4>1. coord_data' = w
        BY <1>2, <3>4
      <4> QED
        BY <3>2, <3>4, <4>1 DEF settings_read_coord_data
    <3> QED
      BY <3>3, <3>4
  <2>3. CASE ~ProgramEnd(l)
    <3>1. gc' = g /\ coord_data' = w
      BY <1>2, <1>3, <2>3
    <3>2. state \notin {"CHECK", "ABORT", "LOST"}
      BY <2>1
    <3>3. g.coord_system = w[b.coord] /\ g.coord = b.coord
      BY <2>1, <2>3, <3>2, OffsetIsStored DEF GcInv, Leaves, Line
    <3> QED
      BY <3>1, <3>3
  <2> QED
    BY <2>2, <2>3
<1> QED
  BY <1>8, <1>9, <1>10 DEF GcInv

(* The last of the moves is where the line goes.                           *)
LEMMA LastMove ==
  ASSUME GcTypes, NEW l \in Lines, NEW b, b.coord \in CoordinateSystems, NEW via,
         Moves(l, b, via) # << >>
  PROVE  LET m == Moves(l, b, via)
         IN  /\ Len(m) \in {1, 2} /\ Len(m) \in 1..Len(m)
             /\ (Probes(l, b) => m[Len(m)] \in Int)
<1> DEFINE h == coord_data["G28"]
           t == Target(l, b)
<1>1. t \in Int
  BY ValuesAreInt DEF Line
<1>2. /\ Moves(l, b, via) \in {<<h>>, <<t>>, <<t, h>>, <<via, t>>}
      /\ (Probes(l, b) => Moves(l, b, via) = <<t>>)
  BY DEF Moves, Probes, Arc, Arcs, Probing
<1> HIDE DEF h, t
<1> QED
  BY <1>1, <1>2

(* Moves that are all within travel are all queued.                        *)
LEMMA QueuedPosition ==
  ASSUME NEW q, NEW m, m # << >>, Len(m) \in {1, 2}, \A i \in 1..Len(m) : InTravel(m[i])
  PROVE  Queue(q, m).position = m[Len(m)]
<1>1. \A r, t : plan_buffer_line(r, t).position = t
  BY DEF plan_buffer_line
<1>2. InTravel(m[1]) /\ (Len(m) = 2 => InTravel(m[2]))
  OBVIOUS
<1> QED
  BY <1>1, <1>2 DEF Queue

LEMMA MotionInv ==
  ASSUME GcInv, state \in {"IDLE", "CYCLE", "CHECK"}, lines' \in 0..MaxLines,
         NEW l \in Lines, NEW b, ~Refused(l, b, FALSE),
         b.coord \in CoordinateSystems, b.motion \in MotionModes,
         ~Selects(l, b) => b.coord = gc.coord,
         Motion(l, b)
  PROVE  GcInv'
<1>1. PICK via \in Via(l, b) :
        LET m == Moves(l, b, via)
            q == Queue(Synchronised(l, b), m)
            g == [Modes(l, b) EXCEPT !.position = IF m = << >> THEN @ ELSE m[Len(m)]]
        IN  /\ state # "CHECK" \/ ~Probes(l, b) => \A i \in 1..Len(m) : InTravel(m[i])
            /\ UNCHANGED stray
            /\ IF state = "CHECK"
               THEN Finish(l, b, g, plan, "CHECK")
               ELSE /\ ~Probes(l, b) /\ Len(q.blocks) <= PlanSlots
                    /\ Finish(l, b, g, q, IF Synced(l, b) \/ ProgramFlow(l) THEN "IDLE" ELSE state)
  BY DEF Motion
<1> DEFINE m == Moves(l, b, via)
           p == Synchronised(l, b)
           q == Queue(p, m)
           last == IF m = << >> THEN gc.position ELSE m[Len(m)]
           g == [Modes(l, b) EXCEPT !.position = last]
           r == IF state = "CHECK" THEN plan ELSE q
           s == IF state = "CHECK" THEN "CHECK"
                ELSE IF Synced(l, b) \/ ProgramFlow(l) THEN "IDLE" ELSE state
<1>2. Leaves(Modes(l, b), l, b) /\ Modes(l, b).position = gc.position
  BY LineModes DEF GcInv, Line
<1>3. /\ Finish(l, b, g, r, s) /\ stray' = stray /\ (state # "CHECK" => Len(q.blocks) <= PlanSlots)
      /\ (state # "CHECK" \/ ~Probes(l, b)) => \A i \in 1..Len(m) : InTravel(m[i])
  BY <1>1, <1>2
<1>4. /\ Fits(plan) /\ (stray = "no" => Inside(plan))
      /\ state # "CHECK" /\ stray # "yes" => Follows(plan) /\ gc.position = plan.position
      /\ stray \in {"no", "yes", "was"} /\ gc.position \in Int
  BY ThePlan DEF GcInv, GcTypes, TypeOK
<1>5. m # << >> => /\ Len(m) \in {1, 2} /\ Len(m) \in 1..Len(m)
                   /\ (Probes(l, b) => m[Len(m)] \in Int)
  BY LastMove DEF GcInv
<1>6. last \in Int
  <2>1. \A x : InTravel(x) => x \in Int
    BY TravelIsNat DEF InTravel
  <2> HIDE DEF m
  <2> QED
    BY <1>3, <1>4, <1>5, <2>1
<1>7. Leaves(g, l, b) /\ g.position = last
  <2> HIDE DEF last
  <2> QED
    BY <1>2, <1>6 DEF Leaves, GcFields
<1>8. /\ IsPlan(p) /\ p.position = plan.position
      /\ (Follows(plan) => Follows(p)) /\ (Inside(plan) => Inside(p))
  BY <1>4, EmptiedPlan DEF Synchronised, Fits
<1> HIDE DEF p, m
<1>9. /\ IsPlan(q) /\ (Follows(p) => Follows(q))
      /\ (Follows(p) /\ Inside(p) => Inside(q))
  BY <1>8, QueuedPlan
<1>10. Fits(r)
  BY <1>3, <1>4, <1>9 DEF Fits
<1>11. state # "CHECK" /\ stray # "yes" => last = q.position
  <2>1. CASE m = << >>
    BY <1>4, <1>8, <2>1 DEF Queue
  <2>2. CASE m # << >>
    BY <1>3, <1>5, <2>2, QueuedPosition
  <2> QED
    BY <2>1, <2>2
<1>12. s # "CHECK" /\ stray' # "yes" => g.position = r.position /\ Follows(r)
  BY <1>3, <1>4, <1>7, <1>8, <1>9, <1>11
<1>13. stray' = "no" => Inside(r)
  BY <1>3, <1>4, <1>8, <1>9
<1>14. s \in {"IDLE", "CYCLE", "CHECK", "ALARM"} /\ (s = "CHECK" <=> state = "CHECK")
  OBVIOUS
<1>15. stray' \in {"no", "yes", "was"}
  BY <1>3, <1>4
<1> HIDE DEF g, r, s
<1> QED
  BY <1>3, <1>7, <1>10, <1>12, <1>13, <1>14, <1>15, FinishedInv

LEMMA ProbeInv ==
  ASSUME GcInv, lines' \in 0..MaxLines,
         NEW l \in Lines, NEW b, ~Refused(l, b, FALSE),
         b.coord \in CoordinateSystems, b.motion \in MotionModes,
         ~Selects(l, b) => b.coord = gc.coord,
         ProbeCycle(l, b)
  PROVE  GcInv'
<1> DEFINE g(p) == [Modes(l, b) EXCEPT !.position = p]
           t == Target(l, b)
           e == Emptied(plan)
           q == plan_buffer_line(e, t)
<1>1. Leaves(Modes(l, b), l, b) /\ Modes(l, b).position = gc.position
  BY LineModes DEF GcInv, Line
<1>2. /\ state \in {"IDLE", "CYCLE"} /\ stray \in {"no", "yes", "was"}
      /\ Fits(plan) /\ (stray = "no" => Inside(plan))
      /\ stray # "yes" => Follows(plan) /\ gc.position = plan.position
      /\ PlanSlots \in Nat
  BY ThePlan, GcodeAssumption DEF ProbeCycle, GcInv, GcTypes, TypeOK
<1>3. ASSUME NEW p \in Int
      PROVE  Leaves(g(p), l, b) /\ g(p).position = p
  BY <1>1 DEF Leaves, GcFields
<1>4. t \in Int
  BY ValuesAreInt DEF GcInv, Line
<1> HIDE DEF g, t
<1>5. /\ IsPlan(e) /\ Len(e.blocks) = 0 /\ e.position = plan.position /\ e.machine = Rest(plan)
      /\ Rest(e) = Rest(plan)
      /\ (Follows(plan) => Follows(e)) /\ (Inside(plan) => Inside(e))
  BY <1>2, EmptiedPlan DEF Fits
<1> HIDE DEF e
<1>6. Fits(e)
  BY <1>2, <1>5 DEF Fits
<1>7. /\ IsPlan(q) /\ q.machine = e.machine /\ q.position = t
      /\ (Follows(e) => Follows(q))
      /\ (Follows(e) /\ Inside(e) /\ InTravel(t) => Inside(q))
  BY <1>4, <1>5, BufferedPlan DEF InTravel
<1>8. \/ Finish(l, b, Modes(l, b), e, "ALARM") /\ UNCHANGED stray
      \/ /\ InTravel(t) /\ UNCHANGED stray
         /\ \/ Finish(l, b, g(t), At(Rest(q)), "ALARM")
            \/ Finish(l, b, g(t), At(Rest(q)), "IDLE")
      \/ /\ InTravel(t) /\ stray' = Read
         /\ \E p \in Between(q.machine, Rest(q)) : Finish(l, b, g(p), At(p), "IDLE")
  BY DEF ProbeCycle, ProbeFound, e, g, t
<1> HIDE DEF q
<1>9. ASSUME NEW p \in Int, NEW x \in Int, NEW s \in {"ALARM", "IDLE"},
             Finish(l, b, g(x), At(p), s), stray' \in {stray, Read},
             stray' # "yes" => x = p, stray = "no" => p \in 0..Travel
      PROVE  GcInv'
  <2>1. Leaves(g(x), l, b) /\ g(x).position = x
    BY <1>3
  <2>2. /\ Fits(At(p)) /\ At(p).position = p /\ Follows(At(p))
        /\ (p \in 0..Travel => Inside(At(p)))
    BY <1>2, PlanAt DEF Fits
  <2>3. stray' \in {"no", "yes", "was"} /\ (stray' = "no" => stray = "no")
    BY <1>2, <1>9 DEF Read
  <2>4. s # "CHECK" /\ stray' # "yes" => g(x).position = At(p).position /\ Follows(At(p))
    BY <1>9, <2>1, <2>2
  <2>5. stray' = "no" => Inside(At(p))
    BY <1>9, <2>2, <2>3
  <2> DEFINE r == At(p)
             y == g(x)
  <2> HIDE DEF r, y
  <2>6. /\ Fits(r) /\ Leaves(y, l, b) /\ Finish(l, b, y, r, s)
        /\ s # "CHECK" /\ stray' # "yes" => y.position = r.position /\ Follows(r)
        /\ stray' = "no" => Inside(r)
    BY <1>9, <2>1, <2>2, <2>4, <2>5 DEF r, y
  <2>7. s \in {"IDLE", "CYCLE", "CHECK", "ALARM"} /\ (s = "CHECK" <=> state = "CHECK")
        /\ state \in {"IDLE", "CYCLE", "CHECK"}
    BY <1>2, <1>9
  <2> QED
    BY <2>3, <2>6, <2>7, FinishedInv
<1>10. CASE Finish(l, b, Modes(l, b), e, "ALARM") /\ UNCHANGED stray
  <2>1. /\ stray' # "yes" => Modes(l, b).position = e.position /\ Follows(e)
        /\ stray' = "no" => Inside(e)
        /\ stray' \in {"no", "yes", "was"}
    BY <1>1, <1>2, <1>5, <1>10
  <2> DEFINE y == Modes(l, b)
  <2> HIDE DEF y
  <2>2. /\ Leaves(y, l, b) /\ Finish(l, b, y, e, "ALARM")
        /\ "ALARM" # "CHECK" /\ stray' # "yes" => y.position = e.position /\ Follows(e)
    BY <1>1, <1>10, <2>1 DEF y
  <2>3. state \in {"IDLE", "CYCLE", "CHECK"} /\ ("ALARM" = "CHECK" <=> state = "CHECK")
    BY <1>2
  <2> QED
    BY <1>6, <2>1, <2>2, <2>3, FinishedInv
<1>11. CASE /\ InTravel(t) /\ UNCHANGED stray
            /\ \/ Finish(l, b, g(t), At(Rest(q)), "ALARM")
               \/ Finish(l, b, g(t), At(Rest(q)), "IDLE")
  <2>1. Rest(q) \in Int /\ (Inside(q) => Rest(q) \in 0..Travel)
    BY <1>7, RestOfPlan
  <2>2. /\ stray' # "yes" => t = Rest(q)
        /\ stray = "no" => Rest(q) \in 0..Travel
    BY <1>2, <1>5, <1>7, <1>11, <2>1 DEF Follows
  <2> QED
    BY <1>4, <1>9, <1>11, <2>1, <2>2
<1>12. CASE /\ InTravel(t) /\ stray' = Read
            /\ \E p \in Between(q.machine, Rest(q)) : Finish(l, b, g(p), At(p), "IDLE")
  <2>1. PICK p \in Between(q.machine, Rest(q)) : Finish(l, b, g(p), At(p), "IDLE")
    BY <1>12
  <2>2. /\ Rest(q) \in Int /\ (Inside(q) => Rest(q) \in 0..Travel)
        /\ q.machine \in Int /\ (Inside(q) => q.machine \in 0..Travel)
    BY <1>7, RestOfPlan DEF IsPlan, Inside
  <2>3. p \in Int /\ (Inside(q) => p \in 0..Travel)
    BY <2>1, <2>2, TravelIsNat DEF Between
  <2>4. stray = "no" => p \in 0..Travel
    BY <1>2, <1>5, <1>7, <1>12, <2>3
  <2> QED
    BY <1>9, <1>12, <2>1, <2>3, <2>4
<1> QED
  BY <1>8, <1>10, <1>11, <1>12

(* Where the machine has come to rest, or been cut off, on its own.        *)
LEMMA SyncInv ==
  ASSUME GcInv, protocol_buffer_synchronize, gc' = gc, stray' = stray,
         coord_data' \in [Stored -> Int \cup {Corrupt}], lines' \in 0..MaxLines,
         spoilt' \in BOOLEAN,
         state' \notin {"CHECK", "ABORT", "LOST"} => CoordMatchesSelection'
  PROVE  GcInv'
<1>1. /\ Fits(plan) /\ Typed(gc) /\ (stray = "no" => Inside(plan))
      /\ state \in {"IDLE", "CYCLE", "JOG", "ALARM"} /\ stray # "yes" =>
           Follows(plan) /\ gc.position = plan.position
      /\ PlanSlots \in Nat /\ stray \in {"no", "yes", "was"} /\ state \in States
  BY ThePlan, GcodeAssumption DEF GcInv, GcTypes, TypeOK, States
<1>2. CoordMatchesSelection'
  BY DEF CoordMatchesSelection
<1> DEFINE After(r) ==
             /\ Fits(r) /\ (stray = "no" => Inside(r))
             /\ \/ state' \in {"ABORT", "LOST"}
                \/ /\ state' = IF state = "CYCLE" THEN "IDLE" ELSE state
                   /\ r.position = plan.position
                   /\ Follows(plan) => Follows(r)
<1>3. PICK r : plan' = r /\ After(r)
  <2>1. CASE plan' = Emptied(plan) /\ state' = IF state = "CYCLE" THEN "IDLE" ELSE state
    <3> DEFINE r == Emptied(plan)
    <3>1. /\ IsPlan(r) /\ Len(r.blocks) = 0 /\ r.position = plan.position
          /\ (Follows(plan) => Follows(r)) /\ (Inside(plan) => Inside(r))
      BY <1>1, EmptiedPlan DEF Fits
    <3> HIDE DEF r
    <3>2. Fits(r)
      BY <1>1, <3>1 DEF Fits
    <3>3. plan' = r /\ state' = IF state = "CYCLE" THEN "IDLE" ELSE state
      BY <2>1 DEF r
    <3>4. (stray = "no" => Inside(r)) /\ r.position = plan.position /\ (Follows(plan) => Follows(r))
      BY <1>1, <3>1
    <3>5. After(r)
      BY <3>2, <3>3, <3>4
    <3> HIDE DEF After
    <3> QED
      BY <3>3, <3>5
  <2>2. CASE Cut(plan, IF state = "CHECK" THEN {"ABORT"} ELSE {"ABORT", "LOST"})
    <3>1. PICK p \in Passed(plan) : plan' = StoppedAt(p)
      BY <2>2 DEF Cut
    <3>2. state' \in {"ABORT", "LOST"}
      BY <2>2 DEF Cut
    <3>3. IsPlan(plan)
      BY <1>1 DEF Fits
    <3>4. Fits(StoppedAt(p)) /\ (stray = "no" => Inside(StoppedAt(p)))
      BY <1>1, <3>3, StoppedPlan
    <3> QED
      BY <3>1, <3>2, <3>4
  <2> QED
    BY <2>1, <2>2 DEF protocol_buffer_synchronize
<1>4. Typed(gc') /\ stray' \in {"no", "yes", "was"} /\ state' \in States
  BY <1>1, <1>3 DEF States
<1>5. GcTypes'
  BY <1>3, <1>4, TypesNext
<1>6. PositionFollowsPlan' /\ StaysInTravel'
  <2>1. stray' = "no" => Inside(r)
    BY <1>3
  <2>2. state' \in {"IDLE", "CYCLE", "JOG", "ALARM"} /\ stray' # "yes" =>
           Follows(r) /\ gc'.position = r.position
    BY <1>1, <1>3
  <2> QED
    BY <1>3, <2>1, <2>2, PlanNext
<1> QED
  BY <1>2, <1>5, <1>6 DEF GcInv

(* With the modes, the state and the plan as they were.                    *)
LEMMA GcFrame ==
  ASSUME GcInv, UNCHANGED <<gc, plan, state, stray, spoilt>>,
         coord_data' \in [Stored -> Int \cup {Corrupt}], lines' \in 0..MaxLines,
         \A s \in Stored : coord_data[s] # Corrupt => coord_data'[s] = coord_data[s]
  PROVE  GcInv'
<1>1. GcTypes'
  BY DEF GcInv, GcTypes, TypeOK
<1>2. PositionFollowsPlan' /\ StaysInTravel'
  BY DEF GcInv, PositionFollowsPlan, StaysInTravel, Rest
<1>3. CoordMatchesSelection'
  BY CoordNext
<1> QED
  BY <1>1, <1>2, <1>3 DEF GcInv

LEMMA RefuseInv ==
  ASSUME GcInv, NEW l, NEW b, NEW jog, Refuse(l, b, jog), lines' \in 0..MaxLines
  PROVE  GcInv'
<1>1. /\ coord_data' \in [Stored -> Int \cup {Corrupt}]
      /\ \A s \in Stored : coord_data[s] # Corrupt => coord_data'[s] = coord_data[s]
  BY RestoredData DEF Refuse, GcInv
<1>2. UNCHANGED <<gc, stray, spoilt>>
  BY DEF Refuse
<1>3. CASE UNCHANGED <<plan, state>>
  BY <1>1, <1>2, <1>3, GcFrame
<1>4. CASE protocol_buffer_synchronize
  <2>1. state' \in {"CHECK", "ABORT", "LOST"} \/ state \notin {"CHECK", "ABORT", "LOST"}
    BY <1>4 DEF protocol_buffer_synchronize, Cut
  <2>2. CoordMatchesSelection'
    BY <1>1, <1>2, <2>1, CoordNext
  <2>3. spoilt' \in BOOLEAN
    BY <1>2 DEF GcInv, GcTypes, TypeOK
  <2> QED
    BY <1>1, <1>2, <1>4, <2>2, <2>3, SyncInv
<1> QED
  BY <1>3, <1>4 DEF Refuse

LEMMA CutShortInv ==
  ASSUME GcInv, state \in {"IDLE", "CYCLE", "CHECK"}, lines' \in 0..MaxLines,
         NEW l \in Lines, NEW b, b.coord \in CoordinateSystems,
         NEW S \in SUBSET {"ABORT", "LOST"}, CutShort(l, b, S)
  PROVE  GcInv'
<1>1. UNCHANGED <<gc, stray, spoilt>> /\ coord_data' \in [Stored -> Int \cup {Corrupt}]
  BY WrittenData DEF CutShort, GcInv, Line
<1>2. /\ IsPlan(plan) /\ (stray = "no" => Inside(plan))
      /\ state # "CHECK" /\ stray = "no" => Follows(plan)
  BY ThePlan DEF Fits
<1>3. PICK q : IsPlan(q) /\ (stray = "no" => Inside(q)) /\ Cut(q, S)
  <2>1. CASE state = "CHECK"
    BY <1>2, <2>1 DEF CutShort
  <2>2. CASE state # "CHECK"
    <3>1. PICK via : Cut(Queue(plan, Moves(l, b, via)), S)
      BY <2>2 DEF CutShort
    <3>2. /\ IsPlan(Queue(plan, Moves(l, b, via)))
          /\ Follows(plan) /\ Inside(plan) => Inside(Queue(plan, Moves(l, b, via)))
      BY <1>2, QueuedPlan
    <3> QED
      BY <1>2, <2>2, <3>1, <3>2
  <2> QED
    BY <2>1, <2>2
<1> QED
  BY <1>1, <1>3, CutInv

LEMMA LineInv ==
  ASSUME GcInv, NEW l \in Lines, gc_execute_line(l)
  PROVE  GcInv'
<1> DEFINE b == Block(l, FALSE)
<1>1. /\ b.motion \in MotionModes /\ b.coord \in CoordinateSystems
      /\ ~Selects(l, b) => b.coord = gc.coord
  BY BlockModes DEF GcInv
<1>2. lines' \in 0..MaxLines /\ state \in {"IDLE", "CYCLE", "CHECK"}
  BY GcodeAssumption DEF gc_execute_line, GcInv, GcTypes, TypeOK
<1>3. \/ Refused(l, b, FALSE) /\ Refuse(l, b, FALSE)
      \/ /\ ~Refused(l, b, FALSE)
         /\ Motion(l, b) \/ ProbeCycle(l, b) \/ SoftLimit(l, b) \/ ResetDuring(l, b)
  BY DEF gc_execute_line
<1> HIDE DEF b
<1>4. CASE Refuse(l, b, FALSE)
  BY <1>2, <1>4, RefuseInv
<1>5. CASE SoftLimit(l, b) \/ ResetDuring(l, b)
  <2>1. \E S \in SUBSET {"ABORT", "LOST"} : CutShort(l, b, S)
    BY <1>5 DEF SoftLimit, ResetDuring
  <2> QED
    BY <1>1, <1>2, <2>1, CutShortInv
<1>6. CASE ~Refused(l, b, FALSE) /\ (Motion(l, b) \/ ProbeCycle(l, b))
  BY <1>1, <1>2, <1>6, MotionInv, ProbeInv
<1> QED
  BY <1>3, <1>4, <1>5, <1>6

(* Where the offset in force stays.                                        *)
LEMMA MovedInv ==
  ASSUME GcInv, Typed(gc'), gc'.coord = gc.coord, gc'.coord_system = gc.coord_system,
         NEW q, plan' = q, Fits(q), stray' \in {"no", "yes", "was"},
         stray' # "yes" => Follows(q) /\ gc'.position = q.position, stray' = "no" => Inside(q),
         coord_data' \in [Stored -> Int \cup {Corrupt}],
         \A s \in Stored : coord_data[s] # Corrupt => coord_data'[s] = coord_data[s],
         spoilt' = spoilt, lines' \in 0..MaxLines,
         state \in {"IDLE", "CYCLE", "JOG", "ALARM"}, state' \in States
  PROVE  GcInv'
<1>1. spoilt' \in BOOLEAN
  BY DEF GcInv, GcTypes, TypeOK
<1>2. GcTypes'
  BY <1>1, TypesNext
<1>3. PositionFollowsPlan' /\ StaysInTravel'
  BY PlanNext
<1>4. CoordMatchesSelection'
  BY CoordNext
<1> QED
  BY <1>2, <1>3, <1>4 DEF GcInv

LEMMA JogPlan ==
  ASSUME GcInv, state \in {"IDLE", "JOG"}, NEW t \in 0..Travel, jog_execute(t)
  PROVE  \E r : /\ plan' = r /\ Fits(r) /\ r.position = t
                /\ stray' \in {"no", "yes", "was"} /\ state' \in States
                /\ stray' # "yes" => Follows(r)
                /\ stray' = "no" => Inside(r)
<1> DEFINE Done(r) == /\ plan' = r /\ Fits(r) /\ r.position = t
                      /\ stray' \in {"no", "yes", "was"} /\ state' \in States
                      /\ stray' # "yes" => Follows(r)
                      /\ stray' = "no" => Inside(r)
<1> SUFFICES \E r : Done(r)
  OBVIOUS
<1>1. /\ IsPlan(plan) /\ Len(plan.blocks) <= PlanSlots /\ Len(plan.blocks) \in Nat
      /\ stray = "no" => Inside(plan)
      /\ stray # "yes" => Follows(plan)
      /\ PlanSlots \in Nat \ {0, 1} /\ stray \in {"no", "yes", "was"} /\ t \in Int
  <2>1. Len(plan.blocks) \in Nat
    BY DEF GcInv, GcTypes, TypeOK
  <2> QED
    BY <2>1, ThePlan, GcodeAssumption, TravelIsNat DEF Fits, GcInv, GcTypes, TypeOK
<1>2. ASSUME NEW q, IsPlan(q), Len(q.blocks) < PlanSlots, Len(q.blocks) \in Nat,
             plan' = plan_buffer_line(q, t), stray' \in {"no", "yes", "was"},
             state' \in States, stray' # "yes" => Follows(q), stray' = "no" => Inside(q)
      PROVE  \E r : Done(r)
  <2> DEFINE r == plan_buffer_line(q, t)
  <2>1. /\ IsPlan(r) /\ r.position = t /\ Len(r.blocks) <= Len(q.blocks) + 1
        /\ (Follows(q) => Follows(r))
        /\ (Follows(q) /\ Inside(q) => Inside(r))
    BY <1>1, <1>2, BufferedPlan
  <2>2. plan' = r
    BY <1>2
  <2> HIDE DEF r
  <2>3. Len(r.blocks) \in Int
    BY <2>1, LenProperties DEF IsPlan
  <2>4. Fits(r)
    BY <1>1, <1>2, <2>1, <2>3 DEF Fits
  <2>5. Done(r)
    BY <1>2, <2>1, <2>2, <2>4
  <2> HIDE DEF Done
  <2> QED
    BY <2>5
<1> HIDE DEF Done
<1>3. CASE /\ Len(plan.blocks) < PlanSlots
           /\ plan' = plan_buffer_line(plan, t) /\ UNCHANGED stray
           /\ state' \in {"JOG", state}
  <2>1. state' \in States /\ stray' \in {"no", "yes", "was"}
    BY <1>1, <1>3 DEF States
  <2> QED
    BY <1>1, <1>2, <1>3, <2>1
<1>4. CASE /\ Len(plan.blocks) = PlanSlots
           /\ plan' = plan_buffer_line(Advanced(plan), t)
           /\ state' = "CYCLE" /\ UNCHANGED stray
  <2> DEFINE q == Advanced(plan)
  <2>1. plan.blocks # << >>
    BY <1>1, <1>4, EmptySeq
  <2>2. /\ IsPlan(q) /\ Len(q.blocks) = Len(plan.blocks) - 1
        /\ (Follows(plan) => Follows(q)) /\ (Inside(plan) => Inside(q))
    BY <1>1, <2>1, AdvancedPlan
  <2>3. plan' = plan_buffer_line(q, t)
    BY <1>4
  <2> HIDE DEF q
  <2>4. Len(q.blocks) < PlanSlots /\ Len(q.blocks) \in Nat
    BY <1>1, <1>4, <2>2
  <2>5. state' \in States /\ stray' \in {"no", "yes", "was"}
    BY <1>1, <1>4 DEF States
  <2>6. (stray' # "yes" => Follows(q)) /\ (stray' = "no" => Inside(q))
    BY <1>1, <1>4, <2>2
  <2> QED
    BY <1>2, <2>2, <2>3, <2>4, <2>5, <2>6
<1>5. CASE /\ \E p \in Passed(plan) : plan' = plan_buffer_line(At(p), t)
           /\ state' \in {"JOG", "IDLE"} /\ stray' = Read
  <2>1. PICK p \in Passed(plan) : plan' = plan_buffer_line(At(p), t)
    BY <1>5
  <2>2. p \in Int /\ (stray = "no" => p \in 0..Travel)
    BY <1>1, PassedPoints
  <2> DEFINE q == At(p)
  <2>3. /\ IsPlan(q) /\ Len(q.blocks) = 0 /\ Follows(q)
        /\ (stray = "no" => Inside(q))
    BY <2>2, PlanAt
  <2>4. plan' = plan_buffer_line(q, t)
    BY <2>1
  <2> HIDE DEF q
  <2>5. /\ state' \in States /\ stray' \in {"no", "yes", "was"}
        /\ stray' = "no" => stray = "no"
    BY <1>1, <1>5 DEF States, Read
  <2>6. Len(q.blocks) < PlanSlots /\ Len(q.blocks) \in Nat
    BY <1>1, <2>3
  <2>7. (stray' # "yes" => Follows(q)) /\ (stray' = "no" => Inside(q))
    BY <2>3, <2>5
  <2> QED
    BY <1>2, <2>3, <2>4, <2>5, <2>6, <2>7
<1> QED
  BY <1>3, <1>4, <1>5 DEF jog_execute

LEMMA JogInv ==
  ASSUME GcInv, NEW l \in JogLines, Jog(l)
  PROVE  GcInv'
<1> DEFINE b == Block(l, TRUE)
           t == JogTarget(l, b)
<1>1. lines' \in 0..MaxLines /\ state \in {"IDLE", "JOG"}
  BY GcodeAssumption DEF Jog, GcInv, GcTypes, TypeOK
<1>2. CASE Refused(l, b, TRUE)
  <2>1. Refuse(l, b, TRUE)
    BY <1>2 DEF Jog
  <2> HIDE DEF b
  <2> QED
    BY <1>1, <2>1, RefuseInv
<1>3. CASE ~Refused(l, b, TRUE)
  <2>1. /\ coord_data' = Restored(ReadsOf(l, b, TRUE)) /\ spoilt' = spoilt
        /\ IF ~InTravel(t) THEN UNCHANGED <<gc, plan, state, stray>>
           ELSE gc' = [gc EXCEPT !.position = t] /\ jog_execute(t)
    BY <1>3 DEF Jog
  <2> HIDE DEF b, t
  <2>2. /\ coord_data' \in [Stored -> Int \cup {Corrupt}]
        /\ \A s \in Stored : coord_data[s] # Corrupt => coord_data'[s] = coord_data[s]
    BY <2>1, RestoredData DEF GcInv
  <2>3. CASE ~InTravel(t)
    BY <1>1, <2>1, <2>2, <2>3, GcFrame
  <2>4. CASE InTravel(t)
    <3>1. t \in 0..Travel /\ t \in Int
      BY <2>4, TravelIsNat DEF InTravel
    <3>2. PICK r : /\ plan' = r /\ Fits(r) /\ r.position = t
                   /\ stray' \in {"no", "yes", "was"} /\ state' \in States
                   /\ stray' # "yes" => Follows(r)
                   /\ stray' = "no" => Inside(r)
      BY <1>1, <2>1, <2>4, <3>1, JogPlan
    <3>3. /\ Typed(gc') /\ gc'.position = t
          /\ gc'.coord = gc.coord /\ gc'.coord_system = gc.coord_system
      BY <2>1, <2>4, <3>1, ThePlan DEF Typed, GcFields
    <3>4. state \in {"IDLE", "CYCLE", "JOG", "ALARM"}
      BY <1>1
    <3>5. stray' # "yes" => Follows(r) /\ gc'.position = r.position
      BY <3>2, <3>3
    <3> QED
      BY <1>1, <2>1, <2>2, <3>2, <3>3, <3>4, <3>5, MovedInv
  <2> QED
    BY <2>3, <2>4
<1> QED
  BY <1>2, <1>3

LEMMA InitInv ==
  ASSUME GcInv, gc_init
  PROVE  GcInv'
<1> DEFINE c == settings_read_coord_data(coord_data["G54"])
           p == plan.machine
           q == At(p)
<1>1. /\ coord_data \in [Stored -> Int \cup {Corrupt}] /\ "G54" \in Stored
      /\ coord_data' = [coord_data EXCEPT !["G54"] = c]
  BY SystemsStored DEF gc_init, BootData, GcInv, GcTypes
<1>2. c \in Int /\ c # Corrupt
  BY <1>1, GcodeAssumption DEF settings_read_coord_data
<1>3. gc' = Cleared(p, c) /\ plan' = q
  BY DEF gc_init
<1>4. /\ p \in Int /\ (stray = "no" => p \in 0..Travel)
      /\ stray \in {"no", "yes", "was"} /\ lines \in 0..MaxLines /\ PlanSlots \in Nat
  BY GcodeAssumption DEF GcInv, GcTypes, TypeOK, StaysInTravel
<1>5. /\ state' \in {"ALARM", "IDLE"} /\ lines' = lines /\ stray' = Read /\ spoilt' = FALSE
  BY DEF gc_init, Quiet
<1> HIDE DEF c
<1>6. coord_data' \in [Stored -> Int \cup {Corrupt}] /\ coord_data'["G54"] = c
  BY <1>1, <1>2
<1>7. /\ DOMAIN gc' = GcFields /\ gc'.motion = "G0" /\ gc'.coord = "G54" /\ gc'.feed_rate = 0
      /\ gc'.position = p /\ gc'.coord_system = c /\ gc'.coord_offset = 0
  BY <1>3 DEF Cleared, GcFields
<1> HIDE DEF p
<1>8. Typed(gc')
  BY <1>2, <1>4, <1>7, SystemsStored DEF Typed, MotionModes
<1>9. /\ IsPlan(q) /\ Len(q.blocks) = 0 /\ q.position = p /\ Follows(q)
      /\ (p \in 0..Travel => Inside(q))
  BY <1>4, PlanAt
<1> HIDE DEF q
<1>10. Fits(plan')
  BY <1>3, <1>4, <1>9 DEF Fits
<1>11. /\ stray' \in {"no", "yes", "was"} /\ (stray' = "no" => Inside(q))
  BY <1>4, <1>5, <1>9 DEF Read
<1>12. GcTypes'
  BY <1>4, <1>5, <1>6, <1>8, <1>10, <1>11, TypesNext DEF States
<1>13. PositionFollowsPlan' /\ StaysInTravel'
  BY <1>3, <1>7, <1>9, <1>11, PlanNext
<1>14. CoordMatchesSelection'
  BY <1>6, <1>7 DEF CoordMatchesSelection
<1> QED
  BY <1>12, <1>13, <1>14 DEF GcInv

LEMMA HomingInv ==
  ASSUME GcInv, mc_homing_cycle
  PROVE  GcInv'
<1>1. /\ Fits(plan) /\ IsPlan(plan) /\ Typed(gc) /\ plan.blocks \in Seq(Int) /\ plan.machine \in Int
      /\ state \in {"IDLE", "ALARM"} /\ coord_data' = coord_data /\ spoilt' = spoilt
      /\ lines' \in 0..MaxLines /\ PlanSlots \in Nat /\ 0 \in 0..Travel /\ Travel \in Nat
      /\ coord_data \in [Stored -> Int \cup {Corrupt}] /\ stray \in {"no", "yes", "was"}
  BY ThePlan, GcodeAssumption DEF mc_homing_cycle, Quiet, GcInv, GcTypes, TypeOK, Fits, IsPlan
<1>2. CASE /\ gc' = Homed(0) /\ state' = "IDLE"
           /\ plan' = [machine |-> 0, position |-> 0,
                       blocks |-> [i \in 1..Len(plan.blocks) |-> plan.blocks[i] - plan.machine]]
           /\ stray' = IF plan.blocks = << >> THEN "no" ELSE "yes"
  <2> DEFINE n == Len(plan.blocks)
             q == [machine |-> 0, position |-> 0,
                   blocks |-> [i \in 1..n |-> plan.blocks[i] - plan.machine]]
  <2>1. n \in Nat /\ n <= PlanSlots /\ \A i \in 1..n : plan.blocks[i] - plan.machine \in Int
    BY <1>1 DEF Fits
  <2>2. plan' = q
    BY <1>2
  <2>3. /\ q.machine = 0 /\ q.position = 0
        /\ q.blocks = [i \in 1..n |-> plan.blocks[i] - plan.machine]
    OBVIOUS
  <2> HIDE DEF q
  <2>4. q.blocks \in Seq(Int) /\ Len(q.blocks) = n
    <3> DEFINE f(i) == plan.blocks[i] - plan.machine
    <3>1. \A i \in 1..n : f(i) \in Int
      BY <2>1
    <3>2. q.blocks = [i \in 1..n |-> f(i)]
      BY <2>3
    <3> HIDE DEF f, n
    <3>3. [i \in 1..n |-> f(i)] \in Seq(Int)
      BY <2>1, <3>1
    <3>4. Len([i \in 1..n |-> f(i)]) = n
      BY <2>1, <3>1, <3>3, LenProperties
    <3> QED
      BY <3>2, <3>3, <3>4
  <2>5. Fits(q)
    BY <2>1, <2>3, <2>4 DEF Fits, IsPlan
  <2>6. /\ Typed(gc') /\ gc'.position = 0
        /\ gc'.coord = gc.coord /\ gc'.coord_system = gc.coord_system
    BY <1>1, <1>2 DEF Homed, Typed, GcFields
  <2>7. stray' # "yes" => n = 0 /\ q.blocks = << >>
    <3>1. stray' # "yes" => plan.blocks = << >>
      BY <1>2
    <3>2. plan.blocks = << >> => n = 0
      BY EmptySeq
    <3>3. n = 0 => q.blocks = << >>
      BY <2>4, EmptySeq
    <3> QED
      BY <3>1, <3>2, <3>3
  <2>8. stray' # "yes" => Follows(q) /\ gc'.position = q.position
    BY <2>3, <2>6, <2>7 DEF Follows, Rest
  <2>9. stray' = "no" => Inside(q)
    BY <1>1, <2>3, <2>4, <2>7 DEF Inside
  <2>10. stray' \in {"no", "yes", "was"} /\ state \in {"IDLE", "CYCLE", "JOG", "ALARM"}
         /\ state' \in States
    BY <1>1, <1>2 DEF States
  <2> QED
    BY <1>1, <2>2, <2>5, <2>6, <2>8, <2>9, <2>10, MovedInv
<1>3. CASE /\ \E p \in 0..Travel : plan' = StoppedAt(p)
           /\ state' = "LOST" /\ UNCHANGED <<gc, stray>>
  <2>1. PICK p \in 0..Travel : plan' = StoppedAt(p)
    BY <1>3
  <2> DEFINE r == StoppedAt(p)
  <2>2. r.machine = p /\ r.position = plan.position /\ r.blocks = << >>
    BY DEF StoppedAt
  <2>3. plan' = r /\ p \in Int /\ plan.position \in Int
    BY <1>1, <2>1 DEF IsPlan
  <2> HIDE DEF r
  <2>4. IsPlan(r) /\ Len(r.blocks) = 0
    BY <2>2, <2>3, EmptySeq DEF IsPlan
  <2>5. Fits(r)
    BY <1>1, <2>4 DEF Fits
  <2>6. Inside(r)
    BY <2>1, <2>2, <2>4 DEF Inside
  <2> QED
    BY <1>1, <1>3, <2>3, <2>5, <2>6, StoppedInv
<1> QED
  BY <1>2, <1>3 DEF mc_homing_cycle

(* Steps of the machine, and of the commands of the system.                *)
LEMMA CycleInv ==
  ASSUME GcInv, CycleStart \/ Executes \/ CycleStop \/ Unlock
  PROVE  GcInv'
<1>1. /\ Fits(plan) /\ IsPlan(plan) /\ Typed(gc')
      /\ gc' = gc /\ coord_data' = coord_data /\ spoilt' = spoilt /\ stray' = stray
      /\ lines' \in 0..MaxLines /\ coord_data \in [Stored -> Int \cup {Corrupt}]
      /\ stray' \in {"no", "yes", "was"} /\ (stray = "no" => Inside(plan))
      /\ state \in {"IDLE", "CYCLE", "JOG", "ALARM"} /\ state' \in States
  BY ThePlan DEF CycleStart, Executes, CycleStop, Unlock, Quiet, GcInv, GcTypes, TypeOK, States, Fits
<1>2. stray # "yes" => Follows(plan) /\ gc.position = plan.position
  BY <1>1, ThePlan
<1>3. CASE plan' = plan
  BY <1>1, <1>2, <1>3, MovedInv
<1>4. CASE Executes
  <2> DEFINE q == Advanced(plan)
  <2>1. plan' = q /\ plan.blocks # << >>
    BY <1>4 DEF Executes
  <2>2. /\ IsPlan(q) /\ Len(q.blocks) = Len(plan.blocks) - 1 /\ q.position = plan.position
        /\ (Follows(plan) => Follows(q)) /\ (Inside(plan) => Inside(q))
    BY <1>1, <2>1, AdvancedPlan
  <2> HIDE DEF q
  <2>3. Fits(q)
    <3>1. Len(plan.blocks) \in Nat /\ PlanSlots \in Nat
      BY GcodeAssumption DEF GcInv, GcTypes, TypeOK
    <3> QED
      BY <1>1, <2>2, <3>1 DEF Fits
  <2>4. stray' # "yes" => Follows(q) /\ gc'.position = q.position
    BY <1>1, <1>2, <2>2
  <2>5. stray' = "no" => Inside(q)
    BY <1>1, <2>2
  <2> QED
    BY <1>1, <2>1, <2>3, <2>4, <2>5, MovedInv
<1> QED
  BY <1>3, <1>4 DEF CycleStart, CycleStop, Unlock

LEMMA JogCancelInv ==
  ASSUME GcInv, JogCancel
  PROVE  GcInv'
<1>1. PICK p \in Passed(plan) : gc' = [gc EXCEPT !.position = p] /\ plan' = At(p)
  BY DEF JogCancel, JogCancelled
<1>2. /\ coord_data' = coord_data /\ spoilt' = spoilt /\ stray' = Read
      /\ lines' \in 0..MaxLines /\ coord_data \in [Stored -> Int \cup {Corrupt}]
      /\ stray \in {"no", "yes", "was"} /\ (stray = "no" => Inside(plan))
      /\ state \in {"IDLE", "CYCLE", "JOG", "ALARM"} /\ state' \in States
      /\ Typed(gc) /\ IsPlan(plan) /\ PlanSlots \in Nat
  BY ThePlan, GcodeAssumption DEF JogCancel, Quiet, GcInv, GcTypes, TypeOK, States, Fits
<1>3. p \in Int /\ (stray = "no" => p \in 0..Travel)
  BY <1>2, PassedPoints
<1> DEFINE q == At(p)
<1>4. /\ IsPlan(q) /\ Len(q.blocks) = 0 /\ q.position = p /\ Follows(q)
      /\ (p \in 0..Travel => Inside(q))
  BY <1>3, PlanAt
<1>5. plan' = q
  BY <1>1
<1> HIDE DEF q
<1>6. Fits(q)
  BY <1>2, <1>4 DEF Fits
<1>7. /\ Typed(gc') /\ gc'.position = p
      /\ gc'.coord = gc.coord /\ gc'.coord_system = gc.coord_system
  BY <1>1, <1>2, <1>3 DEF Typed, GcFields
<1>8. /\ stray' # "yes" => Follows(q) /\ gc'.position = q.position
      /\ stray' = "no" => Inside(q)
      /\ stray' \in {"no", "yes", "was"}
  BY <1>2, <1>3, <1>4, <1>7 DEF Read
<1> QED
  BY <1>2, <1>5, <1>6, <1>7, <1>8, MovedInv

LEMMA StoreInv ==
  ASSUME GcInv, StoreStartupLine
  PROVE  GcInv'
<1>1. PICK s \in SUBSET StartupOverwrites :
        /\ coord_data' = [r \in Stored |-> IF r \in s THEN Corrupt ELSE coord_data[r]]
        /\ spoilt' = (spoilt \/ gc.coord \in s)
  BY DEF StoreStartupLine
<1>2. /\ protocol_buffer_synchronize /\ gc' = gc /\ stray' = stray /\ state = "IDLE"
      /\ lines' \in 0..MaxLines
  BY GcodeAssumption DEF StoreStartupLine, GcInv, GcTypes, TypeOK
<1>3. coord_data \in [Stored -> Int \cup {Corrupt}] /\ gc.coord \in Stored
  BY SystemsStored DEF GcInv, GcTypes, TypeOK
<1>4. coord_data' \in [Stored -> Int \cup {Corrupt}] /\ spoilt' \in BOOLEAN
  BY <1>1, <1>3
<1>5. CoordMatchesSelection'
  <2> SUFFICES ASSUME ~spoilt' PROVE gc'.coord_system = coord_data'[gc'.coord]
    BY DEF CoordMatchesSelection
  <2>1. ~spoilt /\ gc.coord \notin s
    BY <1>1
  <2>2. coord_data'[gc.coord] = coord_data[gc.coord]
    BY <1>1, <1>3, <2>1
  <2>3. gc.coord_system = coord_data[gc.coord]
    BY <1>2, <2>1 DEF GcInv, CoordMatchesSelection
  <2> QED
    BY <1>2, <2>2, <2>3
<1> QED
  BY <1>2, <1>4, <1>5, SyncInv

LEMMA OthersInv ==
  ASSUME GcInv,
         CheckMode \/ RestoreParameters \/ mc_reset \/ PowerLost \/ UNCHANGED vars
  PROVE  GcInv'
<1>1. /\ Fits(plan) /\ IsPlan(plan) /\ (stray = "no" => Inside(plan))
      /\ coord_data \in [Stored -> Int \cup {Corrupt}] /\ lines \in 0..MaxLines
      /\ 0 \in 0..Travel /\ PlanSlots \in Nat
  BY ThePlan, GcodeAssumption DEF GcInv, GcTypes, TypeOK, Fits
<1>2. CASE CheckMode
  <2>1. /\ UNCHANGED <<gc, coord_data, plan, stray, spoilt, lines>> /\ state' = "CHECK"
    BY <1>2 DEF CheckMode, Quiet
  <2>2. GcTypes'
    BY <2>1 DEF GcInv, GcTypes, TypeOK
  <2> QED
    BY <2>1, <2>2 DEF GcInv, PositionFollowsPlan, StaysInTravel, CoordMatchesSelection
<1>3. CASE mc_reset
  <2>1. /\ UNCHANGED <<gc, coord_data, stray, spoilt, lines>>
        /\ \E S \in SUBSET {"ABORT", "LOST"} : Cut(plan, S)
    BY <1>3 DEF mc_reset, Quiet
  <2> QED
    BY <1>1, <2>1, CutInv
<1>4. CASE RestoreParameters
  <2>1. /\ UNCHANGED <<gc, stray, spoilt, lines>> /\ coord_data' = [s \in Stored |-> 0]
        /\ \E S \in SUBSET {"ABORT", "LOST"} : Cut(plan, S)
    BY <1>4 DEF RestoreParameters, Quiet
  <2>2. coord_data' \in [Stored -> Int \cup {Corrupt}]
    BY <2>1
  <2> QED
    BY <1>1, <2>1, <2>2, CutInv
<1>5. CASE PowerLost
  <2>1. /\ gc' = gc /\ coord_data' \in [Stored -> Int \cup {Corrupt}] /\ spoilt' = spoilt
        /\ plan' = At(0) /\ state' = "LOST" /\ stray' = "no" /\ lines' \in 0..MaxLines
    BY <1>1, <1>5, GcodeAssumption DEF PowerLost
  <2>2. IsPlan(At(0)) /\ Len(At(0).blocks) = 0 /\ Inside(At(0))
    BY <1>1, PlanAt
  <2>3. Fits(At(0))
    BY <1>1, <2>2 DEF Fits
  <2> QED
    BY <2>1, <2>2, <2>3, StoppedInv
<1>6. CASE UNCHANGED vars
  <2>1. UNCHANGED <<gc, coord_data, plan, state, stray, spoilt, lines>>
    BY <1>6 DEF vars
  <2> QED
    BY <1>1, <2>1, GcFrame
<1> QED
  BY <1>2, <1>3, <1>4, <1>5, <1>6

LEMMA GcInitial == Init => GcInv
<1> SUFFICES ASSUME Init PROVE GcInv
  OBVIOUS
<1>1. /\ DOMAIN gc = GcFields /\ gc.motion = "G0" /\ gc.coord = "G54" /\ gc.feed_rate = 0
      /\ gc.position = 0 /\ gc.coord_system = 0 /\ gc.coord_offset = 0
  BY DEF Init, Cleared, GcFields
<1>2. /\ coord_data = [s \in Stored |-> 0] /\ plan = At(0)
      /\ state = "ALARM" /\ stray = "no" /\ spoilt = FALSE /\ lines = 0
  BY DEF Init
<1>3. 0 \in 0..Travel /\ 0 \in 0..MaxLines /\ PlanSlots \in Nat
  BY GcodeAssumption
<1>4. /\ IsPlan(plan) /\ Len(plan.blocks) = 0 /\ plan.position = 0 /\ Follows(plan) /\ Inside(plan)
  BY <1>2, <1>3, PlanAt
<1>5. GcTypes
  <2>1. /\ gc.motion \in MotionModes /\ gc.coord \in CoordinateSystems
        /\ gc.position \in Int /\ gc.coord_system \in Int /\ gc.coord_offset \in Int
        /\ gc.feed_rate \in Nat
    BY <1>1, SystemsStored DEF MotionModes
  <2>2. /\ coord_data \in [Stored -> Int \cup {Corrupt}]
        /\ \A s \in Stored : coord_data[s] \in Int \/ coord_data[s] = Corrupt
    BY <1>2
  <2>3. /\ plan.machine \in Int /\ plan.position \in Int
        /\ plan.blocks \in Seq(Int) /\ Len(plan.blocks) <= PlanSlots
    BY <1>3, <1>4 DEF IsPlan
  <2>4. /\ state \in {"IDLE", "CYCLE", "JOG", "CHECK", "ALARM", "ABORT", "LOST"}
        /\ stray \in {"no", "yes", "was"} /\ spoilt \in BOOLEAN /\ lines \in 0..MaxLines
    BY <1>2, <1>3
  <2> QED
    BY <1>1, <2>1, <2>2, <2>3, <2>4 DEF GcTypes, TypeOK
<1>6. PositionFollowsPlan /\ StaysInTravel
  BY <1>1, <1>4 DEF PositionFollowsPlan, StaysInTravel, Follows, Inside
<1>7. CoordMatchesSelection
  BY <1>1, <1>2, SystemsStored DEF CoordMatchesSelection
<1> QED
  BY <1>5, <1>6, <1>7 DEF GcInv

LEMMA GcInvariant == Spec => []GcInv
<1>1. Init => GcInv
  BY GcInitial
<1>2. GcInv /\ [Next]_vars => GcInv'
  BY LineInv, JogInv, InitInv, HomingInv, CycleInv, JogCancelInv, StoreInv, OthersInv DEF Next
<1> QED
  BY <1>1, <1>2, PTL DEF Spec

(* Types, and no more blocks than the planner holds (planner.c,            *)
(* plan_check_full_buffer, with mc_line and jog_execute waiting for room). *)
THEOREM TypeCorrect == Spec => []TypeOK
<1>1. GcInv => TypeOK
  BY DEF GcInv, GcTypes
<1> QED
  BY <1>1, GcInvariant, PTL

(* The parser computes every target from where the planner ends            *)
(* (gcode.c:1086), after whatever lines, probes, jogs and resets, and from *)
(* every homing but one that found blocks queued.                          *)
THEOREM PositionAlwaysFollows == Spec => []PositionFollowsPlan
<1>1. GcInv => PositionFollowsPlan
  BY DEF GcInv
<1> QED
  BY <1>1, GcInvariant, PTL

(* The machine, and every block it has still to execute, stays within its  *)
(* travel (limits.c, limits_soft_check; jog.c, the check of a jog), again  *)
(* unless it was homed with blocks queued.                                 *)
THEOREM AlwaysInTravel == Spec => []StaysInTravel
<1>1. GcInv => StaysInTravel
  BY DEF GcInv
<1> QED
  BY <1>1, GcInvariant, PTL

(* The offset in force is that of the selected system, whoever stored it   *)
(* and however it was selected (gcode.c, steps 3 and 4, gc_init), but for  *)
(* a record that a startup line has overwritten.                           *)
THEOREM CoordAlwaysMatches == Spec => []CoordMatchesSelection
<1>1. GcInv => CoordMatchesSelection
  BY DEF GcInv
<1> QED
  BY <1>1, GcInvariant, PTL

-----------------------------------------------------------------------------
(* Lines that name a work position.                                        *)

(* Of two commands of one modal group, the line is an error.               *)
LEMMA AtMostOne ==
  ASSUME NEW S, NEW T, IsFiniteSet(T), S \subseteq T, ~(Cardinality(S) > 1),
         NEW c \in S, NEW d \in S
  PROVE  c = d
<1>1. IsFiniteSet(S) /\ Cardinality(S) \in Nat
  BY FS_Subset, FS_CardinalityType
<1>2. Cardinality(S) # 0
  BY <1>1, FS_EmptySet
<1>3. Cardinality(S) = 1
  BY <1>1, <1>2
<1> QED
  BY <1>1, <1>3, FS_Singleton

NonModal == AxisNonModal \cup {"G4", "G28.1", "G53", "G92.1"}

LEMMA GroupsFinite == IsFiniteSet(NonModal) /\ IsFiniteSet(MotionModes)
<1>1. NonModal = (({"G10"} \cup {"G28"}) \cup ({"G92"} \cup {"G4"}))
                 \cup (({"G28.1"} \cup {"G53"}) \cup {"G92.1"})
  BY DEF NonModal, AxisNonModal
<1>2. MotionModes = (({"G0"} \cup {"G1"}) \cup ({"G2"} \cup {"G3"}))
                    \cup (({"G38.2"} \cup {"G38.3"}) \cup {"G80"})
  BY DEF MotionModes
<1> QED
  BY <1>1, <1>2, FS_Singleton, FS_Union, ZenonT(30)

LEMMA OneOfEach ==
  ASSUME NEW l, ~WordErrors(l), NEW c \in l.cmds, NEW d \in l.cmds,
         {c, d} \subseteq NonModal \/ {c, d} \subseteq MotionModes
  PROVE  c = d
<1>1. \A g \in {NonModal, MotionModes} :
        ~(Cardinality(l.cmds \cap g) > 1) /\ IsFiniteSet(g)
  BY GroupsFinite DEF WordErrors, ModalGroups, NonModal
<1>2. PICK g \in {NonModal, MotionModes} : c \in g /\ d \in g
  OBVIOUS
<1> QED
  BY <1>1, <1>2, AtMostOne

(* G92 and G10 have an axis word and move nothing.                         *)
LEMMA SettingPosition ==
  ASSUME NEW l \in Line, NEW b, ~Refused(l, b, FALSE),
         NEW c \in {"G92", "G10"}, c \in l.cmds
  PROVE  ~Moving(l, b) /\ l.cmds \cap NonModal = {c} /\ \A via : Moves(l, b, via) = << >>
<1>1. ~WordErrors(l) /\ Has(l, "X")
  BY DEF Refused, EarlyErrors, NonModalErrors, Malformed, Line
<1>2. l.cmds \cap NonModal = {c}
  BY <1>1, OneOfEach DEF NonModal, AxisNonModal
<1>3. AxisCommand(l, b) = "non_modal"
  BY <1>1 DEF AxisCommand, axis_command, Explicit, AxisNonModal
<1>4. "G28" \notin l.cmds
  BY <1>2 DEF NonModal, AxisNonModal
<1> QED
  BY <1>2, <1>3, <1>4 DEF Moves, Moving

(* A motion that is neither a G28 nor a probe has an axis word: without    *)
(* one G0 and G1 do nothing, arcs are refused, and G80 has none. It ends   *)
(* at its target.                                                          *)
LEMMA GoingToPosition ==
  ASSUME NEW l \in Line, NEW b, ~Refused(l, b, FALSE), b.motion \in MotionModes,
         l.cmds \cap MotionModes # {} => b.motion \in l.cmds,
         Moving(l, b), ~Probes(l, b), "G28" \notin l.cmds, NEW via
  PROVE  /\ Has(l, "X")
         /\ LET m == Moves(l, b, via) IN m # << >> /\ m[Len(m)] = Target(l, b)
<1>1. ~WordErrors(l) /\ ~MotionErrors(l, b, FALSE)
  BY DEF Refused, EarlyErrors, LateErrors, Malformed, Line
<1>2. AxisCommand(l, b) = "motion"
  BY DEF Moving
<1>3. axis_command(l) = "motion" /\ (Has(l, "X") \/ b.motion \notin {"G0", "G1"})
  BY <1>2, GcodeAssumption DEF AxisCommand
<1>4. b.motion \notin Probing
  BY DEF Probes
<1>5. b.motion = "G80" => FALSE
  <2> SUFFICES ASSUME b.motion = "G80" PROVE FALSE
    OBVIOUS
  <2>1. \A c \in l.cmds \cap MotionModes : c = "G80"
    BY <1>1, OneOfEach
  <2>2. Explicit(l) \cap MotionModes = {}
    BY <2>1 DEF Explicit, MotionModes, AxisNonModal
  <2>3. ~Has(l, "X")
    BY <1>1 DEF MotionErrors
  <2> QED
    BY <1>3, <2>2, <2>3, GcodeAssumption DEF axis_command
<1>6. b.motion \in Arcs => Has(l, "X")
  BY <1>1, <1>3 DEF MotionErrors, ArcErrors, Arcs
<1>7. b.motion \in {"G0", "G1"} => Has(l, "X")
  BY <1>3
<1>8. Has(l, "X")
  BY <1>4, <1>5, <1>6, <1>7 DEF MotionModes, Arcs, Probing
<1>9. Moves(l, b, via) \in {<<via, Target(l, b)>>, <<Target(l, b)>>}
  BY <1>2 DEF Moves
<1> DEFINE t == Target(l, b)
           m == Moves(l, b, via)
<1>10. m # << >> /\ m[Len(m)] = t
  <2>1. m \in {<<via, t>>, <<t>>}
    BY <1>9
  <2> HIDE DEF m, t
  <2>2. CASE m = <<via, t>>
    <3>1. Len(m) = 2 /\ m[2] = t /\ m # << >>
      BY <2>2
    <3> QED
      BY <3>1
  <2>3. CASE m = <<t>>
    <3>1. Len(m) = 1 /\ m[1] = t /\ m # << >>
      BY <2>3
    <3> QED
      BY <3>1
  <2> QED
    BY <2>1, <2>2, <2>3
<1> QED
  BY <1>8, <1>10

LEMMA PositionNamed ==
  ASSUME GcInv, NEW l \in Lines, NEW b, ~Refused(l, b, FALSE),
         b.coord \in CoordinateSystems, b.motion \in MotionModes,
         l.cmds \cap MotionModes # {} => b.motion \in l.cmds,
         NamesPosition(l, b), NEW g, Leaves(g, l, b), NEW via,
         g.position = IF Moves(l, b, via) = << >> THEN gc.position
                      ELSE Moves(l, b, via)[Len(Moves(l, b, via))]
  PROVE  g.position - g.coord_system - g.coord_offset = X(l, b)
<1>1. /\ X(l, b) \in Int /\ BlockCoord(l, b) \in Int
      /\ gc.position \in Int /\ gc.coord_offset \in Int
  BY ValuesAreInt DEF GcInv, GcTypes, TypeOK, Line
<1>2. CASE "G92" \in l.cmds
  <2>1. Moves(l, b, via) = << >> /\ "G10" \notin l.cmds
    BY <1>2, SettingPosition DEF NonModal, AxisNonModal, Line
  <2>2. /\ g.position = gc.position /\ g.coord_system = BlockCoord(l, b)
        /\ g.coord_offset = NewOffset(l, b)
    BY <1>2, <2>1 DEF Leaves, Offset
  <2> QED
    BY <1>1, <2>2 DEF NewOffset
<1>3. CASE "G10" \in l.cmds /\ L(l) = 20 /\ SetSystem(l, b) = b.coord
  <2>1. Moves(l, b, via) = << >> /\ "G92" \notin l.cmds /\ "G92.1" \notin l.cmds
    BY <1>3, SettingPosition DEF NonModal, AxisNonModal, Line
  <2>2. /\ g.position = gc.position /\ g.coord_system = NewCoord(l, b)
        /\ g.coord_offset = gc.coord_offset
    BY <1>3, <2>1 DEF Leaves, Offset
  <2> QED
    BY <1>1, <1>3, <2>2 DEF NewCoord
<1>4. CASE /\ "G92" \notin l.cmds
           /\ Moving(l, b) /\ b.distance = "G90" /\ ~Probes(l, b)
           /\ l.cmds \cap {"G28", "G53", "G92.1"} = {}
  <2>1. /\ Has(l, "X") /\ Moves(l, b, via) # << >>
        /\ Moves(l, b, via)[Len(Moves(l, b, via))] = Target(l, b)
    BY <1>4, GoingToPosition DEF Line
  <2>2. "G10" \notin l.cmds
    BY <1>4, SettingPosition DEF Line
  <2>3. /\ g.position = Target(l, b) /\ g.coord_system = BlockCoord(l, b)
        /\ g.coord_offset = gc.coord_offset
    BY <1>4, <2>1, <2>2 DEF Leaves, Offset
  <2>4. Target(l, b) = X(l, b) + BlockCoord(l, b) + gc.coord_offset
    BY <1>4, <2>1 DEF Target
  <2> QED
    BY <1>1, <2>3, <2>4
<1> QED
  BY <1>2, <1>3, <1>4 DEF NamesPosition

(* A jog leaves nothing asked for, so that its end leaves nothing to keep. *)
WorkInv == WorkPositionAsAsked /\ (state = "JOG" => asked.work = None)

LEMMA FinishedWork ==
  ASSUME NEW l, NEW b, NEW g, NEW q, NEW s \in {"IDLE", "CYCLE", "CHECK", "ALARM"},
         Finish(l, b, g, q, s),
         NamesPosition(l, b) => g.position - g.coord_system - g.coord_offset = X(l, b)
  PROVE  WorkInv'
<1>1. state' = s
  BY DEF Finish
<1>2. /\ Asked(l, b).work = IF NamesPosition(l, b) /\ ~ProgramEnd(l) THEN X(l, b) ELSE None
      /\ \A v : [Asked(l, b) EXCEPT !.ok = v].work = Asked(l, b).work
  BY DEF Asked, Nothing
<1>3. asked'.work = Asked(l, b).work /\ (~ProgramEnd(l) => gc' = g)
  BY <1>2 DEF Finish
<1>4. CASE ProgramEnd(l)
  BY <1>1, <1>2, <1>3, <1>4 DEF WorkInv, WorkPositionAsAsked
<1>5. CASE ~ProgramEnd(l)
  BY <1>1, <1>2, <1>3, <1>5 DEF WorkInv, WorkPositionAsAsked
<1> QED
  BY <1>4, <1>5

LEMMA MotionWork ==
  ASSUME GcInv, NEW l \in Lines, NEW b, ~Refused(l, b, FALSE),
         b.motion \in MotionModes, b.coord \in CoordinateSystems,
         l.cmds \cap MotionModes # {} => b.motion \in l.cmds,
         state \in {"IDLE", "CYCLE", "CHECK"}, Motion(l, b)
  PROVE  WorkInv'
<1>1. PICK via \in Via(l, b) :
        LET m == Moves(l, b, via)
            q == Queue(Synchronised(l, b), m)
            g == [Modes(l, b) EXCEPT !.position = IF m = << >> THEN @ ELSE m[Len(m)]]
        IN  \/ Finish(l, b, g, plan, "CHECK")
            \/ Finish(l, b, g, q, IF Synced(l, b) \/ ProgramFlow(l) THEN "IDLE" ELSE state)
  BY DEF Motion
<1> DEFINE m == Moves(l, b, via)
           last == IF m = << >> THEN gc.position ELSE m[Len(m)]
           g == [Modes(l, b) EXCEPT !.position = last]
<1>2. Leaves(Modes(l, b), l, b) /\ Modes(l, b).position = gc.position
  BY LineModes DEF GcInv, Line
<1>3. \E q, s : s \in {"IDLE", "CYCLE", "CHECK", "ALARM"} /\ Finish(l, b, g, q, s)
  BY <1>1, <1>2
<1>4. NamesPosition(l, b) => last \in Int
  <2>1. gc.position \in Int /\ Target(l, b) \in Int
    BY ValuesAreInt DEF GcInv, GcTypes, TypeOK, Line
  <2>2. NamesPosition(l, b) => m = << >> \/ m[Len(m)] = Target(l, b)
    BY SettingPosition, GoingToPosition DEF NamesPosition, Line
  <2> HIDE DEF m
  <2> QED
    BY <2>1, <2>2
<1>5. NamesPosition(l, b) => Leaves(g, l, b) /\ g.position = last
  <2> HIDE DEF last
  <2> QED
    BY <1>2, <1>4 DEF Leaves, GcFields
<1>6. NamesPosition(l, b) => g.position - g.coord_system - g.coord_offset = X(l, b)
  <2> HIDE DEF g
  <2> QED
    BY <1>5, PositionNamed
<1> HIDE DEF g
<1> QED
  BY <1>3, <1>6, FinishedWork

LEMMA LineWork ==
  ASSUME GcInv, WorkInv, NEW l \in Lines, gc_execute_line(l)
  PROVE  WorkInv'
<1> DEFINE b == Block(l, FALSE)
<1>1. /\ b.motion \in MotionModes /\ b.coord \in CoordinateSystems
      /\ l.cmds \cap MotionModes # {} => b.motion \in l.cmds
  <2>1. b.motion = Called(l, MotionModes, gc.motion)
    BY DEF Block
  <2> QED
    BY <2>1, BlockModes DEF GcInv, Called
<1>2. /\ state \in {"IDLE", "CYCLE", "CHECK"}
      /\ \/ Refused(l, b, FALSE) /\ Refuse(l, b, FALSE)
         \/ /\ ~Refused(l, b, FALSE)
            /\ Motion(l, b) \/ ProbeCycle(l, b) \/ SoftLimit(l, b) \/ ResetDuring(l, b)
  BY DEF gc_execute_line
<1> HIDE DEF b
<1>3. CASE Refuse(l, b, FALSE)
  <2>1. asked'.work = None
    BY <1>3 DEF Refuse, Nothing
  <2> QED
    BY <2>1 DEF WorkInv, WorkPositionAsAsked
<1>4. CASE SoftLimit(l, b) \/ ResetDuring(l, b)
  <2>1. asked' = Nothing(l)
    BY <1>4 DEF SoftLimit, ResetDuring, CutShort
  <2> QED
    BY <2>1 DEF Nothing, WorkInv, WorkPositionAsAsked
<1>5. CASE ~Refused(l, b, FALSE) /\ Motion(l, b)
  BY <1>1, <1>2, <1>5, MotionWork
<1>6. CASE ~Refused(l, b, FALSE) /\ ProbeCycle(l, b)
  <2>1. PICK g, q, s : s \in {"IDLE", "ALARM"} /\ Finish(l, b, g, q, s)
    <3>1. \E g, q : \/ Finish(l, b, g, q, "ALARM")
                    \/ Finish(l, b, g, q, "IDLE")
      BY <1>6 DEF ProbeCycle
    <3> QED
      BY <3>1
  <2>2. Moving(l, b) /\ Probes(l, b)
    BY <1>6 DEF ProbeCycle, Probes
  <2>3. ~NamesPosition(l, b)
    BY <1>6, <2>2, SettingPosition DEF NamesPosition, Line
  <2> QED
    BY <2>1, <2>3, FinishedWork
<1> QED
  BY <1>2, <1>3, <1>4, <1>5, <1>6

LEMMA StepWork ==
  ASSUME GcInv, WorkInv, [Next]_vars
  PROVE  WorkInv'
<1>1. CASE \E l \in Lines : gc_execute_line(l)
  BY <1>1, LineWork
<1>2. CASE \E l \in JogLines : Jog(l)
  <2>1. asked'.work = None
    BY <1>2 DEF Jog, Refuse, Nothing
  <2> QED
    BY <2>1 DEF WorkInv, WorkPositionAsAsked
<1>3. CASE \/ JogCancel \/ mc_homing_cycle \/ CheckMode \/ Unlock \/ RestoreParameters
           \/ StoreStartupLine \/ mc_reset \/ PowerLost \/ gc_init
  <2>1. asked' = NoLine
    BY <1>3 DEF JogCancel, mc_homing_cycle, CheckMode, Unlock, RestoreParameters,
                StoreStartupLine, mc_reset, PowerLost, gc_init, Quiet
  <2> QED
    BY <2>1 DEF NoLine, WorkInv, WorkPositionAsAsked
<1>4. CASE CycleStart \/ Executes \/ CycleStop
  BY <1>4 DEF CycleStart, Executes, CycleStop, WorkInv, WorkPositionAsAsked
<1>5. CASE UNCHANGED vars
  BY <1>5 DEF vars, WorkInv, WorkPositionAsAsked
<1> QED
  BY <1>1, <1>2, <1>3, <1>4, <1>5 DEF Next

(* The work position that a line sets or moves to is where the parser      *)
(* stands (gcode.c, step 3: targets and offsets; step 4: G10, G92), in     *)
(* whatever units, system and offset.                                      *)
THEOREM WorkAlwaysAsAsked == Spec => []WorkPositionAsAsked
<1>1. Init => WorkInv
  BY DEF Init, NoLine, WorkInv, WorkPositionAsAsked
<1>2. GcInv /\ WorkInv /\ [Next]_vars => WorkInv'
  BY StepWork
<1>3. WorkInv => WorkPositionAsAsked
  BY DEF WorkInv
<1> QED
  BY <1>1, <1>2, <1>3, GcInvariant, PTL DEF Spec
=============================================================================

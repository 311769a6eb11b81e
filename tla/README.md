# Verification of the pen plotter firmware

TLA+ models, model-checking runs and machine-checked proofs for the firmware in
`src/grbl`: Grbl 1.1h on an ATmega328P, changed into a two-axis pen plotter (no
Z axis, a servo pen on Timer 2 where Grbl has the spindle, a gantry with two X
motors). The models follow the configuration the repository builds
(`PEN_PLOTTER_XY`, `PEN_SERVO`, `ENABLE_DUAL_AXIS`, `HOMING_INIT_LOCK`,
`CHECK_LIMITS_AT_INIT`, `HARD_LIMIT_FORCE_STATE_CHECK`; no `PARKING_ENABLE`, no
`VARIABLE_SPINDLE`, no safety door switch).

`tlc -config X.cfg M` checks a run, `tlapm M.tla` a proof module.
`PROJECT.json` names the runs, the source lines behind every definition, the
hazards, the findings and the theorems. Some further configurations lie beside the
runs: each shows one more disagreement between the code and its comments, and the
sections below name them. They end in a counterexample.

## 1. Inventory

The program is one main loop and a handful of interrupts that share memory with
it. There is no operating system: the main program is sequential, an interrupt
may fall between any two of its instructions, and every wait of the main program
is a loop around `protocol_execute_realtime`.

| component | files | state | operations | what makes it correct |
|---|---|---|---|---|
| Serial port | `serial.c` | two rings: head, tail, buffer; `UDRIE0` | `serial_read`, `serial_write`, flush, receive and transmit interrupt | both rings are FIFOs; no byte lost, sent twice or left behind; printing never blocks for good |
| Realtime state machine | `protocol.c` | `sys.state`, `sys.suspend`, `sys.step_control`, flag words `sys_rt_exec_*` | `protocol_exec_rt_system`, `protocol_exec_rt_suspend` | holds, doors, cancels, resumes and resets from every state, in every order, end in a consistent state |
| Main loop | `protocol.c`, `main.c`, `system.c` | the line being executed | read a line, `$` commands, startup lines, auto cycle start, synchronisation, re-initialisation | no line is executed in a state that excludes it; no wait outlives its reason |
| Pen | `spindle_control.c` | `OCR2B` | set, stop, sync | up under a reset, down only where the program wants it |
| Planner | `planner.c` | block ring with head, tail, planned pointer; previous speeds | add, discard, recalculate, reset | ring bounds; every junction speed the best that can be reached and braked from |
| Stepper | `stepper.c` | segment ring, block data ring, Bresenham counters, `prep` | prepare, step interrupt, wake, idle | a segment refers to live block data; the executed steps are the planned ones |
| Limits, homing | `limits.c`, `motion_control.c` | axis locks, dual axis trigger state | limit interrupt, soft limit check, `limits_go_home` | the machine never runs past a switch, both X motors square up or homing fails |
| Probe | `probe.c` | `sys_probe_state`, probe position | monitor in the step interrupt | the motion stops, the position is that of the contact |
| Motion control, jog | `motion_control.c`, `jog.c` | none of their own | `mc_reset`, `mc_line`, arcs, dwell, probe and homing cycles, jog | a reset stops motion and flags a lost position |
| G-code parser | `gcode.c` | modal groups, coordinates | `gc_execute_line`, `gc_init`, `gc_sync_position` | a rejected line changes nothing; position, offsets and modes are those of the machine and of the EEPROM |
| Settings, EEPROM | `settings.c`, `eeprom.c` | EEPROM records with checksums, `settings` | read, write, restore | a torn record is noticed and replaced |
| Overrides | `protocol.c` 405-501 | three percentages, `uint8_t` | adjust, re-plan | within bounds, monotone in the command |
| Reports | `report.c`, `print.c` | refresh counters | status, settings, messages | formatting |

Interaction. The receive interrupt picks realtime characters out of the stream and
sets bits of `sys_rt_exec_state`; everything else goes into the receive ring.
The stepper interrupt consumes segments and sets `EXEC_CYCLE_STOP` when there are
none. The limit interrupt and the reset character call `mc_reset`, which lifts the
pen, may kill the steppers and set an alarm. The main program reads lines,
executes them (which queues planner blocks or waits for motion), and at each check
point runs the state machine, which snapshots the flags, acts on them section by
section, clears them section by section and refills the segment ring. A suspended
machine stays in a second loop below that check point. A reset makes every loop
unwind to `main`, which re-initialises all but the machine position and the alarm
state.

Hard behaviours: flags set between the snapshot and the clear; state tested in an
interrupt and used by the main program later; a cycle stop that comes early, late
or together with a cycle start; resets at every point, in every nested wait;
decelerations interrupted by resumes, doors and cancels; ring limits; 8-bit
wrap-around; torn EEPROM records. `PROJECT.json` lists each one under "hazards" at
its line.

## 2. Plan

What stands, in the order in which it was built, the parts with most control first:

1. **Serial**: `ByteFifo`, `SerialRx`, `SerialTx`, `SerialPort`, `SerialProofs`.
2. **Realtime state machine**: `Realtime`, `RealtimeProofs`, `RealtimeHoldProofs`.
3. **Homing**: `Homing`, `HomingProofs`.
4. **Planner**: ring, passes, overrides, profile (`Planner`, `PlannerProofs`).
5. **Stepper**: segments, block data and step interrupt (`Segments`, `MCSegments`, `SegmentsProofs`).
6. **G-code parser** (`Gcode`, `MCGcode`, `GcodeProofs`).
7. **Settings and EEPROM** (`Settings`, `MCSettings`, `SettingsProofs`).

`SerialPort` composes the two rings. The others meet at narrow interfaces: `Realtime`
takes planner and segments as queues and has all the flags; `Planner` has the speeds
and one step per segment; `Segments` has the interleaving of preparation and
interrupt and leaves the speeds open; `Gcode` has the planner as a queue of end points.

Left to model: the flag byte shared by `probe_state_monitor` and the receive interrupt as
separate loads and stores.

## 3. The serial port

| module | models |
|---|---|
| `ByteFifo` | what a ring promises: a bounded FIFO with an atomic put and get (`Spec`); for a consumer that polls it and may empty it, also an empty read and a flush (`PolledSpec`) |
| `SerialRx` | the receive ring: `Receive` is the interrupt, `ReadTail`, `ReadEmpty`, `ReadSlot`, `ReadAdvance` the loads and stores of `serial_read`, `ResetLoad`, `ResetStore` those of the flush |
| `SerialTx` | the transmit ring: `WriteCall`, `WriteAbandon`, `WriteStore`, `WriteEnable` are the steps of `serial_write`, `Transmit` the data register empty interrupt, `ByteSent` the transmitter hardware |
| `SerialPort` | both rings under one main program that reads, prints, and flushes after a reset |
| `SerialProofs` | the theorems |

The main program's accesses to shared variables are separate steps, interrupts run
between any two of them. Each direction carries two different bytes, so that a
repeated, lost or reordered byte is seen. The hardware is external: `UDR0` and the shift register hold up to two
bytes, and a byte takes longer than the few instructions between the head store
and the enabling of the interrupt (`byteTime` counts at most one byte there).

Run `serial_port`, 974 thousand states: two usable slots in each ring, so that empty,
part full, full and wrapped rings occur. `RxIsFifo` and `TxIsFifo` are refinement:
each ring implements `ByteFifo` under a mapping that reads the ring between tail and
head, the receive ring as `PolledSpec`, the transmit ring, which nobody flushes, as `Spec`. `NoStaleTransmit`: the interrupt, which does not test for an empty ring, never
runs on one. `NoStrandedByte`: a byte in the ring has the interrupt enabled or a
writer on its way to enable it. `WriteReturns`: a write comes to an end. Fairness:
the main program and the transmitter make progress, nothing is assumed of the host.

## 4. The realtime state machine

`Realtime` models `protocol_exec_rt_system`, `protocol_exec_rt_suspend`, the main
loop, the lines that move, jog, move the pen, pause, end, unlock, sleep or toggle
check mode, `mc_reset`, soft and hard limits, `main`'s re-initialisation and the
stepper interrupt.

| model | code |
|---|---|
| `sys` | the `system_t` fields state, suspend, step_control, abort, soft_limit, spindle_stop_ovr |
| `exec_state`, `exec_alarm`, `ovr_stop` | the volatile flag words |
| `blocks`, `segments` | planner and segment rings as queues; each element carries the pen position it was planned for |
| `stepping` | the timer interrupt is enabled |
| `pen`, `modal`, `restore` | commanded pen, `gc_state.modal.spindle`, `restore_condition` |
| `pc`, `ctx`, `sub` | where the main program is: the section of the pass, the check point that called it, what the suspend loop is doing |
| `rt_exec` | the snapshot of the flags |
| `lost` | ghost: a reset has killed the steppers in motion |
| `stale` | ghost: a restore was flagged complete when nothing was left to restore |

One action per section: `RtNoAlarm`/`RtAlarm`, `RtSnapshot`, `RtHold`, `RtHoldClear`,
`RtStart`, `RtStartClear`, `RtStopHold`/`RtStopMotion`, `RtStopClear`, `RtOverride`,
then `PrepSegment` for each segment. The reading of a flag, the action and the
clearing of the flag are separate steps, so an interrupt can fall between them as it
can in the code. Motion is counted in units of a segment; how long a segment takes
is not constrained, and a forced deceleration ends after any number of units.

Run `realtime`, 380 thousand states: one planner block and one segment (full, empty
and in between all occur, an underrun as well), blocks of up to two segments,
two lines and two realtime commands or limit trips at any point. A reset in the
critical loop and a pen-stop in a hold do not count: the operator always has them.

- `PenUpUnderReset`: from the reset interrupt on no path lowers the pen, neither the
  M3 that was waiting for motion nor the door restore.
- `PenMatchesProgram`: between lines the pen is where the program put it, after
  any mixture of holds, pen stops and door cycles, and never down for a program that has
  lifted it. The first half excepts what follows a restore that was over when it was
  flagged complete (`stale`); with these bounds that does not happen.
- `HoldIsStill`, `StartsFromStandstill`: a hold that says complete has stopped, a
  resume never cuts into a deceleration.

The safety properties hold as well with two lines and four commands, with one line
and eight, and with two segments and five commands. Section 10 has them for every bound.

- `ResetTaken`, `HoldEnds`, `CycleEnds`: every wait notices a reset; the one cycle
  stop that ends a hold or a cycle is never lost.

Fairness: weak fairness of the processor (it never halts) and of the stepper timer,
strong fairness of the end of the 4 s restore delay, which consists of a fixed number
of passes. Nothing is assumed of the host: no line and no command need ever
come. A state where the program waits for the host is not a deadlock because the
idle loop goes on.

### Where the code and its comments disagree

Six configurations of `Realtime` end in a counterexample, each to a sentence of the
repository. The first two are the runs `realtime_pen` and `realtime_door`, the others lie
beside the runs
(`tlc -config RealtimeSync.cfg Realtime`, ...):

| cfg, property | sentence | what happens |
|---|---|---|
| `RealtimePen`, `PenFollowsProgram` | protocol.c:167 "Block until all buffered steps are executed" | a feed hold while the last segments run ends the synchronisation of M3/M5: the pen moves while the carriage moves |
| `RealtimeDoor`, `ResumeRestoresPen` | protocol.c:342 "Once, they are complete, it will call CYCLE_START automatically to resume and exit the suspend" | the end of the 4 s delay of a restore is flagged as its completion without a look at whether the restore is still on. A feed hold in the last pass of the delay and a `~` in the delay after it end the suspension early; a door in what is left of that delay is taken for restored, and the next `~` resumes with the pen up |
| `RealtimeSync`, `SyncEnds` | protocol.c:171 "ensure cycle resumes" | a cycle that ends as the synchronisation asks for a start swallows the start; the line waits for ever |
| `RealtimeJog`, `IdleIsNotSuspended` | protocol.c:278 "MOTION_CANCEL only occurs during a CYCLE" | a jog cancel as the jog ends suspends the idle machine |
| `RealtimeReset`, `ResetStopsMotion` | motion_control.c:372 "kills the steppers" | a reset between the decision to start and `st_wake_up` kills first, then the start follows |
| `RealtimeLoss`, `PositionLossIsAlarmed` | motion_control.c:373 "flag position lost" | a limit or reset between the alarm check and the flag check loses the alarm; startup lines run from a lost position |

The windows are a few instructions wide except for the first, which is the time the
last segments take, the second, which takes six commands, one of them within a 50 ms
step of the delay, and the fifth, which is the time `st_prep_buffer` takes. The second was
missed by the runs and found by the proof of section 10.

## 5. Homing

`Homing` models `$H` from `system_execute_line` through `mc_homing_cycle` and
`limits_go_home` to the startup lines, with the physical gantry beside it. `dist` is
where each of the three motors (X1, X2, Y) really is, `sys_position` what the code
counts: a locked motor stands still while the count goes on. A switch is closed at
both ends of an axis, may be dead, and may stick once closed.

| model | code |
|---|---|
| `axislock` | `sys.homing_axis_lock` and `sys.homing_axis_lock_dual`, as the set of motors that may step |
| `cycle`, `approach`, `n_cycle` | the call of `limits_go_home` and its loop variables |
| `dual_check`, `dual_trigger_position` | `dual_axis_async_check` and the count at the first X switch |
| `motion`, `stepping` | the planned block (axis, direction, steps left) and the timer interrupt |
| `limit_state`, `late` | the switches as last read; steps since then |
| `hard_limits` | the pin change interrupt is enabled |
| `pc`: settle, check | pen delay and switch check of `mc_homing_cycle` |
| begin, start, poll, lock, exit, stop, debounce, finish, failed | `limits_go_home`, in its order |
| homed, complete, startup | the rest of `mc_homing_cycle` and of `$H` |
| rt, critical, suspend | a realtime pass and the loops below it, with where it returns in `ctx` |

One poll is three actions, so a step, a reset or a door command can fall between
the reading of the switches, the lock and the test of the flags. A realtime pass is
coarse here; its own windows are in `Realtime`. When nobody fills the segment ring
any more, a motion may end after any number of steps.

`HomingAssumption` relates the lengths as the code and its defaults do. The search, one
and a half times the travel (limits.c:200), and the second approach, five times the
pull-off (limits.c:362), are longer than the way to the switch by what two polls can miss; the
pull-off is longer than that and shorter than the travel. From a poll to the next one,
to the stop of the steppers or to the alarm, the code runs without a wait, so at most
`Lag` steps fall in it (`Prompt`).

The proof of section 10 corrected the model twice. A motion was allowed to run any
distance between the last poll and the stop or the alarm; `Prompt` now says how far. And
a pass that executed a reset in state SAFETY_DOOR returned to its caller at once,
where `protocol_execute_realtime` goes through the suspend loop first (`Caller`).

Run `homing`, 322 thousand states: travel of 3 steps, pull-off of 2, one step between
two polls, gantry ends up to one step apart at the start, a mechanical stop five
steps past the switch (far enough for the largest skew the check allows), one
reset, door command or limit trip at any point, any number of attempts and unlocks.
Initially no switch, any one switch or both X switches are broken. All four
motions of both cycles, every failure and its combination with a broken switch
occur. Two commands, without liveness, give the same result.

- `StartupIsHomed`: when the startup lines run and no reset waits, each motor is at
  the pull-off distance, short by the steps two polls can miss; position and
  switches agree.
- `GantryStaysSquare`: the skew never exceeds `MaxSkew + Fail + 2 * Lag`, over any
  number of attempts. The bound is reached: one less is violated. The dual-axis
  check alone does not give it, since each attempt would add its part; the refusal
  to home with a closed switch stops the second attempt.
- `LimitsGuarded`, `AbandonedIsLocked`: no way out of homing leaves the limit interrupt
  off when lines are accepted again, or a cycle that was given up unlocked.
- `HomingEnds`: every cycle ends; with a door command after the last poll it ends in
  the suspend loop, which waits for a hold that nobody completes.

Fairness: weak, of the processor and of the stepper timer.

Disagreements; the second is the run `homing_startup`, the others lie beside it:

| cfg, property | sentence | what happens |
|---|---|---|
| `HomingArgs`, `HomingIsPerformed` | system.h:79 "Performing homing cycle" | `$H` with an argument is refused and leaves the state HOMING |
| `HomingStartup`, `StartupNeedsHoming` | system.c:195 "Execute startup scripts after successful homing" | homing refused for a closed switch is followed by IDLE and the startup lines |
| `HomingReset`, `FailureStopsMotors` | limits.c:338 "Stop motors, if they are running" | a reset in the debounce delay, or between the pen delay and the first motion, is noticed after the next motion has started; the second `mc_reset` does nothing, the queued motion runs on |
| `HomingLock`, `LockIsKept` | main.c:60 "Only a homing cycle '$H' or kill alarm locks '$X' will disable the alarm" | a reset just before `$H` sets HOMING overwrites the lock: IDLE and startup lines, not homed |

## 6. The planner

`Planner` models `planner.c`, the velocity profile of `st_prep_buffer`, the feed and
rapid overrides of `protocol.c`, holds, resumes, system motions (homing and parking
use the slot behind the queue), program end and reset.

| model | code |
|---|---|
| `block_buffer*`, `next_buffer_head` | the ring and its four indices |
| `ReversePass`, `ForwardPass`, `Breakpoints`, `Replanned` | the two passes of `planner_recalculate` and where they leave `block_buffer_planned` |
| `Profile`, `SpeedAt`, `PrepSegment`, `PrepHoldEnd` | a block loaded, a part of it turned into a segment, a hold that ends within a block |
| `pl_block`, `prep` | the block in work and its profile |
| `ExecuteOverrides`, `Reprofiled`, `LastNominal` | `plan_feed_override` in `uint8_t`, then `plan_update_velocity_profile_parameters` and a new plan |
| `slowed` | history: an override has been lowered since the queue was last empty |

Speeds are squared, as in the code, and a distance is twice the acceleration times
the millimetres, so that braking over `d` lowers a squared speed by `d` and all
arithmetic is on integers. A segment covers any part of its block. One profile is simplified: a
block that must both slow down to a lowered override and brake for its exit, without room for
both, has its speed cut to what the exit allows (`SpeedAt`), where the code would go back to the
start of the braking (stepper.c:811-815, 915-919). It takes a lowered override to get there.

Run `planner`, 461 thousand states: a ring of four slots (three blocks: the queue
is full, wraps and is planned with the pointer anywhere), blocks shorter and longer
than the way to nominal speed, overrides that raise the feed or slow down rapids
while blocks wait or run; `ProgramEnd` and `Reset` bring the overrides back.

- `PlannedInQueue`: the planned pointer stays between tail and last block. With an
  empty ring `planner_recalculate` walks stale slots and may leave it at a free one;
  the next block puts that right, before anything reads it.
- `PlanIsOptimal`: the incremental passes give each junction the speed a closed
  formula over the whole queue gives. It is stated without the passes: the least of
  every limit plus the distance to it.
- `ExitIsPlanned`: the profile in work ends at the speed the planner has for that end.
- `HoldEndsAtRest`, `NoHarshStep`: holds end at rest and resume from rest; across
  segments, junctions, holds and new plans speed changes by what the acceleration
  allows.

| cfg, property | sentence | what happens |
|---|---|---|
| `PlannerSlower`, `BrakesInTime` | planner.c:76 "with a maximum allowable deceleration" | the reverse pass skips a block entered at its maximum (planner.c:158). After a lowered override the block behind may have become slower, and the block can no longer brake to it. The history variable `slowed` keeps this case out of the properties above |
| `PlannerWrap`, `OverrideObeys` | config.h:243-250, the smallest override | at 10 % a coarse and a fine decrement in one pass wrap to 255, which is cut to the maximum of 200 % (protocol.c:410-417) |

`tlc -config PlannerSlower.cfg Planner` and `PlannerWrap.cfg` show them.

## 7. From blocks to steps

`Segments` models `st_prep_buffer` with each access to what it shares with the
interrupt as a step of its own, `TIMER1_COMPA`, `st_wake_up`, `st_reset`, holds,
replans and resets. `MCSegments` gives it two moves.

| model | code |
|---|---|
| `PrepCheck`, `PrepLoad`, `PrepFill`, `PrepNoStep`, `PrepPublish`, `PrepForcedEnd` | one round of the loop of `st_prep_buffer`, in its order |
| `StepperTick` with `LoadSegment`, `Tick`, `Pulsed` | the interrupt: pulses computed before, next segment, Bresenham with AMASS |
| `StepperEmpty` | no segment left: idle, cycle stop |
| `segment_buffer*`, `st_block_buffer`, `prep.st_block_index` | the two rings |
| `motor` | pulses each motor has received |
| `goal` | history: where the block in execution ends |

How many steps a segment has and when the queue is planned anew are left open. The
main program can be late at any point: an underrun, which strands segments in state
IDLE until the next start, is included. After a reset with alarm positions restart at
the origin, which stands for homing.

A cycle starts in two steps, `CycleStart` and `BeginCycle`: once a pass has read the flags it
goes on to `st_wake_up` without another look (protocol.c:240-359). A reset in between finds no
motion, so it raises no alarm and stops nothing, and the timer runs until `st_reset`, which
may cut off one step that is counted and not yet pulsed. `missed` records it, and
`MotorsFollowPosition` allows for it: one step of an axis for each such reset, nothing
else. `RealtimeReset` (section 4) shows the same window from the side of the flags.

Run `segments`, 665 thousand states: a ring of three usable segments and as many
block slots, two blocks in the queue, three in a behaviour, AMASS levels 0 and 1, moves
with and without Y in both directions, one reset anywhere.

- `LiveDataKept`: the planner discards a block while its segments still wait or run,
  so they refer to a copy of its data. The ring of copies has one slot fewer than the
  ring of segments, and no slot is overwritten while a live segment refers to it. Proved for rings of every size.
- `BlocksEndExactly`: however a block is cut and smoothed, it ends on its target.
- `MotorsFollowPosition`: each step counted is pulsed once, but for `missed`.
- `MotionEnds`: neither side waits for the other for good.

Fairness: the timer keeps firing (weak fairness of the interrupt), `st_prep_buffer`
returns and the main loop comes round again (weak fairness of its steps, of the call and
of the re-initialisation). Strong fairness of `CycleStop`, since the loop takes up the flags before each call
of `st_prep_buffer`, which the model lets happen in any order. Nothing is
assumed about blocks or commands to come.

Run `segments_dual` ends in a counterexample to `MotorsInStep`: stepper.c:230 wants the
first interrupt not to step, but `st_wake_up` clears `step_outbits` and not
`step_outbits_dual`, so the second X motor steps once more at each start after a
motion that ended on an X step.

## 8. The G-code parser

`Gcode` models `gc_execute_line`: a line is a set of commands and a set of value words;
step 1 and 2 with the modal groups, the checks of step 3 in their order, and step 4 with
its early returns. Beside it are the planner as a queue of end points, jogs, probing and homing
(what they do to the positions of parser, planner and machine), check mode, `$X`, `$RST=#`,
`$N`, `mc_reset`, power loss and `gc_init`.

| model | code |
|---|---|
| `Block`, `Called`, `axis_command`, `AxisCommand` | `gc_block.modal`, `axis_command` |
| `Target`, `BlockCoord`, `NewCoord`, `NewOffset`, `BlockFeed` | the values of step 3 |
| `WordErrors`, `EarlyErrors`, `NonModalErrors`, `ArcErrors`, `MotionErrors`, `JogErrors`, `Unused` | the errors |
| `Refuse`, `Finish`, `Motion`, `ProbeCycle`, `CutShort`, `SoftLimit`, `ResetDuring` | how a line ends |
| `coord_data`, `Corrupt` | coordinate data in EEPROM, one value of which fails its checksum |
| `plan` | the blocks queued, by where each ends; where the machine is; `pl.position` |
| `plan_buffer_line`, `Emptied`, `Passed` | a block queued, `protocol_buffer_synchronize`, where a reset may stop the machine |
| `CycleStart`, `Executes`, `CycleStop` | the machine executes what is queued, between any two lines |
| `StoreStartupLine` | `$N`, with the records it may overwrite (section 9) |
| `asked` | history: what the last line asked for |
| `stray` | history: homing has found blocks queued |
| `spoilt` | history: a startup line has overwritten the record of the selected system |

One axis stands for both, distances are small integers, an inch is two units. Soft
limits and homing are on. Of the points of an arc there are two, one anywhere in travel and
its end; any point may be out of travel. The model keeps what the code does even where it is
surprising: `G10` with only `L` or only `P` is accepted, `G49 X` ignores its `X`, `G92.1` with a
target uses the offset it is about to clear, writes of `G10` and `G28.1` go on in check mode
and after an abort during the synchronisation, `P` and `L` wrap to a byte, a refused line that
had to repair a record has waited for the machine, `S` waits for it while the pen is down.
A cycle starts when the stream pauses, so IDLE may have blocks queued, and `$H`, `$C`, `$N` and
`$RST` are taken as the code takes them, by `sys.state` alone.

The state CYCLE stands for HOLD and DOOR as well, and the pen is not in this module: it
may differ from `modal.spindle` in a hold, under a stop override or after a door, and how it
comes back is `PenMatchesProgram` of `Realtime`, with the exception shown by `realtime_door`.

Run `gcode`, 286 thousand states: any three of 35 lines (`MCLines`), that is commands alone
and with an axis word and the combinations that interact (units, selection with `G10`, `G53`, `G92`,
`G28` with and without a target, an arc, probes, `M30`), a planner of two blocks (empty,
part full, full), with resets, alarms, jogs, restored parameters and power losses during
and between the lines. With three lines a system can be changed, selected and used.

- `PositionFollowsPlan`: the parser's position, `pl.position` and the place where the queue
  ends are one and the same, except after a homing that found blocks queued, until
  positions are next read from the machine.
- `StaysInTravel`: wherever it is stopped, the machine is in travel, and so is the end of every
  block; soft limits look only at targets. The exception is the same, until the next homing.
- `CoordMatchesSelection`: the offset in force is the stored one, unless a startup line has
  overwritten the record since it was read.
- `WorkPositionAsAsked`: a line that sets or reaches a work position leaves it there.

| cfg, property | sentence | what happens |
|---|---|---|
| `GcodeJog`, `AxisWordsMove` (`tlc -config GcodeJog.cfg MCGcode`) | gcode.c:872 "axis word checks have already been performed" | `$J=F100` moves to machine zero |
| `GcodeHoming`, `HomedWithEmptyPlan` | motion_control.c:204 "There should be no motions in the buffer", limits.c:262 "Planner buffer should be empty, as required to initiate the homing cycle" | `G1 X1 F100` and `$H` sent together: the block is still queued in IDLE, homing runs, positions are set to those of the switch, and the block is executed from there |
| `GcodeRefused`, `RefusedChangesNothing` | gcode.c:355 "all commands and values in this block are dumped and will not update the active system g-code modes" | `$N9=` has overwritten the record of `G54` (section 9); `M30` returns an error after it has changed the modes, and before it switches pen and coolant off |
| `GcodeFeed`, `FeedInMm` | gcode.c:429 "ensure value is in mm/min" | on the line that leaves `G93`, `F` in inches is not converted |

Two more things the model shows, of which no sentence of the repository speaks. `$C` in IDLE
with blocks queued leaves a check mode in which nothing executes them; the first line that
synchronises, say `G10`, waits until a reset. And `gc_init` precedes `plan_reset`
(main.c:89-94): if the record of `G54` has to be repaired after a reset, its write waits for the
planner, which still holds the blocks the reset was to discard: in IDLE they are executed
after all, in ALARM it waits until the next reset.

## 9. Settings and EEPROM

`Settings` models `eeprom_put_char` with erase and program, records with their checksum,
`settings_init`, the commands that store a setting, a startup line or the build info,
`$RST=$` and `$RST=*`. A command puts its writes in `pending`; `eeprom_put_char`
carries out one; `PowerLoss` falls between any two, or between erasing a cell and
programming it. Records are short (a line of three bytes, three bytes of settings), the
layout and the checksum, with its `||` in place of `|`, are those of the code, bytes have
eight bits, each told by its weight. Interrupts are off during a write, so nothing else runs inside one.

Run `settings`, 158 thousand states, starts from an erased chip or one in use; two
commands, two power losses. It stops when commands and losses are used up, so
deadlock is not checked.

- `SettingsMatchEeprom`: what the next start reads is what is in force.
- `LinesAsStored`: a line reads as it was stored, unless power failed while this
  very line was written. (`settings_restore` writes the checksum of an erased line to the wrong
  place, which does no harm: it reads as empty.)

| cfg, property | sentence | what happens |
|---|---|---|
| `SettingsStartup`, `LinesAsStored` (run `settings_startup`) | config.h:137 "up to 2 startup blocks" | `$N2=` and `$N3=` are accepted and overwrite build info and, past the end of the memory, settings |
| `SettingsTorn`, `SettingsWhole` (`tlc -config SettingsTorn.cfg MCSettings`) | settings.c:181 "Read settings-record and check checksum" | a new chip that loses power right after the version byte: bytes of 255 have checksum 255, so the next start takes them for settings. The `\|\|` is known (docs/CODE-REVIEW.md:59), this consequence is not |

## 10. What is proved

`tlapm` on `SerialProofs`, `RealtimeProofs`, `RealtimeHoldProofs`, `HomingProofs`,
`PlannerProofs`, `SegmentsProofs`, `GcodeProofs` and `SettingsProofs` proves, for every value
of the constants under the assumption named in each module (`RingAssumption`,
`TxRingAssumption`, `RealtimeAssumption`, `HomingAssumption`, `PlannerAssumption`,
`SegmentsAssumption`, `GcodeAssumption`, `SettingsAssumption`: ring sizes and bounds are natural numbers, rings
hold at least one element, a block has a length and a move moves some axis, override steps
are below the default of 100 %, AMASS has at least one level, the values of words are
integers and the value of a record that fails its checksum is not, the first coordinate
system is G54 and none is called G28, a line that asks for nothing is told from one that
does, the planner holds at least two blocks, a homing search reaches its switch, a stored line has at least two bytes and the number
of a startup line is a byte):

- `PortTypeCorrect`, `TransmitNeverStale`, `TransmitNeverStranded`: the inductive
  invariant is `TxInv`. `NoStaleTransmit` alone is not inductive: that the
  interrupt is enabled only with something to send rests on what `serial_write`
  knows between the head store and the enable, and on how far the transmitter can
  get there (`TxWindow`).
- `ReadNeverTorn`, `AvailableIsAlwaysExact`: the receive side. The reader's slot is
  outside the interrupt's, and the free count is exact on both branches of the wrap.
- `ReceiveIsFifo`, `TransmitIsFifo`: each ring implements `ByteFifo`, step by step, under
  the mapping that reads it from tail to head. The lemmas `RingPut`, `RingDrop` and
  `RingGet` say what moving one index by one does to that sequence, with `Dist` and `Nth`
  for the arithmetic of the wrap. The flush copies head to tail in two steps; `FlushInv` says
  that the value it carries is still a position of the ring when it is stored, which is what
  makes the store the drop of a prefix.
- `TypeCorrect`: types and buffer bounds of the state machine.
- `PenAlwaysUpUnderReset`: `PenUpUnderReset` alone is not inductive. A critical alarm
  clears the reset flag that came with it, so the step into the critical loop needs
  to know that the pen was lifted when the alarm was raised: `ResetInv` adds that an
  alarm in waiting always comes with a reset. The lemma `PenSetUnderReset` says what
  the guard of `_spindle_set_state` is for, and serves every step that moves the pen.
- `HoldAlwaysStill`, `AlwaysStartsFromStandstill` rest on `HoldInv`. That the steppers stand
  when a hold says complete is a fact about the flag word: only the cycle stop completes
  a hold, so a cycle stop that waits in the flags must be that of the motion now
  held (`StandInv`). Making this inductive takes what a pass knows between its snapshot
  and its sections (`PassInv`), where the suspend flags can be set at all
  (`SuspendInv`), which line is executed in which state (`LineKnown`), and one exception: a
  cycle stop that survives re-initialisation, because main clears the flags before it
  stops the steppers (`StaleStop`); it meets an empty planner and does no harm.
  The hold and cycle start sections are five and three nested changes of one record;
  `HoldEffect` and `StartEffect` state once what they do, and every later step cites them.
  `OnlyWakeUp`: no other action enables the stepper interrupt.
- `PenAlwaysMatches` rests on `DrawInv`, on top of that. `PenInv` lists the four places
  where the pen may differ from the program: under a line that lifts it, under a stop
  override, after a retraction and before its restore. The queue must agree with the modal
  state as well (`Drawn`), because `restore_condition` is read from the block in execution.
  `RestoreInv` and `OverrideInv` say which flags of a retraction and of an override can
  be set together. `PenMatchesProgram` had no exception at first; the proof of
  `RestoreInv` failed at the end of the delay, and the failure is the run `realtime_door`.
- `StartupAlwaysHomed`, `LimitsAlwaysGuarded`, `AbandonedAlwaysLocked` and the types of
  `Homing` rest on `HomeInv`. Its heart is `ApproachInv`: during an approach, a motor whose
  switch is open is in front of it, one whose switch has closed is at most two polls
  past it, and what is left of the search covers the way that is left. A dead or sticking
  switch therefore ends in the alarm and never in a homed axis. `RunOn` is the motion
  that a reset between pen delay and first poll leaves running; it belongs to an abandoned
  cycle, which `FlowInv` shows locked.
- `GantryAlwaysSquare` adds `RacksInv`. With one X switch dead the motor that still runs
  can rack the gantry only while the other is held, and no further than the dual-axis check
  lets it: `Moved`, the way since the trigger, is at most `Fail` at every poll (`RackInv`). What a
  failure leaves running (`FailedInv`) adds nothing but the poll it was found in.
- `AlwaysSafe`, `TypeCorrect` and `PlannedAlwaysInQueue` of `Planner`
  hold whatever the overrides do, also after one has been lowered, when the plan is no
  longer what it should be (run `planner` keeps that case out of the other properties). `SafeInv`
  says why nothing worse comes of it: the passes and the profile always leave some way to
  come to rest at the end of the queue (`EndInv`, a speed for each junction from which the
  next can be reached), so no length and no squared speed becomes negative.
- `AlwaysPlanned`, `ExitAlwaysPlanned`, `HoldAlwaysEndsAtRest`, `PlanAlwaysOptimal` and
  `NeverHarsh` hold until an override is lowered. `PlannerInv` adds to `SafeInv` that the profile in work can follow the
  acceleration (`SmoothInv`), what the limits of the blocks are (`LimitInv`), and the plan
  (`PlanInv`): every block can brake to the next, no entry speed is beyond what
  acceleration from the speed now allows, and none up to the planned pointer can be raised
  (`Fastest`). The last is what makes the early ends of the passes right: behind the pointer nothing
  that a new block could change. `PlanIsOptimal` follows, as a block that cannot be raised
  has met its own limit, that of a block before it plus the distance, or that of a block
  behind. `ExitIsPlanned` is part of the invariant: `st_prep_buffer` caches the exit speed,
  and only the flag `recalculate` keeps the cache right.
- `Start` and `Dist` are recursive functions over the queue; what holds along it is shown
  with a least counterexample (`LeastNumber`, from the well-foundedness of the numbers), an
  induction over numbers that needs no operator as a parameter.
- `LiveDataAlwaysKept` rests on `RingInv`. That two rings of different length never
  collide cannot be seen from one step; the part that makes it inductive is `LagInv`:
  a segment's block lies no further back than the segments behind it are many, since
  each block gets at least one segment. A new slot is taken only when the newest
  segment ends its block and there is room for one more, so the slot is free. `PrepInv`
  says what `st_prep_buffer` knows between its steps, `ExecInv` that the
  segment in execution is still in the ring.
- `MotorsAlwaysFollow` (all but the step in `missed`) rests on `PulseInv`: the interrupt computes the pulses of the
  next tick and counts them at once, so positions are ahead of the motors by the bits
  in waiting; the direction bits belong to the block those bits came from (`DirInv`),
  and the timer runs only in a motion the main program knows of (`TimerInv`), so that a
  start, which clears the bits, finds none in waiting.
- `BlocksAlwaysEndExactly` and the types of `Segments` rest on `BlockInv`. Nothing in one state
  says which part of a block a segment is, since the queue has dropped the block and its
  copy keeps no count. `CutInv` therefore asks for a cursor along the ring: for each slot the
  block data in use before it, the steps left of that block and the position it ends at.
  Each segment takes its steps off, or begins the next block when none are left
  (`CutsOff`); the cursor ends where `st_prep_buffer` is (`PrepLink`), from where the queue leads
  to the planner's position (`QueueLink`). At its front stands the interrupt (`ExecLink`), with
  the `Balance` of the Bresenham counters: what the remaining ticks will add is what the
  steps still to be made will take off. Half an event count as start value (`Half`) leaves
  every counter where it was at the end of a block, so nothing is left over. That a
  segment adds the same at every AMASS level, with more ticks or fewer (`SegmentShare`), is why
  the data of a block are shifted left before they are divided (stepper.c:719-723).
- These proofs changed the model once: with `MaxAmassLevel = 0` the event count could be odd
  and half of it would be rounded, so a move of one step would make none.
  `SegmentsAssumption` now asks for a level of at least 1, as stepper.c:54 does.
- `TypeCorrect`, `PositionAlwaysFollows`, `AlwaysInTravel` and `CoordAlwaysMatches` of `Gcode`
  rest on `GcInv`, their conjunction with the fields of the state. The work is in the plan: a line
  that queues, synchronises or is cut short leaves a plan that ends where the parser is
  (`BufferedPlan`, `QueuedPosition`), and wherever a reset stops a machine on its way between
  two points in travel it is in travel (`PassedPoints`, `CutInv`). `FinishedInv`, `MotionInv`,
  `ProbeInv`, `JogInv` and `HomingInv` have one step for each way an operation ends. The two
  exceptions are carried by `stray` and `spoilt`: without them neither property is true.
- `WorkAlwaysAsAsked`: the three ways to name a work position (a motion in G90, G92,
  G10 L20) exclude each other only because a line has at most one command of a modal
  group (`OneOfEach`), and a motion has an axis word only because of four separate rules
  of step 3 (`GoingToPosition`).
- `SettingsAlwaysMatch` and `LinesAlwaysAsStored` rest on `MemoryInv`. Between two bytes of a
  command the memory holds neither the old record nor the new one, so the invariant speaks
  of the memory that the pending writes lead to (`Reaches`): that one holds the settings in
  force and every line as stored. `eeprom_put_char` keeps it because a cell whose bits need no
  erasing gets its new value by programming zeros alone (`ProgramsNew`); a
  command moves it on by writes within the record's own cells (`Placed`, `RegionsApart`), which
  leave every other record as it was (`LineKept`, `GlobalKept`); a power loss throws it away,
  and what the pending records do not name is in the memory itself. What `settings_init`
  finds may be anything: it either reads back what it calls settings (`GlobalRead`) or
  writes everything anew (`RestoreReached`). A line that fails its checksum without having lost
  power can only be an erased one (`LineRead`), which is why `settings_read_line` may replace it.
- Both theorems have the hypothesis `StartupInRange`, that `$N` names a line there is. It is not
  an assumption of the model: the code does not check it, and the run `settings_startup`
  shows what happens without. `TypeCorrect` holds for every number; it needs the checksum of any
  bytes to be a byte (`ChecksumIsByte`, from a least counterexample, `EveryPrefix`).

Only model-checked: the liveness properties, since the prover does not do fairness.

## 11. What is not modelled

- Arc geometry, `limit_value_by_axis_maximum`, the junction angle: floating point. An arc is two
  lines, to any point and to its end; a junction limit is a parameter.
- The duration of a segment and of a step pulse, the reset of the pulse, port masks, pin
  setup, PWM of the servo: hardware or timing.
- `probe_state_monitor` writes the flag byte with an unguarded read and write in an
  interrupt that lets others in. A probe cycle is in `Gcode` by its outcomes; the two
  accesses are not.
- Report and status texts, number parsing and printing: formatting without state, apart
  from two counters that decide which fields are due.
- The character filter of the line reader (comments, spaces, overlong lines).
- `config.h`, `defaults.h`, `cpu_map.h`: choices made at compile time. The models take
  the ones that are active.
- Outside the controller: the post-processor, the upload sketches, the regression suite
  (read as documentation).

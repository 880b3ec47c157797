----------------------------- MODULE Positions -----------------------------
(***************************************************************************)
(* Where the machine is, in the four places the firmware keeps that:       *)
(* sys_position, the steps of the motors counted by the stepper interrupt  *)
(* (stepper.c); pl.position, the steps of the axes at the end of the plan  *)
(* (planner.c); gc_state.position, the end point of the last line, a       *)
(* float (gcode.c); and the copy of sys_position that report_realtime_-    *)
(* status (report.c) takes byte by byte while the interrupt counts on.     *)
(* What brings them apart, or takes them over from one another: lines that *)
(* end between two steps, check mode, lines and jogs out of the travel,    *)
(* jog cancels and resets, each at any step of a motion and while a line   *)
(* waits for a free block; and segments, which hold steps of blocks that   *)
(* the planner has discarded, left over when the interrupt stops.          *)
(*                                                                         *)
(* A segment is any number of step events, cut here one by one; what       *)
(* segments are made of is in module Stepper, speeds in Planner,           *)
(* suspending and resuming in Realtime.                                    *)
(***************************************************************************)
EXTENDS CoreXY, Sequences

CONSTANTS Span,              \* settings.max_travel of both axes, in steps
          Sub,               \* parts of a step in which lines end
          Moves,             \* the coordinates of lines, in these parts
          BLOCK_BUFFER_SIZE, \* 16 in planner.h
          BYTE,              \* values of a byte of sys_position, 256
          StepsPerMm, PerMm, \* settings.steps_per_mm; 10^N_DECIMAL_COORDVALUE
          WorkOffset,        \* coord_system + coord_offset, in steps
          ShowsMachine,      \* $10: BITFLAG_RT_STATUS_POSITION_TYPE
          MaxLines           \* bound: lines that move

ASSUME PositionsAssumption ==
  /\ {Span, Sub, BLOCK_BUFFER_SIZE, BYTE, StepsPerMm, PerMm}
       \subseteq Nat \ {0}
  /\ BLOCK_BUFFER_SIZE > 1 /\ BYTE > 1
  /\ Moves \subseteq [XY -> Int] /\ WorkOffset \in [XY -> Int]
  /\ ShowsMachine \in BOOLEAN /\ MaxLines \in Nat

VARIABLES
  counted,      \* sys_position
  planned,      \* pl.position
  parsed,       \* gc_state.position
  blocks,       \* blocks with steps to make, as steps of the motors
  events,       \* step events made of the first block
  discarded,    \* first blocks that are all in segments, and not planned
  prepped,      \* step events in segments of the next block
  turning,      \* the stepper interrupt is enabled
  mode,         \* sys.state; a cancelled jog's hold is CANCEL
  flagged,      \* sys_rt_exec_state and sys_rt_exec_alarm
  at,           \* of the main program
  line,         \* the line it has in its hands
  copy,         \* a status report's: bytes copied, their sum, and what next
  lines,        \* lines that moved
  goal          \* history: where the last line planned leads to, doubled

motion == <<counted, blocks, events, discarded, prepped>>
positionVars == <<motion, planned, parsed, turning, mode, flagged, at, line,
                  copy, lines, goal>>

Origin == [axis \in XY |-> 0]
NoLine == [to |-> Origin, jog |-> FALSE]
NoCopy == [bytes |-> 0, of |-> [m \in Motors |-> 0], back |-> "main"]

PositionsInit ==
  /\ counted = [m \in Motors |-> 0] /\ planned = Origin /\ parsed = Origin
  /\ blocks = << >> /\ events = 0 /\ discarded = 0 /\ prepped = 0
  /\ turning = FALSE
  /\ mode = "IDLE" /\ flagged = {} /\ at = "main"
  /\ line = NoLine /\ copy = NoCopy /\ lines = 0
  /\ goal = Origin

Magnitude(n) == IF n < 0 THEN -n ELSE n
Sign(n) == IF n < 0 THEN -1 ELSE 1

(* lround: to the nearest step, a half away from zero. *)
Lround(n) == Sign(n) * ((2 * Magnitude(n) + Sub) \div (2 * Sub))

MotorsMax(b) == IF Magnitude(b["A"]) > Magnitude(b["B"])
                THEN Magnitude(b["A"]) ELSE Magnitude(b["B"])

-----------------------------------------------------------------------------
(* Step events are in segments, and blocks in the planner. *)
Segmented == discarded > 0 \/ events < prepped
plan_get_current_block == Len(blocks) > discarded
plan_get_block_buffer_available ==
  BLOCK_BUFFER_SIZE - 1 - (Len(blocks) - discarded)

(* The stepper interrupt makes one step event of the first block: Bresenham's
   counters start at half of the events. *)
Made(b, e, m) == Sign(b[m]) * ((2 * e * Magnitude(b[m]) + MotorsMax(b) - 1)
                                 \div (2 * MotorsMax(b)))

StepEvent ==
  /\ turning /\ Segmented
  /\ LET b == Head(blocks)
     IN /\ counted' = [m \in Motors |-> counted[m] + Made(b, events + 1, m)
                                                   - Made(b, events, m)]
        /\ IF events + 1 = MotorsMax(b)
           THEN /\ events' = 0 /\ blocks' = Tail(blocks)
                /\ discarded' = discarded - 1
           ELSE events' = events + 1 /\ UNCHANGED <<blocks, discarded>>
  /\ UNCHANGED <<prepped, planned, parsed, turning, mode, flagged, at, line,
                 copy, lines, goal>>

(* It stops when the segments are used up, whatever the planner holds. *)
Stop ==
  /\ turning /\ ~Segmented
  /\ turning' = FALSE
  /\ flagged' = flagged \cup {"CYCLE_STOP"}
  /\ UNCHANGED <<motion, planned, parsed, mode, at, line, copy, lines, goal>>

(* The reset character, and leaving check mode: mc_reset stops a motion. *)
Moving == mode \in {"CYCLE", "JOG", "HOLD", "CANCEL"}

mc_reset ==
  /\ flagged' = flagged \cup {"RESET"} \cup (IF Moving THEN {"ALARM"} ELSE {})
  /\ turning' = (turning /\ ~Moving)

ResetChar ==
  /\ "RESET" \notin flagged
  /\ mc_reset
  /\ UNCHANGED <<motion, planned, parsed, mode, at, line, copy, lines, goal>>

-----------------------------------------------------------------------------
(* Where the main program looks at the flags: between two lines, in mc_line
   and in limits_soft_check. *)
Looks == at \in {"main", "line", "soft"}

(* The planner and the parser take over the position of the motors; half a
   step of an axis is lost. *)
SyncMutant == parsed' = [axis \in XY |-> Sub * ToAxis(counted, axis)]
              /\ UNCHANGED planned
Sync == /\ planned' = [axis \in XY |-> ToAxis(counted, axis)]
        /\ parsed' = [axis \in XY |-> Sub * ToAxis(counted, axis)]

(* One more step event of the planner's first block is cut; the block leaves
   the planner with the last. *)
CutSegment(plan) ==
  /\ Len(plan) > discarded
  /\ IF prepped + 1 = MotorsMax(plan[discarded + 1])
     THEN prepped' = 0 /\ discarded' = discarded + 1
     ELSE prepped' = prepped + 1 /\ UNCHANGED discarded

(* The refill at the end of protocol_exec_rt_system, until the segments are
   full or the plan or the hold ends; also after the interrupt has stopped, or
   a reset has come, since the flags were copied. *)
st_prep_buffer ==
  /\ Looks /\ Moving
  /\ CutSegment(blocks)
  /\ UNCHANGED <<counted, blocks, events, planned, parsed, turning, mode,
                 flagged, at, line, copy, lines, goal>>

(* Before the interrupt is enabled some segments are cut, unless what is left
   of the last motion fills the buffer. *)
st_wake_up(plan) ==
  /\ CutSegment(plan) \/ (Segmented /\ UNCHANGED <<discarded, prepped>>)
  /\ turning' = TRUE

StartCycle ==
  /\ at \in {"main", "line"} /\ "RESET" \notin flagged
  /\ mode = "IDLE" /\ plan_get_current_block
  /\ mode' = "CYCLE" /\ st_wake_up(blocks)
  /\ UNCHANGED <<counted, blocks, events, planned, parsed, flagged, at, line,
                 copy, lines, goal>>

(* A motion is over.  After a jog cancel the rest of the plan and of the
   segments is dropped; else segments cut too late for the interrupt stay. *)
EndCycle ==
  /\ Looks /\ "RESET" \notin flagged /\ "CYCLE_STOP" \in flagged
  /\ flagged' = flagged \ {"CYCLE_STOP"}
  /\ mode' = "IDLE"
  /\ IF mode = "CANCEL"
     THEN /\ blocks' = << >> /\ events' = 0 /\ discarded' = 0 /\ prepped' = 0
          /\ turning' = FALSE
          /\ Sync
          /\ goal' = [axis \in XY |-> Sub * Twice(counted, axis)]
     ELSE UNCHANGED <<blocks, events, discarded, prepped, turning, planned,
                      parsed, goal>>
  /\ UNCHANGED <<counted, at, line, copy, lines>>

(* The jog cancel character, and any hold in a jog. *)
JogCancel ==
  /\ at \in {"main", "line"} /\ "RESET" \notin flagged
  /\ mode = "JOG"
  /\ mode' = "CANCEL"
  /\ UNCHANGED <<motion, planned, parsed, turning, flagged, at, line, copy,
                 lines, goal>>

(* A reset: main drops the plan, the line and the stepper's queue. *)
Restart ==
  /\ at = "abort" \/ (Looks /\ "RESET" \in flagged)
  /\ mode' = IF mode = "ALARM" \/ "ALARM" \in flagged THEN "ALARM" ELSE "IDLE"
  /\ flagged' = {} /\ turning' = FALSE
  /\ blocks' = << >> /\ events' = 0 /\ discarded' = 0 /\ prepped' = 0
  /\ Sync
  /\ goal' = [axis \in XY |-> Sub * Twice(counted, axis)]
  /\ at' = "main" /\ line' = NoLine
  /\ UNCHANGED <<counted, copy, lines>>

-----------------------------------------------------------------------------
(* $X and $C. *)
Unlock ==
  /\ at = "main" /\ mode = "ALARM"
  /\ mode' = "IDLE"
  /\ UNCHANGED <<motion, planned, parsed, turning, flagged, at, line, copy,
                 lines, goal>>

CheckMode ==
  /\ at = "main"
  /\ \/ mode = "IDLE" /\ mode' = "CHECK" /\ UNCHANGED <<flagged, turning>>
     \/ mode = "CHECK" /\ mc_reset /\ UNCHANGED mode
  /\ UNCHANGED <<motion, planned, parsed, at, line, copy, lines, goal>>

system_check_travel_limits(target) ==
  \E axis \in XY : target[axis] > 0 \/ target[axis] < -Sub * Span

(* G90 and G91. *)
Targets == Moves \cup {[axis \in XY |-> parsed[axis] + by[axis]] : by \in Moves}

(* A G-code line that moves.  Out of the travel, it makes limits_soft_check
   wait for the cycle to end; in check mode it only moves the parser. *)
MoveLine ==
  /\ at = "main" /\ mode \in {"IDLE", "CYCLE", "CHECK"} /\ lines < MaxLines
  /\ lines' = lines + 1
  /\ \E target \in Targets :
       \/ /\ system_check_travel_limits(target)
          /\ at' = "soft" /\ line' = [to |-> target, jog |-> FALSE]
          /\ UNCHANGED parsed
       \/ /\ ~system_check_travel_limits(target) /\ mode = "CHECK"
          /\ parsed' = target /\ UNCHANGED <<at, line>>
       \/ /\ ~system_check_travel_limits(target) /\ mode # "CHECK"
          /\ at' = "line" /\ line' = [to |-> target, jog |-> FALSE]
          /\ UNCHANGED parsed
  /\ UNCHANGED <<motion, planned, turning, mode, flagged, copy, goal>>

(* $J=: one that leaves the travel is refused. *)
JogLine ==
  /\ at = "main" /\ mode \in {"IDLE", "JOG"} /\ lines < MaxLines
  /\ lines' = lines + 1
  /\ \E target \in Targets :
       /\ ~system_check_travel_limits(target)
       /\ at' = "line" /\ line' = [to |-> target, jog |-> TRUE]
  /\ UNCHANGED <<motion, planned, parsed, turning, mode, flagged, copy, goal>>

SoftHold ==
  /\ at = "soft" /\ mode = "CYCLE" /\ "RESET" \notin flagged
  /\ mode' = "HOLD"
  /\ UNCHANGED <<motion, planned, parsed, turning, flagged, at, line, copy,
                 lines, goal>>

(* mc_reset, the alarm and the abort; the parser takes the line for done. *)
SoftAlarm ==
  /\ at = "soft" /\ mode \in {"IDLE", "CHECK"}
  /\ mode' = "ALARM"
  /\ parsed' = line.to
  /\ at' = "abort"
  /\ UNCHANGED <<motion, planned, turning, flagged, line, copy, lines, goal>>

(* mc_line has found a free block: plan_buffer_line, then the parser takes the
   end point for its position, and a jog in IDLE starts.  An end point in the
   same step is no block. *)
plan_buffer_line(target) ==
  LET way == [axis \in XY |-> Lround(target[axis]) - planned[axis]]
      block == [m \in Motors |-> MotorSteps("X", way["X"])[m]
                                  + MotorSteps("Y", way["Y"])[m]]
  IN IF MotorsMax(block) = 0 THEN UNCHANGED <<blocks, planned>>
     ELSE /\ blocks' = Append(blocks, block)
          /\ planned' = [axis \in XY |-> Lround(target[axis])]

PlanLine ==
  /\ at = "line" /\ mode \notin {"HOLD", "CANCEL"}
  /\ plan_get_block_buffer_available > 0
  /\ plan_buffer_line(line.to)
  /\ parsed' = line.to
  /\ goal' = [axis \in XY |-> 2 * line.to[axis]]
  /\ IF line.jog /\ mode = "IDLE" /\ Len(blocks') > discarded
     THEN mode' = "JOG" /\ st_wake_up(blocks')
     ELSE UNCHANGED <<mode, turning, discarded, prepped>>
  /\ at' = "main" /\ line' = NoLine
  /\ UNCHANGED <<counted, events, flagged, copy, lines>>

-----------------------------------------------------------------------------
(* A status report: memcpy takes the bytes of motor A, then those of B. *)
StatusRequest ==
  /\ Looks /\ "RESET" \notin flagged
  /\ at' = "report" /\ copy' = [NoCopy EXCEPT !.back = at]
  /\ UNCHANGED <<motion, planned, parsed, turning, mode, flagged, line, lines,
                 goal>>

CopiedMotor == IF copy.bytes < 2 THEN "A" ELSE "B"
CopiedPart == IF copy.bytes % 2 = 0
              THEN counted[CopiedMotor] % BYTE
              ELSE BYTE * (counted[CopiedMotor] \div BYTE)

CopyByte ==
  /\ at = "report" /\ copy.bytes < 4
  /\ copy' = [copy EXCEPT !.bytes = @ + 1,
                          !.of[CopiedMotor] = @ + CopiedPart]
  /\ UNCHANGED <<motion, planned, parsed, turning, mode, flagged, at, line,
                 lines, goal>>

(* printFloat: to the nearest digit, a half away from zero. *)
printFloat(n) == Sign(n) * ((2 * Magnitude(n) * PerMm + StepsPerMm)
                              \div (2 * StepsPerMm))

report_realtime_status ==
  [state |-> CASE mode = "CYCLE" -> "Run" [] mode = "CANCEL" -> "Jog"
               [] OTHER -> mode,
   pos |-> [axis \in XY |->
              printFloat(ToAxis(copy.of, axis)
                         - IF ShowsMachine THEN 0 ELSE WorkOffset[axis])],
   bf |-> plan_get_block_buffer_available]

StatusSent ==
  /\ at = "report" /\ copy.bytes = 4
  /\ at' = copy.back /\ copy' = NoCopy
  /\ UNCHANGED <<motion, planned, parsed, turning, mode, flagged, line, lines,
                 goal>>

-----------------------------------------------------------------------------
PositionsNext ==
  \/ StepEvent \/ Stop \/ ResetChar \/ st_prep_buffer
  \/ StartCycle \/ EndCycle \/ JogCancel \/ Restart
  \/ Unlock \/ CheckMode \/ MoveLine \/ JogLine \/ SoftHold \/ SoftAlarm
  \/ PlanLine \/ StatusRequest \/ CopyByte \/ StatusSent

PositionsSpec == PositionsInit /\ [][PositionsNext]_positionVars

-----------------------------------------------------------------------------
(* A report that says Idle shows where the machine is, to half a step and half
   a digit; with every block free, that is where the last motion led that was
   neither cancelled nor reset, to one step - unless segments are left over,
   cut after the interrupt had stopped (see SyncExecutesAll in Realtime): the
   machine has not arrived then, and nothing in the report shows it. *)
IdleReportIsRight ==
  at = "report" /\ copy.bytes = 4 =>
    LET r == report_realtime_status
        off(axis) == IF ShowsMachine THEN 0 ELSE WorkOffset[axis]
    IN r.state = "IDLE" =>
         \A axis \in XY :
           /\ Magnitude(2 * r.pos[axis] * StepsPerMm
                        - (Twice(counted, axis) - 2 * off(axis)) * PerMm)
                <= PerMm + StepsPerMm
           /\ r.bf = BLOCK_BUFFER_SIZE - 1 /\ ~Segmented =>
                Magnitude(Sub * Twice(counted, axis) - goal[axis]) <= 2 * Sub

(* Between two lines the parser and the planner speak of the same place. *)
ParserAndPlannerAgree ==
  at = "main" /\ mode # "CHECK" /\ "RESET" \notin flagged =>
    \A axis \in XY : planned[axis] = Lround(parsed[axis])

(* The machine stays in its travel, but for half a step. *)
WithinTravel ==
  \A axis \in XY : Twice(counted, axis) \in -(2 * Span + 1) .. 1

(* The machine is where it was sent, wherever cancels, resets, soft limits and
   check mode have left the copies of its position: a report that says Idle is
   right to a step and half a digit, the parser and the planner go on from the
   same place, and no line or jog leads out of the travel. *)
PlaceIsKept == IdleReportIsRight /\ ParserAndPlannerAgree /\ WithinTravel
=============================================================================

------------------------------ MODULE Planner ------------------------------
(***************************************************************************)
(* grbl/planner.c: the ring of planned blocks and the look-ahead that      *)
(* chooses their junction speeds, with the part of st_prep_buffer          *)
(* (grbl/stepper.c) that executes the block at the tail.  All of it runs   *)
(* in the main program; planner_recalculate is taken one loop iteration at *)
(* a time, so that its passes can be reasoned about.                       *)
(*                                                                         *)
(* Speeds are squared, as in the code, and the unit of distance is chosen  *)
(* so that 2 * acceleration = 1: over one unit of distance a squared speed *)
(* changes by one.  2*acceleration*millimeters is then the block's         *)
(* millimeters.                                                            *)
(*                                                                         *)
(* A slot that holds no queued block is shown as NoBlock.  The code leaves *)
(* the last content there.  What it makes of it shows in one case only: a  *)
(* recalculation of the empty ring, whose result is left open here (see    *)
(* RecalculateEmpty); the next recalculation may pass over such slots too, *)
(* and the plan of the queued blocks does not depend on them.              *)
(***************************************************************************)
EXTENDS Integers

CONSTANTS BLOCK_BUFFER_SIZE,
          Lengths,          \* the lengths of lines
          Junctions,        \* the speeds the angle of a junction allows
          FeedRate,         \* the programmed rate of a feed motion
          RapidRate,        \* rapid_rate, what the axes allow
          FeedOverrides,    \* factors of f_override; 1 is the default
          RapidOverrides    \* factors of r_override

ASSUME PlannerAssumption ==
  /\ BLOCK_BUFFER_SIZE \in Nat /\ BLOCK_BUFFER_SIZE >= 3
  /\ Lengths \subseteq Nat \ {0} /\ Junctions \subseteq Nat
  /\ FeedRate \in Nat \ {0} /\ RapidRate \in Nat \ {0}
  /\ FeedOverrides \subseteq Nat \ {0} /\ 1 \in FeedOverrides
  /\ RapidOverrides \subseteq Nat \ {0} /\ 1 \in RapidOverrides

VARIABLES
  block_buffer,           \* the ring
  block_buffer_tail, block_buffer_head, next_buffer_head, block_buffer_planned,
  previous_nominal_speed, \* pl.previous_nominal_speed
  pc, current,            \* planner_recalculate: the pass and its block
  f_override, r_override,
  \* stepper.c
  loaded,                 \* pl_block is not NULL
  recalculate,            \* PREP_FLAG_RECALCULATE
  decelOverride,          \* PREP_FLAG_DECEL_OVERRIDE
  current_speed, exit_speed,  \* of prep
  cycle,                  \* segments are prepared: CYCLE, or HOLD to its stop
  hold,                   \* STEP_CONTROL_EXECUTE_HOLD
  slowed                  \* history: an override was reduced

indices == <<block_buffer_tail, block_buffer_head, next_buffer_head>>
planner == <<block_buffer, indices, block_buffer_planned,
             previous_nominal_speed, pc, current>>
overrides == <<f_override, r_override, slowed>>
prep == <<loaded, recalculate, decelOverride, current_speed, exit_speed,
          cycle, hold>>
vars == <<planner, overrides, prep>>

Slots == 0 .. BLOCK_BUFFER_SIZE - 1

plan_next_block_index(i) == IF i + 1 = BLOCK_BUFFER_SIZE THEN 0 ELSE i + 1
plan_prev_block_index(i) == IF i = 0 THEN BLOCK_BUFFER_SIZE - 1 ELSE i - 1

Block == [millimeters : Nat, rapid : BOOLEAN, max_junction_speed : Nat,
          max_entry_speed : Nat, entry_speed : Nat]

TypeOK ==
  /\ block_buffer \in [Slots -> Block]
  /\ {block_buffer_tail, block_buffer_head, next_buffer_head,
      block_buffer_planned, current} \subseteq Slots
  /\ previous_nominal_speed \in Nat
  /\ pc \in {"idle", "recalculate", "reverse", "forward"}
  /\ f_override \in FeedOverrides /\ r_override \in RapidOverrides
  /\ loaded \in BOOLEAN /\ recalculate \in BOOLEAN
  /\ decelOverride \in BOOLEAN
  /\ current_speed \in Nat /\ exit_speed \in Nat
  /\ cycle \in BOOLEAN /\ hold \in BOOLEAN /\ slowed \in BOOLEAN

NoBlock == [millimeters |-> 0, rapid |-> FALSE, max_junction_speed |-> 0,
            max_entry_speed |-> 0, entry_speed |-> 0]

Init ==
  /\ block_buffer = [i \in Slots |-> NoBlock]
  /\ block_buffer_tail = 0 /\ block_buffer_head = 0 /\ next_buffer_head = 1
  /\ block_buffer_planned = 0
  /\ previous_nominal_speed = 0
  /\ pc = "idle" /\ current = 0
  /\ f_override = 1 /\ r_override = 1
  /\ loaded = FALSE /\ recalculate = FALSE /\ decelOverride = FALSE
  /\ current_speed = 0 /\ exit_speed = 0
  /\ cycle = FALSE /\ hold = FALSE
  /\ slowed = FALSE

IsEmpty == block_buffer_head = block_buffer_tail
plan_check_full_buffer == block_buffer_tail = next_buffer_head

AtMost(a, b) == IF a < b THEN a ELSE b
AtLeast(a, b) == IF a > b THEN a ELSE b

-----------------------------------------------------------------------------
(* plan_compute_profile_nominal_speed and plan_compute_profile_parameters. *)
NominalSpeed(b, f, r) == IF b.rapid THEN RapidRate * r
                                    ELSE AtMost(FeedRate * f, RapidRate)

MaxEntrySpeedMutant(nominal, previous, junction) == AtMost(nominal, junction)
MaxEntrySpeed(nominal, previous, junction) ==
  AtMost(AtMost(nominal, previous), junction)

(* plan_buffer_line, up to the call of planner_recalculate; mc_line calls it
   once the ring is not full. *)
PlanBufferLine(mm, rapid, junction) ==
  LET b == [NoBlock EXCEPT !.millimeters = mm, !.rapid = rapid,
                           !.max_junction_speed =
                              IF IsEmpty THEN 0 ELSE junction]
      nominal == NominalSpeed(b, f_override, r_override)
  IN /\ pc = "idle" /\ ~plan_check_full_buffer
     /\ block_buffer' =
          [block_buffer EXCEPT ![block_buffer_head] =
             [b EXCEPT !.max_entry_speed =
                MaxEntrySpeed(nominal, previous_nominal_speed,
                              b.max_junction_speed)]]
     /\ previous_nominal_speed' = nominal
     /\ block_buffer_head' = next_buffer_head
     /\ next_buffer_head' = plan_next_block_index(next_buffer_head)
     /\ pc' = "recalculate"
     /\ UNCHANGED <<block_buffer_tail, block_buffer_planned, current,
                    overrides, prep>>

(* st_update_plan_block_parameters: the block in execution is planned again
   from the speed it has now. *)
UpdateTail(blocks) ==
  IF loaded
  THEN [blocks EXCEPT ![block_buffer_tail].entry_speed = current_speed]
  ELSE blocks

NotifyStepper == /\ recalculate' = (recalculate \/ loaded)
                 /\ loaded' = FALSE

(* The reverse pass may have reached the block next to the tail. *)
ReachedTailMutant(i) == FALSE
ReachedTail(i) == plan_prev_block_index(i) = block_buffer_tail

ReverseStep(i, speed) ==
  LET blocks == [block_buffer EXCEPT ![i].entry_speed = speed]
  IN /\ current' = i
     /\ IF ReachedTail(i)
        THEN block_buffer' = UpdateTail(blocks) /\ NotifyStepper
        ELSE block_buffer' = blocks /\ UNCHANGED <<loaded, recalculate>>
     /\ UNCHANGED <<decelOverride, current_speed, exit_speed, cycle, hold>>

RecalculateSame == UNCHANGED <<indices, previous_nominal_speed, overrides>>

(* In an empty ring prev(head) is not the planned pointer: the passes run once
   around the dead slots, and leave the pointer at one of them. *)
RecalculateEmpty ==
  /\ pc = "recalculate" /\ IsEmpty
  /\ pc' = "idle"
  /\ block_buffer_planned' \in Slots
  /\ UNCHANGED <<block_buffer, current, prep>> /\ RecalculateSame

Recalculate ==
  LET last == plan_prev_block_index(block_buffer_head)
      b == block_buffer[last]
  IN /\ pc = "recalculate" /\ ~IsEmpty
     /\ IF last = block_buffer_planned
        THEN pc' = "idle" /\ UNCHANGED <<block_buffer, current, prep>>
        ELSE /\ pc' = "reverse"
             /\ ReverseStep(last, AtMost(b.max_entry_speed, b.millimeters))
     /\ UNCHANGED block_buffer_planned /\ RecalculateSame

(* The speed from which block i can slow down to the entry of its successor. *)
ReverseSpeed(i) ==
  LET b == block_buffer[i]
      next == block_buffer[current]
  IN IF b.entry_speed = b.max_entry_speed
     THEN b.entry_speed
     ELSE AtMost(next.entry_speed + b.millimeters, b.max_entry_speed)

ReversePass ==
  LET i == plan_prev_block_index(current)
  IN /\ pc = "reverse" /\ i # block_buffer_planned
     /\ ReverseStep(i, ReverseSpeed(i))
     /\ UNCHANGED <<block_buffer_planned, pc>> /\ RecalculateSame

StartForward ==
  /\ pc = "reverse" /\ plan_prev_block_index(current) = block_buffer_planned
  /\ pc' = "forward" /\ current' = block_buffer_planned
  /\ UNCHANGED <<block_buffer, block_buffer_planned, prep>> /\ RecalculateSame

(* The forward pass: the speed the next block can be entered with at most,
   and whether the plan up to it can no longer be improved. *)
BreakpointMutant(b, next, speed) == b.entry_speed < next.entry_speed
Breakpoint(b, next, speed) ==
  \/ b.entry_speed + b.millimeters < next.entry_speed
  \/ speed = next.max_entry_speed

ForwardPass ==
  LET n == plan_next_block_index(current)
      b == block_buffer[current]
      next == block_buffer[n]
      speed == AtMost(b.entry_speed + b.millimeters, next.entry_speed)
  IN /\ pc = "forward" /\ n # block_buffer_head
     /\ block_buffer' = [block_buffer EXCEPT ![n].entry_speed = speed]
     /\ block_buffer_planned' =
          IF Breakpoint(b, next, speed) THEN n ELSE block_buffer_planned
     /\ current' = n
     /\ UNCHANGED <<pc, prep>> /\ RecalculateSame

EndForward ==
  /\ pc = "forward" /\ plan_next_block_index(current) = block_buffer_head
  /\ pc' = "idle" /\ current' = 0
  /\ UNCHANGED <<block_buffer, block_buffer_planned, prep>> /\ RecalculateSame

(* plan_cycle_reinitialize, up to the call of planner_recalculate. *)
Reinitialize(blocks) ==
  /\ block_buffer' = UpdateTail(blocks)
  /\ NotifyStepper
  /\ block_buffer_planned' = block_buffer_tail
  /\ pc' = "recalculate"
  /\ UNCHANGED <<indices, current>>

(* An override character, applied by protocol_exec_rt_system in every state
   of the machine: plan_update_velocity_profile_parameters, then the whole
   plan again. *)
Count == IF block_buffer_head >= block_buffer_tail
         THEN block_buffer_head - block_buffer_tail
         ELSE BLOCK_BUFFER_SIZE - (block_buffer_tail - block_buffer_head)
Offset(i) == IF i >= block_buffer_tail
             THEN i - block_buffer_tail
             ELSE BLOCK_BUFFER_SIZE - (block_buffer_tail - i)
Queued(i) == Offset(i) < Count

SOME_LARGE_VALUE == 1000000

UpdatedProfiles(f, r) ==
  [i \in Slots |->
     LET b == block_buffer[i]
         previous == IF i = block_buffer_tail THEN SOME_LARGE_VALUE
                     ELSE NominalSpeed(block_buffer[plan_prev_block_index(i)],
                                       f, r)
     IN IF ~Queued(i) THEN b
        ELSE [b EXCEPT !.max_entry_speed =
                MaxEntrySpeed(NominalSpeed(b, f, r), previous,
                              b.max_junction_speed)]]

Override(f, r) ==
  /\ pc = "idle" /\ <<f, r>> # <<f_override, r_override>>
  /\ f_override' = f /\ r_override' = r
  /\ slowed' = (slowed \/ f < f_override \/ r < r_override)
  /\ previous_nominal_speed' =
       IF IsEmpty THEN SOME_LARGE_VALUE
       ELSE NominalSpeed(
              block_buffer[plan_prev_block_index(block_buffer_head)], f, r)
  /\ Reinitialize(UpdatedProfiles(f, r))
  /\ UNCHANGED <<decelOverride, current_speed, exit_speed, cycle, hold>>

-----------------------------------------------------------------------------
(* EXEC_CYCLE_START, with a block to execute. *)
CycleStart ==
  /\ pc = "idle" /\ ~cycle /\ ~IsEmpty
  /\ cycle' = TRUE /\ hold' = FALSE
  /\ UNCHANGED <<planner, overrides, loaded, recalculate, decelOverride,
                 current_speed, exit_speed>>

TailBlock == block_buffer[block_buffer_tail]

(* plan_get_exec_block_exit_speed_sqr *)
PlannedExit ==
  LET n == plan_next_block_index(block_buffer_tail)
  IN IF n = block_buffer_head THEN 0 ELSE block_buffer[n].entry_speed

Nominal == NominalSpeed(TailBlock, f_override, r_override)

(* The speed at which a block that decelerates from entry is left. *)
DecelExit(entry) == AtLeast(entry - TailBlock.millimeters, 0)

(* st_prep_buffer: load the block at the tail, or compute its profile anew,
   which clears both flags, the build having no parking. *)
PrepLoad ==
  LET enforced == ~recalculate /\ (hold \/ decelOverride)
      entry == IF enforced THEN exit_speed ELSE TailBlock.entry_speed
      slowDown == /\ ~hold /\ entry > Nominal
                  /\ entry - Nominal >= TailBlock.millimeters
  IN /\ pc = "idle" /\ cycle /\ ~loaded /\ ~IsEmpty
     /\ loaded' = TRUE /\ recalculate' = FALSE
     /\ current_speed' = IF recalculate THEN current_speed ELSE entry
     /\ block_buffer' = [block_buffer EXCEPT
                           ![block_buffer_tail].entry_speed = entry]
     /\ exit_speed' = IF hold \/ slowDown
                      THEN DecelExit(entry)
                      ELSE PlannedExit
     /\ decelOverride' = slowDown
     /\ UNCHANGED <<indices, block_buffer_planned, previous_nominal_speed, pc,
                    current, overrides, cycle, hold>>

(* plan_discard_current_block pushes the planned pointer along. *)
DiscardedPlannedMutant == block_buffer_planned
DiscardedPlanned == IF block_buffer_planned = block_buffer_tail
                    THEN plan_next_block_index(block_buffer_tail)
                    ELSE block_buffer_planned

(* One unit of distance further along the profile: accelerate, cruise or
   decelerate; at the end of the block the speed is set to exit_speed. *)
SpeedAfter(left) ==
  IF left = 0 THEN exit_speed
  ELSE IF hold THEN current_speed - 1
  ELSE AtLeast(current_speed - 1,
               AtMost(AtMost(current_speed + 1, Nominal), exit_speed + left))

PrepSegment ==
  LET left == TailBlock.millimeters - 1
  IN /\ pc = "idle" /\ cycle /\ loaded
     /\ hold => current_speed > 0
     /\ current_speed' = SpeedAfter(left)
     /\ IF left > 0
        THEN /\ block_buffer' =
                  [block_buffer EXCEPT ![block_buffer_tail].millimeters = left]
             /\ UNCHANGED <<block_buffer_tail, block_buffer_planned, loaded>>
        ELSE /\ block_buffer' =
                  [block_buffer EXCEPT ![block_buffer_tail] = NoBlock]
             /\ loaded' = FALSE
             /\ block_buffer_tail' = plan_next_block_index(block_buffer_tail)
             /\ block_buffer_planned' = DiscardedPlanned
     /\ UNCHANGED <<block_buffer_head, next_buffer_head,
                    previous_nominal_speed, pc, current, overrides,
                    recalculate, decelOverride, exit_speed, cycle, hold>>

(* EXEC_CYCLE_STOP with the ring empty: the cycle is complete. *)
CycleStop ==
  /\ pc = "idle" /\ cycle /\ ~hold /\ ~loaded /\ IsEmpty
  /\ cycle' = FALSE
  /\ UNCHANGED <<planner, overrides, loaded, recalculate, decelOverride,
                 current_speed, exit_speed, hold>>

(* A feed hold: decelerate from the speed of now ... *)
FeedHold ==
  /\ pc = "idle" /\ cycle /\ ~hold
  /\ hold' = TRUE
  /\ block_buffer' = UpdateTail(block_buffer) /\ NotifyStepper
  /\ UNCHANGED <<indices, block_buffer_planned, previous_nominal_speed, pc,
                 current, overrides, decelOverride, current_speed, exit_speed,
                 cycle>>

(* ... and plan anew from the stop (EXEC_CYCLE_STOP in state HOLD). *)
HoldStop ==
  /\ pc = "idle" /\ cycle /\ hold
  /\ IsEmpty \/ (loaded /\ current_speed = 0)
  /\ cycle' = FALSE /\ hold' = FALSE
  /\ Reinitialize(block_buffer)
  /\ UNCHANGED <<previous_nominal_speed, overrides, decelOverride,
                 current_speed, exit_speed>>

(* A soft reset ends in plan_reset and st_reset. *)
Reset ==
  /\ pc = "idle"
  /\ block_buffer_tail' = 0 /\ block_buffer_head' = 0 /\ next_buffer_head' = 1
  /\ block_buffer_planned' = 0 /\ previous_nominal_speed' = 0
  /\ f_override' = 1 /\ r_override' = 1 /\ slowed' = FALSE
  /\ loaded' = FALSE /\ recalculate' = FALSE /\ decelOverride' = FALSE
  /\ current_speed' = 0 /\ exit_speed' = 0 /\ cycle' = FALSE /\ hold' = FALSE
  /\ block_buffer' = [i \in Slots |-> NoBlock]
  /\ UNCHANGED <<pc, current>>

planner_recalculate ==
  \/ RecalculateEmpty \/ Recalculate
  \/ ReversePass \/ StartForward \/ ForwardPass \/ EndForward
st_prep_buffer == PrepLoad \/ PrepSegment

Next ==
  \/ \E mm \in Lengths, rapid \in BOOLEAN, junction \in Junctions :
       PlanBufferLine(mm, rapid, junction)
  \/ planner_recalculate
  \/ \E f \in FeedOverrides, r \in RapidOverrides : Override(f, r)
  \/ CycleStart \/ st_prep_buffer \/ CycleStop \/ FeedHold \/ HoldStop
  \/ Reset

Spec == Init /\ [][Next]_vars

-----------------------------------------------------------------------------
Settled == pc = "idle"

(* In a ring that is not empty the planned pointer names one of its blocks,
   whatever sequence of lines, discards, holds, overrides and resets led
   there, so every recalculation stays within the queued blocks. *)
PlannedInRange == Settled /\ ~IsEmpty => Queued(block_buffer_planned)

(* No junction is planned faster than its angle and the nominal speeds on both
   sides allow under the overrides of now (guideline 1a). *)
JunctionsRespected ==
  Settled => \A i \in Slots :
    Queued(i) /\ i # block_buffer_tail =>
      LET b == block_buffer[i]
      IN b.entry_speed <=
           AtMost(b.max_junction_speed,
             AtMost(NominalSpeed(b, f_override, r_override),
               NominalSpeed(block_buffer[plan_prev_block_index(i)],
                            f_override, r_override)))

ExitOf(i) == LET n == plan_next_block_index(i)
             IN IF n = block_buffer_head THEN 0
                                         ELSE block_buffer[n].entry_speed

(* Each block can slow down to the speed at which the next is entered, and the
   last one to a stop (guidelines 1b and 1c), the block in execution from the
   speed it has now. *)
EntryOf(i) == IF i = block_buffer_tail /\ loaded THEN current_speed
              ELSE block_buffer[i].entry_speed
CanSlowDown(i) == EntryOf(i) <= ExitOf(i) + block_buffer[i].millimeters

(* The plan is as fast as the guidelines allow and no faster: every block can
   slow down in time, and its entry is at its limit, or as fast as its
   predecessor can accelerate to, or the fastest from which it can slow
   down. *)
PlanIsOptimal ==
  Settled /\ ~slowed => \A i \in Slots : Queued(i) =>
    /\ CanSlowDown(i)
    /\ ~hold /\ i # block_buffer_tail =>
         LET b == block_buffer[i]
             p == plan_prev_block_index(i)
         IN \/ b.entry_speed = b.max_entry_speed
            \/ b.entry_speed = EntryOf(p) + block_buffer[p].millimeters
            \/ b.entry_speed = ExitOf(i) + b.millimeters

(* The profile in execution ends at the speed at which the plan enters the
   next block: a planner that changes that speed always tells the stepper. *)
StepperKnowsExit ==
  Settled /\ loaded /\ ~hold /\ ~decelOverride => exit_speed = PlannedExit

(* The speed of the machine never changes faster than the acceleration allows,
   in particular not from one block to the next, as long as no override has
   been reduced. *)
NoSpeedJump ==
  [][st_prep_buffer /\ ~slowed =>
       current_speed' \in current_speed - 1 .. current_speed + 1]_vars
=============================================================================

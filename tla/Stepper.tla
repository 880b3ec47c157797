------------------------------ MODULE Stepper ------------------------------
(***************************************************************************)
(* The stepper driver, grbl/stepper.c: st_prep_buffer cuts the planner's   *)
(* blocks into segments, the timer interrupt takes the segments from a     *)
(* ring and turns them into step pulses with Bresenham's algorithm.  The   *)
(* block data an interrupt needs lives in a second ring, st_block_buffer,  *)
(* one slot smaller than the ring of segments.  The interrupt fires        *)
(* between any two accesses of the main program to what they share, and    *)
(* may outrun it.                                                          *)
(*                                                                         *)
(* Distances are counted in quarters of a step event, so that a segment    *)
(* may end between two steps; where it ends within its block is the        *)
(* velocity profile's choice, which is left open up to the exit conditions *)
(* of the loop that computes it (module Planner has the speeds).  Left     *)
(* out: parking, the homing cycle's system motions, PWM and timer rates.   *)
(***************************************************************************)
EXTENDS Integers, Sequences, FiniteSetsExt

CONSTANTS Blocks,              \* blocks a planner may hold: [steps, dir]
          SEGMENT_BUFFER_SIZE, \* 6 in stepper.h
          MAX_AMASS_LEVEL,     \* 3 in stepper.c
          MaxBlocks            \* bound: blocks added after a reset

Axes == 1 .. 2
Fine == 2 ^ MAX_AMASS_LEVEL
Quarter == 4                   \* units of distance per step event
ReqIncrement == 5              \* REQ_MM_INCREMENT_SCALAR, 1.25 steps
TickLimit == 65536             \* n_step is a uint16_t

ASSUME StepperAssumption ==
  /\ SEGMENT_BUFFER_SIZE \in Nat /\ SEGMENT_BUFFER_SIZE >= 3
  /\ MAX_AMASS_LEVEL \in Nat \ {0} /\ MaxBlocks \in Nat
  /\ Blocks \subseteq [steps : [Axes -> Nat], dir : [Axes -> {1, -1}]]
  /\ \A b \in Blocks : \E a \in Axes : b.steps[a] # 0  \* else: "empty block"

(* What the provers do not know of powers. *)
ASSUME AmassAssumption ==
  /\ \A n \in 0 .. MAX_AMASS_LEVEL :
       2 ^ n \in Nat \ {0} /\ Fine = 2 ^ n * 2 ^ (MAX_AMASS_LEVEL - n)
  /\ Fine % 2 = 0

VARIABLES
  plan,            \* planner blocks: [id, block, mm] with mm still to prepare
  ctl,             \* protocol.c: sys.state, step_control, EXEC_CYCLE_STOP
  pc, rest,        \* main program; mm_remaining of the segment in hand
  prep,            \* st_prep_t and pl_block
  st_block_buffer, segment_buffer, head, tail,
  st,              \* stepper_t, and whether the timer interrupt is on
  position,        \* sys_position
  \* history
  motor,           \* where the pulses have taken the motors
  lost,            \* the steppers were killed in motion
  exec,            \* the block in execution, its start, the fine steps done
  added            \* blocks added since the reset

shared == <<st_block_buffer, segment_buffer, head, tail>>
vars == <<plan, ctl, pc, rest, prep, shared, st, position, motor, lost, exec,
          added>>

StepEvents(b) == Max({b.steps[a] : a \in Axes})
Slots == 0 .. SEGMENT_BUFFER_SIZE - 2
Zero == [a \in Axes |-> 0]
NoBlock == [steps |-> Zero, dir |-> [a \in Axes |-> 1]]

(* segment_t: n_step counts fine steps, of the AMASS level; the block and the
   step events of it that the segment is for are history. *)
EmptySegment == [n_step |-> 0, amass |-> 0, index |-> 0,
                 id |-> 0, block |-> NoBlock, from |-> 0, to |-> 0]

(* st_reset and the memory st_reset leaves alone. *)
PrepReset == [loaded |-> FALSE, index |-> 0, steps_remaining |-> 0,
              recalculate |-> FALSE, complete |-> 0]
StReset == [on |-> FALSE, running |-> FALSE, step_count |-> 0, index |-> 0,
            counter |-> Zero, steps |-> Zero, out |-> Zero,
            dir |-> [a \in Axes |-> 1]]
CtlReset == [state |-> "IDLE", hold |-> FALSE, end |-> FALSE, stop |-> FALSE,
             starting |-> FALSE, abort |-> FALSE]

Init ==
  /\ plan = << >> /\ ctl = CtlReset /\ pc = "rt" /\ rest = 0
  /\ prep = PrepReset /\ st = StReset
  /\ st_block_buffer = [i \in Slots |-> [steps |-> Zero, count |-> 0,
                                         dir |-> NoBlock.dir]]
  /\ segment_buffer = [i \in 0 .. SEGMENT_BUFFER_SIZE - 1 |-> EmptySegment]
  /\ head = 0 /\ tail = 0
  /\ position = Zero /\ motor = Zero /\ lost = FALSE /\ added = 0
  /\ exec = [id |-> 0, block |-> NoBlock, from |-> Zero, done |-> 0]

NextSegment(i) == (i + 1) % SEGMENT_BUFFER_SIZE
NextBlockIndexMutant(i) == (i + 1) % (SEGMENT_BUFFER_SIZE - 2)
NextBlockIndex(i) == (i + 1) % (SEGMENT_BUFFER_SIZE - 1)
Queued == {i \in DOMAIN segment_buffer :
             IF tail <= head THEN tail <= i /\ i < head
                             ELSE tail <= i \/ i < head}

-----------------------------------------------------------------------------
(* st_update_plan_block_parameters: the planner has changed the block in
   preparation; its profile has to be computed anew. *)
Updated(p) == IF p.loaded THEN [p EXCEPT !.loaded = FALSE,
                                         !.recalculate = TRUE]
                          ELSE p

InMotion == ctl.state \in {"CYCLE", "HOLD", "CANCEL"}
Realtime == pc = "rt" /\ ~ctl.abort

(* The parser queues a motion; if that changes the plan of the block in
   execution, the planner says so.  An override does so, too. *)
AddBlock(b) ==
  /\ Realtime /\ ctl.state \in {"IDLE", "CYCLE"} /\ added < MaxBlocks
  /\ added' = added + 1
  /\ plan' = Append(plan, [id |-> added', block |-> b,
                           mm |-> Quarter * StepEvents(b)])
  /\ prep' \in {prep, Updated(prep)}
  /\ UNCHANGED <<ctl, pc, rest, shared, st, position, motor, lost, exec>>

Override ==
  /\ Realtime
  /\ prep' = Updated(prep)
  /\ UNCHANGED <<plan, ctl, pc, rest, shared, st, position, motor, lost, exec,
                 added>>

(* protocol_exec_rt_system: a feed hold, or a jog cancel. *)
FeedHold ==
  /\ Realtime /\ ctl.state = "CYCLE"
  /\ \E s \in {"HOLD", "CANCEL"} :
        ctl' = [ctl EXCEPT !.state = s, !.hold = TRUE, !.end = FALSE]
  /\ prep' = Updated(prep)
  /\ UNCHANGED <<plan, pc, rest, shared, st, position, motor, lost, exec,
                 added>>

CycleStart ==
  /\ Realtime
  /\ ctl.state = "IDLE" \/ (ctl.state = "HOLD" /\ ~ctl.hold)
  /\ ctl' = [ctl EXCEPT !.state = IF plan # << >> THEN "CYCLE" ELSE "IDLE",
                        !.hold = FALSE, !.end = FALSE,
                        !.starting = plan # << >>]
  /\ pc' = IF plan # << >> THEN "prep" ELSE "rt"
  /\ UNCHANGED <<plan, rest, prep, shared, st, position, motor, lost, exec,
                 added>>

Forgotten == /\ plan' = << >> /\ prep' = PrepReset /\ st' = StReset
             /\ head' = 0 /\ tail' = 0
             /\ exec' = [id |-> 0, block |-> NoBlock, from |-> position,
                         done |-> 0]
             /\ UNCHANGED <<rest, st_block_buffer, segment_buffer, position>>

CycleStop ==
  /\ Realtime /\ ctl.stop
  /\ \/ /\ ctl.state = "HOLD"
        /\ ctl' = [ctl EXCEPT !.hold = FALSE, !.stop = FALSE]
        /\ prep' = Updated(prep)
        /\ UNCHANGED <<plan, rest, shared, st, position, exec>>
     \/ /\ ctl.state = "CANCEL"
        /\ ctl' = CtlReset
        /\ Forgotten
     \/ /\ ctl.state \in {"IDLE", "CYCLE"}
        /\ ctl' = [ctl EXCEPT !.state = "IDLE", !.stop = FALSE]
        /\ UNCHANGED <<plan, rest, prep, shared, st, position, exec>>
  /\ UNCHANGED <<pc, motor, lost, added>>

(* mc_reset, called by an interrupt, stops the steppers dead; main starts over
   with whatever position they were in. *)
Kill ==
  /\ InMotion /\ ~ctl.abort
  /\ ctl' = [ctl EXCEPT !.abort = TRUE]
  /\ st' = [st EXCEPT !.on = FALSE]
  /\ lost' = TRUE
  /\ UNCHANGED <<plan, pc, rest, prep, shared, position, motor, exec, added>>

Reset ==
  /\ pc = "rt" /\ ctl.abort
  /\ ctl' = CtlReset /\ Forgotten
  /\ motor' = position /\ lost' = FALSE
  /\ UNCHANGED <<pc, added>>

Refill == /\ Realtime /\ InMotion
          /\ pc' = "prep"
          /\ UNCHANGED <<plan, ctl, rest, prep, shared, st, position, motor,
                         lost, exec, added>>

-----------------------------------------------------------------------------
(* st_prep_buffer. *)
Full == NextSegment(head) = tail
NoMore == ctl.end \/ Full \/ (~prep.loaded /\ plan = << >>)

(* It returns; cycle start then wakes the steppers up, with no pulse due. *)
PulseDueMutant == st.out
PulseDue == Zero

PrepReturns ==
  /\ pc = "prep" /\ NoMore
  /\ pc' = "rt"
  /\ ctl' = [ctl EXCEPT !.starting = FALSE]
  /\ st' = IF ctl.starting THEN [st EXCEPT !.on = TRUE, !.out = PulseDue]
                           ELSE st
  /\ UNCHANGED <<plan, rest, prep, shared, position, motor, lost, exec, added>>

(* Where the profile ends: at the end of the block, or, in a hold, where the
   machine comes to rest. *)
Completes == IF ctl.hold THEN 0 .. Head(plan).mm ELSE {0}

Bresenham(b) == [steps |-> [a \in Axes |-> b.steps[a] * Fine],
                 count |-> StepEvents(b) * Fine, dir |-> b.dir]

(* The next block of the planner is loaded into the next slot, or the profile
   of a changed one is computed anew. *)
LoadBlock ==
  /\ pc = "prep" /\ ~NoMore /\ ~prep.loaded
  /\ LET b == Head(plan).block IN
     IF prep.recalculate
     THEN /\ \E c \in Completes :
               prep' = [prep EXCEPT !.loaded = TRUE, !.recalculate = FALSE,
                                    !.complete = c]
          /\ UNCHANGED st_block_buffer
     ELSE /\ \E c \in Completes :
               prep' = [loaded |-> TRUE, index |-> NextBlockIndex(prep.index),
                        steps_remaining |-> StepEvents(b),
                        recalculate |-> FALSE, complete |-> c]
          /\ st_block_buffer' =
               [st_block_buffer EXCEPT ![prep'.index] = Bresenham(b)]
  /\ pc' = "segment"
  /\ UNCHANGED <<plan, ctl, rest, segment_buffer, head, tail, st, position,
                 motor, lost, exec, added>>

(* The distances at which the loop over the ramps may stop. *)
SegmentEnds(mm) == LET minimum == Max({mm - ReqIncrement, 0})
                   IN {m \in prep.complete .. mm :
                         m <= minimum \/ m = prep.complete}

Ceil(mm) == (mm + Quarter - 1) \div Quarter

BailMutant(n) == FALSE
Bail(n) == n = 0 /\ ctl.hold

(* One segment is computed, of DT_SEGMENT or of one step that takes longer: far
   fewer ticks than n_step can count ... *)
MakeSegment ==
  /\ pc = "segment" \/ (pc = "prep" /\ ~NoMore /\ prep.loaded)
  /\ \E m \in SegmentEnds(Head(plan).mm), level \in 0 .. MAX_AMASS_LEVEL :
       LET n == prep.steps_remaining - Ceil(m)
           total == StepEvents(Head(plan).block)
       IN /\ n * 2 ^ level < TickLimit
          /\ IF Bail(n)
             THEN /\ ctl' = [ctl EXCEPT !.end = TRUE]
                  /\ pc' = "prep"
                  /\ UNCHANGED <<rest, segment_buffer>>
             ELSE /\ segment_buffer' = [segment_buffer EXCEPT ![head] =
                       [n_step |-> n * 2 ^ level, amass |-> level,
                        index |-> prep.index, id |-> Head(plan).id,
                        block |-> Head(plan).block,
                        from |-> total - prep.steps_remaining,
                        to |-> total - Ceil(m)]]
                  /\ rest' = m
                  /\ pc' = "publish"
                  /\ UNCHANGED ctl
  /\ UNCHANGED <<plan, prep, st_block_buffer, head, tail, st, position, motor,
                 lost, exec, added>>

(* ... and handed to the interrupt. *)
PublishSegment ==
  /\ pc = "publish"
  /\ head' = NextSegment(head)
  /\ ctl' = [ctl EXCEPT !.end = @ \/ (rest > 0 /\ rest = prep.complete)]
  /\ IF rest = 0
     THEN plan' = Tail(plan)
     ELSE plan' = [plan EXCEPT ![1].mm = rest]
  /\ prep' = [prep EXCEPT !.loaded = rest > 0, !.steps_remaining = Ceil(rest)]
  /\ pc' = "prep"
  /\ UNCHANGED <<rest, st_block_buffer, segment_buffer, tail, st, position,
                 motor, lost, exec, added>>

-----------------------------------------------------------------------------
(* The stepper driver interrupt.  The pulses it has decided on go out first,
   into the direction that was set with them. *)
Pulsed == [a \in Axes |-> motor[a] + st.out[a] * st.dir[a]]

(* It takes the next segment if it has none; the counters start afresh when
   the segment's data is in another slot than the last one's. *)
Counters(g) == IF g.index = st.index THEN st.counter
               ELSE [a \in Axes |-> st_block_buffer[g.index].count \div 2]

Taken ==
  IF st.running THEN st ELSE
  LET g == segment_buffer[tail]
      b == st_block_buffer[g.index]
  IN [st EXCEPT !.running = TRUE, !.step_count = g.n_step, !.index = g.index,
                !.counter = Counters(g), !.dir = b.dir,
                !.steps = [a \in Axes |-> b.steps[a] \div 2 ^ g.amass]]

Stepped(s) ==
  LET count == st_block_buffer[s.index].count
      sum == [a \in Axes |-> s.counter[a] + s.steps[a]]
      out == [a \in Axes |-> IF sum[a] > count THEN 1 ELSE 0]
      left == (s.step_count - 1) % TickLimit
  IN [s EXCEPT !.counter = [a \in Axes |-> sum[a] - out[a] * count],
               !.out = out, !.step_count = left, !.running = left # 0]

Executed(g) ==
  LET e == IF g.id = exec.id THEN exec
           ELSE [id |-> g.id, block |-> g.block, done |-> 0,
                 from |-> [a \in Axes |-> exec.from[a]
                             + exec.block.steps[a] * exec.block.dir[a]]]
  IN [e EXCEPT !.done = @ + 2 ^ (MAX_AMASS_LEVEL - g.amass)]

StepISR ==
  /\ st.on /\ (st.running \/ head # tail)
  /\ motor' = Pulsed
  /\ st' = Stepped(Taken)
  /\ position' = [a \in Axes |-> position[a] + st'.out[a] * st'.dir[a]]
  /\ tail' = IF st'.running THEN tail ELSE NextSegment(tail)
  /\ exec' = Executed(segment_buffer[tail])
  /\ UNCHANGED <<plan, ctl, pc, rest, prep, st_block_buffer, segment_buffer,
                 head, lost, added>>

(* The ring is empty: st_go_idle, and the main program is told. *)
ShutDown ==
  /\ st.on /\ ~st.running /\ head = tail
  /\ motor' = Pulsed
  /\ st' = [st EXCEPT !.on = FALSE]
  /\ ctl' = [ctl EXCEPT !.stop = TRUE]
  /\ UNCHANGED <<plan, pc, rest, prep, shared, position, lost, exec, added>>

Next == \/ \E b \in Blocks : AddBlock(b)
        \/ Override \/ FeedHold \/ CycleStart \/ CycleStop \/ Kill \/ Reset
        \/ Refill \/ PrepReturns \/ LoadBlock \/ MakeSegment \/ PublishSegment
        \/ StepISR \/ ShutDown

Spec == Init /\ [][Next]_vars

-----------------------------------------------------------------------------
TypeOK ==
  /\ Len(plan) <= MaxBlocks
  /\ pc \in {"rt", "prep", "segment", "publish"}
  /\ ctl.state \in {"IDLE", "CYCLE", "HOLD", "CANCEL"}
  /\ prep.index \in Slots /\ st.index \in Slots
  /\ head \in DOMAIN segment_buffer /\ tail \in DOMAIN segment_buffer
  /\ {position, motor} \subseteq [Axes -> Int]
  /\ \A a \in Axes : st.out[a] \in {0, 1}

(* The tool stays on the line of the block it executes, half a step to either
   side, at every tick, at any mix of smoothing levels, across holds, changed
   plans and an interrupt that outruns the main program; and a block starts
   exactly where the blocks before it end.  A slot of st_block_buffer reused
   too early, a counter not reset or a segment with a wrong number of steps
   would move it away. *)
OnTheLine ==
  LET full == Fine * StepEvents(exec.block)
  IN /\ exec.done <= full
     /\ \A a \in Axes :
          LET made == (position[a] - exec.from[a]) * exec.block.dir[a]
              off == 2 * (made * full - exec.done * exec.block.steps[a])
          IN off <= full /\ -off <= full

(* sys_position, which is counted up when a pulse is decided on, and the
   motors, which move one tick later, agree but for that pulse: none is lost
   or sent twice when the steppers are shut down and started again, and none
   goes into the direction of the next block. *)
MotorsFollow ==
  ~lost => \A a \in Axes :
             position[a] = motor[a] + (IF st.on THEN st.out[a] * st.dir[a]
                                                ELSE 0)

(* "This ISR expects at least one step to be executed per segment": with none,
   its counter would wrap around to 65535 steps. *)
NoEmptySegment == \A i \in Queued : segment_buffer[i].n_step > 0
=============================================================================

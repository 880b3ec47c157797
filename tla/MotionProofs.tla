---------------------------- MODULE MotionProofs ----------------------------
(***************************************************************************)
(* Proofs about how the machine moves and where it is taken to be.         *)
(*                                                                         *)
(* Module Stepper: the motors follow sys_position and the tool stays on    *)
(* its line, for all blocks, rings and smoothing levels.  That no pulse is *)
(* lost hangs on the handshake of the main program and the timer           *)
(* interrupt: st_wake_up must not find the interrupt on, or the pulse it   *)
(* has decided on would be cleared before it went out.  That the tool      *)
(* stays on the line hangs on the rings: the segments on the way, and the  *)
(* block in preparation behind them, each go on where the one before ends, *)
(* and the slots of st_block_buffer they name hold their blocks.           *)
(*                                                                         *)
(* Module Positions: the inductive invariant that keeps the copies of the  *)
(* position together, and with it PlaceIsKept, for every travel, every     *)
(* fineness of the lines, every size of the planner's queue and every      *)
(* width of a byte.                                                        *)
(*                                                                         *)
(* Module Homing: the inductive invariant of the four passes of the homing *)
(* cycle, and with it HomedUnlessMisled, for every travel and pull-off,    *)
(* every homing direction and all switches.                                *)
(***************************************************************************)
EXTENDS Stepper, Positions, Homing, TLAPS

-----------------------------------------------------------------------------
(* The stepper driver.  Types. *)
Ring == 0 .. SEGMENT_BUFFER_SIZE - 1
Directions == [Axes -> {1, -1}]
Controls == [state : {"IDLE", "CYCLE", "HOLD", "CANCEL"}, hold : BOOLEAN,
             end : BOOLEAN, stop : BOOLEAN, starting : BOOLEAN,
             abort : BOOLEAN]
Preparations == [loaded : BOOLEAN, index : Slots, steps_remaining : Int,
                 recalculate : BOOLEAN, complete : Int]
Planned == [id : Nat, block : Blocks, mm : Int]
Segments == [n_step : Int, amass : Int, index : Slots, id : Int,
             block : Blocks \cup {NoBlock}, from : Int, to : Int]
SlotData == [steps : [Axes -> Int], count : Int, dir : Directions]
Drivers == [on : BOOLEAN, running : BOOLEAN, step_count : Int, index : Slots,
            counter : [Axes -> Int], steps : [Axes -> Int],
            out : [Axes -> {0, 1}], dir : Directions]
Executions == [id : Nat, block : Blocks \cup {NoBlock}, from : [Axes -> Int],
               done : Int]

-----------------------------------------------------------------------------
(* What the memory holds is in range, the slots that are not in use, too. *)
MainInRange ==
  /\ plan \in Seq(Planned) /\ ctl \in Controls
  /\ added \in Nat /\ Len(plan) <= added /\ added <= MaxBlocks
  /\ pc \in {"rt", "prep", "segment", "publish"} /\ rest \in Int
  /\ prep \in Preparations

BuffersInRange ==
  /\ head \in Ring /\ tail \in Ring
  /\ segment_buffer \in [Ring -> Segments]
  /\ st_block_buffer \in [Slots -> SlotData]

DriverInRange ==
  /\ position \in [Axes -> Int] /\ motor \in [Axes -> Int]
  /\ st \in Drivers /\ exec \in Executions

(* When the interrupt is off: at rest, in a completed hold, and from the end
   of the ring to the cycle stop, as well as while a cycle start prepares the
   first segments.  A kill leaves all of it as it is until the reset. *)
Handshake ==
  \/ ctl.abort
  \/ /\ ctl.state = "IDLE" => ~st.on /\ ~ctl.stop /\ ~ctl.starting
     /\ ctl.state = "HOLD" /\ ~ctl.hold =>
          ~st.on /\ ~ctl.stop /\ ~ctl.starting
     /\ ctl.stop => ~st.on
     /\ ctl.starting =>
          ~st.on /\ ~ctl.stop /\ pc # "rt" /\ ctl.state = "CYCLE"

KilledIsLost == ctl.abort => lost
HoldHasState == ctl.hold => ctl.state \in {"HOLD", "CANCEL"}

-----------------------------------------------------------------------------
(* The planner's blocks are numbered as they come, and only the first of them
   may have been prepared in part. *)
Whole(b) == Fine * StepEvents(b)

PlanInOrder ==
  \A k \in 1 .. Len(plan) :
    /\ plan[k].id \in 1 .. added
    /\ plan[k].mm \in 1 .. Quarter * StepEvents(plan[k].block)
    /\ k > 1 => /\ plan[k].mm = Quarter * StepEvents(plan[k].block)
                /\ plan[k - 1].id < plan[k].id

Partial == prep.loaded \/ prep.recalculate
Fresh == Partial /\ prep.steps_remaining = StepEvents(plan[1].block)

PrepInOrder ==
  /\ pc \in {"segment", "publish"} =>
       prep.loaded /\ NextSegment(head) # tail
  /\ prep.loaded => ~prep.recalculate
                    /\ prep.complete \in 0 .. plan[1].mm
                    /\ (~ctl.hold => prep.complete = 0)
  /\ Partial => /\ plan # << >>
                /\ prep.steps_remaining = Ceil(plan[1].mm)
                /\ st_block_buffer[prep.index] = Bresenham(plan[1].block)
  /\ ~Partial /\ plan # << >> =>
       plan[1].mm = Quarter * StepEvents(plan[1].block)

(* A segment that is, or is about to be, in the ring. *)
Good(g) ==
  /\ g.id \in 1 .. added /\ g.block \in Blocks
  /\ g.from \in Nat /\ g.to \in Nat
  /\ g.from < g.to /\ g.to <= StepEvents(g.block)
  /\ g.amass \in 0 .. MAX_AMASS_LEVEL
  /\ g.n_step = (g.to - g.from) * 2 ^ g.amass /\ g.n_step < TickLimit
  /\ st_block_buffer[g.index] = Bresenham(g.block)

SegmentsGood ==
  /\ \A i \in Queued : Good(segment_buffer[i])
  /\ pc = "publish" =>
       LET g == segment_buffer[head]
           total == StepEvents(plan[1].block)
       IN /\ Good(g) /\ rest \in prep.complete .. plan[1].mm
          /\ g.id = plan[1].id /\ g.block = plan[1].block
          /\ g.index = prep.index
          /\ g.from = total - prep.steps_remaining
          /\ g.to = total - Ceil(rest)

(* Points on the way: fine steps into a block, with its slot.  The next one
   is the same, or the beginning of another block after the end of this. *)
Point(id, index, block, spot) ==
  [id |-> id, index |-> index, block |-> block, spot |-> spot]
Follows(p, q) ==
  IF q.id = p.id
  THEN q = p
  ELSE /\ q.index = NextBlockIndex(p.index)
       /\ p.spot = Whole(p.block) /\ q.spot = 0

Before(g) == Point(g.id, g.index, g.block, Fine * g.from)
After(g) == Point(g.id, g.index, g.block, Fine * g.to)
Driver == Point(exec.id, st.index, exec.block, exec.done)
Preparing == Point(plan[1].id, prep.index, plan[1].block,
                   Fine * (StepEvents(plan[1].block) - prep.steps_remaining))

PrevSegment(i) == IF i = 0 THEN SEGMENT_BUFFER_SIZE - 1 ELSE i - 1
Newest == IF head = tail THEN Driver ELSE After(segment_buffer[PrevSegment(head)])

Chained ==
  /\ ~st.running /\ head # tail => Follows(Driver, Before(segment_buffer[tail]))
  /\ \A i \in Queued :
       NextSegment(i) # head =>
         Follows(After(segment_buffer[i]),
                 Before(segment_buffer[NextSegment(i)]))
  /\ Partial => Follows(Newest, Preparing)
  /\ ~Partial => /\ prep.index = Newest.index
                 /\ Newest.spot = Whole(Newest.block)
                 /\ plan # << >> => Newest.id < plan[1].id
  /\ Newest.id \in 0 .. added

(* How far a slot is behind the one in preparation, and a segment from the
   head: there is at least a segment for every block. *)
Behind(x) == IF x <= prep.index THEN prep.index - x
             ELSE (prep.index - x) + (SEGMENT_BUFFER_SIZE - 1)
Ahead(i) == IF i <= head THEN head - i ELSE (head - i) + SEGMENT_BUFFER_SIZE

SlotsSuffice ==
  \A i \in Queued : Behind(segment_buffer[i].index)
                      <= IF Fresh THEN Ahead(i) ELSE Ahead(i) - 1

(* What the driver has of the segment in execution, and its counters. *)
Scale(level) == 2 ^ (MAX_AMASS_LEVEL - level)

SegmentRuns ==
  st.running =>
    LET g == segment_buffer[tail]
    IN /\ head # tail
       /\ exec.id = g.id /\ exec.block = g.block /\ st.index = g.index
       /\ st.step_count \in 1 .. g.n_step
       /\ exec.done = Fine * g.to - st.step_count * Scale(g.amass)
       /\ st.dir = g.block.dir
       /\ st.steps = [a \in Axes |-> g.block.steps[a] * Scale(g.amass)]

StepsMade(a) == (position[a] - exec.from[a]) * exec.block.dir[a]
CountersTrue ==
  LET whole == Whole(exec.block)
  IN /\ exec.done \in 0 .. whole
     /\ \A a \in Axes :
          /\ st.counter[a] \in 0 .. whole
          /\ st.counter[a] = whole \div 2 + exec.done * exec.block.steps[a]
                              - StepsMade(a) * whole
     /\ exec.block = NoBlock => position = exec.from

InRange == MainInRange /\ BuffersInRange /\ DriverInRange
PulsesInv == Handshake /\ KilledIsLost /\ HoldHasState /\ MotorsFollow
LineInv == /\ PlanInOrder /\ PrepInOrder /\ SegmentsGood /\ Chained
           /\ SlotsSuffice /\ SegmentRuns /\ CountersTrue

StepperIInv == InRange /\ PulsesInv /\ LineInv

-----------------------------------------------------------------------------
(* The constants, and what is computed of them. *)

LEMMA StepperConstants ==
  /\ SEGMENT_BUFFER_SIZE \in Nat /\ SEGMENT_BUFFER_SIZE >= 3
  /\ MAX_AMASS_LEVEL \in Nat \ {0} /\ MaxBlocks \in Nat
  /\ Blocks \subseteq [steps : [Axes -> Nat], dir : Directions]
  /\ \A b \in Blocks : b.steps[1] # 0 \/ b.steps[2] # 0
BY StepperAssumption DEF Axes, Directions

LEMMA Powers ==
  /\ Fine \in Nat \ {0} /\ 2 * (Fine \div 2) = Fine
  /\ \A n \in 0 .. MAX_AMASS_LEVEL :
       /\ 2 ^ n \in Nat \ {0} /\ Scale(n) \in Nat \ {0}
       /\ Fine = 2 ^ n * Scale(n) /\ Scale(n) <= Fine
<1>1. \A n \in 0 .. MAX_AMASS_LEVEL : MAX_AMASS_LEVEL - n \in 0 .. MAX_AMASS_LEVEL
  BY StepperConstants
<1>2. ASSUME NEW n \in 0 .. MAX_AMASS_LEVEL
      PROVE  /\ 2 ^ n \in Nat \ {0} /\ Scale(n) \in Nat \ {0}
             /\ Fine = 2 ^ n * Scale(n)
  BY <1>1, AmassAssumption DEF Scale
<1>3. \A p, q \in Nat \ {0} : p * q \in Nat \ {0} /\ q <= p * q
  OBVIOUS
<1>4. Fine \in Nat \ {0}
  BY <1>2, <1>3, StepperConstants
<1>5. 2 * (Fine \div 2) = Fine
  <2> HIDE DEF Fine
  <2> QED BY <1>4, AmassAssumption
<1> HIDE DEF Fine, Scale
<1> QED BY <1>2, <1>3, <1>4, <1>5

DriverBlock == [steps : [Axes -> Nat], dir : Directions]

LEMMA StepEventsAreMost ==
  ASSUME NEW b \in DriverBlock
  PROVE  /\ StepEvents(b) \in Nat
         /\ b.steps[1] \in 0 .. StepEvents(b) /\ b.steps[2] \in 0 .. StepEvents(b)
         /\ StepEvents(b) \in {b.steps[1], b.steps[2]}
<1> DEFINE S == {b.steps[a] : a \in Axes}
<1>1. b.steps[1] \in Nat /\ b.steps[2] \in Nat /\ S = {b.steps[1], b.steps[2]}
  BY DEF DriverBlock, Axes
<1>2. \E x \in S : \A y \in S : x >= y
  <2> HIDE DEF S
  <2>0. b.steps[1] \in S /\ b.steps[2] \in S
    BY <1>1
  <2>1. CASE b.steps[1] >= b.steps[2]
    <3> QED BY <1>1, <2>0, <2>1
  <2>2. CASE b.steps[2] >= b.steps[1]
    <3> QED BY <1>1, <2>0, <2>2
  <2> QED BY <1>1, <2>1, <2>2
<1>3. StepEvents(b) \in S /\ \A y \in S : StepEvents(b) >= y
  BY <1>2 DEF StepEvents, Max
<1> QED BY <1>1, <1>3

LEMMA BlocksAreBlocks ==
  /\ NoBlock \in DriverBlock /\ StepEvents(NoBlock) = 0 /\ NoBlock \notin Blocks
  /\ \A b \in Blocks : b \in DriverBlock /\ StepEvents(b) \in Nat \ {0}
  /\ \A b \in Blocks : Whole(b) \in Nat \ {0}
  /\ Whole(NoBlock) = 0
<1>1. /\ NoBlock \in DriverBlock
      /\ \A a \in Axes : NoBlock.steps[a] = 0
  BY DEF NoBlock, DriverBlock, Zero, Directions
<1>2. StepEvents(NoBlock) = 0
  BY <1>1, StepEventsAreMost DEF Axes
<1>3. ASSUME NEW b \in Blocks
      PROVE  b \in DriverBlock /\ StepEvents(b) \in Nat \ {0} /\ b # NoBlock
  BY <1>1, StepperConstants, StepEventsAreMost DEF DriverBlock, Axes
<1>4. \A p, q \in Nat \ {0} : p * q \in Nat \ {0}
  OBVIOUS
<1>5. \A b \in Blocks : Whole(b) \in Nat \ {0}
  BY <1>3, <1>4, Powers DEF Whole
<1>6. Whole(NoBlock) = 0
  BY <1>2, Powers DEF Whole
<1>7. NoBlock \notin Blocks
  BY <1>3
<1> QED BY <1>1, <1>2, <1>3, <1>5, <1>6, <1>7

(* Arithmetic on the two rings. *)
LEMMA NextInRing ==
  ASSUME NEW i \in Ring
  PROVE  /\ NextSegment(i) = IF i = SEGMENT_BUFFER_SIZE - 1 THEN 0 ELSE i + 1
         /\ NextSegment(i) \in Ring /\ NextSegment(i) # i
         /\ PrevSegment(i) \in Ring
         /\ NextSegment(PrevSegment(i)) = i /\ PrevSegment(NextSegment(i)) = i
<1>1. NextSegment(i) = IF i = SEGMENT_BUFFER_SIZE - 1 THEN 0 ELSE i + 1
  BY StepperConstants DEF NextSegment, Ring
<1>2. PrevSegment(i) \in Ring
  BY StepperConstants DEF PrevSegment, Ring
<1>3. NextSegment(PrevSegment(i)) = IF PrevSegment(i) = SEGMENT_BUFFER_SIZE - 1
                                    THEN 0 ELSE PrevSegment(i) + 1
  BY <1>2, StepperConstants DEF NextSegment, Ring
<1> QED BY <1>1, <1>2, <1>3, StepperConstants DEF Ring, PrevSegment

LEMMA NextInSlots ==
  ASSUME NEW i \in Slots
  PROVE  /\ NextBlockIndex(i) = IF i = SEGMENT_BUFFER_SIZE - 2 THEN 0 ELSE i + 1
         /\ NextBlockIndex(i) \in Slots /\ NextBlockIndex(i) # i
BY StepperConstants DEF NextBlockIndex, Slots

-----------------------------------------------------------------------------
(* The start, and each step. *)

LEMMA ZeroAxes == /\ Zero \in [Axes -> Int] /\ Zero \in [Axes -> {0, 1}]
                  /\ \A a \in Axes : Zero[a] = 0
                  /\ NoBlock.dir \in Directions
                  /\ StReset \in Drivers /\ PrepReset \in Preparations
                  /\ CtlReset \in Controls
                  /\ 0 \in Slots /\ 0 \in Ring
<1>1. 0 \in Slots /\ 0 \in Ring
  BY StepperConstants DEF Slots, Ring
<1> QED BY <1>1 DEF Zero, NoBlock, Directions, StReset, PrepReset, CtlReset,
                  Drivers, Preparations, Controls, Axes

(* Nothing in the rings and nothing to prepare, after power-up or a reset. *)
LEMMA EmptyIsInLine ==
  ASSUME plan = << >>, pc = "rt", prep = PrepReset, st = StReset, head = 0,
         tail = 0, added \in Nat, position \in [Axes -> Int],
         DOMAIN segment_buffer = Ring,
         exec = [id |-> 0, block |-> NoBlock, from |-> position, done |-> 0]
  PROVE  LineInv
<1>0. Queued = {}
  BY DEF Queued, Ring
<1>1. /\ Len(plan) = 0 /\ Queued = {} /\ ~Partial
      /\ prep.index = 0 /\ ~prep.loaded /\ st.index = 0 /\ ~st.running
      /\ st.counter = Zero
      /\ exec.id = 0 /\ exec.block = NoBlock /\ exec.done = 0
      /\ exec.from = position
  BY <1>0 DEF PrepReset, StReset, Partial
<1>2. Whole(NoBlock) = 0
  BY BlocksAreBlocks
<1>3. PlanInOrder /\ PrepInOrder /\ SegmentsGood /\ SlotsSuffice /\ SegmentRuns
  BY <1>1 DEF PlanInOrder, PrepInOrder, SegmentsGood, SlotsSuffice, SegmentRuns
<1>4. Newest = Point(0, 0, NoBlock, 0)
  BY <1>1 DEF Newest, Driver
<1>5. Chained
  BY <1>1, <1>2, <1>4 DEF Chained, Point
<1>6. CountersTrue
  <2>1. \A a \in Axes : st.counter[a] = 0 /\ exec.block.steps[a] = 0
                        /\ exec.block.dir[a] = 1 /\ StepsMade(a) = 0
    BY <1>1 DEF Zero, NoBlock, StepsMade
  <2>2. Whole(exec.block) = 0 /\ 0 = 0 \div 2 + 0 * 0 - 0 * 0
    BY <1>1, <1>2
  <2>3. ASSUME NEW a \in Axes
        PROVE  /\ st.counter[a] \in 0 .. Whole(exec.block)
               /\ st.counter[a] = Whole(exec.block) \div 2
                     + exec.done * exec.block.steps[a] - StepsMade(a) * Whole(exec.block)
    <3>1. /\ st.counter[a] = 0 /\ exec.done = 0 /\ Whole(exec.block) = 0
          /\ exec.block.steps[a] = 0 /\ StepsMade(a) = 0
      BY <1>1, <2>1, <2>2
    <3>2. Whole(exec.block) \div 2 = 0
      <4>1. 0 \div 2 = 0
        OBVIOUS
      <4> QED BY <3>1, <4>1, Zenon
    <3>3. exec.done * exec.block.steps[a] = 0 /\ StepsMade(a) * Whole(exec.block) = 0
      BY <3>1
    <3> HIDE DEF StepsMade
    <3> QED BY <3>1, <3>2, <3>3
  <2> QED BY <1>1, <2>2, <2>3 DEF CountersTrue
<1> QED BY <1>3, <1>5, <1>6 DEF LineInv

LEMMA ResetIsInLine ==
  ASSUME plan' = << >>, pc' = "rt", prep' = PrepReset, st' = StReset,
         head' = 0, tail' = 0, added' \in Nat, position' \in [Axes -> Int],
         DOMAIN segment_buffer' = Ring,
         exec' = [id |-> 0, block |-> NoBlock, from |-> position', done |-> 0]
  PROVE  LineInv'
<1>0. Queued' = {}
  BY DEF Queued, Ring
<1>1. /\ Len(plan') = 0 /\ Queued' = {} /\ ~Partial'
      /\ prep'.index = 0 /\ ~prep'.loaded /\ st'.index = 0 /\ ~st'.running
      /\ st'.counter = Zero
      /\ exec'.id = 0 /\ exec'.block = NoBlock /\ exec'.done = 0
      /\ exec'.from = position'
  BY <1>0 DEF PrepReset, StReset, Partial
<1>2. Whole(NoBlock) = 0
  BY BlocksAreBlocks
<1>3. PlanInOrder' /\ PrepInOrder' /\ SegmentsGood' /\ SlotsSuffice' /\ SegmentRuns'
  BY <1>1 DEF PlanInOrder, PrepInOrder, SegmentsGood, SlotsSuffice, SegmentRuns
<1>4. Newest' = Point(0, 0, NoBlock, 0)
  BY <1>1 DEF Newest, Driver
<1>5. Chained'
  BY <1>1, <1>2, <1>4 DEF Chained, Point
<1>6. CountersTrue'
  <2>1. \A a \in Axes : st'.counter[a] = 0 /\ exec'.block.steps[a] = 0
                        /\ exec'.block.dir[a] = 1 /\ StepsMade(a)' = 0
    BY <1>1 DEF Zero, NoBlock, StepsMade
  <2>2. Whole(exec'.block) = 0 /\ 0 = 0 \div 2 + 0 * 0 - 0 * 0
    BY <1>1, <1>2
  <2>3. ASSUME NEW a \in Axes
        PROVE  /\ st'.counter[a] \in 0 .. Whole(exec'.block)
               /\ st'.counter[a] = Whole(exec'.block) \div 2
                     + exec'.done * exec'.block.steps[a] - StepsMade(a)' * Whole(exec'.block)
    <3>1. /\ st'.counter[a] = 0 /\ exec'.done = 0 /\ Whole(exec'.block) = 0
          /\ exec'.block.steps[a] = 0 /\ StepsMade(a)' = 0
      BY <1>1, <2>1, <2>2
    <3>2. Whole(exec'.block) \div 2 = 0
      <4>1. 0 \div 2 = 0
        OBVIOUS
      <4> QED BY <3>1, <4>1, Zenon
    <3>3. exec'.done * exec'.block.steps[a] = 0 /\ StepsMade(a)' * Whole(exec'.block) = 0
      BY <3>1
    <3> HIDE DEF StepsMade
    <3> QED BY <3>1, <3>2, <3>3
  <2> QED BY <1>1, <2>2, <2>3 DEF CountersTrue
<1> QED BY <1>3, <1>5, <1>6 DEF LineInv

LEMMA StepperInitHolds == Init => StepperIInv
<1> SUFFICES ASSUME Init PROVE StepperIInv
  OBVIOUS
<1>1. MainInRange
  BY ZeroAxes, StepperConstants DEF Init, MainInRange
<1>2. BuffersInRange
  <2>1. EmptySegment \in Segments
    BY ZeroAxes DEF EmptySegment, Segments
  <2>2. [steps |-> Zero, count |-> 0, dir |-> NoBlock.dir] \in SlotData
    BY ZeroAxes DEF SlotData
  <2> QED BY <2>1, <2>2, ZeroAxes DEF Init, BuffersInRange, Ring
<1>3. DriverInRange
  BY ZeroAxes DEF Init, DriverInRange, Executions
<1>4. PulsesInv
  BY ZeroAxes DEF Init, PulsesInv, Handshake, KilledIsLost, MotorsFollow,
                  CtlReset, StReset
<1>5. LineInv
  BY <1>2, <1>3, ZeroAxes, EmptyIsInLine DEF Init, BuffersInRange, DriverInRange
<1> QED BY <1>1, <1>2, <1>3, <1>4, <1>5 DEF StepperIInv, InRange

(* What the line of the tool does not depend on: whether the interrupt is on,
   its pulse that is due, and the motors. *)
SameDriver ==
  /\ st'.running = st.running /\ st'.step_count = st.step_count
  /\ st'.index = st.index /\ st'.counter = st.counter
  /\ st'.steps = st.steps /\ st'.dir = st.dir
SamePrep ==
  /\ prep'.index = prep.index /\ prep'.steps_remaining = prep.steps_remaining
  /\ Partial' <=> Partial

LEMMA QuietKeepsLine ==
  ASSUME LineInv, SameDriver, SamePrep,
         pc' = "publish" => pc = "publish" /\ prep' = prep,
         UNCHANGED <<plan, rest, shared, position, exec, added>>, PrepInOrder'
  PROVE  LineInv'
<1> USE DEF shared
<1>1. PlanInOrder'
  BY DEF LineInv, PlanInOrder
<1>2. Queued' = Queued
  BY DEF Queued
<1>3. SegmentsGood'
  BY <1>2, Zenon DEF LineInv, SegmentsGood, Good, SamePrep
<1>4. /\ Driver' = Driver /\ Newest' = Newest
      /\ (plan # << >> => Preparing' = Preparing)
  BY DEF Driver, Newest, Preparing, SameDriver, SamePrep, After
<1>5. Chained'
  BY <1>2, <1>4 DEF LineInv, Chained, SameDriver, SamePrep, PrepInOrder
<1>6. SlotsSuffice'
  BY <1>2 DEF LineInv, SlotsSuffice, SamePrep, Fresh, Behind, Ahead
<1>7. SegmentRuns'
  BY DEF LineInv, SegmentRuns, SameDriver
<1>8. CountersTrue'
  BY DEF LineInv, CountersTrue, SameDriver, StepsMade
<1> QED BY <1>1, <1>3, <1>5, <1>6, <1>7, <1>8 DEF LineInv

-----------------------------------------------------------------------------
(* The steps that leave the rings alone. *)

LEMMA UpdatedIsSame ==
  ASSUME InRange, PrepInOrder, prep' \in {prep, Updated(prep)}
  PROVE  /\ SamePrep /\ prep' \in Preparations
         /\ prep'.loaded => prep' = prep
         /\ ~(prep'.loaded /\ prep'.recalculate)
<1>1. prep \in Preparations /\ ~(prep.loaded /\ prep.recalculate)
  BY DEF InRange, MainInRange, PrepInOrder
<1>2. CASE prep' = prep
  BY <1>1, <1>2 DEF SamePrep, Partial
<1>3. CASE prep' = Updated(prep)
  <2>1. CASE ~prep.loaded
    BY <1>1, <1>3, <2>1 DEF Updated, SamePrep, Partial
  <2>2. CASE prep.loaded
    <3>1. prep' = [prep EXCEPT !.loaded = FALSE, !.recalculate = TRUE]
      BY <1>3, <2>2 DEF Updated
    <3>2. /\ prep' \in Preparations
          /\ prep'.index = prep.index /\ prep'.loaded = FALSE
          /\ prep'.recalculate = TRUE
          /\ prep'.steps_remaining = prep.steps_remaining
      BY <1>1, <3>1 DEF Preparations
    <3> QED BY <2>2, <3>2 DEF SamePrep, Partial
  <2> QED BY <2>1, <2>2
<1> QED BY <1>2, <1>3

(* While the main program is not at work on a segment, the block in hand may
   become one to be computed anew. *)
LEMMA QuietPrep ==
  ASSUME PrepInOrder, SamePrep, pc' \notin {"segment", "publish"},
         UNCHANGED <<plan, st_block_buffer>>,
         ~(prep'.loaded /\ prep'.recalculate),
         prep'.loaded => prep' = prep /\ (ctl'.hold <=> ctl.hold)
  PROVE  PrepInOrder'
BY DEF PrepInOrder, SamePrep, Partial

LEMMA OverrideKeeps == StepperIInv /\ Override => StepperIInv'
<1> SUFFICES ASSUME StepperIInv, Override PROVE StepperIInv'
  OBVIOUS
<1> USE DEF StepperIInv
<1>1. /\ prep' \in {prep, Updated(prep)} /\ pc = "rt" /\ pc' = "rt"
      /\ UNCHANGED <<plan, ctl, rest, shared, st, position, motor, lost, exec,
                     added>>
  BY DEF Override, Realtime
<1>2. /\ SamePrep /\ prep' \in Preparations
      /\ prep'.loaded => prep' = prep
      /\ ~(prep'.loaded /\ prep'.recalculate)
  BY <1>1, UpdatedIsSame DEF LineInv
<1>3. InRange'
  BY <1>1, <1>2 DEF InRange, MainInRange, BuffersInRange, DriverInRange, shared
<1>4. PulsesInv'
  BY <1>1 DEF PulsesInv, Handshake, KilledIsLost, HoldHasState, MotorsFollow
<1>5. LineInv'
  <2>1. PrepInOrder'
    BY <1>1, <1>2, QuietPrep DEF LineInv, shared
  <2> QED BY <1>1, <1>2, <2>1, QuietKeepsLine DEF SameDriver
<1> QED BY <1>3, <1>4, <1>5

LEMMA FeedHoldKeeps == StepperIInv /\ FeedHold => StepperIInv'
<1> SUFFICES ASSUME StepperIInv, FeedHold PROVE StepperIInv'
  OBVIOUS
<1> USE DEF StepperIInv
<1>1. /\ prep' \in {prep, Updated(prep)} /\ prep' = Updated(prep)
      /\ pc = "rt" /\ pc' = "rt" /\ ctl.state = "CYCLE" /\ ~ctl.abort
      /\ UNCHANGED <<plan, rest, shared, st, position, motor, lost, exec, added>>
  BY DEF FeedHold, Realtime
<1>2. PICK s \in {"HOLD", "CANCEL"} :
        ctl' = [ctl EXCEPT !.state = s, !.hold = TRUE, !.end = FALSE]
  BY DEF FeedHold
<1>3. /\ ctl' \in Controls /\ ctl'.state \in {"HOLD", "CANCEL"}
      /\ ctl'.hold = TRUE /\ ctl'.stop = ctl.stop /\ ctl'.abort = ctl.abort
      /\ ctl'.starting = ctl.starting
  BY <1>2 DEF InRange, MainInRange, Controls
<1>4. SamePrep /\ prep' \in Preparations /\ ~prep'.loaded
  BY <1>1, UpdatedIsSame DEF LineInv, Updated, InRange, MainInRange,
                             Preparations
<1>5. InRange'
  BY <1>1, <1>3, <1>4 DEF InRange, MainInRange, BuffersInRange, DriverInRange,
                          shared
<1>6. PulsesInv'
  BY <1>1, <1>3 DEF PulsesInv, Handshake, KilledIsLost, HoldHasState, MotorsFollow
<1>7. LineInv'
  <2>1. PrepInOrder'
    BY <1>1, <1>4, QuietPrep DEF LineInv, shared
  <2> QED BY <1>1, <1>4, <2>1, QuietKeepsLine DEF SameDriver
<1> QED BY <1>5, <1>6, <1>7

LEMMA CycleStartKeeps == StepperIInv /\ CycleStart => StepperIInv'
<1> SUFFICES ASSUME StepperIInv, CycleStart PROVE StepperIInv'
  OBVIOUS
<1> USE DEF StepperIInv
<1>1. /\ pc = "rt" /\ pc' \in {"rt", "prep"} /\ ~ctl.abort
      /\ ctl.state = "IDLE" \/ (ctl.state = "HOLD" /\ ~ctl.hold)
      /\ UNCHANGED <<plan, rest, prep, shared, st, position, motor, lost, exec,
                     added>>
      /\ plan # << >> => pc' = "prep"
  BY DEF CycleStart, Realtime
<1>2. /\ ctl' \in Controls /\ ctl'.hold = FALSE
      /\ ctl'.state = IF plan # << >> THEN "CYCLE" ELSE "IDLE"
      /\ ctl'.starting = (plan # << >>)
      /\ ctl'.stop = ctl.stop /\ ctl'.abort = ctl.abort
  BY DEF InRange, MainInRange, Controls, CycleStart
<1>3. InRange'
  BY <1>1, <1>2 DEF InRange, MainInRange, BuffersInRange, DriverInRange, shared
<1>4. PulsesInv'
  <2>1. ~st.on /\ ~ctl.stop
    BY <1>1 DEF PulsesInv, Handshake
  <2>2. Handshake'
    BY <1>1, <1>2, <2>1 DEF Handshake
  <2>3. KilledIsLost' /\ HoldHasState' /\ MotorsFollow'
    BY <1>1, <1>2 DEF PulsesInv, KilledIsLost, HoldHasState, MotorsFollow
  <2> QED BY <2>2, <2>3 DEF PulsesInv
<1>5. LineInv'
  <2>1. PrepInOrder'
    <3>1. prep.loaded /\ ~ctl.hold => prep.complete = 0
      BY DEF LineInv, PrepInOrder
    <3>2. prep.loaded => ~ctl.hold
      BY <1>1 DEF PulsesInv, HoldHasState
    <3> QED BY <1>1, <1>2, <3>1, <3>2 DEF LineInv, PrepInOrder, shared, Partial
  <2> QED BY <1>1, <2>1, QuietKeepsLine DEF SameDriver, SamePrep, Partial
<1> QED BY <1>3, <1>4, <1>5

LEMMA CycleStopKeeps == StepperIInv /\ CycleStop => StepperIInv'
<1> SUFFICES ASSUME StepperIInv, CycleStop PROVE StepperIInv'
  OBVIOUS
<1> USE DEF StepperIInv
<1>1. /\ pc = "rt" /\ ~ctl.abort /\ ctl.stop /\ ~st.on
      /\ UNCHANGED <<pc, motor, lost, added>>
  BY DEF CycleStop, Realtime, PulsesInv, Handshake
<1>2. CASE ctl.state = "CANCEL"
  <2>1. ctl' = CtlReset /\ Forgotten
    BY <1>2 DEF CycleStop
  <2>2. /\ plan' = << >> /\ prep' = PrepReset /\ st' = StReset
        /\ head' = 0 /\ tail' = 0
        /\ exec' = [id |-> 0, block |-> NoBlock, from |-> position, done |-> 0]
        /\ UNCHANGED <<rest, st_block_buffer, segment_buffer, position>>
    BY <2>1 DEF Forgotten
  <2>3. InRange'
    BY <1>1, <2>1, <2>2, ZeroAxes DEF InRange, MainInRange, BuffersInRange,
                                  DriverInRange, Executions
  <2>4. PulsesInv'
    BY <1>1, <2>1, <2>2 DEF PulsesInv, Handshake, KilledIsLost, HoldHasState, MotorsFollow,
                            CtlReset, StReset
  <2>5. LineInv'
    <3>1. /\ pc' = "rt" /\ added' \in Nat /\ position' \in [Axes -> Int]
          /\ DOMAIN segment_buffer' = Ring
          /\ exec' = [id |-> 0, block |-> NoBlock, from |-> position',
                      done |-> 0]
      BY <1>1, <2>2 DEF InRange, MainInRange, BuffersInRange, DriverInRange
    <3> QED BY <2>2, <3>1, ResetIsInLine
  <2> QED BY <2>3, <2>4, <2>5
<1>3. CASE ctl.state # "CANCEL"
  <2>1. /\ UNCHANGED <<plan, rest, shared, st, position, exec>>
        /\ prep' \in {prep, Updated(prep)}
        /\ \/ ctl' = [ctl EXCEPT !.hold = FALSE, !.stop = FALSE]
           \/ /\ ctl' = [ctl EXCEPT !.state = "IDLE", !.stop = FALSE]
              /\ ctl.state \in {"IDLE", "CYCLE"}
    BY <1>3 DEF CycleStop
  <2>2. /\ ctl' \in Controls /\ ctl'.stop = FALSE /\ ctl'.abort = ctl.abort
        /\ ctl'.starting = ctl.starting /\ ctl'.hold = FALSE
    <3>1. ctl.state \in {"IDLE", "CYCLE"} => ctl.hold = FALSE
      BY DEF InRange, MainInRange, Controls, PulsesInv, HoldHasState
    <3> QED BY <2>1, <3>1 DEF InRange, MainInRange, Controls
  <2>3. /\ SamePrep /\ prep' \in Preparations
        /\ prep'.loaded => prep' = prep
        /\ ~(prep'.loaded /\ prep'.recalculate)
    BY <2>1, UpdatedIsSame DEF LineInv
  <2>4. InRange'
    BY <1>1, <2>1, <2>2, <2>3 DEF InRange, MainInRange, BuffersInRange,
                                  DriverInRange, shared
  <2>5. PulsesInv'
    BY <1>1, <2>1, <2>2 DEF PulsesInv, Handshake, KilledIsLost, HoldHasState, MotorsFollow
  <2>6. LineInv'
    <3>1. prep'.loaded => (ctl'.hold <=> ctl.hold)
      <4>1. CASE ctl.state = "HOLD"
        <5>1. prep' = Updated(prep)
          BY <4>1 DEF CycleStop
        <5>2. ~prep'.loaded
          BY <5>1 DEF Updated, InRange, MainInRange, Preparations
        <5> QED BY <5>2
      <4>2. CASE ctl.state # "HOLD"
        <5>1. ctl' = [ctl EXCEPT !.state = "IDLE", !.stop = FALSE]
          BY <1>3, <4>2 DEF CycleStop
        <5>2. ctl'.hold = ctl.hold
          BY <5>1 DEF InRange, MainInRange, Controls
        <5> QED BY <5>2
      <4> QED BY <4>1, <4>2
    <3>2. PrepInOrder'
      BY <1>1, <2>1, <2>3, <3>1, QuietPrep DEF LineInv, shared
    <3> QED BY <1>1, <2>1, <2>3, <3>2, QuietKeepsLine DEF SameDriver
  <2> QED BY <2>4, <2>5, <2>6
<1> QED BY <1>2, <1>3

LEMMA KillKeeps == StepperIInv /\ Kill => StepperIInv'
<1> SUFFICES ASSUME StepperIInv, Kill PROVE StepperIInv'
  OBVIOUS
<1> USE DEF StepperIInv
<1>1. /\ ctl' = [ctl EXCEPT !.abort = TRUE] /\ st' = [st EXCEPT !.on = FALSE]
      /\ lost' = TRUE
      /\ UNCHANGED <<plan, pc, rest, prep, shared, position, motor, exec, added>>
  BY DEF Kill
<1>2. /\ ctl' \in Controls /\ ctl'.abort = TRUE /\ ctl'.hold = ctl.hold
      /\ st' \in Drivers /\ SameDriver
  BY <1>1 DEF InRange, MainInRange, DriverInRange, Controls, Drivers, SameDriver
<1>3. InRange'
  BY <1>1, <1>2 DEF InRange, MainInRange, BuffersInRange, DriverInRange, shared
<1>4. PulsesInv'
  BY <1>1, <1>2 DEF PulsesInv, Handshake, KilledIsLost, HoldHasState, MotorsFollow
<1>5. LineInv'
  <2>1. PrepInOrder'
    BY <1>1, <1>2 DEF LineInv, PrepInOrder, shared, Partial
  <2> QED BY <1>1, <1>2, <2>1, QuietKeepsLine DEF SamePrep, Partial
<1> QED BY <1>3, <1>4, <1>5

LEMMA ResetKeeps == StepperIInv /\ Reset => StepperIInv'
<1> SUFFICES ASSUME StepperIInv, Reset PROVE StepperIInv'
  OBVIOUS
<1> USE DEF StepperIInv
<1>1. /\ plan' = << >> /\ prep' = PrepReset /\ st' = StReset
      /\ head' = 0 /\ tail' = 0 /\ ctl' = CtlReset
      /\ exec' = [id |-> 0, block |-> NoBlock, from |-> position, done |-> 0]
      /\ UNCHANGED <<rest, st_block_buffer, segment_buffer, position, pc, added>>
      /\ pc = "rt" /\ motor' = position /\ lost' = FALSE
  BY DEF Reset, Forgotten
<1>2. InRange'
  BY <1>1, ZeroAxes DEF InRange, MainInRange, BuffersInRange, DriverInRange,
                        Executions
<1>3. PulsesInv'
  BY <1>1 DEF PulsesInv, Handshake, KilledIsLost, HoldHasState, MotorsFollow,
              CtlReset, StReset, InRange, DriverInRange
<1>4. LineInv'
  <2>1. /\ pc' = "rt" /\ added' \in Nat /\ position' \in [Axes -> Int]
        /\ DOMAIN segment_buffer' = Ring
        /\ exec' = [id |-> 0, block |-> NoBlock, from |-> position', done |-> 0]
    BY <1>1 DEF InRange, MainInRange, BuffersInRange, DriverInRange
  <2> QED BY <1>1, <2>1, ResetIsInLine
<1> QED BY <1>2, <1>3, <1>4

LEMMA RefillKeeps == StepperIInv /\ Refill => StepperIInv'
<1> SUFFICES ASSUME StepperIInv, Refill PROVE StepperIInv'
  OBVIOUS
<1> USE DEF StepperIInv
<1>1. /\ pc = "rt" /\ pc' = "prep"
      /\ UNCHANGED <<plan, ctl, rest, prep, shared, st, position, motor, lost,
                     exec, added>>
  BY DEF Refill, Realtime
<1>2. InRange'
  BY <1>1 DEF InRange, MainInRange, BuffersInRange, DriverInRange, shared
<1>3. PulsesInv'
  BY <1>1 DEF PulsesInv, Handshake, KilledIsLost, HoldHasState, MotorsFollow
<1>4. LineInv'
  <2>1. PrepInOrder'
    BY <1>1 DEF LineInv, PrepInOrder, shared, Partial
  <2> QED BY <1>1, <2>1, QuietKeepsLine DEF SameDriver, SamePrep, Partial
<1> QED BY <1>2, <1>3, <1>4

LEMMA PrepReturnsKeeps == StepperIInv /\ PrepReturns => StepperIInv'
<1> SUFFICES ASSUME StepperIInv, PrepReturns PROVE StepperIInv'
  OBVIOUS
<1> USE DEF StepperIInv
<1>1. /\ pc = "prep" /\ pc' = "rt"
      /\ ctl' = [ctl EXCEPT !.starting = FALSE]
      /\ st' = IF ctl.starting THEN [st EXCEPT !.on = TRUE, !.out = Zero]
                               ELSE st
      /\ UNCHANGED <<plan, rest, prep, shared, position, motor, lost, exec, added>>
  BY DEF PrepReturns, PulseDue
<1>2. /\ ctl' \in Controls /\ ctl'.starting = FALSE
      /\ ctl'.state = ctl.state /\ ctl'.hold = ctl.hold
      /\ ctl'.stop = ctl.stop /\ ctl'.abort = ctl.abort
  BY <1>1 DEF InRange, MainInRange, Controls
<1>3. /\ st' \in Drivers /\ SameDriver
      /\ ctl.starting => st'.on = TRUE /\ st'.out = Zero
      /\ ~ctl.starting => st' = st
  BY <1>1, ZeroAxes DEF InRange, DriverInRange, Drivers, SameDriver
<1>4. InRange'
  BY <1>1, <1>2, <1>3 DEF InRange, MainInRange, BuffersInRange, DriverInRange,
                          shared
<1>5. PulsesInv'
  <2>1. Handshake' /\ KilledIsLost' /\ HoldHasState'
    BY <1>1, <1>2, <1>3 DEF PulsesInv, Handshake, KilledIsLost, HoldHasState
  <2>2. MotorsFollow'
    <3>1. CASE ctl.starting /\ ~ctl.abort
      <4>1. ~st.on
        BY <3>1 DEF PulsesInv, Handshake
      <4>2. ASSUME NEW a \in Axes PROVE Zero[a] * st'.dir[a] = 0
        BY <1>3, ZeroAxes DEF Drivers, Directions
      <4> QED BY <1>1, <1>3, <3>1, <4>1, <4>2 DEF MotorsFollow, PulsesInv
    <3>2. CASE ~ctl.starting
      BY <1>1, <1>3, <3>2 DEF MotorsFollow, PulsesInv
    <3>3. CASE ctl.abort
      BY <1>1, <3>3 DEF MotorsFollow, PulsesInv, KilledIsLost
    <3> QED BY <3>1, <3>2, <3>3
  <2> QED BY <2>1, <2>2 DEF PulsesInv
<1>6. LineInv'
  <2>1. PrepInOrder'
    BY <1>1, <1>2 DEF LineInv, PrepInOrder, shared, Partial
  <2> QED BY <1>1, <1>3, <2>1, QuietKeepsLine DEF SamePrep, Partial
<1> QED BY <1>4, <1>5, <1>6

(* The pulses that go out take the motors to sys_position. *)
LEMMA PulsesReach ==
  ASSUME InRange, MotorsFollow, st.on, ~lost
  PROVE  Pulsed = position
<1>1. ASSUME NEW a \in Axes PROVE position[a] = motor[a] + st.out[a] * st.dir[a]
  BY DEF MotorsFollow
<1> QED BY <1>1 DEF Pulsed, InRange, DriverInRange

LEMMA PulsedInRange == InRange => Pulsed \in [Axes -> Int]
<1> SUFFICES ASSUME InRange, NEW a \in Axes
             PROVE  motor[a] + st.out[a] * st.dir[a] \in Int
  BY DEF Pulsed
<1>1. motor[a] \in Int /\ st.out[a] \in {0, 1} /\ st.dir[a] \in {1, -1}
  BY DEF InRange, DriverInRange, Drivers, Directions
<1> QED BY <1>1

LEMMA ShutDownKeeps == StepperIInv /\ ShutDown => StepperIInv'
<1> SUFFICES ASSUME StepperIInv, ShutDown PROVE StepperIInv'
  OBVIOUS
<1> USE DEF StepperIInv
<1>1. /\ st.on /\ motor' = Pulsed /\ st' = [st EXCEPT !.on = FALSE]
      /\ ctl' = [ctl EXCEPT !.stop = TRUE]
      /\ UNCHANGED <<plan, pc, rest, prep, shared, position, lost, exec, added>>
  BY DEF ShutDown
<1>2. /\ ctl' \in Controls /\ ctl'.starting = ctl.starting
      /\ ctl'.state = ctl.state /\ ctl'.hold = ctl.hold
      /\ ctl'.abort = ctl.abort
      /\ st' \in Drivers /\ SameDriver /\ st'.on = FALSE
  BY <1>1 DEF InRange, MainInRange, DriverInRange, Controls, Drivers, SameDriver
<1>3. InRange'
  BY <1>1, <1>2, PulsedInRange
  DEF InRange, MainInRange, BuffersInRange, DriverInRange, shared
<1>4. PulsesInv'
  <2>1. Handshake' /\ KilledIsLost' /\ HoldHasState'
    BY <1>1, <1>2 DEF PulsesInv, Handshake, KilledIsLost, HoldHasState
  <2>2. MotorsFollow'
    <3>1. ~lost => motor' = position
      BY <1>1, PulsesReach DEF PulsesInv
    <3>2. \A a \in Axes : position[a] \in Int
      BY DEF InRange, DriverInRange
    <3> QED BY <1>1, <1>2, <3>1, <3>2 DEF MotorsFollow
  <2> QED BY <2>1, <2>2 DEF PulsesInv
<1>5. LineInv'
  <2>1. PrepInOrder'
    BY <1>1, <1>2 DEF LineInv, PrepInOrder, shared, Partial
  <2> QED BY <1>1, <1>2, <2>1, QuietKeepsLine DEF SamePrep, Partial
<1> QED BY <1>3, <1>4, <1>5

-----------------------------------------------------------------------------
(* The steps along the line. *)

LEMMA FullLength ==
  ASSUME NEW b \in Blocks
  PROVE  /\ Quarter * StepEvents(b) \in Nat \ {0}
         /\ Ceil(Quarter * StepEvents(b)) = StepEvents(b)
BY BlocksAreBlocks DEF Quarter, Ceil

LEMMA AddBlockKeeps ==
  ASSUME StepperIInv, NEW b \in Blocks, AddBlock(b) PROVE StepperIInv'
<1> USE DEF StepperIInv
<1> DEFINE new == [id |-> added + 1, block |-> b, mm |-> Quarter * StepEvents(b)]
<1>1. /\ pc = "rt" /\ added < MaxBlocks /\ added' = added + 1
      /\ plan' = Append(plan, new) /\ prep' \in {prep, Updated(prep)}
      /\ UNCHANGED <<ctl, pc, rest, shared, st, position, motor, lost, exec>>
  BY DEF AddBlock, Realtime
<1>2. /\ new \in Planned /\ new.id = added + 1 /\ new.block = b
      /\ new.mm = Quarter * StepEvents(b) /\ new.mm \in Nat \ {0}
      /\ plan \in Seq(Planned) /\ added \in Nat /\ Len(plan) \in Nat
  BY FullLength DEF InRange, MainInRange, Planned
<1> HIDE DEF new
<1>3. /\ plan' \in Seq(Planned) /\ Len(plan') = Len(plan) + 1 /\ plan' # << >>
      /\ \A k \in 1 .. Len(plan) : plan'[k] = plan[k]
      /\ plan'[Len(plan) + 1] = new
      /\ plan # << >> => plan'[1] = plan[1]
      /\ plan = << >> => plan'[1] = new
  BY <1>1, <1>2
<1>4. /\ SamePrep /\ prep' \in Preparations
      /\ prep'.loaded => prep' = prep
      /\ ~(prep'.loaded /\ prep'.recalculate)
  BY <1>1, UpdatedIsSame DEF LineInv
<1>5. InRange'
  <2>1. added' \in Nat /\ Len(plan') <= added' /\ added' <= MaxBlocks
    BY <1>1, <1>2, <1>3, StepperConstants DEF InRange, MainInRange
  <2>2. MainInRange'
    BY <1>1, <1>3, <1>4, <2>1 DEF InRange, MainInRange
  <2>3. BuffersInRange' /\ DriverInRange'
    BY <1>1 DEF InRange, BuffersInRange, DriverInRange, shared
  <2> QED BY <2>2, <2>3 DEF InRange
<1>6. PulsesInv'
  BY <1>1 DEF PulsesInv, Handshake, KilledIsLost, HoldHasState, MotorsFollow
<1>7. PlanInOrder'
  <2>1. SUFFICES ASSUME NEW k \in 1 .. Len(plan) + 1
                 PROVE  /\ plan'[k].id \in 1 .. added + 1
                        /\ plan'[k].mm \in 1 .. Quarter * StepEvents(plan'[k].block)
                        /\ k > 1 => /\ plan'[k].mm
                                         = Quarter * StepEvents(plan'[k].block)
                                    /\ plan'[k - 1].id < plan'[k].id
    BY <1>1, <1>3 DEF PlanInOrder
  <2>2. CASE k \in 1 .. Len(plan)
    <3>1. k > 1 => k - 1 \in 1 .. Len(plan)
      BY <1>2, <2>2
    <3>2. plan'[k] = plan[k] /\ (k > 1 => plan'[k - 1] = plan[k - 1])
      BY <1>3, <2>2, <3>1
    <3>3. /\ plan[k].id \in 1 .. added
          /\ plan[k].mm \in 1 .. Quarter * StepEvents(plan[k].block)
          /\ k > 1 => /\ plan[k].mm = Quarter * StepEvents(plan[k].block)
                      /\ plan[k - 1].id < plan[k].id
      BY <2>2 DEF LineInv, PlanInOrder
    <3>4. plan[k].id \in 1 .. added + 1
      BY <1>2, <3>3
    <3> QED BY <3>2, <3>3, <3>4
  <2>3. CASE k = Len(plan) + 1
    <3>1. k > 1 => /\ k - 1 \in 1 .. Len(plan)
                   /\ plan[k - 1].id \in 1 .. added
      BY <1>2, <2>3 DEF LineInv, PlanInOrder
    <3>2. plan'[k] = new
      BY <1>3, <2>3
    <3>3. new.mm \in 1 .. Quarter * StepEvents(new.block)
      BY <1>2
    <3>4. k > 1 => plan'[k - 1] = plan[k - 1]
      BY <1>3, <3>1
    <3> QED BY <1>2, <3>1, <3>2, <3>3, <3>4
  <2> QED BY <1>2, <2>2, <2>3
<1>8. PrepInOrder'
  BY <1>1, <1>2, <1>3, <1>4 DEF LineInv, PrepInOrder, SamePrep, shared, Partial
<1>9. SegmentsGood'
  <2>1. Queued' = Queued
    BY <1>1 DEF Queued, shared
  <2>2. ASSUME NEW i \in Queued PROVE Good(segment_buffer[i])'
    BY <1>1, <1>2, <2>1 DEF LineInv, SegmentsGood, Good, shared
  <2> QED BY <1>1, <2>1, <2>2 DEF SegmentsGood, shared
<1>10. Partial => plan # << >>
  BY DEF LineInv, PrepInOrder
<1>11. Chained'
  <2>1. /\ Queued' = Queued /\ Driver' = Driver /\ Newest' = Newest
        /\ (Partial => Preparing' = Preparing)
    BY <1>1, <1>3, <1>4, <1>10 DEF Driver, Newest, Preparing, SamePrep, After,
                                   Queued, shared
  <2>2. /\ Newest.id \in 0 .. added
        /\ plan # << >> => plan[1].id \in 1 .. added
    BY <1>2 DEF LineInv, Chained, PlanInOrder
  <2> QED BY <1>1, <1>2, <1>3, <1>4, <2>1, <2>2 DEF LineInv, Chained, SamePrep, shared
<1>12. SlotsSuffice'
  BY <1>1, <1>3, <1>4, <1>10 DEF LineInv, SlotsSuffice, SamePrep, Fresh, Behind,
                                 Ahead, Queued, shared
<1>13. SegmentRuns' /\ CountersTrue'
  BY <1>1 DEF LineInv, SegmentRuns, CountersTrue, StepsMade, shared
<1> QED BY <1>5, <1>6, <1>7, <1>8, <1>9, <1>11, <1>12, <1>13 DEF LineInv

(* The segments in the ring, as the head and the tail move on. *)
InRing(t, h) == {i \in Ring : IF t <= h THEN t <= i /\ i < h ELSE t <= i \/ i < h}
Distance(i, h) == IF i <= h THEN h - i ELSE (h - i) + SEGMENT_BUFFER_SIZE

LEMMA RingSegments ==
  ASSUME NEW t \in Ring, NEW h \in Ring
  PROVE  /\ \A i \in InRing(t, h) : /\ i # h /\ t # h
                                    /\ Distance(i, h) \in 1 .. SEGMENT_BUFFER_SIZE - 1
                                    /\ NextSegment(h) # t =>
                                         Distance(i, h) <= SEGMENT_BUFFER_SIZE - 2
         /\ t # h => t \in InRing(t, h) /\ PrevSegment(h) \in InRing(t, h)
         /\ t = h => InRing(t, h) = {}
<1>1. /\ t \in 0 .. SEGMENT_BUFFER_SIZE - 1 /\ h \in 0 .. SEGMENT_BUFFER_SIZE - 1
      /\ SEGMENT_BUFFER_SIZE \in Nat /\ SEGMENT_BUFFER_SIZE >= 3
      /\ NextSegment(h) = IF h = SEGMENT_BUFFER_SIZE - 1 THEN 0 ELSE h + 1
  BY StepperConstants, NextInRing DEF Ring
<1> QED BY <1>1 DEF InRing, Distance, PrevSegment, Ring

LEMMA NextInQueue ==
  ASSUME NEW t \in Ring, NEW h \in Ring, NEW i \in InRing(t, h),
         NextSegment(i) # h
  PROVE  NextSegment(i) \in InRing(t, h)
<1>1. /\ t \in 0 .. SEGMENT_BUFFER_SIZE - 1 /\ h \in 0 .. SEGMENT_BUFFER_SIZE - 1
      /\ i \in 0 .. SEGMENT_BUFFER_SIZE - 1
      /\ SEGMENT_BUFFER_SIZE \in Nat /\ SEGMENT_BUFFER_SIZE >= 3
      /\ NextSegment(i) = IF i = SEGMENT_BUFFER_SIZE - 1 THEN 0 ELSE i + 1
  BY StepperConstants, NextInRing DEF Ring, InRing
<1> QED BY <1>1 DEF InRing, Ring

LEMMA HeadMoves ==
  ASSUME NEW t \in Ring, NEW h \in Ring, NextSegment(h) # t
  PROVE  /\ InRing(t, NextSegment(h)) = InRing(t, h) \cup {h}
         /\ \A i \in InRing(t, h) : Distance(i, NextSegment(h)) = Distance(i, h) + 1
         /\ Distance(h, NextSegment(h)) = 1
<1>1. /\ t \in 0 .. SEGMENT_BUFFER_SIZE - 1 /\ h \in 0 .. SEGMENT_BUFFER_SIZE - 1
      /\ SEGMENT_BUFFER_SIZE \in Nat /\ SEGMENT_BUFFER_SIZE >= 3
      /\ NextSegment(h) = IF h = SEGMENT_BUFFER_SIZE - 1 THEN 0 ELSE h + 1
  BY StepperConstants, NextInRing DEF Ring
<1> QED BY <1>1 DEF InRing, Distance, Ring

LEMMA TailMoves ==
  ASSUME NEW t \in Ring, NEW h \in Ring, t # h
  PROVE  /\ InRing(NextSegment(t), h) = InRing(t, h) \ {t}
         /\ NextSegment(h) # NextSegment(t)
<1>1. /\ t \in 0 .. SEGMENT_BUFFER_SIZE - 1 /\ h \in 0 .. SEGMENT_BUFFER_SIZE - 1
      /\ SEGMENT_BUFFER_SIZE \in Nat /\ SEGMENT_BUFFER_SIZE >= 3
      /\ NextSegment(h) = IF h = SEGMENT_BUFFER_SIZE - 1 THEN 0 ELSE h + 1
      /\ NextSegment(t) = IF t = SEGMENT_BUFFER_SIZE - 1 THEN 0 ELSE t + 1
  BY StepperConstants, NextInRing DEF Ring
<1> QED BY <1>1 DEF InRing, Ring

LEMMA QueuedIsInRing ==
  ASSUME DOMAIN segment_buffer = Ring
  PROVE  Queued = InRing(tail, head) /\ \A i : Ahead(i) = Distance(i, head)
BY DEF Queued, InRing, Ahead, Distance

LEMMA QueuedIsInRingNext ==
  ASSUME DOMAIN segment_buffer' = Ring
  PROVE  Queued' = InRing(tail', head')
         /\ \A i \in Ring : Ahead(i)' = Distance(i, head')
BY DEF Queued, InRing, Ahead, Distance

LEMMA RecalculatedKeeps ==
  ASSUME StepperIInv, LoadBlock, prep.recalculate PROVE StepperIInv'
<1> USE DEF StepperIInv
<1>1. /\ pc = "prep" /\ pc' = "segment" /\ ~NoMore /\ ~prep.loaded
      /\ UNCHANGED <<plan, ctl, rest, shared, st, position, motor, lost, exec,
                     added>>
  BY DEF LoadBlock, shared
<1>2. PICK c \in Completes :
        prep' = [prep EXCEPT !.loaded = TRUE, !.recalculate = FALSE,
                             !.complete = c]
  BY DEF LoadBlock
<1>3. /\ plan # << >> /\ plan \in Seq(Planned) /\ Head(plan) = plan[1]
      /\ plan[1].mm \in Nat \ {0}
  <2>1. plan # << >> /\ plan \in Seq(Planned)
    BY <1>1 DEF NoMore, InRange, MainInRange
  <2>2. Len(plan) \in Nat \ {0} /\ Head(plan) = plan[1]
    BY <2>1
  <2>3. plan[1] \in Planned /\ plan[1].mm \in 1 .. Quarter * StepEvents(plan[1].block)
    BY <2>1, <2>2 DEF LineInv, PlanInOrder
  <2> QED BY <2>1, <2>2, <2>3 DEF Planned
<1>4. c \in 0 .. plan[1].mm /\ (~ctl.hold => c = 0)
  BY <1>3 DEF Completes
<1>5. /\ prep' \in Preparations /\ prep'.loaded = TRUE /\ prep'.recalculate = FALSE
      /\ prep'.complete = c /\ SamePrep
  <2>1. c \in Int /\ prep \in Preparations
    BY <1>3, <1>4 DEF InRange, MainInRange
  <2>2. /\ prep' \in Preparations /\ prep'.loaded = TRUE
        /\ prep'.recalculate = FALSE /\ prep'.complete = c
        /\ prep'.index = prep.index
        /\ prep'.steps_remaining = prep.steps_remaining
    BY <1>2, <2>1 DEF Preparations
  <2> QED BY <2>2 DEF SamePrep, Partial
<1>6. InRange'
  BY <1>1, <1>5 DEF InRange, MainInRange, BuffersInRange, DriverInRange, shared
<1>7. PulsesInv'
  BY <1>1 DEF PulsesInv, Handshake, KilledIsLost, HoldHasState, MotorsFollow
<1>8. LineInv'
  <2>1. PrepInOrder'
    <3>1. Partial => /\ prep.steps_remaining = Ceil(plan[1].mm)
                     /\ st_block_buffer[prep.index] = Bresenham(plan[1].block)
      BY DEF LineInv, PrepInOrder
    <3> QED BY <1>1, <1>3, <1>4, <1>5, <3>1
        DEF PrepInOrder, SamePrep, shared, NoMore, Full, Partial
  <2> QED BY <1>1, <1>5, <2>1, QuietKeepsLine DEF SameDriver
<1> QED BY <1>6, <1>7, <1>8

LEMMA BresenhamInRange ==
  ASSUME NEW b \in Blocks PROVE Bresenham(b) \in SlotData
<1>1. b \in DriverBlock /\ StepEvents(b) \in Nat /\ Fine \in Nat
  BY BlocksAreBlocks, Powers
<1>2. \A p, q \in Nat : p * q \in Int
  OBVIOUS
<1>3. \A a \in Axes : b.steps[a] \in Nat
  BY <1>1 DEF DriverBlock
<1>4. \A a \in Axes : b.steps[a] * Fine \in Int
  BY <1>1, <1>2, <1>3
<1>5. StepEvents(b) * Fine \in Int
  BY <1>1, <1>2
<1> HIDE DEF Fine
<1> QED BY <1>1, <1>4, <1>5 DEF Bresenham, SlotData, DriverBlock

LEMMA LoadedKeeps ==
  ASSUME StepperIInv, LoadBlock, ~prep.recalculate PROVE StepperIInv'
<1> USE DEF StepperIInv
<1> DEFINE b == plan[1].block
           next == NextBlockIndex(prep.index)
<1>1. /\ pc = "prep" /\ pc' = "segment" /\ ~NoMore /\ ~prep.loaded
      /\ UNCHANGED <<plan, ctl, rest, segment_buffer, head, tail, st, position,
                     motor, lost, exec, added>>
  BY DEF LoadBlock
<1>2. /\ plan # << >> /\ plan \in Seq(Planned) /\ Head(plan) = plan[1]
      /\ plan[1].mm \in Nat \ {0} /\ b \in Blocks /\ plan[1].id \in Nat
      /\ plan[1].mm = Quarter * StepEvents(b)
  <2>1. plan # << >> /\ plan \in Seq(Planned)
    BY <1>1 DEF NoMore, InRange, MainInRange
  <2>2. Len(plan) \in Nat \ {0} /\ Head(plan) = plan[1]
    BY <2>1
  <2>3. plan[1] \in Planned /\ plan[1].mm \in 1 .. Quarter * StepEvents(plan[1].block)
    BY <2>1, <2>2 DEF LineInv, PlanInOrder
  <2>4. plan[1].mm = Quarter * StepEvents(b)
    BY <1>1, <2>1 DEF LineInv, PrepInOrder, Partial
  <2> QED BY <2>1, <2>2, <2>3, <2>4 DEF Planned
<1>3. PICK c \in Completes :
        prep' = [loaded |-> TRUE, index |-> next,
                 steps_remaining |-> StepEvents(b),
                 recalculate |-> FALSE, complete |-> c]
  BY <1>2 DEF LoadBlock
<1>4. c \in 0 .. plan[1].mm /\ (~ctl.hold => c = 0)
  BY <1>2 DEF Completes
<1>5. /\ prep.index \in Slots /\ next \in Slots /\ StepEvents(b) \in Nat \ {0}
      /\ next = IF prep.index = SEGMENT_BUFFER_SIZE - 2 THEN 0 ELSE prep.index + 1
  BY <1>2, NextInSlots, BlocksAreBlocks DEF InRange, MainInRange, Preparations
<1>6. /\ prep' \in Preparations /\ prep'.loaded = TRUE /\ prep'.recalculate = FALSE
      /\ prep'.complete = c /\ prep'.index = next
      /\ prep'.steps_remaining = StepEvents(b)
  BY <1>3, <1>4, <1>5 DEF Preparations
<1>7. st_block_buffer' = [st_block_buffer EXCEPT ![next] = Bresenham(b)]
  BY <1>2, <1>3 DEF LoadBlock
<1>8. /\ segment_buffer \in [Ring -> Segments] /\ head \in Ring /\ tail \in Ring
      /\ st_block_buffer \in [Slots -> SlotData]
      /\ Queued' = Queued /\ Queued = InRing(tail, head)
      /\ \A i \in Queued : i \in Ring
      /\ \A i : Ahead(i) = Distance(i, head) /\ Ahead(i)' = Ahead(i)
  BY <1>1, QueuedIsInRing DEF InRange, BuffersInRange, Queued, Ahead, InRing
<1> HIDE DEF b, next
(* The slot the block is loaded into is none that a segment still names. *)
<1>9. ASSUME NEW i \in Queued
      PROVE  /\ segment_buffer[i].index \in Slots
             /\ segment_buffer[i].index # next
             /\ Behind(segment_buffer[i].index)' <= Ahead(i)
  <2>1. segment_buffer[i].index \in Slots
    BY <1>8 DEF Segments
  <2>2. Behind(segment_buffer[i].index) <= Ahead(i) - 1
    BY <1>1 DEF LineInv, SlotsSuffice, Fresh, Partial
  <2>3. Ahead(i) \in 1 .. SEGMENT_BUFFER_SIZE - 2
    BY <1>1, <1>8, RingSegments, StepperConstants DEF NoMore, Full
  <2>4. Behind(segment_buffer[i].index)'
          = IF segment_buffer[i].index <= next THEN next - segment_buffer[i].index
            ELSE (next - segment_buffer[i].index) + (SEGMENT_BUFFER_SIZE - 1)
    BY <1>1, <1>6 DEF Behind
  <2>5. ASSUME NEW x \in Slots, NEW d \in 1 .. SEGMENT_BUFFER_SIZE - 2,
               Behind(x) <= d - 1
        PROVE  /\ x # next
               /\ (IF x <= next THEN next - x
                   ELSE (next - x) + (SEGMENT_BUFFER_SIZE - 1)) <= d
    BY <1>5, <2>5, StepperConstants DEF Behind, Slots
  <2> QED BY <2>1, <2>2, <2>3, <2>4, <2>5
<1>10. InRange'
  <2>1. st_block_buffer' \in [Slots -> SlotData]
    BY <1>2, <1>5, <1>7, <1>8, BresenhamInRange
  <2> QED BY <1>1, <1>6, <2>1 DEF InRange, MainInRange, BuffersInRange,
                                  DriverInRange
<1>11. PulsesInv'
  BY <1>1 DEF PulsesInv, Handshake, KilledIsLost, HoldHasState, MotorsFollow
<1>12. PlanInOrder'
  BY <1>1 DEF LineInv, PlanInOrder
<1>13. PrepInOrder'
  <2>1. Ceil(plan[1].mm) = StepEvents(b)
    BY <1>2, FullLength
  <2>2. st_block_buffer'[next] = Bresenham(b)
    BY <1>5, <1>7, <1>8
  <2> QED BY <1>1, <1>2, <1>4, <1>6, <2>1, <2>2
      DEF PrepInOrder, NoMore, Full, Partial, b
<1>14. SegmentsGood'
  <2>1. ASSUME NEW i \in Queued PROVE Good(segment_buffer[i])'
    <3>1. st_block_buffer'[segment_buffer[i].index]
            = st_block_buffer[segment_buffer[i].index]
      BY <1>7, <1>8, <1>9
    <3>2. Good(segment_buffer[i])
      BY DEF LineInv, SegmentsGood
    <3> QED BY <1>1, <3>1, <3>2 DEF Good
  <2> QED BY <1>1, <1>8, <2>1 DEF SegmentsGood
<1>15. Chained'
  <2>1. Newest' = Newest /\ Driver' = Driver
    BY <1>1 DEF Newest, Driver, After
  <2>2. /\ prep.index = Newest.index /\ Newest.spot = Whole(Newest.block)
        /\ Newest.id < plan[1].id /\ Newest.id \in 0 .. added
    BY <1>1, <1>2 DEF LineInv, Chained, Partial
  <2>3. Preparing' = Point(plan[1].id, next, b, 0)
    <3>1. Fine * (StepEvents(b) - StepEvents(b)) = 0
      BY <1>5, Powers
    <3> QED BY <1>1, <1>6, <3>1 DEF Preparing, b
  <2>4. Follows(Newest, Preparing')
    BY <1>2, <2>2, <2>3, <1>1 DEF Follows, Point, next, InRange, MainInRange
  <2>5. Partial'
    BY <1>6 DEF Partial
  <2> QED BY <1>1, <1>8, <2>1, <2>2, <2>4, <2>5 DEF LineInv, Chained
<1>16. SlotsSuffice'
  <2>1. Fresh'
    BY <1>1, <1>6 DEF Fresh, Partial, b
  <2> QED BY <1>1, <1>8, <1>9, <2>1 DEF SlotsSuffice
<1>17. SegmentRuns' /\ CountersTrue'
  BY <1>1 DEF LineInv, SegmentRuns, CountersTrue, StepsMade
<1> QED BY <1>10, <1>11, <1>12, <1>13, <1>14, <1>15, <1>16, <1>17 DEF LineInv

(* A segment has at least one step, unless the machine comes to rest. *)
LEMMA SegmentLength ==
  ASSUME NEW total \in Nat, NEW mm \in 1 .. Quarter * total, NEW m \in 0 .. mm
  PROVE  /\ Ceil(m) \in 0 .. Ceil(mm) /\ Ceil(mm) \in 1 .. total
         /\ m = 0 \/ m <= mm - ReqIncrement => Ceil(m) < Ceil(mm)
BY DEF Ceil, Quarter, ReqIncrement

LEMMA MaxOfTwo ==
  ASSUME NEW x \in Int PROVE Max({x, 0}) = IF x >= 0 THEN x ELSE 0
<1> DEFINE S == {x, 0}
           y == IF x >= 0 THEN x ELSE 0
<1>1. y \in S /\ \A z \in S : y >= z /\ (z >= y => z = y)
  OBVIOUS
<1>2. Max(S) \in S /\ \A z \in S : Max(S) >= z
  <2>1. \E u \in S : \A z \in S : u >= z
    BY <1>1
  <2> HIDE DEF S
  <2> QED BY <2>1 DEF Max
<1> QED BY <1>1, <1>2

LEMMA MakeSegmentKeeps == StepperIInv /\ MakeSegment => StepperIInv'
<1> SUFFICES ASSUME StepperIInv, MakeSegment PROVE StepperIInv'
  OBVIOUS
<1> USE DEF StepperIInv
<1> DEFINE b == plan[1].block
           mm == plan[1].mm
           total == StepEvents(b)
<1>1. /\ pc \in {"prep", "segment"} /\ prep.loaded /\ NextSegment(head) # tail
      /\ UNCHANGED <<plan, prep, st_block_buffer, head, tail, st, position,
                     motor, lost, exec, added>>
  BY DEF MakeSegment, NoMore, Full, LineInv, PrepInOrder
<1>2. /\ plan # << >> /\ plan \in Seq(Planned) /\ Head(plan) = plan[1]
      /\ b \in Blocks /\ plan[1].id \in 1 .. added /\ total \in Nat
      /\ mm \in 1 .. Quarter * total
      /\ prep.steps_remaining = Ceil(mm) /\ prep.complete \in 0 .. mm
      /\ (~ctl.hold => prep.complete = 0)
      /\ st_block_buffer[prep.index] = Bresenham(b)
      /\ prep.index \in Slots
  <2>1. plan # << >> /\ plan \in Seq(Planned)
    BY <1>1 DEF LineInv, PrepInOrder, Partial, InRange, MainInRange
  <2>2. Len(plan) \in Nat \ {0} /\ Head(plan) = plan[1]
    BY <2>1
  <2>3. /\ plan[1] \in Planned /\ plan[1].id \in 1 .. added
        /\ mm \in 1 .. Quarter * total
    BY <2>1, <2>2 DEF LineInv, PlanInOrder
  <2>4. b \in Blocks /\ total \in Nat
    BY <2>3, BlocksAreBlocks DEF Planned
  <2>5. prep.index \in Slots
    BY DEF InRange, MainInRange, Preparations
  <2> QED BY <1>1, <2>1, <2>2, <2>3, <2>4, <2>5 DEF LineInv, PrepInOrder, Partial
<1> HIDE DEF b, mm, total
<1>3. PICK m \in SegmentEnds(mm), level \in 0 .. MAX_AMASS_LEVEL :
        LET n == prep.steps_remaining - Ceil(m)
        IN /\ n * 2 ^ level < TickLimit
           /\ IF Bail(n)
              THEN /\ ctl' = [ctl EXCEPT !.end = TRUE]
                   /\ pc' = "prep"
                   /\ UNCHANGED <<rest, segment_buffer>>
              ELSE /\ segment_buffer' = [segment_buffer EXCEPT ![head] =
                        [n_step |-> n * 2 ^ level, amass |-> level,
                         index |-> prep.index, id |-> plan[1].id,
                         block |-> b,
                         from |-> total - prep.steps_remaining,
                         to |-> total - Ceil(m)]]
                   /\ rest' = m
                   /\ pc' = "publish"
                   /\ UNCHANGED ctl
  BY <1>2 DEF MakeSegment, b, mm, total
<1> DEFINE n == prep.steps_remaining - Ceil(m)
<1>4. /\ m \in 0 .. mm /\ m \in prep.complete .. mm
      /\ Ceil(m) \in 0 .. Ceil(mm)
      /\ Ceil(mm) \in 1 .. total /\ n \in Nat /\ (~Bail(n) => n # 0)
  <2>1. /\ m \in 0 .. mm /\ m \in prep.complete .. mm
        /\ m <= Max({mm - ReqIncrement, 0}) \/ m = prep.complete
    BY <1>2, <1>3 DEF SegmentEnds
  <2>2. mm - ReqIncrement \in Int
    BY <1>2 DEF ReqIncrement
  <2>3. m = 0 \/ m <= mm - ReqIncrement \/ m = prep.complete
    BY <2>1, <2>2, MaxOfTwo DEF ReqIncrement
  <2>4. /\ Ceil(m) \in 0 .. Ceil(mm) /\ Ceil(mm) \in 1 .. total
        /\ m = 0 \/ m <= mm - ReqIncrement => Ceil(m) < Ceil(mm)
    BY <1>2, <2>1, SegmentLength
  <2>5. n \in Nat
    BY <1>2, <2>4
  <2>6. ~Bail(n) => n # 0
    BY <1>2, <2>3, <2>4 DEF Bail
  <2> QED BY <2>1, <2>4, <2>5, <2>6
<1>5. /\ segment_buffer \in [Ring -> Segments] /\ head \in Ring /\ tail \in Ring
      /\ Queued = InRing(tail, head) /\ \A i \in Queued : i \in Ring /\ i # head
      /\ head # tail => tail \in Queued /\ PrevSegment(head) \in Queued
  BY QueuedIsInRing, RingSegments DEF InRange, BuffersInRange, InRing
<1>6. CASE Bail(n)
  <2>1. /\ ctl' = [ctl EXCEPT !.end = TRUE] /\ pc' = "prep"
        /\ UNCHANGED <<rest, segment_buffer>>
    BY <1>3, <1>6
  <2>2. /\ ctl' \in Controls /\ ctl'.state = ctl.state /\ ctl'.hold = ctl.hold
        /\ ctl'.stop = ctl.stop /\ ctl'.abort = ctl.abort
        /\ ctl'.starting = ctl.starting
    BY <2>1 DEF InRange, MainInRange, Controls
  <2>3. InRange'
    BY <1>1, <2>1, <2>2 DEF InRange, MainInRange, BuffersInRange, DriverInRange
  <2>4. PulsesInv'
    BY <1>1, <2>1, <2>2 DEF PulsesInv, Handshake, KilledIsLost, HoldHasState,
                            MotorsFollow
  <2>5. LineInv'
    <3>1. PrepInOrder'
      BY <1>1, <2>1, <2>2 DEF LineInv, PrepInOrder, Partial
    <3> QED BY <1>1, <2>1, <3>1, QuietKeepsLine
        DEF SameDriver, SamePrep, Partial, shared
  <2> QED BY <2>3, <2>4, <2>5
<1>7. CASE ~Bail(n)
  <2> DEFINE g == [n_step |-> n * 2 ^ level, amass |-> level,
                   index |-> prep.index, id |-> plan[1].id, block |-> b,
                   from |-> total - prep.steps_remaining, to |-> total - Ceil(m)]
  <2>1. /\ segment_buffer' = [segment_buffer EXCEPT ![head] = g]
        /\ rest' = m /\ pc' = "publish" /\ UNCHANGED ctl
        /\ n * 2 ^ level < TickLimit
    BY <1>3, <1>7
  <2>2. /\ 2 ^ level \in Nat \ {0} /\ n \in Nat \ {0}
        /\ total - prep.steps_remaining \in Nat /\ total - Ceil(m) \in Nat
        /\ total - prep.steps_remaining < total - Ceil(m)
        /\ total - Ceil(m) <= total
        /\ (total - Ceil(m)) - (total - prep.steps_remaining) = n
    <3>1. 2 ^ level \in Nat \ {0}
      BY Powers
    <3>2. n = prep.steps_remaining - Ceil(m)
      OBVIOUS
    <3> HIDE DEF n
    <3>3. n \in Nat /\ n # 0
      BY <1>4, <1>7, Zenon
    <3>4. /\ total \in Nat /\ prep.steps_remaining = Ceil(mm)
          /\ Ceil(m) \in 0 .. Ceil(mm) /\ Ceil(mm) \in 1 .. total
      BY <1>2, <1>4
    <3> QED BY <3>1, <3>2, <3>3, <3>4
  <2>3. n * 2 ^ level \in Nat
    <3>1. \A p, q \in Nat : p * q \in Nat
      OBVIOUS
    <3> HIDE DEF n
    <3> QED BY <2>2, <3>1
  <2>4. g \in Segments /\ Good(g)
    <3> HIDE DEF n
    <3>1. g \in Segments
      BY <1>2, <2>2, <2>3 DEF Segments
    <3>2. g.n_step = (g.to - g.from) * 2 ^ g.amass
      BY <2>2
    <3>3. /\ g.id = plan[1].id /\ g.block = b /\ g.index = prep.index
          /\ g.from = total - prep.steps_remaining /\ g.to = total - Ceil(m)
          /\ g.amass = level /\ g.n_step = n * 2 ^ level
      OBVIOUS
    <3> HIDE DEF g, b, total
    <3>4. g.n_step < TickLimit
      BY <2>1, <3>3
    <3>5. /\ g.id \in 1 .. added /\ g.block \in Blocks
          /\ g.amass \in 0 .. MAX_AMASS_LEVEL
      BY <1>2, <3>3
    <3>6. /\ g.from \in Nat /\ g.to \in Nat /\ g.from < g.to
          /\ g.to <= StepEvents(g.block)
      BY <2>2, <3>3 DEF total
    <3>7. st_block_buffer[g.index] = Bresenham(g.block)
      BY <1>2, <3>3
    <3>8. Good(g)
      BY <3>2, <3>4, <3>5, <3>6, <3>7, Zenon DEF Good
    <3> QED BY <3>1, <3>8
  <2>5. /\ g.id = plan[1].id /\ g.block = b /\ g.index = prep.index
        /\ g.from = total - prep.steps_remaining /\ g.to = total - Ceil(m)
    OBVIOUS
  <2> HIDE DEF g
  <2>6. /\ segment_buffer' \in [Ring -> Segments] /\ segment_buffer'[head] = g
        /\ \A i \in Queued : segment_buffer'[i] = segment_buffer[i]
        /\ Queued' = Queued
    <3>1. segment_buffer' \in [Ring -> Segments] /\ segment_buffer'[head] = g
      BY <1>5, <2>1, <2>4
    <3>2. Queued' = InRing(tail', head')
      BY <3>1, QueuedIsInRingNext
    <3> QED BY <1>1, <1>5, <2>1, <3>1, <3>2
  <2>7. InRange'
    <3>1. rest' \in Int
      BY <1>4, <2>1
    <3> QED BY <1>1, <2>1, <2>6, <3>1 DEF InRange, MainInRange, BuffersInRange,
                                          DriverInRange
  <2>8. PulsesInv'
    BY <1>1, <2>1 DEF PulsesInv, Handshake, KilledIsLost, HoldHasState,
                      MotorsFollow
  <2>9. PlanInOrder' /\ PrepInOrder'
    BY <1>1, <2>1 DEF LineInv, PlanInOrder, PrepInOrder, Partial
  <2>10. SegmentsGood'
    <3>1. \A i \in Queued : Good(segment_buffer[i])
      BY DEF LineInv, SegmentsGood
    <3>2. ASSUME NEW i \in Queued PROVE Good(segment_buffer[i])'
      BY <1>1, <2>6, <3>1 DEF Good
    <3>3. Good(segment_buffer[head])'
      BY <1>1, <2>4, <2>6 DEF Good
    <3> QED BY <1>1, <1>4, <2>1, <2>5, <2>6, <3>2, <3>3
        DEF SegmentsGood, total, b, mm
  <2>11. Chained'
    <3>1. Newest' = Newest /\ Driver' = Driver /\ Preparing' = Preparing
      BY <1>1, <1>5, <2>6 DEF Newest, Driver, After, Preparing
    <3>2. ASSUME NEW i \in Queued, NextSegment(i) # head
          PROVE  NextSegment(i) \in Queued
      BY <1>5, <3>2, NextInQueue
    <3>3. ASSUME NEW i \in Queued, NextSegment(i) # head
          PROVE  Follows(After(segment_buffer'[i]),
                         Before(segment_buffer'[NextSegment(i)]))
      BY <2>6, <3>2, <3>3 DEF LineInv, Chained
    <3>4. ~st.running /\ head # tail => Follows(Driver, Before(segment_buffer'[tail]))
      BY <1>5, <2>6 DEF LineInv, Chained
    <3> QED BY <1>1, <2>6, <3>1, <3>3, <3>4 DEF LineInv, Chained, Partial
  <2>12. SlotsSuffice'
    BY <1>1, <2>6 DEF LineInv, SlotsSuffice, Fresh, Partial, Behind, Ahead
  <2>13. SegmentRuns' /\ CountersTrue'
    <3>1. SegmentRuns'
      BY <1>1, <1>5, <2>6 DEF LineInv, SegmentRuns
    <3>2. CountersTrue'
      BY <1>1 DEF LineInv, CountersTrue, StepsMade
    <3> QED BY <3>1, <3>2
  <2> QED BY <2>7, <2>8, <2>9, <2>10, <2>11, <2>12, <2>13 DEF LineInv
<1> QED BY <1>6, <1>7

LEMMA PublishSegmentKeeps == StepperIInv /\ PublishSegment => StepperIInv'
<1> SUFFICES ASSUME StepperIInv, PublishSegment PROVE StepperIInv'
  OBVIOUS
<1> USE DEF StepperIInv
<1> DEFINE b == plan[1].block
           mm == plan[1].mm
           total == StepEvents(b)
           g == segment_buffer[head]
<1>1. /\ pc = "publish" /\ pc' = "prep" /\ prep.loaded /\ ~prep.recalculate
      /\ NextSegment(head) # tail /\ head' = NextSegment(head)
      /\ ctl' = [ctl EXCEPT !.end = @ \/ (rest > 0 /\ rest = prep.complete)]
      /\ prep' = [prep EXCEPT !.loaded = rest > 0,
                              !.steps_remaining = Ceil(rest)]
      /\ UNCHANGED <<rest, st_block_buffer, segment_buffer, tail, st, position,
                     motor, lost, exec, added>>
  BY DEF PublishSegment, LineInv, PrepInOrder
<1>2. /\ plan # << >> /\ plan \in Seq(Planned) /\ Len(plan) \in Nat \ {0}
      /\ plan[1] \in Planned /\ b \in Blocks /\ plan[1].id \in 1 .. added
      /\ total \in Nat /\ mm \in 1 .. Quarter * total
      /\ prep.steps_remaining = Ceil(mm)
      /\ st_block_buffer[prep.index] = Bresenham(b)
      /\ prep.index \in Slots /\ prep.complete \in 0 .. mm
  <2>1. plan # << >> /\ plan \in Seq(Planned)
    BY <1>1 DEF LineInv, PrepInOrder, Partial, InRange, MainInRange
  <2>2. Len(plan) \in Nat \ {0}
    BY <2>1
  <2>3. /\ plan[1] \in Planned /\ plan[1].id \in 1 .. added
        /\ mm \in 1 .. Quarter * total
    BY <2>1, <2>2 DEF LineInv, PlanInOrder
  <2>4. b \in Blocks /\ total \in Nat
    BY <2>3, BlocksAreBlocks DEF Planned
  <2>5. prep.index \in Slots
    BY DEF InRange, MainInRange, Preparations
  <2> QED BY <1>1, <2>1, <2>2, <2>3, <2>4, <2>5 DEF LineInv, PrepInOrder, Partial
<1>3. /\ Good(g) /\ rest \in prep.complete .. mm
      /\ g.id = plan[1].id /\ g.block = b /\ g.index = prep.index
      /\ g.from = total - prep.steps_remaining /\ g.to = total - Ceil(rest)
      /\ g.from \in Nat /\ g.to \in Nat /\ g.from < g.to
  BY <1>1 DEF LineInv, SegmentsGood, Good
<1>4. /\ segment_buffer \in [Ring -> Segments] /\ head \in Ring /\ tail \in Ring
      /\ head' \in Ring /\ head' # tail /\ PrevSegment(head') = head
      /\ Queued = InRing(tail, head) /\ Queued' = Queued \cup {head}
      /\ \A i \in Queued : /\ i \in Ring /\ i # head /\ Ahead(i) \in Nat
                           /\ Ahead(i)' = Ahead(i) + 1
      /\ \A i \in Ring : i = head => Ahead(i)' = 1
      /\ head # tail => tail \in Queued /\ PrevSegment(head) \in Queued
  <2>1. /\ segment_buffer \in [Ring -> Segments] /\ head \in Ring /\ tail \in Ring
        /\ head' \in Ring /\ PrevSegment(head') = head
    BY <1>1, NextInRing DEF InRange, BuffersInRange
  <2>2. /\ Queued = InRing(tail, head) /\ Queued' = InRing(tail, head')
        /\ \A i \in Ring : /\ Ahead(i) = Distance(i, head)
                           /\ Ahead(i)' = Distance(i, head')
    BY <1>1, <2>1, QueuedIsInRing, QueuedIsInRingNext
  <2>3. head' # tail /\ Queued' = Queued \cup {head}
    BY <1>1, <2>1, <2>2, HeadMoves
  <2>4. ASSUME NEW i \in Queued
        PROVE  /\ i \in Ring /\ i # head /\ Ahead(i) \in Nat
               /\ Ahead(i)' = Ahead(i) + 1
    <3>1. i \in Ring /\ i \in InRing(tail, head)
      BY <2>2 DEF InRing
    <3>2. i # head /\ Distance(i, head) \in 1 .. SEGMENT_BUFFER_SIZE - 1
      BY <2>1, <3>1, RingSegments
    <3>3. Distance(i, head') = Distance(i, head) + 1
      BY <1>1, <2>1, <3>1, HeadMoves
    <3> QED BY <2>2, <3>1, <3>2, <3>3, StepperConstants
  <2>5. ASSUME NEW i \in Ring, i = head PROVE Ahead(i)' = 1
    BY <1>1, <2>1, <2>2, <2>5, HeadMoves
  <2>6. head # tail => tail \in Queued /\ PrevSegment(head) \in Queued
    BY <2>1, <2>2, RingSegments
  <2> QED BY <2>1, <2>2, <2>3, <2>4, <2>5, <2>6
<1>5. /\ Ceil(rest) \in Nat /\ Ceil(rest) < total
      /\ rest \in 0 .. mm /\ rest \in Int
  <2>1. rest \in 0 .. mm
    BY <1>2, <1>3
  <2>2. Ceil(mm) \in 1 .. total /\ Ceil(rest) \in 0 .. Ceil(mm)
    BY <1>2, <2>1, SegmentLength
  <2> HIDE DEF b, mm, total, g
  <2> QED BY <1>2, <1>3, <2>1, <2>2
<1> HIDE DEF b, mm, total, g
<1>6. /\ ctl' \in Controls /\ ctl'.state = ctl.state /\ ctl'.hold = ctl.hold
      /\ ctl'.stop = ctl.stop /\ ctl'.abort = ctl.abort
      /\ ctl'.starting = ctl.starting
  BY <1>1 DEF InRange, MainInRange, Controls
<1>7. /\ prep' \in Preparations /\ prep'.loaded = (rest > 0)
      /\ prep'.recalculate = FALSE /\ prep'.index = prep.index
      /\ prep'.steps_remaining = Ceil(rest) /\ prep'.complete = prep.complete
  <2>1. Ceil(rest) \in Int /\ (rest > 0) \in BOOLEAN
    BY <1>5
  <2>2. prep \in Preparations
    BY DEF InRange, MainInRange
  <2> QED BY <1>1, <2>1, <2>2 DEF Preparations
<1>8. PulsesInv'
  BY <1>1, <1>6 DEF PulsesInv, Handshake, KilledIsLost, HoldHasState,
                    MotorsFollow
(* The block that is done leaves the plan, or what is left of it stays. *)
<1>9. /\ plan' \in Seq(Planned) /\ Len(plan') <= Len(plan) /\ PlanInOrder'
      /\ rest = 0 => /\ plan' # << >> =>
                         /\ plan[1].id < plan'[1].id
                         /\ plan'[1].mm = Quarter * StepEvents(plan'[1].block)
      /\ rest > 0 => /\ plan' # << >> /\ plan'[1].id = plan[1].id
                     /\ plan'[1].block = b /\ plan'[1].mm = rest
  <2>1. CASE rest = 0
    <3>1. plan' = Tail(plan)
      BY <1>5, <2>1 DEF PublishSegment
    <3>2. /\ plan' \in Seq(Planned) /\ Len(plan') = Len(plan) - 1
          /\ \A k \in 1 .. Len(plan') : plan'[k] = plan[k + 1]
      BY <1>2, <3>1
    <3>3. ASSUME NEW k \in 1 .. Len(plan')
          PROVE  /\ plan'[k].id \in 1 .. added'
                 /\ plan'[k].mm \in 1 .. Quarter * StepEvents(plan'[k].block)
                 /\ plan'[k].mm = Quarter * StepEvents(plan'[k].block)
                 /\ plan[k].id < plan'[k].id
                 /\ k > 1 => plan'[k - 1].id < plan'[k].id
      <4>1. /\ k + 1 \in 1 .. Len(plan) /\ k + 1 > 1 /\ (k + 1) - 1 = k
            /\ k > 1 => k - 1 \in 1 .. Len(plan') /\ (k - 1) + 1 = k
        BY <1>2, <3>2
      <4>2. /\ plan[k + 1].id \in 1 .. added
            /\ plan[k + 1].mm \in 1 .. Quarter * StepEvents(plan[k + 1].block)
            /\ plan[k + 1].mm = Quarter * StepEvents(plan[k + 1].block)
            /\ plan[(k + 1) - 1].id < plan[k + 1].id
        BY <4>1 DEF LineInv, PlanInOrder
      <4>3. /\ plan'[k] = plan[k + 1]
            /\ k > 1 => plan'[k - 1] = plan[k]
        BY <3>2, <4>1
      <4> QED BY <1>1, <4>1, <4>2, <4>3
    <3>4. PlanInOrder'
      BY <3>3 DEF PlanInOrder
    <3>5. plan' # << >> => 1 \in 1 .. Len(plan')
      BY <3>2
    <3>6. plan' # << >> => /\ plan[1].id < plan'[1].id
                           /\ plan'[1].mm = Quarter * StepEvents(plan'[1].block)
      BY <3>3, <3>5
    <3>7. Len(plan') <= Len(plan)
      BY <1>2, <3>2
    <3> QED BY <2>1, <3>2, <3>4, <3>6, <3>7
  <2>2. CASE rest > 0
    <3>1. plan' = [plan EXCEPT ![1].mm = rest]
      BY <1>5, <2>2 DEF PublishSegment
    <3>2. /\ [plan[1] EXCEPT !.mm = rest] \in Planned
          /\ plan' = [plan EXCEPT ![1] = [plan[1] EXCEPT !.mm = rest]]
      BY <1>2, <1>5, <3>1 DEF Planned
    <3>3. /\ plan' \in Seq(Planned) /\ Len(plan') = Len(plan)
          /\ plan'[1] = [plan[1] EXCEPT !.mm = rest]
          /\ \A k \in 1 .. Len(plan) : k # 1 => plan'[k] = plan[k]
      BY <1>2, <3>2
    <3>4. /\ plan'[1].id = plan[1].id /\ plan'[1].block = b /\ plan'[1].mm = rest
      BY <1>2, <3>3 DEF Planned, b
    <3>5. ASSUME NEW k \in 1 .. Len(plan)
          PROVE  /\ plan'[k].id \in 1 .. added'
                 /\ plan'[k].mm \in 1 .. Quarter * StepEvents(plan'[k].block)
                 /\ k > 1 => /\ plan'[k].mm = Quarter * StepEvents(plan'[k].block)
                             /\ plan'[k - 1].id < plan'[k].id
      <4>1. CASE k = 1
        <5>1. rest \in 1 .. Quarter * total
          BY <1>2, <1>5, <2>2 DEF Quarter
        <5> QED BY <1>1, <1>2, <3>4, <4>1, <5>1 DEF total
      <4>2. CASE k # 1
        <5>1. k > 1 /\ k - 1 \in 1 .. Len(plan) /\ plan'[k] = plan[k]
          BY <1>2, <3>3, <4>2
        <5>2. plan'[k - 1].id = plan[k - 1].id
          <6>1. CASE k - 1 = 1
            BY <3>4, <6>1
          <6>2. CASE k - 1 # 1
            BY <3>3, <5>1, <6>2
          <6> QED BY <6>1, <6>2
        <5>3. /\ plan[k].id \in 1 .. added
              /\ plan[k].mm \in 1 .. Quarter * StepEvents(plan[k].block)
              /\ plan[k].mm = Quarter * StepEvents(plan[k].block)
              /\ plan[k - 1].id < plan[k].id
          BY <5>1 DEF LineInv, PlanInOrder
        <5> QED BY <1>1, <5>1, <5>2, <5>3
      <4> QED BY <4>1, <4>2
    <3>6. PlanInOrder'
      BY <3>3, <3>5 DEF PlanInOrder
    <3>7. plan' # << >> /\ Len(plan') <= Len(plan)
      BY <1>2, <3>3
    <3> QED BY <2>2, <3>3, <3>4, <3>6, <3>7
  <2> QED BY <1>5, <2>1, <2>2
<1>10. InRange'
  <2>1. Len(plan') <= added
    BY <1>2, <1>9 DEF InRange, MainInRange
  <2> QED BY <1>1, <1>4, <1>5, <1>6, <1>7, <1>9, <2>1
      DEF InRange, MainInRange, BuffersInRange, DriverInRange
<1>11. /\ Partial' <=> rest > 0
       /\ ~Fresh'
  <2>1. Partial' <=> rest > 0
    BY <1>7 DEF Partial
  <2>2. Ceil(rest) # total
    BY <1>2, <1>5
  <2> QED BY <1>7, <1>9, <2>1, <2>2 DEF Fresh, total
<1>12. PrepInOrder'
  <2>1. prep.complete \in 0 .. rest /\ (~ctl.hold => prep.complete = 0)
    BY <1>1, <1>2, <1>3 DEF LineInv, PrepInOrder
  <2>2. ~Partial' => rest = 0
    BY <1>5, <1>11
  <2> QED BY <1>1, <1>2, <1>6, <1>7, <1>9, <1>11, <2>1, <2>2 DEF PrepInOrder
<1>13. SegmentsGood'
  <2>1. ASSUME NEW i \in Queued \cup {head} PROVE Good(segment_buffer[i])'
    <3>1. Good(segment_buffer[i])
      BY <1>3 DEF LineInv, SegmentsGood, g
    <3> QED BY <1>1, <3>1 DEF Good
  <2> QED BY <1>1, <1>4, <2>1 DEF SegmentsGood
<1>14. Chained'
  <2>1. Newest' = After(g) /\ Driver' = Driver
    BY <1>1, <1>4 DEF Newest, Driver, After, g
  <2>2. Before(g) = Preparing
    BY <1>3 DEF Before, Preparing, g, total, b
  <2>3. Follows(Newest, Before(g))
    BY <1>1, <2>2 DEF LineInv, Chained, Partial
  <2>4. ~st.running /\ head' # tail => Follows(Driver, Before(segment_buffer[tail]))
    <3>1. CASE head = tail
      BY <2>3, <3>1 DEF Newest, g
    <3>2. CASE head # tail
      BY <3>2 DEF LineInv, Chained
    <3> QED BY <3>1, <3>2
  <2>5. ASSUME NEW i \in Queued', NextSegment(i) # head'
        PROVE  Follows(After(segment_buffer[i]),
                       Before(segment_buffer[NextSegment(i)]))
    <3>1. i \in Queued /\ i \in Ring
      BY <1>1, <1>4, <2>5
    <3>2. CASE NextSegment(i) = head
      <4>1. i = PrevSegment(head) /\ head # tail
        BY <1>4, <3>1, <3>2, NextInRing, RingSegments
      <4>2. Newest = After(segment_buffer[i])
        BY <4>1 DEF Newest
      <4> QED BY <2>3, <3>2, <4>2 DEF g
    <3>3. CASE NextSegment(i) # head
      BY <3>1, <3>3 DEF LineInv, Chained
    <3> QED BY <3>2, <3>3
  <2>6. CASE rest > 0
    <3>1. Preparing' = After(g)
      BY <1>1, <1>3, <1>7, <1>9, <2>6 DEF Preparing, After, total
    <3>2. Follows(Newest', Preparing') /\ Newest'.id \in 0 .. added'
      BY <1>1, <1>2, <1>3, <2>1, <3>1 DEF Follows, After, Point
    <3> QED BY <1>1, <1>11, <2>1, <2>4, <2>5, <2>6, <3>2 DEF Chained
  <2>7. CASE rest = 0
    <3>1. Ceil(rest) = 0
      BY <2>7 DEF Ceil, Quarter
    <3>2. g.to = total
      BY <1>2, <1>3, <3>1
    <3>3. Newest' = Point(plan[1].id, prep.index, b, Whole(b))
      BY <1>3, <2>1, <3>2 DEF After, Whole, total
    <3>4. /\ prep'.index = Newest'.index /\ Newest'.spot = Whole(Newest'.block)
          /\ plan' # << >> => Newest'.id < plan'[1].id
          /\ Newest'.id \in 0 .. added'
      BY <1>1, <1>2, <1>7, <1>9, <2>7, <3>3 DEF Point
    <3> QED BY <1>1, <1>11, <2>1, <2>4, <2>5, <2>7, <3>4 DEF Chained
  <2> QED BY <1>5, <2>6, <2>7
<1>15. SlotsSuffice'
  <2>1. ASSUME NEW i \in Queued
        PROVE  Behind(segment_buffer[i].index)' <= Ahead(i)' - 1
    <3>1. segment_buffer[i].index \in Slots
      BY <1>4 DEF Segments
    <3>2. Behind(segment_buffer[i].index) <= IF Fresh THEN Ahead(i) ELSE Ahead(i) - 1
      BY DEF LineInv, SlotsSuffice
    <3>3. /\ Behind(segment_buffer[i].index)' = Behind(segment_buffer[i].index)
          /\ Behind(segment_buffer[i].index) \in Int
      <4>1. /\ prep'.index = prep.index
            /\ segment_buffer'[i].index = segment_buffer[i].index
        BY <1>1, <1>2, <1>7
      <4>2. segment_buffer[i].index \in Int /\ prep.index \in Int
        BY <1>1, <1>2, <1>7, <3>1 DEF Slots
      <4>3. Behind(segment_buffer[i].index) \in Int
        BY <4>2, StepperConstants DEF Behind
      <4> QED BY <4>1, <4>3 DEF Behind
    <3>4. Ahead(i)' = Ahead(i) + 1 /\ Ahead(i) \in Nat
      BY <1>4
    <3>5. Behind(segment_buffer[i].index) <= Ahead(i)
      <4>1. CASE Fresh
        BY <3>2, <4>1
      <4>2. CASE ~Fresh
        BY <3>2, <3>3, <3>4, <4>2
      <4> QED BY <4>1, <4>2
    <3> QED BY <3>3, <3>4, <3>5
  <2>2. ASSUME NEW i \in Ring, i = head
        PROVE  Behind(segment_buffer[i].index)' <= Ahead(i)' - 1
    <3>1. segment_buffer'[i].index = prep.index
      BY <1>1, <1>3, <2>2 DEF g
    <3>2. Behind(segment_buffer[i].index)' = 0
      BY <1>2, <1>7, <3>1, StepperConstants DEF Behind, Slots
    <3> QED BY <1>4, <2>2, <3>2
  <2>3. ASSUME NEW i \in Queued'
        PROVE  Behind(segment_buffer[i].index)' <= Ahead(i)' - 1
    <3>1. i \in Queued \/ (i \in Ring /\ i = head)
      BY <1>4
    <3> QED BY <2>1, <2>2, <3>1
  <2> QED BY <1>11, <2>3 DEF SlotsSuffice
<1>16. SegmentRuns' /\ CountersTrue'
  BY <1>1, <1>4 DEF LineInv, SegmentRuns, CountersTrue, StepsMade
<1> QED BY <1>8, <1>9, <1>10, <1>12, <1>13, <1>14, <1>15, <1>16 DEF LineInv

(* Bresenham's arithmetic. *)
LEMMA WholeIsEven ==
  ASSUME NEW b \in DriverBlock
  PROVE  /\ Whole(b) \in Nat /\ 2 * (Whole(b) \div 2) = Whole(b)
         /\ Whole(b) \div 2 \in 0 .. Whole(b)
<1>1. /\ StepEvents(b) \in Nat /\ Fine \in Nat /\ Fine \div 2 \in Nat
      /\ Fine = 2 * (Fine \div 2)
  <2>1. StepEvents(b) \in Nat /\ Fine \in Nat /\ Fine = 2 * (Fine \div 2)
    BY StepEventsAreMost, Powers
  <2> HIDE DEF Fine
  <2> QED BY <2>1
<1> DEFINE half == Fine \div 2
           e == StepEvents(b)
<1>2. half * e \in Nat /\ Whole(b) = 2 * (half * e)
  <2>1. \A x, y \in Nat : x * y \in Nat /\ (2 * x) * y = 2 * (x * y)
    OBVIOUS
  <2>2. Whole(b) = (2 * half) * e
    BY <1>1 DEF Whole
  <2> HIDE DEF half, e
  <2>3. half \in Nat /\ e \in Nat
    BY <1>1 DEF half, e
  <2> QED BY <2>1, <2>2, <2>3
<1>3. \A x \in Nat : (2 * x) \div 2 = x /\ x \in 0 .. 2 * x
  OBVIOUS
<1> HIDE DEF half, e
<1> QED BY <1>2, <1>3

LEMMA WholeMultiple ==
  ASSUME NEW w \in Nat \ {0}, NEW d \in Int, -w < w * d, w * d < w
  PROVE  d = 0
<1>1. ASSUME d >= 1 PROVE FALSE
  <2>1. w * d >= w
    BY <1>1
  <2> QED BY <2>1
<1>2. ASSUME d <= -1 PROVE FALSE
  <2>1. w * d <= -w
    BY <1>2
  <2> QED BY <2>1
<1> QED BY <1>1, <1>2

(* At the end of a block, each axis has made its steps. *)
LEMMA BlockEnds ==
  ASSUME NEW w \in Nat \ {0}, 2 * (w \div 2) = w, NEW s \in Nat, NEW m \in Int,
         w \div 2 + w * s - m * w \in 0 .. w
  PROVE  m = s
<1> DEFINE h == w \div 2
           x == w * (s - m)
<1>1. h \in Nat /\ 2 * h = w /\ h >= 1
  OBVIOUS
<1>2. x \in Int /\ w * s - m * w = x
  OBVIOUS
<1>3. h + x \in 0 .. w
  <2>1. h + x = w \div 2 + w * s - m * w
    OBVIOUS
  <2> QED BY <2>1
<1>4. -w < x /\ x < w
  <2> HIDE DEF h, x
  <2> QED BY <1>1, <1>2, <1>3
<1>5. s - m = 0
  BY <1>4, WholeMultiple
<1> QED BY <1>5

LEMMA CounterStep ==
  ASSUME NEW w \in Nat, NEW h \in Int, NEW c \in 0 .. w, NEW inc \in 0 .. w,
         NEW f \in Int, NEW s \in Int, NEW t \in Int, NEW spot \in Int,
         NEW from \in Int, NEW dir \in {1, -1}, inc = s * t,
         c = h + f * s - ((spot - from) * dir) * w
  PROVE  LET o == IF c + inc > w THEN 1 ELSE 0
             n == (c + inc) - o * w
         IN /\ n \in 0 .. w
            /\ n = h + (f + t) * s - (((spot + o * dir) - from) * dir) * w
<1> DEFINE o == IF c + inc > w THEN 1 ELSE 0
           m == (spot - from) * dir
<1>1. o \in {0, 1} /\ (c + inc) - o * w \in 0 .. w /\ m \in Int
  OBVIOUS
<1>2. ((spot + o * dir) - from) * dir = m + o
  <2> HIDE DEF o
  <2>1. CASE dir = 1
    BY <1>1, <2>1
  <2>2. CASE dir = -1
    BY <1>1, <2>2
  <2> QED BY <2>1, <2>2
<1>3. (f + t) * s = f * s + inc
  OBVIOUS
<1>4. (m + o) * w = m * w + o * w
  <2> HIDE DEF o, m
  <2> QED BY <1>1
<1>5. f * s \in Int /\ m * w \in Int /\ o * w \in Int
  <2> HIDE DEF o, m
  <2> QED BY <1>1
<1> HIDE DEF o
<1>6. (c + inc) - o * w = h + (f + t) * s - (m + o) * w
  <2>1. c = h + f * s - m * w
    OBVIOUS
  <2> HIDE DEF m
  <2> QED BY <1>1, <1>3, <1>4, <1>5, <2>1
<1> QED BY <1>1, <1>2, <1>6 DEF o

(* What the interrupt has taken from the ring when it steps, and the block it
   is in, before the step counts. *)
Entered(g) ==
  IF g.id = exec.id THEN exec
  ELSE [id |-> g.id, block |-> g.block, done |-> 0,
        from |-> [a \in Axes |-> exec.from[a]
                    + exec.block.steps[a] * exec.block.dir[a]]]

LEMMA SegmentTicks ==
  ASSUME NEW from \in Nat, NEW to \in Nat, from < to, NEW p \in Nat, NEW w \in Nat
  PROVE  (p * w) * to - ((to - from) * p) * w = (p * w) * from
<1>1. ((to - from) * p) * w = (to - from) * (p * w)
  OBVIOUS
<1> DEFINE f == p * w
<1>2. f \in Nat
  OBVIOUS
<1> HIDE DEF f
<1>3. f * to - (to - from) * f = f * from
  BY <1>2
<1> QED BY <1>1, <1>3 DEF f

LEMMA ReducedSteps ==
  ASSUME NEW s \in Nat, NEW p \in Nat \ {0}, NEW w \in Nat
  PROVE  (s * (p * w)) \div p = s * w
<1>1. s * (p * w) = p * (s * w) /\ s * w \in Nat
  OBVIOUS
<1>2. ASSUME NEW x \in Nat PROVE (p * x) \div p = x
  OBVIOUS
<1> QED BY <1>1, <1>2

(* The next block begins where the one before ends. *)
LEMMA EndOfBlock ==
  ASSUME InRange, CountersTrue, exec.done = Whole(exec.block)
  PROVE  \A a \in Axes : /\ exec.block.steps[a] \in Nat
                         /\ exec.block.dir[a] \in {1, -1}
                         /\ exec.from[a] \in Int /\ position[a] \in Int
                         /\ position[a] = exec.from[a]
                              + exec.block.steps[a] * exec.block.dir[a]
<1> SUFFICES ASSUME NEW a \in Axes
             PROVE  /\ exec.block.steps[a] \in Nat
                    /\ exec.block.dir[a] \in {1, -1}
                    /\ exec.from[a] \in Int /\ position[a] \in Int
                    /\ position[a] = exec.from[a]
                         + exec.block.steps[a] * exec.block.dir[a]
  OBVIOUS
<1> DEFINE b == exec.block
           s == b.steps[a]
           d == b.dir[a]
           w == Whole(b)
<1>1. /\ b \in DriverBlock /\ position[a] \in Int /\ exec.from[a] \in Int
      /\ b \in Blocks \/ b = NoBlock
  BY BlocksAreBlocks DEF InRange, DriverInRange, Executions
<1>2. s \in Nat /\ d \in {1, -1}
  BY <1>1 DEF DriverBlock, Directions
<1>3. CASE b = NoBlock
  <2>1. position = exec.from
    BY <1>3 DEF CountersTrue
  <2>2. s = 0
    BY <1>3 DEF NoBlock, Zero
  <2> HIDE DEF s, d
  <2>3. s * d = 0
    BY <1>2, <2>2
  <2> QED BY <1>1, <1>2, <2>1, <2>3 DEF s, d
<1>4. CASE b \in Blocks
  <2>1. w \in Nat \ {0} /\ 2 * (w \div 2) = w
    BY <1>4, BlocksAreBlocks, WholeIsEven
  <2>2. /\ st.counter[a] \in 0 .. w
        /\ st.counter[a] = w \div 2 + w * s - StepsMade(a) * w
    BY DEF CountersTrue
  <2>3. StepsMade(a) = (position[a] - exec.from[a]) * d
    BY DEF StepsMade
  <2> HIDE DEF s, d, w, b
  <2>4. StepsMade(a) \in Int
    BY <1>1, <1>2, <2>3
  <2>5. StepsMade(a) = s
    BY <1>2, <2>1, <2>2, <2>4, BlockEnds
  <2>6. position[a] = exec.from[a] + s * d
    BY <1>1, <1>2, <2>3, <2>5
  <2> QED BY <1>1, <1>2, <2>6 DEF s, d, b
<1> QED BY <1>1, <1>3, <1>4

LEMMA TakenIsRight ==
  ASSUME StepperIInv, head # tail
  PROVE  LET g == segment_buffer[tail]
             T == Taken
             E == Entered(g)
             w == Whole(g.block)
         IN /\ Good(g) /\ T \in Drivers /\ T.on = st.on /\ T.index = g.index
            /\ T.step_count \in 1 .. g.n_step
            /\ T.dir = g.block.dir
            /\ T.steps = [a \in Axes |-> g.block.steps[a] * Scale(g.amass)]
            /\ E \in Executions /\ E.id = g.id /\ E.block = g.block
            /\ E.done = Fine * g.to - T.step_count * Scale(g.amass)
            /\ E.done \in Nat
            /\ \A a \in Axes :
                 /\ T.counter[a] \in 0 .. w
                 /\ T.counter[a] = w \div 2 + E.done * g.block.steps[a]
                      - ((position[a] - E.from[a]) * g.block.dir[a]) * w
<1> USE DEF StepperIInv
<1> DEFINE g == segment_buffer[tail]
           T == Taken
           E == Entered(g)
           b == g.block
           w == Whole(b)
<1>1. /\ tail \in Ring /\ g \in Segments /\ Good(g) /\ tail \in Queued
      /\ st \in Drivers /\ exec \in Executions
  BY QueuedIsInRing, RingSegments DEF InRange, BuffersInRange, DriverInRange,
     LineInv, SegmentsGood
<1>2. /\ b \in Blocks /\ b \in DriverBlock /\ w \in Nat /\ 2 * (w \div 2) = w
      /\ w \div 2 \in 0 .. w /\ g.index \in Slots
      /\ g.amass \in 0 .. MAX_AMASS_LEVEL
      /\ g.from \in Nat /\ g.to \in Nat /\ g.from < g.to
      /\ g.n_step = (g.to - g.from) * 2 ^ g.amass
      /\ 2 ^ g.amass \in Nat \ {0} /\ Scale(g.amass) \in Nat \ {0}
      /\ Fine = 2 ^ g.amass * Scale(g.amass) /\ Fine \in Nat
      /\ st_block_buffer[g.index] = Bresenham(b)
      /\ g.id \in Nat
  <2>1. /\ b \in Blocks /\ g.amass \in 0 .. MAX_AMASS_LEVEL
        /\ g.from \in Nat /\ g.to \in Nat /\ g.from < g.to
        /\ g.n_step = (g.to - g.from) * 2 ^ g.amass
        /\ st_block_buffer[g.index] = Bresenham(b)
        /\ g.id \in Nat /\ g.index \in Slots
    BY <1>1 DEF Good, Segments, InRange, MainInRange
  <2>2. b \in DriverBlock /\ w \in Nat /\ 2 * (w \div 2) = w /\ w \div 2 \in 0 .. w
    BY <2>1, BlocksAreBlocks, WholeIsEven
  <2> HIDE DEF g, b, w
  <2> QED BY <2>1, <2>2, Powers
<1>3. CASE st.running
  <2>1. T = st
    BY <1>3 DEF Taken
  <2>2. /\ exec.id = g.id /\ exec.block = b /\ st.index = g.index
        /\ st.step_count \in 1 .. g.n_step
        /\ exec.done = Fine * g.to - st.step_count * Scale(g.amass)
        /\ st.dir = b.dir
        /\ st.steps = [a \in Axes |-> b.steps[a] * Scale(g.amass)]
    BY <1>3 DEF LineInv, SegmentRuns
  <2>3. E = exec
    BY <2>2 DEF Entered
  <2>4. /\ exec.done \in Nat
        /\ \A a \in Axes :
             /\ st.counter[a] \in 0 .. w
             /\ st.counter[a] = w \div 2 + exec.done * b.steps[a]
                  - ((position[a] - exec.from[a]) * b.dir[a]) * w
    <3>1. exec.done \in 0 .. w /\ w \in Nat
      BY <1>2, <2>2 DEF LineInv, CountersTrue
    <3> QED BY <2>2, <3>1 DEF LineInv, CountersTrue, StepsMade
  <2> HIDE DEF T, E
  <2> QED BY <1>1, <2>1, <2>2, <2>3, <2>4 DEF T, E
<1>4. CASE ~st.running
  <2> DEFINE data == st_block_buffer[g.index]
  <2>1. T = [st EXCEPT !.running = TRUE, !.step_count = g.n_step,
                       !.index = g.index, !.counter = Counters(g),
                       !.dir = data.dir,
                       !.steps = [a \in Axes |-> data.steps[a] \div 2 ^ g.amass]]
    BY <1>4 DEF Taken
  <2>2. /\ data.dir = b.dir
        /\ data.steps = [a \in Axes |-> b.steps[a] * Fine]
        /\ data.count = w
    <3>1. StepEvents(b) * Fine = Fine * StepEvents(b)
      <4>1. StepEvents(b) \in Nat
        BY <1>2, StepEventsAreMost
      <4> HIDE DEF b, Fine
      <4> QED BY <1>2, <4>1
    <3> QED BY <1>2, <3>1 DEF Bresenham, Whole
  <2>3. [a \in Axes |-> data.steps[a] \div 2 ^ g.amass]
          = [a \in Axes |-> b.steps[a] * Scale(g.amass)]
    <3>1. ASSUME NEW a \in Axes
          PROVE  data.steps[a] \div 2 ^ g.amass = b.steps[a] * Scale(g.amass)
      <4>1. data.steps[a] = b.steps[a] * Fine /\ b.steps[a] \in Nat
        BY <1>2, <2>2 DEF DriverBlock
      <4> HIDE DEF data, b, g
      <4>2. (b.steps[a] * (2 ^ g.amass * Scale(g.amass))) \div 2 ^ g.amass
              = b.steps[a] * Scale(g.amass)
        BY <1>2, <4>1, ReducedSteps
      <4> QED BY <1>2, <4>1, <4>2
    <3> QED BY <3>1
  <2>4. Follows(Driver, Before(g))
    BY <1>4 DEF LineInv, Chained
  <2>5. g.n_step \in 1 .. g.n_step
    <3>1. \A x, y \in Nat \ {0} : x * y \in Nat \ {0}
      OBVIOUS
    <3>2. g.to - g.from \in Nat \ {0}
      BY <1>2
    <3>3. g.n_step \in Nat \ {0}
      BY <1>2, <3>1, <3>2
    <3> HIDE DEF g
    <3> QED BY <3>3
  <2>6. Fine * g.to - g.n_step * Scale(g.amass) = Fine * g.from
    <3> DEFINE p == 2 ^ g.amass
               r == Scale(g.amass)
               from == g.from
               to == g.to
    <3>1. /\ from \in Nat /\ to \in Nat /\ from < to /\ p \in Nat /\ r \in Nat
          /\ Fine = p * r /\ g.n_step = (to - from) * p
      BY <1>2
    <3> HIDE DEF p, r, from, to
    <3>2. (p * r) * to - ((to - from) * p) * r = (p * r) * from
      BY <3>1, SegmentTicks
    <3>3. Fine * to - g.n_step * r = Fine * from
      BY <3>1, <3>2, Zenon
    <3> QED BY <3>3 DEF r, from, to
  <2>7. Fine * g.from \in Nat
    <3>1. \A x, y \in Nat : x * y \in Nat
      OBVIOUS
    <3> HIDE DEF g
    <3> QED BY <1>2, <3>1
(* What is left to show depends on the block. *)
  <2>8. /\ E \in Executions /\ E.id = g.id /\ E.block = b
        /\ E.done = Fine * g.from
        /\ Counters(g) \in [Axes -> Int]
        /\ \A a \in Axes :
             /\ Counters(g)[a] \in 0 .. w
             /\ Counters(g)[a] = w \div 2 + (Fine * g.from) * b.steps[a]
                  - ((position[a] - E.from[a]) * b.dir[a]) * w
    <3>1. CASE g.id = exec.id
      <4>1. Before(g) = Driver
        BY <2>4, <3>1 DEF Follows, Before, Driver, Point
      <4>2. /\ g.index = st.index /\ b = exec.block
            /\ Fine * g.from = exec.done
        BY <4>1 DEF Before, Driver, Point
      <4>3. E = exec /\ Counters(g) = st.counter
        BY <3>1, <4>2 DEF Entered, Counters
      <4>4. \A a \in Axes :
              /\ st.counter[a] \in 0 .. w
              /\ st.counter[a] = w \div 2 + (Fine * g.from) * b.steps[a]
                   - ((position[a] - exec.from[a]) * b.dir[a]) * w
        BY <4>2 DEF LineInv, CountersTrue, StepsMade
      <4>5. st.counter \in [Axes -> Int]
        BY <1>1 DEF Drivers
      <4> HIDE DEF E
      <4> QED BY <1>1, <3>1, <4>2, <4>3, <4>4, <4>5
    <3>2. CASE g.id # exec.id
      <4>1. /\ g.index = NextBlockIndex(st.index)
            /\ exec.done = Whole(exec.block) /\ Fine * g.from = 0
        BY <2>4, <3>2 DEF Follows, Before, Driver, Point
      <4>2. g.index # st.index
        BY <1>1, <4>1, NextInSlots DEF Drivers
      <4>3. /\ Counters(g) = [a \in Axes |-> w \div 2]
            /\ Counters(g) \in [Axes -> Int]
        <5>1. Counters(g) = [a \in Axes |-> w \div 2]
          BY <2>2, <4>2 DEF Counters
        <5>2. w \div 2 \in Int
          BY <1>2
        <5> HIDE DEF w
        <5> QED BY <5>1, <5>2
      <4>4. E = [id |-> g.id, block |-> b, done |-> 0,
                 from |-> [a \in Axes |-> exec.from[a]
                             + exec.block.steps[a] * exec.block.dir[a]]]
        BY <3>2 DEF Entered
      <4>5. \A a \in Axes : /\ exec.from[a] + exec.block.steps[a] * exec.block.dir[a]
                                = position[a]
                            /\ position[a] \in Int
        BY <4>1, EndOfBlock DEF LineInv
      <4>6. /\ E.from \in [Axes -> Int] /\ \A a \in Axes : E.from[a] = position[a]
            /\ E.id = g.id /\ E.block = b /\ E.done = 0 /\ E \in Executions
        <5>1. [a \in Axes |-> exec.from[a]
                 + exec.block.steps[a] * exec.block.dir[a]] \in [Axes -> Int]
          BY <4>5
        <5> HIDE DEF E
        <5> QED BY <1>2, <4>4, <4>5, <5>1 DEF Executions
      <4>7. ASSUME NEW a \in Axes
            PROVE  /\ Counters(g)[a] \in 0 .. w
                   /\ Counters(g)[a] = w \div 2 + (Fine * g.from) * b.steps[a]
                        - ((position[a] - E.from[a]) * b.dir[a]) * w
        <5>1. Counters(g)[a] = w \div 2
          BY <4>3
        <5>2. b.steps[a] \in Nat /\ b.dir[a] \in {1, -1}
          BY <1>2 DEF DriverBlock, Directions
        <5>3. position[a] - E.from[a] = 0
          BY <4>5, <4>6
        <5>4. /\ (Fine * g.from) * b.steps[a] = 0
              /\ ((position[a] - E.from[a]) * b.dir[a]) * w = 0
          <6> HIDE DEF E, w, b, g
          <6>1. (Fine * g.from) * b.steps[a] = 0
            BY <4>1, <5>2
          <6>2. (position[a] - E.from[a]) * b.dir[a] = 0
            BY <5>2, <5>3
          <6> QED BY <1>2, <6>1, <6>2
        <5> HIDE DEF E, w, b, g
        <5> QED BY <1>2, <5>1, <5>4
      <4> HIDE DEF E
      <4> QED BY <4>1, <4>3, <4>6, <4>7
    <3> QED BY <3>1, <3>2
  <2>9. T \in Drivers
    <3>1. \A a \in Axes : b.steps[a] * Scale(g.amass) \in Int
      <4>1. \A x, y \in Nat : x * y \in Int
        OBVIOUS
      <4>2. \A a \in Axes : b.steps[a] \in Nat
        BY <1>2 DEF DriverBlock
      <4> HIDE DEF b, g
      <4> QED BY <1>2, <4>1, <4>2
    <3>2. [a \in Axes |-> b.steps[a] * Scale(g.amass)] \in [Axes -> Int]
      BY <3>1
    <3>3. g.n_step \in Int /\ b.dir \in Directions
      BY <1>1, <1>2 DEF Segments, DriverBlock
    <3> HIDE DEF data, E
    <3> QED BY <1>1, <1>2, <2>1, <2>2, <2>3, <2>8, <3>2, <3>3 DEF Drivers
  <2>10. /\ T.on = st.on /\ T.index = g.index /\ T.step_count = g.n_step
         /\ T.dir = b.dir /\ T.counter = Counters(g)
         /\ T.steps = [a \in Axes |-> b.steps[a] * Scale(g.amass)]
    <3> HIDE DEF data
    <3> QED BY <1>1, <2>1, <2>2, <2>3 DEF Drivers
  <2> HIDE DEF T, E, data
  <2> QED BY <1>1, <2>5, <2>6, <2>7, <2>8, <2>9, <2>10 DEF T, E
<1> QED BY <1>3, <1>4

LEMMA TicksLeft ==
  ASSUME NEW n \in Int, n < TickLimit, NEW x \in 1 .. n
  PROVE  x - 1 \in 0 .. n - 1 /\ (x - 1) % TickLimit = x - 1
BY DEF TickLimit

LEMMA StepISRKeeps == StepperIInv /\ StepISR => StepperIInv'
<1> SUFFICES ASSUME StepperIInv, StepISR PROVE StepperIInv'
  OBVIOUS
<1> USE DEF StepperIInv
<1> DEFINE g == segment_buffer[tail]
           T == Taken
           E == Entered(g)
           b == g.block
           w == Whole(b)
           r == Scale(g.amass)
           left == T.step_count - 1
           out == [a \in Axes |-> IF T.counter[a] + T.steps[a] > w THEN 1 ELSE 0]
           counter == [a \in Axes |-> (T.counter[a] + T.steps[a]) - out[a] * w]
<1>1. /\ st.on /\ head # tail /\ motor' = Pulsed /\ st' = Stepped(T)
      /\ position' = [a \in Axes |-> position[a] + st'.out[a] * st'.dir[a]]
      /\ tail' = IF st'.running THEN tail ELSE NextSegment(tail)
      /\ exec' = Executed(g)
      /\ UNCHANGED <<plan, ctl, pc, rest, prep, st_block_buffer, segment_buffer,
                     head, lost, added>>
  BY DEF StepISR, LineInv, SegmentRuns
<1>2. /\ Good(g) /\ T \in Drivers /\ T.on = st.on /\ T.index = g.index
      /\ T.step_count \in 1 .. g.n_step /\ T.dir = b.dir
      /\ T.steps = [a \in Axes |-> b.steps[a] * r]
      /\ E \in Executions /\ E.id = g.id /\ E.block = b
      /\ E.done = Fine * g.to - T.step_count * r /\ E.done \in Nat
      /\ \A a \in Axes :
           /\ T.counter[a] \in 0 .. w
           /\ T.counter[a] = w \div 2 + E.done * b.steps[a]
                - ((position[a] - E.from[a]) * b.dir[a]) * w
  BY <1>1, TakenIsRight
<1>3. /\ segment_buffer \in [Ring -> Segments] /\ head \in Ring /\ tail \in Ring
      /\ g \in Segments /\ position \in [Axes -> Int]
  BY DEF InRange, BuffersInRange, DriverInRange
<1>4. /\ b \in Blocks /\ b \in DriverBlock /\ w \in Nat /\ w \div 2 \in Int
      /\ st_block_buffer[g.index] = Bresenham(b) /\ g.n_step < TickLimit
      /\ r \in Nat /\ r <= Fine /\ Fine \in Nat /\ g.to \in Nat
      /\ g.to <= StepEvents(b) /\ StepEvents(b) \in Nat
      /\ g.amass \in 0 .. MAX_AMASS_LEVEL /\ g.n_step \in Int
  <2>1. /\ b \in Blocks /\ g.amass \in 0 .. MAX_AMASS_LEVEL
        /\ g.to \in Nat /\ g.to <= StepEvents(b) /\ g.n_step < TickLimit
        /\ st_block_buffer[g.index] = Bresenham(b) /\ g.n_step \in Int
    BY <1>2, <1>3 DEF Good, Segments
  <2>2. /\ b \in DriverBlock /\ w \in Nat /\ w \div 2 \in 0 .. w
        /\ StepEvents(b) \in Nat
    BY <2>1, BlocksAreBlocks, WholeIsEven
  <2>3. r \in Nat /\ r <= Fine /\ Fine \in Nat
    BY <2>1, Powers
  <2> HIDE DEF g, b, w, r
  <2> QED BY <2>1, <2>2, <2>3
<1>5. /\ st_block_buffer[T.index].count = w
  <2>1. \A x, y \in Nat : x * y = y * x
    OBVIOUS
  <2>2. StepEvents(b) * Fine = Fine * StepEvents(b)
    BY <1>4, <2>1
  <2> HIDE DEF T, b
  <2> QED BY <1>2, <1>4, <2>2 DEF Bresenham, Whole, w
<1>6. st' = [T EXCEPT !.counter = counter, !.out = out,
                      !.step_count = (T.step_count - 1) % TickLimit,
                      !.running = ((T.step_count - 1) % TickLimit) # 0]
  <2> HIDE DEF T, w
  <2> QED BY <1>1, <1>5 DEF Stepped
<1>7. /\ left \in 0 .. g.n_step - 1 /\ left \in Nat /\ left % TickLimit = left
  <2> DEFINE n == g.n_step
             x == T.step_count
  <2>1. n \in Int /\ n < TickLimit /\ x \in 1 .. n /\ left = x - 1
    <3>1. n \in Int /\ n < TickLimit
      BY <1>4
    <3> HIDE DEF T, g
    <3>2. x \in 1 .. n
      BY <1>2
    <3> QED BY <3>1, <3>2
  <2>2. left \in 0 .. n - 1 /\ left % TickLimit = left
    <3> HIDE DEF n, x
    <3>1. x - 1 \in 0 .. n - 1 /\ (x - 1) % TickLimit = x - 1
      BY <2>1, TicksLeft
    <3>2. left = x - 1
      BY <2>1
    <3> HIDE DEF left
    <3> QED BY <3>1, <3>2, Zenon
  <2>3. left \in Nat
    <3> HIDE DEF n, left
    <3> QED BY <2>1, <2>2
  <2> QED BY <2>2, <2>3
(* What one tick does to the counters. *)
<1>8. ASSUME NEW a \in Axes
      PROVE  /\ out[a] \in {0, 1} /\ counter[a] \in 0 .. w
             /\ b.dir[a] \in {1, -1} /\ E.from[a] \in Int /\ position[a] \in Int
             /\ counter[a] = w \div 2 + (E.done + r) * b.steps[a]
                  - (((position[a] + out[a] * b.dir[a]) - E.from[a]) * b.dir[a]) * w
  <2>1. /\ b.steps[a] \in 0 .. StepEvents(b) /\ b.dir[a] \in {1, -1}
        /\ E.from[a] \in Int /\ position[a] \in Int /\ E.done \in Int
    BY <1>2, <1>3, <1>4, StepEventsAreMost DEF Executions, DriverBlock, Directions, Axes
  <2>2. T.steps[a] = b.steps[a] * r
    BY <1>2
  <2>3. b.steps[a] * r \in 0 .. w
    <3>1. \A x, y, u, v \in Nat : x <= u /\ y <= v => x * y \in 0 .. v * u
      <4> SUFFICES ASSUME NEW x \in Nat, NEW y \in Nat, NEW u \in Nat, NEW v \in Nat,
                          x <= u, y <= v
                   PROVE  x * y \in 0 .. v * u
        OBVIOUS
      <4>1. x * y \in Nat /\ x * y <= u * y /\ u * y <= u * v /\ u * v = v * u
        OBVIOUS
      <4>2. u * y \in Nat /\ u * v \in Nat
        OBVIOUS
      <4> QED BY <4>1, <4>2
    <3>2. b.steps[a] \in Nat /\ b.steps[a] <= StepEvents(b)
      BY <1>4, <2>1
    <3> HIDE DEF b, r
    <3> QED BY <1>4, <3>1, <3>2 DEF w, Whole
  <2>4. /\ T.counter[a] \in 0 .. w
        /\ T.counter[a] = w \div 2 + E.done * b.steps[a]
             - ((position[a] - E.from[a]) * b.dir[a]) * w
    BY <1>2
  <2> DEFINE c == T.counter[a]
             inc == b.steps[a] * r
             o == IF c + inc > w THEN 1 ELSE 0
  <2>5. out[a] = o /\ counter[a] = (c + inc) - o * w
    <3>1. out[a] = o
      BY <2>2
    <3> QED BY <2>2, <3>1
  <2>6. /\ (c + inc) - o * w \in 0 .. w
        /\ (c + inc) - o * w = w \div 2 + (E.done + r) * b.steps[a]
             - (((position[a] + o * b.dir[a]) - E.from[a]) * b.dir[a]) * w
    <3> DEFINE s == b.steps[a]
               d == b.dir[a]
               f == E.done
               h == w \div 2
               spot == position[a]
               from == E.from[a]
    <3>1. /\ w \in Nat /\ h \in Int /\ c \in 0 .. w /\ inc \in 0 .. w /\ f \in Int
          /\ s \in Int /\ r \in Int /\ spot \in Int /\ from \in Int /\ d \in {1, -1}
          /\ inc = s * r /\ c = h + f * s - ((spot - from) * d) * w
      BY <1>4, <2>1, <2>3, <2>4
    <3> HIDE DEF s, d, f, h, spot, from, inc, c, w, r
    <3>2. /\ (c + inc) - o * w \in 0 .. w
          /\ (c + inc) - o * w = h + (f + r) * s - (((spot + o * d) - from) * d) * w
      BY <3>1, CounterStep
    <3> QED BY <3>2 DEF s, d, f, h, spot, from
  <2> HIDE DEF c, inc, w, r, E, b, out, counter
  <2>7. out[a] \in {0, 1} /\ counter[a] \in 0 .. w
    BY <2>5, <2>6
  <2> QED BY <2>1, <2>5, <2>6, <2>7
<1> HIDE DEF out, counter, w, E
<1>9. /\ st' \in Drivers /\ st'.on = TRUE /\ st'.index = g.index
      /\ st'.running = (left # 0) /\ st'.step_count = left
      /\ st'.counter = counter /\ st'.out = out /\ st'.dir = b.dir
      /\ st'.steps = [a \in Axes |-> b.steps[a] * r]
  <2>1. /\ out \in [Axes -> {0, 1}] /\ counter \in [Axes -> Int]
    <3>1. \A a \in Axes : out[a] \in {0, 1} /\ counter[a] \in Int
      BY <1>4, <1>8
    <3> QED BY <3>1 DEF out, counter
  <2>2. st' = [T EXCEPT !.counter = counter, !.out = out,
                        !.step_count = left, !.running = (left # 0)]
    BY <1>6, <1>7
  <2>3. left \in Int /\ (left # 0) \in BOOLEAN
    BY <1>7
  <2>4. st.on = TRUE
    BY <1>1 DEF InRange, DriverInRange, Drivers
  <2> HIDE DEF T, left
  <2> QED BY <1>2, <2>1, <2>2, <2>3, <2>4 DEF Drivers
<1>10. position' = [a \in Axes |-> position[a] + out[a] * b.dir[a]]
       /\ position' \in [Axes -> Int]
  <2>1. position' = [a \in Axes |-> position[a] + out[a] * b.dir[a]]
    BY <1>1, <1>9
  <2>2. ASSUME NEW a \in Axes PROVE position[a] + out[a] * b.dir[a] \in Int
    <3> HIDE DEF b
    <3> QED BY <1>8
  <2> QED BY <2>1, <2>2
<1>11. /\ exec' \in Executions /\ exec'.id = g.id /\ exec'.block = b
       /\ exec'.done = E.done + r /\ exec'.from = E.from
       /\ exec'.done = Fine * g.to - left * r
       /\ exec'.done \in 0 .. w
  <2>1. exec' = [E EXCEPT !.done = @ + r]
    BY <1>1 DEF Executed, Entered, Scale, E
  <2>2. E.done + r \in Int
    BY <1>2, <1>4
  <2>3. /\ exec' \in Executions /\ exec'.id = g.id /\ exec'.block = b
        /\ exec'.done = E.done + r /\ exec'.from = E.from
    <3> HIDE DEF r
    <3> QED BY <1>2, <2>1, <2>2 DEF Executions
  <2>4. /\ E.done + r = Fine * g.to - left * r
        /\ E.done + r <= Fine * g.to
    <3> DEFINE s == T.step_count
               x == g.to
    <3>1. /\ s \in Int /\ s >= 1 /\ left = s - 1 /\ x \in Nat
          /\ E.done = Fine * x - s * r
      BY <1>2, <1>4
    <3> HIDE DEF s, x, left, r
    <3>2. s * r = left * r + r /\ left * r >= 0 /\ left * r \in Int
      BY <1>4, <3>1
    <3>3. Fine * x \in Int /\ s * r \in Int
      BY <1>4, <3>1
    <3>4. E.done + r = Fine * x - left * r /\ E.done + r <= Fine * x
      BY <1>4, <3>1, <3>2, <3>3
    <3> QED BY <3>4 DEF x
  <2>5. Fine * g.to <= w
    <3> DEFINE x == g.to
               e == StepEvents(b)
    <3>1. x \in Nat /\ e \in Nat /\ x <= e
      BY <1>4
    <3> HIDE DEF x, e
    <3>2. Fine * x <= Fine * e
      BY <1>4, <3>1
    <3> QED BY <3>2 DEF w, Whole, x, e
  <2>6. E.done + r \in 0 .. w
    <3>1. Fine * g.to \in Int
      <4> DEFINE x == g.to
      <4>1. x \in Nat
        BY <1>4
      <4> HIDE DEF x
      <4>2. Fine * x \in Int
        BY <1>4, <4>1
      <4> QED BY <4>2 DEF x
    <3> DEFINE y == Fine * g.to
    <3> HIDE DEF y, r
    <3> QED BY <1>2, <1>4, <2>4, <2>5, <3>1 DEF y
  <2> HIDE DEF r, left
  <2> QED BY <2>3, <2>4, <2>6
<1> HIDE DEF T, left, b, r
<1>12. /\ tail' \in Ring
       /\ NextSegment(head) # tail => NextSegment(head) # tail'
       /\ Queued = InRing(tail, head) /\ Queued' = InRing(tail', head)
       /\ \A i \in Queued' : i \in Queued
       /\ st'.running => tail' = tail
       /\ ~st'.running => tail' = NextSegment(tail)
       /\ tail \in Queued
       /\ head # tail' => tail' \in Queued /\ PrevSegment(head) \in Queued
  <2>1. tail' \in Ring
    BY <1>1, <1>3, NextInRing
  <2>2. Queued = InRing(tail, head) /\ Queued' = InRing(tail', head)
    BY <1>1, <1>3, QueuedIsInRing, QueuedIsInRingNext
  <2>3. /\ \A i \in Queued' : i \in Queued
        /\ NextSegment(head) # tail => NextSegment(head) # tail'
    BY <1>1, <1>3, <2>2, TailMoves
  <2>4. tail \in Queued
    BY <1>1, <1>3, <2>2, RingSegments
  <2>5. head # tail' => tail' \in Queued' /\ PrevSegment(head) \in Queued'
    BY <1>3, <2>1, <2>2, RingSegments
  <2> QED BY <1>1, <2>1, <2>2, <2>3, <2>4, <2>5
<1>13. InRange'
  <2>1. MainInRange'
    BY <1>1 DEF InRange, MainInRange
  <2>2. BuffersInRange'
    BY <1>1, <1>12 DEF InRange, BuffersInRange
  <2>3. DriverInRange'
    BY <1>1, <1>9, <1>10, <1>11, PulsedInRange DEF DriverInRange
  <2> QED BY <2>1, <2>2, <2>3 DEF InRange
<1>14. PulsesInv'
  <2>1. Handshake' /\ KilledIsLost' /\ HoldHasState'
    BY <1>1, <1>9 DEF PulsesInv, Handshake, KilledIsLost, HoldHasState
  <2>2. MotorsFollow'
    <3>1. ~lost => motor' = position
      BY <1>1, PulsesReach DEF PulsesInv
    <3>2. ASSUME ~lost, NEW a \in Axes
          PROVE  position'[a] = motor'[a] + st'.out[a] * st'.dir[a]
      BY <1>1, <1>10, <3>1, <3>2
    <3> QED BY <1>1, <1>9, <3>2 DEF MotorsFollow
  <2> QED BY <2>1, <2>2 DEF PulsesInv
<1>15. PlanInOrder' /\ PrepInOrder'
  <2>1. PlanInOrder'
    BY <1>1 DEF LineInv, PlanInOrder
  <2>2. PrepInOrder'
    BY <1>1, <1>12 DEF LineInv, PrepInOrder, Partial
  <2> QED BY <2>1, <2>2
<1>16. SegmentsGood'
  <2>1. ASSUME NEW i \in Queued PROVE Good(segment_buffer[i])'
    BY <1>1 DEF LineInv, SegmentsGood, Good
  <2>2. pc = "publish" => Good(segment_buffer[head])'
    BY <1>1 DEF LineInv, SegmentsGood, Good
  <2> QED BY <1>1, <1>12, <2>1, <2>2 DEF LineInv, SegmentsGood
<1>17. Chained'
  <2>1. ~st'.running => Driver' = After(g)
    <3>1. ASSUME ~st'.running PROVE exec'.done = Fine * g.to
      <4>1. left = 0
        BY <1>9, <3>1
      <4>2. left * r = 0
        BY <1>4, <4>1
      <4> DEFINE y == Fine * g.to
      <4>3. y \in Int
        <5> DEFINE x == g.to
        <5>1. x \in Nat
          BY <1>4
        <5> HIDE DEF x
        <5>2. Fine * x \in Int
          BY <1>4, <5>1
        <5> QED BY <5>2 DEF x
      <4> HIDE DEF y
      <4> QED BY <1>11, <4>2, <4>3 DEF y
    <3> QED BY <1>9, <1>11, <3>1 DEF Driver, After, b
  <2>2. Newest' = Newest
    <3>1. CASE head # tail'
      BY <1>1, <3>1 DEF Newest, After
    <3>2. CASE head = tail'
      <4>1. ~st'.running /\ PrevSegment(head) = tail
        BY <1>1, <1>3, <1>12, <3>2, NextInRing
      <4> QED BY <1>1, <2>1, <3>2, <4>1 DEF Newest, g
    <3> QED BY <3>1, <3>2
  <2>3. ~st'.running /\ head # tail' =>
          Follows(Driver', Before(segment_buffer[tail']))
    BY <1>12, <2>1 DEF LineInv, Chained, g
  <2>4. Preparing' = Preparing
    BY <1>1 DEF Preparing
  <2> QED BY <1>1, <1>12, <2>2, <2>3, <2>4 DEF LineInv, Chained, Partial
<1>18. SlotsSuffice'
  BY <1>1, <1>12 DEF LineInv, SlotsSuffice, Fresh, Partial, Behind, Ahead
<1>19. SegmentRuns'
  <2>1. SUFFICES ASSUME st'.running
                 PROVE  /\ head # tail
                        /\ exec'.id = g.id /\ exec'.block = g.block
                        /\ st'.index = g.index /\ st'.step_count \in 1 .. g.n_step
                        /\ exec'.done
                             = Fine * g.to - st'.step_count * Scale(g.amass)
                        /\ st'.dir = g.block.dir
                        /\ st'.steps
                             = [a \in Axes |-> g.block.steps[a] * Scale(g.amass)]
    BY <1>1, <1>12 DEF SegmentRuns, g
  <2>2. left \in 1 .. g.n_step
    <3>1. left # 0
      BY <1>9, <2>1
    <3> QED BY <1>4, <1>7, <3>1
  <2> QED BY <1>1, <1>9, <1>11, <2>2 DEF b, r
<1>20. CountersTrue'
  <2>1. exec'.block # NoBlock
    BY <1>4, <1>11, BlocksAreBlocks
  <2>2. ASSUME NEW a \in Axes
        PROVE  /\ st'.counter[a] \in 0 .. Whole(exec'.block)
               /\ st'.counter[a] = Whole(exec'.block) \div 2
                    + exec'.done * exec'.block.steps[a]
                    - StepsMade(a)' * Whole(exec'.block)
    <3>1. StepsMade(a)' = ((position[a] + out[a] * b.dir[a]) - E.from[a]) * b.dir[a]
      BY <1>10, <1>11 DEF StepsMade
    <3> QED BY <1>8, <1>9, <1>11, <3>1 DEF w
  <2> QED BY <1>11, <2>1, <2>2 DEF CountersTrue, w
<1> QED BY <1>13, <1>14, <1>15, <1>16, <1>17, <1>18, <1>19, <1>20 DEF LineInv

-----------------------------------------------------------------------------
(* The theorems. *)

LEMMA StepKeeps == StepperIInv /\ [Next]_vars => StepperIInv'
<1> SUFFICES ASSUME StepperIInv, [Next]_vars PROVE StepperIInv'
  OBVIOUS
<1>1. CASE \E b \in Blocks : AddBlock(b)
  BY <1>1, AddBlockKeeps
<1>2. CASE LoadBlock
  <2>1. CASE prep.recalculate
    BY <1>2, <2>1, RecalculatedKeeps
  <2>2. CASE ~prep.recalculate
    BY <1>2, <2>2, LoadedKeeps
  <2> QED BY <2>1, <2>2
<1>3. CASE StepISR
  BY <1>3, StepISRKeeps
<1>4. CASE UNCHANGED vars
  <2>1. /\ SameDriver /\ SamePrep /\ prep' = prep /\ pc' = pc
        /\ UNCHANGED <<plan, rest, shared, position, exec, added>>
        /\ UNCHANGED <<ctl, motor, lost>> /\ st' = st
    BY <1>4 DEF vars, shared, SameDriver, SamePrep, Partial
  <2>2. InRange'
    BY <2>1 DEF StepperIInv, InRange, MainInRange, BuffersInRange,
                DriverInRange, shared
  <2>3. PulsesInv'
    BY <2>1 DEF StepperIInv, PulsesInv, Handshake, KilledIsLost, HoldHasState,
                MotorsFollow
  <2>4. PrepInOrder'
    BY <2>1 DEF StepperIInv, LineInv, PrepInOrder, Partial, shared
  <2>5. LineInv
    BY DEF StepperIInv
  <2>6. LineInv'
    BY <2>1, <2>4, <2>5, QuietKeepsLine
  <2> QED BY <2>2, <2>3, <2>6 DEF StepperIInv
<1> QED
  BY <1>1, <1>2, <1>3, <1>4, OverrideKeeps, FeedHoldKeeps, CycleStartKeeps,
     CycleStopKeeps, KillKeeps, ResetKeeps, RefillKeeps, PrepReturnsKeeps,
     MakeSegmentKeeps, PublishSegmentKeeps, ShutDownKeeps DEF Next

(* The rings of segments and of block data, the preparation that fills them
   and the interrupt that empties them are in range and in order at every
   step: what the interrupt will take next goes on where it is. *)
THEOREM RingsStayInOrder == Spec => []StepperIInv
<1>1. Init => StepperIInv
  BY StepperInitHolds
<1>2. StepperIInv /\ [Next]_vars => StepperIInv'
  BY StepKeeps
<1> QED BY <1>1, <1>2, PTL DEF Spec

(* No control ever leaves its states, and no index its ring. *)
THEOREM StepperTypeCorrect == Spec => []TypeOK
<1>1. StepperIInv => TypeOK
  <2> SUFFICES ASSUME StepperIInv PROVE TypeOK
    OBVIOUS
  <2>1. Len(plan) <= MaxBlocks
    <3>1. Len(plan) \in Nat /\ added \in Nat /\ MaxBlocks \in Nat
          /\ Len(plan) <= added /\ added <= MaxBlocks
      BY StepperConstants DEF StepperIInv, InRange, MainInRange
    <3> QED BY <3>1
  <2>2. /\ pc \in {"rt", "prep", "segment", "publish"}
        /\ ctl.state \in {"IDLE", "CYCLE", "HOLD", "CANCEL"}
        /\ prep.index \in Slots
    BY DEF StepperIInv, InRange, MainInRange, Controls, Preparations
  <2>3. st.index \in Slots /\ \A a \in Axes : st.out[a] \in {0, 1}
    BY DEF StepperIInv, InRange, DriverInRange, Drivers
  <2>4. /\ head \in DOMAIN segment_buffer /\ tail \in DOMAIN segment_buffer
        /\ {position, motor} \subseteq [Axes -> Int]
    BY DEF StepperIInv, InRange, BuffersInRange, DriverInRange
  <2> QED BY <2>1, <2>2, <2>3, <2>4 DEF TypeOK
<1> QED BY <1>1, RingsStayInOrder, PTL

(* Unless the steppers were killed in motion, the motors are where
   sys_position says, but for the one pulse that is due: whatever holds,
   cancels, overrides and restarts of the interrupt do. *)
THEOREM PulsesArrive == Spec => []MotorsFollow
<1>1. StepperIInv => MotorsFollow
  BY DEF StepperIInv, PulsesInv
<1> QED BY <1>1, RingsStayInOrder, PTL

(* The interrupt never takes a segment without a step. *)
THEOREM NoSegmentIsEmpty == Spec => []NoEmptySegment
<1>1. StepperIInv => NoEmptySegment
  <2> SUFFICES ASSUME StepperIInv, NEW i \in Queued
               PROVE  segment_buffer[i].n_step > 0
    BY DEF NoEmptySegment
  <2> DEFINE g == segment_buffer[i]
             p == 2 ^ g.amass
             x == g.from
             y == g.to
  <2>1. /\ x \in Nat /\ y \in Nat /\ x < y /\ g.n_step = (y - x) * p
        /\ g.amass \in 0 .. MAX_AMASS_LEVEL
    BY DEF StepperIInv, LineInv, SegmentsGood, Good
  <2>2. p \in Nat \ {0}
    BY <2>1, Powers
  <2> HIDE DEF x, y, p
  <2>3. y - x \in Nat \ {0}
    BY <2>1
  <2>4. \A u, v \in Nat \ {0} : u * v > 0
    OBVIOUS
  <2> QED BY <2>1, <2>2, <2>3, <2>4
<1> QED BY <1>1, RingsStayInOrder, PTL

(* At every tick the tool is within half a step of the line of the block in
   execution, on either axis: for any blocks, any mix of smoothing levels and
   wherever holds and changed plans cut the segments. *)
THEOREM ToolStaysOnTheLine == Spec => []OnTheLine
<1>1. StepperIInv => OnTheLine
  <2> SUFFICES ASSUME StepperIInv PROVE OnTheLine
    OBVIOUS
  <2> DEFINE b == exec.block
             w == Whole(b)
             f == exec.done
             h == w \div 2
  <2>1. /\ b \in DriverBlock /\ position \in [Axes -> Int]
        /\ exec.from \in [Axes -> Int] /\ f \in Int
    BY BlocksAreBlocks DEF StepperIInv, InRange, DriverInRange, Executions
  <2>2. w \in Nat /\ h \in Int /\ 2 * h = w
    BY <2>1, WholeIsEven
  <2>3. f \in 0 .. w
    BY DEF StepperIInv, LineInv, CountersTrue
  <2>4. ASSUME NEW a \in Axes
        PROVE  LET made == (position[a] - exec.from[a]) * b.dir[a]
                   off == 2 * (made * w - f * b.steps[a])
               IN off <= w /\ -off <= w
    <3> DEFINE made == (position[a] - exec.from[a]) * b.dir[a]
               s == b.steps[a]
               c == st.counter[a]
    <3>1. c \in 0 .. w /\ c = h + f * s - made * w
      BY DEF StepperIInv, LineInv, CountersTrue, StepsMade
    <3>2. made \in Int /\ s \in Int
      <4>1. /\ position[a] \in Int /\ exec.from[a] \in Int /\ s \in Int
            /\ b.dir[a] \in {1, -1}
        BY <2>1 DEF DriverBlock, Directions
      <4> HIDE DEF b
      <4> QED BY <4>1
    <3> HIDE DEF made, s, c, b, w, f, h
    <3>3. made * w \in Int /\ f * s \in Int
      BY <2>1, <2>2, <3>2
    <3>4. 2 * (made * w - f * s) <= w /\ -(2 * (made * w - f * s)) <= w
      BY <2>2, <3>1, <3>3
    <3> QED BY <3>4 DEF made, s
  <2> HIDE DEF f, b
  <2> QED BY <2>2, <2>3, <2>4 DEF OnTheLine, Whole, f, b
<1> QED BY <1>1, RingsStayInOrder, PTL

-----------------------------------------------------------------------------
(* Arithmetic. *)

LEMMA Quotient ==
  ASSUME NEW a \in Int, NEW b \in Nat \ {0}
  PROVE  /\ a \div b \in Int /\ a % b \in 0 .. b - 1
         /\ a = (b * (a \div b)) + (a % b)
         /\ b * (a \div b) <= a /\ a < b * (a \div b) + b
<1>1. /\ a \div b \in Int /\ a % b \in 0 .. b - 1
      /\ a = (b * (a \div b)) + (a % b)
  OBVIOUS
<1> QED BY <1>1

LEMMA Smaller ==
  ASSUME NEW b \in Nat \ {0}, NEW x \in Int, NEW y \in Int,
         b * x < b * y + b
  PROVE  x <= y
  OBVIOUS

(* What dividing with an added half does: it rounds to the nearest. *)
LEMMA Rounding ==
  ASSUME NEW k \in Nat, NEW s \in Nat \ {0}
  PROVE  LET q == (2 * k + s) \div (2 * s)
         IN q \in Nat /\ 2 * (s * q) - 2 * k \in -s .. s
<1> DEFINE q == (2 * k + s) \div (2 * s)
<1>1. 2 * s \in Nat \ {0} /\ 2 * k + s \in Nat
  OBVIOUS
<1>2. /\ q \in Int
      /\ (2 * s) * q <= 2 * k + s /\ 2 * k + s < (2 * s) * q + 2 * s
  <2> DEFINE a == 2 * k + s
             b == 2 * s
  <2>1. a \in Int /\ b \in Nat \ {0}
    BY <1>1
  <2> HIDE DEF a, b
  <2>2. a \div b \in Int /\ b * (a \div b) <= a /\ a < b * (a \div b) + b
    BY <2>1, Quotient
  <2> QED BY <2>2 DEF a, b
<1>3. (2 * s) * q = 2 * (s * q) /\ s * q \in Int
  BY <1>2
<1>4. 0 <= q
  <2>1. (2 * s) * 0 < (2 * s) * q + 2 * s
    BY <1>1, <1>2
  <2> QED BY <1>1, <1>2, <2>1, Smaller
<1>5. 2 * (s * q) - 2 * k \in -s .. s
  BY <1>2, <1>3
<1> QED BY <1>2, <1>4, <1>5

(* The same with the sign taken off and put on again. *)
LEMMA SignedRounding ==
  ASSUME NEW k \in Int, NEW s \in Nat \ {0}
  PROVE  LET q == Sign(k) * ((2 * Magnitude(k) + s) \div (2 * s))
         IN q \in Int /\ 2 * (s * q) - 2 * k \in -s .. s
<1> DEFINE m == Magnitude(k)
           p == (2 * m + s) \div (2 * s)
<1>1. m \in Nat /\ k = Sign(k) * m /\ Sign(k) \in {-1, 1}
  BY DEF Magnitude, Sign
<1>2. p \in Nat /\ 2 * (s * p) - 2 * m \in -s .. s
  <2> HIDE DEF m
  <2> QED BY <1>1, Rounding
<1> HIDE DEF m, p
<1>3. s * p \in Int /\ s * (-p) = -(s * p)
  BY <1>2
<1>4. CASE Sign(k) = 1
  BY <1>1, <1>2, <1>3, <1>4 DEF m, p
<1>5. CASE Sign(k) = -1
  <2>1. Sign(k) * p = -p /\ k = -m
    BY <1>1, <1>2, <1>5
  <2>2. 2 * (s * (-p)) - 2 * (-m) \in -s .. s
    BY <1>1, <1>2, <1>3
  <2> QED BY <2>1, <2>2, <1>2 DEF m, p
<1> QED BY <1>1, <1>4, <1>5

LEMMA Constants ==
  /\ Span \in Nat \ {0} /\ Sub \in Nat \ {0} /\ BYTE \in Nat \ {0}
  /\ BLOCK_BUFFER_SIZE \in Nat \ {0}
  /\ StepsPerMm \in Nat \ {0} /\ PerMm \in Nat \ {0}
  /\ Moves \subseteq [XY -> Int] /\ WorkOffset \in [XY -> Int]
  BY PositionsAssumption

(* A line's end is rounded to the nearest step. *)
LEMMA NearestStep ==
  ASSUME NEW n \in Int
  PROVE  Lround(n) \in Int /\ 2 * (Sub * Lround(n)) - 2 * n \in -Sub .. Sub
  BY SignedRounding, Constants DEF Lround

(* One at a step is left alone ... *)
LEMMA WholeSteps ==
  ASSUME NEW n \in Int
  PROVE  Lround(Sub * n) = n
<1> DEFINE q == Lround(Sub * n)
<1>1. Sub \in Nat \ {0} /\ Sub * n \in Int
  BY Constants
<1>2. q \in Int /\ 2 * (Sub * q) - 2 * (Sub * n) \in -Sub .. Sub
  <2> DEFINE t == Sub * n
  <2>1. t \in Int
    BY <1>1
  <2> HIDE DEF t
  <2>2. Lround(t) \in Int /\ 2 * (Sub * Lround(t)) - 2 * t \in -Sub .. Sub
    BY <2>1, NearestStep
  <2> QED BY <2>2 DEF t
<1> HIDE DEF q
<1>3. Sub * q \in Int /\ Sub * n \in Int
  BY <1>1, <1>2
<1>4. Sub * q < Sub * n + Sub /\ Sub * n < Sub * q + Sub
  BY <1>1, <1>2, <1>3
<1>5. q <= n /\ n <= q
  BY <1>1, <1>2, <1>4, Smaller
<1> QED BY <1>2, <1>5 DEF q

(* ... and one in the travel stays there. *)
LEMMA RoundsIntoTravel ==
  ASSUME NEW n \in Int, n <= 0, n >= -(Sub * Span)
  PROVE  Lround(n) \in -Span .. 0
<1> DEFINE q == Lround(n)
<1>1. Sub \in Nat \ {0} /\ Span \in Nat \ {0}
  BY Constants
<1>2. q \in Int /\ 2 * (Sub * q) - 2 * n \in -Sub .. Sub
  BY NearestStep
<1> HIDE DEF q
<1>3. Sub * q \in Int /\ Sub * Span \in Int /\ Sub * 0 = 0
      /\ Sub * (-Span) = -(Sub * Span)
  BY <1>1, <1>2
<1>4. Sub * q < Sub * 0 + Sub /\ Sub * (-Span) < Sub * q + Sub
  BY <1>1, <1>2, <1>3
<1>5. q <= 0 /\ -Span <= q
  BY <1>1, <1>2, <1>4, Smaller
<1> QED BY <1>1, <1>2, <1>5 DEF q

(* A number of steps is printed to the nearest digit. *)
LEMMA NearestDigit ==
  ASSUME NEW n \in Int
  PROVE  /\ printFloat(n) \in Int
         /\ 2 * (StepsPerMm * printFloat(n)) - 2 * (n * PerMm)
              \in -StepsPerMm .. StepsPerMm
<1>1. StepsPerMm \in Nat \ {0} /\ PerMm \in Nat \ {0}
  BY Constants
<1>2. n * PerMm \in Int
  BY <1>1
<1>3. Sign(n * PerMm) = Sign(n) /\ Magnitude(n * PerMm) = Magnitude(n) * PerMm
  <2>1. CASE n < 0
    <3>1. n * PerMm < 0 /\ -(n * PerMm) = (-n) * PerMm
      BY <1>1, <2>1
    <3> QED BY <2>1, <3>1, <1>2 DEF Sign, Magnitude
  <2>2. CASE n >= 0
    <3>1. n * PerMm >= 0
      BY <1>1, <2>2
    <3> QED BY <2>2, <3>1, <1>2 DEF Sign, Magnitude
  <2> QED BY <2>1, <2>2
<1>4. 2 * Magnitude(n) * PerMm = 2 * (Magnitude(n) * PerMm)
  BY <1>1 DEF Magnitude
<1>5. printFloat(n) = Sign(n * PerMm)
                        * ((2 * Magnitude(n * PerMm) + StepsPerMm)
                             \div (2 * StepsPerMm))
  BY <1>3, <1>4 DEF printFloat
<1> DEFINE k == n * PerMm
<1>6. k \in Int
  BY <1>2
<1> HIDE DEF k
<1>7. LET q == Sign(k) * ((2 * Magnitude(k) + StepsPerMm) \div (2 * StepsPerMm))
      IN q \in Int /\ 2 * (StepsPerMm * q) - 2 * k \in -StepsPerMm .. StepsPerMm
  BY <1>1, <1>6, SignedRounding
<1> QED BY <1>5, <1>7 DEF k

-----------------------------------------------------------------------------
(* Bresenham's line: of a motor with o of the M events, f steps are made in e
   events. *)
LEMMA EventsOfAMotor ==
  ASSUME NEW M \in Nat \ {0}, NEW o \in 0 .. M, NEW e \in 0 .. M
  PROVE  LET f == (2 * e * o + M - 1) \div (2 * M)
         IN /\ f \in 0 .. e /\ o - f \in 0 .. M - e
            /\ e = 0 => f = 0
<1> DEFINE t == e * o
           f == (2 * t + M - 1) \div (2 * M)
<1>1. /\ t \in Nat /\ 2 * e * o = 2 * t
      /\ t <= M * e
      /\ (M - e) * (M - o) >= 0
      /\ (M - e) * (M - o) = M * M - M * o - M * e + t
  <2>1. e * o \in Nat /\ 2 * e * o = 2 * (e * o)
    OBVIOUS
  <2>2. e * o <= M * e
    OBVIOUS
  <2>3. M - e \in Nat /\ M - o \in Nat
    OBVIOUS
  <2>4. (M - e) * (M - o) >= 0
    BY <2>3
  <2>5. (M - e) * (M - o) = M * M - M * o - M * e + e * o
    OBVIOUS
  <2> QED BY <2>1, <2>2, <2>4, <2>5
<1> HIDE DEF t
<1>2. f \in Int /\ (2 * M) * f <= 2 * t + M - 1
      /\ 2 * t + M - 1 < (2 * M) * f + 2 * M
  <2> DEFINE a == 2 * t + M - 1
             b == 2 * M
  <2>1. a \in Int /\ b \in Nat \ {0}
    BY <1>1
  <2> HIDE DEF a, b
  <2>2. a \div b \in Int /\ b * (a \div b) <= a /\ a < b * (a \div b) + b
    BY <2>1, Quotient
  <2> QED BY <2>2 DEF a, b
<1> HIDE DEF f
<1>3. M * f \in Int /\ (2 * M) * f = 2 * (M * f) /\ M * 0 = 0
      /\ M * o \in Int /\ M * e \in Int /\ M * M \in Int
  BY <1>2
<1>4. 0 <= f
  <2>1. M * 0 < M * f + M
    BY <1>1, <1>2, <1>3
  <2> QED BY <1>2, <2>1, Smaller
<1>5. f <= e
  <2>1. M * f < M * e + M
    BY <1>1, <1>2, <1>3
  <2> QED BY <1>2, <2>1, Smaller
<1>6. o - f <= M - e
  <2>1. M * (o - M + e) = M * o - M * M + M * e
    BY <1>3
  <2>2. M * (o - M + e) <= t
    BY <1>1, <2>1, <1>3
  <2>3. M * (o - M + e) < M * f + M
    BY <1>1, <1>2, <1>3, <2>1, <2>2
  <2>4. o - M + e <= f
    BY <1>2, <2>3, Smaller
  <2> QED BY <1>2, <2>4
<1>7. f <= o
  <2>1. t <= M * o
    BY DEF t
  <2>2. M * f < M * o + M
    BY <1>1, <1>2, <1>3, <2>1
  <2> QED BY <1>2, <2>2, Smaller
<1>8. e = 0 => f = 0
  BY <1>2, <1>4, <1>5
<1>9. f \in 0 .. e /\ o - f \in 0 .. M - e
  BY <1>2, <1>4, <1>5, <1>6, <1>7
<1>10. f = (2 * e * o + M - 1) \div (2 * M)
  BY <1>1 DEF f
<1> QED BY <1>8, <1>9, <1>10

Block == {b \in [Motors -> Int] : MotorsMax(b) \in Nat \ {0}}

(* The steps that e events of a block have made, on both motors. *)
MadeOf(b, e) == [m \in Motors |-> Made(b, e, m)]

LEMMA StepsOfAMotor ==
  ASSUME NEW b \in Block, NEW e \in 0 .. MotorsMax(b), NEW m \in Motors
  PROVE  \E f \in 0 .. e :
           /\ Made(b, e, m) = Sign(b[m]) * f
           /\ b[m] = Sign(b[m]) * Magnitude(b[m]) /\ Sign(b[m]) \in {1, -1}
           /\ Magnitude(b[m]) - f \in 0 .. MotorsMax(b) - e
           /\ Magnitude(b[m]) \in 0 .. MotorsMax(b)
           /\ e = 0 => f = 0
<1> DEFINE M == MotorsMax(b)
           o == Magnitude(b[m])
           f == (2 * e * o + M - 1) \div (2 * M)
<1>1. /\ b[m] \in Int /\ b["A"] \in Int /\ b["B"] \in Int
      /\ M \in Nat \ {0} /\ e \in 0 .. M
  BY DEF Block, Motors
<1>2. o \in 0 .. M /\ b[m] = Sign(b[m]) * o /\ Sign(b[m]) \in {1, -1}
  BY <1>1 DEF Magnitude, Sign, MotorsMax, Motors
<1>3. Made(b, e, m) = Sign(b[m]) * f
  BY DEF Made
<1>4. f \in 0 .. e /\ o - f \in 0 .. M - e /\ (e = 0 => f = 0)
  <2> HIDE DEF M, o
  <2> QED BY <1>1, <1>2, EventsOfAMotor
<1> QED BY <1>2, <1>3, <1>4

(* One of the motors makes a step in every event; so an axis moves in one
   direction only, and ends where the block ends. *)
Between(n, a, b) == (a <= n /\ n <= b) \/ (b <= n /\ n <= a)

LEMMA OnTheWay ==
  ASSUME NEW b \in Block, NEW e \in 0 .. MotorsMax(b)
  PROVE  /\ MadeOf(b, e) \in [Motors -> Int]
         /\ \A axis \in XY : /\ Twice(MadeOf(b, e), axis) \in Int
                             /\ Twice(b, axis) \in Int
                             /\ Between(Twice(MadeOf(b, e), axis), 0, Twice(b, axis))
         /\ e = 0 => MadeOf(b, e) = [m \in Motors |-> 0]
         /\ e = MotorsMax(b) => MadeOf(b, e) = b
<1> DEFINE M == MotorsMax(b)
<1>1. /\ b \in [Motors -> Int] /\ b["A"] \in Int /\ b["B"] \in Int
      /\ M \in Nat \ {0} /\ e \in 0 .. M
  BY DEF Block, Motors
<1>2. PICK f \in 0 .. e :
           /\ Made(b, e, "A") = Sign(b["A"]) * f
           /\ b["A"] = Sign(b["A"]) * Magnitude(b["A"])
           /\ Sign(b["A"]) \in {1, -1}
           /\ Magnitude(b["A"]) - f \in 0 .. M - e
           /\ Magnitude(b["A"]) \in 0 .. M
           /\ e = 0 => f = 0
  BY <1>1, StepsOfAMotor DEF Motors
<1>3. PICK g \in 0 .. e :
           /\ Made(b, e, "B") = Sign(b["B"]) * g
           /\ b["B"] = Sign(b["B"]) * Magnitude(b["B"])
           /\ Sign(b["B"]) \in {1, -1}
           /\ Magnitude(b["B"]) - g \in 0 .. M - e
           /\ Magnitude(b["B"]) \in 0 .. M
           /\ e = 0 => g = 0
  BY <1>1, StepsOfAMotor DEF Motors
<1>4. M = Magnitude(b["A"]) \/ M = Magnitude(b["B"])
  BY DEF MotorsMax
<1> DEFINE p == Magnitude(b["A"])
           q == Magnitude(b["B"])
           s == Sign(b["A"])
           r == Sign(b["B"])
<1>5. /\ Made(b, e, "A") \in Int /\ Made(b, e, "B") \in Int
      /\ Between(Made(b, e, "A") + Made(b, e, "B"), 0, b["A"] + b["B"])
      /\ Between(Made(b, e, "A") - Made(b, e, "B"), 0, b["A"] - b["B"])
  <2>1. /\ Made(b, e, "A") = s * f /\ b["A"] = s * p
        /\ Made(b, e, "B") = r * g /\ b["B"] = r * q
        /\ M = p \/ M = q
        /\ p \in 0 .. M /\ q \in 0 .. M /\ s \in {1, -1} /\ r \in {1, -1}
        /\ p - f \in 0 .. M - e /\ q - g \in 0 .. M - e
    BY <1>2, <1>3, <1>4
  <2> HIDE DEF M, p, q, s, r
  <2>2. CASE s = 1 /\ r = 1
    BY <2>1, <2>2, <1>1 DEF Between
  <2>3. CASE s = 1 /\ r = -1
    BY <2>1, <2>3, <1>1 DEF Between
  <2>4. CASE s = -1 /\ r = 1
    BY <2>1, <2>4, <1>1 DEF Between
  <2>5. CASE s = -1 /\ r = -1
    BY <2>1, <2>5, <1>1 DEF Between
  <2> QED BY <2>1, <2>2, <2>3, <2>4, <2>5
<1>6. /\ MadeOf(b, e) \in [Motors -> Int]
      /\ MadeOf(b, e)["A"] = Made(b, e, "A")
      /\ MadeOf(b, e)["B"] = Made(b, e, "B")
  BY <1>5 DEF MadeOf, Motors
<1>7. e = 0 => MadeOf(b, e) = [m \in Motors |-> 0]
  BY <1>2, <1>3 DEF MadeOf, Motors
<1>8. ASSUME e = M
      PROVE  MadeOf(b, e) = b
  <2>1. Magnitude(b["A"]) = f /\ Magnitude(b["B"]) = g
    BY <1>1, <1>2, <1>3, <1>8
  <2>2. Made(b, e, "A") = b["A"] /\ Made(b, e, "B") = b["B"]
    BY <1>2, <1>3, <2>1
  <2>3. \A m \in Motors : MadeOf(b, e)[m] = b[m]
    BY <2>2, <1>6 DEF Motors
  <2> QED BY <2>3, <1>1, <1>6
<1>9. \A axis \in XY : /\ Twice(MadeOf(b, e), axis) \in Int
                       /\ Twice(b, axis) \in Int
                       /\ Between(Twice(MadeOf(b, e), axis), 0, Twice(b, axis))
  BY <1>1, <1>5, <1>6 DEF Twice, XY
<1> QED BY <1>6, <1>7, <1>8, <1>9

-----------------------------------------------------------------------------
(* The plan as a way of doubled axis coordinates, from the place where the
   first block starts to planned.  Taking over the position of the motors
   loses up to half a step of an axis, and the way keeps that distance. *)
Extent == -(2 * Span + 1) .. 1

Leads(way, from, bs, to) ==
  /\ way \in [1 .. Len(bs) + 1 -> [XY -> Extent]]
  /\ \A axis \in XY : way[1][axis] = Twice(from, axis)
  /\ \A i \in 1 .. Len(bs) : \A axis \in XY :
       way[i + 1][axis] = way[i][axis] + Twice(bs[i], axis)
  /\ \A axis \in XY : way[Len(bs) + 1][axis] - 2 * to[axis] \in -1 .. 1

LEMMA HalfOfTravel ==
  ASSUME NEW n \in Extent
  PROVE  Half(n) \in -Span .. 0 /\ n - 2 * Half(n) \in -1 .. 1
  BY Constants DEF Half, Extent

(* An empty plan leads to where the motors are. *)
LEMMA EmptyLeads ==
  ASSUME NEW from \in [Motors -> Int],
         \A axis \in XY : Twice(from, axis) \in Extent
  PROVE  /\ [axis \in XY |-> ToAxis(from, axis)] \in [XY -> -Span .. 0]
         /\ \E way : Leads(way, from, << >>, [axis \in XY |-> ToAxis(from, axis)])
<1> DEFINE way == [i \in 1 .. 1 |-> [axis \in XY |-> Twice(from, axis)]]
           to == [axis \in XY |-> ToAxis(from, axis)]
<1>1. \A axis \in XY : /\ ToAxis(from, axis) \in -Span .. 0
                       /\ Twice(from, axis) - 2 * ToAxis(from, axis) \in -1 .. 1
  BY HalfOfTravel DEF ToAxis
<1>2. Len(<< >>) = 0
  OBVIOUS
<1>3. Leads(way, from, << >>, to)
  BY <1>1, <1>2 DEF Leads
<1> QED BY <1>1, <1>3

(* A block that is queued leads from the end of the plan to its target. *)
LEMMA AppendLeads ==
  ASSUME NEW way, NEW from, NEW bs \in Seq(Block), NEW b \in Block,
         NEW to \in [XY -> -Span .. 0], NEW there \in [XY -> -Span .. 0],
         Leads(way, from, bs, to),
         \A axis \in XY : Twice(b, axis) = 2 * (there[axis] - to[axis])
  PROVE  \E new : Leads(new, from, Append(bs, b), there)
<1> DEFINE n == Len(bs)
           new == [i \in 1 .. n + 2 |->
                     IF i <= n + 1 THEN way[i]
                     ELSE [axis \in XY |-> way[n + 1][axis] + Twice(b, axis)]]
<1>1. /\ n \in Nat /\ Len(Append(bs, b)) = n + 1
      /\ \A i \in 1 .. n : Append(bs, b)[i] = bs[i]
      /\ Append(bs, b)[n + 1] = b
  OBVIOUS
<1>2. /\ way \in [1 .. n + 1 -> [XY -> Extent]]
      /\ \A axis \in XY : way[1][axis] = Twice(from, axis)
      /\ \A i \in 1 .. n : \A axis \in XY :
           way[i + 1][axis] = way[i][axis] + Twice(bs[i], axis)
      /\ \A axis \in XY : way[n + 1][axis] - 2 * to[axis] \in -1 .. 1
  BY DEF Leads
<1> HIDE DEF n
<1>8. /\ \A i \in 1 .. n + 1 : new[i] = way[i]
      /\ new[n + 2] = [axis \in XY |-> way[n + 1][axis] + Twice(b, axis)]
  <2>1. /\ n + 2 \in 1 .. n + 2 /\ ~(n + 2 <= n + 1)
        /\ \A i \in 1 .. n + 1 : i \in 1 .. n + 2 /\ i <= n + 1
    BY <1>1
  <2> QED BY <2>1
<1>9. 1 \in 1 .. n + 1 /\ n + 1 \in 1 .. n + 1
  BY <1>1
<1> HIDE DEF new
<1>3. \A axis \in XY : /\ new[n + 2][axis] - 2 * there[axis] \in -1 .. 1
                       /\ new[n + 2][axis] \in Extent
  <2> SUFFICES ASSUME NEW axis \in XY
               PROVE  /\ new[n + 2][axis] - 2 * there[axis] \in -1 .. 1
                      /\ new[n + 2][axis] \in Extent
    OBVIOUS
  <2>1. /\ way[n + 1][axis] \in Extent
        /\ way[n + 1][axis] - 2 * to[axis] \in -1 .. 1
        /\ new[n + 2][axis] = way[n + 1][axis] + 2 * (there[axis] - to[axis])
    BY <1>1, <1>2, <1>8, <1>9
  <2>2. to[axis] \in -Span .. 0 /\ there[axis] \in -Span .. 0
    OBVIOUS
  <2>3. Span \in Nat
    BY Constants
  <2>4. 2 * there[axis] \in -(2 * Span) .. 0
    BY <2>2, <2>3
  <2>5. new[n + 2][axis] - 2 * there[axis] = way[n + 1][axis] - 2 * to[axis]
    BY <2>1, <2>2, <2>3 DEF Extent
  <2>6. new[n + 2][axis] \in Int
    BY <2>1, <2>2, <2>3 DEF Extent
  <2> DEFINE x == new[n + 2][axis]
             y == 2 * there[axis]
  <2>7. x \in Int /\ y \in -(2 * Span) .. 0 /\ x - y \in -1 .. 1
    BY <2>1, <2>4, <2>5, <2>6
  <2> HIDE DEF x, y
  <2>8. x \in -(2 * Span + 1) .. 1
    BY <2>3, <2>7
  <2> QED BY <2>7, <2>8 DEF x, y, Extent
<1>4. new \in [1 .. n + 2 -> [XY -> Extent]]
  <2>1. new[n + 2] \in [XY -> Extent]
    BY <1>3, <1>8
  <2>2. \A i \in 1 .. n + 2 : i \in 1 .. n + 1 \/ i = n + 2
    BY <1>1
  <2>3. \A i \in 1 .. n + 2 : new[i] \in [XY -> Extent]
    BY <1>2, <1>8, <2>1, <2>2
  <2> QED BY <2>3 DEF new
<1>5. \A i \in 1 .. n + 1 : \A axis \in XY :
        new[i + 1][axis] = new[i][axis] + Twice(Append(bs, b)[i], axis)
  <2> SUFFICES ASSUME NEW i \in 1 .. n + 1, NEW axis \in XY
               PROVE  new[i + 1][axis]
                        = new[i][axis] + Twice(Append(bs, b)[i], axis)
    OBVIOUS
  <2>1. CASE i = n + 1
    <3>1. /\ new[i + 1] = [a \in XY |-> way[n + 1][a] + Twice(b, a)]
          /\ new[i] = way[n + 1] /\ Append(bs, b)[i] = b
      <4>1. i + 1 = n + 2
        BY <1>1, <2>1
      <4> QED BY <1>1, <1>8, <1>9, <2>1, <4>1
    <3> QED BY <3>1
  <2>2. CASE i \in 1 .. n
    <3>1. i + 1 \in 1 .. n + 1 /\ i \in 1 .. n + 1
      BY <1>1, <2>2
    <3>2. way[i + 1][axis] = way[i][axis] + Twice(bs[i], axis)
      BY <1>2, <2>2
    <3> QED BY <1>1, <1>8, <2>2, <3>1, <3>2
  <2> QED BY <1>1, <2>1, <2>2
<1>6. \A axis \in XY : new[1][axis] = Twice(from, axis)
  BY <1>2, <1>8, <1>9
<1>7. Leads(new, from, Append(bs, b), there)
  <2>1. Len(Append(bs, b)) + 1 = n + 2 /\ Len(Append(bs, b)) = n + 1
    BY <1>1
  <2> QED BY <2>1, <1>3, <1>4, <1>5, <1>6 DEF Leads
<1> QED BY <1>7

(* The first block done, the rest leads on from its end. *)
LEMMA TailLeads ==
  ASSUME NEW way, NEW from \in [Motors -> Int], NEW bs \in Seq(Block),
         NEW to, NEW next \in [Motors -> Int], bs # << >>,
         Leads(way, from, bs, to),
         \A axis \in XY : Twice(next, axis)
                            = Twice(from, axis) + Twice(Head(bs), axis)
  PROVE  \E new : Leads(new, next, Tail(bs), to)
<1> DEFINE n == Len(bs)
           new == [i \in 1 .. n |-> way[i + 1]]
<1>1. /\ n \in Nat \ {0} /\ Len(Tail(bs)) = n - 1 /\ Head(bs) = bs[1]
      /\ \A i \in 1 .. n - 1 : Tail(bs)[i] = bs[i + 1]
  OBVIOUS
<1>2. /\ \A i \in 1 .. n + 1 : way[i] \in [XY -> Extent]
      /\ \A i \in 1 .. n : \A axis \in XY :
           way[i + 1][axis] = way[i][axis] + Twice(bs[i], axis)
      /\ \A axis \in XY : way[1][axis] = Twice(from, axis)
      /\ \A axis \in XY : way[n + 1][axis] - 2 * to[axis] \in -1 .. 1
  BY DEF Leads
<1> HIDE DEF n
<1>3. /\ new \in [1 .. n -> [XY -> Extent]]
      /\ \A i \in 1 .. n : new[i] = way[i + 1]
  BY <1>1, <1>2
<1> HIDE DEF new
<1>8. 1 \in 1 .. n /\ n \in 1 .. n /\ 1 + 1 = 2
  BY <1>1
<1>4. \A axis \in XY : new[1][axis] = Twice(next, axis)
  <2>1. new[1] = way[2] /\ Head(bs) = bs[1]
    BY <1>1, <1>3, <1>8
  <2>2. \A axis \in XY : way[2][axis] = way[1][axis] + Twice(bs[1], axis)
    BY <1>2, <1>8
  <2>3. \A axis \in XY : way[1][axis] = Twice(from, axis)
    BY <1>2
  <2> QED BY <2>1, <2>2, <2>3
<1>5. \A i \in 1 .. n - 1 : \A axis \in XY :
        new[i + 1][axis] = new[i][axis] + Twice(Tail(bs)[i], axis)
  <2> SUFFICES ASSUME NEW i \in 1 .. n - 1
               PROVE  \A axis \in XY :
                        new[i + 1][axis] = new[i][axis] + Twice(Tail(bs)[i], axis)
    OBVIOUS
  <2>1. i \in 1 .. n /\ i + 1 \in 1 .. n
    BY <1>1
  <2>2. new[i + 1] = way[i + 2] /\ new[i] = way[i + 1]
        /\ Tail(bs)[i] = bs[i + 1]
    BY <1>1, <1>3, <2>1
  <2>3. \A axis \in XY :
          way[i + 2][axis] = way[i + 1][axis] + Twice(bs[i + 1], axis)
    <3>1. (i + 1) + 1 = i + 2
      BY <2>1
    <3> QED BY <1>2, <2>1, <3>1
  <2> QED BY <2>2, <2>3
<1>6. \A axis \in XY : new[n][axis] - 2 * to[axis] \in -1 .. 1
  BY <1>2, <1>3, <1>8
<1>7. Leads(new, next, Tail(bs), to)
  <2>1. Len(Tail(bs)) + 1 = n
    BY <1>1
  <2> QED BY <2>1, <1>1, <1>3, <1>4, <1>5, <1>6 DEF Leads
<1> QED BY <1>7

-----------------------------------------------------------------------------
(* The inductive invariant. *)

Place == IF at = "report" THEN copy.back ELSE at

PosTypeOK ==
  /\ counted \in [Motors -> Int]
  /\ planned \in [XY -> -Span .. 0] /\ parsed \in [XY -> Int]
  /\ blocks \in Seq(Block) /\ events \in Nat
  /\ IF blocks = << >> THEN events = 0 ELSE events < MotorsMax(Head(blocks))
  /\ turning \in BOOLEAN
  /\ mode \in {"IDLE", "CYCLE", "JOG", "HOLD", "CANCEL", "ALARM", "CHECK"}
  /\ flagged \in SUBSET {"RESET", "ALARM", "CYCLE_STOP"}
  /\ at \in {"main", "line", "soft", "report", "abort"}
  /\ line \in [to : [XY -> Int], jog : BOOLEAN]
  /\ copy \in [bytes : 0 .. 4, of : [Motors -> Int],
               back : {"main", "line", "soft"}]
  /\ lines \in Nat /\ goal \in [XY -> Int]

(* Nothing turns at rest, and no stop is still to be handled then: so what
   takes the position over takes it over from motors that stand still. *)
AtRest ==
  /\ ~Moving => ~turning /\ "CYCLE_STOP" \notin flagged
  /\ turning => "CYCLE_STOP" \notin flagged

(* A line that waits for a free block has passed the test of the travel. *)
LineFits ==
  Place = "line" => ~system_check_travel_limits(line.to) /\ mode # "CHECK"

(* ParserAndPlannerAgree, with what the main program's waits leave standing. *)
CopiesAgree ==
  Place # "abort" /\ mode # "CHECK" /\ "RESET" \notin flagged =>
    \A axis \in XY : planned[axis] = Lround(parsed[axis])

GoalIsPlanned ==
  \A axis \in XY : 2 * (Sub * planned[axis]) - goal[axis] \in -Sub .. Sub

(* Where the motors were when the first block started. *)
Started ==
  [m \in Motors |->
     counted[m] - IF blocks = << >> THEN 0 ELSE Made(Head(blocks), events, m)]

PlanInTravel ==
  \E way \in [1 .. Len(blocks) + 1 -> [XY -> Extent]] :
    Leads(way, Started, blocks, planned)

(* What a report at rest has copied so far is the position of now. *)
CopyIsTrue ==
  at = "report" /\ mode = "IDLE" =>
    /\ copy.bytes = 0 => copy.of["A"] = 0
    /\ copy.bytes = 1 => copy.of["A"] = counted["A"] % BYTE
    /\ copy.bytes >= 2 => copy.of["A"] = counted["A"]
    /\ copy.bytes <= 2 => copy.of["B"] = 0
    /\ copy.bytes = 3 => copy.of["B"] = counted["B"] % BYTE
    /\ copy.bytes = 4 => copy.of["B"] = counted["B"]

(* What is in segments are the first step events that have not been made. *)
CutFits ==
  /\ discarded \in 0 .. Len(blocks) /\ prepped \in Nat
  /\ IF discarded = Len(blocks) THEN prepped = 0
     ELSE prepped < MotorsMax(blocks[discarded + 1])
  /\ discarded = 0 => events <= prepped

PosIInv == /\ PosTypeOK /\ CutFits /\ AtRest /\ LineFits /\ CopiesAgree
           /\ GoalIsPlanned /\ PlanInTravel /\ CopyIsTrue

-----------------------------------------------------------------------------
(* What the invariant says of the motors. *)

LEMMA FirstBlock ==
  ASSUME PosTypeOK, blocks # << >>
  PROVE  /\ Head(blocks) \in Block /\ Tail(blocks) \in Seq(Block)
         /\ MotorsMax(Head(blocks)) \in Nat \ {0}
         /\ events \in 0 .. MotorsMax(Head(blocks))
         /\ events + 1 \in 0 .. MotorsMax(Head(blocks))
<1>1. Head(blocks) \in Block /\ Tail(blocks) \in Seq(Block)
  BY DEF PosTypeOK
<1>2. MotorsMax(Head(blocks)) \in Nat \ {0}
  BY <1>1 DEF Block
<1> QED BY <1>1, <1>2 DEF PosTypeOK

LEMMA TwiceIsInt ==
  ASSUME NEW steps \in [Motors -> Int], NEW axis \in XY
  PROVE  Twice(steps, axis) \in Int
  BY DEF Twice, Motors

(* An axis is between the start of the first block and its end. *)
LEMMA MotorsOnTheWay ==
  ASSUME PosTypeOK, NEW axis \in XY
  PROVE  /\ Started \in [Motors -> Int]
         /\ blocks = << >> => Twice(counted, axis) = Twice(Started, axis)
         /\ blocks # << >> =>
              Between(Twice(counted, axis), Twice(Started, axis),
                      Twice(Started, axis) + Twice(Head(blocks), axis))
<1>1. counted \in [Motors -> Int] /\ counted["A"] \in Int /\ counted["B"] \in Int
  BY DEF PosTypeOK, Motors
<1>2. CASE blocks = << >>
  <2>1. Started = counted
    BY <1>1, <1>2 DEF Started
  <2> QED BY <1>1, <1>2, <2>1
<1>3. CASE blocks # << >>
  <2> DEFINE b == Head(blocks)
             d == MadeOf(b, events)
  <2>1. /\ d \in [Motors -> Int] /\ Twice(d, axis) \in Int
        /\ Twice(b, axis) \in Int /\ Between(Twice(d, axis), 0, Twice(b, axis))
    BY <1>3, FirstBlock, OnTheWay
  <2>2. /\ Started = [m \in Motors |-> counted[m] - d[m]]
        /\ Started \in [Motors -> Int]
    <3>1. \A m \in Motors : d[m] = Made(b, events, m)
      BY DEF MadeOf
    <3> QED BY <1>1, <1>3, <2>1, <3>1 DEF Started
  <2> HIDE DEF d, b
  <2>3. Twice(counted, axis) = Twice(Started, axis) + Twice(d, axis)
    <3>1. /\ d["A"] \in Int /\ d["B"] \in Int
          /\ Started["A"] = counted["A"] - d["A"]
          /\ Started["B"] = counted["B"] - d["B"]
      BY <2>1, <2>2 DEF Motors
    <3> QED BY <1>1, <3>1 DEF Twice
  <2>4. Twice(Started, axis) \in Int
    BY <2>2, TwiceIsInt
  <2>5. Between(Twice(counted, axis), Twice(Started, axis),
                Twice(Started, axis) + Twice(b, axis))
    BY <2>1, <2>3, <2>4 DEF Between
  <2> QED BY <1>3, <2>2, <2>5 DEF b
<1> QED BY <1>2, <1>3

LEMMA CountedInTravel ==
  ASSUME PosTypeOK, PlanInTravel
  PROVE  \A axis \in XY : Twice(counted, axis) \in Extent
<1> SUFFICES ASSUME NEW axis \in XY
             PROVE  Twice(counted, axis) \in Extent
  OBVIOUS
<1>1. PICK way : Leads(way, Started, blocks, planned)
  BY DEF PlanInTravel
<1>2. /\ Len(blocks) \in Nat /\ 1 \in 1 .. Len(blocks) + 1
      /\ way[1][axis] \in Extent /\ way[1][axis] = Twice(Started, axis)
  BY <1>1 DEF Leads, PosTypeOK
<1>3. CASE blocks = << >>
  BY <1>2, <1>3, MotorsOnTheWay
<1>4. CASE blocks # << >>
  <2>1. /\ 1 \in 1 .. Len(blocks) /\ 1 + 1 \in 1 .. Len(blocks) + 1
        /\ Head(blocks) = blocks[1]
    BY <1>4 DEF PosTypeOK
  <2>2. way[1 + 1][axis] \in Extent
        /\ way[1 + 1][axis] = way[1][axis] + Twice(blocks[1], axis)
    BY <1>1, <2>1 DEF Leads
  <2>3. Between(Twice(counted, axis), Twice(Started, axis),
                Twice(Started, axis) + Twice(Head(blocks), axis))
    BY <1>4, MotorsOnTheWay
  <2>4. Twice(counted, axis) \in Int
    BY TwiceIsInt DEF PosTypeOK
  <2> QED BY <1>2, <2>1, <2>2, <2>3, <2>4, Constants DEF Between, Extent
<1> QED BY <1>3, <1>4

(* The plan is empty, or taken over, where the motors stand. *)
LEMMA TakenOver ==
  ASSUME PosTypeOK, PlanInTravel
  PROVE  LET axes == [axis \in XY |-> ToAxis(counted, axis)]
         IN /\ axes \in [XY -> -Span .. 0]
            /\ \E way \in [1 .. Len(<< >>) + 1 -> [XY -> Extent]] :
                 Leads(way, counted, << >>, axes)
            /\ \A axis \in XY :
                 /\ Lround(Sub * axes[axis]) = axes[axis]
                 /\ 2 * (Sub * axes[axis]) - Sub * Twice(counted, axis)
                      \in -Sub .. Sub
<1> DEFINE axes == [axis \in XY |-> ToAxis(counted, axis)]
<1>1. /\ axes \in [XY -> -Span .. 0]
      /\ \E way : Leads(way, counted, << >>, axes)
  BY CountedInTravel, EmptyLeads DEF PosTypeOK
<1>2. \E way \in [1 .. Len(<< >>) + 1 -> [XY -> Extent]] :
        Leads(way, counted, << >>, axes)
  BY <1>1 DEF Leads
<1>3. ASSUME NEW axis \in XY
      PROVE  /\ Lround(Sub * axes[axis]) = axes[axis]
             /\ 2 * (Sub * axes[axis]) - Sub * Twice(counted, axis) \in -Sub .. Sub
  <2>1. axes[axis] \in Int /\ Sub \in Nat \ {0}
    BY <1>1, Constants
  <2>2. Lround(Sub * axes[axis]) = axes[axis]
    BY <2>1, WholeSteps
  <2> DEFINE h == axes[axis]
             w == Twice(counted, axis)
  <2>3. h \in Int /\ w \in Int /\ w - 2 * h \in -1 .. 1
    <3>1. w \in Extent
      BY CountedInTravel
    <3>2. h = Half(w)
      BY DEF ToAxis
    <3> HIDE DEF w
    <3> QED BY <3>1, <3>2, HalfOfTravel, Constants DEF Extent
  <2> HIDE DEF h, w
  <2>4. 2 * (Sub * h) - Sub * w \in -Sub .. Sub
    <3>1. CASE w = 2 * h
      BY <2>1, <2>3, <3>1
    <3>2. CASE w = 2 * h + 1
      BY <2>1, <2>3, <3>2
    <3>3. CASE w = 2 * h - 1
      BY <2>1, <2>3, <3>3
    <3> QED BY <2>3, <3>1, <3>2, <3>3
  <2> QED BY <2>2, <2>4 DEF h, w
<1> QED BY <1>1, <1>2, <1>3

LEMMA PlanStays ==
  ASSUME PlanInTravel, UNCHANGED <<counted, blocks, events, planned>>
  PROVE  PlanInTravel'
<1>1. Started' = Started
  BY DEF Started
<1> QED BY <1>1 DEF PlanInTravel

LEMMA PlanUnmoved ==
  ASSUME PlanInTravel, CutFits, UNCHANGED <<motion, planned>>
  PROVE  PlanInTravel' /\ CutFits'
BY PlanStays DEF motion, CutFits

(* Cutting goes through the blocks in their order. *)
LEMMA CutKeeps ==
  ASSUME NEW queued \in Seq(Block), CutFits, events \in Nat,
         blocks \in Seq(Block), Len(queued) >= Len(blocks),
         \A i \in 1 .. Len(blocks) : queued[i] = blocks[i],
         blocks' = queued, events' = events,
         CutSegment(queued) \/ UNCHANGED <<discarded, prepped>>
  PROVE  CutFits'
<1> DEFINE Fits(d, p) == /\ d \in 0 .. Len(queued) /\ p \in Nat
                         /\ IF d = Len(queued) THEN p = 0
                            ELSE p < MotorsMax(queued[d + 1])
                         /\ d = 0 => events <= p
<1>1. \A i \in 1 .. Len(queued) : MotorsMax(queued[i]) \in Nat \ {0}
  BY DEF Block
<1>2. Fits(discarded, prepped)
  <2>1. CASE discarded = Len(blocks)
    <3>1. Len(queued) > discarded => MotorsMax(queued[discarded + 1]) > 0
      <4>1. Len(queued) > discarded => discarded + 1 \in 1 .. Len(queued)
        BY DEF CutFits
      <4> QED BY <4>1, <1>1
    <3> QED BY <2>1, <3>1 DEF CutFits
  <2>2. CASE discarded # Len(blocks)
    <3>1. queued[discarded + 1] = blocks[discarded + 1]
      BY <2>2 DEF CutFits
    <3> QED BY <2>2, <3>1 DEF CutFits
  <2> QED BY <2>1, <2>2
<1>3. Fits(discarded', prepped')
  <2>1. CASE UNCHANGED <<discarded, prepped>>
    BY <2>1, <1>2
  <2>2. CASE CutSegment(queued) /\ prepped + 1 = MotorsMax(queued[discarded + 1])
    <3>1. prepped' = 0 /\ discarded' = discarded + 1 /\ Len(queued) > discarded
      BY <2>2 DEF CutSegment
    <3>2. discarded' < Len(queued) => MotorsMax(queued[discarded' + 1]) > 0
      <4>1. discarded' < Len(queued) => discarded' + 1 \in 1 .. Len(queued)
        BY <3>1, <1>2
      <4> QED BY <4>1, <1>1
    <3> QED BY <3>1, <3>2, <1>2
  <2>3. CASE CutSegment(queued) /\ prepped + 1 # MotorsMax(queued[discarded + 1])
    <3>1. /\ prepped' = prepped + 1 /\ discarded' = discarded
          /\ Len(queued) > discarded
      BY <2>3 DEF CutSegment
    <3>2. MotorsMax(queued[discarded + 1]) \in Nat
      <4>1. discarded + 1 \in 1 .. Len(queued)
        BY <3>1, <1>2
      <4> QED BY <4>1, <1>1
    <3> QED BY <3>1, <3>2, <2>3, <1>2
  <2> QED BY <2>1, <2>2, <2>3
<1> QED BY <1>3 DEF CutFits

-----------------------------------------------------------------------------
(* Every action keeps the invariant. *)

LEMMA InitHolds ==
  ASSUME PositionsInit
  PROVE  PosIInv
<1>1. PosTypeOK
  <2>1. 0 \in -Span .. 0
    BY Constants
  <2>2. /\ Origin \in [XY -> -Span .. 0] /\ Origin \in [XY -> Int]
        /\ counted \in [Motors -> Int] /\ NoLine \in [to : [XY -> Int], jog : BOOLEAN]
        /\ NoCopy \in [bytes : 0 .. 4, of : [Motors -> Int],
                        back : {"main", "line", "soft"}]
    BY <2>1 DEF PositionsInit, Origin, NoLine, NoCopy
  <2>3. << >> \in Seq(Block)
    OBVIOUS
  <2> QED BY <2>2, <2>3 DEF PositionsInit, PosTypeOK
<1>2. AtRest /\ LineFits /\ CopyIsTrue
  BY DEF PositionsInit, AtRest, LineFits, CopyIsTrue, Moving, Place
<1>3. /\ planned = [axis \in XY |-> ToAxis(counted, axis)]
      /\ \A axis \in XY : Twice(counted, axis) = 0
  BY DEF PositionsInit, Origin, ToAxis, Twice, Half, Motors
<1>4. PlanInTravel
  <2>1. 0 \in Extent
    BY Constants DEF Extent
  <2>2. counted \in [Motors -> Int] /\ \A axis \in XY : Twice(counted, axis) \in Extent
    BY <1>1, <1>3, <2>1 DEF PosTypeOK
  <2>3. \E way : Leads(way, counted, << >>, planned)
    BY <2>2, <1>3, EmptyLeads
  <2>4. blocks = << >> /\ Started = counted
    BY <2>2 DEF PositionsInit, Started
  <2> QED BY <2>3, <2>4 DEF PlanInTravel, Leads
<1>6. CutFits
  BY DEF PositionsInit, CutFits
<1>5. CopiesAgree /\ GoalIsPlanned
  <2>1. Lround(0) = 0
    <3>1. Sub * 0 = 0
      BY Constants
    <3> QED BY <3>1, WholeSteps
  <2>2. Sub \in Nat /\ Sub * 0 = 0
    BY Constants
  <2> QED BY <2>1, <2>2 DEF PositionsInit, Origin, CopiesAgree, GoalIsPlanned
<1> QED BY <1>1, <1>2, <1>4, <1>5, <1>6 DEF PosIInv

LEMMA StepEventKeeps ==
  ASSUME PosIInv, StepEvent
  PROVE  PosIInv'
<1> DEFINE b == Head(blocks)
<1> USE DEF PosIInv
<1>1. /\ b \in Block /\ Tail(blocks) \in Seq(Block)
      /\ MotorsMax(b) \in Nat \ {0} /\ blocks # << >>
      /\ events \in 0 .. MotorsMax(b) /\ events + 1 \in 0 .. MotorsMax(b)
  <2>1. blocks # << >>
    BY DEF StepEvent, Segmented, CutFits, PosTypeOK
  <2> QED BY <2>1, FirstBlock
<1>2. /\ counted \in [Motors -> Int]
      /\ MadeOf(b, events) \in [Motors -> Int]
      /\ MadeOf(b, events + 1) \in [Motors -> Int]
      /\ counted' = [m \in Motors |-> counted[m] + MadeOf(b, events + 1)[m]
                                                 - MadeOf(b, events)[m]]
      /\ counted' \in [Motors -> Int]
  <2>1. /\ counted \in [Motors -> Int] /\ MadeOf(b, events) \in [Motors -> Int]
        /\ MadeOf(b, events + 1) \in [Motors -> Int]
    BY <1>1, OnTheWay DEF PosTypeOK
  <2>2. counted' = [m \in Motors |-> counted[m] + MadeOf(b, events + 1)[m]
                                                - MadeOf(b, events)[m]]
    BY DEF StepEvent, MadeOf
  <2> QED BY <2>1, <2>2
<1>3. Started = [m \in Motors |-> counted[m] - MadeOf(b, events)[m]]
      /\ Started \in [Motors -> Int]
  BY <1>1, <1>2, MotorsOnTheWay DEF Started, MadeOf
<1>4. PosTypeOK'
  <2>1. /\ blocks' \in Seq(Block) /\ events' \in Nat
        /\ IF blocks' = << >> THEN events' = 0
                              ELSE events' < MotorsMax(Head(blocks'))
    <3>1. CASE events + 1 = MotorsMax(b)
      <4>1. events' = 0 /\ blocks' = Tail(blocks)
        BY <3>1 DEF StepEvent
      <4>2. blocks' # << >> => Head(blocks') \in Block
        BY <4>1, <1>1
      <4> QED BY <4>1, <4>2, <1>1, SMTT(30) DEF Block
    <3>2. CASE events + 1 # MotorsMax(b)
      <4>1. events' = events + 1 /\ blocks' = blocks
        BY <3>2 DEF StepEvent
      <4> QED BY <4>1, <3>2, <1>1 DEF PosTypeOK
    <3> QED BY <3>1, <3>2
  <2> QED BY <2>1, <1>2 DEF PosTypeOK, StepEvent
<1>5. PlanInTravel'
  <2>1. PICK way : Leads(way, Started, blocks, planned)
    BY DEF PlanInTravel
  <2>2. CASE events + 1 = MotorsMax(b)
    <3>1. events' = 0 /\ blocks' = Tail(blocks) /\ planned' = planned
      BY <2>2 DEF StepEvent
    <3>2. MadeOf(b, events + 1) = b
      BY <1>1, <2>2, OnTheWay
    <3>3. Started' = counted'
      <4>1. CASE blocks' = << >>
        BY <4>1, <1>2 DEF Started
      <4>2. CASE blocks' # << >>
        <5>1. /\ Head(blocks') \in Block
              /\ 0 \in 0 .. MotorsMax(Head(blocks'))
          <6>1. Head(blocks') \in Block
            BY <4>2, <3>1, <1>1
          <6> QED BY <6>1 DEF Block
        <5>2. MadeOf(Head(blocks'), 0) = [m \in Motors |-> 0]
          BY <5>1, OnTheWay
        <5>3. \A m \in Motors : Made(Head(blocks'), events', m) = 0
          BY <5>2, <3>1 DEF MadeOf
        <5> QED BY <4>2, <5>3, <1>2 DEF Started
      <4> QED BY <4>1, <4>2
    <3>4. \A axis \in XY : Twice(counted', axis) = Twice(Started, axis) + Twice(b, axis)
      <4>1. /\ b["A"] \in Int /\ b["B"] \in Int
            /\ Started["A"] \in Int /\ Started["B"] \in Int
            /\ counted'["A"] = Started["A"] + b["A"]
            /\ counted'["B"] = Started["B"] + b["B"]
        <5>1. "A" \in Motors /\ "B" \in Motors /\ b \in [Motors -> Int]
          BY <1>1 DEF Motors, Block
        <5>2. \A m \in Motors : /\ b[m] \in Int /\ Started[m] \in Int
                                /\ counted'[m] = Started[m] + b[m]
          BY <5>1, <1>2, <1>3, <3>2
        <5> QED BY <5>1, <5>2
      <4> QED BY <4>1 DEF Twice
    <3>5. \E new : Leads(new, counted', Tail(blocks), planned)
      BY <1>1, <1>2, <1>3, <2>1, <3>4, TailLeads DEF PosTypeOK
    <3> QED BY <3>1, <3>3, <3>5 DEF PlanInTravel, Leads
  <2>3. CASE events + 1 # MotorsMax(b)
    <3>1. events' = events + 1 /\ blocks' = blocks /\ planned' = planned
      BY <2>3 DEF StepEvent
    <3>2. Started' = [m \in Motors |-> counted'[m] - MadeOf(b, events + 1)[m]]
      BY <1>1, <3>1 DEF Started, MadeOf
    <3>3. Started' = Started
      <4>1. \A m \in Motors : counted'[m] - MadeOf(b, events + 1)[m]
                                = counted[m] - MadeOf(b, events)[m]
        BY <1>2
      <4> QED BY <4>1, <3>2, <1>3
    <3> QED BY <2>1, <3>1, <3>3 DEF PlanInTravel, Leads
  <2> QED BY <2>2, <2>3
<1>6. AtRest' /\ LineFits' /\ CopiesAgree' /\ GoalIsPlanned'
  BY DEF StepEvent, AtRest, Moving, LineFits, Place, CopiesAgree,
         GoalIsPlanned, system_check_travel_limits
<1>7. CopyIsTrue'
  BY DEF StepEvent, AtRest, Moving, CopyIsTrue
<1>8. CutFits'
  <2>1. CASE events + 1 = MotorsMax(b)
    <3>1. /\ events' = 0 /\ blocks' = Tail(blocks)
          /\ discarded' = discarded - 1 /\ prepped' = prepped
      BY <2>1 DEF StepEvent
    <3>2. discarded > 0
      <4>1. ASSUME discarded = 0
            PROVE  FALSE
        <5>1. events < prepped /\ prepped \in Nat /\ events \in Nat
          BY <4>1 DEF StepEvent, Segmented, CutFits, PosTypeOK
        <5>2. blocks[discarded + 1] = b /\ Len(blocks) # 0
          BY <4>1, <1>1 DEF PosTypeOK
        <5>3. prepped < MotorsMax(b)
          BY <4>1, <5>2 DEF CutFits
        <5> QED BY <5>1, <5>3, <2>1, <1>1
      <4> QED BY <4>1 DEF CutFits
    <3>3. Len(Tail(blocks)) = Len(blocks) - 1 /\ Len(blocks) \in Nat
      BY <1>1 DEF PosTypeOK
    <3>4. discarded # Len(blocks) =>
            Tail(blocks)[discarded] = blocks[discarded + 1]
      BY <1>1, <3>2 DEF PosTypeOK, CutFits
    <3> QED BY <3>1, <3>2, <3>3, <3>4 DEF CutFits
  <2>2. CASE events + 1 # MotorsMax(b)
    <3>1. /\ events' = events + 1 /\ blocks' = blocks
          /\ discarded' = discarded /\ prepped' = prepped
      BY <2>2 DEF StepEvent
    <3>2. discarded = 0 => events + 1 <= prepped
      BY DEF StepEvent, Segmented, CutFits, PosTypeOK
    <3> QED BY <3>1, <3>2 DEF CutFits
  <2> QED BY <2>1, <2>2
<1> QED BY <1>4, <1>5, <1>6, <1>7, <1>8

LEMMA StopKeeps ==
  ASSUME PosIInv, Stop
  PROVE  PosIInv'
<1> USE DEF PosIInv
<1>1. PosTypeOK' /\ AtRest' /\ LineFits' /\ CopiesAgree' /\ GoalIsPlanned'
  BY DEF Stop, motion, PosTypeOK, AtRest, Moving, LineFits, Place, CopiesAgree,
         GoalIsPlanned, system_check_travel_limits
<1>2. PlanInTravel' /\ CutFits' /\ CopyIsTrue'
  BY PlanUnmoved DEF Stop, motion, AtRest, Moving, CopyIsTrue
<1> QED BY <1>1, <1>2

LEMMA ResetCharKeeps ==
  ASSUME PosIInv, ResetChar
  PROVE  PosIInv'
<1> USE DEF PosIInv
<1>1. PosTypeOK' /\ AtRest' /\ LineFits' /\ CopiesAgree' /\ GoalIsPlanned'
  BY DEF ResetChar, mc_reset, motion, PosTypeOK, AtRest, Moving, LineFits,
         Place, CopiesAgree, GoalIsPlanned, system_check_travel_limits
<1>2. PlanInTravel' /\ CutFits' /\ CopyIsTrue'
  BY PlanUnmoved DEF ResetChar, mc_reset, motion, CopyIsTrue
<1> QED BY <1>1, <1>2

LEMMA PrepKeeps ==
  ASSUME PosIInv, st_prep_buffer
  PROVE  PosIInv'
<1> USE DEF PosIInv
<1>1. PosTypeOK' /\ AtRest' /\ LineFits' /\ CopiesAgree' /\ GoalIsPlanned'
  BY DEF st_prep_buffer, PosTypeOK, AtRest, Moving, LineFits, Place,
         CopiesAgree, GoalIsPlanned, system_check_travel_limits
<1>2. PlanInTravel' /\ CopyIsTrue'
  BY PlanStays DEF st_prep_buffer, CopyIsTrue
<1>3. CutFits'
  BY CutKeeps DEF st_prep_buffer, PosTypeOK
<1> QED BY <1>1, <1>2, <1>3

LEMMA StartCycleKeeps ==
  ASSUME PosIInv, StartCycle
  PROVE  PosIInv'
<1> USE DEF PosIInv
<1>1. PosTypeOK' /\ AtRest' /\ LineFits' /\ CopiesAgree' /\ GoalIsPlanned'
  BY DEF StartCycle, st_wake_up, PosTypeOK, AtRest, Moving, LineFits, Place,
         CopiesAgree, GoalIsPlanned, system_check_travel_limits
<1>2. PlanInTravel' /\ CopyIsTrue'
  BY PlanStays DEF StartCycle, CopyIsTrue
<1>3. CutFits'
  BY CutKeeps DEF StartCycle, st_wake_up, PosTypeOK
<1> QED BY <1>1, <1>2, <1>3

(* The position is taken over: by the end of a jog cancel and by a reset. *)
LEMMA SyncKeeps ==
  ASSUME PosTypeOK, PlanInTravel, Sync,
         counted' = counted, blocks' = << >>, events' = 0,
         goal' = [axis \in XY |-> Sub * Twice(counted, axis)]
  PROVE  /\ planned' \in [XY -> -Span .. 0] /\ parsed' \in [XY -> Int]
         /\ goal' \in [XY -> Int]
         /\ \A axis \in XY : planned'[axis] = Lround(parsed'[axis])
         /\ GoalIsPlanned' /\ PlanInTravel'
<1> DEFINE axes == [axis \in XY |-> ToAxis(counted, axis)]
<1>1. /\ planned' = axes
      /\ parsed' = [axis \in XY |-> Sub * axes[axis]]
  BY DEF Sync
<1>2. /\ axes \in [XY -> -Span .. 0]
      /\ \E way \in [1 .. Len(<< >>) + 1 -> [XY -> Extent]] :
           Leads(way, counted, << >>, axes)
      /\ \A axis \in XY : /\ Lround(Sub * axes[axis]) = axes[axis]
                          /\ 2 * (Sub * axes[axis]) - Sub * Twice(counted, axis)
                               \in -Sub .. Sub
  BY TakenOver
<1> HIDE DEF axes
<1>3. parsed' \in [XY -> Int] /\ goal' \in [XY -> Int]
  <2>1. Sub \in Nat /\ \A axis \in XY : Twice(counted, axis) \in Int
    BY Constants, TwiceIsInt DEF PosTypeOK
  <2> QED BY <1>1, <1>2, <2>1
<1>4. \A axis \in XY : planned'[axis] = Lround(parsed'[axis])
  BY <1>1, <1>2
<1>5. GoalIsPlanned'
  BY <1>1, <1>2 DEF GoalIsPlanned
<1>6. PlanInTravel'
  <2>1. Started' = counted
    BY DEF Started, PosTypeOK
  <2> QED BY <1>1, <1>2, <2>1 DEF PlanInTravel
<1> QED BY <1>1, <1>2, <1>3, <1>4, <1>5, <1>6

LEMMA EndCycleKeeps ==
  ASSUME PosIInv, EndCycle
  PROVE  PosIInv'
<1> USE DEF PosIInv
<1>1. mode' = "IDLE" /\ at' = at /\ line' = line /\ copy' = copy /\ at # "report"
      /\ counted' = counted /\ lines' = lines
      /\ flagged' = flagged \ {"CYCLE_STOP"} /\ Looks
  BY DEF EndCycle, Looks
<1>2. AtRest' /\ LineFits' /\ CopyIsTrue'
  BY <1>1 DEF EndCycle, AtRest, Moving, LineFits, Place, CopyIsTrue,
              system_check_travel_limits
<1>3. CASE mode = "CANCEL"
  <2>1. /\ Sync /\ blocks' = << >> /\ events' = 0 /\ turning' = FALSE
        /\ discarded' = 0 /\ prepped' = 0
        /\ goal' = [axis \in XY |-> Sub * Twice(counted, axis)]
    BY <1>3 DEF EndCycle
  <2>2. /\ planned' \in [XY -> -Span .. 0] /\ parsed' \in [XY -> Int]
        /\ goal' \in [XY -> Int]
        /\ \A axis \in XY : planned'[axis] = Lround(parsed'[axis])
        /\ GoalIsPlanned' /\ PlanInTravel'
    BY <1>1, <2>1, SyncKeeps
  <2>3. << >> \in Seq(Block)
    OBVIOUS
  <2>4. PosTypeOK' /\ CopiesAgree'
    BY <1>1, <2>1, <2>2, <2>3 DEF PosTypeOK, CopiesAgree
  <2>5. CutFits'
    BY <2>1 DEF CutFits
  <2> QED BY <1>2, <2>2, <2>4, <2>5
<1>4. CASE mode # "CANCEL"
  <2>1. UNCHANGED <<blocks, events, discarded, prepped, turning, planned,
                    parsed, goal>>
    BY <1>4 DEF EndCycle
  <2>2. PosTypeOK' /\ GoalIsPlanned'
    BY <1>1, <2>1 DEF PosTypeOK, GoalIsPlanned
  <2>3. mode # "CHECK"
    BY DEF EndCycle, AtRest, Moving
  <2>4. CopiesAgree' /\ PlanInTravel' /\ CutFits'
    BY <1>1, <2>1, <2>3, PlanUnmoved DEF CopiesAgree, Place, motion
  <2> QED BY <1>2, <2>2, <2>4
<1> QED BY <1>3, <1>4

LEMMA RestartKeeps ==
  ASSUME PosIInv, Restart
  PROVE  PosIInv'
<1> USE DEF PosIInv
<1>1. /\ Sync /\ blocks' = << >> /\ events' = 0 /\ turning' = FALSE
      /\ discarded' = 0 /\ prepped' = 0
      /\ counted' = counted /\ flagged' = {} /\ at' = "main" /\ line' = NoLine
      /\ copy' = copy /\ lines' = lines /\ mode' \in {"ALARM", "IDLE"}
      /\ goal' = [axis \in XY |-> Sub * Twice(counted, axis)]
  BY DEF Restart
<1>2. /\ planned' \in [XY -> -Span .. 0] /\ parsed' \in [XY -> Int]
      /\ goal' \in [XY -> Int]
      /\ \A axis \in XY : planned'[axis] = Lround(parsed'[axis])
      /\ GoalIsPlanned' /\ PlanInTravel'
  BY <1>1, SyncKeeps
<1>5. CutFits'
  BY <1>1 DEF CutFits
<1>3. PosTypeOK' /\ CopiesAgree'
  <2>1. << >> \in Seq(Block) /\ NoLine \in [to : [XY -> Int], jog : BOOLEAN]
    BY DEF NoLine, Origin
  <2> QED BY <1>1, <1>2, <2>1 DEF PosTypeOK, CopiesAgree
<1>4. AtRest' /\ LineFits' /\ CopyIsTrue'
  BY <1>1 DEF AtRest, LineFits, Place, CopyIsTrue
<1> QED BY <1>2, <1>3, <1>4, <1>5

LEMMA JogCancelKeeps ==
  ASSUME PosIInv, JogCancel
  PROVE  PosIInv'
<1> USE DEF PosIInv
<1>1. PosTypeOK' /\ AtRest' /\ LineFits' /\ CopiesAgree' /\ GoalIsPlanned'
  BY DEF JogCancel, motion, PosTypeOK, AtRest, Moving, LineFits, Place,
         CopiesAgree, GoalIsPlanned, system_check_travel_limits
<1>2. PlanInTravel' /\ CutFits' /\ CopyIsTrue'
  BY PlanUnmoved DEF JogCancel, motion, AtRest, Moving, CopyIsTrue
<1> QED BY <1>1, <1>2

LEMMA UnlockKeeps ==
  ASSUME PosIInv, Unlock
  PROVE  PosIInv'
<1> USE DEF PosIInv
<1>1. PosTypeOK' /\ AtRest' /\ LineFits' /\ CopiesAgree' /\ GoalIsPlanned'
  BY DEF Unlock, motion, PosTypeOK, AtRest, Moving, LineFits, Place,
         CopiesAgree, GoalIsPlanned, system_check_travel_limits
<1>2. PlanInTravel' /\ CutFits' /\ CopyIsTrue'
  BY PlanUnmoved DEF Unlock, motion, AtRest, Moving, CopyIsTrue
<1> QED BY <1>1, <1>2

LEMMA CheckModeKeeps ==
  ASSUME PosIInv, CheckMode
  PROVE  PosIInv'
<1> USE DEF PosIInv
<1>1. /\ at = "main" /\ UNCHANGED <<motion, planned, parsed, at, line, copy, lines, goal>>
      /\ \/ mode = "IDLE" /\ mode' = "CHECK" /\ flagged' = flagged /\ turning' = turning
         \/ /\ mode = "CHECK" /\ mode' = mode
            /\ flagged' = flagged \cup {"RESET"} /\ turning' = turning
  BY DEF CheckMode, mc_reset, Moving, PosTypeOK
<1>2. PosTypeOK'
  BY <1>1 DEF PosTypeOK, motion
<1>3. AtRest' /\ LineFits' /\ CopiesAgree' /\ GoalIsPlanned'
  BY <1>1 DEF AtRest, Moving, LineFits, Place, CopiesAgree, GoalIsPlanned
<1>4. PlanInTravel' /\ CutFits' /\ CopyIsTrue'
  BY <1>1, PlanUnmoved DEF CopyIsTrue
<1> QED BY <1>2, <1>3, <1>4

LEMMA SoftHoldKeeps ==
  ASSUME PosIInv, SoftHold
  PROVE  PosIInv'
<1> USE DEF PosIInv
<1>1. PosTypeOK' /\ AtRest' /\ LineFits' /\ CopiesAgree' /\ GoalIsPlanned'
  BY DEF SoftHold, motion, PosTypeOK, AtRest, Moving, LineFits, Place,
         CopiesAgree, GoalIsPlanned, system_check_travel_limits
<1>2. PlanInTravel' /\ CutFits' /\ CopyIsTrue'
  BY PlanUnmoved DEF SoftHold, motion, AtRest, Moving, CopyIsTrue
<1> QED BY <1>1, <1>2

LEMMA StatusSentKeeps ==
  ASSUME PosIInv, StatusSent
  PROVE  PosIInv'
<1> USE DEF PosIInv
<1>1. PosTypeOK' /\ AtRest' /\ LineFits' /\ CopiesAgree' /\ GoalIsPlanned'
  BY DEF StatusSent, NoCopy, motion, PosTypeOK, AtRest, Moving, LineFits, Place,
         CopiesAgree, GoalIsPlanned, system_check_travel_limits
<1>2. PlanInTravel' /\ CutFits' /\ CopyIsTrue'
  BY PlanUnmoved DEF StatusSent, NoCopy, motion, PosTypeOK, CopyIsTrue
<1> QED BY <1>1, <1>2

LEMMA TargetsAreReal ==
  ASSUME PosTypeOK, NEW target \in Targets
  PROVE  target \in [XY -> Int]
<1>1. \A to \in Moves : to \in [XY -> Int]
  BY Constants
<1> QED BY <1>1 DEF Targets, PosTypeOK

LEMMA MoveLineKeeps ==
  ASSUME PosIInv, MoveLine
  PROVE  PosIInv'
<1> USE DEF PosIInv
<1>1. /\ UNCHANGED <<motion, planned, turning, mode, flagged, copy, goal>>
      /\ at = "main" /\ lines' = lines + 1
  BY DEF MoveLine
<1>2. PICK target \in Targets :
        \/ /\ system_check_travel_limits(target)
           /\ at' = "soft" /\ line' = [to |-> target, jog |-> FALSE]
           /\ UNCHANGED parsed
        \/ /\ ~system_check_travel_limits(target) /\ mode = "CHECK"
           /\ parsed' = target /\ UNCHANGED <<at, line>>
        \/ /\ ~system_check_travel_limits(target) /\ mode # "CHECK"
           /\ at' = "line" /\ line' = [to |-> target, jog |-> FALSE]
           /\ UNCHANGED parsed
  BY DEF MoveLine
<1>3. target \in [XY -> Int]
  BY TargetsAreReal
<1>4. PosTypeOK'
  <2>1. [to |-> target, jog |-> FALSE] \in [to : [XY -> Int], jog : BOOLEAN]
    BY <1>3
  <2>2. /\ at' \in {"main", "line", "soft", "report", "abort"}
        /\ line' \in [to : [XY -> Int], jog : BOOLEAN] /\ parsed' \in [XY -> Int]
    BY <1>1, <1>2, <1>3, <2>1 DEF PosTypeOK
  <2> QED BY <1>1, <2>2 DEF PosTypeOK, motion
<1>5. AtRest' /\ GoalIsPlanned' /\ CopyIsTrue'
  BY <1>1, <1>2 DEF AtRest, Moving, GoalIsPlanned, CopyIsTrue, motion
<1>6. LineFits'
  <2>1. at' = "line" => /\ line'.to = target /\ mode' = mode /\ mode # "CHECK"
                        /\ ~system_check_travel_limits(target)
    BY <1>1, <1>2
  <2>2. at' \in {"main", "soft", "line"}
    BY <1>1, <1>2
  <2> QED BY <2>1, <2>2 DEF LineFits, Place, system_check_travel_limits
<1>7. CopiesAgree'
  BY <1>1, <1>2 DEF CopiesAgree, Place, motion
<1>8. PlanInTravel' /\ CutFits'
  BY <1>1, PlanUnmoved
<1> QED BY <1>4, <1>5, <1>6, <1>7, <1>8

LEMMA JogLineKeeps ==
  ASSUME PosIInv, JogLine
  PROVE  PosIInv'
<1> USE DEF PosIInv
<1>1. /\ UNCHANGED <<motion, planned, parsed, turning, mode, flagged, copy, goal>>
      /\ at = "main" /\ at' = "line" /\ lines' = lines + 1
      /\ mode \in {"IDLE", "JOG"}
  BY DEF JogLine
<1>2. PICK target \in Targets : /\ ~system_check_travel_limits(target)
                                /\ line' = [to |-> target, jog |-> TRUE]
  BY DEF JogLine
<1>3. target \in [XY -> Int]
  BY TargetsAreReal
<1>4. PosTypeOK'
  BY <1>1, <1>2, <1>3 DEF PosTypeOK, motion
<1>5. AtRest' /\ GoalIsPlanned' /\ CopyIsTrue' /\ CopiesAgree'
  BY <1>1 DEF AtRest, Moving, GoalIsPlanned, CopyIsTrue, motion,
                     CopiesAgree, Place
<1>6. LineFits'
  BY <1>1, <1>2 DEF LineFits, Place, system_check_travel_limits
<1>7. PlanInTravel' /\ CutFits'
  BY <1>1, PlanUnmoved
<1> QED BY <1>4, <1>5, <1>6, <1>7

LEMMA SoftAlarmKeeps ==
  ASSUME PosIInv, SoftAlarm
  PROVE  PosIInv'
<1> USE DEF PosIInv
<1>1. PosTypeOK' /\ AtRest' /\ LineFits' /\ CopiesAgree' /\ GoalIsPlanned'
  BY DEF SoftAlarm, motion, PosTypeOK, AtRest, Moving, LineFits, Place,
         CopiesAgree, GoalIsPlanned
<1>2. PlanInTravel' /\ CutFits' /\ CopyIsTrue'
  BY PlanUnmoved DEF SoftAlarm, motion, CopyIsTrue
<1> QED BY <1>1, <1>2

(* What plan_buffer_line makes of a target. *)
WayTo(target) == [axis \in XY |-> Lround(target[axis]) - planned[axis]]
BlockTo(target) ==
  [m \in Motors |-> MotorSteps("X", WayTo(target)["X"])[m]
                      + MotorSteps("Y", WayTo(target)["Y"])[m]]

LEMMA NewBlock ==
  ASSUME PosTypeOK, NEW target \in [XY -> Int],
         ~system_check_travel_limits(target)
  PROVE  LET there == [axis \in XY |-> Lround(target[axis])]
             b == BlockTo(target)
         IN /\ there \in [XY -> -Span .. 0]
            /\ b \in [Motors -> Int] /\ MotorsMax(b) \in Nat
            /\ \A axis \in XY : Twice(b, axis) = 2 * (there[axis] - planned[axis])
            /\ MotorsMax(b) = 0 => planned = there
            /\ \A axis \in XY :
                 2 * (Sub * there[axis]) - 2 * target[axis] \in -Sub .. Sub
<1> DEFINE there == [axis \in XY |-> Lround(target[axis])]
           b == BlockTo(target)
<1>1. there \in [XY -> -Span .. 0]
  <2>1. \A axis \in XY : /\ target[axis] \in Int /\ target[axis] <= 0
                         /\ target[axis] >= -(Sub * Span)
    <3> DEFINE lowest == -Sub * Span
    <3>1. lowest \in Int
      BY Constants
    <3>2. \A axis \in XY : ~(target[axis] > 0) /\ ~(target[axis] < lowest)
      BY Zenon DEF system_check_travel_limits
    <3> HIDE DEF lowest
    <3>3. \A axis \in XY : /\ target[axis] \in Int /\ target[axis] <= 0
                           /\ target[axis] >= lowest
      <4> TAKE axis \in XY
      <4>1. target[axis] \in Int
        OBVIOUS
      <4>2. ~(target[axis] > 0) /\ ~(target[axis] < lowest)
        BY <3>2
      <4> QED BY <4>1, <4>2, <3>1
    <3> QED BY <3>3 DEF lowest
  <2> QED BY <2>1, RoundsIntoTravel
<1>2. /\ "X" \in XY /\ "Y" \in XY
      /\ planned \in [XY -> -Span .. 0] /\ Span \in Nat
  BY Constants DEF PosTypeOK, XY
<1> DEFINE x == there["X"] - planned["X"]
           y == there["Y"] - planned["Y"]
<1>3. x \in Int /\ y \in Int
  BY <1>1, <1>2
<1>4. b \in [Motors -> Int] /\ b["A"] = x + y /\ b["B"] = x - y
  <2>1. WayTo(target)["X"] = x /\ WayTo(target)["Y"] = y
    BY <1>2 DEF WayTo
  <2> HIDE DEF x, y
  <2> QED BY <2>1, <1>3 DEF BlockTo, MotorSteps, Motors
<1>5. MotorsMax(b) \in Nat /\ (MotorsMax(b) = 0 => x = 0 /\ y = 0)
  <2> HIDE DEF b, x, y
  <2> QED BY <1>3, <1>4 DEF MotorsMax, Magnitude
<1>6. \A axis \in XY : Twice(b, axis) = 2 * (there[axis] - planned[axis])
  <2>1. Twice(b, "X") = 2 * x /\ Twice(b, "Y") = 2 * y
    <3> HIDE DEF b, x, y
    <3> QED BY <1>3, <1>4 DEF Twice
  <2> QED BY <2>1 DEF XY
<1>7. MotorsMax(b) = 0 => planned = there
  <2> SUFFICES ASSUME MotorsMax(b) = 0
               PROVE  planned = there
    OBVIOUS
  <2>1. there["X"] = planned["X"] /\ there["Y"] = planned["Y"]
    <3> HIDE DEF there, b
    <3> QED BY <1>1, <1>2, <1>5
  <2>2. \A axis \in XY : planned[axis] = there[axis]
    BY <2>1 DEF XY
  <2> HIDE DEF there
  <2> QED BY <2>2, <1>1, <1>2
<1>8. \A axis \in XY : 2 * (Sub * there[axis]) - 2 * target[axis] \in -Sub .. Sub
  BY NearestStep
<1> QED BY <1>1, <1>4, <1>5, <1>6, <1>7, <1>8

LEMMA PlanLineKeeps ==
  ASSUME PosIInv, PlanLine
  PROVE  PosIInv'
<1> USE DEF PosIInv
<1> DEFINE target == line.to
           there == [axis \in XY |-> Lround(target[axis])]
           b == BlockTo(target)
<1>1. /\ at = "line" /\ at' = "main" /\ line' = NoLine /\ parsed' = target
      /\ goal' = [axis \in XY |-> 2 * target[axis]]
      /\ UNCHANGED <<counted, events, flagged, copy, lines>>
      /\ \/ /\ line.jog /\ mode = "IDLE" /\ mode' = "JOG" /\ turning' = TRUE
            /\ CutSegment(blocks') \/ UNCHANGED <<discarded, prepped>>
         \/ UNCHANGED <<mode, turning, discarded, prepped>>
  BY DEF PlanLine, st_wake_up
<1>2. /\ target \in [XY -> Int] /\ ~system_check_travel_limits(target)
      /\ mode # "CHECK"
  BY <1>1 DEF PosTypeOK, LineFits, Place
<1>3. /\ there \in [XY -> -Span .. 0]
      /\ b \in [Motors -> Int] /\ MotorsMax(b) \in Nat
      /\ \A axis \in XY : Twice(b, axis) = 2 * (there[axis] - planned[axis])
      /\ MotorsMax(b) = 0 => planned = there
      /\ \A axis \in XY :
           2 * (Sub * there[axis]) - 2 * target[axis] \in -Sub .. Sub
  BY <1>2, NewBlock
<1>4. IF MotorsMax(b) = 0 THEN blocks' = blocks /\ planned' = planned
      ELSE blocks' = Append(blocks, b) /\ planned' = there
  BY DEF PlanLine, plan_buffer_line, BlockTo, WayTo
<1>5. planned' = there
  BY <1>3, <1>4
<1> HIDE DEF target, b
<1>6. /\ blocks' \in Seq(Block)
      /\ IF blocks' = << >> THEN events' = 0
                            ELSE events' < MotorsMax(Head(blocks'))
      /\ Started' = Started
  <2>1. CASE MotorsMax(b) = 0
    BY <2>1, <1>1, <1>4 DEF PosTypeOK, Started
  <2>2. CASE MotorsMax(b) # 0
    <3>1. b \in Block /\ blocks \in Seq(Block) /\ blocks' = Append(blocks, b)
      BY <2>2, <1>3, <1>4 DEF Block, PosTypeOK
    <3>2. CASE blocks = << >>
      <4>1. /\ Head(blocks') = b /\ blocks' # << >> /\ events = 0
            /\ 0 \in 0 .. MotorsMax(b) /\ MotorsMax(b) > 0
        BY <3>1, <3>2 DEF PosTypeOK, Block
      <4>2. \A m \in Motors : Made(b, 0, m) = 0
        <5>1. MadeOf(b, 0) = [m \in Motors |-> 0]
          BY <3>1, <4>1, OnTheWay
        <5> QED BY <5>1 DEF MadeOf
      <4>3. Started' = Started
        BY <4>1, <4>2, <3>2, <1>1 DEF Started
      <4> QED BY <3>1, <4>1, <4>3, <1>1
    <3>3. CASE blocks # << >>
      <4>1. Head(blocks') = Head(blocks) /\ blocks' # << >> /\ blocks' \in Seq(Block)
        BY <3>1, <3>3
      <4> QED BY <4>1, <3>3, <1>1 DEF PosTypeOK, Started
    <3> QED BY <3>2, <3>3
  <2> QED BY <2>1, <2>2
<1>7. PosTypeOK'
  <2>1. /\ NoLine \in [to : [XY -> Int], jog : BOOLEAN]
        /\ [axis \in XY |-> 2 * target[axis]] \in [XY -> Int]
    BY <1>2 DEF NoLine, Origin
  <2> HIDE DEF there
  <2> QED BY <1>1, <1>2, <1>3, <1>5, <1>6, <2>1 DEF PosTypeOK
<1>8. AtRest' /\ LineFits' /\ CopyIsTrue'
  BY <1>1 DEF AtRest, Moving, LineFits, Place, CopyIsTrue
<1>9. CopiesAgree' /\ GoalIsPlanned'
  BY <1>1, <1>3, <1>5 DEF CopiesAgree, GoalIsPlanned
<1>10. PlanInTravel'
  <2>1. PICK way : Leads(way, Started, blocks, planned)
    BY DEF PlanInTravel
  <2>2. CASE MotorsMax(b) = 0
    <3>1. blocks' = blocks /\ planned' = planned /\ Started' = Started
      BY <2>2, <1>4, <1>6
    <3> QED BY <2>1, <3>1 DEF PlanInTravel, Leads
  <2>3. CASE MotorsMax(b) # 0
    <3>1. /\ b \in Block /\ blocks \in Seq(Block) /\ blocks' = Append(blocks, b)
          /\ planned \in [XY -> -Span .. 0]
      BY <2>3, <1>3, <1>4 DEF Block, PosTypeOK
    <3>2. \E new : Leads(new, Started, Append(blocks, b), there)
      <4> HIDE DEF there
      <4> QED BY <2>1, <3>1, <1>3, AppendLeads
    <3> QED BY <3>1, <3>2, <1>5, <1>6 DEF PlanInTravel, Leads
  <2> QED BY <2>2, <2>3
<1>11. CutFits'
  <2>1. blocks \in Seq(Block) /\ events \in Nat
    BY DEF PosTypeOK
  <2>2. /\ Len(blocks') >= Len(blocks)
        /\ \A i \in 1 .. Len(blocks) : blocks'[i] = blocks[i]
    BY <1>4, <2>1
  <2> DEFINE queued == blocks'
  <2>3. /\ queued \in Seq(Block) /\ blocks' = queued /\ events' = events
        /\ CutSegment(queued) \/ UNCHANGED <<discarded, prepped>>
        /\ Len(queued) >= Len(blocks)
        /\ \A i \in 1 .. Len(blocks) : queued[i] = blocks[i]
    BY <1>1, <1>6, <2>2
  <2> HIDE DEF queued
  <2> QED BY <2>1, <2>3, CutKeeps
<1> QED BY <1>7, <1>8, <1>9, <1>10, <1>11

LEMMA StatusRequestKeeps ==
  ASSUME PosIInv, StatusRequest
  PROVE  PosIInv'
<1> USE DEF PosIInv
<1>1. /\ at' = "report" /\ copy' = [NoCopy EXCEPT !.back = at]
      /\ at \in {"main", "line", "soft"}
      /\ UNCHANGED <<motion, planned, parsed, turning, mode, flagged, line,
                     lines, goal>>
  BY DEF StatusRequest, Looks
<1>2. /\ copy' \in [bytes : 0 .. 4, of : [Motors -> Int],
                    back : {"main", "line", "soft"}]
      /\ copy'.bytes = 0 /\ copy'.of["A"] = 0 /\ copy'.of["B"] = 0
      /\ copy'.back = at
  BY <1>1 DEF NoCopy, Motors
<1>3. Place' = Place
  BY <1>1, <1>2 DEF Place
<1>4. PosTypeOK' /\ AtRest' /\ LineFits' /\ CopiesAgree' /\ GoalIsPlanned'
  BY <1>1, <1>2, <1>3 DEF motion, PosTypeOK, AtRest, Moving, LineFits,
         CopiesAgree, GoalIsPlanned, system_check_travel_limits
<1>5. PlanInTravel' /\ CutFits' /\ CopyIsTrue'
  BY <1>1, <1>2, PlanUnmoved DEF CopyIsTrue
<1> QED BY <1>4, <1>5

LEMMA CopyByteKeeps ==
  ASSUME PosIInv, CopyByte
  PROVE  PosIInv'
<1> USE DEF PosIInv
<1>1. /\ at = "report" /\ copy.bytes < 4
      /\ copy' = [copy EXCEPT !.bytes = @ + 1, !.of[CopiedMotor] = @ + CopiedPart]
      /\ UNCHANGED <<motion, planned, parsed, turning, mode, flagged, at, line,
                     lines, goal>>
  BY DEF CopyByte
<1>2. /\ copy \in [bytes : 0 .. 4, of : [Motors -> Int],
                   back : {"main", "line", "soft"}]
      /\ counted["A"] \in Int /\ counted["B"] \in Int
      /\ BYTE \in Nat \ {0}
  BY Constants DEF PosTypeOK, Motors
<1>3. \A n \in Int : /\ n \div BYTE \in Int /\ n % BYTE \in Int
                     /\ BYTE * (n \div BYTE) \in Int
                     /\ (n % BYTE) + BYTE * (n \div BYTE) = n
  <2> SUFFICES ASSUME NEW n \in Int
               PROVE  /\ n \div BYTE \in Int /\ n % BYTE \in Int
                      /\ BYTE * (n \div BYTE) \in Int
                      /\ (n % BYTE) + BYTE * (n \div BYTE) = n
    OBVIOUS
  <2>1. /\ n \div BYTE \in Int /\ n % BYTE \in 0 .. BYTE - 1
        /\ n = (BYTE * (n \div BYTE)) + (n % BYTE)
    BY <1>2, Quotient
  <2>2. BYTE * (n \div BYTE) \in Int
    BY <1>2, <2>1
  <2> QED BY <1>2, <2>1, <2>2
<1> DEFINE part == CopiedPart
           low(m) == counted[m] % BYTE
           high(m) == BYTE * (counted[m] \div BYTE)
<1>4. /\ copy'.bytes = copy.bytes + 1 /\ copy'.back = copy.back
      /\ copy'.of \in [Motors -> Int] /\ copy'.bytes \in 0 .. 4
      /\ copy.bytes < 2 => /\ copy'.of["A"] = copy.of["A"] + CopiedPart
                           /\ copy'.of["B"] = copy.of["B"]
      /\ copy.bytes >= 2 => /\ copy'.of["B"] = copy.of["B"] + CopiedPart
                            /\ copy'.of["A"] = copy.of["A"]
  <2>1. CopiedMotor \in Motors /\ CopiedPart \in Int
    <3>1. CopiedMotor \in Motors /\ counted[CopiedMotor] \in Int
      BY <1>2 DEF CopiedMotor, Motors
    <3> QED BY <3>1, <1>3 DEF CopiedPart
  <2>2. copy.of \in [Motors -> Int] /\ copy.bytes \in 0 .. 4
        /\ copy.of["A"] \in Int /\ copy.of["B"] \in Int
    BY <1>2 DEF Motors
  <2>3. copy'.of = [copy.of EXCEPT ![CopiedMotor] = @ + CopiedPart]
        /\ copy'.bytes = copy.bytes + 1 /\ copy'.back = copy.back
    BY <1>1, <1>2
  <2>4. copy'.of \in [Motors -> Int] /\ copy'.bytes \in 0 .. 4
    BY <1>1, <2>1, <2>2, <2>3
  <2>5. CASE copy.bytes < 2
    BY <2>1, <2>2, <2>3, <2>4, <2>5 DEF CopiedMotor, Motors
  <2>6. CASE copy.bytes >= 2
    BY <2>1, <2>2, <2>3, <2>4, <2>6 DEF CopiedMotor, Motors
  <2> QED BY <2>2, <2>3, <2>4, <2>5, <2>6
<1>5. copy' \in [bytes : 0 .. 4, of : [Motors -> Int],
                 back : {"main", "line", "soft"}]
  BY <1>1, <1>2, <1>4
<1>6. CopyIsTrue'
  <2> SUFFICES ASSUME mode = "IDLE"
               PROVE  CopyIsTrue'
    BY <1>1 DEF CopyIsTrue
  <2>1. /\ copy.bytes = 0 => copy.of["A"] = 0
        /\ copy.bytes = 1 => copy.of["A"] = counted["A"] % BYTE
        /\ copy.bytes >= 2 => copy.of["A"] = counted["A"]
        /\ copy.bytes <= 2 => copy.of["B"] = 0
        /\ copy.bytes = 3 => copy.of["B"] = counted["B"] % BYTE
        /\ counted' = counted
    BY <1>1 DEF CopyIsTrue, motion
  <2>2. /\ counted["A"] % BYTE \in Int /\ counted["B"] % BYTE \in Int
        /\ (counted["A"] % BYTE) + BYTE * (counted["A"] \div BYTE) = counted["A"]
        /\ (counted["B"] % BYTE) + BYTE * (counted["B"] \div BYTE) = counted["B"]
    BY <1>2, <1>3
  <2>3. CASE copy.bytes = 0
    <3>1. CopiedPart = counted["A"] % BYTE
      BY <2>3 DEF CopiedPart, CopiedMotor
    <3> QED BY <2>1, <2>2, <2>3, <3>1, <1>4 DEF CopyIsTrue
  <2>4. CASE copy.bytes = 1
    <3>1. CopiedPart = BYTE * (counted["A"] \div BYTE)
      BY <2>4 DEF CopiedPart, CopiedMotor
    <3> QED BY <2>1, <2>2, <2>4, <3>1, <1>4 DEF CopyIsTrue
  <2>5. CASE copy.bytes = 2
    <3>1. CopiedPart = counted["B"] % BYTE
      BY <2>5 DEF CopiedPart, CopiedMotor
    <3> QED BY <2>1, <2>2, <2>5, <3>1, <1>4 DEF CopyIsTrue
  <2>6. CASE copy.bytes = 3
    <3>1. CopiedPart = BYTE * (counted["B"] \div BYTE)
      BY <2>6 DEF CopiedPart, CopiedMotor
    <3> QED BY <2>1, <2>2, <2>6, <3>1, <1>4 DEF CopyIsTrue
  <2>7. copy.bytes \in {0, 1, 2, 3}
    BY <1>1, <1>2
  <2> QED BY <2>3, <2>4, <2>5, <2>6, <2>7
<1>7. Place' = Place
  BY <1>1, <1>4 DEF Place
<1>8. PosTypeOK' /\ AtRest' /\ LineFits' /\ CopiesAgree' /\ GoalIsPlanned'
  BY <1>1, <1>5, <1>7 DEF motion, PosTypeOK, AtRest, Moving, LineFits,
         CopiesAgree, GoalIsPlanned, system_check_travel_limits
<1>9. PlanInTravel' /\ CutFits'
  BY <1>1, PlanUnmoved
<1> QED BY <1>6, <1>8, <1>9

-----------------------------------------------------------------------------
(* The invariant holds throughout: no sequence of lines, jogs, cancels, holds,
   resets and reports gets the copies of the position out of it. *)
THEOREM PosInductiveInvariant == PositionsSpec => []PosIInv
<1>1. PositionsInit => PosIInv
  BY InitHolds
<1>2. PosIInv /\ [PositionsNext]_positionVars => PosIInv'
  <2> SUFFICES ASSUME PosIInv, [PositionsNext]_positionVars
               PROVE  PosIInv'
    OBVIOUS
  <2>1. CASE StepEvent
    BY <2>1, StepEventKeeps
  <2>2. CASE Stop
    BY <2>2, StopKeeps
  <2>3. CASE ResetChar
    BY <2>3, ResetCharKeeps
  <2>19. CASE st_prep_buffer
    BY <2>19, PrepKeeps
  <2>4. CASE StartCycle
    BY <2>4, StartCycleKeeps
  <2>5. CASE EndCycle
    BY <2>5, EndCycleKeeps
  <2>6. CASE JogCancel
    BY <2>6, JogCancelKeeps
  <2>7. CASE Restart
    BY <2>7, RestartKeeps
  <2>8. CASE Unlock
    BY <2>8, UnlockKeeps
  <2>9. CASE CheckMode
    BY <2>9, CheckModeKeeps
  <2>10. CASE MoveLine
    BY <2>10, MoveLineKeeps
  <2>11. CASE JogLine
    BY <2>11, JogLineKeeps
  <2>12. CASE SoftHold
    BY <2>12, SoftHoldKeeps
  <2>13. CASE SoftAlarm
    BY <2>13, SoftAlarmKeeps
  <2>14. CASE PlanLine
    BY <2>14, PlanLineKeeps
  <2>15. CASE StatusRequest
    BY <2>15, StatusRequestKeeps
  <2>16. CASE CopyByte
    BY <2>16, CopyByteKeeps
  <2>17. CASE StatusSent
    BY <2>17, StatusSentKeeps
  <2>18. CASE UNCHANGED positionVars
    <3>1. /\ UNCHANGED <<motion, planned>>
          /\ counted' = counted /\ blocks' = blocks /\ events' = events
      BY <2>18 DEF positionVars, motion
    <3>2. /\ PosTypeOK' /\ AtRest' /\ LineFits' /\ CopiesAgree'
          /\ GoalIsPlanned' /\ CopyIsTrue'
      BY <2>18, <3>1 DEF positionVars, PosIInv, PosTypeOK, AtRest, Moving,
             LineFits, Place, CopiesAgree, GoalIsPlanned, CopyIsTrue,
             system_check_travel_limits
    <3>3. PlanInTravel' /\ CutFits'
      BY <3>1, PlanUnmoved DEF PosIInv
    <3> QED BY <3>2, <3>3 DEF PosIInv
  <2> QED BY <2>1, <2>2, <2>3, <2>4, <2>5, <2>6, <2>7, <2>8, <2>9, <2>10, <2>11,
             <2>12, <2>13, <2>14, <2>15, <2>16, <2>17, <2>18, <2>19
             DEF PositionsNext
<1> QED BY <1>1, <1>2, PTL DEF PositionsSpec

-----------------------------------------------------------------------------
(* What the invariant means. *)

(* With an empty plan the machine is where the plan led, to one step. *)
LEMMA ArrivedAtGoal ==
  ASSUME PosIInv, blocks = << >>, NEW axis \in XY
  PROVE  Magnitude(Sub * Twice(counted, axis) - goal[axis]) <= 2 * Sub
<1> DEFINE w == Twice(counted, axis)
           p == planned[axis]
           g == goal[axis]
<1>1. PICK way : Leads(way, Started, blocks, planned)
  BY DEF PosIInv, PlanInTravel
<1>2. Started = counted
  BY DEF PosIInv, PosTypeOK, Started
<1>3. w - 2 * p \in -1 .. 1
  <2>1. Len(blocks) + 1 = 1
    OBVIOUS
  <2> QED BY <1>1, <1>2, <2>1 DEF Leads
<1>4. /\ w \in Int /\ p \in Int /\ g \in Int /\ Sub \in Nat \ {0}
      /\ 2 * (Sub * p) - g \in -Sub .. Sub
  <2>1. w \in Int
    BY TwiceIsInt DEF PosIInv, PosTypeOK
  <2>2. p \in Int /\ g \in Int /\ Sub \in Nat \ {0}
    BY Constants DEF PosIInv, PosTypeOK
  <2>3. 2 * (Sub * p) - g \in -Sub .. Sub
    BY DEF PosIInv, GoalIsPlanned
  <2> QED BY <2>1, <2>2, <2>3
<1> HIDE DEF w, p, g
<1>5. Sub * w - 2 * (Sub * p) \in -Sub .. Sub
  <2>1. CASE w = 2 * p
    BY <1>4, <2>1
  <2>2. CASE w = 2 * p + 1
    BY <1>4, <2>2
  <2>3. CASE w = 2 * p - 1
    BY <1>4, <2>3
  <2> QED BY <1>3, <1>4, <2>1, <2>2, <2>3
<1>6. Sub * w \in Int /\ Sub * p \in Int
  BY <1>4
<1>7. Magnitude(Sub * w - g) <= 2 * Sub
  BY <1>4, <1>5, <1>6 DEF Magnitude
<1> QED BY <1>7 DEF w, g

(* Half a step lost in the division and half a digit in the printing. *)
LEMMA PrintedPosition ==
  ASSUME NEW w \in Int, NEW h \in Int, NEW off \in Int, w - 2 * h \in -1 .. 1
  PROVE  Magnitude(2 * printFloat(h - off) * StepsPerMm - (w - 2 * off) * PerMm)
           <= PerMm + StepsPerMm
<1> DEFINE n == h - off
           q == printFloat(n)
           d == w - 2 * h
<1>1. StepsPerMm \in Nat \ {0} /\ PerMm \in Nat \ {0} /\ n \in Int /\ d \in -1 .. 1
  BY Constants
<1> HIDE DEF n
<1>2. /\ q \in Int
      /\ 2 * (StepsPerMm * q) - 2 * (n * PerMm) \in -StepsPerMm .. StepsPerMm
  BY <1>1, NearestDigit
<1> HIDE DEF q, d
<1>3. 2 * q * StepsPerMm = 2 * (StepsPerMm * q) /\ StepsPerMm * q \in Int
  BY <1>1, <1>2
<1>4. (w - 2 * off) * PerMm = 2 * (n * PerMm) + d * PerMm
  <2>1. w - 2 * off = 2 * n + d
    BY DEF n, d
  <2> QED BY <1>1, <2>1
<1>5. d * PerMm \in -PerMm .. PerMm /\ n * PerMm \in Int
  <2>1. d = -1 \/ d = 0 \/ d = 1
    BY <1>1
  <2>2. CASE d = -1
    BY <1>1, <2>2
  <2>3. CASE d = 0
    BY <1>1, <2>3
  <2>4. CASE d = 1
    BY <1>1, <2>4
  <2> QED BY <2>1, <2>2, <2>3, <2>4
<1>6. Magnitude(2 * q * StepsPerMm - (w - 2 * off) * PerMm) <= PerMm + StepsPerMm
  BY <1>1, <1>2, <1>3, <1>4, <1>5 DEF Magnitude
<1> QED BY <1>6 DEF q, n

LEMMA IdleReport ==
  ASSUME PosIInv
  PROVE  IdleReportIsRight
<1> DEFINE off(axis) == IF ShowsMachine THEN 0 ELSE WorkOffset[axis]
           r == report_realtime_status
<1> SUFFICES ASSUME at = "report", copy.bytes = 4, r.state = "IDLE",
                    NEW axis \in XY
             PROVE  /\ Magnitude(2 * r.pos[axis] * StepsPerMm
                          - (Twice(counted, axis) - 2 * off(axis)) * PerMm)
                         <= PerMm + StepsPerMm
                    /\ r.bf = BLOCK_BUFFER_SIZE - 1 /\ ~Segmented =>
                         Magnitude(Sub * Twice(counted, axis) - goal[axis]) <= 2 * Sub
  BY DEF IdleReportIsRight
<1>1. mode = "IDLE"
  BY DEF report_realtime_status
<1>2. Twice(copy.of, axis) = Twice(counted, axis)
  <2>1. copy.of["A"] = counted["A"] /\ copy.of["B"] = counted["B"]
    BY <1>1 DEF PosIInv, CopyIsTrue
  <2> QED BY <2>1 DEF Twice
<1>3. r.pos[axis] = printFloat(Half(Twice(counted, axis)) - off(axis))
  BY <1>2 DEF report_realtime_status, ToAxis
<1>4. Magnitude(2 * r.pos[axis] * StepsPerMm
                  - (Twice(counted, axis) - 2 * off(axis)) * PerMm)
        <= PerMm + StepsPerMm
  <2> DEFINE w == Twice(counted, axis)
             h == Half(w)
             o == off(axis)
  <2>1. w \in Extent
    BY CountedInTravel DEF PosIInv
  <2> HIDE DEF w
  <2>2. h \in Int /\ w \in Int /\ w - 2 * h \in -1 .. 1
    BY <2>1, HalfOfTravel, Constants DEF Extent
  <2>3. o \in Int
    BY Constants
  <2> HIDE DEF h, o, r
  <2>4. Magnitude(2 * printFloat(h - o) * StepsPerMm - (w - 2 * o) * PerMm)
          <= PerMm + StepsPerMm
    BY <2>2, <2>3, PrintedPosition
  <2>5. r.pos[axis] = printFloat(h - o)
    BY <1>3 DEF h, o, w
  <2> QED BY <2>4, <2>5 DEF o, w
<1>5. ASSUME r.bf = BLOCK_BUFFER_SIZE - 1, ~Segmented
      PROVE  Magnitude(Sub * Twice(counted, axis) - goal[axis]) <= 2 * Sub
  <2>1. BLOCK_BUFFER_SIZE - 1 - (Len(blocks) - discarded) = BLOCK_BUFFER_SIZE - 1
    BY <1>5 DEF report_realtime_status, plan_get_block_buffer_available
  <2>2. blocks \in Seq(Block) /\ BLOCK_BUFFER_SIZE \in Nat /\ Len(blocks) \in Nat
    BY Constants DEF PosIInv, PosTypeOK
  <2>4. discarded = 0
    BY <1>5 DEF Segmented, PosIInv, CutFits
  <2>3. blocks = << >>
    BY <2>1, <2>2, <2>4
  <2> QED BY <2>3, ArrivedAtGoal
<1> QED BY <1>4, <1>5

(* PlaceIsKept for every instance: a report that says Idle shows the motors'
   position to half a step and half a digit, and the place the last line led
   to to one step; the parser, the planner and the motors agree whenever a
   line is taken; and the machine stays in its travel. *)
THEOREM PlaceIsAlwaysKept == PositionsSpec => []PlaceIsKept
<1>1. PosIInv => PlaceIsKept
  <2> SUFFICES ASSUME PosIInv
               PROVE  PlaceIsKept
    OBVIOUS
  <2>1. IdleReportIsRight
    BY IdleReport
  <2>2. ParserAndPlannerAgree
    BY DEF PosIInv, CopiesAgree, Place, ParserAndPlannerAgree
  <2>3. WithinTravel
    BY CountedInTravel DEF PosIInv, WithinTravel, Extent
  <2> QED BY <2>1, <2>2, <2>3 DEF PlaceIsKept
<1> QED BY <1>1, PosInductiveInvariant, PTL


-----------------------------------------------------------------------------
(* The homing cycle. *)

(* How far the carriage is beyond an axis' switch, in half steps. *)
Beyond(axis) == IF axis \in Inverted THEN -Twice(carriage, axis)
                                     ELSE Twice(carriage, axis) - 2 * Travel

HomingPlaces ==
  {"main", "start", "poll", "check", "stop", "set", "failed", "failed2",
   "realtime", "realtime2", "suspended", "suspended2", "finish", "boot"}
Passing == place \in {"poll", "check", "stop"}
Ended == place \in {"realtime", "realtime2", "suspended", "suspended2",
                    "finish"}

HomingTypeOK ==
  /\ carriage \in [Motors -> Int] /\ sys_position \in [Motors -> Int]
  /\ limit \in [XY -> {"works", "open", "closed"}]
  /\ homing_axis_lock \in {{}, Motors}
  /\ remaining \in Nat /\ stepping \in BOOLEAN
  /\ exec_state \subseteq {"RESET", "SAFETY_DOOR", "CYCLE_STOP"}
  /\ exec_alarm \in BOOLEAN
  /\ machine \in {"IDLE", "ALARM", "HOMING", "SAFETY_DOOR"}
  /\ cycle \in XY /\ pass \in 0 .. 3 /\ place \in HomingPlaces
  /\ over \in 0 .. Lag /\ tried \in BOOLEAN /\ misled \in BOOLEAN

(* The steppers stand still between the passes and outside of them, and the
   motors are locked by a closed switch only. *)
StandsStill ==
  place \in {"main", "start", "set"} \/ Ended
  \/ (place = "boot" /\ machine # "ALARM") => ~stepping

LocksFit ==
  /\ place = "poll" => homing_axis_lock = Motors
  /\ place \in {"check", "stop"} =>
       /\ ~Approach => homing_axis_lock = Motors
       /\ Approach /\ homing_axis_lock = {} /\ ~misled => Closed(cycle)
       /\ Approach /\ place = "stop" => homing_axis_lock = {}

FailureIsAlarm ==
  /\ place \in {"failed", "failed2"} => "RESET" \in exec_state
  /\ place = "failed" => exec_alarm
  /\ place = "failed2" => machine = "ALARM"

(* Where the axis is in its four passes, if the switch it found is its own. *)
PulledOff1 ==
  pass = 1 =>
    /\ place = "start" => Closed(cycle)
    /\ Passing => remaining <= Pulloff
                  /\ (limit[cycle] = "works" =>
                        Beyond(cycle) >= 2 * remaining - 2 * Pulloff)
    /\ place = "stop" => ~Closed(cycle)

Located ==
  pass = 2 =>
    /\ place = "start" => ~Closed(cycle)
                          /\ (limit[cycle] = "works" =>
                                Beyond(cycle) >= -(2 * Pulloff))
    /\ Passing =>
         /\ limit[cycle] # "closed"
         /\ limit[cycle] = "works" =>
              /\ Beyond(cycle) <= 2 * over + 1
              /\ Beyond(cycle) < 0 => over = 0
              /\ remaining + over >= 4 * Pulloff
              /\ homing_axis_lock = Motors =>
                   Beyond(cycle) + 2 * remaining >= 8 * Pulloff
    /\ place = "stop" => "CYCLE_STOP" \notin exec_state

PulledOff3 ==
  pass = 3 =>
    /\ place = "start" => /\ limit[cycle] = "works"
                          /\ Beyond(cycle) \in 0 .. 2 * Lag + 1
                          /\ "CYCLE_STOP" \notin exec_state
    /\ Passing => /\ limit[cycle] = "works" /\ remaining <= Pulloff
                  /\ Beyond(cycle) + 2 * (Pulloff - remaining)
                       \in 0 .. 2 * Lag + 1
                  /\ "CYCLE_STOP" \in exec_state => remaining = 0
    /\ place = "stop" => remaining = 0

Pulled(axis) == Beyond(axis) + 2 * Pulloff \in 0 .. 2 * Lag + 1
Settled(axis) ==
  Pulled(axis) /\ Twice(sys_position, axis) = 2 * HomePosition(axis)

AxesSettled ==
  /\ place = "set" => pass = 3 /\ Pulled(cycle)
  /\ cycle = "Y" /\ (Passing \/ place \in {"start", "set"}) => Settled("X")
  /\ Ended \/ (place \in {"boot", "main"} /\ tried /\ machine # "ALARM") =>
       Settled("X") /\ Settled("Y")

AxesFit == PulledOff1 /\ Located /\ PulledOff3 /\ AxesSettled

HomingIInv ==
  /\ HomingTypeOK /\ StandsStill /\ LocksFit /\ FailureIsAlarm
  /\ ~misled => AxesFit

-----------------------------------------------------------------------------
(* Steps of the motors as movements of the axes. *)

LEMMA AxisMoves ==
  ASSUME NEW p \in [Motors -> Int], NEW axis \in XY, NEW n \in Int
  PROVE  /\ Plus(p, axis, n, Motors) \in [Motors -> Int]
         /\ Twice(Plus(p, axis, n, Motors), axis) = Twice(p, axis) + 2 * n
         /\ Twice(Plus(p, axis, n, Motors), OtherAxis(axis))
              = Twice(p, OtherAxis(axis))
<1>1. p["A"] \in Int /\ p["B"] \in Int /\ "A" \in Motors /\ "B" \in Motors
  BY DEF Motors
<1>2. MotorSteps(axis, n) \in [Motors -> Int]
  BY DEF MotorSteps
<1>3. Plus(p, axis, n, Motors) \in [Motors -> Int]
  BY <1>2 DEF Plus
<1>4. \A m \in Motors :
        Plus(p, axis, n, Motors)[m] = p[m] + MotorSteps(axis, n)[m]
  BY DEF Plus
<1>5. /\ MotorSteps(axis, n)["A"] = n
      /\ MotorSteps(axis, n)["B"] = IF axis = "Y" THEN -n ELSE n
  BY <1>1 DEF MotorSteps
<1>6. axis = "X" \/ axis = "Y"
  BY DEF XY
<1> QED BY <1>1, <1>3, <1>4, <1>5, <1>6 DEF Twice, OtherAxis

LEMMA LockedMotorsRest ==
  ASSUME NEW p \in [Motors -> Int], NEW axis, NEW n
  PROVE  Plus(p, axis, n, {}) = p
BY DEF Plus

LEMMA SetAxes ==
  ASSUME NEW axis \in XY, NEW n \in Int, NEW k \in Int
  PROVE  LET p == Plus(Plus([m \in Motors |-> 0], axis, n, Motors),
                       OtherAxis(axis), k, Motors)
             q == Plus([m \in Motors |-> 0], OtherAxis(axis), k, Motors)
         IN /\ p \in [Motors -> Int] /\ q \in [Motors -> Int]
            /\ Twice(p, axis) = 2 * n /\ Twice(p, OtherAxis(axis)) = 2 * k
            /\ Twice(q, OtherAxis(axis)) = 2 * k
<1> DEFINE zero == [m \in Motors |-> 0]
           one == Plus(zero, axis, n, Motors)
<1>1. /\ zero \in [Motors -> Int] /\ Twice(zero, axis) = 0
      /\ Twice(zero, OtherAxis(axis)) = 0
  BY DEF Twice, Motors
<1>2. /\ OtherAxis(axis) \in XY /\ OtherAxis(OtherAxis(axis)) = axis
  BY DEF OtherAxis, XY
<1> HIDE DEF zero
<1>3. /\ one \in [Motors -> Int] /\ Twice(one, axis) = 2 * n
      /\ Twice(one, OtherAxis(axis)) = 0
  BY <1>1, AxisMoves DEF one
<1> HIDE DEF one
<1>4. /\ Plus(one, OtherAxis(axis), k, Motors) \in [Motors -> Int]
      /\ Twice(Plus(one, OtherAxis(axis), k, Motors), OtherAxis(axis)) = 2 * k
      /\ Twice(Plus(one, OtherAxis(axis), k, Motors), axis) = 2 * n
  BY <1>2, AxisMoves, <1>3
<1>5. /\ Plus(zero, OtherAxis(axis), k, Motors) \in [Motors -> Int]
      /\ Twice(Plus(zero, OtherAxis(axis), k, Motors), OtherAxis(axis)) = 2 * k
  BY <1>1, <1>2, AxisMoves
<1> QED BY <1>4, <1>5 DEF one, zero

LEMMA HalfOfTwice == /\ \A n \in Int : Half(2 * n) = n
                     /\ \A n \in Int : Half(n) \in Int
                     /\ \A n \in Nat : Half(n) \in Nat
BY DEF Half

LEMMA TwiceInt ==
  ASSUME NEW p \in [Motors -> Int], NEW axis PROVE Twice(p, axis) \in Int
BY DEF Twice, Motors

LEMMA HomingConstants ==
  /\ Travel \in Nat \ {0} /\ Pulloff \in Nat \ {0} /\ Lag \in Nat
  /\ Lag < Pulloff
  /\ Switches \subseteq {"works", "open", "closed"}
  /\ \A axis \in XY : HomePosition(axis) \in Int
  /\ \A p \in 0 .. 3 : PassDistance(p) \in Nat
<1>1. Travel + Half(Travel) + 1 \in Nat /\ 5 * Pulloff \in Nat /\ Pulloff \in Nat
  BY HomingAssumption, HalfOfTwice
<1> QED BY <1>1, HomingAssumption DEF HomePosition, PassDistance

LEMMA ClosedBeyond ==
  ASSUME carriage \in [Motors -> Int], NEW axis \in XY
  PROVE  /\ Beyond(axis) \in Int
         /\ Closed(axis) <=> \/ limit[axis] = "closed"
                             \/ limit[axis] = "works" /\ Beyond(axis) >= 0
BY TwiceInt, HomingConstants DEF Closed, Beyond

-----------------------------------------------------------------------------
(* The start, and each step. *)

LEMMA HomingInitHolds == HomingInit => HomingIInv
<1> SUFFICES ASSUME HomingInit PROVE HomingIInv
  OBVIOUS
<1>1. carriage \in [Motors -> Int] /\ sys_position \in [Motors -> Int]
  <2>1. \A x \in -Travel .. 2 * Travel : x \in Int
    BY HomingConstants
  <2> QED BY <2>1 DEF HomingInit
<1>2. HomingTypeOK
  <2>1. limit \in [XY -> {"works", "open", "closed"}]
    BY HomingConstants DEF HomingInit
  <2>2. over \in 0 .. Lag /\ pass \in 0 .. 3 /\ remaining \in Nat
    BY HomingConstants DEF HomingInit
  <2> QED BY <1>1, <2>1, <2>2 DEF HomingInit, HomingTypeOK, XY, HomingPlaces
<1> QED BY <1>2 DEF HomingInit, HomingIInv, StandsStill, LocksFit,
      FailureIsAlarm, AxesFit, PulledOff1, Located, PulledOff3, AxesSettled,
      Passing, Ended

(* What a step does that moves neither the carriage nor the program. *)
LEMMA QuietHoming ==
  ASSUME HomingIInv, HomingTypeOK',
         UNCHANGED <<carriage, limit, sys_position, homing_axis_lock, remaining,
                     cycle, pass, place, over, tried, misled>>,
         stepping' => stepping,
         machine # "ALARM" => machine' = machine, machine = "ALARM" => machine' = "ALARM",
         "RESET" \in exec_state => "RESET" \in exec_state',
         "CYCLE_STOP" \in exec_state' => "CYCLE_STOP" \in exec_state
                                         \/ (remaining = 0 /\ stepping),
         exec_alarm => exec_alarm'
  PROVE  HomingIInv'
<1>1. /\ \A axis \in XY : /\ Beyond(axis)' = Beyond(axis)
                          /\ (Closed(axis)' <=> Closed(axis))
                          /\ (Settled(axis)' <=> Settled(axis))
                          /\ (Pulled(axis)' <=> Pulled(axis))
      /\ (Approach' <=> Approach) /\ (Passing' <=> Passing) /\ (Ended' <=> Ended)
  BY DEF Beyond, Closed, Settled, Pulled, Approach, Passing, Ended
<1>2. StandsStill' /\ LocksFit' /\ FailureIsAlarm'
  BY <1>1 DEF HomingIInv, HomingTypeOK, StandsStill, LocksFit, FailureIsAlarm
<1>3. ASSUME ~misled PROVE AxesFit'
  <2> USE DEF HomingIInv, AxesFit
  <2>1. PulledOff1'
    BY <1>1, <1>3 DEF HomingTypeOK, PulledOff1
  <2>2. Located'
    <3>1. pass = 2 /\ place = "stop" => remaining # 0
      <4> SUFFICES ASSUME pass = 2, place = "stop" PROVE remaining # 0
        OBVIOUS
      <4>1. Closed(cycle) /\ limit[cycle] # "closed"
        BY <1>3 DEF LocksFit, Located, Approach, Passing
      <4>2. remaining + over >= 4 * Pulloff
        BY <1>3, <4>1, ClosedBeyond DEF HomingTypeOK, Located, Passing
      <4> QED BY <4>2, HomingConstants DEF HomingTypeOK
    <3> QED BY <1>1, <1>3, <3>1 DEF HomingTypeOK, Located
  <2>3. PulledOff3'
    <3>1. place = "start" => ~stepping
      BY DEF StandsStill
    <3> QED BY <1>1, <1>3, <3>1 DEF HomingTypeOK, PulledOff3
  <2>4. AxesSettled'
    <3>1. "X" \in XY /\ "Y" \in XY
      BY DEF XY
    <3> QED BY <1>1, <1>3, <3>1 DEF HomingTypeOK, AxesSettled
  <2> QED BY <2>1, <2>2, <2>3, <2>4
<1> QED BY <1>2, <1>3 DEF HomingIInv

LEMMA InterruptsKeep ==
  HomingIInv /\ (HomingReset \/ HomingDoor \/ HomingStepsOut) => HomingIInv'
<1> SUFFICES ASSUME HomingIInv, HomingReset \/ HomingDoor \/ HomingStepsOut
             PROVE  HomingIInv'
  OBVIOUS
<1> USE DEF carriageVars, stepperVars, execVars, passVars, homingHistory
<1>1. CASE HomingReset
  <2>1. HomingTypeOK'
    BY <1>1 DEF HomingReset, HomingIInv, HomingTypeOK
  <2> QED BY <1>1, <2>1, QuietHoming DEF HomingReset, HomingIInv, HomingTypeOK
<1>2. CASE HomingDoor
  <2>1. HomingTypeOK'
    BY <1>2 DEF HomingDoor, HomingIInv, HomingTypeOK
  <2> QED BY <1>2, <2>1, QuietHoming DEF HomingDoor, HomingIInv, HomingTypeOK
<1>3. CASE HomingStepsOut
  <2>1. HomingTypeOK'
    BY <1>3 DEF HomingStepsOut, HomingIInv, HomingTypeOK
  <2> QED
    BY <1>3, <2>1, QuietHoming DEF HomingStepsOut, HomingIInv, HomingTypeOK
<1> QED BY <1>1, <1>2, <1>3

(* A step moves the axis of the cycle, and none if the motors are locked. *)
LEMMA HomingStepKeeps == HomingIInv /\ HomingStep => HomingIInv'
<1> SUFFICES ASSUME HomingIInv, HomingStep PROVE HomingIInv'
  OBVIOUS
<1> USE DEF HomingIInv
<1>1. /\ stepping /\ remaining > 0 /\ (Overruns => over < Lag)
      /\ sys_position' = Plus(sys_position, cycle, Direction, Motors)
      /\ carriage' = Plus(carriage, cycle, Direction, homing_axis_lock)
      /\ remaining' = remaining - 1
      /\ over' = IF Overruns THEN over + 1 ELSE over
      /\ UNCHANGED <<limit, homing_axis_lock, stepping, exec_state, exec_alarm,
                     machine, cycle, pass, place, tried, misled>>
  BY DEF HomingStep, execVars, passVars
<1>2. /\ carriage \in [Motors -> Int] /\ sys_position \in [Motors -> Int]
      /\ limit \in [XY -> {"works", "open", "closed"}]
      /\ homing_axis_lock \in {{}, Motors} /\ Motors \in {{}, Motors}
      /\ Motors # {} /\ remaining \in Nat /\ over \in 0 .. Lag
      /\ cycle \in XY /\ OtherAxis(cycle) \in XY
      /\ OtherAxis(cycle) # cycle /\ Direction \in {1, -1}
      /\ pass \in 0 .. 3
  BY DEF HomingTypeOK, OtherAxis, XY, Motors, Direction
<1>3. /\ carriage' \in [Motors -> Int] /\ sys_position' \in [Motors -> Int]
      /\ Twice(carriage, cycle) \in Int
      /\ Twice(carriage', cycle)
           = IF homing_axis_lock = {} THEN Twice(carriage, cycle)
             ELSE Twice(carriage, cycle) + 2 * Direction
      /\ Twice(carriage', OtherAxis(cycle)) = Twice(carriage, OtherAxis(cycle))
      /\ Twice(sys_position', OtherAxis(cycle))
           = Twice(sys_position, OtherAxis(cycle))
  <2>1. Direction \in Int
    BY <1>2
  <2> DEFINE c == Plus(carriage, cycle, Direction, homing_axis_lock)
             p == Plus(sys_position, cycle, Direction, Motors)
  <2>2. /\ c \in [Motors -> Int]
        /\ Twice(c, cycle) = IF homing_axis_lock = {} THEN Twice(carriage, cycle)
                             ELSE Twice(carriage, cycle) + 2 * Direction
        /\ Twice(c, OtherAxis(cycle)) = Twice(carriage, OtherAxis(cycle))
    <3>1. CASE homing_axis_lock = {}
      <4>1. c = carriage
        BY <1>2, <3>1, LockedMotorsRest
      <4> QED BY <1>2, <3>1, <4>1
    <3>2. CASE homing_axis_lock = Motors
      <4>1. /\ c \in [Motors -> Int]
            /\ Twice(c, cycle) = Twice(carriage, cycle) + 2 * Direction
            /\ Twice(c, OtherAxis(cycle)) = Twice(carriage, OtherAxis(cycle))
        BY <1>2, <2>1, <3>2, AxisMoves
      <4> QED BY <1>2, <3>2, <4>1
    <3> QED BY <1>2, <3>1, <3>2
  <2>3. /\ p \in [Motors -> Int]
        /\ Twice(p, OtherAxis(cycle)) = Twice(sys_position, OtherAxis(cycle))
    BY <1>2, <2>1, AxisMoves
  <2>4. carriage' = c /\ sys_position' = p
    BY <1>1
  <2> HIDE DEF c, p
  <2> QED BY <1>2, <2>2, <2>3, <2>4, TwiceInt
<1>4. /\ Beyond(cycle) \in Int
      /\ Beyond(cycle)' = IF homing_axis_lock = {} THEN Beyond(cycle)
                          ELSE IF Approach THEN Beyond(cycle) + 2
                          ELSE Beyond(cycle) - 2
  <2> DEFINE x == Twice(carriage, cycle)
             y == Twice(carriage', cycle)
  <2>1. /\ Beyond(cycle) = IF cycle \in Inverted THEN -x ELSE x - 2 * Travel
        /\ Beyond(cycle)' = IF cycle \in Inverted THEN -y ELSE y - 2 * Travel
    BY <1>1 DEF Beyond, Twice
  <2>2. Direction = IF cycle \in Inverted THEN IF Approach THEN -1 ELSE 1
                    ELSE IF Approach THEN 1 ELSE -1
    <3>1. (cycle \in Inverted) \in BOOLEAN /\ Approach \in BOOLEAN
      BY DEF Approach
    <3>2. ((cycle \in Inverted) = Approach) <=> ((cycle \in Inverted) <=> Approach)
      BY <3>1, Zenon
    <3> QED BY <3>2, Zenon DEF Direction
  <2>3. x \in Int /\ y = IF homing_axis_lock = {} THEN x ELSE x + 2 * Direction
    BY <1>3
  <2>4. Travel \in Int
    BY HomingConstants
  <2> HIDE DEF x, y
  <2> QED BY <2>1, <2>2, <2>3, <2>4
<1>5. /\ Closed(cycle) <=> \/ limit[cycle] = "closed"
                           \/ limit[cycle] = "works" /\ Beyond(cycle) >= 0
      /\ Closed(cycle)' <=> \/ limit[cycle] = "closed"
                            \/ limit[cycle] = "works" /\ Beyond(cycle)' >= 0
      /\ Overruns <=> Approach /\ Closed(cycle)
  <2> DEFINE y == Twice(carriage', cycle)
  <2>1. /\ Beyond(cycle)' = IF cycle \in Inverted THEN -y ELSE y - 2 * Travel
        /\ Closed(cycle)' <=>
             \/ limit[cycle] = "closed"
             \/ /\ limit[cycle] = "works"
                /\ IF cycle \in Inverted THEN y <= 0 ELSE y >= 2 * Travel
    BY <1>1 DEF Beyond, Closed, Twice
  <2>2. y \in Int /\ Travel \in Int
    BY <1>3, TwiceInt, HomingConstants
  <2>3. Closed(cycle)' <=> \/ limit[cycle] = "closed"
                           \/ limit[cycle] = "works" /\ Beyond(cycle)' >= 0
    <3> HIDE DEF y
    <3> QED BY <2>1, <2>2
  <2> QED BY <1>2, <2>3, ClosedBeyond DEF Overruns
<1>6. Settled(OtherAxis(cycle))' <=> Settled(OtherAxis(cycle))
  BY <1>1, <1>3 DEF Settled, Pulled, Beyond, Twice, OtherAxis
<1>7. /\ (Approach' <=> Approach) /\ (Approach <=> pass \in {0, 2})
      /\ (Passing' <=> Passing) /\ (Ended' <=> Ended)
      /\ ~Ended /\ place \notin {"main", "start", "set"}
      /\ (place = "boot" => machine = "ALARM")
  BY <1>1 DEF StandsStill, Approach, Passing, Ended
<1>8. HomingTypeOK'
  <2>1. over' \in 0 .. Lag /\ remaining' \in Nat
    BY <1>1, <1>2, HomingConstants
  <2> QED BY <1>1, <1>3, <2>1 DEF HomingTypeOK
<1>9. StandsStill' /\ FailureIsAlarm'
  BY <1>1, <1>7 DEF StandsStill, FailureIsAlarm
<1>10. LocksFit'
  BY <1>1, <1>4, <1>5, <1>7 DEF LocksFit
<1>11. ASSUME ~misled PROVE AxesFit'
  <2> USE DEF AxesFit
  <2>0. Passing /\ ~Approach => homing_axis_lock # {}
    BY <1>2, <1>7 DEF LocksFit, Passing
  <2>1. PulledOff1'
    <3> SUFFICES ASSUME pass = 1, Passing PROVE PulledOff1'
      BY <1>1, <1>7 DEF PulledOff1, Passing
    <3>1. Beyond(cycle)' = Beyond(cycle) - 2
      BY <1>4, <1>7, <2>0
    <3>2. /\ remaining <= Pulloff
          /\ limit[cycle] = "works" =>
               Beyond(cycle) >= 2 * remaining - 2 * Pulloff
          /\ place = "stop" => ~Closed(cycle)
      BY <1>11 DEF PulledOff1
    <3>3. /\ remaining' <= Pulloff
          /\ limit[cycle] = "works" =>
               Beyond(cycle)' >= 2 * remaining' - 2 * Pulloff
          /\ place = "stop" => ~Closed(cycle)'
      BY <1>1, <1>2, <1>4, <1>5, <3>1, <3>2, HomingConstants
    <3> QED BY <1>1, <1>7, <3>3 DEF PulledOff1
  <2>2. Located'
    <3> SUFFICES ASSUME pass = 2, Passing, limit[cycle] = "works"
                 PROVE  /\ Beyond(cycle)' <= 2 * over' + 1
                        /\ Beyond(cycle)' < 0 => over' = 0
                        /\ remaining' + over' >= 4 * Pulloff
                        /\ homing_axis_lock = Motors =>
                             Beyond(cycle)' + 2 * remaining' >= 8 * Pulloff
      BY <1>1, <1>7, <1>11 DEF Located
    <3>1. /\ Beyond(cycle) <= 2 * over + 1
          /\ Beyond(cycle) < 0 => over = 0
          /\ remaining + over >= 4 * Pulloff
          /\ homing_axis_lock = Motors =>
               Beyond(cycle) + 2 * remaining >= 8 * Pulloff
      BY <1>11 DEF Located
    <3>2. Approach /\ (Overruns <=> Beyond(cycle) >= 0)
      BY <1>5, <1>7
    <3>3. homing_axis_lock = {} => Overruns
      BY <1>2, <1>11, <3>2, <1>5, <1>7 DEF LocksFit, Passing
    <3>4. CASE homing_axis_lock = {}
      BY <1>1, <1>2, <1>4, <3>1, <3>2, <3>3, <3>4, HomingConstants
    <3>5. CASE homing_axis_lock = Motors
      BY <1>1, <1>2, <1>4, <3>1, <3>2, <3>5, HomingConstants
    <3> QED BY <1>2, <3>4, <3>5
  <2>3. PulledOff3'
    <3> SUFFICES ASSUME pass = 3, Passing PROVE PulledOff3'
      BY <1>1, <1>7 DEF PulledOff3, Passing
    <3>1. Beyond(cycle)' = Beyond(cycle) - 2
      BY <1>4, <1>7, <2>0
    <3>2. /\ limit[cycle] = "works" /\ remaining <= Pulloff
          /\ Beyond(cycle) + 2 * (Pulloff - remaining) \in 0 .. 2 * Lag + 1
          /\ "CYCLE_STOP" \notin exec_state /\ place # "stop"
      BY <1>1, <1>2, <1>11 DEF PulledOff3
    <3>3. /\ limit[cycle] = "works" /\ remaining' <= Pulloff
          /\ Beyond(cycle)' + 2 * (Pulloff - remaining') \in 0 .. 2 * Lag + 1
      BY <1>1, <1>2, <1>4, <3>1, <3>2, HomingConstants
    <3> QED BY <1>1, <1>7, <3>2, <3>3 DEF PulledOff3
  <2>4. AxesSettled'
    BY <1>1, <1>6, <1>7, <1>11 DEF AxesSettled, OtherAxis
  <2> QED BY <2>1, <2>2, <2>3, <2>4
<1> QED BY <1>1, <1>8, <1>9, <1>10, <1>11

-----------------------------------------------------------------------------
(* The cycle itself. *)

(* What a step of the program does: it leaves the carriage alone. *)
LEMMA CarriageRests ==
  ASSUME UNCHANGED carriageVars
  PROVE  \A axis : /\ Beyond(axis)' = Beyond(axis)
                   /\ (Closed(axis)' <=> Closed(axis))
                   /\ (Pulled(axis)' <=> Pulled(axis))
BY DEF carriageVars, Beyond, Closed, Pulled, Twice

LEMMA HomeCommandKeeps == HomingIInv /\ HomeCommand => HomingIInv'
<1> SUFFICES ASSUME HomingIInv, HomeCommand PROVE HomingIInv'
  OBVIOUS
<1> USE DEF HomingIInv, HomeCommand, carriageVars, stepperVars
<1>1. HomingTypeOK'
  BY DEF HomingTypeOK, HomingPlaces, XY
<1>2. StandsStill' /\ LocksFit' /\ FailureIsAlarm'
  BY DEF StandsStill, LocksFit, FailureIsAlarm
<1>3. AxesFit'
  BY DEF AxesFit, PulledOff1, Located, PulledOff3, AxesSettled, Ended
<1> QED BY <1>1, <1>2, <1>3

LEMMA StartPassKeeps == HomingIInv /\ StartPass => HomingIInv'
<1> SUFFICES ASSUME HomingIInv, StartPass PROVE HomingIInv'
  OBVIOUS
<1> USE DEF HomingIInv
<1>1. /\ place = "start" /\ place' = "poll"
      /\ sys_position' = Zeroed(cycle) /\ homing_axis_lock' = Motors
      /\ remaining' = PassDistance(pass) /\ stepping' = TRUE /\ over' = 0
      /\ UNCHANGED <<carriage, limit, exec_state, exec_alarm, machine, cycle,
                     pass, tried, misled>>
      /\ UNCHANGED carriageVars
  BY DEF StartPass, carriageVars, execVars
<1>2. /\ cycle \in XY /\ OtherAxis(cycle) \in XY /\ pass \in 0 .. 3
      /\ carriage \in [Motors -> Int] /\ sys_position \in [Motors -> Int]
      /\ limit[cycle] \in {"works", "open", "closed"}
  BY DEF HomingTypeOK, OtherAxis, XY
<1>3. /\ sys_position' \in [Motors -> Int]
      /\ Twice(sys_position', OtherAxis(cycle))
           = 2 * ToAxis(sys_position, OtherAxis(cycle))
  <2>1. ToAxis(sys_position, OtherAxis(cycle)) \in Int
    BY <1>2, TwiceInt, HalfOfTwice DEF ToAxis
  <2> DEFINE k == ToAxis(sys_position, OtherAxis(cycle))
             q == Plus([m \in Motors |-> 0], OtherAxis(cycle), k, Motors)
  <2>2. q \in [Motors -> Int] /\ Twice(q, OtherAxis(cycle)) = 2 * k
    BY <1>2, <2>1, SetAxes
  <2> QED BY <1>1, <2>2 DEF Zeroed
<1>4. HomingTypeOK'
  <2>1. remaining' \in Nat /\ over' \in 0 .. Lag
    BY <1>1, <1>2, HomingConstants
  <2> QED BY <1>1, <1>3, <2>1 DEF HomingTypeOK, HomingPlaces
<1>5. StandsStill' /\ LocksFit' /\ FailureIsAlarm'
  BY <1>1 DEF StandsStill, LocksFit, FailureIsAlarm, Ended
<1>6. ASSUME ~misled PROVE AxesFit'
  <2>1. /\ Beyond(cycle)' = Beyond(cycle) /\ Beyond(cycle) \in Int
        /\ (Closed(cycle)' <=> Closed(cycle))
        /\ Closed(cycle) <=> \/ limit[cycle] = "closed"
                             \/ limit[cycle] = "works" /\ Beyond(cycle) >= 0
    <3>1. /\ Beyond(cycle) \in Int
          /\ Closed(cycle) <=> \/ limit[cycle] = "closed"
                               \/ limit[cycle] = "works" /\ Beyond(cycle) >= 0
      BY <1>2, ClosedBeyond
    <3>2. Beyond(cycle)' = Beyond(cycle) /\ (Closed(cycle)' <=> Closed(cycle))
      BY <1>1 DEF Beyond, Closed, Twice
    <3> QED BY <3>1, <3>2
  <2>2. PulledOff1 /\ Located /\ PulledOff3 /\ AxesSettled
    BY <1>6 DEF AxesFit
  <2>4. PulledOff1'
    <3> SUFFICES ASSUME pass = 1 PROVE PulledOff1'
      BY <1>1 DEF PulledOff1
    <3>1. remaining' = Pulloff
      BY <1>1 DEF PassDistance
    <3>2. limit[cycle] = "works" => Beyond(cycle)' >= 2 * remaining' - 2 * Pulloff
      BY <1>1, <2>1, <2>2, <3>1, HomingConstants DEF PulledOff1
    <3> QED BY <1>1, <3>1, <3>2, HomingConstants DEF PulledOff1
  <2>5. Located'
    <3> SUFFICES ASSUME pass = 2 PROVE Located'
      BY <1>1 DEF Located
    <3>1. remaining' = 5 * Pulloff
      BY <1>1 DEF PassDistance
    <3>2. /\ limit[cycle] # "closed"
          /\ limit[cycle] = "works" =>
               Beyond(cycle) < 0 /\ Beyond(cycle) >= -(2 * Pulloff)
      BY <1>1, <2>1, <2>2 DEF Located
    <3>3. limit[cycle] = "works" =>
            /\ Beyond(cycle)' <= 2 * over' + 1
            /\ Beyond(cycle)' < 0 => over' = 0
            /\ remaining' + over' >= 4 * Pulloff
            /\ Beyond(cycle)' + 2 * remaining' >= 8 * Pulloff
      BY <1>1, <2>1, <3>1, <3>2, HomingConstants
    <3> QED BY <1>1, <3>2, <3>3 DEF Located
  <2>6. PulledOff3'
    <3> SUFFICES ASSUME pass = 3 PROVE PulledOff3'
      BY <1>1 DEF PulledOff3
    <3>1. remaining' = Pulloff
      BY <1>1 DEF PassDistance
    <3>2. /\ limit[cycle] = "works" /\ Beyond(cycle) \in 0 .. 2 * Lag + 1
          /\ "CYCLE_STOP" \notin exec_state
      BY <1>1, <2>2 DEF PulledOff3
    <3>3. Beyond(cycle)' + 2 * (Pulloff - remaining') \in 0 .. 2 * Lag + 1
      BY <2>1, <3>1, <3>2, HomingConstants
    <3> QED BY <1>1, <3>1, <3>2, <3>3, HomingConstants DEF PulledOff3
  <2>7. AxesSettled'
    <3> SUFFICES ASSUME cycle = "Y" PROVE Settled("X")'
      BY <1>1 DEF AxesSettled, Ended
    <3>1. Settled("X") /\ OtherAxis(cycle) = "X" /\ "X" \in XY
      BY <1>1, <2>2 DEF AxesSettled, OtherAxis, XY
    <3>2. Twice(sys_position', "X") = 2 * HomePosition("X")
      BY <1>3, <3>1, HalfOfTwice, HomingConstants DEF Settled, ToAxis
    <3>3. Pulled("X")'
      BY <1>1, <3>1, CarriageRests DEF Settled
    <3>4. HomePosition("X")' = HomePosition("X")
      BY DEF HomePosition
    <3> QED BY <3>2, <3>3, <3>4 DEF Settled, Twice
  <2> QED BY <2>4, <2>5, <2>6, <2>7 DEF AxesFit
<1> QED BY <1>1, <1>4, <1>5, <1>6

LEMMA PollKeeps == HomingIInv /\ Poll => HomingIInv'
<1> SUFFICES ASSUME HomingIInv, Poll PROVE HomingIInv'
  OBVIOUS
<1> USE DEF HomingIInv
<1>1. /\ place = "poll" /\ place' = "check"
      /\ \/ /\ Approach /\ homing_axis_lock' = {}
            /\ misled' = (misled \/ ~Closed(cycle))
         \/ UNCHANGED <<homing_axis_lock, misled>>
      /\ UNCHANGED <<carriage, limit, sys_position, remaining, stepping,
                     exec_state, exec_alarm, machine, cycle, pass, over, tried>>
      /\ UNCHANGED carriageVars
  BY DEF Poll, carriageVars, execVars
<1>2. (Approach' <=> Approach) /\ Passing /\ Passing' /\ ~Ended'
  BY <1>1 DEF Approach, Passing, Ended
<1>3. \A axis : /\ Beyond(axis)' = Beyond(axis)
                /\ (Closed(axis)' <=> Closed(axis))
                /\ (Settled(axis)' <=> Settled(axis))
  BY <1>1, CarriageRests DEF Settled, Twice
<1>4. Motors # {} /\ homing_axis_lock = Motors
  BY <1>1 DEF Motors, LocksFit
<1>5. HomingTypeOK'
  BY <1>1 DEF HomingTypeOK, HomingPlaces
<1>6. StandsStill' /\ FailureIsAlarm'
  BY <1>1, <1>2 DEF StandsStill, FailureIsAlarm
<1>7. LocksFit'
  BY <1>1, <1>2, <1>3, <1>4 DEF LocksFit, HomingTypeOK
<1>8. ASSUME ~misled' PROVE AxesFit'
  <2>1. AxesFit
    BY <1>1, <1>8 DEF HomingTypeOK
  <2>2. PulledOff1' /\ PulledOff3'
    BY <1>1, <1>2, <1>3, <2>1 DEF AxesFit, PulledOff1, PulledOff3
  <2>3. Located'
    BY <1>1, <1>2, <1>3, <1>4, <2>1 DEF AxesFit, Located
  <2>4. AxesSettled'
    BY <1>1, <1>2, <1>3, <2>1 DEF AxesFit, AxesSettled
  <2> QED BY <2>2, <2>3, <2>4 DEF AxesFit
<1> QED BY <1>5, <1>6, <1>7, <1>8

LEMMA CheckKeeps == HomingIInv /\ Check => HomingIInv'
<1> SUFFICES ASSUME HomingIInv, Check PROVE HomingIInv'
  OBVIOUS
<1> USE DEF HomingIInv
<1>1. /\ place = "check"
      /\ \/ /\ homing_axis_lock # {} /\ place' = "poll"
            /\ exec_state' = exec_state /\ exec_alarm' = exec_alarm
         \/ /\ homing_axis_lock = {} /\ place' = "stop"
            /\ "CYCLE_STOP" \notin exec_state
            /\ exec_state' = exec_state /\ exec_alarm' = exec_alarm
         \/ /\ place' = "failed"
            /\ exec_state' = exec_state \cup {"RESET"} /\ exec_alarm' = TRUE
         \/ /\ ~Approach /\ ~Closed(cycle) /\ place' = "stop"
            /\ "CYCLE_STOP" \in exec_state
            /\ exec_state' = exec_state \ {"CYCLE_STOP"}
            /\ exec_alarm' = exec_alarm
      /\ stepping' \in BOOLEAN
      /\ UNCHANGED <<carriage, limit, sys_position, homing_axis_lock, remaining,
                     machine, cycle, pass, over, tried, misled>>
      /\ UNCHANGED carriageVars
  BY DEF Check, Fails, Happened, NotFound, StillClosed, HomingTypeOK,
         carriageVars, homingHistory
<1>2. (Approach' <=> Approach) /\ (Approach <=> pass \in {0, 2}) /\ Passing /\ ~Ended'
  BY <1>1 DEF Approach, Passing, Ended
<1>3. \A axis : /\ Beyond(axis)' = Beyond(axis)
                /\ (Closed(axis)' <=> Closed(axis))
                /\ (Settled(axis)' <=> Settled(axis))
  BY <1>1, CarriageRests DEF Settled, Twice
<1>4. Motors # {} /\ (~Approach => homing_axis_lock = Motors)
  BY <1>1 DEF Motors, LocksFit
<1>5. HomingTypeOK'
  BY <1>1 DEF HomingTypeOK, HomingPlaces
<1>6. StandsStill' /\ FailureIsAlarm'
  BY <1>1, <1>2 DEF StandsStill, FailureIsAlarm
<1>7. LocksFit'
  BY <1>1, <1>2, <1>3, <1>4 DEF LocksFit, HomingTypeOK
<1>8. ASSUME ~misled PROVE AxesFit'
  <2>1. PulledOff1 /\ Located /\ PulledOff3 /\ AxesSettled
    BY <1>8 DEF AxesFit
  <2>2. PulledOff1'
    BY <1>1, <1>2, <1>3, <1>4, <2>1 DEF PulledOff1
  <2>3. Located'
    BY <1>1, <1>2, <1>3, <2>1 DEF Located
  <2>4. PulledOff3'
    BY <1>1, <1>2, <1>3, <1>4, <2>1 DEF PulledOff3
  <2>5. AxesSettled'
    BY <1>1, <1>2, <1>3, <2>1 DEF AxesSettled
  <2> QED BY <2>2, <2>3, <2>4, <2>5 DEF AxesFit
<1> QED BY <1>1, <1>5, <1>6, <1>7, <1>8

LEMMA StopPassKeeps == HomingIInv /\ StopPass => HomingIInv'
<1> SUFFICES ASSUME HomingIInv, StopPass PROVE HomingIInv'
  OBVIOUS
<1> USE DEF HomingIInv
<1>1. /\ place = "stop" /\ stepping' = FALSE /\ remaining' = 0
      /\ \/ pass = 3 /\ pass' = 3 /\ place' = "set"
         \/ pass # 3 /\ pass' = pass + 1 /\ place' = "start"
      /\ UNCHANGED <<carriage, limit, sys_position, homing_axis_lock,
                     exec_state, exec_alarm, machine, cycle, over, tried,
                     misled>>
      /\ UNCHANGED carriageVars
  BY DEF StopPass, carriageVars, execVars, homingHistory
<1>2. /\ pass \in 0 .. 3 /\ cycle \in XY /\ over \in 0 .. Lag
      /\ carriage \in [Motors -> Int] /\ remaining \in Nat
      /\ limit[cycle] \in {"works", "open", "closed"} /\ Passing
      /\ ~Passing' /\ ~Ended'
  BY <1>1 DEF HomingTypeOK, XY, Passing, Ended
<1>3. \A axis : /\ Beyond(axis)' = Beyond(axis)
                /\ (Closed(axis)' <=> Closed(axis))
                /\ (Pulled(axis)' <=> Pulled(axis))
                /\ (Settled(axis)' <=> Settled(axis))
  BY <1>1, CarriageRests DEF Settled, Twice
<1>4. HomingTypeOK'
  <2>1. pass' \in 0 .. 3 /\ place' \in HomingPlaces /\ remaining' \in Nat
    BY <1>1, <1>2 DEF HomingPlaces
  <2> QED BY <1>1, <2>1 DEF HomingTypeOK
<1>5. StandsStill' /\ FailureIsAlarm' /\ LocksFit'
  BY <1>1 DEF StandsStill, FailureIsAlarm, LocksFit
<1>6. ASSUME ~misled PROVE AxesFit'
  <2>1. PulledOff1 /\ Located /\ PulledOff3 /\ AxesSettled
    BY <1>6 DEF AxesFit
  <2>2. /\ Beyond(cycle) \in Int
        /\ Closed(cycle) <=> \/ limit[cycle] = "closed"
                             \/ limit[cycle] = "works" /\ Beyond(cycle) >= 0
    BY <1>2, ClosedBeyond
  <2>3. PulledOff1'
    <3> SUFFICES ASSUME pass' = 1 PROVE Closed(cycle)
      BY <1>1, <1>2, <1>3 DEF PulledOff1
    <3>1. pass = 0
      BY <1>1, <1>2
    <3> QED BY <1>1, <1>6, <3>1 DEF LocksFit, Approach
  <2>4. Located'
    <3> SUFFICES ASSUME pass' = 2 PROVE Located'
      BY DEF Located
    <3>1. pass = 1
      BY <1>1, <1>2
    <3>2. /\ ~Closed(cycle)
          /\ limit[cycle] = "works" => Beyond(cycle) >= 2 * remaining - 2 * Pulloff
      BY <1>1, <1>2, <2>1, <3>1 DEF PulledOff1
    <3>3. limit[cycle] = "works" => Beyond(cycle) >= -(2 * Pulloff)
      BY <1>2, <2>2, <3>2, HomingConstants
    <3> QED BY <1>1, <1>2, <1>3, <3>1, <3>2, <3>3 DEF Located
  <2>5. PulledOff3'
    <3>1. CASE pass = 2
      <4>1. /\ Closed(cycle) /\ limit[cycle] # "closed"
            /\ "CYCLE_STOP" \notin exec_state
            /\ limit[cycle] = "works" => Beyond(cycle) <= 2 * over + 1
        BY <1>1, <1>2, <1>6, <2>1, <3>1 DEF LocksFit, Approach, Located
      <4>2. limit[cycle] = "works" /\ Beyond(cycle) \in 0 .. 2 * Lag + 1
        BY <1>2, <2>2, <4>1, HomingConstants
      <4> QED BY <1>1, <1>2, <1>3, <3>1, <4>1, <4>2 DEF PulledOff3
    <3>2. CASE pass # 2
      BY <1>1, <1>2, <3>2 DEF PulledOff3
    <3> QED BY <3>1, <3>2
  <2>6. AxesSettled'
    <3>1. pass = 3 => Pulled(cycle)
      <4> SUFFICES ASSUME pass = 3 PROVE Pulled(cycle)
        OBVIOUS
      <4>1. /\ remaining = 0
            /\ Beyond(cycle) + 2 * (Pulloff - remaining) \in 0 .. 2 * Lag + 1
        BY <1>1, <1>2, <2>1 DEF PulledOff3
      <4>2. Beyond(cycle) + 2 * Pulloff = Beyond(cycle) + 2 * (Pulloff - remaining)
        BY <2>2, <4>1, HomingConstants
      <4> QED BY <4>1, <4>2 DEF Pulled
    <3> QED BY <1>1, <1>2, <1>3, <2>1, <3>1 DEF AxesSettled
  <2> QED BY <2>3, <2>4, <2>5, <2>6 DEF AxesFit
<1> QED BY <1>1, <1>4, <1>5, <1>6

LEMMA SetPositionKeeps == HomingIInv /\ SetPosition => HomingIInv'
<1> SUFFICES ASSUME HomingIInv, SetPosition PROVE HomingIInv'
  OBVIOUS
<1> USE DEF HomingIInv
<1> DEFINE p == Plus(Plus([m \in Motors |-> 0], cycle, HomePosition(cycle), Motors),
                     OtherAxis(cycle), Kept(cycle), Motors)
<1>1. /\ place = "set" /\ sys_position' = p
      /\ \/ cycle = "X" /\ cycle' = "Y" /\ pass' = 0 /\ place' = "start"
         \/ cycle # "X" /\ cycle' = cycle /\ pass' = pass /\ place' = "realtime"
      /\ UNCHANGED <<carriage, limit, homing_axis_lock, remaining, stepping,
                     exec_state, exec_alarm, machine, over, tried, misled>>
      /\ UNCHANGED carriageVars
  BY DEF SetPosition, carriageVars, execVars, homingHistory
<1>2. /\ pass \in 0 .. 3 /\ cycle \in XY /\ OtherAxis(cycle) \in XY
      /\ sys_position \in [Motors -> Int]
  BY DEF HomingTypeOK, OtherAxis, XY
<1>3. /\ sys_position' \in [Motors -> Int]
      /\ Twice(sys_position', cycle) = 2 * HomePosition(cycle)
      /\ Twice(sys_position', OtherAxis(cycle)) = 2 * Kept(cycle)
  <2>1. Kept(cycle) \in Int /\ HomePosition(cycle) \in Int
    BY <1>2, TwiceInt, HalfOfTwice, HomingConstants DEF Kept, ToAxis
  <2>2. /\ p \in [Motors -> Int] /\ Twice(p, cycle) = 2 * HomePosition(cycle)
        /\ Twice(p, OtherAxis(cycle)) = 2 * Kept(cycle)
    BY <1>2, <2>1, SetAxes
  <2> QED BY <1>1, <2>2
<1> HIDE DEF p
<1>4. HomingTypeOK'
  <2>1. cycle' \in XY /\ pass' \in 0 .. 3 /\ place' \in HomingPlaces
    BY <1>1, <1>2 DEF XY, HomingPlaces
  <2> QED BY <1>1, <1>3, <2>1 DEF HomingTypeOK
<1>5. StandsStill' /\ FailureIsAlarm' /\ LocksFit'
  BY <1>1 DEF StandsStill, FailureIsAlarm, LocksFit
<1>6. ASSUME ~misled PROVE AxesFit'
  <2>1. AxesSettled
    BY <1>6 DEF AxesFit
  <2>2. PulledOff1' /\ Located' /\ PulledOff3'
    BY <1>1, <1>6, <2>1 DEF PulledOff1, Located, PulledOff3, AxesSettled, Passing
  <2>3. /\ \A axis : (Pulled(axis)' <=> Pulled(axis))
        /\ \A axis : HomePosition(axis)' = HomePosition(axis)
    BY <1>1, CarriageRests DEF HomePosition
  <2>4. CASE cycle = "X"
    <3>1. Settled("X")'
      BY <1>1, <1>3, <2>1, <2>3, <2>4 DEF AxesSettled, Settled, Twice
    <3> QED BY <1>1, <2>2, <2>4, <3>1 DEF AxesFit, AxesSettled, Ended
  <2>5. CASE cycle # "X"
    <3>1. cycle = "Y" /\ OtherAxis(cycle) = "X" /\ "X" \in XY
      BY <1>2, <2>5 DEF XY, OtherAxis
    <3>2. Pulled("Y") /\ Settled("X")
      BY <1>1, <2>1, <3>1 DEF AxesSettled
    <3>3. Kept(cycle) = HomePosition("X")
      BY <3>1, <3>2, HalfOfTwice, HomingConstants DEF Kept, ToAxis, Settled
    <3>4. Settled("X")'
      BY <1>3, <2>3, <3>1, <3>2, <3>3 DEF Settled, Twice
    <3>5. Settled("Y")'
      BY <1>3, <2>3, <3>1, <3>2 DEF Settled, Twice
    <3> QED BY <1>1, <2>2, <2>5, <3>1, <3>4, <3>5
            DEF AxesFit, AxesSettled, Passing
  <2> QED BY <2>4, <2>5
<1> QED BY <1>1, <1>4, <1>5, <1>6

-----------------------------------------------------------------------------
(* What follows the cycle, and a reset: nothing moves any more. *)

LEMMA AfterwardsKeep ==
  HomingIInv /\ (RealtimeAlarm \/ RealtimeFlags \/ Finish \/ HomingBoot)
    => HomingIInv'
<1> SUFFICES ASSUME HomingIInv,
                    RealtimeAlarm \/ RealtimeFlags \/ Finish \/ HomingBoot
             PROVE  HomingIInv'
  OBVIOUS
<1> USE DEF HomingIInv, carriageVars, stepperVars, homingHistory
<1>1. /\ UNCHANGED carriageVars
      /\ UNCHANGED <<limit, sys_position, homing_axis_lock, cycle, pass, over,
                     tried, misled>>
  BY DEF RealtimeAlarm, RealtimeFlags, Finish, HomingBoot
<1>2. \A axis : (Settled(axis)' <=> Settled(axis))
  BY <1>1, CarriageRests DEF Settled, Twice, HomePosition
<1>3. place' \notin {"start", "poll", "check", "stop", "set", "failed"}
  BY DEF RealtimeAlarm, RealtimeFlags, Finish, HomingBoot
<1>4. LocksFit' /\ PulledOff1' /\ Located' /\ PulledOff3'
  BY <1>3 DEF LocksFit, PulledOff1, Located, PulledOff3, Passing
<1>5. HomingTypeOK' /\ StandsStill' /\ FailureIsAlarm'
      /\ (~misled => AxesSettled')
  <2> USE DEF AxesFit
  <2>1. CASE RealtimeAlarm
    <3>1. HomingTypeOK' /\ StandsStill' /\ FailureIsAlarm'
      BY <2>1 DEF RealtimeAlarm, HomingTypeOK, HomingPlaces, StandsStill,
                  FailureIsAlarm, Ended
    <3> QED BY <1>1, <1>2, <1>3, <2>1, <3>1
            DEF RealtimeAlarm, AxesSettled, Ended, Passing
  <2>2. CASE RealtimeFlags
    <3>1. HomingTypeOK' /\ StandsStill' /\ FailureIsAlarm'
      BY <2>2 DEF RealtimeFlags, HomingTypeOK, HomingPlaces, StandsStill,
                  FailureIsAlarm, Ended
    <3> QED BY <1>1, <1>2, <1>3, <2>2, <3>1
            DEF RealtimeFlags, AxesSettled, Ended, Passing, FailureIsAlarm
  <2>3. CASE Finish
    <3>1. HomingTypeOK' /\ StandsStill' /\ FailureIsAlarm'
      BY <2>3 DEF Finish, HomingTypeOK, HomingPlaces, StandsStill,
                  FailureIsAlarm, Ended
    <3> QED BY <1>1, <1>2, <1>3, <2>3, <3>1
            DEF Finish, AxesSettled, Ended, Passing
  <2>4. CASE HomingBoot
    <3>1. HomingTypeOK' /\ StandsStill' /\ FailureIsAlarm'
      BY <2>4 DEF HomingBoot, HomingTypeOK, HomingPlaces, StandsStill,
                  FailureIsAlarm, Ended
    <3> QED BY <1>1, <1>2, <1>3, <2>4, <3>1
            DEF HomingBoot, AxesSettled, Ended, Passing
  <2> QED BY <2>1, <2>2, <2>3, <2>4
<1> QED BY <1>1, <1>4, <1>5 DEF AxesFit

-----------------------------------------------------------------------------
(* Each step of the cycle keeps the invariant, by the lemma of its action, so
   that it holds in every state: while the passes of an axis go on, the carriage
   is where the steps left over put it, and a finished axis stands within the
   lag of a pull-off from its switch, with its position set. *)
THEOREM HomingInductiveInvariant == HomingSpec => []HomingIInv
<1>1. HomingIInv /\ [HomingNext]_homingVars => HomingIInv'
  <2> SUFFICES ASSUME HomingIInv, [HomingNext]_homingVars PROVE HomingIInv'
    OBVIOUS
  <2>1. CASE HomingInterrupt
    BY <2>1, InterruptsKeep, HomingStepKeeps DEF HomingInterrupt
  <2>2. CASE HomeCommand
    BY <2>2, HomeCommandKeeps
  <2>3. CASE limits_go_home
    BY <2>3, StartPassKeeps, PollKeeps, CheckKeeps, StopPassKeeps,
       SetPositionKeeps DEF limits_go_home
  <2>4. CASE RealtimeAlarm \/ RealtimeFlags \/ Finish \/ HomingBoot
    BY <2>4, AfterwardsKeep
  <2>5. CASE UNCHANGED homingVars
    <3>1. HomingTypeOK'
      BY <2>5 DEF HomingIInv, HomingTypeOK, homingVars, carriageVars,
                  stepperVars, execVars, passVars, homingHistory
    <3> QED BY <2>5, <3>1, QuietHoming
            DEF homingVars, carriageVars, stepperVars, execVars, passVars,
                homingHistory
  <2> QED BY <2>1, <2>2, <2>3, <2>4, <2>5 DEF HomingNext, HomingMain
<1> QED BY <1>1, HomingInitHolds, PTL DEF HomingSpec

(* A machine that is ready after $H, with no axis stopped by the switch of the
   other one, knows where it is to within the lag: limits_go_home leaves no way
   round an alarm for a reset, a door, a broken or a stuck switch. *)
THEOREM HomedWithinLag == HomingSpec => []HomedUnlessMisled
<1>1. HomingIInv => HomedUnlessMisled
  <2> SUFFICES ASSUME HomingIInv, place = "main", machine = "IDLE", tried,
                      ~misled, NEW axis \in XY
               PROVE  Error(axis) \in -(2 * Lag + 1) .. 2 * Lag + 1
    BY DEF HomedUnlessMisled, HomedTruly
  <2>1. Settled(axis)
    BY DEF HomingIInv, AxesFit, AxesSettled, XY
  <2> DEFINE t == Twice(carriage, axis)
             e == Error(axis)
  <2>2. t \in Int /\ Travel \in Nat /\ Pulloff \in Nat /\ Lag \in Nat
    BY TwiceInt, HomingConstants DEF HomingIInv, HomingTypeOK
  <2>3. CASE axis \in Inverted
    <3>1. /\ -t + 2 * Pulloff \in 0 .. 2 * Lag + 1
          /\ e = 2 * (-Travel + Pulloff) - (t - 2 * Travel)
      BY <2>1, <2>3 DEF Settled, Pulled, Beyond, HomePosition, Error
    <3> HIDE DEF t, e
    <3>2. e \in -(2 * Lag + 1) .. 2 * Lag + 1
      BY <2>2, <3>1
    <3> QED BY <3>2 DEF e
  <2>4. CASE axis \notin Inverted
    <3>1. /\ t - 2 * Travel + 2 * Pulloff \in 0 .. 2 * Lag + 1
          /\ e = 2 * (-Pulloff) - (t - 2 * Travel)
      BY <2>1, <2>4 DEF Settled, Pulled, Beyond, HomePosition, Error
    <3> HIDE DEF t, e
    <3>2. e \in -(2 * Lag + 1) .. 2 * Lag + 1
      BY <2>2, <3>1
    <3> QED BY <3>2 DEF e
  <2> QED BY <2>3, <2>4
<1> QED BY <1>1, HomingInductiveInvariant, PTL
=============================================================================

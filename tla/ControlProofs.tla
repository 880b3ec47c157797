--------------------------- MODULE ControlProofs ---------------------------
(***************************************************************************)
(* Theorems about the three parts of the control that MCControl runs side  *)
(* by side.  Planner, for every size of the ring, every set of lengths and *)
(* junction speeds, and every set of overrides: its types, the place of    *)
(* block_buffer_planned, and the speeds of the junctions.  Overrides, for  *)
(* every range and step of the percentages and every interval of the       *)
(* reports: what a change of a percentage does, and what the next report   *)
(* shows of it.  Settings, for every setting, offset and line: what the    *)
(* EEPROM holds, wherever in its bytes the power goes.                     *)
(***************************************************************************)
EXTENDS Planner, Overrides, Settings, TLAPS

-----------------------------------------------------------------------------
(* The ring.                                                               *)

Ends == block_buffer_tail \in Slots /\ block_buffer_head \in Slots

(* The type invariant bounds the indices. *)
LEMMA EndsTyped == TypeOK => Ends
BY DEF TypeOK, Ends

(* The ring has at least three slots. *)
LEMMA SizeFacts == BLOCK_BUFFER_SIZE \in Int /\ BLOCK_BUFFER_SIZE >= 3
BY PlannerAssumption

(* The two index functions stay inside the ring and undo each other. *)
LEMMA IndexFacts ==
  ASSUME NEW i \in Slots
  PROVE  /\ plan_next_block_index(i) \in Slots
         /\ plan_prev_block_index(i) \in Slots
         /\ plan_prev_block_index(plan_next_block_index(i)) = i
         /\ plan_next_block_index(plan_prev_block_index(i)) = i
         /\ plan_next_block_index(i) # i
BY SizeFacts DEF Slots, plan_next_block_index, plan_prev_block_index

(* What the queue holds depends on the two ends only. *)
LEMMA QueueKept ==
  ASSUME UNCHANGED indices
  PROVE  /\ IsEmpty' <=> IsEmpty
         /\ \A i \in Slots : (Queued(i)' <=> Queued(i)) /\ Offset(i)' = Offset(i)
BY DEF indices, IsEmpty, Queued, Offset, Count

(* A new line queues the slot at the head. *)
LEMMA QueueAfterLine ==
  ASSUME Ends, next_buffer_head = plan_next_block_index(block_buffer_head),
         ~plan_check_full_buffer, block_buffer_head' = next_buffer_head,
         block_buffer_tail' = block_buffer_tail, NEW i \in Slots
  PROVE  /\ ~IsEmpty'
         /\ ~Queued(block_buffer_head)
         /\ Queued(i)' <=> (Queued(i) \/ i = block_buffer_head)
         /\ Offset(i)' = Offset(i)
         /\ Queued(i) => Offset(i) < Offset(block_buffer_head)
BY SizeFacts DEF Ends, Slots, plan_next_block_index,
   plan_check_full_buffer, IsEmpty, Queued, Offset, Count

(* A discarded block leaves the queue, and nothing else does. *)
LEMMA QueueAfterDiscard ==
  ASSUME Ends, ~IsEmpty, block_buffer_head' = block_buffer_head,
         block_buffer_tail' = plan_next_block_index(block_buffer_tail),
         NEW i \in Slots
  PROVE  /\ Queued(block_buffer_tail)
         /\ Queued(i)' <=> (Queued(i) /\ i # block_buffer_tail)
         /\ Queued(i)' => Offset(i)' = Offset(i) - 1
         /\ ~IsEmpty' => Queued(block_buffer_tail')
BY SizeFacts DEF Ends, Slots, plan_next_block_index, IsEmpty,
   Queued, Offset, Count

(* The two ends of a queue that is not empty. *)
LEMMA EndFacts ==
  ASSUME Ends, ~IsEmpty
  PROVE  /\ Queued(block_buffer_tail) /\ Offset(block_buffer_tail) = 0
         /\ Queued(plan_prev_block_index(block_buffer_head))
         /\ \A i \in Slots : Queued(i) =>
              Offset(i) <= Offset(plan_prev_block_index(block_buffer_head))
BY SizeFacts DEF Ends, Slots, plan_prev_block_index, IsEmpty, Queued, Offset,
   Count

(* The neighbours of a queued block. *)
LEMMA Neighbours ==
  ASSUME Ends, NEW i \in Slots, Queued(i)
  PROVE  /\ ~IsEmpty
         /\ plan_next_block_index(i) # block_buffer_head =>
              /\ Queued(plan_next_block_index(i))
              /\ Offset(plan_next_block_index(i)) = Offset(i) + 1
         /\ i # block_buffer_tail =>
              /\ Queued(plan_prev_block_index(i))
              /\ Offset(plan_prev_block_index(i)) = Offset(i) - 1
<1>1. ~IsEmpty
  BY SizeFacts DEF Ends, Slots, IsEmpty, Queued, Offset, Count
<1>2. plan_next_block_index(i) # block_buffer_head =>
              /\ Queued(plan_next_block_index(i))
              /\ Offset(plan_next_block_index(i)) = Offset(i) + 1
  BY SizeFacts DEF Ends, Slots, plan_next_block_index, Queued, Offset, Count
<1>3. i # block_buffer_tail =>
              /\ Queued(plan_prev_block_index(i))
              /\ Offset(plan_prev_block_index(i)) = Offset(i) - 1
  BY SizeFacts DEF Ends, Slots, plan_prev_block_index, Queued, Offset, Count
<1>. QED BY <1>1, <1>2, <1>3

(* Two slots at the same place are the same slot. *)
LEMMA OffsetInjective ==
  ASSUME Ends, NEW i \in Slots, NEW j \in Slots
  PROVE  Offset(i) \in Nat /\ (Offset(i) = Offset(j) => i = j)
BY SizeFacts DEF Ends, Slots, Offset


-----------------------------------------------------------------------------
(* Speeds and blocks.                                                      *)

(* A nominal speed is a natural number. *)
LEMMA NominalTyped ==
  ASSUME NEW b, NEW f \in FeedOverrides, NEW r \in RapidOverrides
  PROVE  NominalSpeed(b, f, r) \in Nat
<1>1. FeedRate \in Nat /\ RapidRate \in Nat /\ f \in Nat /\ r \in Nat
  BY PlannerAssumption
<1>2. FeedRate * f \in Nat /\ RapidRate * r \in Nat
  BY <1>1
<1>. QED BY <1>1, <1>2 DEF NominalSpeed, AtMost

(* The limit on an entry is the least of its three bounds. *)
LEMMA MaxEntryFacts ==
  ASSUME NEW nominal \in Nat, NEW previous \in Nat, NEW junction \in Nat
  PROVE  LET m == MaxEntrySpeed(nominal, previous, junction)
         IN /\ m \in Nat
            /\ m <= AtMost(junction, AtMost(nominal, previous))
            /\ junction = 0 => m = 0
BY DEF MaxEntrySpeed, AtMost

(* "new" differs from "old" in entry speeds only. *)
Replanned(old, new) ==
  /\ new \in [Slots -> Block]
  /\ \A i \in Slots : /\ new[i].millimeters = old[i].millimeters
                      /\ new[i].rapid = old[i].rapid
                      /\ new[i].max_junction_speed = old[i].max_junction_speed
                      /\ new[i].max_entry_speed = old[i].max_entry_speed

(* Setting the entry speed of one block is such a change. *)
LEMMA SetEntryFacts ==
  ASSUME NEW blocks \in [Slots -> Block], NEW i \in Slots, NEW v \in Nat
  PROVE  LET new == [blocks EXCEPT ![i].entry_speed = v]
         IN /\ Replanned(blocks, new)
            /\ new[i].entry_speed = v
            /\ \A j \in Slots : j # i => new[j] = blocks[j]
BY DEF Replanned, Block

(* Two such changes make one. *)
LEMMA ReplannedTwice ==
  ASSUME NEW a, NEW b, NEW c, Replanned(a, b), Replanned(b, c)
  PROVE  Replanned(a, c)
BY DEF Replanned

(* st_update_plan_block_parameters changes the entry speed of the tail. *)
LEMMA UpdateTailFacts ==
  ASSUME TypeOK, NEW blocks \in [Slots -> Block]
  PROVE  /\ Replanned(blocks, UpdateTail(blocks))
         /\ \A j \in Slots : j # block_buffer_tail => UpdateTail(blocks)[j] = blocks[j]
         /\ ~loaded => UpdateTail(blocks) = blocks
<1>1. block_buffer_tail \in Slots /\ current_speed \in Nat
  BY DEF TypeOK
<1>2. CASE loaded
  BY <1>1, <1>2, SetEntryFacts DEF UpdateTail
<1>3. CASE ~loaded
  BY <1>3 DEF UpdateTail, Replanned
<1>. QED BY <1>2, <1>3

(* One step of the reverse pass sets the entry of its block; if it reaches the
   tail, it replans that too and takes it from the stepper. *)
LEMMA ReverseStepFacts ==
  ASSUME TypeOK, NEW i \in Slots, NEW speed \in Nat, ReverseStep(i, speed)
  PROVE  /\ Replanned(block_buffer, block_buffer')
         /\ \A j \in Slots : j # i /\ j # block_buffer_tail
                                => block_buffer'[j] = block_buffer[j]
         /\ i # block_buffer_tail \/ ~loaded => block_buffer'[i].entry_speed = speed
         /\ i # block_buffer_tail /\ ~loaded
              => block_buffer'[block_buffer_tail] = block_buffer[block_buffer_tail]
         /\ loaded' \in BOOLEAN /\ recalculate' \in BOOLEAN
         /\ loaded' => loaded
         /\ current' = i
         /\ UNCHANGED <<decelOverride, current_speed, exit_speed, cycle, hold>>
<1>. DEFINE blocks == [block_buffer EXCEPT ![i].entry_speed = speed]
<1>1. /\ block_buffer \in [Slots -> Block] /\ block_buffer_tail \in Slots
      /\ loaded \in BOOLEAN /\ recalculate \in BOOLEAN
  BY DEF TypeOK
<1>2. /\ Replanned(block_buffer, blocks)
      /\ blocks[i].entry_speed = speed
      /\ \A j \in Slots : j # i => blocks[j] = block_buffer[j]
  BY <1>1, SetEntryFacts
<1>3. blocks \in [Slots -> Block]
  BY <1>2 DEF Replanned
<1>4. /\ Replanned(blocks, UpdateTail(blocks))
      /\ \A j \in Slots : j # block_buffer_tail => UpdateTail(blocks)[j] = blocks[j]
      /\ ~loaded => UpdateTail(blocks) = blocks
  BY <1>3, UpdateTailFacts
<1>5. Replanned(block_buffer, UpdateTail(blocks))
  BY <1>2, <1>4, ReplannedTwice
<1>6. block_buffer' = UpdateTail(blocks) \/ block_buffer' = blocks
  BY DEF ReverseStep
<1>7. /\ loaded' \in BOOLEAN /\ recalculate' \in BOOLEAN
      /\ loaded' => loaded
      /\ current' = i
      /\ UNCHANGED <<decelOverride, current_speed, exit_speed, cycle, hold>>
  BY <1>1 DEF ReverseStep, NotifyStepper
<1>. HIDE DEF blocks
<1>. QED BY <1>1, <1>2, <1>4, <1>5, <1>6, <1>7

-----------------------------------------------------------------------------
(* Types.                                                                  *)

(* What keeps every distance positive and every index in the ring: a queued
   block has a length, the stepper has a block loaded and the passes of
   planner_recalculate run only while the ring is not empty. *)
TInv ==
  /\ TypeOK
  /\ next_buffer_head = plan_next_block_index(block_buffer_head)
  /\ \A i \in Slots : Queued(i) => block_buffer[i].millimeters > 0
  /\ loaded => ~IsEmpty
  /\ pc \in {"reverse", "forward"} => ~IsEmpty

(* The type of everything but the ring and its ends. *)
RestTyped ==
  /\ block_buffer_planned \in Slots /\ current \in Slots
  /\ previous_nominal_speed \in Nat
  /\ pc \in {"idle", "recalculate", "reverse", "forward"}
  /\ f_override \in FeedOverrides /\ r_override \in RapidOverrides
  /\ loaded \in BOOLEAN /\ recalculate \in BOOLEAN
  /\ decelOverride \in BOOLEAN
  /\ current_speed \in Nat /\ exit_speed \in Nat
  /\ cycle \in BOOLEAN /\ hold \in BOOLEAN /\ slowed \in BOOLEAN

(* A step that moves neither end of the queue and changes no length. *)
LEMMA TInvQueueKept ==
  ASSUME TInv, UNCHANGED indices, block_buffer' \in [Slots -> Block],
         \A i \in Slots : block_buffer'[i].millimeters = block_buffer[i].millimeters,
         RestTyped', loaded' => ~IsEmpty,
         pc' \in {"reverse", "forward"} => ~IsEmpty
  PROVE  TInv'
<1>1. TypeOK'
  BY DEF TInv, TypeOK, RestTyped, indices
<1>2. next_buffer_head' = plan_next_block_index(block_buffer_head)'
  BY DEF TInv, indices, plan_next_block_index
<1>3. (\A i \in Slots : Queued(i) => block_buffer[i].millimeters > 0)'
  BY QueueKept DEF TInv
<1>4. (loaded => ~IsEmpty)' /\ (pc \in {"reverse", "forward"} => ~IsEmpty)'
  BY QueueKept
<1>. QED BY <1>1, <1>2, <1>3, <1>4 DEF TInv

(* The initial ring is empty. *)
LEMMA TInvInit == Init => TInv
<1>. SUFFICES ASSUME Init PROVE TInv
  OBVIOUS
<1>1. 0 \in Slots /\ 1 \in Slots
  BY SizeFacts DEF Slots
<1>2. NoBlock \in Block
  BY DEF NoBlock, Block
<1>3. TypeOK
  BY <1>1, <1>2, PlannerAssumption DEF Init, TypeOK
<1>4. next_buffer_head = plan_next_block_index(block_buffer_head)
  BY SizeFacts DEF Init, plan_next_block_index
<1>5. \A i \in Slots : ~Queued(i)
  BY SizeFacts DEF Init, Slots, Queued, Offset, Count
<1>. QED BY <1>3, <1>4, <1>5 DEF TInv, Init

(* One line in the ring. *)
LEMMA TInvLine ==
  ASSUME TInv, NEW mm \in Lengths, NEW rapid \in BOOLEAN,
         NEW junction \in Junctions, PlanBufferLine(mm, rapid, junction)
  PROVE  TInv'
<1>1. /\ TypeOK /\ Ends /\ block_buffer \in [Slots -> Block]
      /\ block_buffer_head \in Slots /\ next_buffer_head \in Slots
  BY EndsTyped DEF TInv, TypeOK
<1>2. mm \in Nat /\ mm > 0 /\ junction \in Nat
  BY PlannerAssumption
<1>. DEFINE b == [NoBlock EXCEPT !.millimeters = mm, !.rapid = rapid,
                   !.max_junction_speed = IF IsEmpty THEN 0 ELSE junction]
            nominal == NominalSpeed(b, f_override, r_override)
            limit == MaxEntrySpeed(nominal, previous_nominal_speed,
                                   b.max_junction_speed)
            new == [b EXCEPT !.max_entry_speed = limit]
<1>3. b \in Block /\ b.millimeters = mm
  BY <1>2 DEF NoBlock, Block
<1>4. b.max_junction_speed \in Nat
  BY <1>3 DEF Block
<1>5. nominal \in Nat
  BY NominalTyped DEF TInv, TypeOK
<1>6. limit \in Nat
  <2>1. previous_nominal_speed \in Nat
    BY DEF TInv, TypeOK
  <2>. HIDE DEF nominal, b
  <2>. QED BY <1>4, <1>5, <2>1, MaxEntryFacts
<1>7. /\ block_buffer' = [block_buffer EXCEPT ![block_buffer_head] = new]
      /\ previous_nominal_speed' = nominal
  BY DEF PlanBufferLine
<1>8. new \in Block /\ new.millimeters = mm
  <2>. HIDE DEF limit, b
  <2>. QED BY <1>3, <1>6 DEF Block
<1>. HIDE DEF new, limit, nominal, b
<1>9. /\ block_buffer' \in [Slots -> Block]
      /\ block_buffer'[block_buffer_head].millimeters > 0
      /\ \A i \in Slots : i # block_buffer_head => block_buffer'[i] = block_buffer[i]
  BY <1>1, <1>2, <1>7, <1>8
<1>10. /\ next_buffer_head' \in Slots
       /\ next_buffer_head' = plan_next_block_index(block_buffer_head')
  BY <1>1, IndexFacts DEF PlanBufferLine
<1>11. TypeOK'
  BY <1>1, <1>5, <1>7, <1>9, <1>10
     DEF TInv, TypeOK, PlanBufferLine, overrides, prep
<1>12. /\ ~IsEmpty'
       /\ \A i \in Slots : Queued(i)' => Queued(i) \/ i = block_buffer_head
  BY <1>1, QueueAfterLine DEF TInv, PlanBufferLine
<1>. QED BY <1>9, <1>10, <1>11, <1>12 DEF TInv, plan_next_block_index

(* One step of planner_recalculate. *)
LEMMA TInvRecalculate ==
  ASSUME TInv, planner_recalculate
  PROVE  TInv'
<1>1. /\ TypeOK /\ RestTyped /\ block_buffer \in [Slots -> Block]
      /\ block_buffer_head \in Slots /\ block_buffer_tail \in Slots
      /\ block_buffer_planned \in Slots /\ current \in Slots
  BY DEF TInv, TypeOK, RestTyped
<1>2. 0 \in Slots
  BY SizeFacts DEF Slots
<1>3. \A i \in Slots : /\ block_buffer[i].millimeters \in Nat
                        /\ block_buffer[i].max_entry_speed \in Nat
                        /\ block_buffer[i].entry_speed \in Nat
  BY <1>1 DEF Block
<1>4. /\ UNCHANGED <<indices, previous_nominal_speed, overrides>>
  BY DEF planner_recalculate, RecalculateEmpty, Recalculate, ReversePass,
         StartForward, ForwardPass, EndForward, RecalculateSame
<1>5. ASSUME NEW i \in Slots, NEW speed \in Nat, ReverseStep(i, speed), ~IsEmpty,
             pc' \in {"reverse", "forward"},
             UNCHANGED block_buffer_planned
      PROVE  TInv'
  <2>1. /\ Replanned(block_buffer, block_buffer')
        /\ loaded' \in BOOLEAN /\ recalculate' \in BOOLEAN
        /\ current' = i
        /\ UNCHANGED <<decelOverride, current_speed, exit_speed, cycle, hold>>
    BY <1>1, <1>5, ReverseStepFacts
  <2>2. RestTyped'
    BY <1>1, <1>4, <1>5, <2>1 DEF RestTyped, overrides
  <2>. QED BY <1>4, <1>5, <2>1, <2>2, TInvQueueKept DEF Replanned
<1>6. CASE RecalculateEmpty
  <2>1. RestTyped'
    BY <1>1, <1>4, <1>6 DEF RecalculateEmpty, RestTyped, overrides, prep
  <2>. QED BY <1>1, <1>4, <1>6, <2>1, TInvQueueKept
           DEF RecalculateEmpty, prep, TInv
<1>7. CASE Recalculate
  <2>. DEFINE last == plan_prev_block_index(block_buffer_head)
  <2>1. last \in Slots
    BY <1>1, IndexFacts
  <2>2. CASE last = block_buffer_planned
    <3>1. RestTyped'
      BY <1>1, <1>4, <1>7, <2>2 DEF Recalculate, RestTyped, overrides, prep
    <3>. QED BY <1>1, <1>4, <1>7, <2>2, <3>1, TInvQueueKept
             DEF Recalculate, prep
  <2>3. CASE last # block_buffer_planned
    <3>. DEFINE speed == AtMost(block_buffer[last].max_entry_speed,
                                block_buffer[last].millimeters)
    <3>1. speed \in Nat
      BY <1>3, <2>1 DEF AtMost
    <3>2. /\ ReverseStep(last, speed) /\ ~IsEmpty /\ pc' = "reverse"
          /\ UNCHANGED block_buffer_planned
      BY <1>7, <2>3 DEF Recalculate
    <3>. QED BY <1>5, <2>1, <3>1, <3>2
  <2>. QED BY <2>2, <2>3
<1>8. CASE ReversePass
  <2>. DEFINE i == plan_prev_block_index(current)
  <2>1. i \in Slots
    BY <1>1, IndexFacts
  <2>2. ReverseSpeed(i) \in Nat
    BY <1>1, <1>3, <2>1 DEF ReverseSpeed, AtMost
  <2>3. ReverseStep(i, ReverseSpeed(i)) /\ ~IsEmpty /\ pc' = "reverse"
        /\ UNCHANGED block_buffer_planned
    BY <1>8 DEF ReversePass, TInv
  <2>. QED BY <1>5, <2>1, <2>2, <2>3
<1>9. CASE StartForward
  <2>1. RestTyped' /\ ~IsEmpty
    BY <1>1, <1>4, <1>9 DEF StartForward, RestTyped, overrides, prep, TInv
  <2>. QED BY <1>1, <1>4, <1>9, <2>1, TInvQueueKept DEF StartForward, prep
<1>10. CASE ForwardPass
  <2>. DEFINE n == plan_next_block_index(current)
              b == block_buffer[current]
              speed == AtMost(b.entry_speed + b.millimeters,
                              block_buffer[n].entry_speed)
  <2>1. n \in Slots
    BY <1>1, IndexFacts
  <2>2. speed \in Nat
    BY <1>1, <1>3, <2>1 DEF AtMost
  <2>3. Replanned(block_buffer, block_buffer')
    <3>1. block_buffer' = [block_buffer EXCEPT ![n].entry_speed = speed]
      BY <1>10 DEF ForwardPass
    <3>. HIDE DEF n, speed
    <3>. QED BY <1>1, <2>1, <2>2, <3>1, SetEntryFacts
  <2>4. RestTyped' /\ ~IsEmpty
    BY <1>1, <1>4, <1>10, <2>1 DEF ForwardPass, RestTyped, overrides, prep, TInv
  <2>5. loaded' = loaded
    BY <1>10 DEF ForwardPass, prep
  <2>. QED BY <1>4, <2>3, <2>4, <2>5, TInvQueueKept DEF Replanned
<1>11. CASE EndForward
  <2>1. RestTyped' /\ ~IsEmpty
    BY <1>1, <1>2, <1>4, <1>11 DEF EndForward, RestTyped, overrides, prep, TInv
  <2>. QED BY <1>1, <1>4, <1>11, <2>1, TInvQueueKept DEF EndForward, prep
<1>. QED BY <1>6, <1>7, <1>8, <1>9, <1>10, <1>11 DEF planner_recalculate

(* The limits of an override are natural numbers. *)
LEMMA UpdatedProfilesFacts ==
  ASSUME TypeOK, NEW f \in FeedOverrides, NEW r \in RapidOverrides
  PROVE  LET new == UpdatedProfiles(f, r)
         IN /\ new \in [Slots -> Block]
            /\ \A i \in Slots :
                 /\ new[i].millimeters = block_buffer[i].millimeters
                 /\ new[i].rapid = block_buffer[i].rapid
                 /\ new[i].max_junction_speed = block_buffer[i].max_junction_speed
                 /\ new[i].entry_speed = block_buffer[i].entry_speed
                 /\ ~Queued(i) => new[i] = block_buffer[i]
                 /\ Queued(i) /\ i # block_buffer_tail =>
                      new[i].max_entry_speed =
                        MaxEntrySpeed(NominalSpeed(block_buffer[i], f, r),
                          NominalSpeed(block_buffer[plan_prev_block_index(i)], f, r),
                          block_buffer[i].max_junction_speed)
<1>. DEFINE new == UpdatedProfiles(f, r)
            previous(i) == IF i = block_buffer_tail THEN SOME_LARGE_VALUE
                     ELSE NominalSpeed(block_buffer[plan_prev_block_index(i)], f, r)
            limit(i) == MaxEntrySpeed(NominalSpeed(block_buffer[i], f, r), previous(i),
                                      block_buffer[i].max_junction_speed)
<1>1. block_buffer \in [Slots -> Block]
  BY DEF TypeOK
<1>2. ASSUME NEW i \in Slots PROVE limit(i) \in Nat
  <2>1. NominalSpeed(block_buffer[i], f, r) \in Nat
    BY NominalTyped
  <2>2. NominalSpeed(block_buffer[plan_prev_block_index(i)], f, r) \in Nat
    BY NominalTyped
  <2>3. previous(i) \in Nat
    BY <2>2 DEF SOME_LARGE_VALUE
  <2>4. block_buffer[i].max_junction_speed \in Nat
    BY <1>1 DEF Block
  <2>. HIDE DEF previous
  <2>. QED BY <2>1, <2>3, <2>4, MaxEntryFacts
<1>3. ASSUME NEW i \in Slots
      PROVE  new[i] = IF ~Queued(i) THEN block_buffer[i]
                      ELSE [block_buffer[i] EXCEPT !.max_entry_speed = limit(i)]
  BY DEF UpdatedProfiles
<1>4. ASSUME NEW i \in Slots
      PROVE  /\ new[i] \in Block
             /\ new[i].millimeters = block_buffer[i].millimeters
             /\ new[i].rapid = block_buffer[i].rapid
             /\ new[i].max_junction_speed = block_buffer[i].max_junction_speed
             /\ new[i].entry_speed = block_buffer[i].entry_speed
             /\ Queued(i) => new[i].max_entry_speed = limit(i)
  <2>1. block_buffer[i] \in Block
    BY <1>1
  <2>. HIDE DEF limit, new
  <2>. QED BY <1>2, <1>3, <2>1 DEF Block
<1>5. new = [i \in Slots |-> new[i]]
  BY DEF UpdatedProfiles
<1>6. new \in [Slots -> Block]
  <2>. HIDE DEF new
  <2>. QED BY <1>4, <1>5
<1>. QED BY <1>3, <1>4, <1>6

(* An override. *)
LEMMA TInvOverride ==
  ASSUME TInv, NEW f \in FeedOverrides, NEW r \in RapidOverrides, Override(f, r)
  PROVE  TInv'
<1>. DEFINE new == UpdatedProfiles(f, r)
<1>1. /\ TypeOK /\ RestTyped
  BY DEF TInv, TypeOK, RestTyped
<1>2. /\ new \in [Slots -> Block]
      /\ \A i \in Slots : new[i].millimeters = block_buffer[i].millimeters
  BY <1>1, UpdatedProfilesFacts
<1>3. Replanned(new, block_buffer')
  <2>1. block_buffer' = UpdateTail(new)
    BY DEF Override, Reinitialize
  <2>. HIDE DEF new
  <2>. QED BY <1>1, <1>2, <2>1, UpdateTailFacts
<1>4. previous_nominal_speed' \in Nat
  <2>1. NominalSpeed(block_buffer[plan_prev_block_index(block_buffer_head)], f, r) \in Nat
    BY NominalTyped
  <2>. QED BY <2>1 DEF Override, SOME_LARGE_VALUE
<1>5. RestTyped'
  BY <1>1, <1>4 DEF Override, Reinitialize, NotifyStepper, RestTyped, TypeOK
<1>6. UNCHANGED indices /\ ~loaded' /\ pc' = "recalculate"
  BY DEF Override, Reinitialize, NotifyStepper
<1>. HIDE DEF new
<1>. QED BY <1>2, <1>3, <1>5, <1>6, TInvQueueKept DEF Replanned

(* Loading the block at the tail. *)
LEMMA TInvPrepLoad ==
  ASSUME TInv, PrepLoad
  PROVE  TInv'
<1>1. /\ TypeOK /\ RestTyped /\ block_buffer \in [Slots -> Block]
      /\ block_buffer_tail \in Slots /\ block_buffer_head \in Slots
  BY DEF TInv, TypeOK, RestTyped
<1>2. \A i \in Slots : block_buffer[i].entry_speed \in Nat /\ block_buffer[i].millimeters \in Nat
  BY <1>1 DEF Block
<1>3. TailBlock.entry_speed \in Nat /\ TailBlock.millimeters \in Nat
  BY <1>1, <1>2 DEF TailBlock
<1>4. PlannedExit \in Nat
  BY <1>1, <1>2, IndexFacts DEF PlannedExit
<1>. DEFINE entry == IF ~recalculate /\ (hold \/ decelOverride)
                     THEN exit_speed ELSE TailBlock.entry_speed
<1>5. entry \in Nat
  BY <1>1, <1>3 DEF RestTyped
<1>6. DecelExit(entry) \in Nat
  BY <1>3, <1>5 DEF DecelExit, AtLeast
<1>7. block_buffer' = [block_buffer EXCEPT ![block_buffer_tail].entry_speed = entry]
  BY DEF PrepLoad
<1>8. /\ exit_speed' \in Nat /\ current_speed' \in Nat /\ decelOverride' \in BOOLEAN
  BY <1>1, <1>4, <1>5, <1>6 DEF PrepLoad, RestTyped
<1>. HIDE DEF entry
<1>9. Replanned(block_buffer, block_buffer')
  BY <1>1, <1>5, <1>7, SetEntryFacts
<1>10. RestTyped'
  BY <1>1, <1>8 DEF PrepLoad, RestTyped, overrides
<1>11. UNCHANGED indices /\ ~IsEmpty /\ pc' = "idle"
  BY DEF PrepLoad
<1>. QED BY <1>9, <1>10, <1>11, TInvQueueKept DEF Replanned

(* One segment further along the block at the tail. *)
LEMMA TInvPrepSegment ==
  ASSUME TInv, PrepSegment
  PROVE  TInv'
<1>. DEFINE left == TailBlock.millimeters - 1
            t == block_buffer_tail
<1>1. /\ TypeOK /\ RestTyped /\ Ends /\ block_buffer \in [Slots -> Block]
      /\ t \in Slots /\ block_buffer_head \in Slots /\ next_buffer_head \in Slots
      /\ ~IsEmpty
  BY EndsTyped DEF TInv, TypeOK, RestTyped, PrepSegment
<1>2. Queued(t)
  BY <1>1, EndFacts
<1>3. left \in Nat
  <2>1. block_buffer[t].millimeters \in Nat /\ block_buffer[t].millimeters > 0
    BY <1>1, <1>2 DEF TInv, Block
  <2>. QED BY <2>1 DEF TailBlock
<1>4. SpeedAfter(left) \in Nat
  <2>1. Nominal \in Nat
    BY <1>1, NominalTyped DEF Nominal, RestTyped
  <2>2. exit_speed \in Nat /\ current_speed \in Nat /\ (hold => current_speed > 0)
    BY <1>1 DEF RestTyped, PrepSegment
  <2>. HIDE DEF left
  <2>. QED BY <1>3, <2>1, <2>2 DEF SpeedAfter, AtLeast, AtMost
<1>5. /\ current_speed' = SpeedAfter(left)
      /\ block_buffer_head' = block_buffer_head /\ next_buffer_head' = next_buffer_head
      /\ pc' = "idle"
  BY DEF PrepSegment
<1>6. CASE left > 0
  <2>1. /\ block_buffer' = [block_buffer EXCEPT ![t].millimeters = left]
        /\ UNCHANGED <<block_buffer_tail, block_buffer_planned, loaded>>
    BY <1>6 DEF PrepSegment
  <2>. HIDE DEF left, t
  <2>2. /\ block_buffer' \in [Slots -> Block]
        /\ block_buffer'[t].millimeters > 0
        /\ \A i \in Slots : i # t => block_buffer'[i] = block_buffer[i]
    BY <1>1, <1>3, <1>6, <2>1 DEF Block
  <2>3. RestTyped'
    BY <1>1, <1>4, <1>5, <2>1 DEF PrepSegment, RestTyped, overrides
  <2>4. UNCHANGED indices
    BY <1>5, <2>1 DEF indices
  <2>5. TypeOK'
    BY <1>1, <2>2, <2>3, <2>4 DEF TypeOK, RestTyped, indices
  <2>6. (\A i \in Slots : Queued(i) => block_buffer[i].millimeters > 0)'
    BY <2>2, <2>4, QueueKept DEF TInv
  <2>7. next_buffer_head' = plan_next_block_index(block_buffer_head')
    BY <1>5 DEF TInv
  <2>8. ~IsEmpty'
    BY <1>1, <2>4, QueueKept
  <2>. QED BY <1>5, <2>5, <2>6, <2>7, <2>8 DEF TInv, plan_next_block_index
<1>7. CASE ~(left > 0)
  <2>1. /\ block_buffer' = [block_buffer EXCEPT ![t] = NoBlock]
        /\ loaded' = FALSE
        /\ block_buffer_tail' = plan_next_block_index(t)
        /\ block_buffer_planned' = DiscardedPlanned
    BY <1>7 DEF PrepSegment
  <2>2. NoBlock \in Block
    BY DEF NoBlock, Block
  <2>3. /\ block_buffer' \in [Slots -> Block]
        /\ \A i \in Slots : i # t => block_buffer'[i] = block_buffer[i]
    BY <1>1, <2>1, <2>2
  <2>4. block_buffer_tail' \in Slots /\ block_buffer_planned' \in Slots
    BY <1>1, <2>1, IndexFacts DEF DiscardedPlanned, RestTyped
  <2>5. RestTyped'
    BY <1>1, <1>4, <1>5, <2>1, <2>4 DEF PrepSegment, RestTyped, overrides
  <2>6. TypeOK'
    BY <1>1, <1>5, <2>3, <2>4, <2>5 DEF TypeOK, RestTyped
  <2>7. (\A i \in Slots : Queued(i) => block_buffer[i].millimeters > 0)'
    BY <1>1, <1>5, <2>1, <2>3, QueueAfterDiscard DEF TInv
  <2>8. next_buffer_head' = plan_next_block_index(block_buffer_head')
    BY <1>5 DEF TInv
  <2>. QED BY <1>5, <2>1, <2>6, <2>7, <2>8 DEF TInv, plan_next_block_index
<1>. QED BY <1>6, <1>7

(* Cycle start and stop, hold and its end, and the reset. *)
LEMMA TInvControl ==
  ASSUME TInv, CycleStart \/ CycleStop \/ FeedHold \/ HoldStop \/ Reset
  PROVE  TInv'
<1>1. /\ TypeOK /\ RestTyped /\ block_buffer \in [Slots -> Block]
      /\ block_buffer_tail \in Slots
  BY DEF TInv, TypeOK, RestTyped
<1>2. Replanned(block_buffer, UpdateTail(block_buffer))
  BY <1>1, UpdateTailFacts
<1>3. CASE CycleStart \/ CycleStop
  <2>1. RestTyped'
    BY <1>1, <1>3 DEF CycleStart, CycleStop, RestTyped, planner, overrides
  <2>2. UNCHANGED <<indices, block_buffer, loaded, pc>>
    BY <1>3 DEF CycleStart, CycleStop, planner
  <2>. QED BY <1>1, <2>1, <2>2, TInvQueueKept DEF TInv
<1>4. CASE FeedHold \/ HoldStop
  <2>1. RestTyped'
    BY <1>1, <1>4 DEF FeedHold, HoldStop, Reinitialize, NotifyStepper, RestTyped,
       overrides
  <2>2. /\ UNCHANGED indices /\ loaded' = FALSE
        /\ pc' \in {"idle", "recalculate"}
        /\ block_buffer' = UpdateTail(block_buffer)
    BY <1>4 DEF FeedHold, HoldStop, Reinitialize, NotifyStepper
  <2>. QED BY <1>2, <2>1, <2>2, TInvQueueKept DEF Replanned
<1>5. CASE Reset
  <2>1. 0 \in Slots /\ 1 \in Slots
    BY SizeFacts DEF Slots
  <2>2. NoBlock \in Block
    BY DEF NoBlock, Block
  <2>3. RestTyped'
    BY <1>1, <1>5, <2>1, PlannerAssumption DEF Reset, RestTyped
  <2>4. TypeOK'
    BY <1>5, <2>1, <2>2, <2>3 DEF Reset, TypeOK, RestTyped
  <2>5. next_buffer_head' = plan_next_block_index(block_buffer_head')
    BY <1>5, SizeFacts DEF Reset, plan_next_block_index
  <2>6. (\A i \in Slots : ~Queued(i))'
    BY <1>5, SizeFacts DEF Reset, Slots, Queued, Offset, Count
  <2>. QED BY <1>5, <2>4, <2>5, <2>6 DEF TInv, Reset, plan_next_block_index
<1>. QED BY <1>3, <1>4, <1>5

(* Every step keeps TInv. *)
LEMMA TInvStep == TInv /\ [Next]_vars => TInv'
<1>. SUFFICES ASSUME TInv, [Next]_vars PROVE TInv'
  OBVIOUS
<1>1. CASE Next
  BY <1>1, TInvLine, TInvRecalculate, TInvOverride, TInvPrepLoad, TInvPrepSegment,
     TInvControl DEF Next, st_prep_buffer
<1>2. CASE UNCHANGED vars
  <2>1. UNCHANGED <<indices, block_buffer, loaded, pc>> /\ RestTyped'
    BY <1>2 DEF vars, planner, overrides, prep, RestTyped, TInv, TypeOK
  <2>. QED BY <2>1, TInvQueueKept DEF TInv, TypeOK
<1>. QED BY <1>1, <1>2

(* The indices of the ring stay in the ring, speeds and distances stay natural
   numbers: no subtraction of st_prep_buffer goes below zero. *)
THEOREM TypeCorrect == Spec => []TypeOK
<1>1. TInv => TypeOK
  BY DEF TInv
<1>. QED BY TInvInit, TInvStep, <1>1, PTL DEF Spec

-----------------------------------------------------------------------------
(* The planned pointer.                                                    *)

(* After a recalculation of the empty ring the pointer may be anywhere.  The
   one line queued since then has an entry limit of zero, so the forward pass,
   once around the ring, brings the pointer to it. *)
Stray ==
  /\ pc # "idle" /\ ~loaded
  /\ plan_next_block_index(block_buffer_tail) = block_buffer_head
  /\ block_buffer[block_buffer_tail].max_entry_speed = 0
  /\ block_buffer[block_buffer_tail].entry_speed = 0
  /\ pc = "forward" => current # block_buffer_tail

(* Otherwise the pointer is in the queue, the reverse pass runs between it and
   the head, and the forward pass from it on. *)
PInv ==
  /\ ~IsEmpty /\ ~Queued(block_buffer_planned) => Stray
  /\ Queued(block_buffer_planned) /\ pc = "reverse" =>
       Queued(current) /\ Offset(current) > Offset(block_buffer_planned)
  /\ Queued(block_buffer_planned) /\ pc = "forward" => Queued(current)

(* The blocks whose entry the present recalculation, if any, has no need to
   lower any more. *)
Lowered(i) ==
  \/ pc \in {"idle", "forward"}
  \/ Offset(i) <= Offset(block_buffer_planned)
  \/ pc = "reverse" /\ Offset(i) >= Offset(current)

(* Entry limits are those of the overrides of now, and the entries of lowered
   blocks respect them. *)
JInv ==
  /\ ~IsEmpty => previous_nominal_speed =
       NominalSpeed(block_buffer[plan_prev_block_index(block_buffer_head)],
                    f_override, r_override)
  /\ \A i \in Slots : Queued(i) /\ i # block_buffer_tail =>
       /\ block_buffer[i].max_entry_speed =
            MaxEntrySpeed(NominalSpeed(block_buffer[i], f_override, r_override),
              NominalSpeed(block_buffer[plan_prev_block_index(i)],
                           f_override, r_override),
              block_buffer[i].max_junction_speed)
       /\ Lowered(i) => block_buffer[i].entry_speed <= block_buffer[i].max_entry_speed

(* A step that moves neither end of the queue and ends a recalculation, or
   starts one from the tail. *)
LEMMA PInvQueueKept ==
  ASSUME TInv, PInv, UNCHANGED indices, pc' \in {"idle", "recalculate"},
         \/ block_buffer_planned' = block_buffer_tail
         \/ IsEmpty
         \/ pc = "idle" /\ block_buffer_planned' = block_buffer_planned
  PROVE  PInv'
<1>1. Ends /\ block_buffer_planned \in Slots
  BY EndsTyped DEF TInv, TypeOK
<1>2. ~IsEmpty => Queued(block_buffer_planned')
  BY <1>1, EndFacts DEF PInv, Stray
<1>3. block_buffer_planned' \in Slots \/ IsEmpty
  BY <1>1 DEF Ends
<1>4. (~IsEmpty => Queued(block_buffer_planned))'
  BY <1>2, <1>3, QueueKept DEF Queued, Offset, Count
<1>. QED BY <1>4 DEF PInv

(* One line in the ring. *)
LEMMA PInvLine ==
  ASSUME TInv, PInv, NEW mm \in Lengths, NEW rapid \in BOOLEAN,
         NEW junction \in Junctions, PlanBufferLine(mm, rapid, junction)
  PROVE  PInv'
<1>1. /\ Ends /\ block_buffer \in [Slots -> Block]
      /\ block_buffer_head \in Slots /\ block_buffer_planned \in Slots
      /\ pc = "idle" /\ pc' = "recalculate" /\ loaded' = loaded
      /\ block_buffer_planned' = block_buffer_planned
      /\ block_buffer_tail' = block_buffer_tail
      /\ block_buffer_head' = plan_next_block_index(block_buffer_head)
  BY EndsTyped DEF TInv, TypeOK, PlanBufferLine, prep
<1>2. \A i \in Slots : Queued(i) => Queued(i)'
  BY <1>1, QueueAfterLine DEF TInv, PlanBufferLine
<1>3. CASE IsEmpty
  <2>. DEFINE b == [NoBlock EXCEPT !.millimeters = mm, !.rapid = rapid,
                     !.max_junction_speed = IF IsEmpty THEN 0 ELSE junction]
              nominal == NominalSpeed(b, f_override, r_override)
              limit == MaxEntrySpeed(nominal, previous_nominal_speed,
                                     b.max_junction_speed)
              new == [b EXCEPT !.max_entry_speed = limit]
  <2>1. b.max_junction_speed = 0 /\ b.entry_speed = 0
    BY <1>3 DEF NoBlock
  <2>2. nominal \in Nat /\ previous_nominal_speed \in Nat
    BY NominalTyped DEF TInv, TypeOK
  <2>3. limit = 0
    <3>. HIDE DEF nominal, b
    <3>. QED BY <2>1, <2>2, MaxEntryFacts
  <2>4. new.max_entry_speed = 0 /\ new.entry_speed = 0
    BY <2>3 DEF NoBlock
  <2>5. block_buffer' = [block_buffer EXCEPT ![block_buffer_head] = new]
    BY DEF PlanBufferLine
  <2>. HIDE DEF new
  <2>6. block_buffer'[block_buffer_head] = new
    BY <1>1, <2>5
  <2>7. Stray'
    BY <1>1, <1>3, <2>4, <2>6 DEF Stray, TInv, IsEmpty, plan_next_block_index
  <2>. QED BY <1>1, <2>7 DEF PInv
<1>4. CASE ~IsEmpty
  <2>1. Queued(block_buffer_planned)
    BY <1>1, <1>4 DEF PInv, Stray
  <2>2. Queued(block_buffer_planned)'
    BY <1>1, <1>2, <2>1 DEF Queued, Offset, Count
  <2>. QED BY <1>1, <2>2 DEF PInv
<1>. QED BY <1>3, <1>4

(* A step of the reverse pass. *)
LEMMA PInvReverse ==
  ASSUME TInv, PInv, Recalculate \/ ReversePass
  PROVE  PInv'
<1>1. /\ TypeOK /\ Ends /\ block_buffer \in [Slots -> Block]
      /\ block_buffer_tail \in Slots /\ block_buffer_head \in Slots
      /\ block_buffer_planned \in Slots /\ current \in Slots
      /\ ~IsEmpty
  BY EndsTyped DEF TInv, TypeOK, Recalculate, ReversePass
<1>2. UNCHANGED indices /\ UNCHANGED block_buffer_planned
  BY DEF Recalculate, ReversePass, RecalculateSame
<1>3. /\ ~IsEmpty'
      /\ \A i \in Slots : (Queued(i)' <=> Queued(i)) /\ Offset(i)' = Offset(i)
  BY <1>1, <1>2, QueueKept
<1>4. Queued(block_buffer_planned)' <=> Queued(block_buffer_planned)
  BY <1>1, <1>2, <1>3 DEF Queued, Offset, Count
<1>5. /\ Offset(block_buffer_planned)' = Offset(block_buffer_planned)
  BY <1>1, <1>2, <1>3 DEF Offset
<1>6. ASSUME NEW i \in Slots, NEW speed \in Nat, ReverseStep(i, speed),
             pc' = "reverse",
             i = block_buffer_tail => (block_buffer[i].max_entry_speed = 0 => speed = 0),
             Queued(block_buffer_planned) =>
               Queued(i) /\ Offset(i) > Offset(block_buffer_planned)
      PROVE  PInv'
  <2>1. /\ Replanned(block_buffer, block_buffer')
        /\ \A j \in Slots : j # i /\ j # block_buffer_tail
                               => block_buffer'[j] = block_buffer[j]
        /\ ~loaded => block_buffer'[i].entry_speed = speed
        /\ i # block_buffer_tail /\ ~loaded
             => block_buffer'[block_buffer_tail] = block_buffer[block_buffer_tail]
        /\ loaded' \in BOOLEAN /\ (loaded' => loaded)
        /\ current' = i
    BY <1>1, <1>6, ReverseStepFacts
  <2>2. Queued(block_buffer_planned)' => Queued(current)'
          /\ Offset(current)' > Offset(block_buffer_planned)'
    <3>1. Queued(i)' <=> Queued(i)
      BY <1>3
    <3>2. Offset(i)' = Offset(i)
      BY <1>3
    <3>3. Offset(current)' = Offset(i)' /\ (Queued(current)' <=> Queued(i)')
      BY <2>1 DEF Offset, Queued, Count
    <3>. QED BY <1>4, <1>5, <1>6, <3>1, <3>2, <3>3
  <2>3. ASSUME ~Queued(block_buffer_planned) PROVE Stray'
    <3>1. Stray
      BY <1>1, <2>3 DEF PInv
    <3>2. block_buffer_tail' = block_buffer_tail /\ block_buffer_head' = block_buffer_head
      BY <1>2 DEF indices
    <3>3. /\ block_buffer'[block_buffer_tail].max_entry_speed = 0
          /\ block_buffer'[block_buffer_tail].entry_speed = 0
      BY <1>1, <1>6, <2>1, <3>1 DEF Replanned, Stray
    <3>. QED BY <1>6, <2>1, <3>1, <3>2, <3>3 DEF Stray, plan_next_block_index
  <2>. QED BY <1>4, <1>6, <2>2, <2>3 DEF PInv
<1>7. CASE Recalculate
  <2>. DEFINE last == plan_prev_block_index(block_buffer_head)
              speed == AtMost(block_buffer[last].max_entry_speed,
                              block_buffer[last].millimeters)
  <2>1. last \in Slots /\ Queued(last)
    BY <1>1, IndexFacts, EndFacts
  <2>2. CASE last = block_buffer_planned
    <3>1. pc' = "idle" /\ Queued(block_buffer_planned)'
      BY <1>4, <1>7, <2>1, <2>2 DEF Recalculate
    <3>. QED BY <3>1 DEF PInv
  <2>3. CASE last # block_buffer_planned
    <3>1. /\ block_buffer[last].max_entry_speed \in Nat
          /\ block_buffer[last].millimeters \in Nat
      BY <1>1, <2>1 DEF Block
    <3>2. speed \in Nat /\ (block_buffer[last].max_entry_speed = 0 => speed = 0)
      BY <3>1 DEF AtMost
    <3>3. ReverseStep(last, speed) /\ pc' = "reverse"
      BY <1>7, <2>3 DEF Recalculate
    <3>4. Queued(block_buffer_planned) => Offset(last) > Offset(block_buffer_planned)
      <4>1. Queued(block_buffer_planned) => Offset(block_buffer_planned) <= Offset(last)
        BY <1>1, EndFacts
      <4>2. /\ Offset(block_buffer_planned) \in Nat /\ Offset(last) \in Nat
            /\ Offset(block_buffer_planned) # Offset(last)
        BY <1>1, <2>1, <2>3, OffsetInjective
      <4>. HIDE DEF last
      <4>. QED BY <4>1, <4>2
    <3>. HIDE DEF last, speed
    <3>. QED BY <1>6, <2>1, <3>2, <3>3, <3>4
  <2>. QED BY <2>2, <2>3
<1>8. CASE ReversePass
  <2>. DEFINE i == plan_prev_block_index(current)
  <2>1. i \in Slots
    BY <1>1, IndexFacts
  <2>2. /\ block_buffer[i].max_entry_speed \in Nat
        /\ block_buffer[i].entry_speed \in Nat /\ block_buffer[i].millimeters \in Nat
        /\ block_buffer[current].entry_speed \in Nat
    BY <1>1, <2>1 DEF Block
  <2>3. /\ ReverseSpeed(i) \in Nat
        /\ block_buffer[i].max_entry_speed = 0 => ReverseSpeed(i) = 0
    BY <2>2 DEF ReverseSpeed, AtMost
  <2>4. ReverseStep(i, ReverseSpeed(i)) /\ pc = "reverse" /\ pc' = "reverse"
        /\ i # block_buffer_planned
    BY <1>8 DEF ReversePass
  <2>5. ASSUME Queued(block_buffer_planned)
        PROVE  Queued(i) /\ Offset(i) > Offset(block_buffer_planned)
    <3>1. Queued(current) /\ Offset(current) > Offset(block_buffer_planned)
      BY <2>4, <2>5 DEF PInv
    <3>2. /\ Offset(block_buffer_planned) \in Nat /\ Offset(i) \in Nat
          /\ Offset(i) # Offset(block_buffer_planned)
      BY <1>1, <2>1, <2>4, OffsetInjective
    <3>3. Offset(current) \in Nat /\ Offset(block_buffer_tail) = 0
      BY <1>1, EndFacts, OffsetInjective
    <3>4. current # block_buffer_tail
      BY <3>1, <3>2, <3>3
    <3>5. Queued(i) /\ Offset(i) = Offset(current) - 1
      BY <1>1, <3>1, <3>4, Neighbours
    <3>. HIDE DEF i
    <3>. QED BY <3>1, <3>2, <3>3, <3>5
  <2>. HIDE DEF i
  <2>. QED BY <1>6, <2>1, <2>3, <2>4, <2>5
<1>. QED BY <1>7, <1>8

(* A step of the forward pass. *)
LEMMA PInvForward ==
  ASSUME TInv, PInv, StartForward \/ ForwardPass \/ EndForward
  PROVE  PInv'
<1>1. /\ TypeOK /\ Ends /\ block_buffer \in [Slots -> Block]
      /\ block_buffer_tail \in Slots /\ block_buffer_head \in Slots
      /\ block_buffer_planned \in Slots /\ current \in Slots
      /\ ~IsEmpty
  BY EndsTyped DEF TInv, TypeOK, StartForward, ForwardPass, EndForward
<1>2. UNCHANGED indices /\ loaded' = loaded
  BY DEF StartForward, ForwardPass, EndForward, RecalculateSame, prep
<1>3. /\ ~IsEmpty'
      /\ \A i \in Slots : (Queued(i)' <=> Queued(i)) /\ Offset(i)' = Offset(i)
  BY <1>1, <1>2, QueueKept
<1>4. ASSUME NEW i \in Slots, block_buffer_planned' = i
      PROVE  Queued(block_buffer_planned)' <=> Queued(i)
  BY <1>3, <1>4 DEF Queued, Offset, Count
<1>5. ASSUME NEW i \in Slots, current' = i
      PROVE  Queued(current)' <=> Queued(i)
  BY <1>3, <1>5 DEF Queued, Offset, Count
<1>6. /\ block_buffer_tail' = block_buffer_tail /\ block_buffer_head' = block_buffer_head
      /\ Queued(block_buffer_tail)
  BY <1>1, <1>2, EndFacts DEF indices
<1>7. CASE StartForward
  <2>1. /\ pc' = "forward" /\ current' = block_buffer_planned
        /\ block_buffer_planned' = block_buffer_planned
        /\ block_buffer' = block_buffer
    BY <1>7 DEF StartForward
  <2>2. CASE Queued(block_buffer_planned)
    BY <1>1, <1>4, <1>5, <2>1, <2>2 DEF PInv
  <2>3. CASE ~Queued(block_buffer_planned)
    <3>1. Stray
      BY <1>1, <2>3 DEF PInv
    <3>2. block_buffer_planned # block_buffer_tail
      BY <1>6, <2>3
    <3>3. Stray'
      BY <1>2, <1>6, <2>1, <3>1, <3>2 DEF Stray, plan_next_block_index
    <3>4. ~Queued(block_buffer_planned)'
      BY <1>1, <1>4, <2>1, <2>3
    <3>. QED BY <3>3, <3>4 DEF PInv
  <2>. QED BY <2>2, <2>3
<1>8. CASE ForwardPass
  <2>. DEFINE n == plan_next_block_index(current)
              b == block_buffer[current]
              speed == AtMost(b.entry_speed + b.millimeters,
                              block_buffer[n].entry_speed)
  <2>1. /\ n \in Slots /\ n # current
    BY <1>1, IndexFacts
  <2>2. /\ block_buffer[n].entry_speed \in Nat
        /\ b.entry_speed \in Nat /\ b.millimeters \in Nat
    BY <1>1, <2>1 DEF Block
  <2>3. /\ speed \in Nat /\ speed <= block_buffer[n].entry_speed
    BY <2>2 DEF AtMost
  <2>4. /\ pc = "forward" /\ pc' = "forward" /\ current' = n
        /\ n # block_buffer_head
        /\ block_buffer_planned' \in {block_buffer_planned, n}
        /\ Breakpoint(b, block_buffer[n], speed) => block_buffer_planned' = n
        /\ block_buffer' = [block_buffer EXCEPT ![n].entry_speed = speed]
    BY <1>8 DEF ForwardPass
  <2>5. /\ Replanned(block_buffer, block_buffer')
        /\ block_buffer'[n].entry_speed = speed
        /\ \A j \in Slots : j # n => block_buffer'[j] = block_buffer[j]
    <3>. HIDE DEF n, speed
    <3>. QED BY <1>1, <2>1, <2>3, <2>4, SetEntryFacts
  <2>6. CASE Queued(block_buffer_planned)
    <3>1. Queued(current) /\ Queued(n)
      BY <1>1, <2>4, <2>6, Neighbours DEF PInv
    <3>2. Queued(block_buffer_planned)' /\ Queued(current)'
      <4>. HIDE DEF n
      <4>. QED BY <1>1, <1>4, <1>5, <2>1, <2>4, <2>6, <3>1
    <3>. QED BY <2>4, <3>2 DEF PInv
  <2>7. CASE ~Queued(block_buffer_planned) /\ n = block_buffer_tail
    <3>1. Stray
      BY <1>1, <2>7 DEF PInv
    <3>2. speed = 0 /\ block_buffer[n].max_entry_speed = 0
      BY <2>3, <2>7, <3>1 DEF Stray
    <3>3. Breakpoint(b, block_buffer[n], speed)
      BY <3>2 DEF Breakpoint
    <3>4. block_buffer_planned' = n /\ current' = n /\ Queued(n)
      BY <1>6, <2>4, <2>7, <3>3
    <3>5. Queued(block_buffer_planned)' /\ Queued(current)'
      <4>. HIDE DEF n
      <4>. QED BY <1>4, <1>5, <2>1, <3>4
    <3>. QED BY <2>4, <3>5 DEF PInv
  <2>8. CASE ~Queued(block_buffer_planned) /\ n # block_buffer_tail
    <3>1. Stray
      BY <1>1, <2>8 DEF PInv
    <3>2. block_buffer'[block_buffer_tail] = block_buffer[block_buffer_tail]
      BY <1>1, <2>5, <2>8
    <3>3. Stray'
      BY <1>2, <1>6, <2>4, <2>8, <3>1, <3>2 DEF Stray, plan_next_block_index
    <3>4. n # block_buffer_planned' \/ ~Queued(n)
      <4>1. ~Queued(n)
        <5>1. \A i \in Slots : Queued(i) => i = block_buffer_tail
          BY <1>1, <3>1, SizeFacts
             DEF Stray, plan_next_block_index, Queued, Offset, Count, Slots, Ends
        <5>. QED BY <2>1, <2>8, <5>1
      <4>. QED BY <4>1
    <3>5. ~Queued(block_buffer_planned)'
      <4>. HIDE DEF n
      <4>. QED BY <1>1, <1>4, <2>1, <2>4, <2>8, <3>4
    <3>. QED BY <3>3, <3>5 DEF PInv
  <2>. QED BY <2>6, <2>7, <2>8
<1>9. CASE EndForward
  <2>1. /\ pc = "forward" /\ pc' = "idle"
        /\ plan_next_block_index(current) = block_buffer_head
        /\ block_buffer_planned' = block_buffer_planned
    BY <1>9 DEF EndForward
  <2>2. Queued(block_buffer_planned)
    <3>1. SUFFICES ASSUME Stray PROVE FALSE
      BY <1>1 DEF PInv
    <3>2. plan_next_block_index(current) = plan_next_block_index(block_buffer_tail)
          /\ current # block_buffer_tail
      BY <2>1, <3>1 DEF Stray
    <3>. QED BY <1>1, <3>2, IndexFacts
  <2>. QED BY <1>1, <1>4, <2>1, <2>2 DEF PInv
<1>. QED BY <1>7, <1>8, <1>9

(* The discarded block pushes the pointer along. *)
LEMMA PInvPrepSegment ==
  ASSUME TInv, PInv, PrepSegment
  PROVE  PInv'
<1>1. /\ Ends /\ ~IsEmpty
      /\ block_buffer_tail \in Slots /\ block_buffer_head \in Slots
      /\ block_buffer_planned \in Slots
      /\ pc = "idle" /\ pc' = "idle"
      /\ block_buffer_head' = block_buffer_head
  BY EndsTyped DEF TInv, TypeOK, PrepSegment
<1>2. Queued(block_buffer_planned)
  BY <1>1 DEF PInv, Stray
<1>3. CASE UNCHANGED <<block_buffer_tail, block_buffer_planned>>
  BY <1>1, <1>2, <1>3 DEF PInv, Queued, Offset, Count
<1>4. CASE /\ block_buffer_tail' = plan_next_block_index(block_buffer_tail)
           /\ block_buffer_planned' = DiscardedPlanned
  <2>1. (~IsEmpty => Queued(block_buffer_planned))'
    <3>1. CASE block_buffer_planned # block_buffer_tail
      <4>1. block_buffer_planned' = block_buffer_planned
        BY <1>4, <3>1 DEF DiscardedPlanned
      <4>2. Queued(block_buffer_planned)' <=> Queued(block_buffer_planned)
        BY <1>1, <1>2, <1>4, <3>1, <4>1, SizeFacts
           DEF Queued, Offset, Count, Slots, plan_next_block_index
      <4>. QED BY <1>2, <4>2
    <3>2. CASE block_buffer_planned = block_buffer_tail
      <4>1. block_buffer_planned' = block_buffer_tail'
        BY <1>4, <3>2 DEF DiscardedPlanned
      <4>. QED BY <1>1, <1>4, <4>1, SizeFacts
               DEF Queued, Offset, Count, Slots, IsEmpty, plan_next_block_index
    <3>. QED BY <3>1, <3>2
  <2>. QED BY <1>1, <1>4, <2>1 DEF PInv
<1>5. CASE TailBlock.millimeters - 1 > 0
  BY <1>3, <1>5 DEF PrepSegment
<1>6. CASE ~(TailBlock.millimeters - 1 > 0)
  BY <1>4, <1>6 DEF PrepSegment
<1>. QED BY <1>5, <1>6

(* Every step keeps PInv. *)
LEMMA PInvStep == TInv /\ PInv /\ [Next]_vars => PInv'
<1>. SUFFICES ASSUME TInv, PInv, [Next]_vars PROVE PInv'
  OBVIOUS
<1>1. CASE \/ RecalculateEmpty \/ PrepLoad \/ CycleStart \/ CycleStop
           \/ FeedHold \/ HoldStop
           \/ \E f \in FeedOverrides, r \in RapidOverrides : Override(f, r)
  <2>1. /\ UNCHANGED indices /\ pc' \in {"idle", "recalculate"}
        /\ \/ block_buffer_planned' = block_buffer_tail
           \/ IsEmpty
           \/ pc = "idle" /\ block_buffer_planned' = block_buffer_planned
    BY <1>1 DEF RecalculateEmpty, RecalculateSame, PrepLoad, CycleStart, CycleStop,
       FeedHold, HoldStop, Override, Reinitialize, planner
  <2>. QED BY <2>1, PInvQueueKept
<1>2. CASE Reset
  <2>1. IsEmpty' /\ pc' = "idle"
    BY <1>2 DEF Reset, IsEmpty
  <2>. QED BY <2>1 DEF PInv
<1>3. CASE UNCHANGED vars
  <2>1. /\ UNCHANGED indices
        /\ UNCHANGED <<block_buffer, block_buffer_planned, pc, current, loaded>>
    BY <1>3 DEF vars, planner, prep
  <2>. QED BY <2>1 DEF PInv, Stray, indices, IsEmpty, Queued, Offset, Count
<1>4. CASE Next
  BY <1>1, <1>2, <1>4, PInvLine, PInvReverse, PInvForward, PInvPrepSegment
     DEF Next, planner_recalculate, st_prep_buffer
<1>. QED BY <1>3, <1>4

(* The planned pointer of a queue that is not empty is in it, whenever the
   planner is at rest, whatever lines, discards, holds, overrides and resets
   went before. *)
THEOREM PlannedStaysInRange == Spec => []PlannedInRange
<1>1. Init => PInv
  BY DEF Init, PInv, IsEmpty
<1>2. PInv => PlannedInRange
  BY DEF PInv, Stray, PlannedInRange, Settled
<1>. QED BY TInvInit, TInvStep, PInvStep, <1>1, <1>2, PTL DEF Spec

-----------------------------------------------------------------------------
(* The junctions.                                                          *)

(* The nominal speed of a block depends on nothing else of it. *)
LEMMA NominalByRapid ==
  ASSUME NEW b, NEW c, NEW f, NEW r, b.rapid = c.rapid
  PROVE  NominalSpeed(b, f, r) = NominalSpeed(c, f, r)
BY DEF NominalSpeed

(* A step that moves neither end of the queue, under the same overrides. *)
LEMMA JInvQueueKept ==
  ASSUME TInv, JInv, UNCHANGED <<indices, previous_nominal_speed, f_override, r_override>>,
         \A i \in Slots : /\ block_buffer'[i].rapid = block_buffer[i].rapid
                         /\ block_buffer'[i].max_junction_speed = block_buffer[i].max_junction_speed
                         /\ block_buffer'[i].max_entry_speed = block_buffer[i].max_entry_speed,
         \A i \in Slots : Queued(i) /\ i # block_buffer_tail /\ Lowered(i)' =>
           block_buffer'[i].entry_speed <= block_buffer[i].max_entry_speed
  PROVE  JInv'
<1>1. /\ Ends /\ block_buffer_head \in Slots
      /\ block_buffer_tail' = block_buffer_tail /\ block_buffer_head' = block_buffer_head
      /\ f_override' = f_override /\ r_override' = r_override
      /\ previous_nominal_speed' = previous_nominal_speed
  BY EndsTyped DEF TInv, TypeOK, indices
<1>2. /\ IsEmpty' <=> IsEmpty
      /\ \A i \in Slots : Queued(i)' <=> Queued(i)
  BY QueueKept
<1>3. \A i \in Slots : NominalSpeed(block_buffer[i], f_override, r_override)'
                        = NominalSpeed(block_buffer[i], f_override, r_override)
  BY <1>1 DEF NominalSpeed
<1>4. \A i \in Slots : plan_prev_block_index(i) \in Slots
  BY IndexFacts
<1>5. (~IsEmpty => previous_nominal_speed =
       NominalSpeed(block_buffer[plan_prev_block_index(block_buffer_head)],
                    f_override, r_override))'
  <2>1. plan_prev_block_index(block_buffer_head)' = plan_prev_block_index(block_buffer_head)
    BY <1>1
  <2>2. /\ plan_prev_block_index(block_buffer_head) \in Slots
    BY <1>1, <1>4
  <2>. QED BY <1>1, <1>2, <1>3, <2>1, <2>2 DEF JInv, NominalSpeed, plan_prev_block_index
<1>6. ASSUME NEW i \in Slots, Queued(i)', i # block_buffer_tail'
      PROVE  /\ block_buffer'[i].max_entry_speed =
                  MaxEntrySpeed(NominalSpeed(block_buffer'[i], f_override', r_override'),
                    NominalSpeed(block_buffer'[plan_prev_block_index(i)],
                                 f_override', r_override'),
                    block_buffer'[i].max_junction_speed)
             /\ Lowered(i)' => block_buffer'[i].entry_speed <= block_buffer'[i].max_entry_speed
  <2>1. Queued(i) /\ i # block_buffer_tail
    BY <1>1, <1>2, <1>6
  <2>2. NominalSpeed(block_buffer'[i], f_override', r_override')
          = NominalSpeed(block_buffer[i], f_override, r_override)
    BY <1>1, NominalByRapid
  <2>3. NominalSpeed(block_buffer'[plan_prev_block_index(i)], f_override', r_override')
          = NominalSpeed(block_buffer[plan_prev_block_index(i)], f_override, r_override)
    BY <1>1, <1>4, NominalByRapid
  <2>. QED BY <2>1, <2>2, <2>3 DEF JInv
<1>. QED BY <1>5, <1>6 DEF JInv

(* One line in the ring. *)
LEMMA JInvLine ==
  ASSUME TInv, JInv, NEW mm \in Lengths, NEW rapid \in BOOLEAN,
         NEW junction \in Junctions, PlanBufferLine(mm, rapid, junction), TInv'
  PROVE  JInv'
<1>. DEFINE b == [NoBlock EXCEPT !.millimeters = mm, !.rapid = rapid,
                   !.max_junction_speed = IF IsEmpty THEN 0 ELSE junction]
            nominal == NominalSpeed(b, f_override, r_override)
            limit == MaxEntrySpeed(nominal, previous_nominal_speed,
                                   b.max_junction_speed)
            new == [b EXCEPT !.max_entry_speed = limit]
            h == block_buffer_head
<1>1. /\ Ends /\ block_buffer \in [Slots -> Block] /\ h \in Slots
      /\ block_buffer_tail \in Slots
      /\ f_override' = f_override /\ r_override' = r_override
      /\ pc = "idle" /\ pc' = "recalculate"
      /\ block_buffer_tail' = block_buffer_tail
      /\ block_buffer_head' = plan_next_block_index(h)
      /\ previous_nominal_speed' = nominal
      /\ block_buffer' = [block_buffer EXCEPT ![h] = new]
  BY EndsTyped DEF TInv, TypeOK, PlanBufferLine, overrides
<1>2. /\ new.rapid = b.rapid /\ new.max_entry_speed = limit
      /\ new.max_junction_speed = b.max_junction_speed /\ new.entry_speed = 0
  BY DEF NoBlock
<1>3. limit \in Nat
  <2>1. block_buffer'[h] = new
    <3>. HIDE DEF new
    <3>. QED BY <1>1
  <2>2. block_buffer'[h].max_entry_speed \in Nat
    BY <1>1 DEF TInv, TypeOK, Block
  <2>. QED BY <1>2, <2>1, <2>2
<1>. HIDE DEF new, limit, nominal, b
<1>4. block_buffer'[h] = new /\ \A i \in Slots : i # h => block_buffer'[i] = block_buffer[i]
  BY <1>1
<1>5. /\ ~Queued(h)
      /\ \A i \in Slots : Queued(i)' => Queued(i) \/ i = h
  BY <1>1, QueueAfterLine DEF TInv, PlanBufferLine
<1>6. nominal = NominalSpeed(new, f_override, r_override)
  BY <1>2, NominalByRapid DEF nominal
<1>7. plan_prev_block_index(plan_next_block_index(h)) = h
  BY <1>1, IndexFacts
<1>8. previous_nominal_speed' =
        NominalSpeed(block_buffer'[plan_prev_block_index(block_buffer_head')],
                     f_override', r_override')
  BY <1>1, <1>4, <1>6, <1>7
<1>9. ASSUME NEW i \in Slots, Queued(i)', i # block_buffer_tail'
      PROVE  /\ block_buffer'[i].max_entry_speed =
                  MaxEntrySpeed(NominalSpeed(block_buffer'[i], f_override', r_override'),
                    NominalSpeed(block_buffer'[plan_prev_block_index(i)],
                                 f_override', r_override'),
                    block_buffer'[i].max_junction_speed)
             /\ block_buffer'[i].entry_speed <= block_buffer'[i].max_entry_speed
  <2>1. plan_prev_block_index(i) \in Slots
    BY IndexFacts
  <2>2. CASE i = h
    <3>1. ~IsEmpty
      BY <1>1, <1>9, <2>2 DEF IsEmpty
    <3>2. plan_prev_block_index(h) # h
      BY <1>1, <2>1, <2>2, IndexFacts
    <3>3. block_buffer'[plan_prev_block_index(i)] = block_buffer[plan_prev_block_index(h)]
      BY <1>4, <2>1, <2>2, <3>2
    <3>4. previous_nominal_speed =
            NominalSpeed(block_buffer[plan_prev_block_index(h)], f_override, r_override)
      BY <3>1 DEF JInv
    <3>5. new.max_entry_speed = MaxEntrySpeed(nominal, previous_nominal_speed,
                                              new.max_junction_speed)
      BY <1>2 DEF limit
    <3>6. new.entry_speed <= new.max_entry_speed
      BY <1>2, <1>3
    <3>. QED BY <1>1, <1>4, <1>6, <2>2, <3>3, <3>4, <3>5, <3>6
  <2>3. CASE i # h
    <3>1. Queued(i) /\ i # block_buffer_tail
      BY <1>1, <1>5, <1>9, <2>3
    <3>2. Queued(plan_prev_block_index(i))
      BY <1>1, <3>1, Neighbours
    <3>3. plan_prev_block_index(i) # h
      BY <1>5, <3>2
    <3>4. /\ block_buffer'[i] = block_buffer[i]
          /\ block_buffer'[plan_prev_block_index(i)] = block_buffer[plan_prev_block_index(i)]
      BY <1>4, <2>1, <2>3, <3>3
    <3>. QED BY <1>1, <3>1, <3>4 DEF JInv, Lowered
  <2>. QED BY <2>2, <2>3
<1>. QED BY <1>8, <1>9 DEF JInv

(* A step of the reverse pass lowers its block, and with it those from there
   to the head. *)
LEMMA JInvReverse ==
  ASSUME TInv, PInv, JInv, Recalculate \/ ReversePass
  PROVE  JInv'
<1>1. /\ TypeOK /\ Ends /\ block_buffer \in [Slots -> Block]
      /\ block_buffer_tail \in Slots /\ block_buffer_head \in Slots
      /\ block_buffer_planned \in Slots /\ current \in Slots
      /\ ~IsEmpty
  BY EndsTyped DEF TInv, TypeOK, Recalculate, ReversePass
<1>2. /\ UNCHANGED <<indices, previous_nominal_speed, f_override, r_override>>
      /\ block_buffer_planned' = block_buffer_planned
      /\ block_buffer_tail' = block_buffer_tail
  BY DEF Recalculate, ReversePass, RecalculateSame, overrides, indices
<1>3. \A i \in Slots : Offset(i)' = Offset(i) /\ Offset(i) \in Nat
  BY <1>1, <1>2, QueueKept, OffsetInjective
<1>4. ASSUME NEW i \in Slots, NEW speed \in Nat, ReverseStep(i, speed),
             pc' = "reverse",
             speed <= block_buffer[i].max_entry_speed,
             \A j \in Slots : Queued(j) /\ j # block_buffer_tail /\ j # i
                             /\ Offset(j) >= Offset(i) => Lowered(j)
      PROVE  JInv'
  <2>1. /\ Replanned(block_buffer, block_buffer')
        /\ \A j \in Slots : j # i /\ j # block_buffer_tail
                               => block_buffer'[j] = block_buffer[j]
        /\ i # block_buffer_tail => block_buffer'[i].entry_speed = speed
        /\ current' = i
    BY <1>1, <1>4, ReverseStepFacts
  <2>2. ASSUME NEW j \in Slots, Queued(j), j # block_buffer_tail, Lowered(j)'
        PROVE  block_buffer'[j].entry_speed <= block_buffer[j].max_entry_speed
    <3>1. CASE j = i
      BY <1>4, <2>1, <2>2, <3>1
    <3>2. CASE j # i
      <4>1. Lowered(j)' => \/ Offset(j) <= Offset(block_buffer_planned)
                          \/ Offset(j) >= Offset(i)
        <5>1. Offset(block_buffer_planned)' = Offset(block_buffer_planned)
              /\ Offset(current)' = Offset(i)
          BY <1>2, <2>1 DEF Offset
        <5>2. Offset(j)' = Offset(j)
          BY <1>3
        <5>. QED BY <1>4, <5>1, <5>2 DEF Lowered
      <4>2. Lowered(j)
        BY <1>4, <2>2, <3>2, <4>1 DEF Lowered
      <4>. QED BY <2>1, <2>2, <3>2, <4>2 DEF JInv
    <3>. QED BY <3>1, <3>2
  <2>. QED BY <1>2, <2>1, <2>2, JInvQueueKept DEF Replanned
<1>5. CASE Recalculate
  <2>. DEFINE last == plan_prev_block_index(block_buffer_head)
              speed == AtMost(block_buffer[last].max_entry_speed,
                              block_buffer[last].millimeters)
  <2>1. /\ last \in Slots
        /\ \A j \in Slots : Queued(j) => Offset(j) <= Offset(last)
    BY <1>1, IndexFacts, EndFacts
  <2>2. CASE last = block_buffer_planned
    <3>1. block_buffer' = block_buffer
      BY <1>5, <2>2 DEF Recalculate
    <3>2. ASSUME NEW j \in Slots, Queued(j), j # block_buffer_tail
          PROVE  block_buffer[j].entry_speed <= block_buffer[j].max_entry_speed
      BY <2>1, <2>2, <3>2 DEF JInv, Lowered
    <3>. QED BY <1>2, <3>1, <3>2, JInvQueueKept
  <2>3. CASE last # block_buffer_planned
    <3>1. /\ block_buffer[last].max_entry_speed \in Nat
          /\ block_buffer[last].millimeters \in Nat
      BY <1>1, <2>1 DEF Block
    <3>2. speed \in Nat /\ speed <= block_buffer[last].max_entry_speed
      BY <3>1 DEF AtMost
    <3>3. ReverseStep(last, speed) /\ pc' = "reverse"
      BY <1>5, <2>3 DEF Recalculate
    <3>4. ASSUME NEW j \in Slots, Queued(j), j # last PROVE ~(Offset(j) >= Offset(last))
      <4>1. Offset(j) <= Offset(last) /\ Offset(j) # Offset(last)
        BY <1>1, <2>1, <3>4, OffsetInjective
      <4>2. Offset(j) \in Nat /\ Offset(last) \in Nat
        BY <1>3, <2>1
      <4>. HIDE DEF last
      <4>. QED BY <4>1, <4>2
    <3>. HIDE DEF last, speed
    <3>. QED BY <1>4, <2>1, <3>2, <3>3, <3>4
  <2>. QED BY <2>2, <2>3
<1>6. CASE ReversePass
  <2>. DEFINE i == plan_prev_block_index(current)
  <2>1. i \in Slots
    BY <1>1, IndexFacts
  <2>2. /\ block_buffer[i].max_entry_speed \in Nat
        /\ block_buffer[i].entry_speed \in Nat /\ block_buffer[i].millimeters \in Nat
        /\ block_buffer[current].entry_speed \in Nat
    BY <1>1, <2>1 DEF Block
  <2>3. /\ ReverseSpeed(i) \in Nat
        /\ ReverseSpeed(i) <= block_buffer[i].max_entry_speed
    BY <2>2 DEF ReverseSpeed, AtMost
  <2>4. ReverseStep(i, ReverseSpeed(i)) /\ pc = "reverse" /\ pc' = "reverse"
    BY <1>6 DEF ReversePass
  <2>5. ASSUME NEW j \in Slots, Queued(j), j # block_buffer_tail, j # i,
               Offset(j) >= Offset(i)
        PROVE  Lowered(j)
    <3>1. Queued(block_buffer_planned)
      <4>1. SUFFICES ASSUME Stray PROVE FALSE
        BY <1>1 DEF PInv
      <4>2. \A k \in Slots : Queued(k) => k = block_buffer_tail
        BY <1>1, <4>1, SizeFacts
           DEF Stray, plan_next_block_index, Queued, Offset, Count, Slots, Ends
      <4>. QED BY <2>5, <4>2
    <3>2. Queued(current) /\ Offset(current) > Offset(block_buffer_planned)
      BY <2>4, <3>1 DEF PInv
    <3>3. /\ Offset(block_buffer_tail) = 0 /\ Offset(block_buffer_planned) \in Nat
      BY <1>1, <1>3, EndFacts
    <3>4. current # block_buffer_tail
      BY <3>2, <3>3
    <3>5. Offset(i) = Offset(current) - 1
      BY <1>1, <3>2, <3>4, Neighbours
    <3>6. Offset(j) # Offset(i) /\ Offset(j) \in Nat /\ Offset(current) \in Nat
      BY <1>1, <1>3, <2>1, <2>5, OffsetInjective
    <3>. HIDE DEF i
    <3>7. Offset(j) >= Offset(current)
      BY <2>5, <3>5, <3>6
    <3>. QED BY <2>4, <3>7 DEF Lowered
  <2>. HIDE DEF i
  <2>. QED BY <1>4, <2>1, <2>3, <2>4, <2>5
<1>. QED BY <1>5, <1>6

(* The forward pass starts when every block is lowered, and raises none. *)
LEMMA JInvForward ==
  ASSUME TInv, PInv, JInv, StartForward \/ ForwardPass \/ EndForward
  PROVE  JInv'
<1>1. /\ TypeOK /\ Ends /\ block_buffer \in [Slots -> Block]
      /\ block_buffer_tail \in Slots /\ block_buffer_planned \in Slots
      /\ current \in Slots /\ ~IsEmpty
  BY EndsTyped DEF TInv, TypeOK, StartForward, ForwardPass, EndForward
<1>2. UNCHANGED <<indices, previous_nominal_speed, f_override, r_override>>
  BY DEF StartForward, ForwardPass, EndForward, RecalculateSame, overrides
<1>3. ASSUME NEW j \in Slots, Queued(j), j # block_buffer_tail
      PROVE  Lowered(j)
  <2>1. CASE ForwardPass \/ EndForward
    BY <2>1 DEF Lowered, ForwardPass, EndForward
  <2>2. CASE StartForward
    <3>1. pc = "reverse" /\ plan_prev_block_index(current) = block_buffer_planned
      BY <2>2 DEF StartForward
    <3>2. Queued(block_buffer_planned)
      <4>1. SUFFICES ASSUME Stray PROVE FALSE
        BY <1>1 DEF PInv
      <4>2. \A k \in Slots : Queued(k) => k = block_buffer_tail
        BY <1>1, <4>1, SizeFacts
           DEF Stray, plan_next_block_index, Queued, Offset, Count, Slots, Ends
      <4>. QED BY <1>3, <4>2
    <3>3. Queued(current) /\ Offset(current) > Offset(block_buffer_planned)
      BY <3>1, <3>2 DEF PInv
    <3>4. /\ Offset(block_buffer_tail) = 0 /\ Offset(block_buffer_planned) \in Nat
          /\ Offset(current) \in Nat /\ Offset(j) \in Nat
      BY <1>1, EndFacts, OffsetInjective
    <3>5. current # block_buffer_tail
      BY <3>3, <3>4
    <3>6. Offset(block_buffer_planned) = Offset(current) - 1
      BY <1>1, <3>1, <3>3, <3>5, Neighbours
    <3>7. Offset(j) <= Offset(block_buffer_planned) \/ Offset(j) >= Offset(current)
      BY <3>4, <3>6
    <3>. QED BY <3>1, <3>7 DEF Lowered
  <2>. QED BY <2>1, <2>2
<1>4. /\ Replanned(block_buffer, block_buffer')
      /\ \A j \in Slots : block_buffer'[j].entry_speed <= block_buffer[j].entry_speed
  <2>1. \A j \in Slots : /\ block_buffer[j].entry_speed \in Nat
                          /\ block_buffer[j].millimeters \in Nat
    BY <1>1 DEF Block
  <2>2. CASE StartForward \/ EndForward
    <3>1. block_buffer' = block_buffer
      BY <2>2 DEF StartForward, EndForward
    <3>. QED BY <1>1, <2>1, <3>1 DEF Replanned
  <2>3. CASE ForwardPass
    <3>. DEFINE n == plan_next_block_index(current)
                b == block_buffer[current]
                speed == AtMost(b.entry_speed + b.millimeters,
                                block_buffer[n].entry_speed)
    <3>1. n \in Slots
      BY <1>1, IndexFacts
    <3>2. speed \in Nat /\ speed <= block_buffer[n].entry_speed
      BY <1>1, <2>1, <3>1 DEF AtMost
    <3>3. block_buffer' = [block_buffer EXCEPT ![n].entry_speed = speed]
      BY <2>3 DEF ForwardPass
    <3>. HIDE DEF n, speed
    <3>4. /\ Replanned(block_buffer, block_buffer')
          /\ block_buffer'[n].entry_speed = speed
          /\ \A j \in Slots : j # n => block_buffer'[j] = block_buffer[j]
      BY <1>1, <3>1, <3>2, <3>3, SetEntryFacts
    <3>5. ASSUME NEW j \in Slots
          PROVE  block_buffer'[j].entry_speed <= block_buffer[j].entry_speed
      BY <2>1, <3>2, <3>4
    <3>. QED BY <3>4, <3>5
  <2>. QED BY <2>2, <2>3
<1>5. ASSUME NEW j \in Slots, Queued(j), j # block_buffer_tail
      PROVE  block_buffer'[j].entry_speed <= block_buffer[j].max_entry_speed
  <2>1. block_buffer[j].entry_speed <= block_buffer[j].max_entry_speed
    BY <1>3, <1>5 DEF JInv
  <2>2. block_buffer[j] \in Block /\ block_buffer'[j] \in Block
    BY <1>1, <1>4 DEF Replanned
  <2>. QED BY <1>4, <2>1, <2>2 DEF Block
<1>. QED BY <1>2, <1>4, <1>5, JInvQueueKept DEF Replanned

(* An override sets every limit anew. *)
LEMMA JInvOverride ==
  ASSUME TInv, NEW f \in FeedOverrides, NEW r \in RapidOverrides, Override(f, r)
  PROVE  JInv'
<1>. DEFINE new == UpdatedProfiles(f, r)
            prev(i) == plan_prev_block_index(i)
<1>1. /\ TypeOK /\ Ends /\ block_buffer_tail \in Slots /\ block_buffer_head \in Slots
      /\ f_override' = f /\ r_override' = r /\ pc' = "recalculate"
      /\ UNCHANGED indices
      /\ block_buffer_tail' = block_buffer_tail /\ block_buffer_head' = block_buffer_head
      /\ block_buffer_planned' = block_buffer_tail
      /\ block_buffer' = UpdateTail(new)
  BY EndsTyped DEF TInv, TypeOK, Override, Reinitialize, indices
<1>2. /\ new \in [Slots -> Block]
      /\ \A i \in Slots :
           /\ new[i].rapid = block_buffer[i].rapid
           /\ new[i].max_junction_speed = block_buffer[i].max_junction_speed
           /\ Queued(i) /\ i # block_buffer_tail =>
                new[i].max_entry_speed =
                  MaxEntrySpeed(NominalSpeed(block_buffer[i], f, r),
                    NominalSpeed(block_buffer[prev(i)], f, r),
                    block_buffer[i].max_junction_speed)
  BY <1>1, UpdatedProfilesFacts
<1>. HIDE DEF new
<1>3. Replanned(new, block_buffer')
  BY <1>1, <1>2, UpdateTailFacts
<1>4. /\ IsEmpty' <=> IsEmpty
      /\ \A i \in Slots : (Queued(i)' <=> Queued(i)) /\ Offset(i)' = Offset(i)
  BY <1>1, QueueKept
<1>5. \A i \in Slots : NominalSpeed(block_buffer'[i], f, r) = NominalSpeed(block_buffer[i], f, r)
  BY <1>2, <1>3, NominalByRapid DEF Replanned
<1>6. ~IsEmpty => previous_nominal_speed' =
                    NominalSpeed(block_buffer'[prev(block_buffer_head)], f, r)
  <2>1. prev(block_buffer_head) \in Slots
    BY <1>1, IndexFacts
  <2>. QED BY <1>5, <2>1 DEF Override
<1>7. ASSUME NEW i \in Slots, Queued(i)', i # block_buffer_tail'
      PROVE  /\ block_buffer'[i].max_entry_speed =
                  MaxEntrySpeed(NominalSpeed(block_buffer'[i], f, r),
                    NominalSpeed(block_buffer'[prev(i)], f, r),
                    block_buffer'[i].max_junction_speed)
             /\ ~Lowered(i)'
  <2>1. Queued(i) /\ i # block_buffer_tail /\ prev(i) \in Slots
    BY <1>1, <1>4, <1>7, IndexFacts
  <2>2. ~Lowered(i)'
    <3>1. Offset(block_buffer_planned)' = 0
      BY <1>1, SizeFacts DEF Offset, Slots
    <3>2. Offset(i)' = Offset(i) /\ Offset(i) \in Nat /\ Offset(i) # 0
      <4>1. Offset(block_buffer_tail) = 0
        BY <1>1, SizeFacts DEF Offset, Slots
      <4>. QED BY <1>1, <1>4, <2>1, <4>1, OffsetInjective
    <3>. QED BY <1>1, <3>1, <3>2 DEF Lowered
  <2>. QED BY <1>2, <1>3, <1>5, <2>1, <2>2 DEF Replanned
<1>. QED BY <1>1, <1>4, <1>6, <1>7 DEF JInv

(* The discarded block was the tail: no other limit depended on it but that of
   the block that is the tail now. *)
LEMMA JInvPrepSegment ==
  ASSUME TInv, JInv, PrepSegment
  PROVE  JInv'
<1>. DEFINE t == block_buffer_tail
            left == TailBlock.millimeters - 1
<1>1. /\ Ends /\ block_buffer \in [Slots -> Block] /\ t \in Slots
      /\ block_buffer_head \in Slots /\ ~IsEmpty
      /\ pc = "idle" /\ pc' = "idle"
      /\ block_buffer_head' = block_buffer_head
      /\ next_buffer_head' = next_buffer_head
      /\ UNCHANGED <<previous_nominal_speed, f_override, r_override>>
  BY EndsTyped DEF TInv, TypeOK, PrepSegment, overrides
<1>2. CASE left > 0
  <2>1. /\ block_buffer' = [block_buffer EXCEPT ![t].millimeters = left]
        /\ block_buffer_tail' = block_buffer_tail
    BY <1>2 DEF PrepSegment
  <2>. HIDE DEF left
  <2>2. \A i \in Slots :
          /\ block_buffer'[i].rapid = block_buffer[i].rapid
          /\ block_buffer'[i].max_junction_speed = block_buffer[i].max_junction_speed
          /\ block_buffer'[i].max_entry_speed = block_buffer[i].max_entry_speed
          /\ block_buffer'[i].entry_speed = block_buffer[i].entry_speed
    BY <1>1, <2>1 DEF Block
  <2>3. \A i \in Slots : Queued(i) /\ i # block_buffer_tail =>
          block_buffer'[i].entry_speed <= block_buffer[i].max_entry_speed
    BY <1>1, <2>2 DEF JInv, Lowered
  <2>4. UNCHANGED <<indices, previous_nominal_speed, f_override, r_override>>
    BY <1>1, <2>1 DEF indices
  <2>. QED BY <2>2, <2>3, <2>4, JInvQueueKept
<1>3. CASE ~(left > 0)
  <2>1. /\ block_buffer' = [block_buffer EXCEPT ![t] = NoBlock]
        /\ block_buffer_tail' = plan_next_block_index(t)
    BY <1>3 DEF PrepSegment
  <2>2. \A i \in Slots : i # t => block_buffer'[i] = block_buffer[i]
    BY <1>1, <2>1
  <2>3. ~IsEmpty' => previous_nominal_speed' =
          NominalSpeed(block_buffer'[plan_prev_block_index(block_buffer_head')],
                       f_override', r_override')
    <3>1. SUFFICES ASSUME ~IsEmpty' PROVE plan_prev_block_index(block_buffer_head) # t
      BY <1>1, <2>2, IndexFacts DEF JInv
    <3>2. plan_next_block_index(t) # block_buffer_head
      BY <1>1, <2>1, <3>1 DEF IsEmpty
    <3>. QED BY <1>1, <3>2, IndexFacts
  <2>4. ASSUME NEW i \in Slots, Queued(i)', i # block_buffer_tail'
        PROVE  /\ Queued(i) /\ i # t
               /\ block_buffer'[i] = block_buffer[i]
               /\ block_buffer'[plan_prev_block_index(i)] =
                    block_buffer[plan_prev_block_index(i)]
    <3>1. Queued(i) /\ i # t
      BY <1>1, <2>1, <2>4, QueueAfterDiscard
    <3>2. plan_prev_block_index(i) # t /\ plan_prev_block_index(i) \in Slots
      BY <1>1, <2>1, <2>4, IndexFacts
    <3>. QED BY <2>2, <3>1, <3>2
  <2>. HIDE DEF t
  <2>5. \A i \in Slots : Lowered(i)
    BY <1>1 DEF Lowered
  <2>. QED BY <1>1, <2>3, <2>4, <2>5 DEF JInv, t
<1>. QED BY <1>2, <1>3

(* Every step keeps JInv. *)
LEMMA JInvStep == TInv /\ PInv /\ JInv /\ [Next]_vars => JInv'
<1>. SUFFICES ASSUME TInv, PInv, JInv, [Next]_vars PROVE JInv'
  OBVIOUS
<1>1. TInv'
  BY TInvStep
<1>2. /\ TypeOK /\ Ends /\ block_buffer \in [Slots -> Block]
      /\ block_buffer_tail \in Slots
  BY EndsTyped DEF TInv, TypeOK
<1>3. ASSUME pc = "idle",
             UNCHANGED <<indices, previous_nominal_speed, f_override, r_override>>,
             Replanned(block_buffer, block_buffer'),
             \A i \in Slots : i # block_buffer_tail => block_buffer'[i] = block_buffer[i]
      PROVE  JInv'
  <2>1. \A i \in Slots : Queued(i) /\ i # block_buffer_tail =>
          block_buffer'[i].entry_speed <= block_buffer[i].max_entry_speed
    BY <1>3 DEF JInv, Lowered
  <2>. QED BY <1>3, <2>1, JInvQueueKept DEF Replanned
<1>4. CASE RecalculateEmpty \/ Reset
  <2>1. IsEmpty'
    BY <1>4 DEF RecalculateEmpty, Reset, RecalculateSame, indices, IsEmpty
  <2>2. ASSUME RecalculateEmpty PROVE (\A i \in Slots : ~Queued(i))'
    <3>1. \A i \in Slots : ~Queued(i)
      BY <1>2, <2>2, SizeFacts
         DEF RecalculateEmpty, Ends, Slots, IsEmpty, Queued, Offset, Count
    <3>. QED BY <2>2, <3>1, QueueKept DEF RecalculateEmpty, RecalculateSame
  <2>3. (\A i \in Slots : ~Queued(i))'
    <3>1. CASE Reset
      BY <3>1, SizeFacts DEF Reset, Slots, Queued, Offset, Count
    <3>. QED BY <1>4, <2>2, <3>1
  <2>. QED BY <2>1, <2>3 DEF JInv
<1>5. CASE CycleStart \/ CycleStop
  <2>1. /\ pc = "idle"
        /\ UNCHANGED <<indices, previous_nominal_speed, f_override, r_override, block_buffer>>
    BY <1>5 DEF CycleStart, CycleStop, planner, overrides
  <2>. QED BY <1>2, <1>3, <2>1 DEF Replanned
<1>6. CASE FeedHold \/ HoldStop
  <2>1. /\ pc = "idle"
        /\ UNCHANGED <<indices, previous_nominal_speed, f_override, r_override>>
        /\ block_buffer' = UpdateTail(block_buffer)
    BY <1>6 DEF FeedHold, HoldStop, Reinitialize, overrides
  <2>. QED BY <1>2, <1>3, <2>1, UpdateTailFacts
<1>7. CASE PrepLoad
  <2>. DEFINE entry == IF ~recalculate /\ (hold \/ decelOverride)
                       THEN exit_speed ELSE TailBlock.entry_speed
  <2>1. /\ pc = "idle"
        /\ UNCHANGED <<indices, previous_nominal_speed, f_override, r_override>>
        /\ block_buffer' = [block_buffer EXCEPT ![block_buffer_tail].entry_speed = entry]
    BY <1>7 DEF PrepLoad, overrides
  <2>2. entry \in Nat
    BY <1>2 DEF TypeOK, TailBlock, Block
  <2>. HIDE DEF entry
  <2>. QED BY <1>2, <1>3, <2>1, <2>2, SetEntryFacts
<1>8. CASE UNCHANGED vars
  <2>1. /\ UNCHANGED <<indices, previous_nominal_speed, f_override, r_override,
                       block_buffer, block_buffer_planned, pc, current>>
    BY <1>8 DEF vars, planner, overrides
  <2>2. \A i \in Slots : Lowered(i)' => Lowered(i)
    BY <2>1 DEF Lowered, Offset, indices
  <2>. QED BY <2>1, <2>2, JInvQueueKept DEF JInv
<1>9. CASE Next
  BY <1>1, <1>4, <1>5, <1>6, <1>7, <1>9, JInvLine, JInvReverse, JInvForward,
     JInvOverride, JInvPrepSegment DEF Next, planner_recalculate, st_prep_buffer
<1>. QED BY <1>8, <1>9

(* Whenever the planner is at rest, every planned junction respects its angle
   and the nominal speeds on both sides under the overrides of now. *)
THEOREM JunctionsAreRespected == Spec => []JunctionsRespected
<1>1. Init => JInv
  <2>1. Init => \A i \in Slots : ~Queued(i)
    BY SizeFacts DEF Init, Slots, Queued, Offset, Count
  <2>. QED BY <2>1 DEF Init, JInv, IsEmpty
<1>2. Init => PInv
  BY DEF Init, PInv, IsEmpty
<1>3. TInv /\ JInv => JunctionsRespected
  <2>. SUFFICES ASSUME TInv, JInv, Settled, NEW i \in Slots, Queued(i),
                       i # block_buffer_tail
                PROVE  block_buffer[i].entry_speed <=
                         AtMost(block_buffer[i].max_junction_speed,
                           AtMost(NominalSpeed(block_buffer[i], f_override, r_override),
                             NominalSpeed(block_buffer[plan_prev_block_index(i)],
                                          f_override, r_override)))
    BY DEF JunctionsRespected
  <2>. DEFINE n == NominalSpeed(block_buffer[i], f_override, r_override)
              p == NominalSpeed(block_buffer[plan_prev_block_index(i)],
                                f_override, r_override)
              j == block_buffer[i].max_junction_speed
  <2>1. n \in Nat /\ p \in Nat
    BY NominalTyped DEF TInv, TypeOK
  <2>2. /\ block_buffer[i].entry_speed \in Nat /\ j \in Nat
        /\ block_buffer[i].max_entry_speed \in Nat
    BY DEF TInv, TypeOK, Block
  <2>3. /\ block_buffer[i].entry_speed <= block_buffer[i].max_entry_speed
        /\ block_buffer[i].max_entry_speed = MaxEntrySpeed(n, p, j)
    BY DEF JInv, Settled, Lowered
  <2>. HIDE DEF n, p, j
  <2>. QED
    <3>1. /\ MaxEntrySpeed(n, p, j) <= AtMost(j, AtMost(n, p))
          /\ AtMost(j, AtMost(n, p)) \in Nat
      BY <2>1, <2>2, MaxEntryFacts DEF AtMost
    <3>2. block_buffer[i].entry_speed <= AtMost(j, AtMost(n, p))
      BY <2>2, <2>3, <3>1
    <3>. QED BY <3>2 DEF n, p, j
<1>. QED BY TInvInit, TInvStep, PInvStep, JInvStep, <1>1, <1>2, <1>3, PTL DEF Spec

-----------------------------------------------------------------------------
(* What the stepper knows.                                                 *)

(* The exit speed of the profile in execution is the planned one in the middle
   of a recalculation too: the reverse pass takes the block from the stepper
   when it comes to the entry of the one after it, and the forward pass gets
   to that entry only from the tail, hence after such a reverse pass.  A hold
   ends with its cycle, and its block is loaded again. *)
SInv ==
  /\ hold => cycle
  /\ pc = "reverse" /\ ReachedTail(current) => ~loaded
  /\ pc = "forward" /\ current = block_buffer_tail => ~loaded
  /\ loaded /\ ~hold /\ ~decelOverride => exit_speed = PlannedExit

(* The planned exit speed is the entry speed of the block after the tail. *)
LEMMA ExitKept ==
  ASSUME block_buffer_tail' = block_buffer_tail,
         block_buffer_head' = block_buffer_head,
         LET n == plan_next_block_index(block_buffer_tail)
         IN block_buffer'[n].entry_speed = block_buffer[n].entry_speed
  PROVE  PlannedExit' = PlannedExit
BY DEF PlannedExit

(* A step that leaves the pass where it is, or ends it, and that takes the
   block from the stepper or leaves it its speeds. *)
LEMMA SInvKept ==
  ASSUME TInv, SInv, UNCHANGED indices, pc' \in {"idle", "recalculate"},
         hold' => cycle',
         \/ ~loaded'
         \/ /\ UNCHANGED <<loaded, decelOverride, exit_speed>>
            /\ hold' = hold \/ ~cycle
            /\ \A i \in Slots : i # block_buffer_tail =>
                 block_buffer'[i].entry_speed = block_buffer[i].entry_speed
  PROVE  SInv'
<1>1. CASE ~loaded'
  BY <1>1 DEF SInv
<1>2. CASE ~(~loaded')
  <2>1. /\ UNCHANGED <<loaded, decelOverride, exit_speed>>
        /\ hold' = hold \/ ~cycle
        /\ \A i \in Slots : i # block_buffer_tail =>
             block_buffer'[i].entry_speed = block_buffer[i].entry_speed
    BY <1>2
  <2>2. /\ plan_next_block_index(block_buffer_tail) \in Slots
        /\ plan_next_block_index(block_buffer_tail) # block_buffer_tail
    BY IndexFacts DEF TInv, TypeOK
  <2>3. PlannedExit' = PlannedExit
    BY <2>1, <2>2, ExitKept DEF indices
  <2>4. ~hold' => ~hold
    BY <2>1 DEF SInv
  <2>. QED BY <2>1, <2>3, <2>4 DEF SInv
<1>. QED BY <1>1, <1>2

(* A new line after the block in execution is planned to be entered at rest,
   until its recalculation. *)
LEMMA SInvLine ==
  ASSUME TInv, SInv, NEW mm \in Lengths, NEW rapid \in BOOLEAN,
         NEW junction \in Junctions, PlanBufferLine(mm, rapid, junction)
  PROVE  SInv'
<1>. DEFINE n == plan_next_block_index(block_buffer_tail)
            h == block_buffer_head
<1>1. /\ h \in Slots /\ block_buffer_tail \in Slots /\ n \in Slots
      /\ block_buffer \in [Slots -> Block]
  BY IndexFacts DEF TInv, TypeOK
<1>2. /\ pc' = "recalculate" /\ block_buffer_tail' = block_buffer_tail
      /\ block_buffer_head' = plan_next_block_index(h)
      /\ UNCHANGED <<loaded, decelOverride, exit_speed, cycle, hold>>
  BY DEF PlanBufferLine, prep, TInv
<1>3. block_buffer'[h].entry_speed = 0
  BY <1>1 DEF PlanBufferLine, NoBlock
<1>4. \A i \in Slots : i # h => block_buffer'[i] = block_buffer[i]
  BY <1>1 DEF PlanBufferLine
<1>5. n' = n
  BY <1>2 DEF plan_next_block_index
<1>6. loaded => PlannedExit' = PlannedExit
  <2>. SUFFICES ASSUME loaded PROVE PlannedExit' = PlannedExit
    OBVIOUS
  <2>1. block_buffer_tail # h
    BY DEF TInv, IsEmpty
  <2>2. n # block_buffer_head'
    BY <1>1, <1>2, <2>1, IndexFacts
  <2>3. PlannedExit' = block_buffer'[n].entry_speed
    BY <1>5, <2>2 DEF PlannedExit
  <2>4. CASE n = h
    BY <1>3, <2>3, <2>4 DEF PlannedExit
  <2>5. CASE n # h
    BY <1>1, <1>4, <2>3, <2>5 DEF PlannedExit
  <2>. QED BY <2>4, <2>5
<1>. QED BY <1>2, <1>6 DEF SInv

(* A step of the reverse pass. *)
LEMMA SInvReverse ==
  ASSUME TInv, SInv, UNCHANGED indices, pc' = "reverse",
         NEW i \in Slots, NEW speed \in Nat, ReverseStep(i, speed)
  PROVE  SInv'
<1>. DEFINE n == plan_next_block_index(block_buffer_tail)
<1>1. /\ block_buffer_tail \in Slots /\ n \in Slots /\ n # block_buffer_tail
      /\ TypeOK
  BY IndexFacts DEF TInv, TypeOK
<1>2. /\ \A j \in Slots : j # i /\ j # block_buffer_tail
                             => block_buffer'[j] = block_buffer[j]
      /\ loaded' => loaded
      /\ current' = i
      /\ UNCHANGED <<decelOverride, exit_speed, cycle, hold>>
  BY <1>1, ReverseStepFacts
<1>3. ReachedTail(i) => ~loaded'
  BY DEF ReverseStep, NotifyStepper
<1>4. ReachedTail(current)' <=> ReachedTail(i)
  BY <1>2 DEF ReachedTail, plan_prev_block_index, indices
<1>5. i = n => ReachedTail(i)
  BY <1>1, IndexFacts DEF ReachedTail
<1>6. i # n => PlannedExit' = PlannedExit
  BY <1>1, <1>2, ExitKept DEF indices
<1>. QED BY <1>2, <1>3, <1>4, <1>5, <1>6 DEF SInv

LEMMA SInvReversePass ==
  ASSUME TInv, SInv, Recalculate \/ ReversePass
  PROVE  SInv'
<1>1. CASE Recalculate
  <2>. DEFINE last == plan_prev_block_index(block_buffer_head)
              b == block_buffer[last]
  <2>1. last \in Slots /\ b \in Block
    BY IndexFacts DEF TInv, TypeOK
  <2>2. AtMost(b.max_entry_speed, b.millimeters) \in Nat
    BY <2>1 DEF AtMost, Block
  <2>3. UNCHANGED indices
    BY <1>1 DEF Recalculate, RecalculateSame
  <2>4. CASE last = block_buffer_planned
    BY <1>1, <2>3, <2>4, SInvKept DEF Recalculate, prep, SInv
  <2>5. CASE last # block_buffer_planned
    BY <1>1, <2>1, <2>2, <2>3, <2>5, SInvReverse DEF Recalculate
  <2>. QED BY <2>4, <2>5
<1>2. CASE ReversePass
  <2>. DEFINE i == plan_prev_block_index(current)
  <2>1. i \in Slots /\ current \in Slots /\ block_buffer \in [Slots -> Block]
    BY IndexFacts DEF TInv, TypeOK
  <2>2. ReverseSpeed(i) \in Nat
    <3>1. block_buffer[i] \in Block /\ block_buffer[current] \in Block
      BY <2>1
    <3>. QED BY <3>1 DEF ReverseSpeed, AtMost, Block
  <2>. QED BY <1>2, <2>1, <2>2, SInvReverse DEF ReversePass, RecalculateSame
<1>. QED BY <1>1, <1>2

(* The forward pass from the tail on follows a reverse pass to the block after
   it, and later the pass does not come back. *)
LEMMA SInvForward ==
  ASSUME TInv, PInv, SInv, StartForward \/ ForwardPass
  PROVE  SInv'
<1>1. CASE StartForward
  <2>1. /\ UNCHANGED <<indices, block_buffer, prep>>
        /\ pc = "reverse" /\ pc' = "forward"
        /\ current' = plan_prev_block_index(current)
    BY <1>1 DEF StartForward, RecalculateSame
  <2>2. PlannedExit' = PlannedExit
    BY <2>1, ExitKept DEF indices
  <2>3. current' = block_buffer_tail => ~loaded
    BY <2>1 DEF SInv, ReachedTail
  <2>. QED BY <2>1, <2>2, <2>3 DEF SInv, prep, indices
<1>2. CASE ForwardPass
  <2>. DEFINE n == plan_next_block_index(block_buffer_tail)
              m == plan_next_block_index(current)
  <2>1. /\ UNCHANGED <<indices, prep>> /\ pc = "forward" /\ pc' = "forward"
        /\ current' = m /\ m # block_buffer_head
        /\ \A j \in Slots : j # m => block_buffer'[j] = block_buffer[j]
    BY <1>2 DEF ForwardPass, RecalculateSame, TInv, TypeOK
  <2>2. /\ Ends /\ current \in Slots /\ block_buffer_tail \in Slots
        /\ n \in Slots
    BY EndsTyped, IndexFacts DEF TInv, TypeOK
  <2>3. CASE ~loaded
    BY <2>1, <2>3 DEF SInv, prep
  <2>4. CASE loaded
    <3>1. ~IsEmpty /\ Queued(current)
      BY <2>1, <2>4 DEF TInv, PInv, Stray
    <3>2. Offset(m) = Offset(current) + 1 /\ Offset(current) \in Nat
      BY <2>1, <2>2, <3>1, Neighbours, OffsetInjective
    <3>3. Offset(block_buffer_tail) = 0
      BY <2>2, <3>1, EndFacts
    <3>4. m # block_buffer_tail
      BY <3>2, <3>3
    <3>5. current # block_buffer_tail
      BY <2>1, <2>4 DEF SInv
    <3>6. m # n
      BY <2>2, <3>5, IndexFacts
    <3>7. PlannedExit' = PlannedExit
      BY <2>1, <2>2, <3>6, ExitKept DEF indices
    <3>. QED BY <2>1, <3>4, <3>7 DEF SInv, prep, indices
  <2>. QED BY <2>3, <2>4
<1>. QED BY <1>1, <1>2

(* A block that is loaded gets the planned exit speed, unless it is to slow
   down for a hold or an override; one that is used up is not loaded. *)
LEMMA SInvPrep ==
  ASSUME TInv, SInv, PrepLoad \/ PrepSegment
  PROVE  SInv'
<1>. DEFINE n == plan_next_block_index(block_buffer_tail)
<1>1. /\ block_buffer_tail \in Slots /\ n \in Slots /\ n # block_buffer_tail
      /\ block_buffer \in [Slots -> Block]
  BY IndexFacts DEF TInv, TypeOK
<1>2. CASE PrepLoad
  <2>1. /\ UNCHANGED <<indices, cycle, hold>> /\ cycle /\ pc' = "idle"
        /\ ~hold' /\ ~decelOverride' => exit_speed' = PlannedExit
        /\ block_buffer'[n] = block_buffer[n]
    BY <1>1, <1>2 DEF PrepLoad
  <2>2. PlannedExit' = PlannedExit
    BY <2>1, ExitKept DEF indices
  <2>. QED BY <2>1, <2>2 DEF SInv
<1>3. CASE PrepSegment
  <2>1. /\ UNCHANGED <<decelOverride, exit_speed, cycle, hold>> /\ pc' = "idle"
        /\ block_buffer_head' = block_buffer_head
        /\ block_buffer'[n] = block_buffer[n]
        /\ ~loaded' \/ (loaded' = loaded /\ block_buffer_tail' = block_buffer_tail)
    BY <1>1, <1>3 DEF PrepSegment
  <2>2. CASE ~loaded'
    BY <2>1, <2>2 DEF SInv
  <2>3. CASE loaded' = loaded /\ block_buffer_tail' = block_buffer_tail
    BY <2>1, <2>3, ExitKept DEF SInv
  <2>. QED BY <2>1, <2>2, <2>3
<1>. QED BY <1>2, <1>3

LEMMA SInvStep == TInv /\ PInv /\ SInv /\ [Next]_vars => SInv'
<1>. SUFFICES ASSUME TInv, PInv, SInv, [Next]_vars PROVE SInv'
  OBVIOUS
<1>1. CASE RecalculateEmpty \/ EndForward
  <2>1. UNCHANGED <<indices, block_buffer, prep>> /\ pc' = "idle"
    BY <1>1 DEF RecalculateEmpty, EndForward, RecalculateSame
  <2>. QED BY <2>1, SInvKept DEF prep, SInv
<1>2. CASE CycleStart \/ CycleStop
  <2>1. /\ UNCHANGED <<indices, block_buffer, pc, loaded, decelOverride, exit_speed>>
        /\ pc = "idle" /\ (hold' => cycle') /\ (hold' = hold \/ ~cycle)
    BY <1>2 DEF CycleStart, CycleStop, planner
  <2>. QED BY <2>1, SInvKept
<1>3. CASE FeedHold \/ HoldStop
           \/ \E f \in FeedOverrides, r \in RapidOverrides : Override(f, r)
  <2>1. /\ UNCHANGED indices /\ pc' \in {"idle", "recalculate"} /\ ~loaded'
        /\ hold' => cycle'
    BY <1>3 DEF FeedHold, HoldStop, Override, Reinitialize, NotifyStepper, SInv
  <2>. QED BY <2>1, SInvKept
<1>4. CASE Reset
  BY <1>4 DEF Reset, SInv
<1>5. CASE UNCHANGED vars
  <2>1. UNCHANGED <<indices, block_buffer, pc, current, prep>>
    BY <1>5 DEF vars, planner
  <2>. QED BY <2>1, ExitKept
          DEF SInv, prep, indices, ReachedTail, plan_prev_block_index
<1>6. CASE Next
  BY <1>1, <1>2, <1>3, <1>4, <1>6, SInvLine, SInvReversePass, SInvForward,
     SInvPrep DEF Next, planner_recalculate, st_prep_buffer
<1>. QED BY <1>5, <1>6

(* Whenever the planner is at rest, the profile in execution ends at the speed
   at which the plan enters the next block, unless it slows down for a hold or
   an override. *)
THEOREM StepperAlwaysKnowsExit == Spec => []StepperKnowsExit
<1>1. Init => PInv
  BY DEF Init, PInv, IsEmpty
<1>2. Init => SInv
  BY DEF Init, SInv
<1>3. SInv => StepperKnowsExit
  BY DEF SInv, StepperKnowsExit
<1>. QED BY TInvInit, TInvStep, PInvStep, SInvStep, <1>1, <1>2, <1>3, PTL DEF Spec

-----------------------------------------------------------------------------
(* The best plan.                                                          *)

(* What the stepper carries from one block to the next, and from a block it
   gives up to the same block planned anew: its speed.  In a hold it leaves
   a block as slow as the block's length allows. *)
KInv ==
  /\ ~decelOverride
  /\ recalculate => /\ ~loaded /\ ~IsEmpty
                    /\ TailBlock.entry_speed = current_speed
  /\ ~loaded /\ ~recalculate =>
       /\ current_speed = exit_speed
       /\ IsEmpty => current_speed = 0
       /\ ~IsEmpty => current_speed <= TailBlock.entry_speed
       /\ ~IsEmpty /\ ~hold => current_speed = TailBlock.entry_speed
  /\ loaded /\ hold =>
       exit_speed = AtLeast(current_speed - TailBlock.millimeters, 0)

(* Every block can slow down in time, in the middle of the passes too, and no
   speed is above the nominal one or an entry's limit. *)
Feasible(i) ==
  /\ CanSlowDown(i)
  /\ EntryOf(i) <= NominalSpeed(block_buffer[i], f_override, r_override)
  /\ i # block_buffer_tail =>
       block_buffer[i].entry_speed <= block_buffer[i].max_entry_speed

(* The entry of a block is at its limit, or as fast as its predecessor can
   accelerate to ... *)
ReachOf(i) == LET p == plan_prev_block_index(i)
              IN EntryOf(p) + block_buffer[p].millimeters
Pushed(i) == \/ block_buffer[i].entry_speed = block_buffer[i].max_entry_speed
             \/ block_buffer[i].entry_speed = ReachOf(i)

(* ... or as fast as it can slow down from. *)
Backed(i) == \/ block_buffer[i].entry_speed = block_buffer[i].max_entry_speed
             \/ block_buffer[i].entry_speed =
                  ExitOf(i) + block_buffer[i].millimeters

(* The blocks whose plan the present recalculation, if any, leaves as it is or
   has done with. *)
Decided(i) ==
  /\ pc = "forward" => Offset(i) <= Offset(current)
  /\ pc \notin {"idle", "forward"} => Offset(i) <= Offset(block_buffer_planned)

(* The plan up to the planned pointer cannot be improved by what comes after,
   the reverse pass leaves blocks behind whose entries are backed, and the
   forward pass blocks whose entries can be reached. *)
Best(i) ==
  /\ Decided(i) => /\ Pushed(i) \/ Backed(i)
                   /\ block_buffer[i].entry_speed <= ReachOf(i)
  /\ pc = "reverse" /\ Offset(i) >= Offset(current) => Backed(i)
  /\ pc = "forward" /\ Offset(i) > Offset(current) => Backed(i)

GInv ==
  /\ Queued(block_buffer_planned) =>
       /\ block_buffer_planned # block_buffer_tail => Pushed(block_buffer_planned)
       /\ pc = "forward" => Offset(current) >= Offset(block_buffer_planned)
  /\ \A i \in Slots : Queued(i) /\ i # block_buffer_tail => Best(i)

OInv == ~slowed => /\ KInv
                   /\ \A i \in Slots : Queued(i) => Feasible(i)
                   /\ ~hold => GInv

LEMMA PlanTyped ==
  ASSUME TInv, NEW i \in Slots
  PROVE  /\ block_buffer[i].entry_speed \in Nat
         /\ block_buffer[i].max_entry_speed \in Nat
         /\ block_buffer[i].millimeters \in Nat
         /\ NominalSpeed(block_buffer[i], f_override, r_override) \in Nat
         /\ EntryOf(i) \in Nat /\ ExitOf(i) \in Nat /\ ReachOf(i) \in Nat
         /\ plan_next_block_index(i) \in Slots
         /\ plan_prev_block_index(i) \in Slots
         /\ current_speed \in Nat /\ exit_speed \in Nat
<1>1. /\ plan_next_block_index(i) \in Slots /\ plan_prev_block_index(i) \in Slots
      /\ current_speed \in Nat /\ exit_speed \in Nat
      /\ NominalSpeed(block_buffer[i], f_override, r_override) \in Nat
  BY IndexFacts, NominalTyped DEF TInv, TypeOK
<1>2. \A j \in Slots : /\ block_buffer[j].entry_speed \in Nat
                      /\ block_buffer[j].max_entry_speed \in Nat
                      /\ block_buffer[j].millimeters \in Nat
  <2>1. \A j \in Slots : block_buffer[j] \in Block
    BY DEF TInv, TypeOK
  <2>. QED BY <2>1 DEF Block
<1>3. \A j \in Slots : EntryOf(j) \in Nat
  BY <1>1, <1>2 DEF EntryOf
<1>4. ExitOf(i) \in Nat
  BY <1>1, <1>2 DEF ExitOf
<1>5. ReachOf(i) \in Nat
  BY <1>1, <1>2, <1>3 DEF ReachOf
<1>. QED BY <1>1, <1>2, <1>3, <1>4, <1>5

(* The neighbours of a queued block, and their places. *)
LEMMA InQueue ==
  ASSUME TInv, NEW i \in Slots, Queued(i)
  PROVE  LET n == plan_next_block_index(i)
             p == plan_prev_block_index(i)
         IN /\ Offset(i) \in Nat /\ ~IsEmpty
            /\ (Offset(i) = 0) = (i = block_buffer_tail)
            /\ n # block_buffer_head => /\ Queued(n) /\ n # block_buffer_tail
                                        /\ Offset(n) = Offset(i) + 1
            /\ i # block_buffer_tail => /\ Queued(p) /\ p # i
                                        /\ Offset(p) = Offset(i) - 1
<1>. DEFINE n == plan_next_block_index(i)
            p == plan_prev_block_index(i)
<1>1. Ends /\ block_buffer_tail \in Slots /\ n \in Slots /\ p \in Slots
  BY EndsTyped, IndexFacts DEF TInv, Ends
<1>2. ~IsEmpty
  BY <1>1, Neighbours
<1>3. Offset(block_buffer_tail) = 0
  BY <1>1, <1>2, EndFacts
<1>4. Offset(i) \in Nat /\ (Offset(i) = 0) = (i = block_buffer_tail)
  BY <1>1, <1>3, OffsetInjective
<1>5. n # block_buffer_head => Queued(n) /\ Offset(n) = Offset(i) + 1
  BY <1>1, Neighbours
<1>6. i # block_buffer_tail => Queued(p) /\ Offset(p) = Offset(i) - 1
  BY <1>1, Neighbours
<1>. QED BY <1>2, <1>3, <1>4, <1>5, <1>6

(* The block whose pointer strayed is alone. *)
LEMMA StrayAlone ==
  ASSUME TInv, Stray, NEW i \in Slots, Queued(i)
  PROVE  i = block_buffer_tail
<1>1. Ends
  BY EndsTyped DEF TInv
<1>. QED BY <1>1, SizeFacts DEF Stray, Ends, Slots, plan_next_block_index,
         Queued, Offset, Count

(* A block's exit and what it can be entered with at most depend on its
   neighbours' entries. *)
EntriesKept ==
  /\ UNCHANGED indices
  /\ \A i \in Slots :
       /\ block_buffer'[i].millimeters = block_buffer[i].millimeters
       /\ EntryOf(i)' = EntryOf(i)
       /\ i # block_buffer_tail =>
            block_buffer'[i].entry_speed = block_buffer[i].entry_speed

LEMMA PlanKept ==
  ASSUME TInv, EntriesKept, NEW i \in Slots, Queued(i)
  PROVE  /\ ExitOf(i)' = ExitOf(i)
         /\ CanSlowDown(i)' <=> CanSlowDown(i)
         /\ i # block_buffer_tail => ReachOf(i)' = ReachOf(i)
<1>. DEFINE n == plan_next_block_index(i)
            p == plan_prev_block_index(i)
<1>1. /\ n \in Slots /\ p \in Slots
      /\ n # block_buffer_head => n # block_buffer_tail
  BY InQueue, PlanTyped
<1>2. /\ block_buffer_head' = block_buffer_head
      /\ \A j \in Slots :
           /\ block_buffer'[j].millimeters = block_buffer[j].millimeters
           /\ EntryOf(j)' = EntryOf(j)
           /\ j # block_buffer_tail =>
                block_buffer'[j].entry_speed = block_buffer[j].entry_speed
  BY DEF EntriesKept, indices
<1>3. ExitOf(i)' = ExitOf(i)
  BY <1>1, <1>2 DEF ExitOf
<1>4. CanSlowDown(i)' <=> CanSlowDown(i)
  BY <1>2, <1>3 DEF CanSlowDown
<1>5. ReachOf(i)' = ReachOf(i)
  BY <1>1, <1>2 DEF ReachOf
<1>. QED BY <1>3, <1>4, <1>5

(* Taking the block from the stepper keeps the entries: that of the tail is now
   written down. *)
LEMMA NotifyKeepsEntries ==
  ASSUME TInv, UNCHANGED <<indices, current_speed>>, NotifyStepper,
         NEW blocks \in [Slots -> Block],
         \A i \in Slots : /\ blocks[i].millimeters = block_buffer[i].millimeters
                         /\ blocks[i].entry_speed = block_buffer[i].entry_speed,
         block_buffer' = UpdateTail(blocks)
  PROVE  /\ EntriesKept /\ Replanned(blocks, block_buffer')
         /\ loaded => block_buffer'[block_buffer_tail].entry_speed = current_speed
         /\ ~loaded => block_buffer'[block_buffer_tail].entry_speed =
                         block_buffer[block_buffer_tail].entry_speed
<1>1. TypeOK /\ block_buffer_tail \in Slots /\ current_speed \in Nat
  BY DEF TInv, TypeOK
<1>2. /\ Replanned(blocks, block_buffer')
      /\ \A j \in Slots : j # block_buffer_tail => block_buffer'[j] = blocks[j]
      /\ ~loaded => block_buffer' = blocks
  BY <1>1, UpdateTailFacts
<1>3. loaded => block_buffer'[block_buffer_tail].entry_speed = current_speed
  BY <1>1, SetEntryFacts DEF UpdateTail
<1>4. /\ ~loaded' /\ block_buffer_tail' = block_buffer_tail
      /\ UNCHANGED indices
  BY DEF NotifyStepper, indices
<1>5. ASSUME NEW i \in Slots
      PROVE  /\ block_buffer'[i].millimeters = block_buffer[i].millimeters
             /\ EntryOf(i)' = EntryOf(i)
             /\ i # block_buffer_tail =>
                  block_buffer'[i].entry_speed = block_buffer[i].entry_speed
  <2>1. block_buffer'[i].millimeters = block_buffer[i].millimeters
    BY <1>2 DEF Replanned
  <2>2. i # block_buffer_tail =>
          block_buffer'[i].entry_speed = block_buffer[i].entry_speed
    BY <1>2
  <2>3. CASE i = block_buffer_tail /\ loaded
    BY <1>3, <1>4, <2>1, <2>3 DEF EntryOf
  <2>4. CASE ~(i = block_buffer_tail /\ loaded)
    BY <1>2, <1>4, <2>1, <2>2, <2>4 DEF EntryOf
  <2>. QED BY <2>1, <2>2, <2>3, <2>4
<1>. QED BY <1>1, <1>2, <1>3, <1>4, <1>5 DEF EntriesKept

(* ... and tells the stepper to go on from its speed. *)
LEMMA KInvNotify ==
  ASSUME TInv, KInv, UNCHANGED <<indices, decelOverride, current_speed, exit_speed>>,
         NotifyStepper, hold' = hold \/ hold' \/ ~(~loaded /\ ~IsEmpty),
         loaded => block_buffer'[block_buffer_tail].entry_speed = current_speed,
         ~loaded => block_buffer'[block_buffer_tail].entry_speed =
                      block_buffer[block_buffer_tail].entry_speed
  PROVE  KInv'
<1>1. /\ ~loaded' /\ (recalculate' <=> recalculate \/ loaded)
      /\ block_buffer_tail' = block_buffer_tail /\ (IsEmpty' <=> IsEmpty)
      /\ loaded => ~IsEmpty
  BY DEF NotifyStepper, indices, IsEmpty, TInv
<1>2. TailBlock'.entry_speed = block_buffer'[block_buffer_tail].entry_speed
  BY <1>1 DEF TailBlock
<1>3. CASE loaded
  BY <1>1, <1>2, <1>3 DEF KInv
<1>4. CASE ~loaded
  <2>1. TailBlock'.entry_speed = TailBlock.entry_speed
    BY <1>2, <1>4 DEF TailBlock
  <2>2. recalculate' <=> recalculate
    BY <1>1, <1>4
  <2>. QED BY <1>1, <1>4, <2>1, <2>2 DEF KInv
<1>. QED BY <1>3, <1>4

LEMMA FeasibleKept ==
  ASSUME TInv, EntriesKept, NEW i \in Slots, Queued(i), Feasible(i),
         block_buffer'[i].max_entry_speed \in Nat,
         block_buffer[i].max_entry_speed <= block_buffer'[i].max_entry_speed
           \/ i = block_buffer_tail,
         NominalSpeed(block_buffer'[i], f_override', r_override') \in Nat,
         NominalSpeed(block_buffer[i], f_override, r_override)
           <= NominalSpeed(block_buffer'[i], f_override', r_override')
  PROVE  Feasible(i)'
<1>1. CanSlowDown(i)' /\ EntryOf(i)' = EntryOf(i)
  BY PlanKept DEF Feasible, EntriesKept
<1>2. i # block_buffer_tail =>
        block_buffer'[i].entry_speed = block_buffer[i].entry_speed
  BY DEF EntriesKept
<1>3. block_buffer_tail' = block_buffer_tail
  BY DEF EntriesKept, indices
<1>4. EntryOf(i)' <= NominalSpeed(block_buffer'[i], f_override', r_override')
  BY <1>1, PlanTyped DEF Feasible
<1>5. i # block_buffer_tail =>
        block_buffer'[i].entry_speed <= block_buffer'[i].max_entry_speed
  BY <1>2, PlanTyped DEF Feasible
<1>. QED BY <1>1, <1>3, <1>4, <1>5 DEF Feasible

LEMMA BestKept ==
  ASSUME TInv, EntriesKept, NEW i \in Slots, Queued(i), i # block_buffer_tail,
         block_buffer'[i].max_entry_speed = block_buffer[i].max_entry_speed
  PROVE  /\ Pushed(i)' <=> Pushed(i)
         /\ Backed(i)' <=> Backed(i)
         /\ block_buffer'[i].entry_speed <= ReachOf(i)' <=>
              block_buffer[i].entry_speed <= ReachOf(i)
<1>1. ExitOf(i)' = ExitOf(i) /\ ReachOf(i)' = ReachOf(i)
  BY PlanKept
<1>2. /\ block_buffer'[i].entry_speed = block_buffer[i].entry_speed
      /\ block_buffer'[i].millimeters = block_buffer[i].millimeters
  BY DEF EntriesKept
<1>. QED BY <1>1, <1>2 DEF Pushed, Backed

(* A step that changes no block, no speed and no override: what is left to say
   is which blocks it takes for decided. *)
Unmoved == UNCHANGED <<block_buffer, indices, f_override, r_override, slowed,
                       loaded, recalculate, decelOverride, current_speed,
                       exit_speed, hold>>

LEMMA OInvUnmoved ==
  ASSUME TInv, OInv, Unmoved, ~slowed /\ ~hold => GInv'
  PROVE  OInv'
<1>. SUFFICES ASSUME ~slowed
              PROVE  KInv' /\ (\A i \in Slots : Queued(i) => Feasible(i))'
  BY DEF OInv, Unmoved
<1>1. KInv'
  BY DEF OInv, KInv, Unmoved, TailBlock, IsEmpty, indices
<1>2. EntriesKept
  BY DEF Unmoved, EntriesKept, EntryOf, indices
<1>3. ASSUME NEW i \in Slots, Queued(i)' PROVE Feasible(i)'
  <2>1. Queued(i) /\ Feasible(i)
    BY <1>3, QueueKept DEF OInv, Unmoved
  <2>2. /\ block_buffer'[i] = block_buffer[i]
        /\ f_override' = f_override /\ r_override' = r_override
    BY DEF Unmoved
  <2>. QED BY <1>2, <2>1, <2>2, FeasibleKept, PlanTyped
<1>. QED BY <1>1, <1>3

(* The next state's part of GInv, with names for where its two pointers are. *)
LEMMA GInvNext ==
  ASSUME NEW q \in Slots, q = block_buffer_planned', NEW c \in Slots, c = current',
         Queued(q)' /\ q # block_buffer_tail' => Pushed(q)',
         Queued(q)' /\ pc' = "forward" => Offset(c)' >= Offset(q)',
         \A i \in Slots : Queued(i)' /\ i # block_buffer_tail' =>
           /\ (/\ pc' = "forward" => Offset(i)' <= Offset(c)'
               /\ pc' \notin {"idle", "forward"} => Offset(i)' <= Offset(q)')
              => /\ Pushed(i)' \/ Backed(i)'
                 /\ block_buffer'[i].entry_speed <= ReachOf(i)'
           /\ pc' = "reverse" /\ Offset(i)' >= Offset(c)' => Backed(i)'
           /\ pc' = "forward" /\ Offset(i)' > Offset(c)' => Backed(i)'
  PROVE  GInv'
<1>1. /\ Queued(block_buffer_planned)' <=> Queued(q)'
      /\ Offset(block_buffer_planned)' = Offset(q)'
      /\ Offset(current)' = Offset(c)'
  BY DEF Queued, Offset, Count
<1>2. Pushed(block_buffer_planned)' <=> Pushed(q)'
  BY DEF Pushed, ReachOf, EntryOf
<1>3. ASSUME NEW i \in Slots, Queued(i)', i # block_buffer_tail'
      PROVE  Best(i)'
  BY <1>1, <1>3 DEF Best, Decided
<1>4. Queued(block_buffer_planned)' =>
        /\ (block_buffer_planned # block_buffer_tail)' => Pushed(block_buffer_planned)'
        /\ (pc = "forward")' => (Offset(current) >= Offset(block_buffer_planned))'
  BY <1>1, <1>2
<1>. QED BY <1>3, <1>4 DEF GInv

LEMMA UnmovedParts ==
  ASSUME TInv, Unmoved, NEW i \in Slots
  PROVE  /\ Queued(i)' <=> Queued(i)
         /\ Offset(i)' = Offset(i)
         /\ block_buffer_tail' = block_buffer_tail
         /\ block_buffer'[i].entry_speed = block_buffer[i].entry_speed
         /\ Queued(i) /\ i # block_buffer_tail =>
              /\ Pushed(i)' <=> Pushed(i)
              /\ Backed(i)' <=> Backed(i)
              /\ ReachOf(i)' = ReachOf(i)
<1>1. EntriesKept
  BY DEF Unmoved, EntriesKept, EntryOf, indices
<1>2. block_buffer' = block_buffer /\ UNCHANGED indices
  BY DEF Unmoved
<1>3. (Queued(i)' <=> Queued(i)) /\ Offset(i)' = Offset(i)
  BY <1>2, QueueKept
<1>4. Queued(i) /\ i # block_buffer_tail => ReachOf(i)' = ReachOf(i)
  BY <1>1, PlanKept
<1>5. Queued(i) /\ i # block_buffer_tail =>
        (Pushed(i)' <=> Pushed(i)) /\ (Backed(i)' <=> Backed(i))
  BY <1>1, <1>2, BestKept
<1>. QED BY <1>2, <1>3, <1>4, <1>5 DEF indices

(* The turns of the passes: what they take for decided must have been good. *)
LEMMA OInvTurn ==
  ASSUME TInv, OInv, Unmoved, UNCHANGED block_buffer_planned,
         NEW c \in Slots, c = current',
         block_buffer_planned \in Slots,
         Queued(block_buffer_planned) /\ pc' = "forward" =>
           Offset(c) >= Offset(block_buffer_planned),
         \A i \in Slots : Queued(i) /\ i # block_buffer_tail =>
           /\ (/\ pc' = "forward" => Offset(i) <= Offset(c)
               /\ pc' \notin {"idle", "forward"} =>
                    Offset(i) <= Offset(block_buffer_planned))
              => Decided(i)
           /\ pc' # "reverse"
           /\ pc' = "forward" /\ Offset(i) > Offset(c) /\ Best(i) => Backed(i)
  PROVE  OInv'
<1>. SUFFICES ASSUME ~slowed, ~hold
              PROVE  GInv'
  BY OInvUnmoved
<1>1. GInv
  BY DEF OInv
<1>2. ASSUME NEW i \in Slots, Queued(i), i # block_buffer_tail
      PROVE  Best(i)
  BY <1>1, <1>2 DEF GInv
<1>3. PICK p \in Slots : p = block_buffer_planned
  OBVIOUS
<1>4. Queued(p) /\ p # block_buffer_tail => Pushed(p)
  BY <1>1, <1>3 DEF GInv
<1>5. \A i \in Slots :
        /\ Queued(i)' <=> Queued(i)
        /\ Offset(i)' = Offset(i)
        /\ block_buffer_tail' = block_buffer_tail
        /\ block_buffer'[i].entry_speed = block_buffer[i].entry_speed
  BY UnmovedParts
<1>6. ASSUME NEW i \in Slots, Queued(i), i # block_buffer_tail
      PROVE  /\ Pushed(i)' <=> Pushed(i)
             /\ Backed(i)' <=> Backed(i)
             /\ ReachOf(i)' = ReachOf(i)
  BY <1>6, UnmovedParts
<1>7. p = block_buffer_planned'
  BY <1>3
<1>8. Queued(p)' /\ p # block_buffer_tail' => Pushed(p)'
  BY <1>4, <1>5, <1>6
<1>9. Queued(p)' /\ pc' = "forward" => Offset(c)' >= Offset(p)'
  BY <1>3, <1>5
<1>10. ASSUME NEW i \in Slots, Queued(i)', i # block_buffer_tail'
       PROVE  /\ (/\ pc' = "forward" => Offset(i)' <= Offset(c)'
                  /\ pc' \notin {"idle", "forward"} => Offset(i)' <= Offset(p)')
                 => /\ Pushed(i)' \/ Backed(i)'
                    /\ block_buffer'[i].entry_speed <= ReachOf(i)'
              /\ pc' = "reverse" /\ Offset(i)' >= Offset(c)' => Backed(i)'
              /\ pc' = "forward" /\ Offset(i)' > Offset(c)' => Backed(i)'
  <2>1. Queued(i) /\ i # block_buffer_tail /\ Best(i)
    BY <1>2, <1>5, <1>10
  <2>2. Decided(i) => /\ Pushed(i)' \/ Backed(i)'
                      /\ block_buffer'[i].entry_speed <= ReachOf(i)'
    BY <1>5, <1>6, <2>1 DEF Best
  <2>. QED BY <1>3, <1>5, <1>6, <2>1, <2>2
<1>. QED BY <1>7, <1>8, <1>9, <1>10, GInvNext

LEMMA OInvPasses ==
  ASSUME TInv, PInv, OInv,
         \/ RecalculateEmpty \/ StartForward \/ EndForward
         \/ Recalculate /\ pc' = "idle"
  PROVE  OInv'
<1>1. Unmoved
  BY DEF RecalculateEmpty, StartForward, EndForward, Recalculate,
     RecalculateSame, overrides, prep, Unmoved
<1>2. /\ Ends /\ TypeOK /\ block_buffer_planned \in Slots /\ current \in Slots
      /\ block_buffer_head \in Slots
  BY EndsTyped DEF TInv, TypeOK
<1>3. CASE RecalculateEmpty
  <2>. SUFFICES ASSUME ~slowed, ~hold
                PROVE  GInv'
    BY <1>1, OInvUnmoved
  <2>1. \A i \in Slots : ~Queued(i)'
    BY <1>1, <1>3, InQueue, UnmovedParts DEF RecalculateEmpty
  <2>2. PICK p \in Slots : p = block_buffer_planned'
    BY <1>3 DEF RecalculateEmpty
  <2>3. PICK c \in Slots : c = current'
    BY <1>2, <1>3 DEF RecalculateEmpty
  <2>. QED BY <2>1, <2>2, <2>3, GInvNext
<1>4. CASE StartForward
  <2>1. /\ pc = "reverse" /\ pc' = "forward"
        /\ current' = block_buffer_planned
        /\ plan_prev_block_index(current) = block_buffer_planned
        /\ UNCHANGED block_buffer_planned
    BY <1>4 DEF StartForward
  <2>2. ASSUME Queued(block_buffer_planned)
        PROVE  Offset(block_buffer_planned) = Offset(current) - 1
    <3>1. Queued(current) /\ Offset(current) > Offset(block_buffer_planned)
      BY <2>1, <2>2 DEF PInv
    <3>2. current # block_buffer_tail
      BY <1>2, <2>2, <3>1, InQueue
    <3>. QED BY <1>2, <2>1, <3>1, <3>2, InQueue
  <2>3. PICK c \in Slots : c = block_buffer_planned
    BY <1>2
  <2>4. ASSUME NEW i \in Slots, Queued(i), i # block_buffer_tail
        PROVE  /\ Offset(i) <= Offset(c) => Decided(i)
               /\ Offset(i) > Offset(c) /\ Best(i) => Backed(i)
    <3>1. Offset(i) \in Nat /\ Offset(c) \in Nat /\ Offset(current) \in Nat
      BY <1>2, OffsetInjective
    <3>2. Queued(block_buffer_planned)
      <4>1. ~IsEmpty
        BY <2>4, InQueue
      <4>2. ~Stray
        BY <2>4, StrayAlone
      <4>. QED BY <4>1, <4>2 DEF PInv
    <3>3. Offset(c) = Offset(current) - 1
      BY <2>2, <2>3, <3>2
    <3>4. Offset(i) <= Offset(c) => Decided(i)
      BY <2>1, <2>3 DEF Decided
    <3>5. Offset(i) > Offset(c) /\ Best(i) => Backed(i)
      BY <2>1, <3>1, <3>3 DEF Best
    <3>. QED BY <3>4, <3>5
  <2>5. c = current' /\ pc' = "forward" /\ Offset(c) >= Offset(block_buffer_planned)
    BY <1>2, <2>1, <2>3, OffsetInjective
  <2>. QED BY <1>1, <1>2, <2>1, <2>4, <2>5, OInvTurn
<1>5. CASE EndForward \/ (Recalculate /\ pc' = "idle")
  <2>1. pc' = "idle" /\ UNCHANGED block_buffer_planned
    BY <1>5 DEF EndForward, Recalculate
  <2>2. ASSUME NEW i \in Slots, Queued(i)
        PROVE  Decided(i)
    <3>1. Offset(i) <= Offset(plan_prev_block_index(block_buffer_head))
      BY <1>2, <2>2, EndFacts, InQueue
    <3>2. CASE EndForward
      <4>1. plan_prev_block_index(block_buffer_head) = current
        BY <1>2, <3>2, IndexFacts DEF EndForward
      <4>. QED BY <3>1, <3>2, <4>1 DEF EndForward, Decided
    <3>3. CASE Recalculate /\ pc' = "idle"
      <4>1. plan_prev_block_index(block_buffer_head) = block_buffer_planned
        BY <3>3 DEF Recalculate
      <4>. QED BY <3>1, <3>3, <4>1 DEF Recalculate, Decided
    <3>. QED BY <1>5, <3>2, <3>3
  <2>3. PICK c \in Slots : c = current'
    <3>1. 0 \in Slots
      BY SizeFacts DEF Slots
    <3>. QED BY <1>2, <1>5, <3>1 DEF EndForward, Recalculate
  <2>. QED BY <1>1, <1>2, <2>1, <2>2, <2>3, OInvTurn
<1>. QED BY <1>3, <1>4, <1>5
     DEF RecalculateEmpty, StartForward, EndForward, Recalculate

(* An empty ring at rest. *)
LEMMA OInvInit == Init => OInv
<1>. SUFFICES ASSUME Init
              PROVE  OInv
  OBVIOUS
<1>1. \A i \in Slots : ~Queued(i)
  BY SizeFacts DEF Init, Slots, Queued, Offset, Count
<1>2. KInv
  BY DEF Init, KInv, IsEmpty
<1>3. block_buffer_planned \in Slots
  BY SizeFacts DEF Init, Slots
<1>. QED BY <1>1, <1>2, <1>3 DEF OInv, GInv

LEMMA OInvReset ==
  ASSUME Reset
  PROVE  OInv'
<1>1. \A i \in Slots : ~Queued(i)'
  BY SizeFacts DEF Reset, Slots, Queued, Offset, Count
<1>2. KInv'
  BY DEF Reset, KInv, IsEmpty
<1>3. PICK p \in Slots : p = block_buffer_planned'
  BY SizeFacts DEF Reset, Slots
<1>4. (\A i \in Slots : Queued(i) => Feasible(i))'
  BY <1>1
<1>5. ~Queued(p)'
  BY <1>1
<1>6. ~Queued(block_buffer_planned)'
  BY <1>3, <1>5 DEF Queued, Offset, Count
<1>7. GInv'
  BY <1>1, <1>6 DEF GInv
<1>. QED BY <1>2, <1>4, <1>7 DEF OInv

(* A cycle starts and ends without a change of the plan. *)
LEMMA OInvCycle ==
  ASSUME TInv, SInv, OInv, CycleStart \/ CycleStop
  PROVE  OInv'
<1>1. hold' = hold
  BY DEF CycleStart, CycleStop, SInv, TInv, TypeOK
<1>2. Unmoved /\ UNCHANGED <<block_buffer_planned, current>> /\ pc' = "idle" /\ pc = "idle"
  BY <1>1 DEF CycleStart, CycleStop, Unmoved, planner, overrides
<1>3. PICK c \in Slots : c = current'
  BY <1>2 DEF TInv, TypeOK
<1>4. block_buffer_planned \in Slots
  BY DEF TInv, TypeOK
<1>5. \A i \in Slots : Decided(i)
  BY <1>2 DEF Decided
<1>. QED BY <1>2, <1>3, <1>4, <1>5, OInvTurn

LEMMA OInvStutter ==
  ASSUME TInv, OInv, UNCHANGED vars
  PROVE  OInv'
<1>1. Unmoved /\ UNCHANGED <<block_buffer_planned, current, pc>>
  BY DEF vars, planner, overrides, prep, Unmoved
<1>. SUFFICES ASSUME ~slowed, ~hold
              PROVE  GInv'
  BY <1>1, OInvUnmoved
<1>2. GInv
  BY DEF OInv
<1>3. PICK p \in Slots : p = block_buffer_planned
  BY DEF TInv, TypeOK
<1>4. PICK c \in Slots : c = current
  BY DEF TInv, TypeOK
<1>5. p = block_buffer_planned' /\ c = current' /\ pc' = pc
  BY <1>1, <1>3, <1>4
<1>6. \A i \in Slots :
        /\ Queued(i)' <=> Queued(i)
        /\ Offset(i)' = Offset(i)
        /\ block_buffer_tail' = block_buffer_tail
        /\ block_buffer'[i].entry_speed = block_buffer[i].entry_speed
  BY <1>1, UnmovedParts
<1>7. ASSUME NEW i \in Slots, Queued(i), i # block_buffer_tail
      PROVE  /\ Pushed(i)' <=> Pushed(i)
             /\ Backed(i)' <=> Backed(i)
             /\ ReachOf(i)' = ReachOf(i)
  BY <1>1, <1>7, UnmovedParts
<1>8. Queued(p)' /\ p # block_buffer_tail' => Pushed(p)'
  BY <1>2, <1>3, <1>6, <1>7 DEF GInv
<1>9. Queued(p)' /\ pc' = "forward" => Offset(c)' >= Offset(p)'
  BY <1>2, <1>3, <1>4, <1>5, <1>6 DEF GInv
<1>10. ASSUME NEW i \in Slots, Queued(i)', i # block_buffer_tail'
       PROVE  /\ (/\ pc' = "forward" => Offset(i)' <= Offset(c)'
                  /\ pc' \notin {"idle", "forward"} => Offset(i)' <= Offset(p)')
                 => /\ Pushed(i)' \/ Backed(i)'
                    /\ block_buffer'[i].entry_speed <= ReachOf(i)'
              /\ pc' = "reverse" /\ Offset(i)' >= Offset(c)' => Backed(i)'
              /\ pc' = "forward" /\ Offset(i)' > Offset(c)' => Backed(i)'
  <2>1. Queued(i) /\ i # block_buffer_tail /\ Best(i)
    BY <1>2, <1>6, <1>10 DEF GInv
  <2>. QED BY <1>3, <1>4, <1>5, <1>6, <1>7, <2>1 DEF Best, Decided
<1>. QED BY <1>5, <1>8, <1>9, <1>10, GInvNext

(* A feed hold takes the block from the stepper; the plan is not kept best in
   a hold. *)
LEMMA OInvFeedHold ==
  ASSUME TInv, OInv, FeedHold
  PROVE  OInv'
<1>. SUFFICES ASSUME ~slowed
              PROVE  KInv' /\ (\A i \in Slots : Queued(i) => Feasible(i))'
  BY DEF OInv, FeedHold, overrides
<1>1. /\ UNCHANGED <<indices, current_speed, decelOverride, exit_speed,
                     f_override, r_override>>
      /\ NotifyStepper /\ hold' /\ block_buffer' = UpdateTail(block_buffer)
      /\ block_buffer \in [Slots -> Block]
  BY DEF FeedHold, overrides, TInv, TypeOK
<1>2. /\ EntriesKept /\ Replanned(block_buffer, block_buffer')
      /\ loaded => block_buffer'[block_buffer_tail].entry_speed = current_speed
      /\ ~loaded => block_buffer'[block_buffer_tail].entry_speed =
                      block_buffer[block_buffer_tail].entry_speed
  BY <1>1, NotifyKeepsEntries
<1>3. KInv'
  BY <1>1, <1>2, KInvNotify DEF OInv
<1>4. ASSUME NEW i \in Slots, Queued(i)' PROVE Feasible(i)'
  <2>1. Queued(i) /\ Feasible(i)
    BY <1>1, <1>4, QueueKept DEF OInv
  <2>2. block_buffer'[i].max_entry_speed = block_buffer[i].max_entry_speed
    BY <1>2 DEF Replanned
  <2>3. NominalSpeed(block_buffer'[i], f_override', r_override') =
          NominalSpeed(block_buffer[i], f_override, r_override)
    BY <1>1, <1>2, NominalByRapid DEF Replanned
  <2>. QED BY <1>2, <2>1, <2>2, <2>3, FeasibleKept, PlanTyped
<1>. QED BY <1>3, <1>4

(* The whole plan is made anew: nothing but the tail is decided. *)
LEMMA OInvReinitialize ==
  ASSUME TInv, OInv, ~slowed, NEW blocks \in [Slots -> Block], Reinitialize(blocks),
         UNCHANGED <<decelOverride, current_speed, exit_speed>>,
         hold' = hold \/ ~(~loaded /\ ~IsEmpty),
         \A i \in Slots :
           /\ blocks[i].millimeters = block_buffer[i].millimeters
           /\ blocks[i].entry_speed = block_buffer[i].entry_speed
           /\ Queued(i) /\ i # block_buffer_tail =>
                block_buffer[i].max_entry_speed <= blocks[i].max_entry_speed
           /\ NominalSpeed(block_buffer'[i], f_override', r_override') \in Nat
           /\ NominalSpeed(block_buffer[i], f_override, r_override)
                <= NominalSpeed(block_buffer'[i], f_override', r_override')
  PROVE  OInv'
<1>1. /\ UNCHANGED indices /\ NotifyStepper /\ block_buffer' = UpdateTail(blocks)
      /\ block_buffer_planned' = block_buffer_tail /\ pc' = "recalculate"
      /\ current' = current
  BY DEF Reinitialize
<1>2. /\ EntriesKept /\ Replanned(blocks, block_buffer')
      /\ loaded => block_buffer'[block_buffer_tail].entry_speed = current_speed
      /\ ~loaded => block_buffer'[block_buffer_tail].entry_speed =
                      block_buffer[block_buffer_tail].entry_speed
  BY <1>1, NotifyKeepsEntries
<1>3. KInv'
  BY <1>1, <1>2, KInvNotify DEF OInv
<1>4. ASSUME NEW i \in Slots, Queued(i)' PROVE Feasible(i)'
  <2>1. Queued(i) /\ Feasible(i)
    BY <1>1, <1>4, QueueKept DEF OInv
  <2>2. block_buffer'[i].max_entry_speed = blocks[i].max_entry_speed
        /\ blocks[i] \in Block
    BY <1>2 DEF Replanned
  <2>3. block_buffer'[i].max_entry_speed \in Nat
    BY <2>2 DEF Block
  <2>. QED BY <1>2, <2>1, <2>2, <2>3, FeasibleKept
<1>5. GInv'
  <2>1. block_buffer_tail \in Slots /\ current \in Slots
    BY DEF TInv, TypeOK
  <2>2. PICK p \in Slots : p = block_buffer_tail
    BY <2>1
  <2>3. PICK c \in Slots : c = current'
    BY <1>1, <2>1
  <2>4. p = block_buffer_planned' /\ p = block_buffer_tail'
    BY <1>1, <2>2 DEF indices
  <2>5. ASSUME NEW i \in Slots, Queued(i)', i # block_buffer_tail'
        PROVE  ~(Offset(i)' <= Offset(p)')
    <3>1. /\ Queued(i) /\ i # block_buffer_tail
          /\ Offset(i)' = Offset(i) /\ Offset(p)' = Offset(p)
      BY <1>1, <2>4, <2>5, <2>2, QueueKept
    <3>2. Offset(i) \in Nat /\ Offset(i) # 0 /\ ~IsEmpty
      BY <3>1, InQueue
    <3>3. Offset(p) = 0
      BY <2>2, <3>2, EndsTyped, EndFacts DEF TInv
    <3>. QED BY <3>1, <3>2, <3>3
  <2>. QED BY <1>1, <2>3, <2>4, <2>5, GInvNext
<1>. QED BY <1>3, <1>4, <1>5 DEF OInv

LEMMA OInvHoldStop ==
  ASSUME TInv, OInv, HoldStop
  PROVE  OInv'
<1>. SUFFICES ASSUME ~slowed
              PROVE  OInv'
  BY DEF OInv, HoldStop, overrides
<1>1. /\ Reinitialize(block_buffer) /\ UNCHANGED <<f_override, r_override>>
      /\ UNCHANGED <<decelOverride, current_speed, exit_speed>>
      /\ loaded \/ IsEmpty
      /\ TypeOK /\ block_buffer \in [Slots -> Block]
  BY DEF HoldStop, overrides, TInv, TypeOK
<1>2. Replanned(block_buffer, block_buffer')
  BY <1>1, UpdateTailFacts DEF Reinitialize
<1>3. ASSUME NEW i \in Slots
      PROVE  /\ block_buffer[i].max_entry_speed <= block_buffer[i].max_entry_speed
             /\ NominalSpeed(block_buffer'[i], f_override', r_override') \in Nat
             /\ NominalSpeed(block_buffer[i], f_override, r_override)
                <= NominalSpeed(block_buffer'[i], f_override', r_override')
  <2>1. NominalSpeed(block_buffer'[i], f_override', r_override') =
          NominalSpeed(block_buffer[i], f_override, r_override)
    BY <1>1, <1>2, NominalByRapid DEF Replanned
  <2>. QED BY <2>1, PlanTyped
<1>. QED BY <1>1, <1>3, OInvReinitialize

(* A larger override never slows a block down. *)
LEMMA NominalRises ==
  ASSUME NEW b, NEW c, b.rapid = c.rapid,
         NEW f \in FeedOverrides, NEW r \in RapidOverrides,
         NEW g \in FeedOverrides, NEW s \in RapidOverrides, f <= g, r <= s
  PROVE  NominalSpeed(b, f, r) <= NominalSpeed(c, g, s)
<1>1. /\ f \in Nat /\ g \in Nat /\ r \in Nat /\ s \in Nat
      /\ FeedRate \in Nat /\ RapidRate \in Nat
  BY PlannerAssumption
<1>2. FeedRate * f <= FeedRate * g /\ FeedRate * f \in Nat /\ FeedRate * g \in Nat
  BY <1>1
<1>3. RapidRate * r <= RapidRate * s /\ RapidRate * r \in Nat /\ RapidRate * s \in Nat
  BY <1>1
<1>4. CASE b.rapid
  BY <1>3, <1>4 DEF NominalSpeed
<1>5. CASE ~b.rapid
  <2>. DEFINE x == FeedRate * f
              y == FeedRate * g
  <2>1. x <= y /\ x \in Nat /\ y \in Nat
    BY <1>2
  <2>2. NominalSpeed(b, f, r) = AtMost(x, RapidRate)
        /\ NominalSpeed(c, g, s) = AtMost(y, RapidRate)
    BY <1>5 DEF NominalSpeed
  <2>. HIDE DEF x, y
  <2>. QED BY <1>1, <2>1, <2>2 DEF AtMost
<1>. QED BY <1>4, <1>5

LEMMA OInvOverride ==
  ASSUME TInv, JInv, OInv, NEW f \in FeedOverrides, NEW r \in RapidOverrides,
         Override(f, r)
  PROVE  OInv'
<1>1. /\ Reinitialize(UpdatedProfiles(f, r)) /\ f_override' = f /\ r_override' = r
      /\ UNCHANGED <<decelOverride, current_speed, exit_speed, hold>>
      /\ slowed' = (slowed \/ f < f_override \/ r < r_override)
      /\ TypeOK /\ f_override \in FeedOverrides /\ r_override \in RapidOverrides
      /\ block_buffer_tail' = block_buffer_tail
  BY DEF Override, Reinitialize, indices, TInv, TypeOK
<1>. SUFFICES ASSUME ~slowed, f_override <= f, r_override <= r
              PROVE  OInv'
  <2>1. f \in Nat /\ r \in Nat /\ f_override \in Nat /\ r_override \in Nat
    BY <1>1, PlannerAssumption
  <2>2. f < f_override \/ f_override <= f
    BY <2>1
  <2>3. r < r_override \/ r_override <= r
    BY <2>1
  <2>4. slowed \/ f < f_override \/ r < r_override => slowed'
    BY <1>1, Zenon
  <2>. QED BY <2>2, <2>3, <2>4 DEF OInv
<1>. DEFINE new == UpdatedProfiles(f, r)
<1>2. /\ new \in [Slots -> Block]
      /\ \A i \in Slots :
           /\ new[i].millimeters = block_buffer[i].millimeters
           /\ new[i].rapid = block_buffer[i].rapid
           /\ new[i].entry_speed = block_buffer[i].entry_speed
           /\ Queued(i) /\ i # block_buffer_tail =>
                new[i].max_entry_speed =
                  MaxEntrySpeed(NominalSpeed(block_buffer[i], f, r),
                    NominalSpeed(block_buffer[plan_prev_block_index(i)], f, r),
                    block_buffer[i].max_junction_speed)
  BY <1>1, UpdatedProfilesFacts
<1>. HIDE DEF new
<1>3. Replanned(new, block_buffer')
  BY <1>1, <1>2, UpdateTailFacts DEF Reinitialize, new
<1>4. ASSUME NEW i \in Slots, Queued(i), i # block_buffer_tail
      PROVE  block_buffer[i].max_entry_speed <= new[i].max_entry_speed
  <2>. DEFINE p == plan_prev_block_index(i)
              a == NominalSpeed(block_buffer[i], f_override, r_override)
              b == NominalSpeed(block_buffer[p], f_override, r_override)
              d == NominalSpeed(block_buffer[i], f, r)
              e == NominalSpeed(block_buffer[p], f, r)
              j == block_buffer[i].max_junction_speed
  <2>1. a \in Nat /\ b \in Nat /\ d \in Nat /\ e \in Nat
    BY <1>1, NominalTyped
  <2>2. a <= d /\ b <= e
    BY <1>1, NominalRises
  <2>3. j \in Nat
    <3>1. block_buffer[i] \in Block
      BY <1>1 DEF TypeOK
    <3>. QED BY <3>1 DEF Block
  <2>4. /\ block_buffer[i].max_entry_speed = MaxEntrySpeed(a, b, j)
        /\ new[i].max_entry_speed = MaxEntrySpeed(d, e, j)
    BY <1>2, <1>4 DEF JInv
  <2>. HIDE DEF a, b, d, e, j, p
  <2>. QED BY <2>1, <2>2, <2>3, <2>4 DEF MaxEntrySpeed, AtMost
<1>5. ASSUME NEW i \in Slots
      PROVE  /\ NominalSpeed(block_buffer'[i], f_override', r_override') \in Nat
             /\ NominalSpeed(block_buffer[i], f_override, r_override)
                <= NominalSpeed(block_buffer'[i], f_override', r_override')
  <2>1. block_buffer'[i].rapid = block_buffer[i].rapid
    BY <1>2, <1>3 DEF Replanned
  <2>. QED BY <1>1, <2>1, NominalTyped, NominalRises
<1>6. Reinitialize(new) /\ UNCHANGED <<decelOverride, current_speed, exit_speed, hold>>
  BY <1>1 DEF new
<1>. QED BY <1>2, <1>4, <1>5, <1>6, OInvReinitialize

(* A new line is planned to be entered at rest: the block before it is left at
   rest as it was. *)
LEMMA OInvLine ==
  ASSUME TInv, TInv', PInv, OInv, NEW mm \in Lengths, NEW rapid \in BOOLEAN,
         NEW junction \in Junctions, PlanBufferLine(mm, rapid, junction)
  PROVE  OInv'
<1>. SUFFICES ASSUME ~slowed
              PROVE  OInv'
  BY DEF OInv, PlanBufferLine, overrides
<1>. DEFINE h == block_buffer_head
<1>1. /\ Ends /\ block_buffer \in [Slots -> Block] /\ h \in Slots
      /\ block_buffer_tail \in Slots /\ block_buffer_planned \in Slots
      /\ current \in Slots
      /\ f_override' = f_override /\ r_override' = r_override
      /\ pc = "idle" /\ pc' = "recalculate"
      /\ block_buffer_tail' = block_buffer_tail
      /\ block_buffer_head' = plan_next_block_index(h)
      /\ UNCHANGED <<block_buffer_planned, current>>
      /\ UNCHANGED <<loaded, recalculate, decelOverride, current_speed,
                     exit_speed, hold>>
  BY EndsTyped DEF TInv, TypeOK, PlanBufferLine, overrides, prep
<1>2. block_buffer'[h].entry_speed = 0 /\
      \A i \in Slots : i # h => block_buffer'[i] = block_buffer[i]
  BY <1>1 DEF PlanBufferLine, NoBlock
<1>3. /\ ~Queued(h) /\ ~IsEmpty'
      /\ \A i \in Slots : Queued(i)' => Queued(i) \/ i = h
      /\ \A i \in Slots : Offset(i)' = Offset(i)
      /\ \A i \in Slots : Queued(i) => Queued(i)' /\ Offset(i) < Offset(h) /\ i # h
  BY <1>1, QueueAfterLine DEF TInv, PlanBufferLine
<1>4. IsEmpty => ~loaded /\ block_buffer_tail = h
  BY DEF TInv, IsEmpty
<1>5. ~IsEmpty => Queued(block_buffer_tail)
  BY <1>1, EndFacts
<1>6. ASSUME NEW i \in Slots, Queued(i)
      PROVE  /\ block_buffer'[i] = block_buffer[i]
             /\ EntryOf(i)' = EntryOf(i) /\ ExitOf(i)' = ExitOf(i)
             /\ i # block_buffer_tail => ReachOf(i)' = ReachOf(i)
  <2>1. \A j \in Slots : Queued(j) =>
          block_buffer'[j] = block_buffer[j] /\ EntryOf(j)' = EntryOf(j)
    BY <1>1, <1>2, <1>3 DEF EntryOf
  <2>2. ExitOf(i)' = ExitOf(i)
    <3>. DEFINE n == plan_next_block_index(i)
    <3>1. n \in Slots /\ n # plan_next_block_index(h)
      BY <1>1, <1>3, <1>6, IndexFacts
    <3>2. CASE n = h
      BY <1>1, <1>2, <3>1, <3>2 DEF ExitOf
    <3>3. CASE n # h
      BY <1>1, <1>2, <3>1, <3>3 DEF ExitOf
    <3>. QED BY <3>2, <3>3
  <2>3. i # block_buffer_tail => ReachOf(i)' = ReachOf(i)
    <3>1. i # block_buffer_tail => Queued(plan_prev_block_index(i))
      BY <1>6, InQueue
    <3>2. plan_prev_block_index(i) \in Slots
      BY IndexFacts
    <3>. QED BY <2>1, <3>1, <3>2 DEF ReachOf
  <2>. QED BY <1>6, <2>1, <2>2, <2>3
<1>7. KInv'
  <2>1. CASE IsEmpty
    <3>1. /\ ~loaded' /\ ~recalculate' /\ ~IsEmpty' /\ current_speed' = 0
          /\ current_speed' = exit_speed' /\ ~decelOverride'
      BY <1>1, <1>3, <1>4, <2>1 DEF OInv, KInv
    <3>2. TailBlock'.entry_speed = 0
      BY <1>1, <1>2, <1>4, <2>1 DEF TailBlock
    <3>. QED BY <3>1, <3>2 DEF KInv
  <2>2. CASE ~IsEmpty
    <3>1. TailBlock' = TailBlock
      BY <1>1, <1>5, <1>6, <2>2 DEF TailBlock
    <3>. QED BY <1>1, <1>3, <2>2, <3>1 DEF OInv, KInv
  <2>. QED BY <2>1, <2>2
<1>8. ASSUME NEW i \in Slots, Queued(i)'
      PROVE  Feasible(i)'
  <2>1. CASE Queued(i)
    BY <1>1, <1>6, <2>1 DEF OInv, Feasible, CanSlowDown
  <2>2. CASE i = h
    <3>1. EntryOf(i)' = 0
      BY <1>1, <1>2, <1>4, <1>5, <1>3, <2>2 DEF EntryOf
    <3>2. ExitOf(i)' = 0
      BY <1>1, <2>2 DEF ExitOf
    <3>3. /\ block_buffer'[i].millimeters \in Nat
          /\ block_buffer'[i].max_entry_speed \in Nat
          /\ NominalSpeed(block_buffer'[i], f_override', r_override') \in Nat
      <4>1. block_buffer'[i] \in Block
        BY DEF TInv, TypeOK
      <4>. QED BY <1>1, <4>1, NominalTyped DEF Block, TInv, TypeOK
    <3>. QED BY <1>2, <2>2, <3>1, <3>2, <3>3 DEF Feasible, CanSlowDown
  <2>. QED BY <1>3, <1>8, <2>1, <2>2
<1>9. ASSUME ~hold
      PROVE  GInv'
  <2>1. PICK p \in Slots : p = block_buffer_planned
    BY <1>1
  <2>2. PICK c \in Slots : c = current
    BY <1>1
  <2>3. p = block_buffer_planned' /\ c = current'
    BY <1>1, <2>1, <2>2
  <2>4. Queued(p) \/ IsEmpty
    BY <1>1, <2>1 DEF PInv, Stray
  <2>5. ASSUME NEW i \in Slots, Queued(i), i # block_buffer_tail
        PROVE  /\ Pushed(i)' <=> Pushed(i)
               /\ Backed(i)' <=> Backed(i)
               /\ ReachOf(i)' = ReachOf(i)
    BY <1>6, <2>5 DEF Pushed, Backed
  <2>6. Queued(p)' /\ p # block_buffer_tail' => Pushed(p)'
    <3>1. Queued(p)' /\ p # block_buffer_tail' => Queued(p) /\ p # block_buffer_tail
      BY <1>1, <1>3, <1>4, <2>4
    <3>. QED BY <1>9, <2>1, <2>5, <3>1 DEF OInv, GInv
  <2>7. ASSUME NEW i \in Slots, Queued(i)', i # block_buffer_tail',
               Offset(i)' <= Offset(p)'
        PROVE  /\ Pushed(i)' \/ Backed(i)'
               /\ block_buffer'[i].entry_speed <= ReachOf(i)'
    <3>1. Offset(i) \in Nat /\ Offset(p) \in Nat /\ Offset(h) \in Nat
      BY <1>1, OffsetInjective
    <3>2. ~IsEmpty
      BY <1>1, <1>3, <1>4, <2>7, InQueue
    <3>3. Offset(p) < Offset(h) /\ Offset(i) <= Offset(p)
      BY <1>3, <2>4, <2>7, <3>2
    <3>4. Queued(i) /\ i # block_buffer_tail
      BY <1>1, <1>3, <2>7, <3>1, <3>3
    <3>5. Best(i) /\ Decided(i)
      BY <1>1, <1>9, <3>4 DEF OInv, GInv, Decided
    <3>. QED BY <1>6, <2>5, <3>4, <3>5 DEF Best
  <2>. QED BY <1>1, <2>3, <2>6, <2>7, GInvNext
<1>. QED BY <1>1, <1>7, <1>8, <1>9 DEF OInv

(* The reverse pass raises the entry of one block, as far as the block can slow
   down from, and takes the block at the tail from the stepper when it comes
   next to it. *)
LEMMA OInvReverseStep ==
  ASSUME TInv, JInv, OInv, ~slowed,
         UNCHANGED <<indices, block_buffer_planned, f_override, r_override, slowed>>,
         pc \in {"recalculate", "reverse"}, pc' = "reverse",
         NEW i \in Slots, NEW v \in Nat, ReverseStep(i, v),
         Queued(i), Queued(block_buffer_planned),
         Offset(i) > Offset(block_buffer_planned),
         \/ v = block_buffer[i].max_entry_speed
         \/ v = ExitOf(i) + block_buffer[i].millimeters,
         v <= block_buffer[i].max_entry_speed,
         v <= ExitOf(i) + block_buffer[i].millimeters,
         v >= block_buffer[i].entry_speed,
         pc = "recalculate" => \A j \in Slots : Queued(j) => Offset(j) <= Offset(i),
         pc = "reverse" => Offset(i) = Offset(current) - 1
  PROVE  OInv'
<1>. DEFINE t == block_buffer_tail
            blocks == [block_buffer EXCEPT ![i].entry_speed = v]
<1>1. /\ TypeOK /\ block_buffer \in [Slots -> Block] /\ current_speed \in Nat
      /\ Ends /\ t \in Slots /\ block_buffer_planned \in Slots /\ current \in Slots
      /\ t' = t /\ block_buffer_head' = block_buffer_head
      /\ \A j \in Slots : (Queued(j)' <=> Queued(j)) /\ Offset(j)' = Offset(j)
      /\ (IsEmpty' <=> IsEmpty)
  BY EndsTyped, QueueKept DEF TInv, TypeOK, indices
<1>2. i # t /\ ~IsEmpty
  BY <1>1, InQueue
<1>3. /\ blocks \in [Slots -> Block] /\ blocks[i].entry_speed = v
      /\ \A j \in Slots : j # i => blocks[j] = block_buffer[j]
      /\ blocks[i].millimeters = block_buffer[i].millimeters
  BY <1>1, SetEntryFacts DEF Replanned
<1>4. /\ Replanned(block_buffer, block_buffer')
      /\ \A j \in Slots : j # i /\ j # t => block_buffer'[j] = block_buffer[j]
      /\ block_buffer'[i].entry_speed = v
      /\ current' = i
      /\ UNCHANGED <<decelOverride, current_speed, exit_speed, hold>>
  BY <1>1, <1>2, ReverseStepFacts
<1>. HIDE DEF blocks
<1>5. \/ /\ block_buffer' = UpdateTail(blocks) /\ NotifyStepper
      \/ block_buffer' = blocks /\ UNCHANGED <<loaded, recalculate>>
  BY DEF ReverseStep, blocks
<1>6. /\ loaded /\ ~loaded' => block_buffer'[t].entry_speed = current_speed
      /\ ~loaded \/ loaded' => block_buffer'[t] = block_buffer[t]
      /\ loaded' => loaded
  <2>1. CASE block_buffer' = UpdateTail(blocks) /\ NotifyStepper
    <3>1. ~loaded => block_buffer' = blocks
      BY <1>1, <1>3, <2>1, UpdateTailFacts
    <3>2. loaded => block_buffer'[t].entry_speed = current_speed
      BY <1>1, <1>3, <2>1, SetEntryFacts DEF UpdateTail
    <3>. QED BY <1>1, <1>2, <1>3, <2>1, <3>1, <3>2 DEF NotifyStepper
  <2>2. CASE block_buffer' = blocks /\ UNCHANGED <<loaded, recalculate>>
    BY <1>1, <1>2, <1>3, <2>2
  <2>. QED BY <1>5, <2>1, <2>2
<1>7. \A j \in Slots : block_buffer'[j].millimeters = block_buffer[j].millimeters
                       /\ block_buffer'[j].max_entry_speed = block_buffer[j].max_entry_speed
  BY <1>4 DEF Replanned
<1>8. EntryOf(i)' = v /\ \A j \in Slots : j # i => EntryOf(j)' = EntryOf(j)
  <2>1. EntryOf(i)' = v
    BY <1>1, <1>2, <1>4 DEF EntryOf
  <2>2. ASSUME NEW j \in Slots, j = t PROVE EntryOf(j)' = EntryOf(j)
    BY <1>1, <1>4, <1>6, <2>2 DEF EntryOf
  <2>3. ASSUME NEW j \in Slots, j # i, j # t PROVE EntryOf(j)' = EntryOf(j)
    BY <1>1, <1>4, <2>3 DEF EntryOf
  <2>. QED BY <2>1, <2>2, <2>3
<1>9. ASSUME NEW j \in Slots, Queued(j)
      PROVE  /\ plan_next_block_index(j) # i => ExitOf(j)' = ExitOf(j)
             /\ plan_next_block_index(j) = i => ExitOf(j)' = v
             /\ ExitOf(j) <= ExitOf(j)' /\ ExitOf(j)' \in Nat
  <2>. DEFINE n == plan_next_block_index(j)
  <2>1. n \in Slots /\ (n # block_buffer_head => n # t)
    BY <1>9, InQueue, PlanTyped
  <2>2. CASE n = block_buffer_head
    <3>1. n # i
      BY <2>2, SizeFacts, <1>1 DEF Queued, Offset, Count, Ends, Slots
    <3>. QED BY <1>1, <2>2, <3>1 DEF ExitOf
  <2>3. CASE n # block_buffer_head /\ n # i
    <3>1. ExitOf(j)' = ExitOf(j)
      BY <1>1, <1>4, <2>1, <2>3 DEF ExitOf
    <3>. QED BY <1>9, <2>3, <3>1, PlanTyped
  <2>4. CASE n # block_buffer_head /\ n = i
    BY <1>1, <1>4, <2>4, <1>9 DEF ExitOf
  <2>. QED BY <2>2, <2>3, <2>4
<1>10. plan_next_block_index(i) # i
  BY IndexFacts
<1>11. KInv'
  <2>1. ~decelOverride'
    BY <1>4 DEF OInv, KInv
  <2>2. CASE block_buffer' = UpdateTail(blocks) /\ NotifyStepper
    <3>1. /\ loaded => block_buffer'[t].entry_speed = current_speed
          /\ ~loaded => block_buffer'[t].entry_speed = block_buffer[t].entry_speed
      BY <1>6, <2>2 DEF NotifyStepper
    <3>. QED BY <1>4, <2>2, <3>1, KInvNotify DEF OInv
  <2>3. CASE block_buffer' = blocks /\ UNCHANGED <<loaded, recalculate>>
    <3>1. TailBlock' = TailBlock
      BY <1>1, <1>2, <1>3, <2>3 DEF TailBlock
    <3>. QED BY <1>1, <1>4, <2>3, <3>1 DEF OInv, KInv
  <2>. QED BY <1>5, <2>2, <2>3
<1>12. ASSUME NEW j \in Slots, Queued(j)' PROVE Feasible(j)'
  <2>1. Queued(j) /\ Feasible(j)
    BY <1>1, <1>12 DEF OInv
  <2>2. NominalSpeed(block_buffer'[j], f_override', r_override') =
          NominalSpeed(block_buffer[j], f_override, r_override)
    BY <1>4, NominalByRapid DEF Replanned
  <2>3. CASE j = i
    <3>1. v <= NominalSpeed(block_buffer[i], f_override, r_override)
      <4>. DEFINE p == plan_prev_block_index(i)
                  a == NominalSpeed(block_buffer[i], f_override, r_override)
                  b == NominalSpeed(block_buffer[p], f_override, r_override)
                  d == block_buffer[i].max_junction_speed
      <4>1. a \in Nat /\ b \in Nat
        BY NominalTyped DEF TInv, TypeOK
      <4>2. d \in Nat
        <5>1. block_buffer[i] \in Block
          BY <1>1
        <5>. QED BY <5>1 DEF Block
      <4>3. block_buffer[i].max_entry_speed = MaxEntrySpeed(a, b, d)
        BY <1>2 DEF JInv
      <4>. HIDE DEF a, b, d, p
      <4>4. MaxEntrySpeed(a, b, d) <= a
        BY <4>1, <4>2 DEF MaxEntrySpeed, AtMost
      <4>5. v <= a
        BY <4>1, <4>3, <4>4, PlanTyped
      <4>. QED BY <4>5 DEF a
    <3>2. CanSlowDown(i)'
      BY <1>7, <1>8, <1>9, <1>10 DEF CanSlowDown
    <3>. QED BY <1>4, <1>7, <1>8, <2>2, <2>3, <3>1, <3>2 DEF Feasible
  <2>4. CASE j # i
    <3>1. CanSlowDown(j)'
      BY <1>7, <1>8, <1>9, <2>1, <2>4, PlanTyped DEF Feasible, CanSlowDown
    <3>2. j # t => block_buffer'[j].entry_speed <= block_buffer'[j].max_entry_speed
      BY <1>4, <2>1, <2>4 DEF Feasible
    <3>. QED BY <1>1, <1>8, <2>1, <2>2, <2>4, <3>1, <3>2 DEF Feasible
  <2>. QED BY <2>3, <2>4
<1>13. ASSUME ~hold PROVE GInv'
  <2>1. PICK p \in Slots : p = block_buffer_planned
    BY <1>1
  <2>2. GInv /\ Queued(p) /\ Offset(i) > Offset(p)
    BY <1>13, <2>1 DEF OInv
  <2>3. \A j \in Slots : Offset(j) \in Nat
    BY <1>1, OffsetInjective
  <2>4. ASSUME NEW j \in Slots, Queued(j), j # t, Offset(j) <= Offset(p)
        PROVE  /\ Pushed(j)' <=> Pushed(j)
               /\ ReachOf(j)' = ReachOf(j)
               /\ block_buffer'[j].entry_speed = block_buffer[j].entry_speed
    <3>1. j # i
      BY <2>2, <2>3, <2>4
    <3>2. /\ plan_prev_block_index(j) \in Slots
          /\ Offset(plan_prev_block_index(j)) = Offset(j) - 1
      BY <2>4, InQueue, PlanTyped
    <3>3. plan_prev_block_index(j) # i
      BY <2>2, <2>3, <2>4, <3>2
    <3>4. ReachOf(j)' = ReachOf(j)
      BY <1>7, <1>8, <3>2, <3>3 DEF ReachOf
    <3>5. block_buffer'[j] = block_buffer[j]
      BY <1>4, <2>4, <3>1
    <3>. QED BY <3>4, <3>5 DEF Pushed
  <2>5. ASSUME NEW j \in Slots, Queued(j), j # t, j # i, plan_next_block_index(j) # i
        PROVE  Backed(j)' <=> Backed(j)
    <3>1. block_buffer'[j] = block_buffer[j] /\ ExitOf(j)' = ExitOf(j)
      BY <1>4, <1>9, <2>5
    <3>. QED BY <3>1 DEF Backed
  <2>6. p # t => Pushed(p)'
    BY <2>1, <2>2, <2>3, <2>4 DEF GInv
  <2>7. ASSUME NEW j \in Slots, Queued(j), j # t, Offset(j) <= Offset(p)
        PROVE  /\ Pushed(j)' \/ Backed(j)'
               /\ block_buffer'[j].entry_speed <= ReachOf(j)'
    <3>1. Best(j) /\ Decided(j)
      BY <2>1, <2>2, <2>7 DEF GInv, Decided
    <3>2. Pushed(j)' \/ Backed(j)'
      <4>1. CASE j = p
        BY <2>6, <2>7, <4>1
      <4>2. CASE j # p
        <5>1. Offset(j) < Offset(p)
          BY <1>1, <2>3, <2>7, <4>2, OffsetInjective
        <5>2. plan_next_block_index(j) # i /\ j # i
          <6>1. CASE plan_next_block_index(j) = block_buffer_head
            BY <6>1, SizeFacts, <1>1, <2>2, <2>3, <2>7 DEF Queued, Offset, Count, Ends, Slots
          <6>2. CASE plan_next_block_index(j) # block_buffer_head
            <7>1. Offset(plan_next_block_index(j)) = Offset(j) + 1
              BY <2>7, <6>2, InQueue
            <7>. QED BY <2>2, <2>3, <5>1, <7>1
          <6>. QED BY <6>1, <6>2
        <5>. QED BY <2>4, <2>5, <2>7, <3>1, <5>2 DEF Best
      <4>. QED BY <4>1, <4>2
    <3>. QED BY <2>4, <2>7, <3>1, <3>2 DEF Best
  <2>8. ASSUME NEW j \in Slots, Queued(j), j # t, Offset(j) >= Offset(i)
        PROVE  Backed(j)'
    <3>1. CASE j = i
      <4>1. ExitOf(i)' = ExitOf(i)
        BY <1>9, <1>10
      <4>. QED BY <1>4, <1>7, <3>1, <4>1 DEF Backed
    <3>2. CASE j # i
      <4>1. Offset(j) > Offset(i)
        BY <1>1, <2>3, <2>8, <3>2, OffsetInjective
      <4>2. pc = "reverse" /\ Offset(j) >= Offset(current)
        BY <1>1, <2>3, <2>8, <4>1
      <4>3. Backed(j)
        BY <2>2, <2>8, <4>2 DEF GInv, Best
      <4>4. plan_next_block_index(j) # i
        <5>1. CASE plan_next_block_index(j) = block_buffer_head
          BY <5>1, SizeFacts, <1>1 DEF Queued, Offset, Count, Ends, Slots
        <5>2. CASE plan_next_block_index(j) # block_buffer_head
          <6>1. Offset(plan_next_block_index(j)) = Offset(j) + 1
            BY <2>8, <5>2, InQueue
          <6>. QED BY <2>3, <4>1, <6>1
        <5>. QED BY <5>1, <5>2
      <4>. QED BY <2>5, <2>8, <3>2, <4>3, <4>4
    <3>. QED BY <3>1, <3>2
  <2>9. p = block_buffer_planned' /\ i = current'
    BY <1>4, <2>1
  <2>10. ASSUME NEW j \in Slots, Queued(j)', j # block_buffer_tail'
         PROVE  /\ (/\ pc' = "forward" => Offset(j)' <= Offset(i)'
                    /\ pc' \notin {"idle", "forward"} => Offset(j)' <= Offset(p)')
                   => /\ Pushed(j)' \/ Backed(j)'
                      /\ block_buffer'[j].entry_speed <= ReachOf(j)'
                /\ pc' = "reverse" /\ Offset(j)' >= Offset(i)' => Backed(j)'
                /\ pc' = "forward" /\ Offset(j)' > Offset(i)' => Backed(j)'
    BY <1>1, <2>7, <2>8, <2>10
  <2>11. Queued(p)' /\ p # block_buffer_tail' => Pushed(p)'
    BY <1>1, <2>6
  <2>. QED BY <2>9, <2>10, <2>11, GInvNext
<1>. QED BY <1>4, <1>11, <1>12, <1>13 DEF OInv

(* The block whose pointer strayed stays at rest. *)
LEMMA OInvStray ==
  ASSUME TInv, Stray, OInv, ~slowed, ~IsEmpty,
         UNCHANGED <<indices, f_override, r_override, slowed, loaded,
                     recalculate, decelOverride, current_speed, exit_speed, hold>>,
         Replanned(block_buffer, block_buffer'),
         block_buffer'[block_buffer_tail].entry_speed = 0,
         NEW p \in Slots, p = block_buffer_planned',
         NEW c \in Slots, c = current'
  PROVE  OInv'
<1>1. /\ block_buffer_tail' = block_buffer_tail /\ block_buffer_head' = block_buffer_head
      /\ block_buffer_tail \in Slots /\ (IsEmpty' <=> IsEmpty)
      /\ \A j \in Slots : Queued(j)' <=> Queued(j)
      /\ ~loaded' /\ block_buffer[block_buffer_tail].entry_speed = 0
      /\ Ends
  BY QueueKept, EndsTyped DEF indices, TInv, TypeOK, Stray
<1>2. KInv'
  BY <1>1 DEF OInv, KInv, TailBlock
<1>3. ASSUME NEW i \in Slots, Queued(i)'
      PROVE  i = block_buffer_tail
  BY <1>1, <1>3, StrayAlone
<1>4. ASSUME NEW i \in Slots, Queued(i)'
      PROVE  Feasible(i)'
  <2>1. EntryOf(i)' = 0
    BY <1>1, <1>3, <1>4 DEF EntryOf
  <2>2. ExitOf(i)' = 0
    BY <1>1, <1>3, <1>4 DEF ExitOf, Stray
  <2>3. block_buffer'[i].millimeters \in Nat
    BY PlanTyped DEF Replanned
  <2>4. NominalSpeed(block_buffer'[i], f_override', r_override') \in Nat
    BY NominalTyped DEF TInv, TypeOK
  <2>. QED BY <1>1, <1>3, <1>4, <2>1, <2>2, <2>3, <2>4 DEF Feasible, CanSlowDown
<1>5. GInv'
  <2>1. Queued(p)' => p = block_buffer_tail'
    BY <1>1, <1>3
  <2>2. Queued(p)' => Offset(c)' >= Offset(p)'
    <3>1. Offset(p)' = Offset(p) /\ Offset(c)' = Offset(c)
      BY QueueKept
    <3>2. Offset(c) \in Nat
      BY <1>1, OffsetInjective
    <3>3. p = block_buffer_tail => Offset(p) = 0
      BY <1>1, EndFacts
    <3>. QED BY <1>1, <2>1, <3>1, <3>2, <3>3
  <2>3. \A i \in Slots : ~(Queued(i)' /\ i # block_buffer_tail')
    BY <1>1, <1>3
  <2>. QED BY <2>1, <2>2, <2>3, GInvNext
<1>. QED BY <1>2, <1>4, <1>5 DEF OInv

LEMMA OInvReverse ==
  ASSUME TInv, PInv, JInv, OInv, Recalculate \/ ReversePass
  PROVE  OInv'
<1>1. CASE Recalculate /\ pc' = "idle"
  BY <1>1, OInvPasses
<1>. DEFINE last == plan_prev_block_index(block_buffer_head)
            prev == plan_prev_block_index(current)
            w == AtMost(block_buffer[last].max_entry_speed,
                        block_buffer[last].millimeters)
<1>2. CASE ~(Recalculate /\ pc' = "idle")
  <2>1. \/ Recalculate /\ pc = "recalculate" /\ last # block_buffer_planned
           /\ ReverseStep(last, w)
        \/ ReversePass /\ pc = "reverse" /\ prev # block_buffer_planned
           /\ ReverseStep(prev, ReverseSpeed(prev))
    BY <1>2 DEF Recalculate, ReversePass
  <2>2. /\ pc' = "reverse" /\ pc \in {"recalculate", "reverse"} /\ ~IsEmpty
        /\ UNCHANGED <<indices, block_buffer_planned, f_override, r_override, slowed>>
    BY <1>2, <2>1 DEF Recalculate, ReversePass, RecalculateSame, overrides, TInv
  <2>3. /\ TypeOK /\ Ends /\ block_buffer_planned \in Slots /\ current \in Slots
        /\ block_buffer_head \in Slots /\ block_buffer_tail \in Slots
        /\ last \in Slots /\ prev \in Slots
    BY EndsTyped, IndexFacts DEF TInv, TypeOK
  <2>. SUFFICES ASSUME ~slowed
                PROVE  OInv'
    BY <2>2 DEF OInv
  <2>4a. PICK i \in Slots : i = IF pc = "recalculate" THEN last ELSE prev
    BY <2>3
  <2>4b. PICK v : v = IF pc = "recalculate" THEN w ELSE ReverseSpeed(prev)
    OBVIOUS
  <2>4. /\ i = IF pc = "recalculate" THEN last ELSE prev
        /\ v = IF pc = "recalculate" THEN w ELSE ReverseSpeed(prev)
    BY <2>4a, <2>4b
  <2>. DEFINE e == block_buffer[i].entry_speed
              m == block_buffer[i].max_entry_speed
              mm == block_buffer[i].millimeters
  <2>5. e \in Nat /\ m \in Nat /\ mm \in Nat /\ ExitOf(i) \in Nat
    BY PlanTyped
  <2>6. v \in Nat
    <3>1. CASE pc = "recalculate"
      BY <2>4, <2>5, <3>1 DEF AtMost
    <3>2. CASE pc # "recalculate"
      BY <2>3, <2>4, <2>5, <3>2, PlanTyped DEF ReverseSpeed, AtMost
    <3>. QED BY <3>1, <3>2
  <2>7. i # block_buffer_planned /\ ReverseStep(i, v)
    BY <2>1, <2>4
  <2>. HIDE DEF w, last, prev
  <2>8. CASE ~Queued(block_buffer_planned)
    <3>1. Stray
      BY <2>2, <2>8 DEF PInv
    <3>2. /\ Replanned(block_buffer, block_buffer')
          /\ block_buffer'[i].entry_speed = v
          /\ i # block_buffer_tail =>
               block_buffer'[block_buffer_tail] = block_buffer[block_buffer_tail]
          /\ current' = i
          /\ UNCHANGED <<decelOverride, current_speed, exit_speed, hold>>
      BY <2>3, <2>6, <2>7, <3>1, ReverseStepFacts DEF Stray
    <3>3. i = block_buffer_tail => v = 0
      <4>1. i = block_buffer_tail => e = 0 /\ m = 0
        BY <3>1 DEF Stray
      <4>2. CASE pc = "recalculate"
        BY <2>4, <2>5, <4>1, <4>2 DEF AtMost, w
      <4>3. CASE pc # "recalculate"
        BY <2>4, <4>1, <4>3 DEF ReverseSpeed
      <4>. QED BY <4>2, <4>3
    <3>4. block_buffer'[block_buffer_tail].entry_speed = 0
      BY <3>1, <3>2, <3>3 DEF Stray
    <3>5. UNCHANGED <<loaded, recalculate>>
      BY <2>7, <3>1 DEF ReverseStep, NotifyStepper, Stray, TInv, TypeOK
    <3>. QED BY <2>2, <2>3, <2>7, <3>1, <3>2, <3>4, <3>5, OInvStray
  <2>9. CASE Queued(block_buffer_planned)
    <3>1. \A j \in Slots : Offset(j) \in Nat
      BY <2>3, OffsetInjective
    <3>2. CASE pc = "recalculate"
      <4>1. i = last
        BY <2>4, <3>2
      <4>2. /\ Queued(last)
            /\ \A j \in Slots : Queued(j) => Offset(j) <= Offset(last)
        BY <2>2, <2>3, EndFacts DEF last
      <4>3. Offset(i) > Offset(block_buffer_planned)
        BY <2>3, <2>7, <2>9, <3>1, <4>1, <4>2, OffsetInjective
      <4>4. ExitOf(i) = 0
        <5>1. plan_next_block_index(i) = block_buffer_head
          BY <2>3, <4>1, IndexFacts DEF last
        <5>. QED BY <5>1 DEF ExitOf
      <4>5. /\ v = m \/ v = ExitOf(i) + mm
            /\ v <= m /\ v <= ExitOf(i) + mm
        BY <2>4, <2>5, <3>2, <4>1, <4>4 DEF w, AtMost
      <4>6. i # block_buffer_tail
        BY <2>3, <3>1, <4>1, <4>2, <4>3, InQueue
      <4>7. v >= e
        <5>1. e <= m /\ e <= ExitOf(i) + mm
          BY <4>1, <4>2, <4>6 DEF OInv, Feasible, CanSlowDown, EntryOf
        <5>. HIDE DEF e, m, mm
        <5>. QED BY <2>5, <4>5, <5>1, <2>6
      <4>. QED BY <2>2, <2>6, <2>7, <2>9, <3>2, <4>1, <4>2, <4>3, <4>5, <4>7,
                  OInvReverseStep
    <3>3. CASE pc = "reverse"
      <4>1. i = prev
        BY <2>4, <3>3
      <4>2. Queued(current) /\ Offset(current) > Offset(block_buffer_planned)
        BY <2>9, <3>3 DEF PInv
      <4>3. current # block_buffer_tail
        BY <2>3, <3>1, <4>2, InQueue
      <4>4. Queued(i) /\ Offset(i) = Offset(current) - 1
        BY <2>3, <4>1, <4>2, <4>3, InQueue DEF prev
      <4>5. Offset(i) > Offset(block_buffer_planned)
        BY <2>3, <2>7, <3>1, <4>2, <4>4, OffsetInjective
      <4>6. i # block_buffer_tail
        BY <3>1, <2>3, <4>4, <4>5, InQueue
      <4>7. ExitOf(i) = block_buffer[current].entry_speed
        <5>1. plan_next_block_index(i) = current
          BY <2>3, <4>1, IndexFacts DEF prev
        <5>2. current # block_buffer_head
          BY <2>3, <4>2, SizeFacts DEF Queued, Offset, Count, Slots
        <5>. QED BY <5>1, <5>2 DEF ExitOf
      <4>8. e <= m /\ e <= ExitOf(i) + mm
        BY <4>4, <4>6 DEF OInv, Feasible, CanSlowDown, EntryOf
      <4>9. v = IF e = m THEN e ELSE AtMost(ExitOf(i) + mm, m)
        BY <2>4, <3>3, <4>1, <4>7 DEF ReverseSpeed
      <4>10. /\ v = m \/ v = ExitOf(i) + mm
             /\ v <= m /\ v <= ExitOf(i) + mm /\ v >= e
        <5>. HIDE DEF e, m, mm
        <5>. QED BY <2>5, <4>8, <4>9 DEF AtMost
      <4>. QED BY <2>2, <2>6, <2>7, <2>9, <3>3, <4>4, <4>5, <4>10,
                  OInvReverseStep
    <3>. QED BY <2>2, <3>2, <3>3
  <2>. QED BY <2>8, <2>9
<1>. QED BY <1>1, <1>2

(* The forward pass lowers the entry of one block to what its predecessor can
   accelerate to; a predecessor that needed the higher exit to slow down would
   have to be faster than it is. *)
LEMMA OInvForwardStep ==
  ASSUME TInv, SInv, OInv, ~slowed, ForwardPass,
         NEW c \in Slots, c = current, Queued(c), Queued(block_buffer_planned)
  PROVE  OInv'
<1>. DEFINE n == plan_next_block_index(c)
            t == block_buffer_tail
            reach == block_buffer[c].entry_speed + block_buffer[c].millimeters
            e == block_buffer[n].entry_speed
            m == block_buffer[n].max_entry_speed
            v == AtMost(reach, e)
<1>1. /\ TypeOK /\ block_buffer \in [Slots -> Block] /\ Ends /\ t \in Slots
      /\ block_buffer_planned \in Slots /\ n \in Slots
      /\ pc = "forward" /\ pc' = "forward" /\ n # block_buffer_head
      /\ n = current' /\ n # c /\ plan_prev_block_index(n) = c
      /\ UNCHANGED <<indices, f_override, r_override, slowed, loaded, recalculate,
                     decelOverride, current_speed, exit_speed, hold>>
      /\ block_buffer_tail' = t /\ block_buffer_head' = block_buffer_head
      /\ \A j \in Slots : (Queued(j)' <=> Queued(j)) /\ Offset(j)' = Offset(j)
      /\ (IsEmpty' <=> IsEmpty)
  BY EndsTyped, QueueKept, IndexFacts
     DEF TInv, TypeOK, ForwardPass, RecalculateSame, overrides, prep, indices
<1>2. /\ Queued(n) /\ n # t /\ Offset(n) = Offset(c) + 1
      /\ \A j \in Slots : Offset(j) \in Nat
  BY <1>1, InQueue, OffsetInjective
<1>3. c = t => ~loaded
  BY <1>1 DEF SInv
<1>4. EntryOf(c) = block_buffer[c].entry_speed /\ reach = ReachOf(n)
  BY <1>1, <1>3 DEF EntryOf, ReachOf
<1>5. /\ reach \in Nat /\ e \in Nat /\ m \in Nat
      /\ block_buffer[c].entry_speed \in Nat /\ block_buffer[c].millimeters \in Nat
      /\ block_buffer[n].millimeters \in Nat
  BY <1>1, PlanTyped
<1>6. v \in Nat /\ v <= e /\ v <= reach /\ (v = e \/ (v = reach /\ reach < e))
  <2>. HIDE DEF reach, e
  <2>. QED BY <1>5 DEF AtMost
<1>7. block_buffer' = [block_buffer EXCEPT ![n].entry_speed = v]
  BY DEF ForwardPass
<1>8. /\ block_buffer_planned' \in {n, block_buffer_planned}
      /\ block_buffer_planned' = n /\ ~hold => v = m \/ v = reach
  <2>1. block_buffer_planned' =
          IF Breakpoint(block_buffer[c], block_buffer[n], v)
          THEN n ELSE block_buffer_planned
    BY DEF ForwardPass
  <2>2. Breakpoint(block_buffer[c], block_buffer[n], v) <=> reach < e \/ v = m
    BY DEF Breakpoint
  <2>3. reach < e => v = reach
    <3>. HIDE DEF reach, e
    <3>. QED BY <1>5 DEF AtMost
  <2>4. block_buffer_planned = n /\ ~hold => FALSE
    <3>1. ~hold => Offset(current) >= Offset(block_buffer_planned)
      BY <1>1 DEF OInv, GInv
    <3>. QED BY <1>2, <3>1
  <2>. QED BY <2>1, <2>2, <2>3, <2>4
<1>. HIDE DEF v
<1>9. /\ Replanned(block_buffer, block_buffer') /\ block_buffer'[n].entry_speed = v
      /\ \A j \in Slots : j # n => block_buffer'[j] = block_buffer[j]
  BY <1>1, <1>6, <1>7, SetEntryFacts
<1>. HIDE DEF e, m, reach
<1>10. /\ \A j \in Slots : block_buffer'[j].millimeters = block_buffer[j].millimeters
                           /\ block_buffer'[j].max_entry_speed = block_buffer[j].max_entry_speed
       /\ EntryOf(n)' = v
       /\ \A j \in Slots : j # n => EntryOf(j)' = EntryOf(j)
  <2>1. EntryOf(n)' = v
    BY <1>1, <1>2, <1>9 DEF EntryOf
  <2>2. ASSUME NEW j \in Slots, j # n PROVE EntryOf(j)' = EntryOf(j)
    BY <1>1, <1>9, <2>2 DEF EntryOf
  <2>. QED BY <1>9, <2>1, <2>2 DEF Replanned
<1>11. ASSUME NEW j \in Slots, Queued(j)
       PROVE  /\ j # c => ExitOf(j)' = ExitOf(j)
              /\ j = c => ExitOf(j)' = v /\ ExitOf(j) = e
  <2>1. plan_next_block_index(j) \in Slots /\ (j # c => plan_next_block_index(j) # n)
    BY IndexFacts
  <2>2. j # c => ExitOf(j)' = ExitOf(j)
    BY <1>1, <1>9, <2>1 DEF ExitOf
  <2>3. j = c => ExitOf(j)' = v /\ ExitOf(j) = e
    BY <1>1, <1>9 DEF ExitOf, e
  <2>. QED BY <2>2, <2>3
<1>12. KInv'
  <2>1. TailBlock' = TailBlock
    BY <1>1, <1>2, <1>9 DEF TailBlock
  <2>. QED BY <1>1, <2>1 DEF OInv, KInv
<1>13. ASSUME NEW j \in Slots, Queued(j)' PROVE Feasible(j)'
  <2>1. Queued(j) /\ Feasible(j)
    BY <1>1, <1>13 DEF OInv
  <2>2. NominalSpeed(block_buffer'[j], f_override', r_override') =
          NominalSpeed(block_buffer[j], f_override, r_override)
    BY <1>1, <1>9, NominalByRapid DEF Replanned
  <2>3. EntryOf(j)' <= EntryOf(j) /\ EntryOf(j)' \in Nat
    <3>1. EntryOf(n) = e
      BY <1>2 DEF EntryOf, e
    <3>. QED BY <1>6, <1>10, <3>1, PlanTyped
  <2>4. CanSlowDown(j)'
    <3>1. CASE j = c
      <4>1. EntryOf(j)' = block_buffer[c].entry_speed
        BY <1>1, <1>4, <1>10, <3>1
      <4>2. block_buffer[c].entry_speed <= e + block_buffer[c].millimeters
        BY <1>4, <1>11, <2>1, <3>1 DEF Feasible, CanSlowDown
      <4>3. block_buffer[c].entry_speed <= v + block_buffer[c].millimeters
        BY <1>5, <1>6, <4>2 DEF reach
      <4>. QED BY <1>10, <1>11, <2>1, <3>1, <4>1, <4>3 DEF CanSlowDown
    <3>2. CASE j # c
      BY <1>10, <1>11, <2>1, <2>3, <3>2, PlanTyped DEF Feasible, CanSlowDown
    <3>. QED BY <3>1, <3>2
  <2>5. j # t => block_buffer'[j].entry_speed <= block_buffer'[j].max_entry_speed
    <3>1. j = n => e <= m
      BY <1>2, <2>1 DEF Feasible, e, m
    <3>2. j = n => block_buffer'[j].max_entry_speed = m
      BY <1>1, <1>10 DEF m
    <3>. QED BY <1>5, <1>6, <1>9, <2>1, <3>1, <3>2 DEF Feasible
  <2>6. EntryOf(j)' <= NominalSpeed(block_buffer'[j], f_override', r_override')
    BY <2>1, <2>2, <2>3, PlanTyped DEF Feasible
  <2>. QED BY <1>1, <2>4, <2>5, <2>6 DEF Feasible
<1>14. ASSUME ~hold PROVE GInv'
  <2>1. PICK q \in Slots : q = block_buffer_planned
    BY <1>1
  <2>2. GInv /\ Queued(q) /\ Offset(c) >= Offset(q)
    BY <1>1, <1>14, <2>1 DEF OInv, GInv
  <2>3. ASSUME NEW j \in Slots, Queued(j), j # t, Offset(j) <= Offset(c)
        PROVE  /\ Pushed(j)' <=> Pushed(j)
               /\ ReachOf(j)' = ReachOf(j)
               /\ block_buffer'[j] = block_buffer[j]
    <3>1. j # n
      BY <1>2, <2>3
    <3>2. /\ plan_prev_block_index(j) \in Slots
          /\ Offset(plan_prev_block_index(j)) = Offset(j) - 1
      BY <2>3, InQueue, PlanTyped
    <3>3. plan_prev_block_index(j) # n
      BY <1>2, <2>3, <3>2
    <3>4. ReachOf(j)' = ReachOf(j)
      BY <1>10, <3>2, <3>3 DEF ReachOf
    <3>5. block_buffer'[j] = block_buffer[j]
      BY <1>9, <3>1
    <3>. QED BY <3>4, <3>5 DEF Pushed
  <2>4. ReachOf(n)' = reach
    BY <1>1, <1>4, <1>10 DEF ReachOf
  <2>5. v = m \/ v = reach => Pushed(n)'
    BY <1>1, <1>9, <1>10, <2>4 DEF Pushed, m
  <2>6. ASSUME NEW j \in Slots, Queued(j), j # t, Offset(j) <= Offset(n)
        PROVE  /\ Pushed(j)' \/ Backed(j)'
               /\ block_buffer'[j].entry_speed <= ReachOf(j)'
    <3>1. CASE j = n
      <4>1. v # e => Pushed(n)'
        BY <1>6, <2>5
      <4>2. Backed(n)
        BY <1>1, <1>2, <2>2 DEF GInv, Best
      <4>3. v = e => Backed(n)'
        <5>1. ExitOf(n)' = ExitOf(n)
          BY <1>1, <1>2, <1>11
        <5>. QED BY <1>1, <1>9, <1>10, <4>2, <5>1 DEF Backed, e
      <4>. QED BY <1>6, <1>9, <2>4, <3>1, <4>1, <4>3
    <3>2. CASE j # n
      <4>1. Offset(j) <= Offset(c)
        <5>1. Offset(j) # Offset(n)
          BY <1>1, <3>2, OffsetInjective
        <5>. QED BY <1>2, <2>6, <5>1
      <4>2. /\ Pushed(j) \/ Backed(j)
            /\ block_buffer[j].entry_speed <= ReachOf(j)
        BY <1>1, <2>2, <2>6, <4>1 DEF GInv, Best, Decided
      <4>3. /\ Pushed(j)' <=> Pushed(j)
            /\ ReachOf(j)' = ReachOf(j)
            /\ block_buffer'[j] = block_buffer[j]
        BY <2>3, <2>6, <4>1
      <4>4. CASE j # c
        <5>1. Backed(j)' <=> Backed(j)
          BY <1>11, <2>6, <4>3, <4>4 DEF Backed
        <5>. QED BY <4>2, <4>3, <5>1
      <4>5. CASE j = c
        <5>1. block_buffer[c].entry_speed = e + block_buffer[c].millimeters => v = e
          BY <1>5, <1>6 DEF reach
        <5>2. ExitOf(c)' = v /\ ExitOf(c) = e
          BY <1>11
        <5>3. Backed(c) /\ v # e => Pushed(c)
          BY <5>1, <5>2 DEF Backed, Pushed
        <5>4. v = e => (Backed(c)' <=> Backed(c))
          BY <4>3, <4>5, <5>2 DEF Backed
        <5>. QED BY <4>2, <4>3, <4>5, <5>3, <5>4
      <4>. QED BY <4>4, <4>5
    <3>. QED BY <3>1, <3>2
  <2>7. ASSUME NEW j \in Slots, Queued(j), j # t, Offset(j) > Offset(n)
        PROVE  Backed(j)'
    <3>1. Offset(j) > Offset(c) /\ j # n /\ j # c
      BY <1>2, <2>7
    <3>2. Backed(j)
      BY <1>1, <2>2, <2>7, <3>1 DEF GInv, Best
    <3>. QED BY <1>9, <1>11, <2>7, <3>1, <3>2 DEF Backed
  <2>8. PICK p \in Slots : p = block_buffer_planned'
    BY <1>1, <1>8
  <2>9. p = n \/ p = q
    BY <1>8, <2>1, <2>8
  <2>10. p # t => Pushed(p)'
    <3>1. CASE p = n
      BY <1>8, <1>14, <2>5, <2>8, <3>1
    <3>2. CASE p = q
      <4>1. p # t => Pushed(q)
        BY <2>1, <2>2, <3>2 DEF GInv
      <4>. QED BY <2>2, <2>3, <3>2, <4>1
    <3>. QED BY <2>9, <3>1, <3>2
  <2>11. Offset(n) >= Offset(p)
    BY <1>2, <2>2, <2>9
  <2>12. ASSUME NEW j \in Slots, Queued(j)', j # block_buffer_tail'
         PROVE  /\ (/\ pc' = "forward" => Offset(j)' <= Offset(n)'
                    /\ pc' \notin {"idle", "forward"} => Offset(j)' <= Offset(p)')
                   => /\ Pushed(j)' \/ Backed(j)'
                      /\ block_buffer'[j].entry_speed <= ReachOf(j)'
                /\ pc' = "reverse" /\ Offset(j)' >= Offset(n)' => Backed(j)'
                /\ pc' = "forward" /\ Offset(j)' > Offset(n)' => Backed(j)'
    <3>. PICK k \in Slots : k = n
      BY <1>1
    <3>1. Offset(n)' = Offset(n)
      BY <1>1
    <3>. QED BY <1>1, <2>6, <2>7, <2>12, <3>1
  <2>13. Queued(p)' /\ p # block_buffer_tail' => Pushed(p)'
    BY <1>1, <2>10
  <2>14. Queued(p)' /\ pc' = "forward" => Offset(n)' >= Offset(p)'
    BY <1>1, <2>11
  <2>15. n \in Slots /\ n = current'
    BY <1>1
  <2>. HIDE DEF n
  <2>. QED BY <2>8, <2>12, <2>13, <2>14, <2>15, GInvNext
<1>. QED BY <1>1, <1>12, <1>13, <1>14 DEF OInv

LEMMA OInvForward ==
  ASSUME TInv, PInv, SInv, OInv, ForwardPass
  PROVE  OInv'
<1>. SUFFICES ASSUME ~slowed
              PROVE  OInv'
  BY DEF OInv, ForwardPass, RecalculateSame, overrides
<1>. DEFINE n == plan_next_block_index(current)
<1>1. /\ TypeOK /\ Ends /\ current \in Slots /\ n \in Slots /\ ~IsEmpty
      /\ block_buffer_planned \in Slots /\ pc = "forward"
      /\ block_buffer_planned' \in Slots /\ current' \in Slots
  BY EndsTyped, IndexFacts DEF TInv, TypeOK, ForwardPass
<1>2. CASE Queued(block_buffer_planned)
  <2>1. Queued(current)
    BY <1>1, <1>2 DEF PInv
  <2>. QED BY <1>1, <1>2, <2>1, OInvForwardStep
<1>3. CASE ~Queued(block_buffer_planned)
  <2>1. Stray
    BY <1>1, <1>3 DEF PInv
  <2>. DEFINE reach == block_buffer[current].entry_speed
                         + block_buffer[current].millimeters
              e == block_buffer[n].entry_speed
              v == AtMost(reach, e)
  <2>2. reach \in Nat /\ e \in Nat
    BY <1>1, PlanTyped
  <2>3. v \in Nat /\ (e = 0 => v = 0)
    <3>. HIDE DEF reach, e
    <3>. QED BY <2>2 DEF AtMost
  <2>4. block_buffer' = [block_buffer EXCEPT ![n].entry_speed = v]
    BY DEF ForwardPass
  <2>. HIDE DEF v
  <2>5. /\ Replanned(block_buffer, block_buffer') /\ block_buffer'[n].entry_speed = v
        /\ \A j \in Slots : j # n => block_buffer'[j] = block_buffer[j]
    BY <1>1, <2>3, <2>4, SetEntryFacts DEF TypeOK
  <2>6. block_buffer'[block_buffer_tail].entry_speed = 0
    <3>1. block_buffer_tail \in Slots /\ block_buffer[block_buffer_tail].entry_speed = 0
      BY <1>1, <2>1 DEF Stray, Ends
    <3>2. CASE n = block_buffer_tail
      BY <2>3, <2>5, <3>1, <3>2
    <3>3. CASE n # block_buffer_tail
      BY <2>5, <3>1, <3>3
    <3>. QED BY <3>2, <3>3
  <2>7. UNCHANGED <<indices, f_override, r_override, slowed, loaded,
                     recalculate, decelOverride, current_speed, exit_speed, hold>>
    BY DEF ForwardPass, RecalculateSame, overrides, prep
  <2>8. PICK p \in Slots : p = block_buffer_planned'
    BY <1>1
  <2>9. PICK c \in Slots : c = current'
    BY <1>1
  <2>. QED BY <1>1, <2>1, <2>5, <2>6, <2>7, <2>8, <2>9, OInvStray
<1>. QED BY <1>2, <1>3

(* The stepper loads a block at the speed it has, which the plan took for the
   block's entry. *)
LEMMA LoadFacts ==
  ASSUME TInv, OInv, ~slowed, PrepLoad
  PROVE  /\ UNCHANGED current_speed
         /\ ~loaded /\ ~IsEmpty /\ loaded' /\ ~recalculate' /\ ~decelOverride'
         /\ block_buffer' = [block_buffer EXCEPT
                               ![block_buffer_tail].entry_speed = current_speed]
         /\ hold => exit_speed' = DecelExit(current_speed)
         /\ current_speed <= TailBlock.entry_speed
         /\ ~hold => current_speed = TailBlock.entry_speed
<1>. DEFINE enforced == ~recalculate /\ (hold \/ decelOverride)
            entry == IF enforced THEN exit_speed ELSE TailBlock.entry_speed
            slowDown == /\ ~hold /\ entry > Nominal
                        /\ entry - Nominal >= TailBlock.millimeters
<1>1. /\ ~loaded /\ ~IsEmpty /\ loaded' = TRUE /\ recalculate' = FALSE
      /\ current_speed' = IF recalculate THEN current_speed ELSE entry
      /\ block_buffer' = [block_buffer EXCEPT
                            ![block_buffer_tail].entry_speed = entry]
      /\ exit_speed' = IF hold \/ slowDown THEN DecelExit(entry) ELSE PlannedExit
      /\ decelOverride' = slowDown
  BY DEF PrepLoad
<1>2. KInv /\ block_buffer_tail \in Slots /\ hold \in BOOLEAN
  BY DEF OInv, TInv, TypeOK
<1>3. /\ entry = current_speed /\ entry <= TailBlock.entry_speed
      /\ ~hold => entry = TailBlock.entry_speed
  <2>1. TailBlock.entry_speed \in Nat /\ current_speed \in Nat
    BY <1>2, PlanTyped DEF TailBlock
  <2>2. CASE recalculate
    BY <1>1, <1>2, <2>1, <2>2 DEF KInv
  <2>3. CASE ~recalculate
    BY <1>1, <1>2, <2>1, <2>3 DEF KInv
  <2>. QED BY <2>2, <2>3
<1>4. ~slowDown
  <2>1. Queued(block_buffer_tail)
    BY <1>1, EndsTyped, EndFacts DEF TInv
  <2>2. EntryOf(block_buffer_tail) <= Nominal /\ Nominal \in Nat
    BY <1>2, <2>1, PlanTyped DEF OInv, Feasible, Nominal, TailBlock
  <2>3. EntryOf(block_buffer_tail) = TailBlock.entry_speed
    BY <1>1 DEF EntryOf, TailBlock
  <2>4. TailBlock.entry_speed \in Nat
    BY <1>2, PlanTyped DEF TailBlock
  <2>5. ~hold => ~(entry > Nominal)
    <3>. HIDE DEF entry
    <3>. QED BY <1>3, <2>2, <2>3, <2>4
  <2>. QED BY <2>5
<1>5. ~decelOverride'
  <2>1. ~decelOverride
    BY <1>2 DEF KInv
  <2>. HIDE DEF slowDown
  <2>. QED BY <1>1, <1>4, <2>1
<1>. HIDE DEF entry, slowDown
<1>. QED BY <1>1, <1>3, <1>4, <1>5

LEMMA OInvPrepLoad ==
  ASSUME TInv, OInv, PrepLoad
  PROVE  OInv'
<1>. SUFFICES ASSUME ~slowed
              PROVE  OInv'
  BY DEF OInv, PrepLoad, overrides
<1>. DEFINE t == block_buffer_tail
<1>1. /\ UNCHANGED current_speed
      /\ ~loaded /\ ~IsEmpty /\ loaded' /\ ~recalculate' /\ ~decelOverride'
      /\ block_buffer' = [block_buffer EXCEPT ![t].entry_speed = current_speed]
      /\ hold => exit_speed' = DecelExit(current_speed)
      /\ current_speed <= block_buffer[t].entry_speed
      /\ ~hold => current_speed = block_buffer[t].entry_speed
  BY LoadFacts DEF TailBlock
<1>2. /\ UNCHANGED <<indices, block_buffer_planned, current, pc, f_override,
                     r_override, slowed, hold>>
      /\ pc = "idle" /\ t' = t /\ block_buffer_head' = block_buffer_head
      /\ TypeOK /\ t \in Slots /\ current_speed \in Nat
      /\ block_buffer \in [Slots -> Block] /\ (IsEmpty' <=> IsEmpty)
      /\ \A j \in Slots : (Queued(j)' <=> Queued(j)) /\ Offset(j)' = Offset(j)
  BY QueueKept DEF PrepLoad, overrides, TInv, TypeOK, indices
<1>3. /\ Replanned(block_buffer, block_buffer')
      /\ block_buffer'[t].entry_speed = current_speed
      /\ \A j \in Slots : j # t => block_buffer'[j] = block_buffer[j]
  BY <1>1, <1>2, SetEntryFacts
<1>4. ASSUME NEW j \in Slots
      PROVE  /\ j # t => EntryOf(j)' = EntryOf(j)
             /\ j = t => EntryOf(j)' = current_speed
                         /\ EntryOf(j) = block_buffer[j].entry_speed
             /\ EntryOf(j)' <= EntryOf(j) /\ EntryOf(j)' \in Nat
             /\ ~hold => EntryOf(j)' = EntryOf(j)
             /\ block_buffer'[j].millimeters = block_buffer[j].millimeters
             /\ block_buffer'[j].max_entry_speed = block_buffer[j].max_entry_speed
  <2>1. CASE j = t
    BY <1>1, <1>2, <1>3, <2>1, PlanTyped DEF EntryOf, Replanned
  <2>2. CASE j # t
    <3>1. EntryOf(j)' = EntryOf(j)
      BY <1>1, <1>2, <1>3, <2>2 DEF EntryOf
    <3>. QED BY <1>3, <2>2, <3>1, PlanTyped DEF Replanned
  <2>. QED BY <2>1, <2>2
<1>5. ASSUME NEW j \in Slots, Queued(j)
      PROVE  ExitOf(j)' = ExitOf(j)
  <2>1. /\ plan_next_block_index(j) \in Slots
        /\ plan_next_block_index(j) # block_buffer_head => plan_next_block_index(j) # t
    BY <1>5, InQueue, PlanTyped
  <2>. QED BY <1>2, <1>3, <2>1 DEF ExitOf
<1>6. KInv'
  <2>1. TailBlock'.millimeters = TailBlock.millimeters
    BY <1>2, <1>4 DEF TailBlock
  <2>2. hold => exit_speed' = AtLeast(current_speed' - TailBlock'.millimeters, 0)
    BY <1>1, <2>1 DEF DecelExit
  <2>. QED BY <1>1, <1>2, <2>2 DEF KInv
<1>7. ASSUME NEW j \in Slots, Queued(j)' PROVE Feasible(j)'
  <2>1. Queued(j) /\ Feasible(j)
    BY <1>2, <1>7 DEF OInv
  <2>2. NominalSpeed(block_buffer'[j], f_override', r_override') =
          NominalSpeed(block_buffer[j], f_override, r_override)
    BY <1>2, <1>3, NominalByRapid DEF Replanned
  <2>3. CanSlowDown(j)'
    BY <1>4, <1>5, <2>1, PlanTyped DEF Feasible, CanSlowDown
  <2>4. EntryOf(j)' <= NominalSpeed(block_buffer'[j], f_override', r_override')
    BY <1>4, <2>1, <2>2, PlanTyped DEF Feasible
  <2>. QED BY <1>2, <1>3, <2>1, <2>3, <2>4 DEF Feasible
<1>8. ASSUME ~hold PROVE GInv'
  <2>1. ASSUME NEW j \in Slots
        PROVE  block_buffer'[j].entry_speed = block_buffer[j].entry_speed
    BY <1>1, <1>3, <1>8, <2>1
  <2>2. EntriesKept
    BY <1>2, <1>4, <1>8, <2>1 DEF EntriesKept
  <2>3. PICK p \in Slots : p = block_buffer_planned
    BY <1>2 DEF TypeOK
  <2>4. PICK c \in Slots : c = current
    BY <1>2 DEF TypeOK
  <2>5. ASSUME NEW j \in Slots, Queued(j), j # t
        PROVE  /\ Pushed(j)' <=> Pushed(j)
               /\ Backed(j)' <=> Backed(j)
               /\ ReachOf(j)' = ReachOf(j)
    BY <1>4, <2>2, <2>5, BestKept, PlanKept
  <2>6. Queued(p)' /\ p # block_buffer_tail' => Pushed(p)'
    BY <1>2, <1>8, <2>3, <2>5 DEF OInv, GInv
  <2>7. ASSUME NEW j \in Slots, Queued(j)', j # block_buffer_tail'
        PROVE  /\ Pushed(j)' \/ Backed(j)'
               /\ block_buffer'[j].entry_speed <= ReachOf(j)'
    <3>1. Queued(j) /\ j # t /\ Best(j) /\ Decided(j)
      BY <1>2, <1>8, <2>7 DEF OInv, GInv, Decided
    <3>. QED BY <2>1, <2>5, <3>1 DEF Best
  <2>8. p = block_buffer_planned' /\ c = current'
    BY <1>2, <2>3, <2>4
  <2>. QED BY <1>2, <2>6, <2>7, <2>8, GInvNext
<1>. QED BY <1>2, <1>6, <1>7, <1>8 DEF OInv

(* What the stepper finds: the profile of its block ends where the plan wants
   it to, the block can slow down to there, and the next one is not to be
   entered faster than this one can get or may go. *)
LEMMA SegmentFacts ==
  ASSUME TInv, SInv, PInv, JInv, OInv, ~slowed, PrepSegment,
         NEW t \in Slots, t = block_buffer_tail
  PROVE  LET mm == block_buffer[t].millimeters
             n == plan_next_block_index(t)
         IN /\ Queued(t) /\ EntryOf(t) = current_speed /\ ~IsEmpty
            /\ mm \in Nat /\ mm > 0
            /\ current_speed <= ExitOf(t) + mm
            /\ Nominal \in Nat /\ current_speed <= Nominal
            /\ ~recalculate /\ ~decelOverride
            /\ hold => exit_speed = AtLeast(current_speed - mm, 0)
            /\ ~hold => exit_speed = ExitOf(t)
            /\ ExitOf(t) <= Nominal
            /\ ~hold => ExitOf(t) <= current_speed + mm
<1>. DEFINE mm == block_buffer[t].millimeters
            n == plan_next_block_index(t)
<1>1. /\ loaded /\ ~IsEmpty /\ pc = "idle" /\ mm \in Nat /\ Ends
      /\ ExitOf(t) \in Nat /\ current_speed \in Nat /\ Nominal \in Nat
  BY EndsTyped, PlanTyped DEF PrepSegment, TInv, Nominal, TailBlock
<1>2. Queued(t) /\ EntryOf(t) = current_speed
  BY <1>1, EndFacts DEF EntryOf
<1>3. mm > 0
  BY <1>2 DEF TInv
<1>4. current_speed <= ExitOf(t) + mm /\ current_speed <= Nominal
  BY <1>2 DEF OInv, Feasible, CanSlowDown, Nominal, TailBlock
<1>5. /\ ~recalculate /\ ~decelOverride
      /\ hold => exit_speed = AtLeast(current_speed - mm, 0)
  BY <1>1 DEF OInv, KInv, TailBlock
<1>6. ~hold => exit_speed = ExitOf(t)
  BY <1>1, <1>5 DEF SInv, PlannedExit, ExitOf
<1>7. n # block_buffer_head =>
        /\ ExitOf(t) = block_buffer[n].entry_speed
        /\ Queued(n) /\ n # t /\ n \in Slots /\ plan_prev_block_index(n) = t
  BY <1>2, InQueue, IndexFacts DEF ExitOf
<1>8. ExitOf(t) <= Nominal
  <2>1. CASE n = block_buffer_head
    BY <1>1, <2>1 DEF ExitOf
  <2>2. CASE n # block_buffer_head
    <3>. DEFINE a == NominalSpeed(block_buffer[n], f_override, r_override)
                d == block_buffer[n].max_junction_speed
                e == block_buffer[n].entry_speed
                m == block_buffer[n].max_entry_speed
    <3>1. a \in Nat /\ Nominal = NominalSpeed(block_buffer[t], f_override, r_override)
      BY NominalTyped DEF TInv, TypeOK, Nominal, TailBlock
    <3>2. d \in Nat /\ e \in Nat /\ m \in Nat
      <4>1. block_buffer[n] \in Block
        BY <1>7, <2>2 DEF TInv, TypeOK
      <4>. QED BY <4>1 DEF Block
    <3>3. m = MaxEntrySpeed(a, Nominal, d)
      BY <1>7, <2>2, <3>1 DEF JInv
    <3>4. e <= m
      BY <1>7, <2>2 DEF OInv, Feasible
    <3>5. ExitOf(t) = e
      BY <1>7, <2>2
    <3>. HIDE DEF a, d, e, m
    <3>. QED BY <1>1, <3>1, <3>2, <3>3, <3>4, <3>5 DEF MaxEntrySpeed, AtMost
  <2>. QED BY <2>1, <2>2
<1>9. ~hold => ExitOf(t) <= current_speed + mm
  <2>1. CASE n = block_buffer_head
    BY <1>1, <2>1 DEF ExitOf
  <2>2. CASE n # block_buffer_head
    <3>1. ~hold => block_buffer[n].entry_speed <= ReachOf(n)
      BY <1>1, <1>7, <2>2 DEF OInv, GInv, Best, Decided
    <3>. QED BY <1>2, <1>7, <2>2, <3>1 DEF ReachOf
  <2>. QED BY <2>1, <2>2
<1>. QED BY <1>1, <1>2, <1>3, <1>4, <1>5, <1>6, <1>8, <1>9

(* One unit further: the new speed still allows to slow down in time, to get
   as fast as the next block's entry, and to get there exactly if that is as
   fast as one can. *)
LEMMA SpeedFacts ==
  ASSUME NEW speed \in Nat, NEW left \in Nat, NEW nominal \in Nat, NEW exit \in Nat,
         speed <= exit + left + 1, speed <= nominal, exit <= nominal,
         exit <= speed + left + 1
  PROVE  LET v == AtLeast(speed - 1, AtMost(AtMost(speed + 1, nominal), exit + left))
         IN /\ v \in Nat /\ v <= exit + left /\ v <= nominal
            /\ speed - 1 <= v /\ v <= speed + 1
            /\ exit <= v + left
            /\ exit = speed + left + 1 => exit = v + left
BY DEF AtLeast, AtMost

LEMMA SegmentSpeed ==
  ASSUME TInv, SInv, PInv, JInv, OInv, ~slowed, PrepSegment,
         NEW t \in Slots, t = block_buffer_tail
  PROVE  LET left == block_buffer[t].millimeters - 1
         IN /\ left \in Nat
            /\ current_speed' \in Nat
            /\ current_speed - 1 <= current_speed' /\ current_speed' <= current_speed + 1
            /\ left = 0 => current_speed' = exit_speed
            /\ left > 0 =>
                 /\ current_speed' <= ExitOf(t) + left
                 /\ current_speed' <= Nominal
                 /\ hold => exit_speed = AtLeast(current_speed' - left, 0)
                 /\ ~hold => /\ ExitOf(t) <= current_speed' + left
                             /\ ExitOf(t) = current_speed + left + 1
                                  => ExitOf(t) = current_speed' + left
<1>. DEFINE left == block_buffer[t].millimeters - 1
            x == ExitOf(t)
<1>1. /\ left \in Nat /\ x \in Nat /\ current_speed \in Nat /\ Nominal \in Nat
      /\ exit_speed \in Nat
      /\ current_speed <= x + left + 1 /\ current_speed <= Nominal
      /\ hold => exit_speed = AtLeast(current_speed - (left + 1), 0)
      /\ ~hold => exit_speed = x /\ x <= current_speed + left + 1
      /\ x <= Nominal
  <2>. DEFINE mm == block_buffer[t].millimeters
  <2>1. /\ mm \in Nat /\ mm > 0
        /\ current_speed <= x + mm
        /\ Nominal \in Nat /\ current_speed <= Nominal
        /\ hold => exit_speed = AtLeast(current_speed - mm, 0)
        /\ ~hold => exit_speed = x
        /\ x <= Nominal
        /\ ~hold => x <= current_speed + mm
    BY SegmentFacts
  <2>2. x \in Nat /\ current_speed \in Nat /\ exit_speed \in Nat
    BY PlanTyped
  <2>. HIDE DEF mm, x
  <2>3. mm = left + 1 /\ left \in Nat
    BY <2>1 DEF mm
  <2>. HIDE DEF left
  <2>. QED BY <2>1, <2>2, <2>3
<1>2. /\ current_speed' = SpeedAfter(left)
      /\ hold => current_speed > 0
      /\ hold \in BOOLEAN
  BY DEF PrepSegment, TailBlock, TInv, TypeOK
<1>. HIDE DEF left, x
<1>3. CASE left = 0
  <2>1. current_speed' = exit_speed
    BY <1>2, <1>3 DEF SpeedAfter
  <2>2. /\ current_speed - 1 <= exit_speed /\ exit_speed <= current_speed + 1
    BY <1>1, <1>2, <1>3 DEF AtLeast
  <2>3. ~(left > 0)
    BY <1>3
  <2>. QED BY <1>1, <2>1, <2>2, <2>3 DEF left
<1>4. CASE left > 0 /\ hold
  <2>1. current_speed' = current_speed - 1
    BY <1>1, <1>2, <1>4 DEF SpeedAfter
  <2>. QED BY <1>1, <1>2, <1>4, <2>1 DEF AtLeast, left, x
<1>5. CASE left > 0 /\ ~hold
  <2>1. current_speed' =
          AtLeast(current_speed - 1,
                  AtMost(AtMost(current_speed + 1, Nominal), x + left))
    BY <1>1, <1>2, <1>5 DEF SpeedAfter
  <2>2. /\ current_speed' \in Nat /\ current_speed' <= x + left
        /\ current_speed' <= Nominal
        /\ current_speed - 1 <= current_speed' /\ current_speed' <= current_speed + 1
        /\ x <= current_speed' + left
        /\ x = current_speed + left + 1 => x = current_speed' + left
    BY <1>1, <1>5, <2>1, SpeedFacts
  <2>. QED BY <1>1, <1>5, <2>2 DEF left, x
<1>6. left = 0 \/ left > 0
  BY <1>1
<1>. QED BY <1>3, <1>4, <1>5, <1>6

(* Inside a block: the length goes down by one and the speed follows. *)
LEMMA OInvSegmentInside ==
  ASSUME TInv, TInv', SInv, PInv, JInv, OInv, ~slowed, PrepSegment,
         NEW t \in Slots, t = block_buffer_tail, block_buffer[t].millimeters - 1 > 0
  PROVE  OInv'
<1>. DEFINE left == block_buffer[t].millimeters - 1
            n == plan_next_block_index(t)
            x == ExitOf(t)
<1>1. /\ Queued(t) /\ EntryOf(t) = current_speed /\ ~IsEmpty
      /\ ~recalculate /\ ~decelOverride
      /\ left \in Nat /\ current_speed' \in Nat
      /\ current_speed' <= x + left /\ current_speed' <= Nominal
      /\ hold => exit_speed = AtLeast(current_speed' - left, 0)
      /\ ~hold => /\ x <= current_speed' + left
                  /\ x = current_speed + left + 1 => x = current_speed' + left
  BY SegmentFacts, SegmentSpeed
<1>2. /\ UNCHANGED <<indices, block_buffer_planned, current, pc, f_override,
                     r_override, slowed, hold, loaded, recalculate,
                     decelOverride, exit_speed>>
      /\ pc = "idle" /\ loaded
      /\ t = block_buffer_tail' /\ block_buffer_head' = block_buffer_head
      /\ TypeOK /\ block_buffer_planned \in Slots /\ current \in Slots
      /\ block_buffer \in [Slots -> Block] /\ (IsEmpty' <=> IsEmpty)
      /\ \A j \in Slots : (Queued(j)' <=> Queued(j)) /\ Offset(j)' = Offset(j)
      /\ block_buffer' = [block_buffer EXCEPT ![t].millimeters = left]
  BY QueueKept DEF PrepSegment, TailBlock, overrides, TInv, TypeOK, indices
<1>3. /\ \A j \in Slots : /\ j # t => block_buffer'[j] = block_buffer[j]
                         /\ block_buffer'[j].rapid = block_buffer[j].rapid
                         /\ block_buffer'[j].entry_speed = block_buffer[j].entry_speed
      /\ block_buffer'[t].millimeters = left
  <2>. HIDE DEF left
  <2>1. block_buffer[t] \in Block
    BY <1>2
  <2>. QED BY <1>2, <2>1 DEF Block
<1>. HIDE DEF left, x
<1>4. ASSUME NEW j \in Slots
      PROVE  /\ j # t => EntryOf(j)' = EntryOf(j)
             /\ j = t => EntryOf(j)' = current_speed'
  BY <1>2, <1>3 DEF EntryOf
<1>5. ASSUME NEW j \in Slots, Queued(j)
      PROVE  ExitOf(j)' = ExitOf(j)
  <2>1. plan_next_block_index(j) \in Slots
    BY PlanTyped
  <2>. QED BY <1>2, <1>3, <2>1 DEF ExitOf
<1>6. ASSUME NEW j \in Slots, Queued(j), j # t, j # n
      PROVE  ReachOf(j)' = ReachOf(j)
  <2>1. /\ plan_prev_block_index(j) \in Slots /\ plan_prev_block_index(j) # t
    BY <1>6, IndexFacts
  <2>. QED BY <1>3, <1>4, <2>1 DEF ReachOf
<1>7. KInv'
  <2>1. TailBlock'.millimeters = left
    BY <1>2, <1>3 DEF TailBlock
  <2>. QED BY <1>1, <1>2, <2>1 DEF OInv, KInv
<1>8. ASSUME NEW j \in Slots, Queued(j)' PROVE Feasible(j)'
  <2>1. Queued(j) /\ Feasible(j)
    BY <1>2, <1>8 DEF OInv
  <2>2. NominalSpeed(block_buffer'[j], f_override', r_override') =
          NominalSpeed(block_buffer[j], f_override, r_override)
    <3>1. block_buffer'[j].rapid = block_buffer[j].rapid
      BY <1>3
    <3>2. NominalSpeed(block_buffer'[j], f_override, r_override) =
            NominalSpeed(block_buffer[j], f_override, r_override)
      BY <3>1, NominalByRapid
    <3>. QED BY <1>2, <3>2
  <2>3. CASE j = t
    <3>1. CanSlowDown(t)'
      BY <1>1, <1>3, <1>4, <1>5 DEF CanSlowDown, x
    <3>2. Nominal = NominalSpeed(block_buffer[t], f_override, r_override)
      BY DEF Nominal, TailBlock
    <3>. QED BY <1>1, <1>2, <1>4, <2>2, <2>3, <3>1, <3>2 DEF Feasible
  <2>4. CASE j # t
    <3>1. CanSlowDown(j)'
      BY <1>3, <1>4, <1>5, <2>1, <2>4 DEF Feasible, CanSlowDown
    <3>. QED BY <1>2, <1>3, <1>4, <2>1, <2>2, <2>4, <3>1 DEF Feasible
  <2>. QED BY <2>3, <2>4
<1>9. ASSUME ~hold PROVE GInv'
  <2>1. PICK p \in Slots : p = block_buffer_planned
    BY <1>2
  <2>2. PICK c \in Slots : c = current
    BY <1>2
  <2>3. ASSUME NEW j \in Slots, Queued(j), j # t
        PROVE  /\ Backed(j)' <=> Backed(j)
               /\ Pushed(j) => Pushed(j)'
               /\ block_buffer'[j].entry_speed <= ReachOf(j)'
    <3>1. /\ block_buffer'[j] = block_buffer[j] /\ ExitOf(j)' = ExitOf(j)
          /\ block_buffer[j].entry_speed <= ReachOf(j)
      BY <1>2, <1>3, <1>5, <1>9, <2>3 DEF OInv, GInv, Best, Decided
    <3>2. CASE j # n
      BY <1>6, <2>3, <3>1, <3>2 DEF Pushed, Backed
    <3>3. CASE j = n
      <4>1. plan_prev_block_index(n) = t
        BY IndexFacts
      <4>2. ReachOf(n) = current_speed + left + 1
        <5>1. block_buffer[t].millimeters = left + 1
          BY PlanTyped DEF left
        <5>2. ReachOf(n) = current_speed + block_buffer[t].millimeters
          BY <1>1, <4>1 DEF ReachOf
        <5>. QED BY <1>1, <5>1, <5>2, PlanTyped
      <4>3. ReachOf(n)' = current_speed' + left
        BY <1>3, <1>4, <4>1 DEF ReachOf
      <4>4. block_buffer[n].entry_speed = x
        <5>1. n # block_buffer_head
          BY <1>2, <2>3, <3>3, SizeFacts DEF Queued, Offset, Count, TypeOK, Slots
        <5>. QED BY <5>1 DEF x, ExitOf
      <4>5. x <= ReachOf(n)' /\ (x = ReachOf(n) => x = ReachOf(n)')
        BY <1>1, <1>9, <4>2, <4>3
      <4>. QED BY <3>1, <3>3, <4>4, <4>5 DEF Pushed, Backed
    <3>. QED BY <3>2, <3>3
  <2>4. Queued(p)' /\ p # block_buffer_tail' => Pushed(p)'
    BY <1>2, <1>9, <2>1, <2>3 DEF OInv, GInv
  <2>5. ASSUME NEW j \in Slots, Queued(j)', j # block_buffer_tail'
        PROVE  /\ Pushed(j)' \/ Backed(j)'
               /\ block_buffer'[j].entry_speed <= ReachOf(j)'
    <3>1. Queued(j) /\ j # t /\ Best(j) /\ Decided(j)
      BY <1>2, <1>9, <2>5 DEF OInv, GInv, Decided
    <3>. QED BY <2>3, <3>1 DEF Best
  <2>6. p = block_buffer_planned' /\ c = current'
    BY <1>2, <2>1, <2>2
  <2>. QED BY <1>2, <2>4, <2>5, <2>6, GInvNext
<1>. QED BY <1>2, <1>7, <1>8, <1>9 DEF OInv

(* At its end: the next block is entered at the speed the plan has for it. *)
LEMMA OInvSegmentEnd ==
  ASSUME TInv, TInv', SInv, PInv, JInv, OInv, ~slowed, PrepSegment,
         NEW t \in Slots, t = block_buffer_tail, block_buffer[t].millimeters - 1 = 0
  PROVE  OInv'
<1>. DEFINE n == plan_next_block_index(t)
            x == ExitOf(t)
<1>1. /\ Queued(t) /\ ~IsEmpty /\ ~recalculate /\ ~decelOverride
      /\ current_speed <= x + 1 /\ current_speed \in Nat /\ x \in Nat
      /\ hold => exit_speed = AtLeast(current_speed - 1, 0)
      /\ ~hold => exit_speed = x
      /\ current_speed' = exit_speed
  <2>1. block_buffer[t].millimeters = 1
    BY PlanTyped
  <2>. QED BY <2>1, SegmentFacts, SegmentSpeed, PlanTyped
<1>2. /\ UNCHANGED <<block_buffer_head, current, pc, f_override, r_override,
                     slowed, hold, recalculate, decelOverride, exit_speed>>
      /\ pc = "idle" /\ ~loaded'
      /\ block_buffer_tail' = n /\ n \in Slots /\ n # t
      /\ block_buffer_planned' =
           IF block_buffer_planned = t THEN n ELSE block_buffer_planned
      /\ TypeOK /\ Ends /\ block_buffer_planned \in Slots /\ current \in Slots
      /\ \A j \in Slots : j # t => block_buffer'[j] = block_buffer[j]
  <2>1. TypeOK /\ Ends /\ block_buffer_planned \in Slots /\ current \in Slots
        /\ block_buffer \in [Slots -> Block] /\ n \in Slots /\ n # t
    BY EndsTyped, IndexFacts DEF TInv, TypeOK
  <2>2. /\ UNCHANGED <<block_buffer_head, current, pc, f_override, r_override,
                       slowed, hold, recalculate, decelOverride, exit_speed>>
        /\ pc = "idle"
    BY DEF PrepSegment, overrides
  <2>3. /\ block_buffer' = [block_buffer EXCEPT ![t] = NoBlock]
        /\ ~loaded' /\ block_buffer_tail' = n
        /\ block_buffer_planned' = DiscardedPlanned
    <3>1. ~(TailBlock.millimeters - 1 > 0)
      BY DEF TailBlock
    <3>. QED BY <3>1 DEF PrepSegment
  <2>4. \A j \in Slots : j # t => block_buffer'[j] = block_buffer[j]
    BY <2>1, <2>3
  <2>. QED BY <2>1, <2>2, <2>3, <2>4 DEF DiscardedPlanned
<1>. HIDE DEF x
<1>3. ASSUME NEW j \in Slots
      PROVE  Queued(j)' <=> Queued(j) /\ j # t
  BY <1>1, <1>2, QueueAfterDiscard
<1>4. ASSUME NEW j \in Slots, j # t
      PROVE  /\ EntryOf(j)' = block_buffer[j].entry_speed
             /\ EntryOf(j) = block_buffer[j].entry_speed
  BY <1>2, <1>4 DEF EntryOf
<1>5. ASSUME NEW j \in Slots, Queued(j)
      PROVE  ExitOf(j)' = ExitOf(j)
  <2>1. /\ plan_next_block_index(j) \in Slots
        /\ plan_next_block_index(j) # block_buffer_head => plan_next_block_index(j) # t
    BY <1>5, InQueue, PlanTyped
  <2>. QED BY <1>2, <2>1 DEF ExitOf
<1>6. ASSUME NEW j \in Slots, j # t, j # n
      PROVE  ReachOf(j)' = ReachOf(j)
  <2>1. plan_prev_block_index(j) \in Slots /\ plan_prev_block_index(j) # t
    BY <1>6, IndexFacts
  <2>. QED BY <1>2, <1>4, <2>1 DEF ReachOf
<1>7. KInv'
  <2>1. IsEmpty' <=> n = block_buffer_head
    BY <1>2 DEF IsEmpty
  <2>2. n = block_buffer_head => x = 0
    BY DEF x, ExitOf
  <2>3. n # block_buffer_head => TailBlock'.entry_speed = x
    BY <1>2 DEF x, ExitOf, TailBlock
  <2>4. hold => exit_speed <= x /\ (x = 0 => exit_speed = 0)
    BY <1>1 DEF AtLeast
  <2>5. /\ current_speed' = exit_speed' /\ ~decelOverride' /\ ~recalculate'
    BY <1>1, <1>2
  <2>6. /\ IsEmpty' => current_speed' = 0
        /\ ~IsEmpty' => current_speed' <= TailBlock'.entry_speed
        /\ ~IsEmpty' /\ ~hold' => current_speed' = TailBlock'.entry_speed
    <3>1. CASE hold
      BY <1>1, <1>2, <2>1, <2>2, <2>3, <2>4, <3>1
    <3>2. CASE ~hold
      BY <1>1, <1>2, <2>1, <2>2, <2>3, <3>2
    <3>. QED BY <3>1, <3>2
  <2>. QED BY <1>2, <2>5, <2>6 DEF KInv
<1>8. ASSUME NEW j \in Slots, Queued(j)' PROVE Feasible(j)'
  <2>1. Queued(j) /\ Feasible(j) /\ j # t
    BY <1>3, <1>8 DEF OInv
  <2>2. block_buffer'[j] = block_buffer[j] /\ EntryOf(j)' = EntryOf(j)
        /\ ExitOf(j)' = ExitOf(j)
    BY <1>2, <1>4, <1>5, <2>1
  <2>. QED BY <1>2, <2>1, <2>2 DEF Feasible, CanSlowDown
<1>9. ASSUME ~hold PROVE GInv'
  <2>1. PICK p \in Slots : p = block_buffer_planned'
    BY <1>2
  <2>2. PICK c \in Slots : c = current'
    BY <1>2
  <2>3. ASSUME NEW j \in Slots, Queued(j), j # t, j # n
        PROVE  /\ Backed(j)' <=> Backed(j)
               /\ Pushed(j)' <=> Pushed(j)
               /\ ReachOf(j)' = ReachOf(j)
    <3>1. block_buffer'[j] = block_buffer[j] /\ ExitOf(j)' = ExitOf(j)
      BY <1>2, <1>5, <2>3
    <3>. QED BY <1>6, <2>3, <3>1 DEF Pushed, Backed
  <2>4. Queued(p)' /\ p # block_buffer_tail' => Pushed(p)'
    <3>. SUFFICES ASSUME Queued(p)', p # block_buffer_tail'
                  PROVE  Pushed(p)'
      OBVIOUS
    <3>1. Queued(p) /\ p # t /\ p # n /\ p = block_buffer_planned
      BY <1>2, <1>3, <2>1
    <3>2. Pushed(block_buffer_planned)
      BY <1>9, <3>1 DEF OInv, GInv
    <3>. QED BY <2>3, <3>1, <3>2
  <2>5. ASSUME NEW j \in Slots, Queued(j)', j # block_buffer_tail'
        PROVE  /\ Pushed(j)' \/ Backed(j)'
               /\ block_buffer'[j].entry_speed <= ReachOf(j)'
    <3>1. Queued(j) /\ j # t /\ j # n /\ Best(j) /\ Decided(j)
      BY <1>2, <1>3, <1>9, <2>5 DEF OInv, GInv, Decided
    <3>2. block_buffer'[j] = block_buffer[j]
      BY <1>2, <3>1
    <3>. QED BY <2>3, <3>1, <3>2 DEF Best
  <2>. QED BY <1>2, <2>1, <2>2, <2>4, <2>5, GInvNext
<1>. QED BY <1>2, <1>7, <1>8, <1>9 DEF OInv

LEMMA OInvPrepSegment ==
  ASSUME TInv, TInv', SInv, PInv, JInv, OInv, PrepSegment
  PROVE  OInv'
<1>. SUFFICES ASSUME ~slowed
              PROVE  OInv'
  BY DEF OInv, PrepSegment, overrides
<1>1. PICK t \in Slots : t = block_buffer_tail
  BY DEF TInv, TypeOK
<1>2. PICK left : left = block_buffer[t].millimeters - 1
  OBVIOUS
<1>3. left \in Nat
  BY <1>1, <1>2, SegmentSpeed
<1>4. left > 0 \/ left = 0
  BY <1>3
<1>. QED BY <1>1, <1>2, <1>4, OInvSegmentInside, OInvSegmentEnd

LEMMA OInvStep ==
  TInv /\ TInv' /\ PInv /\ SInv /\ JInv /\ OInv /\ [Next]_vars => OInv'
<1>. SUFFICES ASSUME TInv, TInv', PInv, SInv, JInv, OInv, [Next]_vars
              PROVE  OInv'
  OBVIOUS
<1>1. ASSUME NEW mm \in Lengths, NEW rapid \in BOOLEAN,
             NEW junction \in Junctions, PlanBufferLine(mm, rapid, junction)
      PROVE  OInv'
  BY <1>1, OInvLine
<1>2. CASE planner_recalculate
  BY <1>2, OInvPasses, OInvReverse, OInvForward DEF planner_recalculate
<1>3. ASSUME NEW f \in FeedOverrides, NEW r \in RapidOverrides, Override(f, r)
      PROVE  OInv'
  BY <1>3, OInvOverride
<1>4. CASE st_prep_buffer
  BY <1>4, OInvPrepLoad, OInvPrepSegment DEF st_prep_buffer
<1>5. CASE CycleStart \/ CycleStop
  BY <1>5, OInvCycle
<1>6. CASE FeedHold
  BY <1>6, OInvFeedHold
<1>7. CASE HoldStop
  BY <1>7, OInvHoldStop
<1>8. CASE Reset
  BY <1>8, OInvReset
<1>9. CASE UNCHANGED vars
  BY <1>9, OInvStutter
<1>. QED BY <1>1, <1>2, <1>3, <1>4, <1>5, <1>6, <1>7, <1>8, <1>9 DEF Next

(* All the invariants of this module together. *)
AllInv == TInv /\ PInv /\ SInv /\ JInv /\ OInv

LEMMA AllInvariant == Spec => []AllInv
<1>1. Init => AllInv
  <2>1. Init => PInv /\ SInv
    BY DEF Init, PInv, SInv, IsEmpty
  <2>2. Init => JInv
    <3>1. Init => \A i \in Slots : ~Queued(i)
      BY SizeFacts DEF Init, Slots, Queued, Offset, Count
    <3>. QED BY <3>1 DEF Init, JInv, IsEmpty
  <2>. QED BY <2>1, <2>2, TInvInit, OInvInit DEF AllInv
<1>2. AllInv /\ [Next]_vars => AllInv'
  BY TInvStep, PInvStep, SInvStep, JInvStep, OInvStep DEF AllInv
<1>. QED BY <1>1, <1>2, PTL DEF Spec

(* What PlanIsOptimal says: unless an override was reduced, every block of a
   settled plan can slow down in time, and every entry is at its limit, or as
   fast as its predecessor can accelerate to, or the fastest it can slow down
   from; planner_recalculate never gives away speed, however lines, holds,
   overrides and the stepper interleave. *)
THEOREM PlanStaysOptimal == Spec => []PlanIsOptimal
<1>1. AllInv => PlanIsOptimal
  <2>. SUFFICES ASSUME AllInv, pc = "idle", ~slowed, NEW i \in Slots, Queued(i)
                PROVE  /\ CanSlowDown(i)
                       /\ ~hold /\ i # block_buffer_tail =>
                            Pushed(i) \/ Backed(i)
    BY DEF PlanIsOptimal, Settled, Pushed, Backed, ReachOf
  <2>1. CanSlowDown(i)
    BY DEF AllInv, OInv, Feasible
  <2>2. ~hold /\ i # block_buffer_tail => Pushed(i) \/ Backed(i)
    BY DEF AllInv, OInv, GInv, Best, Decided
  <2>. QED BY <2>1, <2>2
<1>. QED BY <1>1, AllInvariant, PTL

(* What NoSpeedJump says: a step of st_prep_buffer changes the squared speed by
   one unit at most, from one block to the next and from a block to the same
   block planned anew too. *)
THEOREM SpeedNeverJumps == Spec => NoSpeedJump
<1>1. ASSUME AllInv, AllInv', st_prep_buffer, ~slowed
      PROVE  current_speed' \in current_speed - 1 .. current_speed + 1
  <2>. USE <1>1 DEF AllInv
  <2>1. current_speed \in Nat /\ current_speed' \in Nat
    BY DEF TInv, TypeOK
  <2>2. CASE PrepLoad
    BY <2>1, <2>2, LoadFacts
  <2>3. CASE PrepSegment
    <3>1. PICK t \in Slots : t = block_buffer_tail
      BY DEF TInv, TypeOK
    <3>2. current_speed - 1 <= current_speed' /\ current_speed' <= current_speed + 1
      BY <2>3, <3>1, SegmentSpeed
    <3>. QED BY <2>1, <3>2
  <2>. QED BY <2>2, <2>3 DEF st_prep_buffer
<1>2. AllInv /\ AllInv' /\ [Next]_vars =>
        [st_prep_buffer /\ ~slowed =>
           current_speed' \in current_speed - 1 .. current_speed + 1]_vars
  BY <1>1
<1>. QED BY <1>2, AllInvariant, PTL DEF Spec, NoSpeedJump

-----------------------------------------------------------------------------
(* Overrides: the types, and what is due. *)

Stages == {"none", "entered", "holding", "stopped", "retracted", "restore",
           "restored"}
LineKinds == {"none", "motion", "M8", "M9", "M3", "offset", "M30"}

OverridesTypeOK ==
  /\ percent \in [feed : MinPercent .. MaxPercent, rapid : {25, 50, 100},
                  spindle : MinPercent .. MaxPercent]
  /\ asked \subseteq Kinds /\ taken \subseteq Kinds /\ query \in BOOLEAN
  /\ counter \in [wco : Nat, ovr : Nat] /\ shown \in [wco : BOOLEAN, ovr : BOOLEAN]
  /\ rt \in {"report", "motion", "copy", "clear", "accessory", "clear2", "run"}
  /\ coolant \in BOOLEAN /\ flood \in BOOLEAN
  /\ line \in [does : LineKinds, step : {0, 1}]
  /\ block \in {"none", "wet", "dry"}
  /\ mode \in {"IDLE", "CYCLE", "HOLD", "SAFETY_DOOR"}
  /\ suspend \in [stage : Stages, flood : BOOLEAN]

(* What the host has not been shown is due in the next reports: its counter
   has run out.  The end of a program and a line that changes the offsets
   are excepted between their two steps. *)
Due ==
  /\ line.step = 0 \/ line.does \in {"offset", "M30"}
  /\ line.does # "M30" => shown.ovr \/ counter.ovr = 0
  /\ line.step = 0 => shown.wco \/ counter.wco = 0

OverridesIInv == OverridesTypeOK /\ Due

-----------------------------------------------------------------------------
(* A number below the modulus is its own remainder. *)
LEMMA SmallRemainder ==
  ASSUME NEW n \in Nat, NEW x \in 0 .. n - 1 PROVE x % n = x
OBVIOUS

(* A remainder is below the modulus. *)
LEMMA RemainderType ==
  ASSUME NEW n \in Nat \ {0}, NEW x \in Int PROVE x % n \in 0 .. n - 1
OBVIOUS

(* What the constants are assumed to be, as facts. *)
LEMMA OverridesConstants ==
  /\ MinPercent \in Nat /\ MaxPercent \in Nat /\ Modulus \in Nat \ {0}
  /\ DefaultPercent \in MinPercent .. MaxPercent /\ MaxPercent < Modulus
  /\ FineStep \in Nat \ {0} /\ CoarseStep \in Nat /\ FineStep < CoarseStep
  /\ CoarseStep <= MinPercent /\ MinPercent < CoarseStep + FineStep
  /\ MaxPercent + CoarseStep + FineStep < Modulus
  /\ BusyCount - 1 \in Nat /\ IdleCount - 1 \in Nat
BY OverridesAssumption

(* The clamped byte of a percentage that was changed by steps. *)
Clamped(sum) ==
  LET byte == sum % Modulus
  IN  IF byte > MaxPercent THEN MaxPercent
      ELSE IF byte < MinPercent THEN MinPercent ELSE byte

(* The byte is clamped into the range, and without a wrap it is the sum that is. *)
LEMMA ClampedRange ==
  ASSUME NEW x \in Int
  PROVE  /\ Clamped(x) \in MinPercent .. MaxPercent
         /\ x \in 0 .. Modulus - 1 =>
              Clamped(x) = IF x > MaxPercent THEN MaxPercent
                           ELSE IF x < MinPercent THEN MinPercent ELSE x
<1>1. x % Modulus \in 0 .. Modulus - 1
  BY OverridesConstants, RemainderType
<1>2. x \in 0 .. Modulus - 1 => x % Modulus = x
  BY OverridesConstants, SmallRemainder
<1> DEFINE byte == x % Modulus
<1>3. /\ byte \in 0 .. Modulus - 1 /\ (x \in 0 .. Modulus - 1 => byte = x)
      /\ Clamped(x) = IF byte > MaxPercent THEN MaxPercent
                      ELSE IF byte < MinPercent THEN MinPercent ELSE byte
  BY <1>1, <1>2 DEF Clamped
<1> HIDE DEF byte
<1> QED BY <1>3, OverridesConstants

(* A merged change goes where it was told to; the two decrements together only
   from where they do not wrap around. *)
LEMMA AdjustedGoes ==
  ASSUME NEW v \in MinPercent .. MaxPercent, NEW how
  PROVE  /\ Adjusted(v, how) \in MinPercent .. MaxPercent
         /\ Goes(how, v, Adjusted(v, how))
<1> DEFINE start == IF "=" \in how THEN DefaultPercent ELSE v
           up == IF "++" \in how THEN CoarseStep ELSE 0
           down == IF "--" \in how THEN CoarseStep ELSE 0
           upFine == IF "+" \in how THEN FineStep ELSE 0
           downFine == IF "-" \in how THEN FineStep ELSE 0
           sum == start + up - down + upFine - downFine
           new == Adjusted(v, how)
<1>1. new = Clamped(sum)
  BY DEF Adjusted, Clamped
<1>2. /\ start \in MinPercent .. MaxPercent
      /\ up \in {0, CoarseStep} /\ down \in {0, CoarseStep}
      /\ upFine \in {0, FineStep} /\ downFine \in {0, FineStep}
  BY OverridesConstants
<1>3. /\ how \subseteq {"+", "++"} => start = v /\ down = 0 /\ downFine = 0
      /\ how = {"-"} => /\ start = v /\ up = 0 /\ down = 0 /\ upFine = 0
                        /\ downFine = FineStep
      /\ how = {"--"} => /\ start = v /\ up = 0 /\ downFine = 0 /\ upFine = 0
                         /\ down = CoarseStep
      /\ how = {"-", "--"} => /\ start = v /\ up = 0 /\ upFine = 0
                              /\ down = CoarseStep /\ downFine = FineStep
      /\ how = {"="} => /\ start = DefaultPercent /\ up = 0 /\ down = 0
                        /\ upFine = 0 /\ downFine = 0
  OBVIOUS
<1> HIDE DEF start, up, down, upFine, downFine, new
<1>4. sum \in Int
  BY <1>2, OverridesConstants
<1>5. /\ new \in MinPercent .. MaxPercent
      /\ sum \in 0 .. Modulus - 1 =>
           new = IF sum > MaxPercent THEN MaxPercent
                 ELSE IF sum < MinPercent THEN MinPercent ELSE sum
  BY <1>1, <1>4, ClampedRange
<1>6. how \subseteq {"+", "++"} => new >= v
  BY <1>2, <1>3, <1>5, OverridesConstants
<1>7. how = {"-"} => new <= v
  BY <1>2, <1>3, <1>5, OverridesConstants
<1>8. how = {"--"} => new <= v
  BY <1>2, <1>3, <1>5, OverridesConstants
<1>9. how = {"-", "--"} /\ v >= CoarseStep + FineStep => new < v
  BY <1>2, <1>3, <1>5, OverridesConstants
<1>10. how = {"="} => new = DefaultPercent
  BY <1>2, <1>3, <1>5, OverridesConstants
<1>11. Goes(how, v, new)
  BY <1>6, <1>7, <1>8, <1>9, <1>10 DEF Goes
<1> QED BY <1>5, <1>11 DEF new

-----------------------------------------------------------------------------
(* After power-up the host has been shown nothing and everything is due. *)
LEMMA OverridesInitHolds == OverridesInit => OverridesIInv
<1> SUFFICES ASSUME OverridesInit PROVE OverridesIInv
  OBVIOUS
<1> USE DEF OverridesInit, Defaults, NotShown, NoLine, NotSuspended, Unblocked
<1>1. OverridesTypeOK
  BY OverridesConstants DEF OverridesTypeOK, LineKinds, Stages
<1>2. Due
  BY DEF Due
<1> QED BY <1>1, <1>2 DEF OverridesIInv

(* Only known characters come. *)
LEMMA RequestsAreKinds == Requests \subseteq Kinds
BY OverridesAssumption

(* The characters: flags only, or a fresh start. *)
LEMMA CharactersKeep ==
  OverridesIInv /\ (Request \/ Query \/ OverridesReset) => OverridesIInv'
<1> SUFFICES ASSUME OverridesIInv, Request \/ Query \/ OverridesReset
             PROVE  OverridesIInv'
  OBVIOUS
<1> USE DEF OverridesIInv
<1>1. CASE Request
  <2>1. asked' \subseteq Kinds
    BY <1>1, RequestsAreKinds DEF Request, SetFlag, OverridesTypeOK
  <2> QED BY <1>1, <2>1 DEF Request, OverridesTypeOK, Due, machineVars
<1>2. CASE Query
  BY <1>2 DEF Query, OverridesTypeOK, Due, machineVars
<1>3. CASE OverridesReset
  <2> USE DEF OverridesReset, Defaults, NotShown, NoLine, NotSuspended, Unblocked
  <2>1. percent' \in [feed : MinPercent .. MaxPercent, rapid : {25, 50, 100},
                      spindle : MinPercent .. MaxPercent]
    BY <1>3, OverridesConstants
  <2>2. /\ counter' \in [wco : Nat, ovr : Nat]
        /\ shown' \in [wco : BOOLEAN, ovr : BOOLEAN]
    BY <1>3
  <2>3. /\ line' \in [does : LineKinds, step : {0, 1}]
        /\ suspend' \in [stage : Stages, flood : BOOLEAN]
    BY <1>3 DEF LineKinds, Stages
  <2>4. OverridesTypeOK'
    BY <1>3, <2>1, <2>2, <2>3, Zenon DEF OverridesTypeOK
  <2>5. Due'
    BY <1>3 DEF Due
  <2> QED BY <2>4, <2>5
<1> QED BY <1>1, <1>2, <1>3

(* A counter that is made to run out, and what is hidden by it. *)
LEMMA Hiding ==
  ASSUME OverridesTypeOK
  PROVE  /\ Refresh(counter) \in [wco : Nat, ovr : Nat]
         /\ Refresh(counter).ovr = 0 /\ Refresh(counter).wco = counter.wco
         /\ Hidden("ovr") \in [wco : BOOLEAN, ovr : BOOLEAN]
         /\ Hidden("ovr").wco = shown.wco
BY DEF OverridesTypeOK, Refresh, Hidden

(* A report counts down, or shows and starts to count anew. *)
LEMMA ReportKeeps == OverridesIInv /\ Report => OverridesIInv'
<1> SUFFICES ASSUME OverridesIInv, Report PROVE OverridesIInv'
  OBVIOUS
<1> USE DEF OverridesIInv, machineVars
<1>1. CASE ~query
  BY <1>1 DEF Report, OverridesTypeOK, Due
<1>2. CASE query
  <2>1. /\ rt' = "motion" /\ query' = FALSE
        /\ counter' = [wco |-> IF ShowsOffsets THEN RefreshCount ELSE counter.wco - 1,
                       ovr |-> CASE ShowsOverrides -> RefreshCount
                                 [] counter.ovr = 0 -> 0
                                 [] OTHER -> counter.ovr - 1]
        /\ shown' = [wco |-> shown.wco \/ ShowsOffsets,
                     ovr |-> shown.ovr \/ ShowsOverrides]
        /\ UNCHANGED <<percent, asked, taken, coolant, line, block, mode,
                       suspend, flood>>
    BY <1>2 DEF Report, report_realtime_status
  <2>2. RefreshCount \in Nat
    BY OverridesConstants DEF RefreshCount
  <2>3. counter.wco \in Nat /\ counter.ovr \in Nat
        /\ shown.wco \in BOOLEAN /\ shown.ovr \in BOOLEAN
    BY DEF OverridesTypeOK
  <2>4. /\ counter'.wco \in Nat /\ counter'.ovr \in Nat
        /\ ~ShowsOverrides /\ counter.ovr = 0 => counter'.ovr = 0
    BY <2>1, <2>2, <2>3 DEF ShowsOffsets, ShowsOverrides
  <2>5. counter' \in [wco : Nat, ovr : Nat]
        /\ shown' \in [wco : BOOLEAN, ovr : BOOLEAN]
    BY <2>1, <2>3, <2>4 DEF ShowsOffsets, ShowsOverrides
  <2>6. OverridesTypeOK'
    BY <2>1, <2>5 DEF OverridesTypeOK
  <2>7. Due'
    BY <2>1, <2>3, <2>4 DEF Due, ShowsOffsets
  <2> QED BY <2>6, <2>7
<1> QED BY <1>1, <1>2

(* The stages of a suspension keep its type. *)
LEMMA OtherStages ==
  ASSUME OverridesTypeOK
  PROVE  /\ suspend \in [stage : Stages, flood : BOOLEAN]
         /\ \A s \in Stages :
              [suspend EXCEPT !.stage = s] \in [stage : Stages, flood : BOOLEAN]
BY DEF OverridesTypeOK

(* Motions start, are held and end. *)
LEMMA MotionKeeps == OverridesIInv /\ Motion => OverridesIInv'
<1> SUFFICES ASSUME OverridesIInv, Motion PROVE OverridesIInv'
  OBVIOUS
<1>1. /\ UNCHANGED <<percent, asked, query, counter, taken, coolant, line, flood,
                     shown>>
      /\ rt' = "copy"
      /\ block' \in {"none", "wet", "dry"}
      /\ mode' \in {"IDLE", "CYCLE", "HOLD", "SAFETY_DOOR"}
  BY DEF Motion, OverridesIInv, OverridesTypeOK, requestVars, Unblocked
<1>2. suspend' \in [stage : Stages, flood : BOOLEAN]
  <2>1. /\ NotSuspended \in [stage : Stages, flood : BOOLEAN]
        /\ [NotSuspended EXCEPT !.stage = "entered"]
             \in [stage : Stages, flood : BOOLEAN]
    BY DEF NotSuspended, Stages
  <2>2. \/ suspend' = suspend \/ suspend' = NotSuspended
        \/ suspend' = [NotSuspended EXCEPT !.stage = "entered"]
        \/ \E s \in Stages : suspend' = [suspend EXCEPT !.stage = s]
    BY DEF Motion, Stages
  <2> QED BY <2>1, <2>2, OtherStages DEF OverridesIInv
<1> QED BY <1>1, <1>2 DEF OverridesIInv, OverridesTypeOK, Due

(* The flags are copied. *)
LEMMA CopiesKeep == OverridesIInv /\ (CopyMotion \/ CopyAccessory) => OverridesIInv'
<1> SUFFICES ASSUME OverridesIInv, CopyMotion \/ CopyAccessory
             PROVE  OverridesIInv'
  OBVIOUS
<1>1. /\ UNCHANGED <<percent, asked, query, counter, coolant, line, block, mode,
                     suspend, flood, shown>>
      /\ taken' \subseteq Kinds
      /\ rt' \in {"accessory", "clear", "run", "clear2"}
  BY DEF CopyMotion, CopyAccessory, OverridesIInv, OverridesTypeOK, requestVars,
         machineVars
<1> QED BY <1>1 DEF OverridesIInv, OverridesTypeOK, Due

(* What the overrides do to the percentages. *)
LEMMA MotionApplied ==
  ASSUME OverridesIInv, ApplyMotion
  PROVE  /\ percent' \in [feed : MinPercent .. MaxPercent, rapid : {25, 50, 100},
                          spindle : MinPercent .. MaxPercent]
         /\ Goes(Asked("feed"), percent.feed, percent'.feed)
<1>1. percent \in [feed : MinPercent .. MaxPercent, rapid : {25, 50, 100},
                   spindle : MinPercent .. MaxPercent]
  BY DEF OverridesIInv, OverridesTypeOK
<1> DEFINE new == Adjusted(percent.feed, Asked("feed"))
           rapid == Rapid(Asked("rapid"))
<1>2. new \in MinPercent .. MaxPercent /\ Goes(Asked("feed"), percent.feed, new)
  BY <1>1, AdjustedGoes
<1>3. rapid \in {25, 50, 100}
  BY <1>1 DEF Rapid
<1>4. percent' = [percent EXCEPT !.feed = new, !.rapid = rapid]
  BY DEF ApplyMotion, NewPercent
<1> HIDE DEF new, rapid
<1>5. percent'.feed = new
  BY <1>1, <1>4
<1> QED BY <1>1, <1>2, <1>3, <1>4, <1>5

(* A change of the feed or rapid percentage makes its counter run out. *)
LEMMA ApplyMotionKeeps == OverridesIInv /\ ApplyMotion => OverridesIInv'
<1> SUFFICES ASSUME OverridesIInv, ApplyMotion PROVE OverridesIInv'
  OBVIOUS
<1>1. percent' \in [feed : MinPercent .. MaxPercent, rapid : {25, 50, 100},
                    spindle : MinPercent .. MaxPercent]
  BY MotionApplied
<1>2. /\ rt' = "accessory" /\ taken' = {} /\ asked' \subseteq asked
      /\ UNCHANGED <<query, coolant, line, block, mode, suspend, flood>>
      /\ \/ counter' = Refresh(counter) /\ shown' = Hidden("ovr")
         \/ UNCHANGED <<counter, shown>>
  BY DEF ApplyMotion, NewPercent, ClearMotionFlags, machineVars
<1> QED BY <1>1, <1>2, Hiding DEF OverridesIInv, OverridesTypeOK, Due

(* What they do to the spindle's. *)
LEMMA AccessoryApplied ==
  ASSUME OverridesIInv, ApplyAccessory
  PROVE  /\ percent' \in [feed : MinPercent .. MaxPercent, rapid : {25, 50, 100},
                          spindle : MinPercent .. MaxPercent]
         /\ Goes(Asked("spindle"), percent.spindle, percent'.spindle)
<1>1. percent \in [feed : MinPercent .. MaxPercent, rapid : {25, 50, 100},
                   spindle : MinPercent .. MaxPercent]
  BY DEF OverridesIInv, OverridesTypeOK
<1>2. /\ NewSpindle \in MinPercent .. MaxPercent
      /\ Goes(Asked("spindle"), percent.spindle, NewSpindle)
  BY <1>1, AdjustedGoes DEF NewSpindle
<1>3. percent' = [percent EXCEPT !.spindle = NewSpindle]
  BY DEF ApplyAccessory
<1>4. percent'.spindle = NewSpindle
  BY <1>1, <1>3
<1> QED BY <1>1, <1>2, <1>3, <1>4

(* So does one of the spindle or the coolant. *)
LEMMA ApplyAccessoryKeeps == OverridesIInv /\ ApplyAccessory => OverridesIInv'
<1> SUFFICES ASSUME OverridesIInv, ApplyAccessory PROVE OverridesIInv'
  OBVIOUS
<1>1. percent' \in [feed : MinPercent .. MaxPercent, rapid : {25, 50, 100},
                    spindle : MinPercent .. MaxPercent]
  BY AccessoryApplied
<1>2. /\ rt' = "run" /\ taken' = {} /\ asked' \subseteq asked
      /\ coolant' \in BOOLEAN /\ flood' \in BOOLEAN
      /\ UNCHANGED <<query, line, block, mode, suspend>>
      /\ \/ counter' = Refresh(counter) /\ shown' = Hidden("ovr")
         \/ UNCHANGED <<counter, shown>>
  BY DEF ApplyAccessory, ClearAccessoryFlags, machineVars, Toggled,
         OverridesIInv, OverridesTypeOK
<1> QED BY <1>1, <1>2, Hiding DEF OverridesIInv, OverridesTypeOK, Due

(* The loop of a suspension sets the outputs and asks for a report. *)
LEMMA SuspendedKeeps == OverridesIInv /\ Suspended => OverridesIInv'
<1> SUFFICES ASSUME OverridesIInv, Suspended PROVE OverridesIInv'
  OBVIOUS
<1>1. /\ UNCHANGED <<percent, asked, query, taken, coolant, line, block, mode>>
      /\ rt' = "report"
      /\ flood' \in BOOLEAN
      /\ \/ counter' = Refresh(counter) /\ shown' = Hidden("ovr")
         \/ UNCHANGED <<counter, shown>>
  BY DEF Suspended, SetOutputs, OverridesIInv, OverridesTypeOK, requestVars
<1>2. suspend' \in [stage : Stages, flood : BOOLEAN]
  <2>1. \/ suspend' = suspend
        \/ \E s \in Stages : suspend' = [suspend EXCEPT !.stage = s]
        \/ suspend' = [stage |-> "holding",
                       flood |-> IF block = Unblocked THEN coolant
                                                   ELSE block = "wet"]
    BY DEF Suspended, Stages
  <2>2. CASE suspend' = [stage |-> "holding",
                         flood |-> IF block = Unblocked THEN coolant
                                                     ELSE block = "wet"]
    <3>1. (IF block = Unblocked THEN coolant ELSE block = "wet") \in BOOLEAN
      BY DEF OverridesIInv, OverridesTypeOK
    <3> QED BY <2>2, <3>1 DEF Stages
  <2> QED BY <2>1, <2>2, OtherStages DEF OverridesIInv
<1> QED BY <1>1, <1>2, Hiding DEF OverridesIInv, OverridesTypeOK, Due

(* The lines: each says what it changes, or makes its counter run out. *)
LEMMA ParserKeeps == OverridesIInv /\ Parser => OverridesIInv'
<1> SUFFICES ASSUME OverridesIInv, Parser PROVE OverridesIInv'
  OBVIOUS
<1> USE DEF OverridesIInv, NoLine, NotShown
<1>1. /\ UNCHANGED <<asked, query, taken, mode, suspend>> /\ rt' = "report"
  BY DEF Parser, requestVars
<1>2. /\ line \in [does : LineKinds, step : {0, 1}] /\ coolant \in BOOLEAN
      /\ flood \in BOOLEAN /\ shown \in [wco : BOOLEAN, ovr : BOOLEAN]
      /\ counter \in [wco : Nat, ovr : Nat]
      /\ percent \in [feed : MinPercent .. MaxPercent, rapid : {25, 50, 100},
                      spindle : MinPercent .. MaxPercent]
  BY DEF OverridesTypeOK
<1>3. /\ NoLine \in [does : LineKinds, step : {0, 1}]
      /\ NoLine.does # "M30" /\ NoLine.step = 0
      /\ [line EXCEPT !.step = 1] \in [does : LineKinds, step : {0, 1}]
      /\ [line EXCEPT !.step = 1].does = line.does
      /\ [line EXCEPT !.step = 1].step = 1
  BY <1>2 DEF LineKinds
<1>4. CASE NextLine
  <2>1. /\ line = NoLine /\ line' \in [does : LineKinds, step : {0, 1}]
        /\ line'.step = 0
        /\ UNCHANGED <<percent, counter, coolant, block, flood, shown>>
    BY <1>4 DEF NextLine, LineKinds
  <2> QED BY <1>1, <1>3, <2>1 DEF OverridesTypeOK, Due
<1>5. CASE PlanMotion
  <2>1. /\ line.does = "motion" /\ line.step = 0 /\ line' = NoLine
        /\ block' \in {"none", "wet", "dry"}
        /\ UNCHANGED <<percent, counter, coolant, flood, shown>>
    BY <1>5 DEF PlanMotion, OnLine
  <2> HIDE DEF NoLine
  <2> QED BY <1>1, <1>3, <2>1 DEF OverridesTypeOK, Due
<1>6. CASE SyncCoolant \/ SyncSpindle
  <2>1. /\ line.does \in {"M8", "M9", "M3"} /\ line' = NoLine
        /\ coolant' \in BOOLEAN /\ flood' \in BOOLEAN
        /\ \/ counter' = Refresh(counter) /\ shown' = Hidden("ovr")
           \/ UNCHANGED <<counter, shown>>
        /\ UNCHANGED <<percent, block>>
    BY <1>2, <1>6 DEF SyncCoolant, SyncSpindle, SetOutputs
  <2> HIDE DEF NoLine
  <2> QED BY <1>1, <1>3, <2>1, Hiding DEF OverridesTypeOK, Due
<1>7. CASE SetOffset
  <2>1. /\ line.does = "offset" /\ line' = [line EXCEPT !.step = 1]
        /\ shown' = Hidden("wco")
        /\ UNCHANGED <<percent, counter, coolant, block, flood>>
    BY <1>7 DEF SetOffset, OnLine, ToStep
  <2>2. /\ shown' \in [wco : BOOLEAN, ovr : BOOLEAN] /\ shown'.ovr = shown.ovr
    BY <1>2, <2>1 DEF Hidden
  <2> QED BY <1>1, <1>3, <2>1, <2>2 DEF OverridesTypeOK, Due
<1>8. CASE FlagChange
  <2>1. /\ line.does = "offset" /\ line' = NoLine /\ counter' = Flagged(counter)
        /\ UNCHANGED <<percent, coolant, block, flood, shown>>
    BY <1>8 DEF FlagChange, OnLine
  <2>2. /\ counter' \in [wco : Nat, ovr : Nat] /\ counter'.wco = 0
        /\ counter'.ovr = counter.ovr
    BY <1>2, <2>1 DEF Flagged
  <2> HIDE DEF NoLine
  <2> QED BY <1>1, <1>3, <2>1, <2>2 DEF OverridesTypeOK, Due
<1>9. CASE EndProgram
  <2>1. /\ line.does = "M30" /\ line' = [line EXCEPT !.step = 1]
        /\ percent' = Defaults /\ coolant' = FALSE /\ shown' = NotShown
        /\ UNCHANGED <<counter, block, flood>>
    BY <1>9 DEF EndProgram, OnLine, ToStep
  <2>2. percent' \in [feed : MinPercent .. MaxPercent, rapid : {25, 50, 100},
                      spindle : MinPercent .. MaxPercent]
    BY <2>1, OverridesConstants DEF Defaults
  <2>3. /\ line' \in [does : LineKinds, step : {0, 1}]
        /\ line'.does = "M30" /\ line'.step = 1
        /\ shown' \in [wco : BOOLEAN, ovr : BOOLEAN]
    BY <1>3, <2>1
  <2>4. OverridesTypeOK'
    BY <1>1, <2>1, <2>2, <2>3 DEF OverridesTypeOK
  <2>5. Due'
    BY <2>3 DEF Due
  <2> QED BY <2>4, <2>5
<1>10. CASE EndOutputs
  <2>1. /\ line' = NoLine /\ counter' = [wco |-> 0, ovr |-> 0]
        /\ flood' = FALSE /\ shown' = NotShown
        /\ UNCHANGED <<percent, coolant, block>>
    BY <1>10 DEF EndOutputs
  <2>2. /\ counter' \in [wco : Nat, ovr : Nat] /\ flood' \in BOOLEAN
        /\ line' \in [does : LineKinds, step : {0, 1}]
        /\ shown' \in [wco : BOOLEAN, ovr : BOOLEAN]
    BY <1>3, <2>1
  <2>3. OverridesTypeOK'
    BY <1>1, <2>1, <2>2 DEF OverridesTypeOK
  <2>4. Due'
    BY <2>1 DEF Due
  <2> QED BY <2>3, <2>4
<1>11. CASE Wait
  BY <1>1, <1>11 DEF Wait, OverridesTypeOK, Due
<1> QED BY <1>4, <1>5, <1>6, <1>7, <1>8, <1>9, <1>10, <1>11 DEF Parser

-----------------------------------------------------------------------------
(* Every step. *)
LEMMA OverridesStepKeeps ==
  OverridesIInv /\ [OverridesNext]_overrideVars => OverridesIInv'
<1> SUFFICES ASSUME OverridesIInv, [OverridesNext]_overrideVars
             PROVE  OverridesIInv'
  OBVIOUS
<1>1. CASE UNCHANGED overrideVars
  BY <1>1 DEF overrideVars, requestVars, machineVars, OverridesIInv,
              OverridesTypeOK, Due
<1> QED BY <1>1, CharactersKeep, ReportKeeps, MotionKeeps, CopiesKeep,
           ApplyMotionKeeps, ApplyAccessoryKeeps, SuspendedKeeps, ParserKeeps
        DEF OverridesNext

(* Whatever characters, lines, resets and reports come in whatever order,
   what the host has not been shown is due. *)
THEOREM ChangesAreDue == OverridesSpec => []OverridesIInv
BY OverridesInitHolds, OverridesStepKeeps, PTL DEF OverridesSpec

(* A report that answers a query shows the percentages in force or is the one
   of the offsets, after which theirs is due; and between two lines it leaves
   no change of the offsets untold. *)
THEOREM ReportsAlwaysKeepUp == OverridesSpec => ReportsKeepUp
<1>1. OverridesIInv /\ Report /\ query =>
        /\ line.does # "M30" => shown'.ovr \/ ShowsOffsets
        /\ line.step = 0 => shown'.wco
  <2> SUFFICES ASSUME OverridesIInv, Report, query
               PROVE  /\ line.does # "M30" => shown'.ovr \/ ShowsOffsets
                      /\ line.step = 0 => shown'.wco
    OBVIOUS
  <2>1. shown' = [wco |-> shown.wco \/ ShowsOffsets,
                  ovr |-> shown.ovr \/ ShowsOverrides]
    BY DEF Report, report_realtime_status
  <2> QED BY <2>1 DEF OverridesIInv, Due, ShowsOffsets, ShowsOverrides
<1> QED BY <1>1, ChangesAreDue, PTL DEF ReportsKeepUp

(* A change of the feed or spindle percentage goes where the characters that
   were merged into it tell it to go, the minimum and the byte it is computed
   in notwithstanding. *)
THEOREM OverridesAlwaysObey == OverridesSpec => OverridesObey
<1>1. OverridesIInv /\ ApplyMotion =>
        Goes(Asked("feed"), percent.feed, percent'.feed)
  BY MotionApplied
<1>2. OverridesIInv /\ ApplyAccessory =>
        Goes(Asked("spindle"), percent.spindle, percent'.spindle)
  BY AccessoryApplied
<1> QED BY <1>1, <1>2, ChangesAreDue, PTL DEF OverridesObey

-----------------------------------------------------------------------------
(* Settings: what the EEPROM holds. *)

(* The records and how many bytes each has, the checksum included. *)
Memory == {"version", "global", "coord", "line"}
Room == [version |-> 1, global |-> 6, coord |-> 3, line |-> 3]

Byte == 0 .. 255
SumByte == Byte \cup {Checksum(s) : s \in Seq(Byte)}
Proper(flags) == Has(flags, SoftLimitBit) => Has(flags, HomingBit)

(* What may be at a place of a record: the flags, which are the fourth byte of
   the settings, are never improper, not when they are erased either. *)
Fits(rec, i, b) ==
  /\ b \in SumByte
  /\ rec = "version" \/ i < Room[rec] => b \in Byte
  /\ rec = "global" /\ i = 4 => Proper(b)

Pair == {s \in Seq(Byte) : Len(s) = 2}
SettingsData == {s \in Seq(Byte) : Len(s) = 5 /\ Proper(s[4])}

LEMMA Rooms ==
  /\ Room["version"] = 1 /\ Room["global"] = 6 /\ Room["coord"] = 3
  /\ Room["line"] = 3
BY DEF Room

LEMMA FlagsStayProper ==
  ASSUME NEW f \in Byte, Proper(f)
  PROVE  /\ Has(f, HomingBit) => /\ With(f, SoftLimitBit) \in Byte
                                 /\ Proper(With(f, SoftLimitBit))
         /\ Without(f, SoftLimitBit) \in Byte /\ Proper(Without(f, SoftLimitBit))
         /\ With(f, HomingBit) \in Byte /\ Proper(With(f, HomingBit))
         /\ HomingOff(f) \in Byte /\ Proper(HomingOff(f))
<1> DEFINE h(g) == (g \div 16) % 2 = 1
           s(g) == (g \div 32) % 2 = 1
<1>1. \A g \in Byte : /\ Has(g, HomingBit) <=> h(g)
                      /\ Has(g, SoftLimitBit) <=> s(g)
                      /\ Proper(g) <=> (s(g) => h(g))
  BY DEF Has, HomingBit, SoftLimitBit, Proper
<1>2. /\ ~s(f) => f + 32 \in Byte /\ s(f + 32) /\ (h(f + 32) <=> h(f))
      /\ s(f) => f - 32 \in Byte /\ ~s(f - 32) /\ (h(f - 32) <=> h(f))
  BY DEF Byte
<1>3. \A g \in Byte :
        /\ ~h(g) => g + 16 \in Byte /\ h(g + 16)
        /\ h(g) => g - 16 \in Byte /\ (s(g - 16) <=> s(g))
  BY DEF Byte
<1> HIDE DEF h, s
<1>4. /\ With(f, SoftLimitBit) = IF s(f) THEN f ELSE f + 32
      /\ Without(f, SoftLimitBit) = IF s(f) THEN f - 32 ELSE f
      /\ With(f, HomingBit) = IF h(f) THEN f ELSE f + 16
      /\ Without(f, HomingBit) = IF h(f) THEN f - 16 ELSE f
  BY <1>1 DEF With, Without, HomingBit, SoftLimitBit
<1>5. ASSUME NEW g \in Byte
      PROVE  Without(g, SoftLimitBit) \in Byte /\ ~s(Without(g, SoftLimitBit))
  <2>1. s(g) => g - 32 \in Byte /\ ~s(g - 32)
    BY DEF Byte, s
  <2>2. Without(g, SoftLimitBit) = IF s(g) THEN g - 32 ELSE g
    BY <1>1 DEF Without, SoftLimitBit
  <2> QED BY <2>1, <2>2
<1>6. Without(f, HomingBit) \in Byte
  BY <1>3, <1>4
<1>7. HomingOff(f) \in Byte /\ ~s(HomingOff(f))
  BY <1>5, <1>6 DEF HomingOff
<1>8. /\ With(f, HomingBit) \in Byte /\ h(With(f, HomingBit))
  BY <1>3, <1>4
<1>9. Has(f, HomingBit) => /\ With(f, SoftLimitBit) \in Byte
                           /\ h(With(f, SoftLimitBit))
  BY <1>1, <1>2, <1>4
<1> QED BY <1>1, <1>5, <1>7, <1>8, <1>9

(* Writing a byte of a record. *)
LEMMA ByteTexts ==
  /\ Byte \subseteq SumByte /\ 0 \in Byte /\ 255 \in Byte /\ 10 \in Byte
  /\ Proper(255) /\ Proper(0)
BY DEF Byte, SumByte, Proper, Has, HomingBit, SoftLimitBit

LEMMA ErasedFits ==
  ASSUME NEW rec \in Memory, NEW i \in Nat
  PROVE  Fits(rec, i, 255)
BY ByteTexts DEF Fits

(* A chip: each record with as many bytes as it has, each of which fits. *)
Chip(e) ==
  /\ DOMAIN e = Memory
  /\ \A rec \in Memory : e[rec] \in Seq(SumByte) /\ Len(e[rec]) = Room[rec]
  /\ \A rec \in Memory : \A i \in 1 .. Room[rec] : Fits(rec, i, e[rec][i])

PutTo(e, f, r, k, b) == f = [e EXCEPT ![r][k] = b]

LEMMA PutIs ==
  ASSUME NEW e, Chip(e), NEW r \in Memory, NEW k \in 1 .. Room[r], NEW b, Fits(r, k, b),
         NEW f, PutTo(e, f, r, k, b)
  PROVE  /\ Chip(f)
         /\ \A rec \in Memory : \A i \in 1 .. Room[rec] :
              f[rec][i] = IF rec = r /\ i = k THEN b ELSE e[rec][i]
<1>1. DOMAIN f = Memory
  BY DEF Chip, PutTo
<1>2. b \in SumByte
  BY DEF Fits
<1>3. ASSUME NEW rec \in Memory
      PROVE  /\ f[rec] \in Seq(SumByte) /\ Len(f[rec]) = Room[rec]
             /\ \A i \in 1 .. Room[rec] :
                  f[rec][i] = IF rec = r /\ i = k THEN b ELSE e[rec][i]
  <2>1. e[rec] \in Seq(SumByte) /\ Len(e[rec]) = Room[rec]
    BY DEF Chip
  <2>2. CASE rec # r
    <3>1. f[rec] = e[rec]
      BY <2>2 DEF Chip, PutTo
    <3> QED BY <2>1, <2>2, <3>1
  <2>3. CASE rec = r
    <3>1. f[rec] = [e[rec] EXCEPT ![k] = b]
      BY <2>3 DEF Chip, PutTo
    <3>2. k \in 1 .. Len(e[rec])
      BY <2>1, <2>3
    <3>3. /\ f[rec] \in Seq(SumByte) /\ Len(f[rec]) = Len(e[rec])
          /\ \A i \in 1 .. Len(e[rec]) : f[rec][i] = IF i = k THEN b ELSE e[rec][i]
      BY <1>2, <2>1, <3>1, <3>2
    <3> QED BY <2>1, <2>3, <3>3
  <2> QED BY <2>2, <2>3
<1>4. ASSUME NEW rec \in Memory, NEW i \in 1 .. Room[rec]
      PROVE  Fits(rec, i, f[rec][i])
  BY <1>3 DEF Chip
<1> QED BY <1>1, <1>3, <1>4 DEF Chip

Blank(n) == [i \in 1 .. n |-> 255]

LEMMA BlankIs ==
  ASSUME NEW n \in Nat
  PROVE  /\ Blank(n) \in Seq(SumByte) /\ Len(Blank(n)) = n
         /\ \A i \in 1 .. n : Blank(n)[i] = 255
<1>1. 255 \in SumByte
  BY ByteTexts
<1> QED BY <1>1 DEF Blank

LEMMA ErasedIsChip == Chip(Erased)
<1>1. DOMAIN Erased = Memory
  BY DEF Erased, Memory
<1>2. /\ Erased["version"] = << 255 >> /\ Erased["global"] = Blank(6)
      /\ Erased["coord"] = Blank(3) /\ Erased["line"] = Blank(3)
  BY DEF Erased, Blank
<1>3. << 255 >> \in Seq(SumByte) /\ Len(<< 255 >>) = 1 /\ << 255 >>[1] = 255
  BY ByteTexts
<1>4. ASSUME NEW rec \in Memory
      PROVE  /\ Erased[rec] \in Seq(SumByte) /\ Len(Erased[rec]) = Room[rec]
             /\ \A i \in 1 .. Room[rec] : Erased[rec][i] = 255
  <2>1. CASE rec = "version"
    <3>1. Erased[rec] = << 255 >> /\ Room[rec] = 1
      BY <1>2, <2>1, Rooms
    <3> QED BY <1>3, <3>1
  <2>2. CASE rec # "version"
    <3>1. Erased[rec] = Blank(Room[rec]) /\ Room[rec] \in Nat
      BY <1>2, <2>2, Rooms DEF Memory
    <3>2. PICK n \in Nat : n = Room[rec]
      BY <3>1
    <3>3. Blank(n) \in Seq(SumByte)
      BY BlankIs
    <3>4. Len(Blank(n)) = n
      BY BlankIs
    <3>5. \A i \in 1 .. n : Blank(n)[i] = 255
      BY BlankIs
    <3> QED BY <3>1, <3>2, <3>3, <3>4, <3>5
  <2> QED BY <2>1, <2>2
<1>5. ASSUME NEW rec \in Memory, NEW i \in 1 .. Room[rec]
      PROVE  Fits(rec, i, Erased[rec][i])
  <2>1. i \in Nat
    BY Rooms DEF Memory
  <2> QED BY <1>4, <2>1, ErasedFits
<1> QED BY <1>1, <1>4, <1>5 DEF Chip

(* What a place will hold once all is written. *)
Writing == Seq(Memory \X (1 .. 6) \X SumByte)
At(x, rec, i) == x[1] = rec /\ x[2] = i
Write(x) ==
  x[1] \in Memory /\ x[2] \in 1 .. Room[x[1]] /\ Fits(x[1], x[2], x[3])

WillBe(e, p, rec, i, b) ==
  /\ \A j \in DOMAIN p : At(p[j], rec, i) => p[j][3] = b
  /\ (\A j \in DOMAIN p : ~At(p[j], rec, i)) => e[rec][i] = b

Holds(e, p, rec, s) ==
  /\ \A i \in 1 .. Len(s) : WillBe(e, p, rec, i, s[i])
  /\ WillBe(e, p, rec, Len(s) + 1, Checksum(s))

LEMMA WriteKeepsPlace ==
  ASSUME NEW e, Chip(e), NEW p \in Writing, p # << >>, Write(p[1]),
         NEW f, PutTo(e, f, p[1][1], p[1][2], p[1][3]),
         NEW rec \in Memory, NEW i \in 1 .. Room[rec], NEW b,
         WillBe(e, p, rec, i, b)
  PROVE  WillBe(f, Tail(p), rec, i, b)
<1> DEFINE q == Tail(p)
<1>1. /\ Len(p) \in Nat \ {0} /\ DOMAIN p = 1 .. Len(p) /\ DOMAIN q = 1 .. Len(p) - 1
      /\ \A j \in DOMAIN q : q[j] = p[j + 1]
  BY DEF Writing
<1>2. \A j \in DOMAIN q : j + 1 \in DOMAIN p /\ q[j] = p[j + 1]
  BY <1>1
<1>3. \A j \in DOMAIN p : j = 1 \/ (j - 1 \in DOMAIN q /\ q[j - 1] = p[j])
  <2>1. ASSUME NEW j \in DOMAIN p, j # 1
        PROVE  j - 1 \in DOMAIN q /\ q[j - 1] = p[j]
    <3>1. j - 1 \in DOMAIN q /\ (j - 1) + 1 = j
      BY <1>1, <2>1
    <3> QED BY <1>2, <3>1
  <2> QED BY <2>1
<1>4. f[rec][i] = IF At(p[1], rec, i) THEN p[1][3] ELSE e[rec][i]
  <2> DEFINE r == p[1][1]
             k == p[1][2]
             c == p[1][3]
  <2>1. r \in Memory /\ k \in 1 .. Room[r] /\ Fits(r, k, c)
    BY DEF Write
  <2>2. PutTo(e, f, r, k, c)
    OBVIOUS
  <2>3. At(p[1], rec, i) <=> (rec = r /\ i = k)
    BY DEF At
  <2> HIDE DEF r, k, c
  <2>4. f[rec][i] = IF rec = r /\ i = k THEN c ELSE e[rec][i]
    BY <2>1, <2>2, PutIs
  <2> QED BY <2>3, <2>4 DEF c
<1>5. 1 \in DOMAIN p
  BY <1>1
<1> HIDE DEF q
<1>6. \A j \in DOMAIN q : At(q[j], rec, i) => q[j][3] = b
  BY <1>2 DEF WillBe
<1>7. ASSUME \A j \in DOMAIN q : ~At(q[j], rec, i)
      PROVE  f[rec][i] = b
  <2>1. CASE At(p[1], rec, i)
    BY <1>4, <1>5, <2>1 DEF WillBe
  <2>2. CASE ~At(p[1], rec, i)
    <3>1. \A j \in DOMAIN p : ~At(p[j], rec, i)
      BY <1>3, <1>7, <2>2
    <3> QED BY <1>4, <2>2, <3>1 DEF WillBe
  <2> QED BY <2>1, <2>2
<1> QED BY <1>6, <1>7 DEF WillBe, q

(* A record, with its checksum. *)
LEMMA WriteKeepsRecord ==
  ASSUME NEW e, Chip(e), NEW p \in Writing, p # << >>, Write(p[1]),
         NEW f, PutTo(e, f, p[1][1], p[1][2], p[1][3]),
         NEW rec \in Memory, NEW s \in Seq(Byte), Len(s) + 1 = Room[rec],
         Holds(e, p, rec, s)
  PROVE  Holds(f, Tail(p), rec, s)
<1>1. Len(s) \in Nat /\ Len(s) + 1 \in 1 .. Room[rec]
      /\ \A i \in 1 .. Len(s) : i \in 1 .. Room[rec]
  OBVIOUS
<1> QED BY <1>1, WriteKeepsPlace DEF Holds

(* What a list of writes says about a place. *)
Agrees(p, rec, i, b) == \A j \in DOMAIN p : At(p[j], rec, i) => p[j][3] = b
Covers(p, rec, i) == \E j \in DOMAIN p : At(p[j], rec, i)
Silent(p, rec) == \A j \in DOMAIN p : p[j][1] # rec
Rightful(p) == p \in Writing /\ \A j \in DOMAIN p : Write(p[j])
Puts(p, rec, i, b) == Agrees(p, rec, i, b) /\ Covers(p, rec, i)
Says(p, rec, s) ==
  /\ \A i \in 1 .. Len(s) : Puts(p, rec, i, s[i])
  /\ Puts(p, rec, Len(s) + 1, Checksum(s))

Joins(w, p, q) == w = p \o q

LEMMA Joined ==
  ASSUME NEW p \in Writing, NEW q \in Writing, NEW w, Joins(w, p, q)
  PROVE  /\ w \in Writing
         /\ \A j \in DOMAIN w : \/ \E k \in DOMAIN p : w[j] = p[k]
                                \/ \E k \in DOMAIN q : w[j] = q[k]
         /\ \A k \in DOMAIN p : \E j \in DOMAIN w : w[j] = p[k]
         /\ \A k \in DOMAIN q : \E j \in DOMAIN w : w[j] = q[k]
<1>1. w \in Writing
  BY DEF Writing, Joins
<1>2. /\ Len(p) \in Nat /\ Len(q) \in Nat /\ Len(w) = Len(p) + Len(q)
      /\ DOMAIN p = 1 .. Len(p) /\ DOMAIN q = 1 .. Len(q) /\ DOMAIN w = 1 .. Len(w)
      /\ \A j \in 1 .. Len(w) : w[j] = IF j <= Len(p) THEN p[j] ELSE q[j - Len(p)]
  BY DEF Writing, Joins
<1>3. ASSUME NEW j \in DOMAIN w
      PROVE  \/ \E k \in DOMAIN p : w[j] = p[k]
             \/ \E k \in DOMAIN q : w[j] = q[k]
  <2>1. CASE j <= Len(p)
    BY <1>2, <2>1
  <2>2. CASE j > Len(p)
    <3>1. j - Len(p) \in DOMAIN q /\ w[j] = q[j - Len(p)]
      BY <1>2, <2>2
    <3> QED BY <3>1
  <2> QED BY <1>2, <2>1, <2>2
<1>4. ASSUME NEW k \in DOMAIN p
      PROVE  \E j \in DOMAIN w : w[j] = p[k]
  BY <1>2
<1>5. ASSUME NEW k \in DOMAIN q
      PROVE  \E j \in DOMAIN w : w[j] = q[k]
  <2>1. k + Len(p) \in DOMAIN w /\ (k + Len(p)) - Len(p) = k /\ ~(k + Len(p) <= Len(p))
    BY <1>2
  <2>2. w[k + Len(p)] = q[k]
    BY <1>2, <2>1
  <2> QED BY <2>1, <2>2
<1> QED BY <1>1, <1>3, <1>4, <1>5

LEMMA JoinKeeps ==
  ASSUME NEW p, NEW q, Rightful(p), Rightful(q), NEW w, Joins(w, p, q)
  PROVE  /\ Rightful(w)
         /\ \A rec : Silent(p, rec) /\ Silent(q, rec) => Silent(w, rec)
         /\ \A rec, i, b :
              Puts(p, rec, i, b) /\ Silent(q, rec) => Puts(w, rec, i, b)
         /\ \A rec, s : Says(p, rec, s) /\ Silent(q, rec) => Says(w, rec, s)
         /\ \A rec, s : Silent(p, rec) /\ Says(q, rec, s) => Says(w, rec, s)
<1>1. /\ w \in Writing
      /\ \A j \in DOMAIN w : \/ \E k \in DOMAIN p : w[j] = p[k]
                             \/ \E k \in DOMAIN q : w[j] = q[k]
      /\ \A k \in DOMAIN p : \E j \in DOMAIN w : w[j] = p[k]
      /\ \A k \in DOMAIN q : \E j \in DOMAIN w : w[j] = q[k]
  BY Joined DEF Rightful
<1>2. Rightful(w)
  <2>1. ASSUME NEW j \in DOMAIN w PROVE Write(w[j])
    BY <1>1 DEF Rightful
  <2> QED BY <1>1, <2>1 DEF Rightful
<1>3. \A rec : Silent(p, rec) /\ Silent(q, rec) => Silent(w, rec)
  BY <1>1 DEF Silent
<1>4. ASSUME NEW rec, NEW i, NEW b
      PROVE  /\ Puts(p, rec, i, b) /\ Silent(q, rec) => Puts(w, rec, i, b)
             /\ Silent(p, rec) /\ Puts(q, rec, i, b) => Puts(w, rec, i, b)
  <2>1. Covers(p, rec, i) \/ Covers(q, rec, i) => Covers(w, rec, i)
    BY <1>1 DEF Covers
  <2>2. /\ Agrees(p, rec, i, b) /\ Silent(q, rec) => Agrees(w, rec, i, b)
        /\ Silent(p, rec) /\ Agrees(q, rec, i, b) => Agrees(w, rec, i, b)
    BY <1>1 DEF Agrees, Silent, At
  <2> QED BY <2>1, <2>2 DEF Puts
<1>5. \A rec, s : Says(p, rec, s) /\ Silent(q, rec) => Says(w, rec, s)
  BY <1>4 DEF Says
<1>6. \A rec, s : Silent(p, rec) /\ Says(q, rec, s) => Says(w, rec, s)
  BY <1>4 DEF Says
<1> QED BY <1>2, <1>3, <1>4, <1>5, <1>6

LEMMA WritesIs ==
  ASSUME NEW rec \in {"global", "coord", "line"}, NEW s \in Seq(Byte),
         Len(s) + 1 = Room[rec], rec = "global" => Proper(s[4]),
         NEW w, w = Writes(rec, s)
  PROVE  /\ Rightful(w) /\ Says(w, rec, s)
         /\ \A r \in Memory \ {rec} : Silent(w, r)
<1> DEFINE n == Len(s) + 1
           b(i) == IF i <= Len(s) THEN s[i] ELSE Checksum(s)
<1>1. /\ Len(s) \in Nat /\ n = Room[rec] /\ n \in 1 .. 6 /\ rec \in Memory
      /\ \A i \in 1 .. Len(s) : s[i] \in Byte
  BY Rooms DEF Memory
<1>2. w = [i \in 1 .. n |-> <<rec, i, b(i)>>]
  BY DEF Writes
<1>3. ASSUME NEW i \in 1 .. n
      PROVE  Fits(rec, i, b(i))
  <2>1. Checksum(s) \in SumByte
    BY DEF SumByte
  <2>2. i < Room[rec] => b(i) \in Byte
    BY <1>1
  <2>3. b(i) \in SumByte
    BY <1>1, <2>1, ByteTexts
  <2>4. rec = "global" /\ i = 4 => b(i) = s[4]
    <3> HIDE DEF n, b
    <3>1. ASSUME rec = "global" PROVE Room[rec] = 6
      BY <3>1, Rooms
    <3>2. ASSUME rec = "global", i = 4 PROVE i <= Len(s)
      <4>1. Len(s) + 1 = 6 /\ Len(s) \in Nat
        BY <1>1, <3>1, <3>2 DEF n
      <4> QED BY <3>2, <4>1
    <3> QED BY <3>2 DEF b
  <2>5. rec # "version"
    OBVIOUS
  <2> HIDE DEF b
  <2> QED BY <2>2, <2>3, <2>4, <2>5 DEF Fits
<1>4. \A i \in 1 .. n : b(i) \in SumByte /\ i \in 1 .. 6
  BY <1>1, <1>3 DEF Fits
<1> HIDE DEF b
<1>5. w \in Writing
  BY <1>1, <1>2, <1>4 DEF Writing
<1>6. /\ DOMAIN w = 1 .. n
      /\ \A i \in 1 .. n : w[i] = <<rec, i, b(i)>>
  BY <1>2
<1>7. \A i \in 1 .. n : w[i][1] = rec /\ w[i][2] = i /\ w[i][3] = b(i)
  BY <1>6
<1> HIDE DEF n
<1>8. ASSUME NEW i \in 1 .. n
      PROVE  /\ Agrees(w, rec, i, b(i)) /\ Covers(w, rec, i)
             /\ Write(w[i])
  <2>1. Write(w[i])
    BY <1>1, <1>3, <1>7 DEF Write
  <2>2. Agrees(w, rec, i, b(i)) /\ Covers(w, rec, i)
    BY <1>6, <1>7 DEF Agrees, Covers, At
  <2> QED BY <2>1, <2>2
<1>9. /\ \A i \in 1 .. Len(s) : i \in 1 .. n /\ b(i) = s[i]
      /\ Len(s) + 1 \in 1 .. n /\ b(Len(s) + 1) = Checksum(s)
  BY <1>1 DEF n, b
<1>10. Says(w, rec, s)
  BY <1>8, <1>9 DEF Says, Puts
<1>11. \A r \in Memory \ {rec} : Silent(w, r)
  BY <1>6, <1>7 DEF Silent
<1> QED BY <1>5, <1>6, <1>8, <1>10, <1>11 DEF Rightful

(* Lists of writes and what will be there after them. *)
LEMMA SaysHolds ==
  ASSUME NEW e, NEW p, NEW rec, NEW s, Says(p, rec, s)
  PROVE  Holds(e, p, rec, s)
BY DEF Says, Puts, Holds, WillBe, Agrees, Covers

LEMMA SilentHolds ==
  ASSUME NEW e, NEW p, NEW rec, NEW s, Silent(p, rec), Holds(e, << >>, rec, s)
  PROVE  Holds(e, p, rec, s)
<1>1. ASSUME NEW i, NEW b, WillBe(e, << >>, rec, i, b)
      PROVE  WillBe(e, p, rec, i, b)
  <2>1. e[rec][i] = b
    BY <1>1 DEF WillBe
  <2> QED BY <2>1 DEF WillBe, Silent, At
<1> QED BY <1>1 DEF Holds

LEMMA NothingToWrite ==
  /\ Rightful(<< >>)
  /\ \A e, rec, i, b : WillBe(e, << >>, rec, i, b) <=> e[rec][i] = b
BY DEF Rightful, Writing, WillBe

(* The records as the program writes them. *)
LEMMA DefaultsFit == DefaultSettings \in SettingsData /\ NoOffset \in Pair
<1>1. Proper(0)
  BY ByteTexts
<1>2. DefaultSettings \in Seq(Byte) /\ Len(DefaultSettings) = 5 /\ DefaultSettings[4] = 0
  BY DEF DefaultSettings, Byte
<1>3. NoOffset \in Seq(Byte) /\ Len(NoOffset) = 2
  BY DEF NoOffset, Byte
<1> QED BY <1>1, <1>2, <1>3 DEF SettingsData, Pair

LEMMA GlobalIs ==
  ASSUME NEW s \in SettingsData, NEW w, w = WriteGlobal(s)
  PROVE  /\ Rightful(w) /\ Puts(w, "version", 1, 10) /\ Says(w, "global", s)
         /\ Silent(w, "coord") /\ Silent(w, "line")
<1> DEFINE v == << <<"version", 1, 10>> >>
           g == Writes("global", s)
<1>1. s \in Seq(Byte) /\ Len(s) + 1 = Room["global"] /\ Proper(s[4])
  <2>1. s \in Seq(Byte) /\ Len(s) = 5 /\ Proper(s[4])
    BY DEF SettingsData
  <2> QED BY <2>1, Rooms
<1>2. Rightful(g) /\ Says(g, "global", s) /\ \A r \in Memory \ {"global"} : Silent(g, r)
  BY <1>1, WritesIs
<1>3. Joins(w, v, g)
  BY DEF WriteGlobal, SETTINGS_VERSION, Joins
<1>4. /\ DOMAIN v = {1} /\ v[1][1] = "version" /\ v[1][2] = 1 /\ v[1][3] = 10
      /\ v \in Writing
  <2>1. "version" \in Memory /\ 1 \in 1 .. 6 /\ 10 \in SumByte
    BY ByteTexts DEF Memory
  <2>2. <<"version", 1, 10>> \in Memory \X (1 .. 6) \X SumByte
    BY <2>1
  <2>3. v \in Writing
    BY <2>2 DEF Writing
  <2> QED BY <2>3
<1>5. Write(v[1])
  BY <1>4, Rooms, ByteTexts DEF Write, Fits, Memory
<1> HIDE DEF v, g
<1>6. /\ Rightful(v) /\ Puts(v, "version", 1, 10)
      /\ \A r \in Memory \ {"version"} : Silent(v, r)
  BY <1>4, <1>5 DEF Rightful, Puts, Agrees, Covers, Silent, At
<1>7. /\ Rightful(w)
      /\ \A rec : Silent(v, rec) /\ Silent(g, rec) => Silent(w, rec)
      /\ Puts(v, "version", 1, 10) /\ Silent(g, "version") => Puts(w, "version", 1, 10)
      /\ Silent(v, "global") /\ Says(g, "global", s) => Says(w, "global", s)
  BY <1>2, <1>3, <1>6, JoinKeeps
<1>8. {"coord", "line"} \subseteq Memory \ {"version", "global"}
      /\ "global" \in Memory \ {"version"} /\ "version" \in Memory \ {"global"}
  BY DEF Memory
<1> QED BY <1>2, <1>6, <1>7, <1>8

LEMMA OffsetIs ==
  ASSUME NEW o \in Pair, NEW w, w = WriteOffset(o)
  PROVE  /\ Rightful(w) /\ Says(w, "coord", o)
         /\ \A r \in Memory \ {"coord"} : Silent(w, r)
<1>1. o \in Seq(Byte) /\ Len(o) = 2
  BY DEF Pair
<1>2. Len(o) + 1 = Room["coord"]
  BY <1>1, Rooms
<1> QED BY <1>1, <1>2, WritesIs DEF WriteOffset

LEMMA LineIs ==
  ASSUME NEW l \in Pair, NEW w, w = WriteLine(l)
  PROVE  /\ Rightful(w) /\ Says(w, "line", l)
         /\ \A r \in Memory \ {"line"} : Silent(w, r)
<1>1. l \in Seq(Byte) /\ Len(l) = 2
  BY DEF Pair
<1>2. Len(l) + 1 = Room["line"]
  BY <1>1, Rooms
<1> QED BY <1>1, <1>2, WritesIs DEF WriteLine

LEMMA EmptyLineIs ==
  Rightful(EmptyLine) /\ \A r \in Memory \ {"line"} : Silent(EmptyLine, r)
<1>1. "line" \in Memory /\ 1 \in 1 .. 6 /\ 2 \in 1 .. 6 /\ 0 \in SumByte /\ 0 \in Byte
  BY ByteTexts DEF Memory
<1>2. /\ <<"line", 1, 0>> \in Memory \X (1 .. 6) \X SumByte
      /\ <<"line", 2, 0>> \in Memory \X (1 .. 6) \X SumByte
  BY <1>1
<1>3. EmptyLine \in Writing
  BY <1>2 DEF EmptyLine, Writing
<1>4. /\ DOMAIN EmptyLine = {1, 2}
      /\ EmptyLine[1] = <<"line", 1, 0>> /\ EmptyLine[2] = <<"line", 2, 0>>
  BY DEF EmptyLine
<1>5. \A j \in {1, 2} : /\ EmptyLine[j][1] = "line" /\ EmptyLine[j][2] = j
                        /\ EmptyLine[j][3] = 0
  BY <1>4
<1>6. \A j \in {1, 2} : Write(EmptyLine[j])
  BY <1>1, <1>5, Rooms DEF Write, Fits
<1> QED BY <1>3, <1>4, <1>5, <1>6 DEF Rightful, Silent

LEMMA RestoreAllIs ==
  ASSUME NEW w, w = RestoreAll
  PROVE  /\ Rightful(w) /\ Puts(w, "version", 1, 10)
         /\ Says(w, "global", DefaultSettings)
<1> DEFINE g == WriteGlobal(DefaultSettings)
           o == WriteOffset(NoOffset)
           u == g \o o
<1>1. /\ Rightful(g) /\ Puts(g, "version", 1, 10)
      /\ Says(g, "global", DefaultSettings)
  BY DefaultsFit, GlobalIs
<1>2. Rightful(o) /\ \A r \in Memory \ {"coord"} : Silent(o, r)
  BY DefaultsFit, OffsetIs
<1>3. Joins(u, g, o) /\ Joins(w, u, EmptyLine)
  BY DEF Joins, RestoreAll
<1>4. /\ "version" \in Memory \ {"coord"} /\ "version" \in Memory \ {"line"}
      /\ "global" \in Memory \ {"coord"} /\ "global" \in Memory \ {"line"}
  BY DEF Memory
<1> HIDE DEF g, o, u
<1>5. /\ Rightful(u) /\ Puts(u, "version", 1, 10)
      /\ Says(u, "global", DefaultSettings)
  BY <1>1, <1>2, <1>3, <1>4, JoinKeeps
<1> QED BY <1>3, <1>4, <1>5, EmptyLineIs, JoinKeeps

(* A record that was read. *)
LEMMA CellsAre ==
  ASSUME NEW e, Chip(e), NEW rec \in {"global", "coord", "line"},
         NEW r, r = e[rec]
  PROVE  /\ Cells(r) \in Seq(Byte) /\ Len(Cells(r)) = Room[rec] - 1
         /\ \A i \in 1 .. Room[rec] - 1 : Cells(r)[i] = e[rec][i]
         /\ Valid(r) <=> Checksum(Cells(r)) = e[rec][Room[rec]]
<1> DEFINE n == Room[rec]
<1>1. r \in Seq(SumByte) /\ Len(r) = n /\ n \in {3, 6} /\ rec \in Memory
  BY Rooms DEF Chip, Memory
<1>2. \A i \in 1 .. n - 1 : r[i] \in Byte
  <2>1. ASSUME NEW i \in 1 .. n - 1
        PROVE  Fits(rec, i, r[i]) /\ i < Room[rec]
    <3>1. i \in 1 .. Room[rec] /\ i < Room[rec]
      BY <1>1
    <3> QED BY <1>1, <3>1 DEF Chip
  <2> QED BY <2>1 DEF Fits
<1> HIDE DEF n
<1>3. Cells(r) = SubSeq(r, 1, n - 1) /\ Last(r) = r[n]
  BY <1>1 DEF Cells, Front, Last
<1> DEFINE c == SubSeq(r, 1, n - 1)
<1>4. c \in Seq(SumByte) /\ Len(c) = n - 1 /\ \A i \in 1 .. n - 1 : c[i] = r[i]
  BY <1>1
<1> HIDE DEF c
<1>5. c \in Seq(Byte)
  BY <1>1, <1>2, <1>4
<1>6. Valid(r) <=> Checksum(Cells(r)) = r[n]
  BY <1>3 DEF Valid
<1> QED BY <1>1, <1>3, <1>4, <1>5, <1>6 DEF n, c

(* Each place will hold what is in force, once what is pending is written. *)
SettingsIInv ==
  /\ stage \in {"off", "init", "startup", "idle"}
  /\ Chip(eeprom) /\ Rightful(pending)
  /\ stage = "off" => pending = << >>
  /\ stage # "off" => /\ settings \in SettingsData
                      /\ WillBe(eeprom, pending, "version", 1, 10)
                      /\ Holds(eeprom, pending, "global", settings)
  /\ stage \in {"startup", "idle"} =>
       offset \in Pair /\ Holds(eeprom, pending, "coord", offset)
  /\ stage = "idle" => \E l \in Pair : Holds(eeprom, pending, "line", l)

LEMMA SettingsStart == SettingsInit => SettingsIInv
BY ErasedIsChip, NothingToWrite DEF SettingsInit, SettingsIInv

LEMMA PutsIs ==
  ASSUME NEW e, NEW p, NEW rec, NEW i, NEW b, Puts(p, rec, i, b)
  PROVE  WillBe(e, p, rec, i, b)
BY DEF Puts, WillBe, Agrees, Covers

LEMMA SilentPlace ==
  ASSUME NEW e, NEW p, NEW rec, NEW i, NEW b, Silent(p, rec),
         WillBe(e, << >>, rec, i, b)
  PROVE  WillBe(e, p, rec, i, b)
BY NothingToWrite DEF WillBe, Silent, At

LEMMA RecordsFit ==
  /\ \A s \in SettingsData : s \in Seq(Byte) /\ Len(s) + 1 = Room["global"]
  /\ \A o \in Pair : /\ o \in Seq(Byte) /\ Len(o) + 1 = Room["coord"]
                     /\ Len(o) + 1 = Room["line"]
<1>1. ASSUME NEW s \in SettingsData
      PROVE  s \in Seq(Byte) /\ Len(s) + 1 = Room["global"]
  <2>1. s \in Seq(Byte) /\ Len(s) = 5
    BY DEF SettingsData
  <2> QED BY <2>1, Rooms
<1>2. ASSUME NEW o \in Pair
      PROVE  /\ o \in Seq(Byte) /\ Len(o) + 1 = Room["coord"]
             /\ Len(o) + 1 = Room["line"]
  <2>1. o \in Seq(Byte) /\ Len(o) = 2
    BY DEF Pair
  <2> QED BY <2>1, Rooms
<1> QED BY <1>1, <1>2

(* A record whose checksum is right holds its cells. *)
LEMMA ValidHolds ==
  ASSUME NEW e, Chip(e), NEW rec \in {"global", "coord", "line"},
         Valid(e[rec])
  PROVE  Holds(e, << >>, rec, Cells(e[rec]))
<1> DEFINE c == Cells(e[rec])
<1>1. /\ Len(c) = Room[rec] - 1 /\ Room[rec] \in Nat
      /\ \A i \in 1 .. Room[rec] - 1 : c[i] = e[rec][i]
      /\ Checksum(c) = e[rec][Room[rec]]
  BY CellsAre, Rooms
<1> HIDE DEF c
<1>2. /\ \A i \in 1 .. Len(c) : c[i] = e[rec][i]
      /\ Len(c) + 1 = Room[rec]
  BY <1>1
<1> QED BY <1>1, <1>2, NothingToWrite DEF Holds, c

LEMMA CellsFit ==
  ASSUME NEW e, Chip(e)
  PROVE  /\ Cells(e["global"]) \in SettingsData
         /\ Cells(e["coord"]) \in Pair /\ Cells(e["line"]) \in Pair
<1>1. Cells(e["global"]) \in SettingsData
  <2> DEFINE c == Cells(e["global"])
             rec == "global"
  <2>1. c \in Seq(Byte) /\ Len(c) = Room[rec] - 1
        /\ \A i \in 1 .. Room[rec] - 1 : c[i] = e[rec][i]
    BY CellsAre
  <2>2. Room[rec] = 6
    BY Rooms
  <2>3. Len(c) = 5 /\ c[4] = e[rec][4]
    BY <2>1, <2>2
  <2>4. Fits(rec, 4, e[rec][4])
    <3>1. rec \in Memory /\ 4 \in 1 .. Room[rec]
      BY <2>2 DEF Memory
    <3> QED BY <3>1 DEF Chip
  <2>5. Proper(c[4])
    BY <2>3, <2>4 DEF Fits
  <2> QED BY <2>1, <2>3, <2>5 DEF SettingsData
<1>2. Cells(e["coord"]) \in Pair
  <2>1. Cells(e["coord"]) \in Seq(Byte) /\ Len(Cells(e["coord"])) = Room["coord"] - 1
    BY CellsAre
  <2> QED BY <2>1, Rooms DEF Pair
<1>3. Cells(e["line"]) \in Pair
  <2>1. Cells(e["line"]) \in Seq(Byte) /\ Len(Cells(e["line"])) = Room["line"] - 1
    BY CellsAre
  <2> QED BY <2>1, Rooms DEF Pair
<1> QED BY <1>1, <1>2, <1>3

LEMMA PowerOnKeeps == ASSUME SettingsIInv, PowerOn PROVE SettingsIInv'
<1>1. /\ Chip(eeprom) /\ pending = << >> /\ stage' = "init" /\ eeprom' = eeprom
  BY DEF SettingsIInv, PowerOn
<1>2. CASE Readable
  <2>1. settings' = Cells(eeprom["global"]) /\ pending' = << >>
    BY <1>1, <1>2 DEF PowerOn
  <2>2. settings' \in SettingsData
    BY <1>1, <2>1, CellsFit
  <2>3. Holds(eeprom, << >>, "global", settings')
    <3>1. Valid(eeprom["global"])
      BY <1>2 DEF Readable
    <3> QED BY <1>1, <2>1, <3>1, ValidHolds
  <2>4. WillBe(eeprom, << >>, "version", 1, 10)
    <3>1. eeprom["version"] = << 10 >>
      BY <1>2 DEF Readable, SETTINGS_VERSION
    <3>2. eeprom["version"][1] = 10
      BY <3>1
    <3> QED BY <3>2, NothingToWrite
  <2> QED BY <1>1, <2>1, <2>2, <2>3, <2>4, NothingToWrite DEF SettingsIInv
<1>3. CASE ~Readable
  <2>1. settings' = DefaultSettings /\ pending' = RestoreAll
    BY <1>3 DEF PowerOn
  <2>2. /\ Rightful(pending') /\ Puts(pending', "version", 1, 10)
        /\ Says(pending', "global", settings')
    BY <2>1, RestoreAllIs
  <2>3. /\ WillBe(eeprom, pending', "version", 1, 10)
        /\ Holds(eeprom, pending', "global", settings')
    BY <2>2, PutsIs, SaysHolds
  <2> QED BY <1>1, <2>1, <2>2, <2>3, DefaultsFit DEF SettingsIInv
<1> QED BY <1>2, <1>3

(* The settings stay as they are when another record is written. *)
LEMMA GlobalStays ==
  ASSUME SettingsIInv, stage # "off", pending = << >>, eeprom' = eeprom,
         settings' = settings, Silent(pending', "version"), Silent(pending', "global")
  PROVE  /\ settings' \in SettingsData
         /\ WillBe(eeprom', pending', "version", 1, 10)
         /\ Holds(eeprom', pending', "global", settings')
BY SilentPlace, SilentHolds DEF SettingsIInv

LEMMA ReadOffsetKeeps == ASSUME SettingsIInv, ReadOffset PROVE SettingsIInv'
<1>1. /\ Chip(eeprom) /\ pending = << >> /\ stage = "init" /\ stage' = "startup"
      /\ eeprom' = eeprom /\ settings' = settings
  BY DEF SettingsIInv, ReadOffset, Idle
<1>2. CASE Valid(eeprom["coord"])
  <2>1. offset' = Cells(eeprom["coord"]) /\ pending' = << >>
    BY <1>1, <1>2 DEF ReadOffset
  <2>2. offset' \in Pair /\ Holds(eeprom, << >>, "coord", offset')
    BY <1>1, <1>2, <2>1, CellsFit, ValidHolds
  <2>3. Silent(pending', "version") /\ Silent(pending', "global")
    BY <2>1 DEF Silent
  <2> QED BY <1>1, <2>1, <2>2, <2>3, GlobalStays, NothingToWrite DEF SettingsIInv
<1>3. CASE ~Valid(eeprom["coord"])
  <2>1. offset' = NoOffset /\ pending' = WriteOffset(NoOffset)
    BY <1>3 DEF ReadOffset
  <2>2. /\ Rightful(pending') /\ Says(pending', "coord", offset')
        /\ Silent(pending', "version") /\ Silent(pending', "global")
    BY <2>1, OffsetIs, DefaultsFit DEF Memory
  <2>3. Holds(eeprom', pending', "coord", offset')
    BY <2>2, SaysHolds
  <2> QED BY <1>1, <2>1, <2>2, <2>3, GlobalStays, DefaultsFit DEF SettingsIInv
<1> QED BY <1>2, <1>3

LEMMA ReadLineKeeps == ASSUME SettingsIInv, ReadLine PROVE SettingsIInv'
<1>1. /\ Chip(eeprom) /\ pending = << >> /\ stage = "startup" /\ stage' = "idle"
      /\ eeprom' = eeprom /\ settings' = settings /\ offset' = offset
      /\ offset \in Pair /\ Holds(eeprom, pending, "coord", offset)
  BY DEF SettingsIInv, ReadLine, Idle
<1>2. CASE Valid(eeprom["line"])
  <2>1. pending' = << >>
    BY <1>1, <1>2 DEF ReadLine
  <2>2. Holds(eeprom, << >>, "line", Cells(eeprom["line"])) /\ Cells(eeprom["line"]) \in Pair
    BY <1>1, <1>2, CellsFit, ValidHolds
  <2>3. Silent(pending', "version") /\ Silent(pending', "global")
    BY <2>1 DEF Silent
  <2> QED BY <1>1, <2>1, <2>2, <2>3, GlobalStays, NothingToWrite DEF SettingsIInv
<1>3. CASE ~Valid(eeprom["line"])
  <2> DEFINE l == Emptied(Cells(eeprom["line"]))
  <2>1. pending' = WriteLine(l)
    BY <1>3 DEF ReadLine
  <2>2. l \in Pair
    <3>1. Cells(eeprom["line"]) \in Seq(Byte) /\ Len(Cells(eeprom["line"])) = 2
      BY <1>1, CellsFit DEF Pair
    <3> DEFINE c == Cells(eeprom["line"])
    <3>2. l = [c EXCEPT ![1] = 0]
      BY DEF Emptied
    <3> HIDE DEF c, l
    <3>3. c \in Seq(Byte) /\ Len(c) = 2 /\ 1 \in 1 .. Len(c) /\ 0 \in Byte
      BY <3>1, ByteTexts DEF c
    <3>4. l \in Seq(Byte) /\ Len(l) = 2
      BY <3>2, <3>3
    <3> QED BY <3>4 DEF Pair
  <2> HIDE DEF l
  <2>3. /\ Rightful(pending') /\ Says(pending', "line", l)
        /\ Silent(pending', "version") /\ Silent(pending', "global")
        /\ Silent(pending', "coord")
    BY <2>1, <2>2, LineIs DEF Memory
  <2>4. Holds(eeprom', pending', "line", l) /\ Holds(eeprom', pending', "coord", offset')
    BY <1>1, <2>3, SaysHolds, SilentHolds
  <2> QED BY <1>1, <2>2, <2>3, <2>4, GlobalStays DEF SettingsIInv
<1> QED BY <1>2, <1>3

LEMMA WriteByteKeeps == ASSUME SettingsIInv, WriteByte PROVE SettingsIInv'
<1> DEFINE p == pending
           e == eeprom
<1>1. /\ Chip(e) /\ p \in Writing /\ p # << >> /\ Rightful(p) /\ stage # "off"
      /\ stage' = stage /\ settings' = settings /\ offset' = offset
      /\ pending' = Tail(p)
  BY DEF SettingsIInv, WriteByte, Rightful
<1>2. /\ Len(p) \in Nat \ {0} /\ DOMAIN p = 1 .. Len(p) /\ Head(p) = p[1]
      /\ Tail(p) \in Writing /\ DOMAIN Tail(p) = 1 .. Len(p) - 1
      /\ \A j \in 1 .. Len(p) - 1 : Tail(p)[j] = p[j + 1]
  BY <1>1 DEF Writing
<1>3. Write(p[1])
  BY <1>1, <1>2 DEF Rightful
<1>4. PutTo(e, eeprom', p[1][1], p[1][2], p[1][3])
  BY <1>2 DEF WriteByte, Put, PutTo
<1>5. Chip(eeprom')
  BY <1>1, <1>3, <1>4, PutIs DEF Write
<1>6. Rightful(pending')
  <2>1. \A j \in 1 .. Len(p) - 1 : j + 1 \in 1 .. Len(p)
    BY <1>2
  <2> QED BY <1>1, <1>2, <2>1 DEF Rightful
<1>7. "version" \in Memory /\ "global" \in Memory /\ "coord" \in Memory /\ "line" \in Memory
  BY DEF Memory
<1>8. WillBe(eeprom', pending', "version", 1, 10)
  <2>1. 1 \in 1 .. Room["version"] /\ WillBe(e, p, "version", 1, 10)
    BY <1>1, Rooms DEF SettingsIInv
  <2> QED BY <1>1, <1>3, <1>4, <1>7, <2>1, WriteKeepsPlace
<1>9. settings' \in SettingsData /\ Holds(eeprom', pending', "global", settings')
  <2>1. settings \in SettingsData /\ Holds(e, p, "global", settings)
    BY <1>1 DEF SettingsIInv
  <2> QED BY <1>1, <1>3, <1>4, <1>7, <2>1, RecordsFit, WriteKeepsRecord
<1>10. ASSUME stage' \in {"startup", "idle"}
       PROVE  offset' \in Pair /\ Holds(eeprom', pending', "coord", offset')
  <2>1. offset \in Pair /\ Holds(e, p, "coord", offset)
    BY <1>1, <1>10 DEF SettingsIInv
  <2> QED BY <1>1, <1>3, <1>4, <1>7, <2>1, RecordsFit, WriteKeepsRecord
<1>11. ASSUME stage' = "idle"
       PROVE  \E l \in Pair : Holds(eeprom', pending', "line", l)
  <2>1. PICK l \in Pair : Holds(e, p, "line", l)
    BY <1>1, <1>11 DEF SettingsIInv
  <2> QED BY <1>1, <1>3, <1>4, <1>7, <2>1, RecordsFit, WriteKeepsRecord
<1>12. stage' \in {"off", "init", "startup", "idle"}
  BY <1>1 DEF SettingsIInv
<1> QED BY <1>1, <1>5, <1>6, <1>8, <1>9, <1>10, <1>11, <1>12 DEF SettingsIInv

LEMMA PowerLossKeeps == ASSUME SettingsIInv, PowerLoss PROVE SettingsIInv'
<1>1. Chip(eeprom')
  <2>1. CASE eeprom' = eeprom
    BY <2>1 DEF SettingsIInv
  <2>2. CASE pending # << >> /\ eeprom' = Put([Head(pending) EXCEPT ![3] = 255])
    <3> DEFINE b == Head(pending)
    <3>1. Rightful(pending) /\ pending \in Writing /\ Chip(eeprom)
      BY DEF SettingsIInv, Rightful
    <3>2. b = pending[1] /\ 1 \in DOMAIN pending
      BY <2>2, <3>1 DEF Writing
    <3>3. Write(b)
      BY <3>1, <3>2 DEF Rightful
    <3>4. b \in Memory \X (1 .. 6) \X SumByte
      BY <2>2, <3>1 DEF Writing
    <3> HIDE DEF b
    <3>5. /\ [b EXCEPT ![3] = 255][1] = b[1] /\ [b EXCEPT ![3] = 255][2] = b[2]
          /\ [b EXCEPT ![3] = 255][3] = 255
      BY <3>4
    <3>6. PutTo(eeprom, eeprom', b[1], b[2], 255)
      BY <2>2, <3>5 DEF Put, PutTo, b
    <3>7. b[1] \in Memory /\ b[2] \in 1 .. Room[b[1]] /\ b[2] \in Nat
      BY <3>3, <3>4 DEF Write
    <3>8. Fits(b[1], b[2], 255)
      BY <3>7, ErasedFits
    <3> QED BY <3>1, <3>6, <3>7, <3>8, PutIs
  <2> QED BY <2>1, <2>2 DEF PowerLoss
<1> QED BY <1>1, NothingToWrite DEF PowerLoss, SettingsIInv

(* A new setting is written as a whole. *)
LEMMA StoreKeeps ==
  ASSUME SettingsIInv, NEW s, Store(s), s \in SettingsData
  PROVE  SettingsIInv'
<1>1. /\ Chip(eeprom) /\ pending = << >> /\ stage = "idle" /\ stage' = "idle"
      /\ eeprom' = eeprom /\ settings' = s /\ offset' = offset
      /\ pending' = WriteGlobal(s)
  BY DEF SettingsIInv, Store, Idle
<1>2. /\ Rightful(pending') /\ Puts(pending', "version", 1, 10)
      /\ Says(pending', "global", s)
      /\ Silent(pending', "coord") /\ Silent(pending', "line")
  BY <1>1, GlobalIs
<1>3. /\ WillBe(eeprom', pending', "version", 1, 10)
      /\ Holds(eeprom', pending', "global", s)
  BY <1>2, PutsIs, SaysHolds
<1>4. offset \in Pair /\ Holds(eeprom', pending', "coord", offset)
  BY <1>1, <1>2, SilentHolds DEF SettingsIInv
<1>5. \E l \in Pair : Holds(eeprom', pending', "line", l)
  BY <1>1, <1>2, SilentHolds DEF SettingsIInv
<1> QED BY <1>1, <1>2, <1>3, <1>4, <1>5 DEF SettingsIInv

LEMMA ChangesKeep ==
  ASSUME SettingsIInv, StoreRate \/ StorePulse \/ StoreLast \/ StoreFlags
  PROVE  SettingsIInv'
<1>1. stage = "idle"
  BY DEF StoreRate, StorePulse, StoreLast, StoreFlags, Store, Idle
<1>2. settings \in Seq(Byte) /\ Len(settings) = 5 /\ Proper(settings[4])
  BY <1>1 DEF SettingsIInv, SettingsData
<1>3. CASE StoreRate
  <2>1. PICK r \in Rates : Store([settings EXCEPT ![1] = r[1], ![2] = r[2]])
    BY <1>3 DEF StoreRate
  <2>2. r[1] \in Byte /\ r[2] \in Byte
    BY SettingsAssumption DEF Byte
  <2>3. [settings EXCEPT ![1] = r[1], ![2] = r[2]] \in SettingsData
    BY <1>2, <2>2 DEF SettingsData
  <2> QED BY <2>1, <2>3, StoreKeeps
<1>4. CASE StorePulse
  <2>1. PICK b \in Pulses : Store([settings EXCEPT ![3] = b])
    BY <1>4 DEF StorePulse
  <2>2. b \in Byte
    BY SettingsAssumption DEF Byte
  <2>3. [settings EXCEPT ![3] = b] \in SettingsData
    BY <1>2, <2>2 DEF SettingsData
  <2> QED BY <2>1, <2>3, StoreKeeps
<1>5. CASE StoreLast
  <2>1. PICK b \in Lasts : Store([settings EXCEPT ![5] = b])
    BY <1>5 DEF StoreLast
  <2>2. b \in Byte
    BY SettingsAssumption DEF Byte
  <2>3. [settings EXCEPT ![5] = b] \in SettingsData
    BY <1>2, <2>2 DEF SettingsData
  <2> QED BY <2>1, <2>3, StoreKeeps
<1>6. CASE StoreFlags
  <2> DEFINE f == settings[4]
  <2>1. f \in Byte /\ Proper(f)
    BY <1>2
  <2>2. PICK g : Store([settings EXCEPT ![4] = g]) /\ g \in Byte /\ Proper(g)
    <3>1. CASE Enabled(HomingBit) /\ Store([settings EXCEPT ![4] = With(f, SoftLimitBit)])
      BY <2>1, <3>1, FlagsStayProper DEF Enabled
    <3>2. CASE Store([settings EXCEPT ![4] = Without(f, SoftLimitBit)])
      BY <2>1, <3>2, FlagsStayProper
    <3>3. CASE Store([settings EXCEPT ![4] = With(f, HomingBit)])
      BY <2>1, <3>3, FlagsStayProper
    <3>4. CASE Store([settings EXCEPT ![4] = HomingOff(f)])
      BY <2>1, <3>4, FlagsStayProper
    <3> QED BY <1>6, <3>1, <3>2, <3>3, <3>4 DEF StoreFlags
  <2>3. [settings EXCEPT ![4] = g] \in SettingsData
    BY <1>2, <2>2 DEF SettingsData
  <2> QED BY <2>2, <2>3, StoreKeeps
<1> QED BY <1>3, <1>4, <1>5, <1>6

LEMMA OtherRecordsKeep ==
  ASSUME SettingsIInv, StoreOffset \/ StoreLine
  PROVE  SettingsIInv'
<1>1. /\ Chip(eeprom) /\ pending = << >> /\ stage = "idle" /\ stage' = "idle"
      /\ eeprom' = eeprom /\ settings' = settings
      /\ offset \in Pair /\ Holds(eeprom, << >>, "coord", offset)
  BY DEF SettingsIInv, StoreOffset, StoreLine, Idle
<1>2. \A p \in Offsets \cup StoreLines : p \in Pair
  <2>1. ASSUME NEW p \in Offsets \cup StoreLines PROVE p \in Pair
    <3>1. p \in Byte \X Byte
      BY SettingsAssumption DEF Byte
    <3>2. p[1] \in Byte /\ p[2] \in Byte /\ p = <<p[1], p[2]>>
      BY <3>1
    <3>3. <<p[1], p[2]>> \in Seq(Byte) /\ Len(<<p[1], p[2]>>) = 2
      BY <3>2
    <3> QED BY <3>2, <3>3 DEF Pair
  <2> QED BY <2>1
<1>3. CASE StoreOffset
  <2>1. PICK o \in Pair : offset' = o /\ pending' = WriteOffset(o)
    BY <1>2, <1>3 DEF StoreOffset
  <2>2. /\ Rightful(pending') /\ Says(pending', "coord", o)
        /\ Silent(pending', "version") /\ Silent(pending', "global")
        /\ Silent(pending', "line")
    BY <2>1, OffsetIs DEF Memory
  <2>3. \E l \in Pair : Holds(eeprom', pending', "line", l)
    BY <1>1, <2>2, SilentHolds DEF SettingsIInv
  <2>4. Holds(eeprom', pending', "coord", offset')
    BY <2>1, <2>2, SaysHolds
  <2> QED BY <1>1, <2>1, <2>2, <2>3, <2>4, GlobalStays DEF SettingsIInv
<1>4. CASE StoreLine
  <2>1. PICK l \in Pair : pending' = WriteLine(l)
    BY <1>2, <1>4 DEF StoreLine
  <2>2. /\ Rightful(pending') /\ Says(pending', "line", l)
        /\ Silent(pending', "version") /\ Silent(pending', "global")
        /\ Silent(pending', "coord")
    BY <2>1, LineIs DEF Memory
  <2>3. offset' = offset /\ Holds(eeprom', pending', "coord", offset')
    BY <1>1, <1>4, <2>2, SilentHolds DEF StoreLine
  <2>4. Holds(eeprom', pending', "line", l)
    BY <2>2, SaysHolds
  <2> QED BY <1>1, <2>1, <2>2, <2>3, <2>4, GlobalStays DEF SettingsIInv
<1> QED BY <1>3, <1>4

LEMMA ResettingKeeps ==
  ASSUME SettingsIInv, ResetSettings \/ Restore
  PROVE  SettingsIInv'
<1>1. /\ Chip(eeprom) /\ pending = << >> /\ stage = "idle" /\ stage' = "init"
      /\ eeprom' = eeprom
  BY DEF SettingsIInv, ResetSettings, Restore, Idle
<1>2. CASE ResetSettings
  BY <1>2, <1>1 DEF ResetSettings, SettingsIInv
<1>3. CASE pending' \in {WriteGlobal(DefaultSettings), RestoreAll}
           /\ settings' = DefaultSettings
  <2>1. /\ Rightful(pending') /\ Puts(pending', "version", 1, 10)
        /\ Says(pending', "global", settings')
    BY <1>3, GlobalIs, RestoreAllIs, DefaultsFit
  <2>2. /\ WillBe(eeprom', pending', "version", 1, 10)
        /\ Holds(eeprom', pending', "global", settings')
    BY <2>1, PutsIs, SaysHolds
  <2> QED BY <1>1, <1>3, <2>1, <2>2, DefaultsFit DEF SettingsIInv
<1>4. CASE pending' = WriteOffset(NoOffset) /\ settings' = settings
  <2>1. /\ Rightful(pending')
        /\ Silent(pending', "version") /\ Silent(pending', "global")
    BY <1>4, OffsetIs, DefaultsFit DEF Memory
  <2> QED BY <1>1, <1>4, <2>1, GlobalStays DEF SettingsIInv
<1> QED BY <1>2, <1>3, <1>4 DEF Restore

LEMMA SettingsKeep == SettingsIInv /\ [SettingsNext]_settingsVars => SettingsIInv'
<1> SUFFICES ASSUME SettingsIInv, [SettingsNext]_settingsVars PROVE SettingsIInv'
  OBVIOUS
<1>1. CASE UNCHANGED settingsVars
  BY <1>1 DEF settingsVars, SettingsIInv
<1> QED BY <1>1, PowerOnKeeps, ReadOffsetKeeps, ReadLineKeeps, WriteByteKeeps,
           PowerLossKeeps, ChangesKeep, OtherRecordsKeep, ResettingKeeps
        DEF SettingsNext

LEMMA SameBytes ==
  ASSUME NEW c \in Seq(Byte), NEW s \in Seq(Byte),
         Len(c) = Len(s), \A i \in 1 .. Len(s) : c[i] = s[i]
  PROVE  c = s
OBVIOUS

(* The settings and the offset in force are stored whenever the firmware waits
   for a command: settings.c writes each record as a whole, and settings_init,
   gc_init and system_execute_startup write again what they could not read,
   wherever in its bytes the power went; for every setting, offset and line. *)
THEOREM StoredAlwaysInForce == SettingsSpec => []StoredIsInForce
<1>1. SettingsIInv => StoredIsInForce
  <2> SUFFICES ASSUME SettingsIInv, Idle("idle") PROVE
        /\ Readable /\ Cells(eeprom["global"]) = settings
        /\ Valid(eeprom["coord"]) /\ Cells(eeprom["coord"]) = offset
        /\ Valid(eeprom["line"])
    BY DEF StoredIsInForce
  <2>1. /\ stage = "idle" /\ pending = << >> /\ Chip(eeprom)
        /\ settings \in SettingsData /\ offset \in Pair
    BY DEF Idle, SettingsIInv
  <2>2. ASSUME NEW rec \in {"global", "coord", "line"}, NEW s \in Seq(Byte),
               Len(s) + 1 = Room[rec], Holds(eeprom, << >>, rec, s)
        PROVE  Cells(eeprom[rec]) = s /\ Valid(eeprom[rec])
    <3> DEFINE c == Cells(eeprom[rec])
    <3>1. /\ c \in Seq(Byte) /\ Len(c) = Room[rec] - 1
          /\ \A i \in 1 .. Room[rec] - 1 : c[i] = eeprom[rec][i]
          /\ Valid(eeprom[rec]) <=> Checksum(c) = eeprom[rec][Room[rec]]
      BY <2>1, CellsAre
    <3> HIDE DEF c
    <3>2. /\ \A i \in 1 .. Len(s) : eeprom[rec][i] = s[i]
          /\ eeprom[rec][Len(s) + 1] = Checksum(s)
      BY <2>2, NothingToWrite DEF Holds
    <3>3. Len(c) = Len(s) /\ \A i \in 1 .. Len(s) : c[i] = s[i]
      BY <2>2, <3>1, <3>2
    <3>4. c \in Seq(Byte) /\ s \in Seq(Byte)
      BY <2>2, <3>1
    <3>5. c = s
      BY <3>3, <3>4, SameBytes
    <3> QED BY <2>2, <3>1, <3>2, <3>5 DEF c
  <2>3. Cells(eeprom["global"]) = settings /\ Valid(eeprom["global"])
    <3>1. Holds(eeprom, << >>, "global", settings)
      BY <2>1 DEF SettingsIInv
    <3> QED BY <2>1, <2>2, <3>1, RecordsFit
  <2>4. Cells(eeprom["coord"]) = offset /\ Valid(eeprom["coord"])
    <3>1. Holds(eeprom, << >>, "coord", offset)
      BY <2>1 DEF SettingsIInv
    <3> QED BY <2>1, <2>2, <3>1, RecordsFit
  <2>5. Valid(eeprom["line"])
    <3>1. PICK l \in Pair : Holds(eeprom, << >>, "line", l)
      BY <2>1 DEF SettingsIInv
    <3> QED BY <2>2, <3>1, RecordsFit
  <2>6. eeprom["version"] = << 10 >>
    <3>1. eeprom["version"][1] = 10
      BY <2>1, NothingToWrite DEF SettingsIInv
    <3>2. eeprom["version"] \in Seq(SumByte) /\ Len(eeprom["version"]) = 1
      BY <2>1, Rooms DEF Chip, Memory
    <3> QED BY <3>1, <3>2
  <2> QED BY <2>3, <2>4, <2>5, <2>6 DEF Readable, SETTINGS_VERSION
<1> QED BY <1>1, SettingsStart, SettingsKeep, PTL DEF SettingsSpec

(* Soft limits are never on without homing, not after a power loss in the
   middle of the settings either: settings_store_global_setting binds the two
   bits, and a byte that was erased and not written has both. *)
THEOREM SoftLimitsAlwaysBound == SettingsSpec => []SoftLimitsNeedHoming
<1>1. SettingsIInv => SoftLimitsNeedHoming
  BY DEF SettingsIInv, SettingsData, Proper, SoftLimitsNeedHoming, Enabled
<1> QED BY <1>1, SettingsStart, SettingsKeep, PTL DEF SettingsSpec
=============================================================================

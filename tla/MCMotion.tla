------------------------------ MODULE MCMotion ------------------------------
(***************************************************************************)
(* What moves the motors and keeps count of them, small: the stepper       *)
(* driver with two kinds of blocks that differ in the axis that dominates  *)
(* and in direction, one of a single step, and the smallest rings, whose   *)
(* slots come round with the third block; the homing cycle; and the copies *)
(* of the position, with lines that end on a step, and half a step beside  *)
(* one.  One of them works while the others are as at the start, so that   *)
(* their state spaces add up.                                              *)
(***************************************************************************)
EXTENDS Stepper, Homing, Positions

MCBlocks == {[steps |-> <<2, 1>>, dir |-> <<1, -1>>],
             [steps |-> <<0, 1>>, dir |-> <<1, 1>>]}

MCMoves == {[axis \in XY |-> IF axis = "X" THEN -3 ELSE -2],
            [axis \in XY |-> IF axis = "X" THEN 1 ELSE -1]}
MCWorkOffset == [axis \in XY |-> 1]

motionVars == <<vars, homingVars, positionVars>>

(* The driver after power-up; one of the machines that may be homed. *)
StepperUnused == pc = "rt" /\ added = 0 /\ ctl = CtlReset /\ prep = PrepReset
HomingUnused ==
  /\ ~tried /\ place = "main" /\ \A axis \in XY : limit[axis] = "works"
  /\ \A m \in Motors : carriage[m] = 0 /\ sys_position[m] = 0
PositionsUnused ==
  /\ lines = 0 /\ mode = "IDLE" /\ at = "main" /\ flagged = {}

NotHoming == HomingUnused /\ UNCHANGED homingVars
NotStepper == StepperUnused /\ UNCHANGED vars
NotPositions == PositionsUnused /\ UNCHANGED positionVars

MotionInit == Init /\ HomingInit /\ PositionsInit
MotionNext ==
  \/ NotHoming /\ NotPositions /\ Next
  \/ NotStepper /\ NotPositions /\ HomingNext
  \/ NotStepper /\ NotHoming /\ PositionsNext

MotionSpec == MotionInit /\ [][MotionNext]_motionVars
=============================================================================

------------------------------- MODULE CoreXY -------------------------------
(***************************************************************************)
(* The kinematics of the build: two motors A and B that both move both     *)
(* axes, X by the sum of their steps and Y by the difference.              *)
(***************************************************************************)
EXTENDS Integers

XY == {"X", "Y"}
Motors == {"A", "B"}
OtherAxis(axis) == IF axis = "X" THEN "Y" ELSE "X"

(* Division as C does it, and a position of the motors as axis coordinates. *)
Half(n) == IF n >= 0 THEN n \div 2 ELSE -((-n) \div 2)
Twice(steps, axis) ==
  IF axis = "X" THEN steps["A"] + steps["B"] ELSE steps["A"] - steps["B"]
ToAxis(steps, axis) == Half(Twice(steps, axis))

(* What motor m does when an axis moves by n. *)
MotorSteps(axis, n) ==
  [m \in Motors |-> IF axis = "Y" /\ m = "B" THEN -n ELSE n]
=============================================================================

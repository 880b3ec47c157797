------------------------------- MODULE Homing -------------------------------
(***************************************************************************)
(* The homing cycle ($H): limits_go_home (grbl/limits.c) moves one axis    *)
(* after the other towards its limit switch, off it, back to it slowly and *)
(* off it again, and then sets the machine's position; mc_homing_cycle     *)
(* (motion_control.c) runs it for X and for Y, in the build for a CoreXY   *)
(* frame, whose two motors A and B move both axes.                         *)
(*                                                                         *)
(* The stepper interrupt, which steps the motors that homing_axis_lock     *)
(* lets through and counts their steps in sys_position either way, runs    *)
(* between any two readings of the switches by the main program; so do the *)
(* reset and the safety door characters.                                   *)
(*                                                                         *)
(* Left out: speeds, the debounce delay, and the characters '!' and '~',   *)
(* which nobody looks at before the cycle has ended and which then do      *)
(* nothing.                                                                *)
(***************************************************************************)
EXTENDS CoreXY

CONSTANTS Travel,      \* settings.max_travel of both axes, in steps
          Pulloff,     \* settings.homing_pulloff, in steps
          Inverted,    \* settings.homing_dir_mask
          Lag,         \* bound: steps from a closed switch to the pass's end
          Switches     \* what the switches may be like

ASSUME HomingAssumption ==
  /\ Travel \in Nat \ {0} /\ Pulloff \in Nat \ {0} /\ Lag \in Nat
  /\ Lag < Pulloff
  /\ Inverted \subseteq XY
  /\ Switches \subseteq {"works", "open", "closed"}

VARIABLES
  carriage,            \* where the motors really are
  limit,               \* what each switch is like
  sys_position,        \* where the firmware takes the motors to be
  homing_axis_lock,    \* of sys: the motors that may be stepped
  remaining,           \* steps left of the planned motion
  stepping,            \* the stepper interrupt is enabled
  exec_state, exec_alarm,   \* the flags, and whether an alarm is due
  machine,             \* sys.state
  cycle, pass,         \* the axis, and which of its passes
  place,               \* of the main program
  over,                \* history: steps made with the switch closed
  tried,               \* history: $H was executed
  misled               \* history: a pass ended at another axis's switch

carriageVars == <<carriage, limit>>
stepperVars == <<sys_position, homing_axis_lock, remaining, stepping>>
execVars == <<exec_state, exec_alarm, machine>>
passVars == <<cycle, pass, place>>
homingHistory == <<over, tried, misled>>
homingVars == <<carriageVars, stepperVars, execVars, passVars, homingHistory>>

(* A switch closes at the end of the axis its homing direction leads to. *)
Closed(axis) ==
  \/ limit[axis] = "closed"
  \/ /\ limit[axis] = "works"
     /\ IF axis \in Inverted THEN Twice(carriage, axis) <= 0
                             ELSE Twice(carriage, axis) >= 2 * Travel

limits_get_state == {axis \in XY : Closed(axis)}

HomingInit ==
  /\ carriage \in [Motors -> -Travel .. 2 * Travel]
  /\ \A axis \in XY : Twice(carriage, axis) \in 0 .. 2 * Travel
  /\ limit \in [XY -> Switches]
  /\ sys_position \in {[m \in Motors |-> 0],
                       [m \in Motors |-> IF m = "A" THEN 1 ELSE 0]}
  /\ homing_axis_lock = {} /\ remaining = 0 /\ stepping = FALSE
  /\ exec_state = {} /\ exec_alarm = FALSE /\ machine = "ALARM"
  /\ cycle = "X" /\ pass = 0 /\ place = "main"
  /\ over = 0 /\ tried = FALSE /\ misled = FALSE

-----------------------------------------------------------------------------
(* Interrupts. *)

HomingReset ==
  /\ tried /\ "RESET" \notin exec_state
  /\ exec_state' = exec_state \cup {"RESET"}
  /\ exec_alarm' = (exec_alarm \/ machine = "HOMING")
  /\ stepping' = (stepping /\ machine # "HOMING")
  /\ UNCHANGED <<carriageVars, sys_position, homing_axis_lock, remaining,
                 machine, passVars, homingHistory>>

HomingDoor ==
  /\ machine = "HOMING"
  /\ exec_state' = exec_state \cup {"SAFETY_DOOR"}
  /\ UNCHANGED <<carriageVars, stepperVars, exec_alarm, machine, passVars,
                 homingHistory>>

(* Towards the switch in the passes 0 and 2, away from it in 1 and 3. *)
Approach == pass \in {0, 2}

Direction ==
  IF (cycle \in Inverted) = Approach THEN -1 ELSE 1

Plus(p, axis, n, motors) ==
  [m \in Motors |-> IF m \in motors THEN p[m] + MotorSteps(axis, n)[m]
                                    ELSE p[m]]

(* The switch is closed, and the main program has not stopped the pass yet:
   whether the motors are locked already or not, few steps are made until it
   does. *)
Overruns == Approach /\ Closed(cycle)

HomingStep ==
  /\ stepping /\ remaining > 0
  /\ Overruns => over < Lag
  /\ sys_position' = Plus(sys_position, cycle, Direction, Motors)
  /\ carriage' = Plus(carriage, cycle, Direction, homing_axis_lock)
  /\ remaining' = remaining - 1
  /\ over' = IF Overruns THEN over + 1 ELSE over
  /\ UNCHANGED <<limit, homing_axis_lock, stepping, execVars, passVars, tried,
                 misled>>

HomingStepsOut ==
  /\ stepping /\ remaining = 0
  /\ stepping' = FALSE
  /\ exec_state' = exec_state \cup {"CYCLE_STOP"}
  /\ UNCHANGED <<carriageVars, sys_position, homing_axis_lock, remaining,
                 exec_alarm, machine, passVars, homingHistory>>

-----------------------------------------------------------------------------
(* $H *)
HomeCommand ==
  /\ place = "main" /\ machine \in {"IDLE", "ALARM"} /\ ~tried
  /\ machine' = "HOMING"
  /\ cycle' = "X" /\ pass' = 0 /\ place' = "start"
  /\ tried' = TRUE
  /\ UNCHANGED <<carriageVars, stepperVars, exec_state, exec_alarm, over,
                 misled>>

(* The search is half as long again as the axis, the locating pass five times
   the pull-off. *)
PassDistance(p) == CASE p = 0 -> Travel + Half(Travel) + 1
                     [] p = 2 -> 5 * Pulloff
                     [] OTHER -> Pulloff

(* The position of the axis is zeroed, and that of the other one kept. *)
Zeroed(axis) == Plus([m \in Motors |-> 0], OtherAxis(axis),
                     ToAxis(sys_position, OtherAxis(axis)), Motors)

StartPass ==
  /\ place = "start"
  /\ sys_position' = Zeroed(cycle)
  /\ homing_axis_lock' = Motors
  /\ remaining' = PassDistance(pass)
  /\ stepping' = TRUE
  /\ over' = 0
  /\ place' = "poll"
  /\ UNCHANGED <<carriageVars, execVars, cycle, pass, tried, misled>>

(* Both motors are pins of either axis in a CoreXY frame, so a closed switch
   of either axis ends the approach. *)
Stops == limits_get_state # {}

Poll ==
  /\ place = "poll"
  /\ IF Approach /\ Stops
     THEN /\ homing_axis_lock' = {}
          /\ misled' = (misled \/ ~Closed(cycle))
     ELSE UNCHANGED <<homing_axis_lock, misled>>
  /\ place' = "check"
  /\ UNCHANGED <<carriageVars, sys_position, remaining, stepping, execVars,
                 cycle, pass, over, tried>>

StillClosed == ~Approach /\ Closed(cycle)

NotFound == Approach /\ "CYCLE_STOP" \in exec_state

Fails == \/ exec_state \cap {"RESET", "SAFETY_DOOR"} # {}
         \/ StillClosed \/ NotFound \/ exec_alarm

Happened == exec_state \cap {"RESET", "SAFETY_DOOR", "CYCLE_STOP"} # {}

(* The loop goes round while a motor is not locked and nothing has happened;
   a failure resets, unless a reset is what has happened. *)
Check ==
  /\ place = "check"
  /\ \/ /\ ~Happened /\ homing_axis_lock # {}
        /\ place' = "poll"
        /\ UNCHANGED <<exec_state, exec_alarm, stepping>>
     \/ /\ ~Happened /\ homing_axis_lock = {}
        /\ place' = "stop"
        /\ UNCHANGED <<exec_state, exec_alarm, stepping>>
     \/ /\ Happened /\ Fails
        /\ exec_alarm' = TRUE
        /\ exec_state' = exec_state \cup {"RESET"}
        /\ stepping' = (stepping /\ "RESET" \in exec_state)
        /\ place' = "failed"
     \/ /\ Happened /\ ~Fails
        /\ exec_state' = exec_state \ {"CYCLE_STOP"}
        /\ place' = "stop"
        /\ UNCHANGED <<exec_alarm, stepping>>
  /\ UNCHANGED <<carriageVars, sys_position, homing_axis_lock, remaining,
                 machine, cycle, pass, homingHistory>>

(* st_reset *)
StopPass ==
  /\ place = "stop"
  /\ stepping' = FALSE /\ remaining' = 0
  /\ pass' = IF pass = 3 THEN pass ELSE pass + 1
  /\ place' = IF pass = 3 THEN "set" ELSE "start"
  /\ UNCHANGED <<carriageVars, sys_position, homing_axis_lock, execVars, cycle,
                 homingHistory>>

(* Machine space is negative, whatever end the switch is at. *)
HomePositionMutant(axis) == -Pulloff
HomePosition(axis) ==
  IF axis \in Inverted THEN -Travel + Pulloff ELSE -Pulloff

Kept(axis) == ToAxis(sys_position, OtherAxis(axis))

SetPosition ==
  /\ place = "set"
  /\ sys_position' =
       Plus(Plus([m \in Motors |-> 0], cycle, HomePosition(cycle), Motors),
            OtherAxis(cycle), Kept(cycle), Motors)
  /\ IF cycle = "X" THEN cycle' = "Y" /\ pass' = 0 /\ place' = "start"
                    ELSE place' = "realtime" /\ UNCHANGED <<cycle, pass>>
  /\ UNCHANGED <<carriageVars, homing_axis_lock, remaining, stepping, execVars,
                 homingHistory>>

-----------------------------------------------------------------------------
(* protocol_execute_realtime, after a failure and at the end: an alarm, then a
   reset, or a door; a door that no check of the cycle has seen suspends it
   with no hold to complete. *)
RealtimeAlarm ==
  /\ place \in {"failed", "realtime", "suspended"}
  /\ machine' = IF exec_alarm THEN "ALARM" ELSE machine
  /\ exec_alarm' = FALSE
  /\ place' = CASE place = "failed" -> "failed2"
                [] place = "realtime" -> "realtime2"
                [] OTHER -> "suspended2"
  /\ UNCHANGED <<carriageVars, stepperVars, exec_state, cycle, pass,
                 homingHistory>>

RealtimeFlags ==
  /\ place \in {"failed2", "realtime2", "suspended2"}
  /\ \/ /\ "RESET" \in exec_state
        /\ place' = "boot" /\ UNCHANGED <<exec_state, machine>>
     \/ /\ "RESET" \notin exec_state /\ "SAFETY_DOOR" \in exec_state
        /\ machine # "ALARM"
        /\ exec_state' = {} /\ machine' = "SAFETY_DOOR" /\ place' = "suspended"
     \/ /\ exec_state \cap {"RESET", "SAFETY_DOOR"} = {}
        /\ exec_state' = {}
        /\ place' = IF place = "suspended2" THEN "suspended" ELSE "finish"
        /\ UNCHANGED machine
  /\ UNCHANGED <<carriageVars, stepperVars, exec_alarm, cycle, pass,
                 homingHistory>>

(* The parser and the planner take over the position; the machine is ready. *)
Finish ==
  /\ place = "finish"
  /\ machine' = "IDLE" /\ stepping' = FALSE
  /\ place' = "main"
  /\ UNCHANGED <<carriageVars, sys_position, homing_axis_lock, remaining,
                 exec_state, exec_alarm, cycle, pass, homingHistory>>

(* A reset, anywhere outside of the cycle, and after it. *)
HomingBoot ==
  /\ place = "boot" \/ (place = "main" /\ "RESET" \in exec_state)
  /\ machine' = IF machine = "ALARM" THEN "ALARM" ELSE "IDLE"
  /\ exec_state' = {} /\ exec_alarm' = FALSE
  /\ stepping' = FALSE /\ remaining' = 0
  /\ place' = "main"
  /\ UNCHANGED <<carriageVars, sys_position, homing_axis_lock, cycle, pass,
                 homingHistory>>

HomingInterrupt == HomingReset \/ HomingDoor \/ HomingStep \/ HomingStepsOut

limits_go_home == StartPass \/ Poll \/ Check \/ StopPass \/ SetPosition

HomingMain == \/ limits_go_home \/ RealtimeAlarm \/ RealtimeFlags \/ Finish
              \/ HomingBoot

HomingNext == HomingInterrupt \/ HomeCommand \/ HomingMain

HomingSpec == HomingInit /\ [][HomingNext]_homingVars

-----------------------------------------------------------------------------
(* How far the position the firmware believes in is off, in half steps: the
   axis ends at Travel, which is zero of the machine's coordinates. *)
Error(axis) ==
  Twice(sys_position, axis) - (Twice(carriage, axis) - 2 * Travel)

HomedTruly ==
  \A axis \in XY : Error(axis) \in -(2 * Lag + 1) .. 2 * Lag + 1

(* A machine that is ready after $H knows where it is, to within the steps
   between two readings of a switch: a cycle that a reset, a door or a switch
   has spoilt ends in an alarm.  That no axis ends its search at the switch of
   the other one is taken for granted here (see HomedIsTrue). *)
HomedUnlessMisled ==
  place = "main" /\ machine = "IDLE" /\ tried /\ ~misled => HomedTruly

(* What limits_go_home says after its last pass: "The active cycle axes should
   now be homed and machine limits have been located". *)
HomedIsTrue ==
  place = "main" /\ machine = "IDLE" /\ tried => HomedTruly
=============================================================================

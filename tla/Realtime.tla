------------------------------ MODULE Realtime ------------------------------
(***************************************************************************)
(* The realtime command system of the firmware: the flag words the         *)
(* interrupts set, protocol_exec_rt_system, which the main program calls   *)
(* at its check points and which turns flags into states of the machine    *)
(* (grbl/protocol.c), and the interrupts themselves: serial characters     *)
(* (serial.c), limit pins (limits.c) and the stepper driver (stepper.c).   *)
(*                                                                         *)
(* An interrupt may fire between any two steps of the main program, which  *)
(* are cut where the main program reads or writes a word that interrupts   *)
(* share with it.  Motion is counted in planner blocks and in segments of  *)
(* the stepper's queue; modules Planner and SerialRx have the contents.    *)
(*                                                                         *)
(* The safety door is the character of that name: the build has no pin for *)
(* it and takes the door for closed, and it has no parking motion.         *)
(*                                                                         *)
(* Left out: homing, probing, check mode and soft limits, and the override *)
(* characters (of the overrides only the spindle stop laser mode brings on;*)
(* module Planner has the feed override).                                  *)
(***************************************************************************)
EXTENDS Naturals

CONSTANTS MaxBlocks,     \* BLOCK_BUFFER_SIZE - 1
          MaxSegments,   \* SEGMENT_BUFFER_SIZE - 1
          MaxLines,      \* bound: lines the host sends
          Chars,         \* the realtime characters that may arrive
          HardLimits,    \* setting $21
          LaserMode,     \* setting $32
          Starves        \* the stepper may outrun the main program

ASSUME RealtimeAssumption ==
  /\ MaxBlocks \in Nat \ {0} /\ MaxSegments \in Nat \ {0} /\ MaxLines \in Nat
  /\ Chars \subseteq {"hold", "start", "jog_cancel", "door", "reset"}
  /\ HardLimits \in BOOLEAN /\ LaserMode \in BOOLEAN /\ Starves \in BOOLEAN

VARIABLES
  sys_rt_exec_state,  \* set of flags, written by interrupts and main program
  sys_rt_exec_alarm,
  state, suspend, abort,   \* of sys
  execHold, endMotion,     \* the bits of sys.step_control
  spindle_stop_ovr,        \* of sys
  penOff,                  \* a suspend has stopped the spindle's PWM, which
                           \* the program has on
  stopSpindle,             \* EXEC_SPINDLE_OVR_STOP in the accessory overrides
  blocks, segments,        \* motion not prepared, and not stepped yet
  timer,                   \* the stepper interrupt is enabled
  refilled,                \* the last refill left blocks behind a full queue
  pc, rt_exec,             \* the main program: place, copy of the flags
  suspended,               \* whether, and where, it is inside
                           \* protocol_exec_rt_suspend
  caller,                  \* the check point protocol_exec_rt_system runs for
  line, lines,             \* the line in execution; number of lines received
  \* history
  asked,                   \* '~' was received since the hold, or the door,
                           \* was noticed
  lost                     \* a reset killed the steppers in motion, outside
                           \* of the window PositionLostIsFlagged names

sys == <<state, suspend, abort, execHold, endMotion>>
spindle == <<spindle_stop_ovr, stopSpindle, penOff, suspended>>
flags == <<sys_rt_exec_state, sys_rt_exec_alarm>>
motion == <<blocks, segments, timer, refilled>>
place == <<rt_exec, caller, line, lines>>
history == <<asked, lost>>
vars == <<sys, spindle, flags, motion, pc, place, history>>

Stops == {"FEED_HOLD", "MOTION_CANCEL", "SAFETY_DOOR"}
Holds == Stops \cup {"SLEEP"}
Flags == Holds \cup {"CYCLE_START", "CYCLE_STOP", "RESET"}
Lines == {"motion", "jog", "spindle", "unlock", "sleep"}

(* Bits of sys.suspend. *)
Cancels == {"MOTION_CANCEL", "JOG_CANCEL"}
DoorStages == {"RETRACT_COMPLETE", "INITIATE_RESTORE", "RESTORE_COMPLETE"}
Suspends == Cancels \cup DoorStages
              \cup {"HOLD_COMPLETE", "SAFETY_DOOR_AJAR", "RESTART_RETRACT"}

(* sys.state without HOMING and CHECK_MODE; bits of sys.spindle_stop_ovr. *)
States == {"IDLE", "ALARM", "CYCLE", "HOLD", "JOG", "SAFETY_DOOR", "SLEEP"}
SpindleStops == {"ENABLED", "INITIATE", "RESTORE", "RESTORE_CYCLE"}

TypeOK ==
  /\ sys_rt_exec_state \subseteq Flags /\ rt_exec \subseteq Flags
  /\ sys_rt_exec_alarm \in {"none", "abort", "hard"}
  /\ state \in States /\ suspend \subseteq Suspends
  /\ spindle_stop_ovr \subseteq SpindleStops
  /\ {abort, execHold, endMotion, timer, refilled, asked, lost, stopSpindle,
      penOff} \subseteq BOOLEAN
  /\ suspended \in {"no", "yes", "restoring", "asleep"}
  /\ blocks \in 0 .. MaxBlocks /\ segments \in 0 .. MaxSegments
  /\ pc \in {"main", "exec", "critical", "clearAlarm", "copy", "hold",
             "clearHold", "start", "startPrep", "startWake", "clearStart",
             "stop", "clearStop", "override", "prep", "return", "jog",
             "jogPrep", "jogWake", "servo", "boot", "boot2"}
  /\ caller \in {"loop", "line", "queue", "sync"}
  /\ line \in Lines \cup {"none"} /\ lines \in 0 .. MaxLines

(* Power has come on, and main has reached its loop. *)
Init ==
  /\ sys_rt_exec_state = {} /\ sys_rt_exec_alarm = "none"
  /\ state = "IDLE" /\ suspend = {} /\ abort = FALSE
  /\ execHold = FALSE /\ endMotion = FALSE
  /\ spindle_stop_ovr = {} /\ stopSpindle = FALSE /\ suspended = "no"
  /\ penOff = FALSE
  /\ blocks = 0 /\ segments = 0 /\ timer = FALSE /\ refilled = FALSE
  /\ pc = "main" /\ rt_exec = {} /\ caller = "loop"
  /\ line = "none" /\ lines = 0
  /\ asked = FALSE /\ lost = FALSE

Set(f) == sys_rt_exec_state' = sys_rt_exec_state \cup f
Clear(f) == sys_rt_exec_state' = sys_rt_exec_state \ f

-----------------------------------------------------------------------------
(* Interrupts. *)

ISRSame == UNCHANGED <<sys, spindle, blocks, segments, refilled, pc, place>>

CmdFeedHold == /\ "hold" \in Chars
               /\ Set({"FEED_HOLD"})
               /\ ISRSame /\ UNCHANGED <<sys_rt_exec_alarm, timer, history>>

CmdSafetyDoor == /\ "door" \in Chars
                 /\ Set({"SAFETY_DOOR"})
                 /\ ISRSame /\ UNCHANGED <<sys_rt_exec_alarm, timer, history>>

CmdCycleStart == /\ "start" \in Chars
                 /\ Set({"CYCLE_START"}) /\ asked' = TRUE
                 /\ ISRSame /\ UNCHANGED <<sys_rt_exec_alarm, timer, lost>>

CmdJogCancel == /\ "jog_cancel" \in Chars /\ state = "JOG"
                /\ Set({"MOTION_CANCEL"})
                /\ ISRSame /\ UNCHANGED <<sys_rt_exec_alarm, timer, history>>

(* mc_reset: in motion, the steppers are killed and alarm says so. *)
InMotion == state \in {"CYCLE", "JOG"} \/ execHold

mc_reset(alarm) ==
  /\ Set({"RESET"})
  /\ IF "RESET" \notin sys_rt_exec_state /\ InMotion
     THEN /\ sys_rt_exec_alarm' = alarm
          /\ timer' = FALSE
          /\ lost' = (lost \/ (timer /\ segments > 0 /\ pc # "copy"))
     ELSE /\ sys_rt_exec_alarm' = IF alarm = "hard" THEN alarm
                                  ELSE sys_rt_exec_alarm
          /\ UNCHANGED <<timer, lost>>

CmdReset ==
  "reset" \in Chars /\ mc_reset("abort") /\ ISRSame /\ UNCHANGED asked

LimitPin == /\ HardLimits
            /\ state # "ALARM" /\ sys_rt_exec_alarm = "none"
            /\ mc_reset("hard")
            /\ ISRSame /\ UNCHANGED asked

(* The stepper driver steps a segment to its end ... *)
Step ==
  /\ timer /\ segments > 0
  /\ segments' = segments - 1
  /\ UNCHANGED <<sys, spindle, flags, blocks, timer, refilled, pc, place,
                 history>>

(* ... or finds no other one and shuts itself down.  A refill that fills the
   queue lasts until the next one (see the header of st_prep_buffer), unless
   Starves. *)
ShutDown == {"CYCLE_STOP"}

StepperIdle ==
  /\ timer /\ segments = 0
  /\ Starves \/ ~refilled
  /\ timer' = FALSE
  /\ Set(ShutDown)
  /\ UNCHANGED <<sys, spindle, sys_rt_exec_alarm, blocks, segments, refilled,
                 pc, place, history>>

Interrupt == \/ CmdFeedHold \/ CmdCycleStart \/ CmdJogCancel \/ CmdReset
             \/ CmdSafetyDoor \/ LimitPin \/ Step \/ StepperIdle

-----------------------------------------------------------------------------
(* st_prep_buffer: blocks are cut into segments, each into one at least, until
   the queue is full, the blocks are used up, or a hold has come to a stop in
   the middle of a block. *)
st_prep_buffer ==
  IF endMotion \/ blocks = 0 \/ segments = MaxSegments
  THEN /\ refilled' = (blocks > 0 /\ ~endMotion)
       /\ UNCHANGED <<blocks, segments, endMotion>>
  ELSE \E b \in 0 .. blocks, s \in segments .. MaxSegments,
          stopped \in BOOLEAN :
         /\ s - segments >= blocks - b
         /\ IF stopped THEN execHold /\ b > 0 ELSE s = MaxSegments \/ b = 0
         /\ blocks' = b /\ segments' = s /\ endMotion' = stopped
         /\ refilled' = (b > 0 /\ ~stopped)

(* protocol_exec_rt_system: first the alarm ... *)
AlarmCheck ==
  /\ pc = "exec"
  /\ IF sys_rt_exec_alarm = "none"
     THEN pc' = "copy" /\ UNCHANGED <<state, sys_rt_exec_state>>
     ELSE /\ state' = "ALARM"
          /\ IF sys_rt_exec_alarm = "hard"
             THEN Clear({"RESET"}) /\ pc' = "critical"
             ELSE UNCHANGED sys_rt_exec_state /\ pc' = "clearAlarm"
  /\ UNCHANGED <<suspend, abort, execHold, endMotion, spindle,
                 sys_rt_exec_alarm, motion, place, history>>

CriticalEvent ==
  /\ pc = "critical" /\ "RESET" \in sys_rt_exec_state
  /\ pc' = "clearAlarm"
  /\ UNCHANGED <<sys, spindle, flags, motion, place, history>>

ClearAlarm ==
  /\ pc = "clearAlarm"
  /\ sys_rt_exec_alarm' = "none"
  /\ pc' = "copy"
  /\ UNCHANGED <<sys, spindle, sys_rt_exec_state, motion, place, history>>

AfterStart == IF "CYCLE_STOP" \in rt_exec THEN "stop" ELSE "override"
AfterHold == IF "CYCLE_START" \in rt_exec THEN "start" ELSE AfterStart

(* A '!' while the door is open, or closed and being left, is of no effect. *)
Noticed == IF state = "SAFETY_DOOR" THEN {"SAFETY_DOOR"} ELSE Holds

(* ... then a copy of the flags, of which a reset ends everything. *)
CopyState ==
  /\ pc = "copy"
  /\ rt_exec' = sys_rt_exec_state
  /\ IF "RESET" \in sys_rt_exec_state
     THEN abort' = TRUE /\ pc' = "return"
     ELSE /\ UNCHANGED abort
          /\ pc' = IF rt_exec' \cap Holds # {} THEN "hold" ELSE AfterHold'
  /\ asked' = (asked /\ rt_exec' \cap Noticed = {})
  /\ UNCHANGED <<state, suspend, execHold, endMotion, spindle, flags, motion,
                 caller, line, lines, lost>>

(* A feed hold, motion cancel, safety door or sleep.  A jog is cancelled by
   each of them, but not by sleep.  Where nothing moves the hold is complete at
   once. *)
AtRestMutant == state # "CYCLE"
AtRest == state = "IDLE"

Holding ==      \* step_control: a motion begins to decelerate
  /\ state \in {"CYCLE", "JOG"}
  /\ suspend \cap Cancels = {}

HoldState == IF /\ "FEED_HOLD" \in rt_exec
                /\ state \notin {"SAFETY_DOOR", "JOG", "SLEEP"}
             THEN "HOLD" ELSE state

HoldSuspend ==
  (IF AtRest THEN {"HOLD_COMPLETE"} ELSE suspend)
    \cup (IF Holding /\ state = "JOG" /\ "SLEEP" \notin rt_exec
          THEN {"JOG_CANCEL"} ELSE {})
    \cup (IF "MOTION_CANCEL" \in rt_exec /\ state # "JOG"
          THEN {"MOTION_CANCEL"} ELSE {})

(* The door waits for a jog to be cancelled; one that opens again while the
   spindle is restored starts all over. *)
DoorState(st, sus) ==
  IF st = "SLEEP" \/ "JOG_CANCEL" \in sus THEN st ELSE "SAFETY_DOOR"

DoorSuspend(st, sus) ==
  {"SAFETY_DOOR_AJAR"} \cup
    IF /\ st = "SAFETY_DOOR" /\ "INITIATE_RESTORE" \in sus
       /\ "JOG_CANCEL" \notin sus
    THEN (sus \ DoorStages) \cup {"RESTART_RETRACT"}
    ELSE sus

Hold ==
  LET door == "SAFETY_DOOR" \in rt_exec
      sleep == "SLEEP" \in rt_exec
      st == IF state = "ALARM" THEN state
            ELSE IF door THEN DoorState(HoldState, HoldSuspend) ELSE HoldState
      sus == IF state = "ALARM" THEN suspend
             ELSE IF door THEN DoorSuspend(HoldState, HoldSuspend)
             ELSE HoldSuspend
  IN /\ pc = "hold"
     /\ execHold' = (execHold \/ Holding)
     /\ endMotion' = (endMotion /\ ~Holding)
     /\ state' = IF sleep THEN "SLEEP" ELSE st
     /\ suspend' = IF sleep /\ state = "ALARM"
                   THEN sus \cup {"RETRACT_COMPLETE", "HOLD_COMPLETE"} ELSE sus
     /\ pc' = "clearHold"
     /\ UNCHANGED <<abort, spindle, flags, motion, place, history>>

ClearHold ==
  /\ pc = "clearHold"
  /\ Clear(Holds)
  /\ pc' = AfterHold
  /\ UNCHANGED <<sys, spindle, sys_rt_exec_alarm, motion, place, history>>

(* Cycle start: from IDLE, or out of a completed hold. *)
BlockedMutant == FALSE
Blocked == rt_exec \cap Stops # {}

(* With the door closed and everything off, it asks for the spindle to be
   restored first; the suspend routine asks again when that is done. *)
DoorResumes ==
  ~Blocked /\ state = "SAFETY_DOOR" /\ "SAFETY_DOOR_AJAR" \notin suspend

StateToStart == IF DoorResumes /\ "RESTORE_COMPLETE" \in suspend THEN "IDLE"
                ELSE state

SuspendToStart ==
  IF DoorResumes /\ "RESTORE_COMPLETE" \notin suspend
     /\ "RETRACT_COMPLETE" \in suspend
  THEN suspend \cup {"INITIATE_RESTORE"} ELSE suspend

MayStart == /\ ~Blocked
            /\ \/ StateToStart = "IDLE"
               \/ state = "HOLD" /\ "HOLD_COMPLETE" \in suspend

(* A spindle that the hold stopped is restored before. *)
MustRestoreMutant == FALSE
MustRestore == state = "HOLD" /\ spindle_stop_ovr # {}

Start ==
  /\ pc = "start"
  /\ IF ~MayStart \/ MustRestore
     THEN /\ state' = StateToStart /\ suspend' = SuspendToStart
          /\ UNCHANGED <<abort, execHold, endMotion>>
          /\ pc' = "clearStart"
     ELSE /\ execHold' = FALSE /\ endMotion' = FALSE
          /\ suspend' = {}
          /\ UNCHANGED abort
          /\ IF blocks > 0 /\ "MOTION_CANCEL" \notin suspend
             THEN state' = "CYCLE" /\ pc' = "startPrep"
             ELSE state' = "IDLE" /\ pc' = "clearStart"
  /\ spindle_stop_ovr' = IF MayStart /\ MustRestore
                         THEN spindle_stop_ovr \cup {"RESTORE_CYCLE"}
                         ELSE spindle_stop_ovr
  /\ UNCHANGED <<stopSpindle, penOff, suspended, flags, motion, place,
                 history>>

ClearStart ==
  /\ pc = "clearStart"
  /\ Clear({"CYCLE_START"})
  /\ pc' = AfterStart
  /\ UNCHANGED <<sys, spindle, sys_rt_exec_alarm, motion, place, history>>

(* Cycle stop: a hold is complete, or a motion is. *)
CompletedMutant == suspend
Completed == IF execHold THEN suspend \cup {"HOLD_COMPLETE"} ELSE suspend

HoldStop ==
  /\ pc = "stop"
  /\ state \in {"HOLD", "SAFETY_DOOR", "SLEEP"}
  /\ "JOG_CANCEL" \notin suspend
  /\ suspend' = Completed
  /\ execHold' = FALSE
  /\ pc' = "clearStop"
  /\ UNCHANGED <<state, abort, endMotion, spindle, flags, motion, place,
                 history>>

MotionStop ==
  /\ pc = "stop"
  /\ \/ state \notin {"HOLD", "SAFETY_DOOR", "SLEEP"}
     \/ "JOG_CANCEL" \in suspend
  /\ IF "JOG_CANCEL" \in suspend   \* flush the planner and the stepper
     THEN /\ execHold' = FALSE /\ endMotion' = FALSE
          /\ blocks' = 0 /\ segments' = 0
          /\ timer' = FALSE /\ refilled' = FALSE
     ELSE UNCHANGED <<execHold, endMotion, motion>>
  /\ IF "SAFETY_DOOR_AJAR" \in suspend   \* opened during a jog
     THEN /\ suspend' = (suspend \ {"JOG_CANCEL"}) \cup {"HOLD_COMPLETE"}
          /\ state' = "SAFETY_DOOR"
     ELSE suspend' = {} /\ state' = "IDLE"
  /\ pc' = "clearStop"
  /\ UNCHANGED <<abort, spindle, flags, place, history>>

ClearStop ==
  /\ pc = "clearStop"
  /\ Clear({"CYCLE_STOP"})
  /\ pc' = "override"
  /\ UNCHANGED <<sys, spindle, sys_rt_exec_alarm, motion, place, history>>

(* The spindle stop override: only a hold stops the spindle. *)
SpindleOverride ==
  /\ pc = "override"
  /\ stopSpindle' = FALSE
  /\ spindle_stop_ovr' =
       IF ~stopSpindle \/ state # "HOLD" THEN spindle_stop_ovr
       ELSE IF spindle_stop_ovr = {} THEN {"INITIATE"}
       ELSE IF "ENABLED" \in spindle_stop_ovr
            THEN spindle_stop_ovr \cup {"RESTORE"} ELSE spindle_stop_ovr
  /\ pc' = "prep"
  /\ UNCHANGED <<sys, penOff, suspended, flags, motion, place, history>>

Moving == {"CYCLE", "HOLD", "SAFETY_DOOR", "SLEEP", "JOG"}

(* The segment queue is refilled at the end of each pass, and before the
   stepper interrupt is enabled. *)
Refill ==
  /\ \/ pc = "prep" /\ state \in Moving /\ pc' = "return"
     \/ pc = "startPrep" /\ pc' = "startWake"
     \/ pc = "jogPrep" /\ pc' = "jogWake"
  /\ st_prep_buffer
  /\ UNCHANGED <<state, suspend, abort, execHold, spindle, flags, timer, place,
                 history>>

NoRefill ==
  /\ pc = "prep" /\ state \notin Moving
  /\ pc' = "return"
  /\ UNCHANGED <<sys, spindle, flags, motion, place, history>>

WokenMutant == timer
Woken == TRUE

st_wake_up ==
  /\ \/ pc = "startWake" /\ pc' = "clearStart"
     \/ pc = "jogWake" /\ pc' = "main"
  /\ timer' = Woken
  /\ UNCHANGED <<sys, spindle, flags, blocks, segments, refilled, place,
                 history>>

protocol_exec_rt_system ==
  \/ AlarmCheck \/ CriticalEvent \/ ClearAlarm \/ CopyState
  \/ Hold \/ ClearHold \/ Start \/ ClearStart
  \/ HoldStop \/ MotionStop \/ ClearStop \/ SpindleOverride
  \/ Refill \/ NoRefill \/ st_wake_up

-----------------------------------------------------------------------------
(* The main program's check points. *)

(* protocol_auto_cycle_start *)
AutoStartMutant == IF blocks > 1 THEN {"CYCLE_START"} ELSE {}
AutoStart == IF blocks > 0 THEN {"CYCLE_START"} ELSE {}

(* No character to read: queued motion is started. *)
Idle ==
  /\ pc = "main"
  /\ Set(AutoStart)
  /\ caller' = "loop" /\ line' = "none"
  /\ pc' = "exec"
  /\ UNCHANGED <<sys, spindle, sys_rt_exec_alarm, motion, rt_exec, lines,
                 history>>

ReadLine(l) ==
  /\ pc = "main" /\ lines < MaxLines
  /\ lines' = lines + 1
  /\ caller' = "line" /\ line' = l
  /\ pc' = "exec"
  /\ UNCHANGED <<sys, spindle, flags, motion, rt_exec, history>>

(* protocol_execute_realtime is left. *)
Returned == /\ pc = "return"
            /\ abort \/ (suspend = {} /\ suspended # "asleep")
            /\ suspended' = "no"

(* protocol_exec_rt_suspend: entering it, laser mode asks for a spindle
   stop ... *)
DisableLaser == stopSpindle \/ (LaserMode /\ suspended = "no")

Round(where) ==
  pc = "return" /\ ~abort /\ suspend # {} /\ suspended \in where
InDoor == state \in {"SAFETY_DOOR", "SLEEP"}

(* ... then it goes round until it is resumed: with nothing to do until the
   hold is complete ... *)
SuspendWaits ==
  /\ Round({"no", "yes"})
  /\ \/ "HOLD_COMPLETE" \notin suspend
     \/ /\ state = "SAFETY_DOOR" /\ "RETRACT_COMPLETE" \in suspend
        /\ suspend \cap {"SAFETY_DOOR_AJAR", "INITIATE_RESTORE"} = {}
     \/ ~InDoor /\ spindle_stop_ovr \in {{}, {"ENABLED"}}
  /\ suspended' = "yes"
  /\ stopSpindle' = DisableLaser
  /\ pc' = "exec"
  /\ UNCHANGED <<sys, spindle_stop_ovr, penOff, flags, motion, place, history>>

(* ... in a feed hold, the spindle, if it is on, is stopped, or restored before
   a resume, which is then asked for again ... *)
SuspendSpindle ==
  /\ Round({"no", "yes"}) /\ "HOLD_COMPLETE" \in suspend /\ ~InDoor
  /\ \/ /\ "INITIATE" \in spindle_stop_ovr
        /\ \/ spindle_stop_ovr' = {} /\ UNCHANGED penOff
           \/ spindle_stop_ovr' = {"ENABLED"} /\ penOff' = TRUE
        /\ UNCHANGED sys_rt_exec_state
     \/ /\ "INITIATE" \notin spindle_stop_ovr
        /\ spindle_stop_ovr \cap {"RESTORE", "RESTORE_CYCLE"} # {}
        /\ Set(IF "RESTORE_CYCLE" \in spindle_stop_ovr THEN {"CYCLE_START"}
                                                       ELSE {})
        /\ spindle_stop_ovr' = {} /\ penOff' = FALSE
  /\ suspended' = "yes"
  /\ stopSpindle' = DisableLaser
  /\ pc' = "exec"
  /\ UNCHANGED <<sys, sys_rt_exec_alarm, motion, place, history>>

(* ... with the door open, or before a sleep, spindle and coolant go off ... *)
Retract ==
  /\ Round({"no", "yes"}) /\ "HOLD_COMPLETE" \in suspend /\ InDoor
  /\ "RETRACT_COMPLETE" \notin suspend
  /\ spindle_stop_ovr' = {}
  /\ penOff' \in {penOff, TRUE}
  /\ suspend' = (suspend \ {"RESTART_RETRACT"}) \cup {"RETRACT_COMPLETE"}
  /\ suspended' = "yes"
  /\ stopSpindle' = DisableLaser
  /\ pc' = "exec"
  /\ UNCHANGED <<state, abort, execHold, endMotion, flags, motion, place,
                 history>>

(* ... the door is found closed, and a resume restores the spindle, if it is
   on, and the coolant, each with a delay of many passes ... *)
Restore ==
  /\ Round({"no", "yes"}) /\ "HOLD_COMPLETE" \in suspend
  /\ state = "SAFETY_DOOR" /\ "RETRACT_COMPLETE" \in suspend
  /\ suspend \cap {"SAFETY_DOOR_AJAR", "INITIATE_RESTORE"} # {}
  /\ LET closed == suspend \ {"SAFETY_DOOR_AJAR"}
     IN \/ /\ "INITIATE_RESTORE" \notin suspend
           /\ suspend' = closed /\ suspended' = "yes"
           /\ UNCHANGED <<penOff, sys_rt_exec_state>>
        \/ /\ "INITIATE_RESTORE" \in suspend
           /\ suspend' = closed /\ suspended' = "restoring"
           /\ penOff' = FALSE /\ UNCHANGED sys_rt_exec_state
        \/ /\ "INITIATE_RESTORE" \in suspend    \* nothing to wait for
           /\ suspend' = closed \cup {"RESTORE_COMPLETE"}
           /\ suspended' = "yes"
           /\ penOff' = FALSE /\ Set({"CYCLE_START"})
  /\ stopSpindle' = DisableLaser
  /\ pc' = "exec"
  /\ UNCHANGED <<state, abort, execHold, endMotion, spindle_stop_ovr,
                 sys_rt_exec_alarm, motion, place, history>>

Restoring ==
  /\ Round({"restoring"})
  /\ \/ /\ "RESTART_RETRACT" \notin suspend
        /\ suspended' \in {"restoring", "yes"}
        /\ IF suspended' = "yes"
           THEN /\ suspend' = suspend \cup {"RESTORE_COMPLETE"}
                /\ Set({"CYCLE_START"})
           ELSE UNCHANGED <<suspend, sys_rt_exec_state>>
     \/ /\ "RESTART_RETRACT" \in suspend
        /\ suspended' = "yes"
        /\ UNCHANGED <<suspend, sys_rt_exec_state>>
  /\ pc' = "exec"
  /\ UNCHANGED <<state, abort, execHold, endMotion, spindle_stop_ovr,
                 stopSpindle, penOff, sys_rt_exec_alarm, motion, place,
                 history>>

(* ... and out of a sleep, with the steppers off, only a reset leads. *)
Sleep ==
  /\ Round({"no", "yes"}) /\ "HOLD_COMPLETE" \in suspend
  /\ state = "SLEEP" /\ "RETRACT_COMPLETE" \in suspend
  /\ penOff' \in {penOff, TRUE}
  /\ timer' = FALSE /\ lost' = TRUE
  /\ suspended' = "asleep"
  /\ stopSpindle' = DisableLaser
  /\ pc' = "exec"
  /\ UNCHANGED <<sys, spindle_stop_ovr, flags, blocks, segments, refilled,
                 place, asked>>

Asleep ==
  /\ pc = "return" /\ ~abort /\ suspended = "asleep"
  /\ pc' = "exec"
  /\ UNCHANGED <<sys, spindle, flags, motion, place, history>>

protocol_exec_rt_suspend ==
  \/ SuspendWaits \/ SuspendSpindle \/ Retract \/ Restore \/ Restoring
  \/ Sleep \/ Asleep

LoopReturns ==
  /\ Returned /\ caller = "loop"
  /\ pc' = IF abort THEN "boot" ELSE "main"
  /\ UNCHANGED <<sys, spindle_stop_ovr, stopSpindle, penOff, flags, motion,
                 place, history>>

(* A complete line is executed as the state allows. *)
LineReturns ==
  /\ Returned /\ caller = "line"
  /\ \/ /\ abort
        /\ pc' = "boot"
        /\ UNCHANGED <<state, sys_rt_exec_state, caller, lost>>
     \/ /\ ~abort /\ line = "unlock"                 \* $X
        /\ state' = IF state = "ALARM" THEN "IDLE" ELSE state
        /\ lost' = (lost /\ state # "ALARM")
        /\ pc' = "main" /\ UNCHANGED <<sys_rt_exec_state, caller>>
     \/ /\ ~abort /\ line = "sleep"                  \* $SLP
        /\ IF state \in {"IDLE", "ALARM"} THEN Set({"SLEEP"})
           ELSE UNCHANGED sys_rt_exec_state
        /\ pc' = "main" /\ UNCHANGED <<state, caller, lost>>
     \/ /\ ~abort /\ line = "jog" /\ state \in {"IDLE", "JOG"}
        /\ caller' = "queue" /\ pc' = "exec"
        /\ UNCHANGED <<state, sys_rt_exec_state, lost>>
     \/ /\ ~abort /\ line = "motion" /\ state \notin {"ALARM", "JOG"}
        /\ caller' = "queue" /\ pc' = "exec"
        /\ UNCHANGED <<state, sys_rt_exec_state, lost>>
     \/ /\ ~abort /\ line = "spindle" /\ state \notin {"ALARM", "JOG"}
        /\ Set(AutoStart)
        /\ caller' = "sync" /\ pc' = "exec"
        /\ UNCHANGED <<state, lost>>
     \/ /\ ~abort /\ line = "jog" /\ state \notin {"IDLE", "JOG"}
        /\ pc' = "main" /\ UNCHANGED <<state, sys_rt_exec_state, caller, lost>>
     \/ /\ ~abort /\ line \in {"motion", "spindle"}
        /\ state \in {"ALARM", "JOG"}
        /\ pc' = "main" /\ UNCHANGED <<state, sys_rt_exec_state, caller, lost>>
  /\ UNCHANGED <<suspend, abort, execHold, endMotion, spindle_stop_ovr,
                 stopSpindle, penOff, sys_rt_exec_alarm, motion, rt_exec, line,
                 lines, asked>>

Full == blocks = MaxBlocks

(* mc_line: wait for a free block, queue the motion. *)
QueueReturns ==
  /\ Returned /\ caller = "queue"
  /\ \/ /\ ~abort /\ Full
        /\ Set(AutoStart)
        /\ pc' = "exec" /\ UNCHANGED blocks
     \/ /\ IF abort THEN UNCHANGED blocks
           ELSE ~Full /\ blocks' = blocks + 1
        /\ pc' = IF line = "jog" THEN "jog" ELSE "main"
        /\ UNCHANGED sys_rt_exec_state
  /\ UNCHANGED <<sys, spindle_stop_ovr, stopSpindle, penOff, sys_rt_exec_alarm,
                 segments, timer, refilled, place, history>>

(* jog_execute starts the motion by itself. *)
JogStart ==
  /\ pc = "jog"
  /\ IF state = "IDLE" /\ blocks > 0
     THEN state' = "JOG" /\ pc' = "jogPrep"
     ELSE UNCHANGED state /\ pc' = "main"
  /\ UNCHANGED <<suspend, abort, execHold, endMotion, spindle, flags, motion,
                 place, history>>

(* protocol_buffer_synchronize: wait until there is nothing left to do ... *)
SyncDone == blocks = 0 /\ state # "CYCLE"

SyncReturns ==
  /\ Returned /\ caller = "sync"
  /\ pc' = IF abort THEN "main" ELSE IF SyncDone THEN "servo" ELSE "exec"
  /\ UNCHANGED <<sys, spindle_stop_ovr, stopSpindle, penOff, flags, motion,
                 place, history>>

(* ... and only then spindle_set_state moves the pen. *)
ServoMoves ==
  /\ pc = "servo"
  /\ pc' = "main"
  /\ UNCHANGED <<sys, spindle, flags, motion, place, history>>

(* main(), from an abort to its loop: the variables, then the subsystems. *)
Boot ==
  /\ pc = "boot"
  /\ suspend' = {} /\ abort' = FALSE /\ execHold' = FALSE /\ endMotion' = FALSE
  /\ spindle_stop_ovr' = {} /\ stopSpindle' = FALSE /\ penOff' = FALSE
  /\ sys_rt_exec_state' = {} /\ sys_rt_exec_alarm' = "none"
  /\ pc' = "boot2"
  /\ UNCHANGED <<state, suspended, motion, place, history>>

BlocksAfterResetMutant == blocks
BlocksAfterReset == 0

(* A sleep has switched the steppers off. *)
StateAfterResetMutant == "IDLE"
StateAfterReset == IF state \in {"ALARM", "SLEEP"} THEN "ALARM" ELSE "IDLE"

BootSubsystems ==
  /\ pc = "boot2"
  /\ blocks' = BlocksAfterReset
  /\ segments' = 0 /\ timer' = FALSE /\ refilled' = FALSE
  /\ \/ state' = StateAfterReset
     \/ HardLimits /\ state' = "ALARM"      \* a limit pin is still engaged
  /\ rt_exec' = {} /\ line' = "none" /\ caller' = "loop"
  /\ pc' = "main"
  /\ UNCHANGED <<suspend, abort, execHold, endMotion, spindle, flags, lines,
                 history>>

protocol_main_loop ==
  \/ Idle \/ \E l \in Lines : ReadLine(l)
  \/ protocol_exec_rt_suspend
  \/ LoopReturns \/ LineReturns \/ QueueReturns \/ SyncReturns
  \/ JogStart \/ ServoMoves \/ Boot \/ BootSubsystems

MainProgram == protocol_exec_rt_system \/ protocol_main_loop

Next == Interrupt \/ MainProgram

Spec == Init /\ [][Next]_vars

(* A refill that uses a block up or brings a hold to its stop. *)
Progress == Refill /\ (blocks' < blocks \/ endMotion' # endMotion)

(* The main program runs on; the stepper interrupt fires while it is enabled;
   a block, and the deceleration of a hold, are finitely long, so that not all
   refills of the queue are cut from the same block.  Nobody has to press a
   key. *)
FairSpec == /\ Spec
            /\ WF_vars(MainProgram)
            /\ WF_vars(Step \/ StepperIdle)
            /\ SF_vars(Progress)

-----------------------------------------------------------------------------
(* A machine in a cycle or a jog is being stepped, or about to learn that it
   is not: it never believes in a motion nobody executes. *)
CycleIsStepped ==
  pc \in {"main", "exec", "copy"} /\ state \in {"CYCLE", "JOG"} =>
    timer \/ sys_rt_exec_state \cap {"CYCLE_STOP", "RESET"} # {}

(* Nothing moves while laser mode's stop of the pen is in force: a resume waits
   for the pen to be restored. *)
PenRestoredBeforeMotion ==
  state \in {"CYCLE", "JOG"} => spindle_stop_ovr = {} /\ ~penOff

(* What a status report calls the state (report_realtime_status). *)
StatusShown ==
  CASE state = "IDLE" -> "Idle"
    [] state = "CYCLE" -> "Run"
    [] state = "JOG" \/ (state = "HOLD" /\ "JOG_CANCEL" \in suspend) -> "Jog"
    [] state = "HOLD" /\ "JOG_CANCEL" \notin suspend ->
         IF "HOLD_COMPLETE" \in suspend THEN "Hold:0" ELSE "Hold:1"
    [] state = "SAFETY_DOOR" ->
         CASE "INITIATE_RESTORE" \in suspend -> "Door:3"
           [] suspend \cap DoorStages = {"RETRACT_COMPLETE"} ->
                IF "SAFETY_DOOR_AJAR" \in suspend THEN "Door:1" ELSE "Door:0"
           [] OTHER -> "Door:2"
    [] state = "ALARM" -> "Alarm"
    [] state = "SLEEP" -> "Sleep"

(* A report that says the machine rests, or is ready to resume, is true: the
   steppers do not move, whatever interrupted the hold, the door or the alarm
   it tells of.  It is printed when the flags are copied, unless a reset is
   among them. *)
ReportedRestIsRest ==
  /\ pc = "copy" /\ "RESET" \notin sys_rt_exec_state
  /\ StatusShown \in {"Idle", "Hold:0", "Door:0", "Alarm"}
  => ~timer

(* A hold or an open door ends in motion only after a '~' that came later than
   the '!' or the door: neither the automatic cycle start of queued blocks nor
   the one the suspend routine gives itself resumes them.  A '!' that comes
   while the door stage is left is not obeyed at all. *)
ResumeIsDeliberate ==
  [][(state \in {"HOLD", "SAFETY_DOOR"} /\ state' = "CYCLE") => asked]_vars

(* Once the firmware is back in its loop with an alarm, nothing moves and
   nothing is queued that an unlock could set in motion. *)
InAlarmNothingMoves ==
  pc = "main" /\ ~abort /\ state = "ALARM" => ~timer /\ blocks = 0

(* A reset that kills the steppers in motion leaves the machine in alarm, as
   its position is lost, until someone unlocks it.  The exception is a reset
   between the test of the alarm and the copy of the flags: the copy aborts,
   and main() clears the alarm that nobody has looked at. *)
PositionLostIsFlagged ==
  pc = "main" /\ ~abort /\ lost =>
    state = "ALARM" \/ sys_rt_exec_alarm # "none"

(* A hold completes, whatever interrupts its passes, unless it is ended by a
   reset. *)
HoldCompletes ==
  (state = "HOLD") ~> (state # "HOLD" \/ "HOLD_COMPLETE" \in suspend)

(* Queued motion is started, unless someone holds it, or a line waits for
   it (see SyncExecutesAll). *)
MotionStarts ==
  (state = "IDLE" /\ blocks > 0) ~>
    (state # "IDLE" \/ blocks = 0 \/ suspend # {} \/ caller = "sync")

(* What protocol_buffer_synchronize says of itself: "Block until all buffered
   steps are executed". *)
SyncExecutesAll == pc = "servo" => segments = 0

=============================================================================

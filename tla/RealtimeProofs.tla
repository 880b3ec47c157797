--------------------------- MODULE RealtimeProofs ---------------------------
(***************************************************************************)
(* Theorems about Realtime, for every size of the planner's ring and of    *)
(* the segment queue, every number of lines, every set of realtime         *)
(* characters and every setting: whatever arrives between two steps of the *)
(* main program,                                                           *)
(*   - an alarm the firmware is back in its loop with leaves nothing to    *)
(*     move, and a position lost in a reset is an alarm;                   *)
(*   - a report that says the machine rests is true;                       *)
(*   - a cycle is being stepped, with the pen restored, and a hold or a    *)
(*     door ends in one only if someone asked for it.                      *)
(* All of them follow from one inductive invariant, RtIInv, whose parts    *)
(* are given below.                                                        *)
(***************************************************************************)
EXTENDS Realtime, TLAPS

-----------------------------------------------------------------------------
(* The inductive invariant.                                                *)

(* Places of protocol_exec_rt_system after its copy of the flags; those up to
   the end of the cycle stop. *)
ToStop == {"hold", "clearHold", "start", "startPrep", "startWake",
           "clearStart", "stop", "clearStop"}
Pass == ToStop \cup {"override", "prep"}
Waking == {"startPrep", "startWake", "jogPrep", "jogWake"}

(* A reset has been noticed, or is bound to be by the copy of the flags: the
   main program is on its way to main(), and what the rest of the invariant
   says need not hold until it is back. *)
Aborting == \/ abort \/ pc \in {"critical", "boot", "boot2"}
            \/ pc \in {"clearAlarm", "copy"} /\ "RESET" \in sys_rt_exec_state

(* These abbreviate sets of places and tuples of variables. *)
USE DEF ToStop, Pass, Waking, sys, spindle, flags, motion, place, history

(* Where the main program is tells what it has read and done. *)
PlacesAgree ==
  /\ pc \in {"startPrep", "startWake"} => state = "CYCLE"
  /\ pc \in {"jogPrep", "jogWake"} => state = "JOG"
  /\ pc \in {"start", "startPrep", "startWake", "clearStart"} =>
       "CYCLE_START" \in rt_exec
  /\ pc \in {"stop", "clearStop"} => "CYCLE_STOP" \in rt_exec
  /\ pc \in ToStop /\ "CYCLE_STOP" \in rt_exec =>
       "CYCLE_STOP" \in sys_rt_exec_state

(* An alarm and an abort come with the flag of the reset, and main() runs
   with everything of the suspend cleared. *)
ResetIsPending ==
  /\ sys_rt_exec_alarm # "none" =>
       "RESET" \in sys_rt_exec_state \/ pc = "critical"
  /\ pc = "clearAlarm" => "RESET" \in sys_rt_exec_state /\ state = "ALARM"
  /\ pc = "critical" => state = "ALARM"
  /\ abort => /\ "RESET" \in sys_rt_exec_state \/ pc = "critical"
              /\ pc \notin Pass \cup {"boot2", "servo"}
  /\ pc = "boot" => abort
  /\ pc \in {"boot", "boot2"} => suspended = "no"
  /\ pc = "boot2" => /\ ~abort /\ ~execHold /\ ~penOff
                     /\ suspend = {} /\ spindle_stop_ovr = {}

(* An alarm that is not about to become an abort: the firmware has started
   with it.  No line waits in mc_line to be queued. *)
AlarmIsQuiet ==
  state = "ALARM" /\ ~Aborting =>
    /\ ~timer /\ blocks = 0
    /\ suspend = {} /\ suspended = "no"
    /\ caller = "queue" => pc \notin Pass \cup {"return", "exec", "copy"}

(* The bits of sys.suspend a state may have ... *)
SuspendFits ==
  ~Aborting =>
    /\ state = "IDLE" => suspend \subseteq {"HOLD_COMPLETE", "MOTION_CANCEL"}
    /\ state = "CYCLE" => suspend \subseteq {"MOTION_CANCEL"}
    /\ state = "JOG" => suspend \subseteq {"JOG_CANCEL", "SAFETY_DOOR_AJAR"}
    /\ state = "HOLD" => suspend \subseteq {"HOLD_COMPLETE", "MOTION_CANCEL"}
    /\ state = "SLEEP" =>
         /\ "HOLD_COMPLETE" \in suspend
         /\ suspend \subseteq {"HOLD_COMPLETE", "MOTION_CANCEL",
                               "RETRACT_COMPLETE", "SAFETY_DOOR_AJAR"}
    /\ state = "SAFETY_DOOR" => "JOG_CANCEL" \notin suspend

(* ... and the stages of the door they stand for, in their order. *)
StagesInOrder ==
  ~Aborting =>
    /\ suspend \cap (DoorStages \cup {"RESTART_RETRACT"}) # {} =>
         "HOLD_COMPLETE" \in suspend
    /\ "RESTORE_COMPLETE" \in suspend =>
         {"INITIATE_RESTORE", "RETRACT_COMPLETE"} \subseteq suspend

(* Where protocol_exec_rt_suspend is left off. *)
SuspendedFits ==
  ~Aborting =>
    /\ suspended = "restoring" =>
         \/ suspend = {} /\ state \in {"IDLE", "CYCLE"}
         \/ /\ state = "SAFETY_DOOR" /\ "HOLD_COMPLETE" \in suspend
            /\ \/ "RESTART_RETRACT" \in suspend
               \/ {"INITIATE_RESTORE", "RETRACT_COMPLETE"} \subseteq suspend
    /\ suspended = "asleep" => /\ state = "SLEEP" /\ ~timer
                               /\ "RETRACT_COMPLETE" \in suspend
    /\ suspended # "no" =>
         \/ suspend # {}
         \/ pc \in (Pass \ {"hold", "clearHold", "start"}) \cup {"return"}
    /\ pc \in {"main", "jog", "jogPrep", "jogWake", "servo"} =>
         suspend = {} /\ suspended = "no"

(* A sleep is asked for where nothing moves, and obeyed at once. *)
SleepFromRest ==
  ~Aborting =>
    /\ "SLEEP" \in sys_rt_exec_state =>
         \/ /\ state \in {"IDLE", "ALARM"}
            /\ pc \in {"main", "exec", "copy", "hold"}
         \/ pc = "clearHold"
    /\ pc = "hold" /\ "SLEEP" \in rt_exec => "SLEEP" \in sys_rt_exec_state

(* The states of rest, in which the stepper interrupt is off.  Of the word it
   left behind only a stop that main() found is not read yet. *)
Resting == \/ state \in {"IDLE", "ALARM"}
           \/ /\ state \in {"HOLD", "SAFETY_DOOR", "SLEEP"}
              /\ "HOLD_COMPLETE" \in suspend

StepperFits ==
  /\ ~Aborting =>
       /\ Resting \/ pc \in Waking => ~timer
       /\ timer \/ pc \in Waking => "CYCLE_STOP" \notin sys_rt_exec_state
       /\ Resting /\ "CYCLE_STOP" \in sys_rt_exec_state =>
            \/ pc = "clearStop"
            \/ /\ blocks = 0
               /\ \/ pc \in {"main", "exec", "copy"}
                  \/ pc \in ToStop /\ "CYCLE_STOP" \in rt_exec
       /\ pc = "clearStop" => state \notin {"CYCLE", "JOG"}
  /\ pc = "boot2" /\ timer => "CYCLE_STOP" \notin sys_rt_exec_state
  /\ state \in {"CYCLE", "JOG"} /\ pc \notin Waking \cup {"boot", "boot2"} =>
       timer \/ sys_rt_exec_state \cap {"CYCLE_STOP", "RESET"} # {}

(* The pen is off in a hold, a door or a sleep only, and a hold knows it. *)
PenFits ==
  /\ state \in {"IDLE", "CYCLE", "JOG"} => spindle_stop_ovr = {} /\ ~penOff
  /\ ~Aborting =>
       /\ state = "ALARM" => spindle_stop_ovr = {} /\ ~penOff
       /\ state = "HOLD" /\ penOff => "ENABLED" \in spindle_stop_ovr
       /\ ~({"INITIATE", "ENABLED"} \subseteq spindle_stop_ovr)
       /\ "RETRACT_COMPLETE" \in suspend => spindle_stop_ovr = {}
       /\ \/ "RESTORE_COMPLETE" \in suspend
          \/ suspended = "restoring" /\ "RESTART_RETRACT" \notin suspend
          => ~penOff

(* The position is lost: nothing moves, and either the alarm is there, also
   behind a sleep, or its word waits to be read, and nothing ends the motion
   that was killed before it is. *)
LostFits ==
  lost =>
    /\ ~timer /\ pc \notin Waking
    /\ \/ state \in {"ALARM", "SLEEP"}
       \/ /\ sys_rt_exec_alarm # "none" /\ ~abort
          /\ pc \notin {"copy", "boot"}
          /\ "CYCLE_STOP" \notin sys_rt_exec_state
          /\ Resting => pc \in {"main", "exec", "boot2"}
    /\ pc = "boot2" \/ (state = "ALARM" /\ ~Aborting) =>
         "CYCLE_STOP" \notin sys_rt_exec_state

(* A cycle start that the states of a completed hold can meet is one that was
   asked for, or is read together with what makes it void. *)
Held == state \in {"HOLD", "SAFETY_DOOR"} /\ "HOLD_COMPLETE" \in suspend

StartsAreAsked ==
  ~Aborting =>
    /\ /\ "CYCLE_START" \in sys_rt_exec_state
       /\ \/ pc \in {"stop", "clearStop", "override", "prep", "return"}
          \/ pc \in {"hold", "clearHold"} /\ "CYCLE_START" \notin rt_exec
          \/ pc \in {"exec", "copy"} /\ Held
       => asked
    /\ /\ pc \in {"hold", "clearHold", "start"} /\ Held
       /\ "CYCLE_START" \in rt_exec
       => asked \/ Blocked
    /\ "INITIATE_RESTORE" \in suspend =>
         asked \/ (pc = "hold" /\ "SAFETY_DOOR" \in rt_exec)
    /\ "RESTORE_CYCLE" \in spindle_stop_ovr =>
         /\ asked /\ state = "HOLD" /\ "HOLD_COMPLETE" \in suspend
         /\ pc \in {"clearStart", "stop", "clearStop", "override", "prep",
                    "return"}

RtIInv ==
  /\ TypeOK /\ PlacesAgree /\ ResetIsPending /\ AlarmIsQuiet
  /\ SuspendFits /\ StagesInOrder /\ SuspendedFits /\ SleepFromRest
  /\ StepperFits /\ PenFits /\ LostFits /\ StartsAreAsked

-----------------------------------------------------------------------------
(* The interrupts keep it.                                                 *)

(* A '!' sets a flag. *)
LEMMA CmdFeedHoldKeeps ==
  ASSUME RtIInv, CmdFeedHold PROVE RtIInv'
<1>. USE DEF RtIInv, CmdFeedHold, Set, ISRSame
<1>1. TypeOK'
  BY DEF TypeOK, Flags, Holds, Stops
<1>2. PlacesAgree' /\ ResetIsPending' /\ AlarmIsQuiet' /\ SuspendFits' /\
      StagesInOrder' /\ SuspendedFits' /\ SleepFromRest' /\ StepperFits' /\
      PenFits' /\ LostFits' /\ StartsAreAsked'
  BY DEF PlacesAgree, ResetIsPending, AlarmIsQuiet, Aborting, SuspendFits,
     StagesInOrder, DoorStages, SuspendedFits, SleepFromRest, StepperFits,
     Resting, PenFits, LostFits, StartsAreAsked, Held, Blocked, Stops
<1>. QED BY <1>1, <1>2

(* The door's character sets a flag. *)
LEMMA CmdSafetyDoorKeeps ==
  ASSUME RtIInv, CmdSafetyDoor PROVE RtIInv'
<1>. USE DEF RtIInv, CmdSafetyDoor, Set, ISRSame
<1>1. TypeOK'
  BY DEF TypeOK, Flags, Holds, Stops
<1>2. PlacesAgree' /\ ResetIsPending' /\ AlarmIsQuiet' /\ SuspendFits' /\
      StagesInOrder' /\ SuspendedFits' /\ SleepFromRest' /\ StepperFits' /\
      PenFits' /\ LostFits' /\ StartsAreAsked'
  BY DEF PlacesAgree, ResetIsPending, AlarmIsQuiet, Aborting, SuspendFits,
     StagesInOrder, DoorStages, SuspendedFits, SleepFromRest, StepperFits,
     Resting, PenFits, LostFits, StartsAreAsked, Held, Blocked, Stops
<1>. QED BY <1>1, <1>2

(* A '~' sets a flag, and is what a start may answer. *)
LEMMA CmdCycleStartKeeps ==
  ASSUME RtIInv, CmdCycleStart PROVE RtIInv'
<1>. USE DEF RtIInv, CmdCycleStart, Set, ISRSame
<1>1. TypeOK'
  BY DEF TypeOK, Flags, Holds, Stops
<1>2. PlacesAgree' /\ ResetIsPending' /\ AlarmIsQuiet' /\ SuspendFits' /\
      StagesInOrder' /\ SuspendedFits' /\ SleepFromRest' /\ StepperFits' /\
      PenFits' /\ LostFits' /\ StartsAreAsked'
  BY DEF PlacesAgree, ResetIsPending, AlarmIsQuiet, Aborting, SuspendFits,
     StagesInOrder, DoorStages, SuspendedFits, SleepFromRest, StepperFits,
     Resting, PenFits, LostFits, StartsAreAsked, Held, Blocked, Stops
<1>. QED BY <1>1, <1>2

(* A jog cancel sets a flag, in a jog only. *)
LEMMA CmdJogCancelKeeps ==
  ASSUME RtIInv, CmdJogCancel PROVE RtIInv'
<1>. USE DEF RtIInv, CmdJogCancel, Set, ISRSame
<1>1. TypeOK'
  BY DEF TypeOK, Flags, Holds, Stops
<1>2. PlacesAgree' /\ ResetIsPending' /\ AlarmIsQuiet' /\ SuspendFits' /\
      StagesInOrder' /\ SuspendedFits' /\ SleepFromRest' /\ StepperFits' /\
      PenFits' /\ LostFits' /\ StartsAreAsked'
  BY DEF PlacesAgree, ResetIsPending, AlarmIsQuiet, Aborting, SuspendFits,
     StagesInOrder, DoorStages, SuspendedFits, SleepFromRest, StepperFits,
     Resting, PenFits, LostFits, StartsAreAsked, Held, Blocked, Stops
<1>. QED BY <1>1, <1>2

(* A reset kills what moves: what was moving is lost, and the alarm's word
   says so. *)
LEMMA CmdResetKeeps ==
  ASSUME RtIInv, CmdReset PROVE RtIInv'
<1>. USE DEF RtIInv, CmdReset, mc_reset, ISRSame, Set, InMotion
<1>1. TypeOK'
  <2>1. {abort, execHold, endMotion, timer, refilled, asked, lost,
         stopSpindle, penOff}' \subseteq BOOLEAN
    BY Zenon DEF TypeOK
  <2>. QED
    BY <2>1 DEF TypeOK, Flags, Holds, Stops
<1>2. PlacesAgree' /\ ResetIsPending' /\ AlarmIsQuiet' /\ SuspendFits' /\
      StagesInOrder' /\ SuspendedFits' /\ SleepFromRest' /\ StepperFits' /\
      PenFits' /\ StartsAreAsked'
  BY DEF PlacesAgree, ResetIsPending, AlarmIsQuiet, Aborting, SuspendFits,
     StagesInOrder, DoorStages, SuspendedFits, SleepFromRest, StepperFits,
     Resting, PenFits, StartsAreAsked, Held, Blocked, Stops
<1>3. LostFits'
  BY DEF LostFits, Resting, Aborting, ResetIsPending, StepperFits
<1>. QED BY <1>1, <1>2, <1>3

(* A limit pin is a reset with an alarm of its own. *)
LEMMA LimitPinKeeps ==
  ASSUME RtIInv, LimitPin PROVE RtIInv'
<1>. USE DEF RtIInv, LimitPin, mc_reset, ISRSame, Set, InMotion
<1>1. TypeOK'
  <2>1. {abort, execHold, endMotion, timer, refilled, asked, lost,
         stopSpindle, penOff}' \subseteq BOOLEAN
    BY Zenon DEF TypeOK
  <2>. QED
    BY <2>1 DEF TypeOK, Flags, Holds, Stops
<1>2. PlacesAgree' /\ ResetIsPending' /\ AlarmIsQuiet' /\ SuspendFits' /\
      StagesInOrder' /\ SuspendedFits' /\ SleepFromRest' /\ StepperFits' /\
      PenFits' /\ StartsAreAsked'
  BY DEF PlacesAgree, ResetIsPending, AlarmIsQuiet, Aborting, SuspendFits,
     StagesInOrder, DoorStages, SuspendedFits, SleepFromRest, StepperFits,
     Resting, PenFits, StartsAreAsked, Held, Blocked, Stops
<1>3. LostFits'
  BY DEF LostFits, Resting, Aborting, ResetIsPending, StepperFits
<1>. QED BY <1>1, <1>2, <1>3

(* A step executes what was prepared. *)
LEMMA StepKeeps ==
  ASSUME RtIInv, Step PROVE RtIInv'
<1>. USE DEF RtIInv, Step
<1>1. TypeOK'
  BY RealtimeAssumption DEF TypeOK
<1>2. PlacesAgree' /\ ResetIsPending' /\ AlarmIsQuiet' /\ SuspendFits' /\
      StagesInOrder' /\ SuspendedFits' /\ SleepFromRest' /\ StepperFits' /\
      PenFits' /\ LostFits' /\ StartsAreAsked'
  BY DEF PlacesAgree, ResetIsPending, AlarmIsQuiet, Aborting, SuspendFits,
     StagesInOrder, DoorStages, SuspendedFits, SleepFromRest, StepperFits,
     Resting, PenFits, LostFits, StartsAreAsked, Held, Blocked, Stops
<1>. QED BY <1>1, <1>2

(* The stepper driver stops only where it runs: outside of the states of
   rest. *)
LEMMA StepperIdleKeeps ==
  ASSUME RtIInv, StepperIdle PROVE RtIInv'
<1>. USE DEF RtIInv, StepperIdle, Set, ShutDown
<1>1. TypeOK'
  <2>1. {abort, execHold, endMotion, timer, refilled, asked, lost,
         stopSpindle, penOff}' \subseteq BOOLEAN
    BY Zenon DEF TypeOK
  <2>. QED
    BY <2>1 DEF TypeOK, Flags, Holds, Stops
<1>2. PlacesAgree' /\ ResetIsPending' /\ AlarmIsQuiet' /\ SuspendFits' /\
      StagesInOrder' /\ SuspendedFits' /\ SleepFromRest' /\ StepperFits' /\
      PenFits' /\ LostFits' /\ StartsAreAsked'
  BY DEF PlacesAgree, ResetIsPending, AlarmIsQuiet, Aborting, SuspendFits,
     StagesInOrder, DoorStages, SuspendedFits, SleepFromRest, StepperFits,
     Resting, PenFits, LostFits, StartsAreAsked, Held, Blocked, Stops
<1>. QED BY <1>1, <1>2

-----------------------------------------------------------------------------
(* The passes of protocol_exec_rt_system keep it.                          *)

(* An alarm is taken over: from now on the pass ends in an abort. *)
LEMMA AlarmCheckKeeps ==
  ASSUME RtIInv, AlarmCheck PROVE RtIInv'
<1>. USE DEF RtIInv, AlarmCheck, Clear
<1>1. TypeOK'
  BY DEF TypeOK, States
<1>2. PlacesAgree' /\ ResetIsPending' /\ SuspendFits' /\ StagesInOrder' /\
      StartsAreAsked'
  BY DEF PlacesAgree, ResetIsPending, SuspendFits, Aborting, StagesInOrder,
     DoorStages, StartsAreAsked, Held, Blocked, Stops
<1>3. AlarmIsQuiet'
  BY DEF AlarmIsQuiet, Aborting, ResetIsPending
<1>4. SuspendedFits'
  BY DEF SuspendedFits, Aborting, ResetIsPending
<1>5. SleepFromRest'
  BY DEF SleepFromRest, Aborting, ResetIsPending
<1>6. StepperFits'
  BY DEF StepperFits, Aborting, Resting, ResetIsPending
<1>7. PenFits'
  BY DEF PenFits, Aborting, ResetIsPending
<1>8. LostFits'
  BY DEF LostFits, Resting, Aborting, ResetIsPending
<1>. QED BY <1>1, <1>2, <1>3, <1>4, <1>5, <1>6, <1>7, <1>8

(* A hard limit waits for the reset. *)
LEMMA CriticalEventKeeps ==
  ASSUME RtIInv, CriticalEvent PROVE RtIInv'
<1>. USE DEF RtIInv, CriticalEvent
<1>1. TypeOK'
  BY DEF TypeOK
<1>2. PlacesAgree' /\ ResetIsPending' /\ AlarmIsQuiet' /\ SuspendFits' /\
      StagesInOrder' /\ SuspendedFits' /\ SleepFromRest' /\ StepperFits' /\
      PenFits' /\ LostFits' /\ StartsAreAsked'
  BY DEF PlacesAgree, ResetIsPending, AlarmIsQuiet, Aborting, SuspendFits,
     StagesInOrder, DoorStages, SuspendedFits, SleepFromRest, StepperFits,
     Resting, PenFits, LostFits, StartsAreAsked, Held, Blocked, Stops
<1>. QED BY <1>1, <1>2

(* The alarm's word is cleared with the alarm in force. *)
LEMMA ClearAlarmKeeps ==
  ASSUME RtIInv, ClearAlarm PROVE RtIInv'
<1>. USE DEF RtIInv, ClearAlarm
<1>1. TypeOK'
  BY DEF TypeOK
<1>2. PlacesAgree' /\ ResetIsPending' /\ SuspendFits' /\ StagesInOrder' /\
      SuspendedFits' /\ SleepFromRest' /\ StepperFits' /\ PenFits'
  BY DEF PlacesAgree, ResetIsPending, SuspendFits, Aborting, StagesInOrder,
     DoorStages, SuspendedFits, SleepFromRest, StepperFits, Resting, PenFits
<1>3. AlarmIsQuiet'
  BY DEF AlarmIsQuiet, Aborting, ResetIsPending
<1>4. LostFits'
  BY DEF LostFits, Resting, Aborting, ResetIsPending
<1>5. StartsAreAsked'
  BY DEF StartsAreAsked, Aborting, Held, Blocked, Stops, ResetIsPending
<1>. QED BY <1>1, <1>2, <1>3, <1>4, <1>5

(* The copy of the flags: a reset aborts, and a hold voids an older '~'. *)
LEMMA CopyStateKeeps ==
  ASSUME RtIInv, CopyState PROVE RtIInv'
<1>. USE DEF RtIInv, CopyState, Holds, AfterHold, Noticed, Stops, AfterStart
<1>1. TypeOK'
  <2>1. {abort, execHold, endMotion, timer, refilled, asked, lost,
         stopSpindle, penOff}' \subseteq BOOLEAN
    BY Zenon DEF TypeOK
  <2>. QED
    BY <2>1 DEF TypeOK
<1>2. PlacesAgree' /\ ResetIsPending' /\ AlarmIsQuiet' /\ SuspendFits' /\
      StagesInOrder' /\ SuspendedFits' /\ SleepFromRest' /\ StepperFits' /\
      PenFits' /\ LostFits'
  BY DEF PlacesAgree, ResetIsPending, AlarmIsQuiet, Aborting, SuspendFits,
     StagesInOrder, DoorStages, SuspendedFits, SleepFromRest, StepperFits,
     Resting, PenFits, LostFits
<1>3. StartsAreAsked'
  <2>. USE DEF StartsAreAsked, Aborting, Held, Blocked, AlarmIsQuiet,
        SuspendFits, SleepFromRest, ResetIsPending, TypeOK, States
  <2>1. CASE "RESET" \in sys_rt_exec_state BY <2>1
  <2>2. CASE "RESET" \notin sys_rt_exec_state
    <3>1. ~Aborting
      BY <2>2
    <3>2. "CYCLE_START" \in sys_rt_exec_state =>
            "CYCLE_START" \in rt_exec' /\ pc' \in {"hold", "start"}
      BY <2>2
    <3>3. Held /\ "CYCLE_START" \in sys_rt_exec_state => asked' \/ Blocked'
      BY <3>1
    <3>4. "INITIATE_RESTORE" \in suspend =>
            asked' \/ (pc' = "hold" /\ "SAFETY_DOOR" \in rt_exec')
      BY <2>2, <3>1
    <3>5. "RESTORE_CYCLE" \notin spindle_stop_ovr
      BY <2>2, <3>1
    <3>. QED BY <2>2, <3>1, <3>2, <3>3, <3>4, <3>5
  <2>. QED BY <2>1, <2>2
<1>. QED BY <1>1, <1>2, <1>3

(* A hold, door or sleep: each state has its own bits of the suspend. *)
LEMMA HoldKeeps ==
  ASSUME RtIInv, Hold PROVE RtIInv'
<1>. USE DEF RtIInv, Hold, DoorState, HoldState, HoldSuspend, DoorSuspend,
      Holding, AtRest, DoorStages, Cancels
<1>1. TypeOK'
  BY DEF TypeOK, States, Suspends
<1>2. PlacesAgree' /\ ResetIsPending' /\ AlarmIsQuiet' /\ SleepFromRest'
  BY DEF PlacesAgree, ResetIsPending, AlarmIsQuiet, Aborting, SleepFromRest
<1>3. SuspendFits'
  <2>. USE DEF SuspendFits, Aborting, AlarmIsQuiet, SleepFromRest
  <2>1. CASE state = "IDLE" BY <2>1
  <2>2. CASE state = "ALARM" BY <2>2
  <2>3. CASE state = "CYCLE" BY <2>3
  <2>4. CASE state = "HOLD" BY <2>4
  <2>5. CASE state = "JOG" BY <2>5
  <2>6. CASE state = "SAFETY_DOOR" BY <2>6
  <2>7. CASE state = "SLEEP" BY <2>7
  <2>. QED BY <2>1, <2>2, <2>3, <2>4, <2>5, <2>6, <2>7 DEF TypeOK, States
<1>4. StagesInOrder'
  BY DEF StagesInOrder, Aborting, AlarmIsQuiet
<1>5. SuspendedFits'
  BY DEF SuspendedFits, Aborting, SleepFromRest
<1>6. StepperFits'
  <2>. USE DEF StepperFits, Aborting, Resting, SuspendFits
  <2>1. CASE state = "IDLE" BY <2>1
  <2>2. CASE state = "ALARM" BY <2>2
  <2>3. CASE state = "CYCLE" BY <2>3
  <2>4. CASE state = "HOLD" BY <2>4
  <2>5. CASE state = "JOG" BY <2>5
  <2>6. CASE state = "SAFETY_DOOR" BY <2>6
  <2>7. CASE state = "SLEEP" BY <2>7
  <2>. QED BY <2>1, <2>2, <2>3, <2>4, <2>5, <2>6, <2>7 DEF TypeOK, States
<1>7. PenFits'
  <2>. USE DEF PenFits, Aborting
  <2>1. CASE state = "IDLE" BY <2>1
  <2>2. CASE state = "ALARM" BY <2>2
  <2>3. CASE state = "CYCLE" BY <2>3
  <2>4. CASE state = "HOLD" BY <2>4
  <2>5. CASE state = "JOG" BY <2>5
  <2>6. CASE state = "SAFETY_DOOR" BY <2>6
  <2>7. CASE state = "SLEEP" BY <2>7
  <2>. QED BY <2>1, <2>2, <2>3, <2>4, <2>5, <2>6, <2>7 DEF TypeOK, States
<1>8. LostFits'
  <2>. USE DEF LostFits, Resting, Aborting, SuspendFits
  <2>1. CASE state = "IDLE" BY <2>1
  <2>2. CASE state = "ALARM" BY <2>2
  <2>3. CASE state = "CYCLE" BY <2>3
  <2>4. CASE state = "HOLD" BY <2>4
  <2>5. CASE state = "JOG" BY <2>5
  <2>6. CASE state = "SAFETY_DOOR" BY <2>6
  <2>7. CASE state = "SLEEP" BY <2>7
  <2>. QED BY <2>1, <2>2, <2>3, <2>4, <2>5, <2>6, <2>7 DEF TypeOK, States
<1>9. StartsAreAsked'
  <2>. USE DEF StartsAreAsked, Aborting, Held, Blocked, Stops, AlarmIsQuiet,
        SuspendFits
  <2>1. CASE state = "IDLE" BY <2>1
  <2>2. CASE state = "ALARM" BY <2>2
  <2>3. CASE state = "CYCLE" BY <2>3
  <2>4. CASE state = "HOLD" BY <2>4
  <2>5. CASE state = "JOG" BY <2>5
  <2>6. CASE state = "SAFETY_DOOR" BY <2>6
  <2>7. CASE state = "SLEEP" BY <2>7
  <2>. QED BY <2>1, <2>2, <2>3, <2>4, <2>5, <2>6, <2>7 DEF TypeOK, States
<1>. QED BY <1>1, <1>2, <1>3, <1>4, <1>5, <1>6, <1>7, <1>8, <1>9

(* The flags of the hold are cleared. *)
LEMMA ClearHoldKeeps ==
  ASSUME RtIInv, ClearHold PROVE RtIInv'
<1>. USE DEF RtIInv, ClearHold, Clear, Holds, AfterHold, Stops, AfterStart
<1>1. TypeOK'
  BY DEF TypeOK
<1>2. PlacesAgree' /\ ResetIsPending' /\ AlarmIsQuiet' /\ SuspendFits' /\
      StagesInOrder' /\ SuspendedFits' /\ SleepFromRest' /\ StepperFits' /\
      PenFits' /\ LostFits' /\ StartsAreAsked'
  BY DEF PlacesAgree, ResetIsPending, AlarmIsQuiet, Aborting, SuspendFits,
     StagesInOrder, DoorStages, SuspendedFits, SleepFromRest, StepperFits,
     Resting, PenFits, LostFits, StartsAreAsked, Held, Blocked
<1>. QED BY <1>1, <1>2

(* A start out of a hold was asked for, and finds the pen restored. *)
LEMMA StartKeeps ==
  ASSUME RtIInv, Start PROVE RtIInv'
<1>. USE DEF RtIInv, Start, MayStart, MustRestore, StateToStart,
      SuspendToStart, Blocked, DoorResumes, Stops
<1>1. TypeOK'
  <2>1. {abort, execHold, endMotion, timer, refilled, asked, lost,
         stopSpindle, penOff}' \subseteq BOOLEAN
    BY Zenon DEF TypeOK
  <2>2. /\ state' \in States /\ suspend' \subseteq Suspends
        /\ spindle_stop_ovr' \subseteq SpindleStops
    BY DEF TypeOK, States, Suspends, Cancels, DoorStages, SpindleStops
  <2>. QED
    BY <2>1, <2>2 DEF TypeOK, States, Suspends, Cancels, DoorStages,
       SpindleStops
<1>2. PlacesAgree' /\ ResetIsPending' /\ AlarmIsQuiet' /\ SuspendFits' /\
      StagesInOrder' /\ SuspendedFits' /\ SleepFromRest'
  BY DEF PlacesAgree, ResetIsPending, AlarmIsQuiet, Aborting, SuspendFits,
     StagesInOrder, DoorStages, SuspendedFits, SleepFromRest
<1>3. StepperFits'
  BY DEF StepperFits, Aborting, Resting, StagesInOrder, DoorStages
<1>4. PenFits'
  BY DEF PenFits, Aborting, ResetIsPending, StagesInOrder, DoorStages
<1>5. LostFits'
  BY DEF LostFits, Resting, Aborting, StagesInOrder, DoorStages
<1>6. StartsAreAsked'
  BY DEF StartsAreAsked, Aborting, Held, PlacesAgree, StagesInOrder, DoorStages
<1>. QED BY <1>1, <1>2, <1>3, <1>4, <1>5, <1>6

(* The flag of the start is cleared. *)
LEMMA ClearStartKeeps ==
  ASSUME RtIInv, ClearStart PROVE RtIInv'
<1>. USE DEF RtIInv, ClearStart, Clear, AfterStart
<1>1. TypeOK'
  BY DEF TypeOK
<1>2. PlacesAgree' /\ ResetIsPending' /\ AlarmIsQuiet' /\ SuspendFits' /\
      StagesInOrder' /\ SuspendedFits' /\ SleepFromRest' /\ StepperFits' /\
      PenFits' /\ LostFits' /\ StartsAreAsked'
  BY DEF PlacesAgree, ResetIsPending, AlarmIsQuiet, Aborting, SuspendFits,
     StagesInOrder, DoorStages, SuspendedFits, SleepFromRest, StepperFits,
     Resting, PenFits, LostFits, StartsAreAsked, Held, Blocked, Stops
<1>. QED BY <1>1, <1>2

(* The cycle stop completes a hold: the stepper has stopped. *)
LEMMA HoldStopKeeps ==
  ASSUME RtIInv, HoldStop PROVE RtIInv'
<1>. USE DEF RtIInv, HoldStop, Completed
<1>1. TypeOK'
  BY DEF TypeOK, Suspends, Cancels, DoorStages
<1>2. PlacesAgree' /\ ResetIsPending' /\ AlarmIsQuiet' /\ SuspendFits' /\
      StagesInOrder' /\ SuspendedFits' /\ SleepFromRest' /\ PenFits' /\
      StartsAreAsked'
  BY DEF PlacesAgree, ResetIsPending, AlarmIsQuiet, Aborting, SuspendFits,
     StagesInOrder, DoorStages, SuspendedFits, SleepFromRest, PenFits,
     StartsAreAsked, Held, Blocked, Stops
<1>3. StepperFits'
  BY DEF StepperFits, Aborting, Resting, PlacesAgree
<1>4. LostFits'
  BY DEF LostFits, Resting, Aborting, PlacesAgree
<1>. QED BY <1>1, <1>2, <1>3, <1>4

(* The cycle stop ends a motion, or a jog with all that is left of it. *)
LEMMA MotionStopKeeps ==
  ASSUME RtIInv, MotionStop PROVE RtIInv'
<1>. USE DEF RtIInv, MotionStop
<1>1. TypeOK'
  <2>1. {abort, execHold, endMotion, timer, refilled, asked, lost,
         stopSpindle, penOff}' \subseteq BOOLEAN
    BY Zenon DEF TypeOK
  <2>2. state' \in States /\ suspend' \subseteq Suspends
    BY DEF TypeOK, States, Suspends, Cancels
  <2>3. blocks' \in 0 .. MaxBlocks /\ segments' \in 0 .. MaxSegments
    BY RealtimeAssumption DEF TypeOK
  <2>. QED
    BY RealtimeAssumption, <2>1, <2>2, <2>3 DEF TypeOK
<1>2. PlacesAgree' /\ ResetIsPending' /\ AlarmIsQuiet' /\ SuspendFits' /\
      StagesInOrder' /\ SleepFromRest'
  BY DEF PlacesAgree, ResetIsPending, AlarmIsQuiet, Aborting, SuspendFits,
     StagesInOrder, DoorStages, SleepFromRest
<1>3. SuspendedFits'
  BY DEF SuspendedFits, Aborting, SuspendFits
<1>4. StepperFits'
  BY DEF StepperFits, Aborting, Resting, PlacesAgree
<1>5. PenFits'
  <2>. USE DEF PenFits, Aborting, ResetIsPending, SuspendFits
  <2>1. CASE state = "IDLE" BY <2>1
  <2>2. CASE state = "ALARM" BY <2>2
  <2>3. CASE state = "CYCLE" BY <2>3
  <2>4. CASE state = "HOLD" BY <2>4
  <2>5. CASE state = "JOG" BY <2>5
  <2>6. CASE state = "SAFETY_DOOR" BY <2>6
  <2>7. CASE state = "SLEEP" BY <2>7
  <2>. QED BY <2>1, <2>2, <2>3, <2>4, <2>5, <2>6, <2>7 DEF TypeOK, States
<1>6. LostFits'
  BY DEF LostFits, Resting, Aborting, PlacesAgree, ResetIsPending, SuspendFits
<1>7. StartsAreAsked'
  BY DEF StartsAreAsked, Aborting, Held, Blocked, Stops, SuspendFits
<1>. QED BY <1>1, <1>2, <1>3, <1>4, <1>5, <1>6, <1>7

(* The flag of the stop is cleared. *)
LEMMA ClearStopKeeps ==
  ASSUME RtIInv, ClearStop PROVE RtIInv'
<1>. USE DEF RtIInv, ClearStop, Clear
<1>1. TypeOK'
  BY DEF TypeOK
<1>2. PlacesAgree' /\ ResetIsPending' /\ AlarmIsQuiet' /\ SuspendFits' /\
      StagesInOrder' /\ SuspendedFits' /\ SleepFromRest' /\ PenFits' /\
      LostFits' /\ StartsAreAsked'
  BY DEF PlacesAgree, ResetIsPending, AlarmIsQuiet, Aborting, SuspendFits,
     StagesInOrder, DoorStages, SuspendedFits, SleepFromRest, PenFits,
     LostFits, Resting, StartsAreAsked, Held, Blocked, Stops
<1>3. StepperFits'
  BY DEF StepperFits, Aborting, Resting, ResetIsPending
<1>. QED BY <1>1, <1>2, <1>3

(* Only a hold may have the spindle stopped. *)
LEMMA SpindleOverrideKeeps ==
  ASSUME RtIInv, SpindleOverride PROVE RtIInv'
<1>. USE DEF RtIInv, SpindleOverride
<1>1. TypeOK'
  BY DEF TypeOK, SpindleStops
<1>2. PlacesAgree' /\ ResetIsPending' /\ AlarmIsQuiet' /\ SuspendFits' /\
      StagesInOrder' /\ SuspendedFits' /\ SleepFromRest' /\ StepperFits' /\
      LostFits' /\ StartsAreAsked'
  BY DEF PlacesAgree, ResetIsPending, AlarmIsQuiet, Aborting, SuspendFits,
     StagesInOrder, DoorStages, SuspendedFits, SleepFromRest, StepperFits,
     Resting, LostFits, StartsAreAsked, Held, Blocked, Stops
<1>3. PenFits'
  BY DEF PenFits, Aborting, SuspendFits
<1>. QED BY <1>1, <1>2, <1>3

(* A refill cuts blocks into segments. *)
LEMMA RefillKeeps ==
  ASSUME RtIInv, Refill PROVE RtIInv'
<1>. USE DEF RtIInv, Refill, Moving, st_prep_buffer
<1>1. TypeOK'
  <2>1. {abort, execHold, endMotion, timer, refilled, asked, lost,
         stopSpindle, penOff}' \subseteq BOOLEAN
    BY Zenon DEF TypeOK
  <2>. QED
    BY RealtimeAssumption, <2>1 DEF TypeOK
<1>2. PlacesAgree' /\ ResetIsPending' /\ AlarmIsQuiet' /\ SuspendFits' /\
      StagesInOrder' /\ SuspendedFits' /\ SleepFromRest' /\ StepperFits' /\
      PenFits' /\ LostFits' /\ StartsAreAsked'
  BY DEF PlacesAgree, ResetIsPending, AlarmIsQuiet, Aborting, SuspendFits,
     StagesInOrder, DoorStages, SuspendedFits, SleepFromRest, StepperFits,
     Resting, PenFits, LostFits, StartsAreAsked, Held, Blocked, Stops
<1>. QED BY <1>1, <1>2

(* Nothing moves, nothing is refilled. *)
LEMMA NoRefillKeeps ==
  ASSUME RtIInv, NoRefill PROVE RtIInv'
<1>. USE DEF RtIInv, NoRefill, Moving
<1>1. TypeOK'
  BY DEF TypeOK
<1>2. PlacesAgree' /\ ResetIsPending' /\ AlarmIsQuiet' /\ SuspendFits' /\
      StagesInOrder' /\ SuspendedFits' /\ SleepFromRest' /\ StepperFits' /\
      PenFits' /\ LostFits' /\ StartsAreAsked'
  BY DEF PlacesAgree, ResetIsPending, AlarmIsQuiet, Aborting, SuspendFits,
     StagesInOrder, DoorStages, SuspendedFits, SleepFromRest, StepperFits,
     Resting, PenFits, LostFits, StartsAreAsked, Held, Blocked, Stops
<1>. QED BY <1>1, <1>2

(* The stepper interrupt is enabled for a cycle or a jog. *)
LEMMA st_wake_upKeeps ==
  ASSUME RtIInv, st_wake_up PROVE RtIInv'
<1>. USE DEF RtIInv, st_wake_up, Woken
<1>1. TypeOK'
  BY DEF TypeOK
<1>2. PlacesAgree' /\ ResetIsPending' /\ SuspendFits' /\ StagesInOrder' /\
      SleepFromRest' /\ PenFits' /\ LostFits' /\ StartsAreAsked'
  BY DEF PlacesAgree, ResetIsPending, SuspendFits, Aborting, StagesInOrder,
     DoorStages, SleepFromRest, PenFits, LostFits, Resting, StartsAreAsked,
     Held, Blocked, Stops
<1>3. AlarmIsQuiet'
  BY DEF AlarmIsQuiet, Aborting, PlacesAgree
<1>4. SuspendedFits'
  BY DEF SuspendedFits, Aborting, PlacesAgree
<1>5. StepperFits'
  BY DEF StepperFits, Aborting, Resting, PlacesAgree
<1>. QED BY <1>1, <1>2, <1>3, <1>4, <1>5

-----------------------------------------------------------------------------
(* The main program's check points keep it.                                *)

(* Nothing to read: queued motion is to be started. *)
LEMMA IdleKeeps ==
  ASSUME RtIInv, Idle PROVE RtIInv'
<1>. USE DEF RtIInv, Idle, Set, AutoStart
<1>1. TypeOK'
  BY DEF TypeOK, Flags, Holds, Stops, Lines
<1>2. PlacesAgree' /\ ResetIsPending' /\ AlarmIsQuiet' /\ SuspendFits' /\
      StagesInOrder' /\ SuspendedFits' /\ SleepFromRest' /\ StepperFits' /\
      PenFits' /\ LostFits'
  BY DEF PlacesAgree, ResetIsPending, AlarmIsQuiet, Aborting, SuspendFits,
     StagesInOrder, DoorStages, SuspendedFits, SleepFromRest, StepperFits,
     Resting, PenFits, LostFits
<1>3. StartsAreAsked'
  BY DEF StartsAreAsked, Aborting, Held, Blocked, Stops, SuspendedFits
<1>. QED BY <1>1, <1>2, <1>3

(* A line is read. *)
LEMMA ReadLineKeeps ==
  ASSUME RtIInv, NEW l \in Lines, ReadLine(l) PROVE RtIInv'
<1>. USE DEF RtIInv, ReadLine
<1>1. TypeOK'
  BY RealtimeAssumption DEF TypeOK, Lines
<1>2. PlacesAgree' /\ ResetIsPending' /\ AlarmIsQuiet' /\ SuspendFits' /\
      StagesInOrder' /\ SuspendedFits' /\ SleepFromRest' /\ StepperFits' /\
      PenFits' /\ LostFits'
  BY DEF PlacesAgree, ResetIsPending, AlarmIsQuiet, Aborting, SuspendFits,
     StagesInOrder, DoorStages, SuspendedFits, SleepFromRest, StepperFits,
     Resting, PenFits, LostFits
<1>3. StartsAreAsked'
  BY DEF StartsAreAsked, Aborting, Held, Blocked, Stops, SuspendedFits
<1>. QED BY <1>1, <1>2, <1>3

(* A round of the suspend with nothing to do. *)
LEMMA SuspendWaitsKeeps ==
  ASSUME RtIInv, SuspendWaits PROVE RtIInv'
<1>. USE DEF RtIInv, SuspendWaits, Round, InDoor, DisableLaser
<1>1. TypeOK'
  BY DEF TypeOK
<1>2. PlacesAgree' /\ ResetIsPending' /\ AlarmIsQuiet' /\ SuspendFits' /\
      StagesInOrder' /\ SuspendedFits' /\ SleepFromRest' /\ StepperFits' /\
      PenFits' /\ LostFits' /\ StartsAreAsked'
  BY DEF PlacesAgree, ResetIsPending, AlarmIsQuiet, Aborting, SuspendFits,
     StagesInOrder, DoorStages, SuspendedFits, SleepFromRest, StepperFits,
     Resting, PenFits, LostFits, StartsAreAsked, Held, Blocked, Stops
<1>. QED BY <1>1, <1>2

(* The pen goes off, or on and the resume is asked for again. *)
LEMMA SuspendSpindleKeeps ==
  ASSUME RtIInv, SuspendSpindle PROVE RtIInv'
<1>. USE DEF RtIInv, SuspendSpindle, Round, InDoor, Set, DisableLaser
<1>1. TypeOK'
  BY DEF TypeOK, Flags, Holds, Stops, SpindleStops
<1>2. PlacesAgree' /\ ResetIsPending' /\ AlarmIsQuiet' /\ SuspendFits' /\
      StagesInOrder' /\ SuspendedFits' /\ SleepFromRest' /\ StepperFits' /\
      LostFits' /\ StartsAreAsked'
  BY DEF PlacesAgree, ResetIsPending, AlarmIsQuiet, Aborting, SuspendFits,
     StagesInOrder, DoorStages, SuspendedFits, SleepFromRest, StepperFits,
     Resting, LostFits, StartsAreAsked, Held, Blocked, Stops
<1>3. PenFits'
  BY DEF PenFits, Aborting, StagesInOrder, DoorStages
<1>. QED BY <1>1, <1>2, <1>3

(* The door is open: the pen goes off. *)
LEMMA RetractKeeps ==
  ASSUME RtIInv, Retract PROVE RtIInv'
<1>. USE DEF RtIInv, Retract, Round, InDoor, DisableLaser
<1>1. TypeOK'
  BY DEF TypeOK, Suspends, Cancels, DoorStages, SpindleStops
<1>2. PlacesAgree' /\ ResetIsPending' /\ AlarmIsQuiet' /\ SuspendFits' /\
      StagesInOrder' /\ SuspendedFits' /\ SleepFromRest' /\ StepperFits' /\
      LostFits' /\ StartsAreAsked'
  BY DEF PlacesAgree, ResetIsPending, AlarmIsQuiet, Aborting, SuspendFits,
     StagesInOrder, DoorStages, SuspendedFits, SleepFromRest, StepperFits,
     Resting, LostFits, StartsAreAsked, Held, Blocked, Stops
<1>3. PenFits'
  BY DEF PenFits, Aborting, StagesInOrder, DoorStages
<1>. QED BY <1>1, <1>2, <1>3

(* The door is closed: the pen is restored. *)
LEMMA RestoreKeeps ==
  ASSUME RtIInv, Restore PROVE RtIInv'
<1>. USE DEF RtIInv, Restore, Round, Set, DisableLaser
<1>1. TypeOK'
  BY DEF TypeOK, Flags, Holds, Stops, Suspends, Cancels, DoorStages
<1>2. PlacesAgree' /\ ResetIsPending' /\ AlarmIsQuiet' /\ SuspendFits' /\
      StagesInOrder' /\ SuspendedFits' /\ SleepFromRest' /\ StepperFits' /\
      PenFits' /\ LostFits' /\ StartsAreAsked'
  BY DEF PlacesAgree, ResetIsPending, AlarmIsQuiet, Aborting, SuspendFits,
     StagesInOrder, DoorStages, SuspendedFits, SleepFromRest, StepperFits,
     Resting, PenFits, LostFits, StartsAreAsked, Held, Blocked, Stops
<1>. QED BY <1>1, <1>2

(* The delay of the restore passes, or the door opens again. *)
LEMMA RestoringKeeps ==
  ASSUME RtIInv, Restoring PROVE RtIInv'
<1>. USE DEF RtIInv, Restoring, Round, Set
<1>1. TypeOK'
  BY DEF TypeOK, Flags, Holds, Stops, Suspends, Cancels, DoorStages
<1>2. PlacesAgree' /\ ResetIsPending' /\ AlarmIsQuiet' /\ SuspendedFits' /\
      SleepFromRest' /\ StepperFits' /\ PenFits' /\ LostFits'
  BY DEF PlacesAgree, ResetIsPending, AlarmIsQuiet, Aborting, SuspendedFits,
     SleepFromRest, StepperFits, Resting, PenFits, LostFits
<1>3. SuspendFits'
  BY DEF SuspendFits, Aborting, SuspendedFits
<1>4. StagesInOrder'
  BY DEF StagesInOrder, Aborting, DoorStages, SuspendedFits
<1>5. StartsAreAsked'
  BY DEF StartsAreAsked, Aborting, Held, Blocked, Stops, SuspendedFits
<1>. QED BY <1>1, <1>2, <1>3, <1>4, <1>5

(* The steppers are switched off. *)
LEMMA SleepKeeps ==
  ASSUME RtIInv, Sleep PROVE RtIInv'
<1>. USE DEF RtIInv, Sleep, Round, DisableLaser
<1>1. TypeOK'
  BY DEF TypeOK
<1>2. PlacesAgree' /\ ResetIsPending' /\ AlarmIsQuiet' /\ SuspendFits' /\
      StagesInOrder' /\ SuspendedFits' /\ SleepFromRest' /\ StepperFits' /\
      LostFits' /\ StartsAreAsked'
  BY DEF PlacesAgree, ResetIsPending, AlarmIsQuiet, Aborting, SuspendFits,
     StagesInOrder, DoorStages, SuspendedFits, SleepFromRest, StepperFits,
     Resting, LostFits, StartsAreAsked, Held, Blocked, Stops
<1>3. PenFits'
  BY DEF PenFits, Aborting, SuspendFits
<1>. QED BY <1>1, <1>2, <1>3

(* Nothing leads out of a sleep but a reset. *)
LEMMA AsleepKeeps ==
  ASSUME RtIInv, Asleep PROVE RtIInv'
<1>. USE DEF RtIInv, Asleep
<1>1. TypeOK'
  BY DEF TypeOK
<1>2. PlacesAgree' /\ ResetIsPending' /\ AlarmIsQuiet' /\ SuspendFits' /\
      StagesInOrder' /\ SuspendedFits' /\ SleepFromRest' /\ StepperFits' /\
      PenFits' /\ LostFits'
  BY DEF PlacesAgree, ResetIsPending, AlarmIsQuiet, Aborting, SuspendFits,
     StagesInOrder, DoorStages, SuspendedFits, SleepFromRest, StepperFits,
     Resting, PenFits, LostFits
<1>3. StartsAreAsked'
  BY DEF StartsAreAsked, Aborting, Held, Blocked, Stops, SuspendedFits
<1>. QED BY <1>1, <1>2, <1>3

(* The loop goes on, or main() starts over. *)
LEMMA LoopReturnsKeeps ==
  ASSUME RtIInv, LoopReturns PROVE RtIInv'
<1>. USE DEF RtIInv, LoopReturns, Returned
<1>1. TypeOK'
  BY DEF TypeOK
<1>2. PlacesAgree' /\ ResetIsPending' /\ AlarmIsQuiet' /\ SuspendFits' /\
      StagesInOrder' /\ SuspendedFits' /\ SleepFromRest' /\ StepperFits' /\
      PenFits' /\ LostFits' /\ StartsAreAsked'
  BY DEF PlacesAgree, ResetIsPending, AlarmIsQuiet, Aborting, SuspendFits,
     StagesInOrder, DoorStages, SuspendedFits, SleepFromRest, StepperFits,
     Resting, PenFits, LostFits, StartsAreAsked, Held, Blocked, Stops
<1>. QED BY <1>1, <1>2

(* A line is executed as the state allows. *)
LEMMA LineReturnsKeeps ==
  ASSUME RtIInv, LineReturns PROVE RtIInv'
<1>. USE DEF RtIInv, LineReturns, Returned, Set, AutoStart
<1>1. TypeOK'
  BY DEF TypeOK, States, Flags, Holds, Stops
<1>2. PlacesAgree' /\ ResetIsPending' /\ AlarmIsQuiet' /\ SuspendFits' /\
      StagesInOrder' /\ SuspendedFits' /\ SleepFromRest' /\ StepperFits' /\
      PenFits' /\ StartsAreAsked'
  BY DEF PlacesAgree, ResetIsPending, AlarmIsQuiet, Aborting, SuspendFits,
     StagesInOrder, DoorStages, SuspendedFits, SleepFromRest, StepperFits,
     Resting, PenFits, StartsAreAsked, Held, Blocked, Stops
<1>3. LostFits'
  <2>1. \A f \in {"CYCLE_STOP", "RESET"} :
          f \in sys_rt_exec_state' <=> f \in sys_rt_exec_state
    OBVIOUS
  <2>2. /\ pc' \in {"main", "exec", "boot"} /\ suspend' = suspend
        /\ abort <=> pc' = "boot"
    OBVIOUS
  <2>3. lost' => lost /\ state' = state
    OBVIOUS
  <2>. QED
    BY <2>1, <2>2, <2>3 DEF LostFits, Resting, Aborting
<1>. QED BY <1>1, <1>2, <1>3

(* A motion is queued, or waits for a place. *)
LEMMA QueueReturnsKeeps ==
  ASSUME RtIInv, QueueReturns PROVE RtIInv'
<1>. USE DEF RtIInv, QueueReturns, Returned, Full, Set, AutoStart
<1>1. TypeOK'
  <2>1. {abort, execHold, endMotion, timer, refilled, asked, lost,
         stopSpindle, penOff}' \subseteq BOOLEAN
    BY Zenon DEF TypeOK
  <2>2. blocks' \in 0 .. MaxBlocks
    BY RealtimeAssumption DEF TypeOK, Flags, Holds, Stops
  <2>. QED
    BY RealtimeAssumption, <2>1, <2>2 DEF TypeOK, Flags, Holds, Stops
<1>2. PlacesAgree' /\ ResetIsPending' /\ AlarmIsQuiet' /\ SuspendFits' /\
      StagesInOrder' /\ SuspendedFits' /\ SleepFromRest' /\ StepperFits' /\
      PenFits' /\ LostFits' /\ StartsAreAsked'
  BY DEF PlacesAgree, ResetIsPending, AlarmIsQuiet, Aborting, SuspendFits,
     StagesInOrder, DoorStages, SuspendedFits, SleepFromRest, StepperFits,
     Resting, PenFits, LostFits, StartsAreAsked, Held, Blocked, Stops
<1>. QED BY <1>1, <1>2

(* A jog starts by itself. *)
LEMMA JogStartKeeps ==
  ASSUME RtIInv, JogStart PROVE RtIInv'
<1>. USE DEF RtIInv, JogStart
<1>1. TypeOK'
  BY DEF TypeOK, States
<1>2. PlacesAgree' /\ ResetIsPending' /\ AlarmIsQuiet' /\ StagesInOrder' /\
      SuspendedFits' /\ SleepFromRest' /\ StepperFits' /\ PenFits' /\ LostFits'
      /\ StartsAreAsked'
  BY DEF PlacesAgree, ResetIsPending, AlarmIsQuiet, Aborting, StagesInOrder,
     DoorStages, SuspendedFits, SleepFromRest, StepperFits, Resting, PenFits,
     LostFits, StartsAreAsked, Held, Blocked, Stops
<1>3. SuspendFits'
  BY DEF SuspendFits, Aborting, SuspendedFits
<1>. QED BY <1>1, <1>2, <1>3

(* The wait for the queue to be empty. *)
LEMMA SyncReturnsKeeps ==
  ASSUME RtIInv, SyncReturns PROVE RtIInv'
<1>. USE DEF RtIInv, SyncReturns, Returned, SyncDone
<1>1. TypeOK'
  BY DEF TypeOK
<1>2. PlacesAgree' /\ ResetIsPending' /\ AlarmIsQuiet' /\ SuspendFits' /\
      StagesInOrder' /\ SuspendedFits' /\ SleepFromRest' /\ StepperFits' /\
      PenFits' /\ LostFits' /\ StartsAreAsked'
  BY DEF PlacesAgree, ResetIsPending, AlarmIsQuiet, Aborting, SuspendFits,
     StagesInOrder, DoorStages, SuspendedFits, SleepFromRest, StepperFits,
     Resting, PenFits, LostFits, StartsAreAsked, Held, Blocked, Stops
<1>. QED BY <1>1, <1>2

(* The pen moves. *)
LEMMA ServoMovesKeeps ==
  ASSUME RtIInv, ServoMoves PROVE RtIInv'
<1>. USE DEF RtIInv, ServoMoves
<1>1. TypeOK'
  BY DEF TypeOK
<1>2. PlacesAgree' /\ ResetIsPending' /\ AlarmIsQuiet' /\ SuspendFits' /\
      StagesInOrder' /\ SuspendedFits' /\ SleepFromRest' /\ StepperFits' /\
      PenFits' /\ LostFits' /\ StartsAreAsked'
  BY DEF PlacesAgree, ResetIsPending, AlarmIsQuiet, Aborting, SuspendFits,
     StagesInOrder, DoorStages, SuspendedFits, SleepFromRest, StepperFits,
     Resting, PenFits, LostFits, StartsAreAsked, Held, Blocked, Stops
<1>. QED BY <1>1, <1>2

(* main() clears the words and the flags. *)
LEMMA BootKeeps ==
  ASSUME RtIInv, Boot PROVE RtIInv'
<1>. USE DEF RtIInv, Boot
<1>1. TypeOK'
  BY DEF TypeOK, Suspends, Cancels, DoorStages, SpindleStops
<1>2. PlacesAgree' /\ ResetIsPending' /\ AlarmIsQuiet' /\ SuspendFits' /\
      StagesInOrder' /\ SuspendedFits' /\ SleepFromRest' /\ StepperFits' /\
      PenFits' /\ LostFits' /\ StartsAreAsked'
  BY DEF PlacesAgree, ResetIsPending, AlarmIsQuiet, Aborting, SuspendFits,
     StagesInOrder, DoorStages, SuspendedFits, SleepFromRest, StepperFits,
     Resting, PenFits, LostFits, StartsAreAsked, Held, Blocked, Stops
<1>. QED BY <1>1, <1>2

(* main() clears the queues, and checks for an alarm. *)
LEMMA BootSubsystemsKeeps ==
  ASSUME RtIInv, BootSubsystems PROVE RtIInv'
<1>. USE DEF RtIInv, BootSubsystems, BlocksAfterReset, StateAfterReset
<1>1. TypeOK'
  <2>1. {abort, execHold, endMotion, timer, refilled, asked, lost,
         stopSpindle, penOff}' \subseteq BOOLEAN
    BY Zenon DEF TypeOK
  <2>. QED
    BY RealtimeAssumption, <2>1 DEF TypeOK, States, Lines
<1>2. PlacesAgree' /\ ResetIsPending' /\ SleepFromRest' /\ StepperFits' /\
      LostFits'
  BY DEF PlacesAgree, ResetIsPending, SleepFromRest, Aborting, StepperFits,
     Resting, LostFits
<1>3. AlarmIsQuiet'
  BY DEF AlarmIsQuiet, Aborting, ResetIsPending
<1>4. SuspendFits'
  BY DEF SuspendFits, Aborting, ResetIsPending
<1>5. StagesInOrder'
  BY DEF StagesInOrder, Aborting, DoorStages, ResetIsPending
<1>6. SuspendedFits'
  BY DEF SuspendedFits, Aborting, ResetIsPending
<1>7. PenFits'
  BY DEF PenFits, Aborting, ResetIsPending
<1>8. StartsAreAsked'
  BY DEF StartsAreAsked, Aborting, Held, Blocked, Stops, ResetIsPending
<1>. QED BY <1>1, <1>2, <1>3, <1>4, <1>5, <1>6, <1>7, <1>8

-----------------------------------------------------------------------------
(* The theorems.                                                           *)

(* With the power just come on nothing moves, and nothing is flagged. *)
LEMMA InitRtIInv == Init => RtIInv
<1>. SUFFICES ASSUME Init PROVE RtIInv
  OBVIOUS
<1>. USE DEF Init
<1>1. TypeOK
  <2>1. {abort, execHold, endMotion, timer, refilled, asked, lost,
         stopSpindle, penOff} \subseteq BOOLEAN
    OBVIOUS
  <2>. QED BY RealtimeAssumption, <2>1 DEF TypeOK, States
<1>2. /\ PlacesAgree /\ ResetIsPending /\ AlarmIsQuiet /\ SuspendFits
      /\ StagesInOrder /\ SuspendedFits /\ SleepFromRest /\ StepperFits
      /\ PenFits /\ LostFits /\ StartsAreAsked
  BY DEF PlacesAgree, ResetIsPending, AlarmIsQuiet,
     SuspendFits, StagesInOrder, SuspendedFits, SleepFromRest, StepperFits,
     Resting, PenFits, LostFits, StartsAreAsked, Held
<1>. QED BY <1>1, <1>2 DEF RtIInv

(* Every step of an interrupt or of the main program keeps it. *)
LEMMA StepKeepsRtIInv == RtIInv /\ [Next]_vars => RtIInv'
<1>. SUFFICES ASSUME RtIInv, [Next]_vars PROVE RtIInv'
  OBVIOUS
<1>1. CASE Interrupt
  BY <1>1, CmdFeedHoldKeeps, CmdCycleStartKeeps, CmdJogCancelKeeps,
     CmdResetKeeps, CmdSafetyDoorKeeps, LimitPinKeeps, StepKeeps,
     StepperIdleKeeps DEF Interrupt
<1>2. CASE protocol_exec_rt_system
  BY <1>2, AlarmCheckKeeps, CriticalEventKeeps, ClearAlarmKeeps,
     CopyStateKeeps, HoldKeeps, ClearHoldKeeps, StartKeeps, ClearStartKeeps,
     HoldStopKeeps, MotionStopKeeps, ClearStopKeeps, SpindleOverrideKeeps,
     RefillKeeps, NoRefillKeeps, st_wake_upKeeps DEF protocol_exec_rt_system
<1>3. CASE protocol_exec_rt_suspend
  BY <1>3, SuspendWaitsKeeps, SuspendSpindleKeeps, RetractKeeps, RestoreKeeps,
     RestoringKeeps, SleepKeeps, AsleepKeeps DEF protocol_exec_rt_suspend
<1>4. CASE protocol_main_loop
  BY <1>3, <1>4, IdleKeeps, ReadLineKeeps, LoopReturnsKeeps,
     LineReturnsKeeps, QueueReturnsKeeps, SyncReturnsKeeps, JogStartKeeps,
     ServoMovesKeeps, BootKeeps, BootSubsystemsKeeps DEF protocol_main_loop
<1>5. CASE UNCHANGED vars
  <2>. USE <1>5 DEF RtIInv, vars
  <2>1. TypeOK'
    BY DEF TypeOK
  <2>2. /\ PlacesAgree' /\ ResetIsPending' /\ AlarmIsQuiet' /\ SuspendFits'
        /\ StagesInOrder' /\ SuspendedFits' /\ SleepFromRest' /\ StepperFits'
    BY DEF PlacesAgree, ResetIsPending, AlarmIsQuiet, SuspendFits, Aborting,
       StagesInOrder, SuspendedFits, SleepFromRest, StepperFits, Resting
  <2>3. PenFits' /\ LostFits' /\ StartsAreAsked'
    BY DEF PenFits, LostFits, StartsAreAsked, Aborting, Resting, Held, Blocked
  <2>. QED BY <2>1, <2>2, <2>3
<1>. QED BY <1>1, <1>2, <1>3, <1>4, <1>5 DEF Next, MainProgram

(* The invariant holds in every state, whatever interrupts what. *)
THEOREM RtInductiveInvariant == Spec => []RtIInv
BY InitRtIInv, StepKeepsRtIInv, PTL DEF Spec

(* Every variable keeps to the values its word in the code has. *)
THEOREM RtTypeCorrect == Spec => []TypeOK
<1>1. RtIInv => TypeOK
  BY DEF RtIInv
<1>. QED BY <1>1, RtInductiveInvariant, PTL

(* The loop of the firmware never runs in alarm with something to move:
   unlocking cannot set anything in motion. *)
THEOREM NothingMovesInAlarm == Spec => []InAlarmNothingMoves
<1>1. RtIInv => InAlarmNothingMoves
  BY DEF RtIInv, AlarmIsQuiet, Aborting, InAlarmNothingMoves
<1>. QED BY <1>1, RtInductiveInvariant, PTL

(* A position lost in a reset is an alarm, in force or about to be, until
   someone unlocks the machine. *)
THEOREM LostPositionIsAlarm == Spec => []PositionLostIsFlagged
<1>1. RtIInv => PositionLostIsFlagged
  BY DEF RtIInv, LostFits, SuspendedFits, SuspendFits, Aborting,
     PositionLostIsFlagged
<1>. QED BY <1>1, RtInductiveInvariant, PTL

(* What a status report says of rest is true: the stepper interrupt is off. *)
THEOREM ReportsOfRestAreTrue == Spec => []ReportedRestIsRest
<1>1. RtIInv => ReportedRestIsRest
  <2>. SUFFICES ASSUME RtIInv, pc = "copy", "RESET" \notin sys_rt_exec_state,
                       StatusShown \in {"Idle", "Hold:0", "Door:0", "Alarm"}
                PROVE  ~timer
    BY DEF ReportedRestIsRest
  <2>1. ~Aborting
    BY DEF RtIInv, ResetIsPending, Aborting
  <2>2. Resting
    BY <2>1 DEF RtIInv, TypeOK, States, StagesInOrder, DoorStages, Resting,
       StatusShown
  <2>. QED BY <2>1, <2>2 DEF RtIInv, StepperFits
<1>. QED BY <1>1, RtInductiveInvariant, PTL

(* The main program never believes in a motion nobody executes. *)
THEOREM CycleIsAlwaysStepped == Spec => []CycleIsStepped
<1>1. RtIInv => CycleIsStepped
  BY DEF RtIInv, StepperFits, CycleIsStepped
<1>. QED BY <1>1, RtInductiveInvariant, PTL

(* Nothing moves with the pen's PWM off that a hold or a door switched off. *)
THEOREM PenIsRestored == Spec => []PenRestoredBeforeMotion
<1>1. RtIInv => PenRestoredBeforeMotion
  BY DEF RtIInv, PenFits, PenRestoredBeforeMotion
<1>. QED BY <1>1, RtInductiveInvariant, PTL

(* Only the cycle start of a pass ends a hold or a door in a cycle ... *)
LEMMA OnlyStartResumes ==
  ASSUME Next, state \in {"HOLD", "SAFETY_DOOR"}, state' = "CYCLE"
  PROVE  Start
<1>1. ~Interrupt
  BY DEF Interrupt, CmdFeedHold, CmdCycleStart, CmdJogCancel, CmdReset,
     CmdSafetyDoor, LimitPin, Step, StepperIdle, ISRSame
<1>2. protocol_exec_rt_system => Start
  BY DEF protocol_exec_rt_system, AlarmCheck, CriticalEvent, ClearAlarm,
     CopyState, Hold, HoldState, DoorState, ClearHold, ClearStart, HoldStop,
     MotionStop, ClearStop, SpindleOverride, Refill, NoRefill, st_wake_up
<1>3. ~protocol_main_loop
  BY DEF protocol_main_loop, Idle, ReadLine, protocol_exec_rt_suspend,
     SuspendWaits, SuspendSpindle, Retract, Restore, Restoring, Sleep, Asleep,
     LoopReturns, LineReturns, QueueReturns, JogStart, SyncReturns, ServoMoves,
     Boot, BootSubsystems, StateAfterReset
<1>. QED BY <1>1, <1>2, <1>3 DEF Next, MainProgram

(* ... and it was asked for by a '~' that came later. *)
THEOREM ResumesAreDeliberate == Spec => ResumeIsDeliberate
<1>1. RtIInv /\ [Next]_vars =>
        [(state \in {"HOLD", "SAFETY_DOOR"} /\ state' = "CYCLE") => asked]_vars
  <2>. SUFFICES ASSUME RtIInv, Next, state \in {"HOLD", "SAFETY_DOOR"},
                       state' = "CYCLE"
                PROVE  asked
    BY DEF vars
  <2>1. Start
    BY OnlyStartResumes
  <2>2. ~Aborting
    BY <2>1 DEF RtIInv, ResetIsPending, Aborting, Start
  <2>3. CASE state = "HOLD"
    BY <2>1, <2>2, <2>3 DEF RtIInv, Start, MayStart, StateToStart, DoorResumes,
       StartsAreAsked, PlacesAgree, Held
  <2>4. CASE state = "SAFETY_DOOR"
    BY <2>1, <2>2, <2>4 DEF RtIInv, Start, MayStart, StateToStart, DoorResumes,
       StartsAreAsked, StagesInOrder
  <2>. QED BY <2>3, <2>4
<1>. QED BY <1>1, RtInductiveInvariant, PTL DEF Spec, ResumeIsDeliberate

=============================================================================

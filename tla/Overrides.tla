------------------------------ MODULE Overrides ------------------------------
(***************************************************************************)
(* The override characters and the status reports: protocol_exec_rt_system *)
(* (grbl/protocol.c) takes the flags the receive interrupt has set and     *)
(* changes the feed, rapid and spindle percentages and the coolant;        *)
(* report_realtime_status (grbl/report.c) answers '?', and shows the work  *)
(* offsets and the overrides only when a counter says so.  Both run in     *)
(* every pass of protocol_execute_realtime, also while a g-code line waits *)
(* for the machine and while the machine is suspended by a hold or by the  *)
(* door.                                                                   *)
(*                                                                         *)
(* A line is one of a few kinds and a motion is one block.  The spindle    *)
(* output is left out but for the reports its changes call for, and so is  *)
(* the door's parking, which is compiled out.  Module Realtime has the     *)
(* holds, module GCode the lines in detail.                                *)
(***************************************************************************)
EXTENDS Integers, FiniteSets

CONSTANTS MaxPercent, MinPercent, DefaultPercent,   \* of config.h
          CoarseStep, FineStep,            \* the increments
          Modulus,                 \* 256: the percentages are uint8_t
          BusyCount, IdleCount,    \* REPORT_.._REFRESH_.._COUNT
          Requests,                \* the override characters the host sends
          MaxPending               \* bound: flags set at the same time

Changes == {"=", "++", "+", "--", "-"}
Kinds == ({"feed", "spindle"} \X Changes)
           \cup {<<"rapid", 100>>, <<"rapid", 50>>, <<"rapid", 25>>,
                 <<"flood", "toggle">>}

ASSUME OverridesAssumption ==
  /\ MinPercent \in Nat /\ MaxPercent \in Nat /\ Modulus \in Nat
  /\ DefaultPercent \in MinPercent .. MaxPercent /\ MaxPercent < Modulus
  /\ FineStep \in Nat \ {0} /\ CoarseStep \in Nat /\ FineStep < CoarseStep
  /\ CoarseStep <= MinPercent /\ MinPercent < CoarseStep + FineStep
  /\ MaxPercent + CoarseStep + FineStep < Modulus
  /\ BusyCount \in Nat \ {0, 1} /\ IdleCount \in 2 .. BusyCount
  /\ Requests \subseteq Kinds /\ MaxPending \in Nat

VARIABLES
  percent,           \* of sys: f_override, r_override, spindle_speed_ovr
  asked,             \* sys_rt_exec_motion_override, .._accessory_override
  query,             \* EXEC_STATUS_REPORT
  counter,           \* of sys: report_wco_counter, report_ovr_counter
  rt, taken,         \* where protocol_exec_rt_system is, and its rt_exec
  coolant,           \* of gc_state: the modal state
  line,              \* the line in execution, and how far it has come
  block,             \* the planner's block: none, "wet" or "dry"
  flood,             \* the output
  mode, suspend,     \* sys.state; sys.suspend with the restore condition
  shown              \* history: what the host has been shown is true

requestVars == <<asked, query>>
machineVars == <<block, mode, suspend>>
overrideVars == <<percent, requestVars, counter, rt, taken, coolant, line,
                  machineVars, flood, shown>>

NoLine == [does |-> "none", step |-> 0]
Unblocked == "none"
NotSuspended == [stage |-> "none", flood |-> FALSE]
Hidden(what) == [shown EXCEPT ![what] = FALSE]

(* A change the report's counter does and does not get to know of. *)
Refresh(c) == [c EXCEPT !.ovr = 0]

Defaults == [feed |-> DefaultPercent, rapid |-> 100,
             spindle |-> DefaultPercent]
NotShown == [ovr |-> FALSE, wco |-> FALSE]

OverridesInit ==
  /\ percent = Defaults
  /\ asked = {} /\ query = FALSE /\ counter = [wco |-> 0, ovr |-> 0]
  /\ rt = "report" /\ taken = {}
  /\ coolant = FALSE /\ line = NoLine
  /\ block = Unblocked /\ flood = FALSE
  /\ mode = "IDLE" /\ suspend = NotSuspended
  /\ shown = NotShown

-----------------------------------------------------------------------------
(* system_set_exec_motion_override_flag and its kin: system.c. *)
IsMotion(r) == r[1] \in {"feed", "rapid"}
SetFlag(r) == asked' = asked \cup {r}
ClearMotionFlags == asked' = {r \in asked : ~IsMotion(r)}
ClearAccessoryFlags == asked' = {r \in asked : IsMotion(r)}

(* The receive interrupt. *)
Request ==
  /\ Cardinality(asked) < MaxPending
  /\ \E r \in Requests \ asked : SetFlag(r)
  /\ UNCHANGED <<percent, query, counter, rt, taken, coolant, line,
                 machineVars, flood, shown>>

Query ==
  /\ ~query /\ query' = TRUE
  /\ UNCHANGED <<percent, asked, counter, rt, taken, coolant, line,
                 machineVars, flood, shown>>

(* The host resets: mc_reset, and what the loop of main, system_init and
   gc_init leave. *)
OverridesReset ==
  /\ line # NoLine \/ suspend # NotSuspended
  /\ percent' = Defaults
  /\ asked' = {} /\ query' = FALSE /\ counter' = [wco |-> 0, ovr |-> 0]
  /\ rt' = "report" /\ taken' = {}
  /\ coolant' = FALSE /\ line' = NoLine
  /\ block' = Unblocked /\ flood' = FALSE
  /\ mode' = "IDLE" /\ suspend' = NotSuspended
  /\ shown' = NotShown

-----------------------------------------------------------------------------
(* protocol_exec_rt_system, first part: report_realtime_status.  The offsets
   are shown when their counter has run out, the overrides when theirs has
   and the offsets are not. *)
RefreshCount == IF mode \in {"CYCLE", "HOLD", "SAFETY_DOOR"} THEN BusyCount - 1
                                                      ELSE IdleCount - 1

ShowsOffsets == counter.wco = 0
ShowsOverrides == counter.ovr = 0 /\ ~ShowsOffsets

report_realtime_status ==
  /\ counter' = [wco |-> IF ShowsOffsets THEN RefreshCount ELSE counter.wco - 1,
                 ovr |-> CASE ShowsOverrides -> RefreshCount
                           [] counter.ovr = 0 -> 0
                           [] OTHER -> counter.ovr - 1]
  /\ shown' = [wco |-> shown.wco \/ ShowsOffsets,
               ovr |-> shown.ovr \/ ShowsOverrides]
  /\ query' = FALSE

Report ==
  /\ rt = "report"
  /\ rt' = "motion"
  /\ IF query THEN report_realtime_status
              ELSE UNCHANGED <<counter, shown, query>>
  /\ UNCHANGED <<percent, asked, taken, coolant, line, machineVars, flood>>

(* Between the reports and the overrides: holds, the door, the cycle start. *)
Motion ==
  /\ rt = "motion"
  /\ \/ UNCHANGED <<mode, suspend, block>>
     \/ /\ mode \in {"IDLE", "CYCLE"} /\ mode' \in {"HOLD", "SAFETY_DOOR"}
        /\ suspend' = [NotSuspended EXCEPT !.stage = "entered"]
        /\ UNCHANGED block
     \/ /\ mode = "HOLD" /\ mode' = "SAFETY_DOOR"
        /\ UNCHANGED <<suspend, block>>
     \/ /\ mode = "IDLE" \/ (mode = "HOLD" /\ suspend.stage = "stopped")
        /\ mode' = IF block = Unblocked THEN "IDLE" ELSE "CYCLE"
        /\ suspend' = NotSuspended
        /\ UNCHANGED block
     \/ /\ mode = "SAFETY_DOOR" /\ suspend.stage = "retracted"
        /\ suspend' = [suspend EXCEPT !.stage = "restore"]
        /\ UNCHANGED <<mode, block>>
     \/ /\ mode = "SAFETY_DOOR" /\ suspend.stage = "restored"
        /\ mode' = IF block = Unblocked THEN "IDLE" ELSE "CYCLE"
        /\ suspend' = NotSuspended
        /\ UNCHANGED block
     \/ /\ mode = "CYCLE" /\ mode' = "IDLE" /\ block' = Unblocked
        /\ UNCHANGED suspend
  /\ rt' = "copy"
  /\ UNCHANGED <<percent, requestVars, counter, taken, coolant, line,
                 flood, shown>>

(* The motion overrides, copied and then cleared: a character in between is
   lost. *)
Asked(kind) == {r[2] : r \in {t \in taken : t[1] = kind}}

CopyMotion ==
  /\ rt = "copy"
  /\ taken' = {r \in asked : IsMotion(r)}
  /\ rt' = IF taken' = {} THEN "accessory" ELSE "clear"
  /\ UNCHANGED <<percent, requestVars, counter, coolant, line, machineVars,
                 flood, shown>>

AdjustedMutant(v, how) ==
  LET start == IF "=" \in how THEN DefaultPercent ELSE v
      sum == start + (IF "++" \in how THEN CoarseStep ELSE 0)
                   - (IF "--" \in how THEN CoarseStep ELSE 0)
                   + (IF "+" \in how THEN FineStep ELSE 0)
                   - (IF "-" \in how THEN FineStep ELSE 0)
      byte == sum % Modulus
  IN  IF byte > MaxPercent THEN MaxPercent ELSE byte

Adjusted(v, how) ==
  LET start == IF "=" \in how THEN DefaultPercent ELSE v
      sum == start + (IF "++" \in how THEN CoarseStep ELSE 0)
                   - (IF "--" \in how THEN CoarseStep ELSE 0)
                   + (IF "+" \in how THEN FineStep ELSE 0)
                   - (IF "-" \in how THEN FineStep ELSE 0)
      byte == sum % Modulus
  IN  IF byte > MaxPercent THEN MaxPercent
      ELSE IF byte < MinPercent THEN MinPercent ELSE byte

Rapid(how) == CASE 25 \in how -> 25
                [] 50 \in how /\ 25 \notin how -> 50
                [] how = {100} -> 100
                [] OTHER -> percent.rapid

(* The flags are those of the copy: the percentages, and their report. *)
NewPercent(new) ==
  /\ percent' = new
  /\ IF new # percent
     THEN counter' = Refresh(counter) /\ shown' = Hidden("ovr")
     ELSE UNCHANGED <<counter, shown>>

ApplyMotion ==
  /\ rt = "clear"
  /\ ClearMotionFlags
  /\ NewPercent([percent EXCEPT !.feed = Adjusted(percent.feed, Asked("feed")),
                                !.rapid = Rapid(Asked("rapid"))])
  /\ rt' = "accessory" /\ taken' = {}
  /\ UNCHANGED <<query, coolant, line, machineVars, flood>>

(* The accessory overrides. *)
CopyAccessory ==
  /\ rt = "accessory"
  /\ taken' = {r \in asked : ~IsMotion(r)}
  /\ rt' = IF taken' = {} THEN "run" ELSE "clear2"
  /\ UNCHANGED <<percent, requestVars, counter, coolant, line, machineVars,
                 flood, shown>>

Toggles == Asked("flood") # {} /\ mode \in {"IDLE", "CYCLE", "HOLD"}

NewSpindle == Adjusted(percent.spindle, Asked("spindle"))

ToggledMutant(c) == c
Toggled(c) == Refresh(c)

ApplyAccessory ==
  /\ rt = "clear2"
  /\ ClearAccessoryFlags
  /\ percent' = [percent EXCEPT !.spindle = NewSpindle]
  /\ IF Toggles THEN coolant' = ~coolant /\ flood' = ~coolant
                ELSE UNCHANGED <<coolant, flood>>
  /\ CASE Toggles -> counter' = Toggled(counter) /\ shown' = Hidden("ovr")
       [] ~Toggles /\ percent' # percent ->
            counter' = Refresh(counter) /\ shown' = Hidden("ovr")
       [] OTHER -> UNCHANGED <<counter, shown>>
  /\ rt' = "run" /\ taken' = {}
  /\ UNCHANGED <<query, line, machineVars>>

-----------------------------------------------------------------------------
(* The rest of a pass: either the suspended machine ... *)
SetOutputs(f) ==
  /\ flood' = f
  /\ counter' = Refresh(counter) /\ shown' = Hidden("ovr")

(* protocol_exec_rt_suspend: what it would restore is that of the block in
   execution, if there is one. *)
Suspended ==
  /\ rt = "run" /\ suspend.stage # "none"
  /\ \/ /\ suspend.stage = "entered"
        /\ suspend' = [stage |-> "holding",
                       flood |-> IF block = Unblocked THEN coolant
                                                   ELSE block = "wet"]
        /\ UNCHANGED <<counter, shown, flood>>
     \/ /\ suspend.stage = "holding"
        /\ suspend' = [suspend EXCEPT !.stage = "stopped"]
        /\ UNCHANGED <<counter, shown, flood>>
     \/ /\ suspend.stage = "stopped" /\ mode = "SAFETY_DOOR"
        /\ suspend' = [suspend EXCEPT !.stage = "retracted"]
        /\ SetOutputs(FALSE)
     \/ /\ suspend.stage = "restore"
        /\ suspend' = [suspend EXCEPT !.stage = "restored"]
        /\ IF coolant
           THEN /\ flood' = suspend.flood
                /\ counter' = Refresh(counter) /\ shown' = Hidden("ovr")
           ELSE UNCHANGED <<counter, shown, flood>>
     \/ /\ suspend.stage \in {"stopped", "retracted", "restored"}
        /\ suspend.stage = "stopped" => mode = "HOLD"
        /\ UNCHANGED <<suspend, counter, shown, flood>>
  /\ rt' = "report"
  /\ UNCHANGED <<percent, requestVars, taken, coolant, line, block, mode>>

(* ... or the line in execution.  Lines wait for the queue to drain where the
   code has protocol_buffer_synchronize. *)
Drained == block = Unblocked /\ mode # "CYCLE"
OnLine(does, step) == line = [does |-> does, step |-> step]
ToStep(step) == line' = [line EXCEPT !.step = step]

NextLine ==
  /\ line = NoLine
  /\ \E does \in {"motion", "M8", "M9", "M3", "offset", "M30"} :
       line' = [does |-> does, step |-> 0]
  /\ UNCHANGED <<percent, counter, coolant, block, flood, shown>>

PlanMotion ==
  /\ OnLine("motion", 0) /\ block = Unblocked
  /\ block' = IF coolant THEN "wet" ELSE "dry"
  /\ line' = NoLine
  /\ UNCHANGED <<percent, counter, coolant, flood, shown>>

(* [7] [8] spindle_sync and coolant_sync, if the mode is to change. *)
SyncCoolant ==
  /\ line.does \in {"M8", "M9"}
  /\ IF coolant = (line.does = "M8")
     THEN UNCHANGED <<coolant, flood, counter, shown>>
     ELSE /\ Drained
          /\ coolant' = (line.does = "M8") /\ flood' = coolant'
          /\ counter' = Refresh(counter) /\ shown' = Hidden("ovr")
  /\ line' = NoLine
  /\ UNCHANGED <<percent, block>>

SyncSpindle ==
  /\ line.does = "M3" /\ Drained
  /\ SetOutputs(flood)
  /\ line' = NoLine
  /\ UNCHANGED <<percent, coolant, block>>

(* system_flag_wco_change, with the new offsets already in force. *)
SetOffset ==
  /\ OnLine("offset", 0)
  /\ shown' = Hidden("wco")
  /\ ToStep(1)
  /\ UNCHANGED <<percent, counter, coolant, block, flood>>

Flagged(c) == [c EXCEPT !.wco = 0]

FlagChange ==
  /\ OnLine("offset", 1) /\ Drained
  /\ counter' = Flagged(counter)
  /\ line' = NoLine
  /\ UNCHANGED <<percent, coolant, block, flood, shown>>

(* [21] M30: the modes, the overrides and the offsets first, the outputs and
   the reports after a second sync. *)
EndProgram ==
  /\ OnLine("M30", 0) /\ Drained
  /\ percent' = Defaults
  /\ coolant' = FALSE
  /\ shown' = NotShown
  /\ ToStep(1)
  /\ UNCHANGED <<counter, block, flood>>

EndOutputs ==
  /\ OnLine("M30", 1) /\ Drained
  /\ counter' = [wco |-> 0, ovr |-> 0]
  /\ flood' = FALSE
  /\ shown' = NotShown
  /\ line' = NoLine
  /\ UNCHANGED <<percent, coolant, block>>

Wait == /\ line = NoLine \/ ~Drained
        /\ UNCHANGED <<percent, counter, coolant, line, block, flood, shown>>

Parser ==
  /\ rt = "run" /\ suspend.stage = "none"
  /\ \/ NextLine \/ PlanMotion \/ SyncCoolant \/ SyncSpindle \/ SetOffset
     \/ FlagChange \/ EndProgram \/ EndOutputs \/ Wait
  /\ rt' = "report"
  /\ UNCHANGED <<requestVars, taken, mode, suspend>>

OverridesNext ==
  \/ Request \/ Query \/ OverridesReset
  \/ Report \/ Motion \/ CopyMotion \/ ApplyMotion \/ CopyAccessory
  \/ ApplyAccessory \/ Suspended \/ Parser

OverridesSpec == OverridesInit /\ [][OverridesNext]_overrideVars

-----------------------------------------------------------------------------
(* What changes in one place of a report's space postpones the other, so the
   host must read two reports at most to know the machine.  One shows the
   overrides and the coolant as they are, unless it shows the offsets, or they
   are as the host has seen them: no change of a percentage or of an output by
   a character, a line or the door escapes the next report but one; while a
   program end is at work, they may.  And after each the host can tell the
   work position from the machine's: it has seen the offsets in force, unless
   the line that changes them is waiting for the motions before it. *)
ReportsKeepUp ==
  [][Report /\ query =>
       /\ line.does # "M30" => shown'.ovr \/ ShowsOffsets
       /\ line.step = 0 => shown'.wco]_overrideVars

(* A percentage goes the way it was asked to, whatever is asked for at once:
   up, down or back to the default.  Only the two decrements together, near
   the minimum, wrap around and end at the maximum. *)
Goes(how, old, new) ==
  /\ how # {} /\ how \subseteq {"+", "++"} => new >= old
  /\ how \in {{"-"}, {"--"}} => new <= old
  /\ how = {"-", "--"} /\ old >= CoarseStep + FineStep => new < old
  /\ how = {"="} => new = DefaultPercent

OverridesObey ==
  [][/\ ApplyMotion => Goes(Asked("feed"), percent.feed, percent'.feed)
     /\ ApplyAccessory =>
          Goes(Asked("spindle"), percent.spindle, percent'.spindle)
    ]_overrideVars
=============================================================================

----------------------------- MODULE MCControl -----------------------------
(***************************************************************************)
(* What the firmware is told, keeps and reports, small: the planner, the   *)
(* records in the EEPROM, and the overrides with the status reports.  The  *)
(* planner and the overrides have f_override each; what one does with it   *)
(* the other takes from outside.  So, one of the three works while the     *)
(* others are as at the start, and their state spaces add up.              *)
(***************************************************************************)
EXTENDS Planner, MCSettings, MCOverrides

controlVars == <<vars, settingsVars, overrideVars>>

(* Expressions that tell the initial states. *)
PlannerUnused ==
  /\ planner = <<[i \in Slots |-> NoBlock], <<0, 0, 1>>, 0, 0, "idle", 0>>
  /\ overrides = <<1, 1, FALSE>>
  /\ prep = <<FALSE, FALSE, FALSE, 0, 0, FALSE, FALSE>>
SettingsUnused == stage = "off" /\ eeprom = Erased /\ known = {DefaultSettings}
OverridesUnused ==
  /\ percent = Defaults /\ requestVars = <<{}, FALSE>>
  /\ counter = [wco |-> 0, ovr |-> 0] /\ rt = "report" /\ taken = {}
  /\ ~coolant /\ line = NoLine /\ ~flood
  /\ machineVars = <<Unblocked, "IDLE", NotSuspended>> /\ shown = NotShown

NotPlanner == PlannerUnused /\ UNCHANGED vars
NotSettings == SettingsUnused /\ UNCHANGED settingsVars
NotOverrides == OverridesUnused /\ UNCHANGED overrideVars

ControlInit == Init /\ SettingsInit /\ OverridesInit

ControlNext ==
  \/ NotSettings /\ NotOverrides /\ Next
  \/ NotPlanner /\ NotOverrides /\ SettingsNext
  \/ NotPlanner /\ NotSettings /\ OverridesNext

ControlSpec == ControlInit /\ [][ControlNext]_controlVars
=============================================================================

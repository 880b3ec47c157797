-------------------------------- MODULE Pins --------------------------------
(***************************************************************************)
(* The pins: cpu_map.h says what each of them is for, limits.c, system.c   *)
(* and probe.c read the switches, and stepper.c, spindle_control.c and     *)
(* coolant_control.c drive the outputs.  What is read and driven depends   *)
(* on settings, and most of the code uses a copy in the form it needs: an  *)
(* invert mask, the slope of the PWM, an armed interrupt.                  *)
(*                                                                         *)
(* Interrupts come between any two steps of the main program; the one of   *)
(* the stepper timer lets others in after it has stepped.  What the flags  *)
(* of a hold or a start lead to is in module Realtime, and how far a       *)
(* motion goes is not told: it is a number of interrupts.                  *)
(***************************************************************************)
EXTENDS Integers, FiniteSets

CONSTANTS Wired,         \* the input pins that something is connected to
          Typed,         \* settings the operator types: <<field, value>>
          IdleLock,      \* whether $1 lets the motors go after a motion
          MaxInputs,     \* bound: times a switch opens or closes, or a reset
          MaxCommands,   \* bound: commands executed
          MaxSegments    \* bound: segments of a motion

Axes == {"X", "Y", "Z"}

(* cpu_map.h: a pin is a port and a bit. *)
StepBit == [X |-> <<"D", 2>>, Y |-> <<"D", 3>>, Z |-> <<"D", 4>>]
DirectionBit == [X |-> <<"D", 5>>, Y |-> <<"D", 6>>, Z |-> <<"D", 7>>]
LimitBit == [X |-> <<"B", 1>>, Y |-> <<"B", 2>>, Z |-> <<"B", 4>>]
ControlBit == [reset |-> <<"C", 0>>, hold |-> <<"C", 1>>, start |-> <<"C", 2>>]
StepperDisableBit == <<"B", 0>>
SpindleDirectionBit == <<"B", 5>>
CoolantFloodBit == <<"C", 3>>
ProbeBit == <<"C", 5>>

(* The get_..._pin_mask functions of settings.c, over a set of axes. *)
Mask(bits, indices) == {bits[i] : i \in indices}
Buttons == DOMAIN ControlBit
LIMIT_MASK == Mask(LimitBit, Axes)
CONTROL_MASK == Mask(ControlBit, Buttons)
STEP_MASK == Mask(StepBit, Axes)
DIRECTION_MASK == Mask(DirectionBit, Axes)

(* $2 and $3 are bit masks, $30 is a number, and the others are flags. *)
TypedSettings == ({"step", "dir"} \X SUBSET Axes)
                 \cup ({"enable", "limits", "probe", "hard"} \X BOOLEAN)
                 \cup ({"rpm"} \X Nat)

ASSUME PinsAssumption ==
  /\ Wired \subseteq LIMIT_MASK \cup CONTROL_MASK \cup {ProbeBit}
  /\ Typed \subseteq TypedSettings
  /\ IdleLock \in BOOLEAN
  /\ MaxInputs \in Nat /\ MaxCommands \in Nat /\ MaxSegments \in Nat \ {0}

VARIABLES
  settings,      \* those about the pins
  derived,       \* step_port_invert_mask, dir_port_invert_mask,
                 \* probe_invert_mask, pwm_gradient
  latch,         \* the PORT registers: pins driven high or pulled up
  ground,        \* the input pins a switch connects to ground
  change,        \* PCICR, PCMSK and PCIFR: pin change interrupts
  pwm,           \* SPINDLE_COMB_BIT: the timer drives the PWM pin
  timers,        \* of stepper.c: the interrupts, the segments, step_outbits
  probing,       \* sys_probe_state
  flags, alarm,  \* sys_rt_exec_state, sys_rt_exec_alarm
  mode,          \* sys.state
  at,            \* where the main program is
  heard,         \* history: the pressed buttons that were acted on
  count          \* bounds

ports == <<latch, pwm>>
exec == <<flags, alarm>>
bounds == <<heard, count>>
pinsVars == <<settings, derived, ports, ground, change, timers, probing, exec,
              mode, at, bounds>>

DefaultPins == [step |-> {}, dir |-> {}, enable |-> FALSE, limits |-> FALSE,
                probe |-> FALSE, hard |-> FALSE, rpm |-> 1000]

(* An input pin is high when its pull-up is on and nothing grounds it. *)
High(mask) == (mask \cap latch) \ ground

(* Sets a pin or a mask of pins in a port, and leaves the others. *)
Write(port, mask, value) == (port \ mask) \cup value

-----------------------------------------------------------------------------
(* What is derived from the settings. *)
StepDirMasks(d, s) == [d EXCEPT !.step = Mask(StepBit, s.step),
                                !.dir = Mask(DirectionBit, s.dir)]
ProbeMask(s, away) == IF s.probe = away THEN {ProbeBit} ELSE {}
ConfigureProbe(d, s, away) == [d EXCEPT !.probe = ProbeMask(s, away)]
Gradient(d, s) == [d EXCEPT !.gradient = s.rpm]

(* limits_init, limits_disable: the interrupt of the limit pins. *)
Armed(c) == [c EXCEPT !.on = @ \cup {"limits"}, !.mask = @ \cup LIMIT_MASK]
Disarmed(c) == [c EXCEPT !.on = @ \ {"limits"}, !.mask = @ \ LIMIT_MASK]
LimitsInit(c, s) == IF s.hard THEN Armed(c) ELSE Disarmed(c)

(* The PWM pin and the flood pin are low when off. *)
SPINDLE_PWM_OFF_VALUE == 0
SPINDLE_PWM_MIN_VALUE == 7
PwmValues == {SPINDLE_PWM_OFF_VALUE, SPINDLE_PWM_MIN_VALUE}
spindle_stop == FALSE
spindle_set_speed(pwm_value) == pwm_value # SPINDLE_PWM_OFF_VALUE
coolant_stop(port) == port \ {CoolantFloodBit}

(* The drivers are enabled by a low pin, or by a high one if inverted. *)
Driven(port, s, on) == IF on = s.enable THEN port \cup {StepperDisableBit}
                                         ELSE port \ {StepperDisableBit}

(* st_go_idle, with the alarm and the state it is called in. *)
GoIdle(port, s, alarmed, m) ==
  Driven(port, s, ~((IdleLock \/ alarmed) /\ m # "HOMING"))

(* st_reset ends with the idle levels of the step and direction pins. *)
StReset(port, s, d, m) ==
  Write(GoIdle(port, s, FALSE, m), STEP_MASK \cup DIRECTION_MASK,
        d.step \cup d.dir)
IdleTimers == [on |-> FALSE, pulse |-> FALSE, inside |-> FALSE,
               segments |-> 0, out |-> {}]

(* Readings: what is triggered. *)
limits_get_state ==
  {a \in Axes : (LimitBit[a] \in High(LIMIT_MASK)) = settings.limits}
ControlStateMutant ==
  {b \in {"reset", "start"} : ControlBit[b] \notin High(CONTROL_MASK)}
system_control_get_state ==
  IF High(CONTROL_MASK) = {} THEN {}
  ELSE {b \in Buttons : ControlBit[b] \notin High(CONTROL_MASK)}
ProbeTriggered(d) == (High({ProbeBit}) = {}) = (d.probe # {})
spindle_get_state == IF ~pwm THEN "DISABLE"
                     ELSE IF SpindleDirectionBit \in latch THEN "CCW" ELSE "CW"
coolant_get_state ==
  IF CoolantFloodBit \in latch THEN "FLOOD" ELSE "DISABLE"

(* Every input has its pull-up on, and the buttons' interrupt is armed. *)
ProbePullUp == {ProbeBit}
PullUps == CONTROL_MASK \cup LIMIT_MASK \cup ProbePullUp
system_init == [on |-> {"control"}, mask |-> CONTROL_MASK, due |-> {}]

PinsInit ==
  LET d == [step |-> {}, dir |-> {}, probe |-> {ProbeBit}, gradient |-> 1000]
  IN /\ settings = DefaultPins /\ derived = d
     /\ latch = StReset(PullUps, DefaultPins, d, "IDLE")
     /\ pwm = spindle_stop
     /\ ground = {}
     /\ change = system_init
     /\ timers = IdleTimers /\ probing = FALSE
     /\ flags = {} /\ alarm = "none" /\ mode = "IDLE" /\ at = "loop"
     /\ heard = {} /\ count = [inputs |-> 0, commands |-> 0]

-----------------------------------------------------------------------------
(* What a switch does, and what an interrupt of the main program may be. *)
Counted(what) == count' = [count EXCEPT ![what] = @ + 1]

SourceOf(p) == IF p \in LIMIT_MASK THEN "limits" ELSE "control"

PinChanges(p) ==
  /\ count.inputs < MaxInputs /\ Counted("inputs")
  /\ ground' = IF p \in ground THEN ground \ {p} ELSE ground \cup {p}
  /\ change' = [change EXCEPT !.due = @ \cup {SourceOf(q) :
                                                q \in {p} \cap change.mask}]
  /\ heard' = {b \in heard : ControlBit[b] # p}
  /\ UNCHANGED <<settings, derived, ports, timers, probing, exec, mode, at>>

DueNow == change.due \cap change.on
Taken(source) == change' = [change EXCEPT !.due = @ \ {source}]

(* The main program goes on when no interrupt is due. *)
MainAt(place) == at = place /\ ~timers.inside /\ DueNow = {}

(* mc_reset: only the first call does anything; the motors are stopped when
   they may be moving. *)
First == "RESET" \notin flags
Killing == First /\ mode \in {"CYCLE", "HOMING"}

mc_reset(code) ==
  /\ flags' = flags \cup {"RESET"}
  /\ alarm' = CASE code # "none" -> code
                [] code = "none" /\ Killing -> "abort"
                [] OTHER -> alarm
  /\ pwm' = IF First THEN spindle_stop ELSE pwm
  /\ latch' = CASE Killing -> GoIdle(coolant_stop(latch), settings, TRUE, mode)
                [] First /\ ~Killing -> coolant_stop(latch)
                [] OTHER -> latch
  /\ timers' = IF Killing THEN [timers EXCEPT !.on = FALSE] ELSE timers

LimitISR ==
  /\ "limits" \in DueNow /\ Taken("limits")
  /\ IF mode # "ALARM" /\ alarm = "none" THEN mc_reset("hard")
     ELSE UNCHANGED <<exec, ports, timers>>
  /\ UNCHANGED <<settings, derived, ground, probing, mode, at, bounds>>

(* Of the buttons that are pressed one is acted on: a reset before a start,
   and a start before a hold. *)
ControlISR ==
  LET pressed == system_control_get_state IN
  /\ "control" \in DueNow /\ Taken("control")
  /\ \/ /\ "reset" \in pressed
        /\ mc_reset("none") /\ heard' = heard \cup {"reset"}
     \/ /\ "start" \in pressed /\ "reset" \notin pressed
        /\ flags' = flags \cup {"CYCLE_START"} /\ heard' = heard \cup {"start"}
        /\ UNCHANGED <<alarm, ports, timers>>
     \/ /\ pressed = {"hold"}
        /\ flags' = flags \cup {"FEED_HOLD"} /\ heard' = heard \cup {"hold"}
        /\ UNCHANGED <<alarm, ports, timers>>
     \/ pressed = {} /\ UNCHANGED <<exec, ports, timers, heard>>
  /\ UNCHANGED <<settings, derived, ground, probing, mode, at, count>>

ResetChar ==
  /\ count.inputs < MaxInputs /\ Counted("inputs") /\ First
  /\ mc_reset("none")
  /\ UNCHANGED <<settings, derived, ground, change, probing, mode, at, heard>>

(* The stepper interrupt writes the pins of its previous call and then lets
   other interrupts in. *)
StepperISR ==
  /\ timers.on /\ ~timers.inside /\ ~timers.pulse /\ DueNow = {}
  /\ latch' = Write(latch, STEP_MASK \cup DIRECTION_MASK, timers.out)
  /\ timers' = [timers EXCEPT !.pulse = TRUE, !.inside = TRUE]
  /\ UNCHANGED <<settings, derived, pwm, ground, change, probing, exec, mode,
                 at, bounds>>

(* ISR(TIMER0_OVF) ends the pulse. *)
PulseEnds ==
  /\ timers.pulse
  /\ latch' = Write(latch, STEP_MASK, derived.step)
  /\ timers' = [timers EXCEPT !.pulse = FALSE]
  /\ UNCHANGED <<settings, derived, pwm, ground, change, probing, exec, mode,
                 at, bounds>>

(* The pins of the next step: pulses differ from the idle level. *)
Outbits(d, steps) == ((d.step \ steps) \cup (steps \ d.step)) \cup d.dir

probe_state_monitor ==
  IF probing /\ ProbeTriggered(derived)
  THEN probing' = FALSE /\ flags' = flags \cup {"MOTION_CANCEL"}
  ELSE UNCHANGED <<probing, flags>>

(* The PWM of a segment is off while laser mode does not draw. *)
LoadSegment ==
  /\ timers.inside /\ DueNow = {} /\ timers.segments > 0
  /\ \E spindle_pwm \in PwmValues :
       pwm' = spindle_set_speed(spindle_pwm)
  /\ timers' = [timers EXCEPT !.inside = FALSE, !.segments = @ - 1,
                              !.out = Outbits(derived, {StepBit["X"]})]
  /\ probe_state_monitor
  /\ UNCHANGED <<settings, derived, latch, ground, change, alarm, mode, at,
                 bounds>>

NoSegment ==
  /\ timers.inside /\ DueNow = {} /\ timers.segments = 0
  /\ latch' = GoIdle(latch, settings, alarm # "none", mode)
  /\ pwm' \in {pwm, spindle_set_speed(SPINDLE_PWM_OFF_VALUE)}
  /\ timers' = [timers EXCEPT !.inside = FALSE, !.on = FALSE]
  /\ flags' = flags \cup {"CYCLE_STOP"}
  /\ UNCHANGED <<settings, derived, ground, change, probing, alarm, mode, at,
                 bounds>>

-----------------------------------------------------------------------------
(* The commands of the main program that are about pins.  It looks for a reset
   or an alarm before each line. *)
Command(states) ==
  /\ MainAt("loop") /\ mode \in states
  /\ "RESET" \notin flags /\ alarm = "none"
  /\ count.commands < MaxCommands /\ Counted("commands")

(* settings_store_global_setting. *)
DerivedAnew(field, s) ==
  CASE field \in {"step", "dir"} -> StepDirMasks(derived, s)
    [] field = "probe" -> ConfigureProbe(derived, s, FALSE)
    [] field = "rpm" -> Gradient(derived, s)
    [] OTHER -> derived

TypeSetting(t) ==
  LET s == [settings EXCEPT ![t[1]] = t[2]] IN
  /\ Command({"IDLE", "ALARM"})
  /\ settings' = s
  /\ derived' = DerivedAnew(t[1], s)
  /\ change' = IF t[1] = "hard" THEN LimitsInit(change, s) ELSE change
  /\ pwm' = IF t[1] = "rpm" THEN spindle_stop ELSE pwm
  /\ UNCHANGED <<latch, ground, timers, probing, exec, mode, at, heard>>

(* $RST=$ writes all settings at once, and resets for the rest. *)
RestoreDefaults ==
  /\ Command({"IDLE", "ALARM"})
  /\ settings' = DefaultPins
  /\ mc_reset("none")
  /\ UNCHANGED <<derived, ground, change, probing, mode, at, heard>>

(* spindle_set_state and coolant_set_state, which look for an abort first. *)
SetOutput ==
  /\ Command({"IDLE"}) /\ at' \in {"spindle", "coolant"}
  /\ UNCHANGED <<settings, derived, ports, ground, change, timers, probing,
                 exec, mode, heard>>

SetSpindle ==
  /\ MainAt("spindle") /\ at' = "loop"
  /\ \E value \in PwmValues : pwm' = spindle_set_speed(value)
  /\ latch' \in {latch \cup {SpindleDirectionBit},
                 latch \ {SpindleDirectionBit}}
  /\ UNCHANGED <<settings, derived, ground, change, timers, probing, exec,
                 mode, bounds>>

SetCoolant ==
  /\ MainAt("coolant") /\ at' = "loop"
  /\ latch' \in {latch \cup {CoolantFloodBit}, coolant_stop(latch)}
  /\ UNCHANGED <<settings, derived, pwm, ground, change, timers, probing, exec,
                 mode, bounds>>

(* st_wake_up, with the motion that some number of segments makes. *)
WakeUp ==
  /\ latch' = Driven(latch, settings, TRUE)
  /\ \E n \in 1 .. MaxSegments :
       timers' = [timers EXCEPT !.on = TRUE, !.segments = n,
                    !.out = (@ \cap DIRECTION_MASK) \cup derived.step]

StartMotion ==
  /\ Command({"IDLE"}) /\ mode' = "CYCLE" /\ WakeUp
  /\ UNCHANGED <<settings, derived, pwm, ground, change, probing, exec, at,
                 heard>>

(* st_reset, which a homing cycle and a probing cycle end with. *)
ResetSteppers(d, m) ==
  /\ latch' = StReset(latch, settings, d, m)
  /\ timers' = [IdleTimers EXCEPT !.pulse = timers.pulse, !.out = d.dir]

(* mc_homing_cycle with the limit interrupt off; what is searched for, and how
   a search fails, is in module Homing. *)
Home ==
  /\ Command({"IDLE", "ALARM"}) /\ mode' = "HOMING" /\ at' = "home"
  /\ change' = Disarmed(change)
  /\ WakeUp
  /\ UNCHANGED <<settings, derived, pwm, ground, probing, exec, heard>>

HomeFails ==
  /\ MainAt("home") /\ First
  /\ mc_reset("homing")
  /\ UNCHANGED <<settings, derived, ground, change, probing, mode, at, bounds>>

ArmedAgainMutant(c, s) == c
ArmedAgain(c, s) == LimitsInit(c, s)

HomeEnds ==
  /\ MainAt("home") /\ First /\ alarm = "none"
  /\ change' = ArmedAgain(change, settings)
  /\ mode' = "IDLE" /\ at' = "loop"
  /\ ResetSteppers(derived, "IDLE")
  /\ flags' = flags \ {"CYCLE_STOP"}
  /\ UNCHANGED <<settings, derived, pwm, ground, probing, alarm, bounds>>

(* mc_probe_cycle, toward the workpiece or away from it. *)
ProbeStart(away) ==
  LET d == ConfigureProbe(derived, settings, away) IN
  /\ Command({"IDLE"})
  /\ derived' = d
  /\ IF ProbeTriggered(d)
     THEN /\ alarm' = "probe" /\ at' = "probe_fail"
          /\ UNCHANGED <<latch, timers, probing, mode>>
     ELSE /\ mode' = "CYCLE" /\ probing' = TRUE /\ at' = "probe" /\ WakeUp
          /\ UNCHANGED alarm
  /\ UNCHANGED <<settings, pwm, ground, change, flags, heard>>

ProbeFails ==
  /\ MainAt("probe_fail") /\ alarm = "none" /\ at' = "loop"
  /\ derived' = ConfigureProbe(derived, settings, FALSE)
  /\ UNCHANGED <<settings, ports, ground, change, timers, probing, exec, mode,
                 bounds>>

(* A motion that ends without contact is an alarm, but for G38.3 and G38.5. *)
ProbeEnds ==
  /\ MainAt("probe") /\ mode = "IDLE" /\ at' = "probe_end"
  /\ alarm' \in {alarm} \cup (IF probing THEN {"probe"} ELSE {})
  /\ probing' = FALSE
  /\ derived' = ConfigureProbe(derived, settings, FALSE)
  /\ UNCHANGED <<settings, ports, ground, change, timers, flags, mode, bounds>>

ProbeReset ==
  /\ MainAt("probe_end") /\ alarm = "none" /\ at' = "loop"
  /\ ResetSteppers(derived, mode)
  /\ UNCHANGED <<settings, derived, pwm, ground, change, probing, exec, mode,
                 bounds>>

(* protocol_exec_rt_system, at the places that call it. *)
Executes == \E place \in {"loop", "home", "probe", "probe_fail", "probe_end"} :
              MainAt(place)

(* After a hard limit everything waits for a reset that comes later. *)
ExecAlarm ==
  /\ Executes /\ alarm # "none"
  /\ mode' = "ALARM"
  /\ IF alarm = "hard"
     THEN flags' = flags \ {"RESET"} /\ at' = "locked" /\ UNCHANGED alarm
     ELSE alarm' = "none" /\ UNCHANGED <<flags, at>>
  /\ UNCHANGED <<settings, derived, ports, ground, change, timers, probing,
                 bounds>>

LeaveLocked ==
  /\ MainAt("locked") /\ ~First
  /\ alarm' = "none" /\ at' = "abort"
  /\ UNCHANGED <<settings, derived, ports, ground, change, timers, probing,
                 flags, mode, bounds>>

ExecAbort ==
  /\ Executes /\ alarm = "none" /\ ~First /\ at' = "abort"
  /\ UNCHANGED <<settings, derived, ports, ground, change, timers, probing,
                 exec, mode, bounds>>

(* A canceled motion slows down and ends. *)
ExecFlags ==
  /\ Executes /\ alarm = "none" /\ First /\ flags # {} /\ flags' = {}
  /\ mode' = IF "CYCLE_STOP" \in flags /\ mode = "CYCLE" THEN "IDLE" ELSE mode
  /\ timers' = IF "MOTION_CANCEL" \in flags
               THEN [timers EXCEPT !.segments = 0] ELSE timers
  /\ UNCHANGED <<settings, derived, ports, ground, change, probing, alarm, at,
                 bounds>>

(* main after an abort, up to the check of the limits before the loop. *)
Reinit ==
  LET d == [step |-> Mask(StepBit, settings.step),
            dir |-> Mask(DirectionBit, settings.dir),
            probe |-> ProbeMask(settings, FALSE), gradient |-> settings.rpm]
  IN /\ MainAt("abort") /\ at' = "loop"
     /\ flags' = {} /\ alarm' = "none" /\ probing' = FALSE
     /\ pwm' = spindle_stop /\ derived' = d
     /\ change' = LimitsInit(change, settings)
     /\ latch' = StReset(coolant_stop(latch), settings, d, mode)
     /\ timers' = [IdleTimers EXCEPT !.pulse = timers.pulse, !.out = d.dir]
     /\ mode' = IF mode = "ALARM" \/ (settings.hard /\ limits_get_state # {})
                THEN "ALARM" ELSE "IDLE"
     /\ UNCHANGED <<settings, ground, bounds>>

Unlock ==
  /\ Command({"ALARM"}) /\ mode' = "IDLE"
  /\ UNCHANGED <<settings, derived, ports, ground, change, timers, probing,
                 exec, at, heard>>

Interrupts == LimitISR \/ ControlISR \/ ResetChar \/ StepperISR \/ PulseEnds
              \/ LoadSegment \/ NoSegment

Commands == \/ \E t \in Typed : TypeSetting(t)
            \/ \E away \in BOOLEAN : ProbeStart(away)
            \/ RestoreDefaults \/ SetOutput \/ StartMotion \/ Home \/ Unlock

MainSteps == \/ SetSpindle \/ SetCoolant \/ HomeFails \/ HomeEnds \/ ProbeFails
             \/ ProbeEnds \/ ProbeReset \/ ExecAlarm \/ LeaveLocked
             \/ ExecAbort \/ ExecFlags \/ Reinit

PinsNext == (\E p \in Wired : PinChanges(p))
            \/ Interrupts \/ Commands \/ MainSteps

PinsSpec == PinsInit /\ [][PinsNext]_pinsVars

-----------------------------------------------------------------------------
(* What the code keeps in the form it uses is what the settings say, and the
   limit interrupt is on if and only if the settings ask for it: through
   settings that are typed, restored or kept, homing cycles, probing cycles
   either way, and aborts out of any of them.  While a reset is pending, or
   the limits are homed, or the probe is watched, it need not be. *)
CachesFollow ==
  First /\ at \notin {"locked", "abort"} =>
    /\ derived.step = Mask(StepBit, settings.step)
    /\ derived.dir = Mask(DirectionBit, settings.dir)
    /\ derived.gradient = settings.rpm
    /\ at # "home" => /\ ("limits" \in change.on) = settings.hard
                      /\ (LIMIT_MASK \subseteq change.mask) = settings.hard
    /\ at \notin {"probe", "probe_fail"} =>
         derived.probe = ProbeMask(settings, FALSE)

(* Once its interrupt has run, a pressed button has been acted on, or gave way
   to one that goes before it, or all of them are pressed: then the code reads
   the same as if none was. *)
Before(b) == CASE b = "reset" -> {}
               [] b = "start" -> {"reset"}
               [] b = "hold" -> {"reset", "start"}
ButtonsHeard ==
  "control" \notin change.due =>
    \A b \in Buttons : ControlBit[b] \in ground =>
      \/ b \in heard
      \/ \E other \in Before(b) : ControlBit[other] \in ground
      \/ CONTROL_MASK \subseteq ground

(* settings.md says that a hard limit shuts down the coolant and the spindle.
   The limit interrupt may come between the stepper interrupt's load of a
   segment and its write of that segment's PWM, or between the test of a
   command for an abort and its writes: these switch them on again, and the
   main program waits for a reset with the spindle or the coolant on. *)
KilledStaysOff ==
  at = "locked" =>
    spindle_get_state = "DISABLE" /\ coolant_get_state = "DISABLE"
=============================================================================

------------------------------- MODULE GCode -------------------------------
(***************************************************************************)
(* The g-code parser at work: step 4 of gc_execute_line (grbl/gcode.c)     *)
(* with the motion control, spindle, coolant, probe and jog functions it   *)
(* calls.  The handler of a line is one thread that stops wherever it      *)
(* waits for the planner queue to drain; the machine moves, and the host   *)
(* sends realtime characters, while it waits.  todo is what is left of it: *)
(* the numbered sections of step 4 that have something to do, in order.    *)
(*                                                                         *)
(* The deployed configuration: three axes, laser mode ($32=1) with a servo *)
(* on the spindle output, no homing, no limits, no parking, and a planner  *)
(* queue that syncs for each change of the work coordinates.  Module       *)
(* Realtime has the machine's states in detail, module Planner the queue.  *)
(***************************************************************************)
EXTENDS GCodeBlock, SequencesExt

CONSTANTS Lines,                    \* bound: the lines the host may send
          MaxLines,                 \* bound: how many it sends
          MaxCoord,                 \* bound: machine positions, either way
          BlockBuffer,              \* BLOCK_BUFFER_SIZE - 1
          RpmMin, RpmMax,           \* settings $31 and $30
          PwmMin, PwmMax            \* SPINDLE_PWM_MIN_VALUE, .._MAX_VALUE

ASSUME GCodeAssumption ==
  /\ MaxLines \in Nat /\ MaxCoord \in Nat /\ BlockBuffer \in Nat \ {0}
  /\ RpmMin \in Nat /\ RpmMax \in Nat
  /\ PwmMin \in 1..255 /\ PwmMax \in PwmMin..255
  /\ InchFactor \in Nat
  /\ \A l \in Lines : /\ l.jog \in BOOLEAN
                      /\ \A w \in DOMAIN l.val : l.val[w] \in Int

VARIABLES
  gc,        \* gc_state
  b,         \* gc_block, the line in execution (NoBlock between two lines)
  todo,      \* the sections of it still to be executed
  path,      \* the points it still has to hand to mc_line
  queue,     \* the planner's blocks
  pos,       \* sys_position
  pwm,       \* the spindle output: the height of the pen
  flood,     \* the coolant output
  state,     \* sys.state
  abort,     \* a reset has been noticed
  stored,    \* the coordinate records in EEPROM, the valid ones
  n,         \* lines received
  lost       \* history: what the last jog cancel made the parser lose

handler == <<b, todo, path, n>>
machine == <<queue, pos, state>>
vars == <<gc, b, todo, path, queue, pos, pwm, flood, state, abort, stored, n,
          lost>>

Records == CoordSelects \cup {"G28", "G30"}
Cutting == {"G1", "G2", "G3"}
NoBlock == [command |-> "none"]

(* spindle_compute_pwm_value *)
Pwm(rpm) ==
  CASE RpmMin >= RpmMax \/ rpm >= RpmMax -> PwmMax
    [] RpmMin < RpmMax /\ rpm <= RpmMin -> IF rpm = 0 THEN 0 ELSE PwmMin
    [] OTHER -> ((rpm - RpmMin) * (PwmMax - PwmMin)) \div (RpmMax - RpmMin)
                  + PwmMin

(* spindle_set_state: M5 sends the servo to its rest position, M4 in laser
   mode waits for a motion; nothing while a reset is pending. *)
Rest == Pwm(PwmMin)
SpindleSet(mode, rpm) ==
  CASE abort -> pwm
    [] ~abort /\ mode = "M5" -> Rest
    [] ~abort /\ mode = "M4" -> Pwm(0)
    [] ~abort /\ mode = "M3" -> Pwm(rpm)

(* gc_init and gc_sync_position *)
InitialModes(store, at) ==
  [motion |-> "G0", plane |-> "G17", distance |-> "G90", feedMode |-> "G94",
   units |-> "G21", coord |-> "G54", tool |-> "G49", spindle |-> "M5",
   coolant |-> "M9", feed |-> 0, speed |-> 0, position |-> at,
   coordSystem |-> store["G54"], coordOffset |-> Zero, toolOffset |-> 0]

(* A power loss may have torn any one record but the one gc_init repairs. *)
Init == /\ \E torn \in {"none"} \cup (Records \ {"G54"}) :
             stored = [r \in Records \ {torn} |-> Zero]
        /\ gc = InitialModes(stored, Zero)
        /\ b = NoBlock
        /\ todo = <<>>
        /\ path = <<>>
        /\ queue = <<>>
        /\ pos = Zero
        /\ pwm = 0
        /\ flood = FALSE
        /\ state = "IDLE"
        /\ abort = FALSE
        /\ n = 0
        /\ lost = {}

-----------------------------------------------------------------------------
(* The end of step 3: the line, evaluated in the state it arrives in. *)
Evaluated(l) ==
  LET motion == Motion(gc, l)
      isMotion == AxisWords(l) # {} /\ AxisCommand(gc, l) = "motion"
  IN [jog |-> l.jog,
      motion |-> motion,
      spindle |-> Mode(l, Spindles, gc.spindle),
      coolant |-> Mode(l, Coolants, gc.coolant),
      tool |-> Tool(gc, l),
      toolOffset |-> IF Tool(gc, l) = "G49" THEN 0
                     ELSE Value(l, "Z") * Scale(gc, l),
      coord |-> CoordSelect(gc, l),
      coordSystem |-> BlockSystem(gc, stored, l),
      command |-> Command(l),
      axis |-> AxisCommand(gc, l),
      named |-> [a \in AxisWords(l) |-> l.val[a] * Scale(gc, l)],  \* history
      L |-> Value(l, "L"),
      flow |-> Mode(l, Flows, "none"),
      s |-> Speed(gc, l),
      record |-> IF Command(l) = "G10" THEN G10Record(gc, l) ELSE "none",
      data |-> CASE Command(l) = "G10" -> G10Data(gc, stored, l)
                 [] Command(l) = "G92" -> G92Offset(gc, stored, l)
                 [] Command(l) \in {"G28", "G30"} ->
                      HomePosition(gc, stored, l)
                 [] OTHER -> Target(gc, stored, l),
      path |-> IF Arc(gc, l) /\ isMotion THEN ArcPath(gc, stored, l)
               ELSE <<Target(gc, stored, l)>>,
      isMotion |-> isMotion,
      laserDisable |-> motion \notin Cutting,
      forceSync |-> /\ ~isMotion
                    /\ gc.spindle = "M3"
                    /\ (gc.motion \in Cutting) # (motion \in Cutting)]

Applies(x, s) ==
  CASE s = "speed" -> gc.speed # x.s \/ x.forceSync
    [] s = "spindle" -> gc.spindle # x.spindle
    [] s = "coolant" -> gc.coolant # x.coolant
    [] s = "dwell" -> x.command = "G4"
    [] s = "tool" -> x.axis = "tool_length"
    [] s = "coord" -> gc.coord # x.coord
    [] s = "command" -> x.command \notin {"none", "G4", "G53"}
    [] s = "motion" -> x.motion # "G80" /\ x.axis = "motion"
    [] s = "flow" -> x.flow \in {"M0", "M2", "M30"}

(* The sections of step 4 that do more than update a mode. *)
Only(x, s) == IF Applies(x, s) THEN <<s>> ELSE <<>>
Sections(x) ==
  Only(x, "speed") \o Only(x, "spindle") \o Only(x, "coolant")
    \o Only(x, "dwell") \o Only(x, "tool") \o Only(x, "coord")
    \o Only(x, "command") \o Only(x, "motion") \o Only(x, "flow")

Grid == [Axes -> -MaxCoord .. MaxCoord]

(* Inputs: points on the grid, centres of R arcs on the grid. *)
InGrid(l) ==
  /\ Target(gc, stored, l) \in Grid
  /\ Command(l) = "G10" => G10Data(gc, stored, l) \in Grid
  /\ Arc(gc, l) /\ Claim(l) = "motion" =>
       /\ "R" \in Words(l) => RadiusRoot(gc, stored, l) # {}
       /\ Range(ArcPath(gc, stored, l)) \subseteq Grid

(* protocol_main_loop and system_execute_line: which lines run in a state. *)
Allowed(l) == IF l.jog THEN state \in {"IDLE", "JOG"}
                       ELSE state \notin {"ALARM", "JOG"}

Ready(l) == todo = <<>> /\ ~abort /\ n < MaxLines /\ Allowed(l)

(* gc_execute_line of a line with no error.  The modes nobody reads while the
   handler waits are updated here, not in their section. *)
Accept(l) ==
  /\ Ready(l)
  /\ ~WordErrors(l)
  /\ Reads(gc, l) \subseteq DOMAIN stored
  /\ ~Rejected(gc, stored, l)
  /\ InGrid(l)
  /\ n' = n + 1
  /\ b' = Evaluated(l)
  /\ IF l.jog
     THEN /\ todo' = <<"jog">>
          /\ path' = b'.path
          /\ UNCHANGED gc
     ELSE /\ todo' = Sections(b')
          /\ path' = <<>>
          /\ gc' = [gc EXCEPT !.feedMode = FeedMode(gc, l),
                              !.feed = Feed(gc, l),
                              !.plane = Mode(l, Planes, gc.plane),
                              !.units = Units(gc, l),
                              !.distance = Distance(gc, l),
                              !.tool = Tool(gc, l),
                              !.motion = Motion(gc, l)]
  /\ UNCHANGED <<machine, pwm, flood, abort, stored>>

Write(r, v) ==
  [s \in DOMAIN stored \cup {r} |-> IF s = r THEN v ELSE stored[s]]

(* A line that reads a torn record: settings_read_coord_data replaces the
   record by zeros and the line is an error. *)
ReadFails(l) ==
  /\ Ready(l)
  /\ ~WordErrors(l) /\ ~CommandErrors(gc, l)
  /\ \E r \in Reads(gc, l) \ DOMAIN stored : stored' = Write(r, Zero)
  /\ n' = n + 1
  /\ UNCHANGED <<gc, b, todo, path, machine, pwm, flood, abort>>

(* $#, in IDLE and ALARM: the listing reads every record, and ends with an
   error at one that is torn, which by then reads as zeros.  *)
ViewParameters ==
  /\ todo = <<>> /\ ~abort /\ n < MaxLines
  /\ state \in {"IDLE", "ALARM"}
  /\ \E r \in Records \ DOMAIN stored : stored' = Write(r, Zero)
  /\ n' = n + 1
  /\ UNCHANGED <<gc, b, todo, path, machine, pwm, flood, abort>>

-----------------------------------------------------------------------------
(* The sections.  protocol_buffer_synchronize returns when the queue has been
   executed, or at once after a reset; the calls that do nothing in check mode
   do not get there. *)
Synced == abort \/ (queue = <<>> /\ state # "CYCLE")
CheckOrSynced == state = "CHECK" \/ Synced

At(s) == todo # <<>> /\ Head(todo) = s
Done == todo' = Tail(todo)
Then(s) == todo' = <<s>> \o Tail(todo)

(* [4] A new speed is shown at once if no motion of this line will; laser
   modes sync when the line changes to or from a cutting mode. *)
ShownSpeed == IF b.laserDisable THEN 0 ELSE b.s

SetSpeed ==
  /\ At("speed")
  /\ IF gc.spindle # "M5" /\ ~b.isMotion
     THEN /\ CheckOrSynced
          /\ pwm' = IF state = "CHECK" THEN pwm
                    ELSE SpindleSet(gc.spindle, ShownSpeed)
     ELSE UNCHANGED pwm
  /\ gc' = [gc EXCEPT !.speed = b.s]
  /\ Done
  /\ UNCHANGED <<b, path, n, machine, flood, abort, stored>>

(* [7] spindle_sync *)
SpindleControl ==
  /\ At("spindle")
  /\ CheckOrSynced
  /\ pwm' = IF state = "CHECK" THEN pwm ELSE SpindleSet(b.spindle, ShownSpeed)
  /\ gc' = [gc EXCEPT !.spindle = b.spindle]
  /\ Done
  /\ UNCHANGED <<b, path, n, machine, flood, abort, stored>>

(* [8] coolant_sync *)
CoolantControl ==
  /\ At("coolant")
  /\ CheckOrSynced
  /\ flood' = IF state = "CHECK" \/ abort THEN flood ELSE b.coolant = "M8"
  /\ gc' = [gc EXCEPT !.coolant = b.coolant]
  /\ Done
  /\ UNCHANGED <<b, path, n, machine, pwm, abort, stored>>

(* [10] mc_dwell, and the sync that ends a section: system_flag_wco_change. *)
Dwell == /\ \/ At("dwell") /\ CheckOrSynced
            \/ At("sync") /\ Synced
         /\ Done
         /\ UNCHANGED <<gc, b, path, n, machine, pwm, flood, abort, stored>>

(* [14] The offset is in force before the queue drains. *)
LengthOffset ==
  /\ At("tool")
  /\ IF gc.toolOffset # b.toolOffset THEN Then("sync") ELSE Done
  /\ gc' = [gc EXCEPT !.toolOffset = b.toolOffset]
  /\ UNCHANGED <<b, path, n, machine, pwm, flood, abort, stored>>

(* [15] *)
SelectSystem ==
  /\ At("coord")
  /\ gc' = [gc EXCEPT !.coord = b.coord, !.coordSystem = b.coordSystem]
  /\ Then("sync")
  /\ UNCHANGED <<b, path, n, machine, pwm, flood, abort, stored>>

(* [19] G10, G28.1, G30.1: settings_write_coord_data syncs and writes.  Both
   happen after a reset, too: the sync returns at once. *)
G10System == IF b.record = gc.coord THEN b.data ELSE gc.coordSystem

WriteRecord ==
  /\ At("command")
  /\ b.command \in {"G10", "G28.1", "G30.1"}
  /\ Synced
  /\ stored' = CASE b.command = "G10" -> Write(b.record, b.data)
                 [] b.command = "G28.1" -> Write("G28", gc.position)
                 [] OTHER -> Write("G30", gc.position)
  /\ IF b.command = "G10"
     THEN gc' = [gc EXCEPT !.coordSystem = G10System]
     ELSE UNCHANGED gc
  /\ Done
  /\ UNCHANGED <<b, path, n, machine, pwm, flood, abort>>

(* [19] G92, G92.1 *)
SetOffset ==
  /\ At("command")
  /\ b.command \in {"G92", "G92.1"}
  /\ gc' = [gc EXCEPT !.coordOffset = IF b.command = "G92" THEN b.data
                                      ELSE Zero]
  /\ Then("sync")
  /\ UNCHANGED <<b, path, n, machine, pwm, flood, abort, stored>>

(* [19] G28, G30: by way of the point named on the line, if one is. *)
GoHome ==
  /\ At("command")
  /\ b.command \in {"G28", "G30"}
  /\ path' = (IF b.axis = "none" THEN <<>> ELSE b.path) \o <<b.data>>
  /\ Then("line")
  /\ UNCHANGED <<gc, b, n, machine, pwm, flood, abort, stored>>

(* [20] Lines and arcs go to mc_line, probes to mc_probe_cycle. *)
StartMotion ==
  /\ At("motion")
  /\ IF b.motion \in {"G0"} \cup Cutting
     THEN path' = b.path /\ Then("line")
     ELSE Then("probe") /\ UNCHANGED path
  /\ UNCHANGED <<gc, b, n, machine, pwm, flood, abort, stored>>

-----------------------------------------------------------------------------
(* mc_line.  The planner drops a line of no length; a pen held by M3 is then
   set by spindle_sync, once the queue has drained. *)
PlannedEnd == IF queue = <<>> THEN pos ELSE Last(queue).to

WCO == [a \in Axes |-> gc.coordSystem[a] + gc.coordOffset[a]
                                         + ToolOffset(gc, a)]

LineSpeed == IF b.jog THEN gc.speed ELSE ShownSpeed

LineBlock == [to |-> Head(path), spindle |-> gc.spindle, s |-> LineSpeed,
              wco |-> WCO]    \* history: the offsets it was programmed with

Coincident == Head(path) = PlannedEnd

Full == Len(queue) = BlockBuffer

Line ==
  /\ At("line") \/ At("jog")
  /\ path # <<>>
  /\ path' = Tail(path)
  /\ CASE abort \/ state = "CHECK" -> UNCHANGED <<queue, todo>>
       [] ~abort /\ state # "CHECK" /\ Coincident ->
            /\ todo' = IF gc.spindle = "M3" THEN <<"drop">> \o todo ELSE todo
            /\ UNCHANGED queue
       [] OTHER -> /\ ~Full
                   /\ queue' = Append(queue, LineBlock)
                   /\ UNCHANGED todo
  /\ UNCHANGED <<gc, b, n, pos, pwm, state, flood, abort, stored>>

Dropped ==
  /\ At("drop")
  /\ Synced
  /\ pwm' = SpindleSet("M3", LineSpeed)
  /\ Done
  /\ UNCHANGED <<gc, b, path, n, machine, flood, abort, stored>>

(* The parser takes the last point as its position. *)
LinesDone ==
  /\ At("line")
  /\ path = <<>>
  /\ gc' = [gc EXCEPT !.position = IF b.command \in {"G28", "G30"} THEN b.data
                                   ELSE Last(b.path)]
  /\ Done
  /\ UNCHANGED <<b, path, n, machine, pwm, flood, abort, stored>>

(* jog_execute starts the motion by hand. *)
JogDone ==
  /\ At("jog")
  /\ path = <<>>
  /\ gc' = [gc EXCEPT !.position = Last(b.path)]
  /\ state' = IF state = "IDLE" /\ queue # <<>> THEN "JOG" ELSE state
  /\ Done
  /\ UNCHANGED <<b, path, n, queue, pos, pwm, flood, abort, stored>>

(* Where a probe leaves the parser: at its target, where the machine is, or
   where it was. *)
ProbedPosition(exit, machineAt) ==
  CASE exit = "found" -> machineAt
    [] exit \in {"end", "check"} -> Last(b.path)
    [] exit = "abort" -> gc.position

(* mc_probe_cycle: drain the queue, then either the probe is in contact
   already, which is an alarm, or the motion starts ... *)
ProbeStart ==
  /\ At("probe")
  /\ IF state = "CHECK" \/ abort
     THEN /\ gc' = [gc EXCEPT !.position =
                     ProbedPosition(IF abort THEN "abort" ELSE "check", pos)]
          /\ Done
          /\ UNCHANGED machine
     ELSE /\ Synced
          /\ UNCHANGED gc
          /\ \/ state' = "ALARM" /\ Done /\ UNCHANGED <<queue, pos>>
             \/ /\ state' = "CYCLE"
                /\ queue' = <<[to |-> Last(b.path), spindle |-> gc.spindle,
                               s |-> 0, wco |-> WCO]>>
                /\ Then("probing")
                /\ UNCHANGED pos
  /\ UNCHANGED <<b, path, n, pwm, flood, abort, stored>>

(* The points between two positions. *)
Between(p, q) ==
  {r \in Grid : \A a \in Axes : r[a] \in p[a]..q[a] \cup q[a]..p[a]}

(* ... and ends at the contact, where the parser takes the machine's position,
   or at the target, an alarm unless the command (G38.3, G38.5) allows it. *)
ProbeEnd ==
  /\ At("probing")
  /\ IF abort THEN UNCHANGED <<gc, machine, pwm>>
     ELSE /\ queue' = <<>>
          /\ pwm' = 0
          /\ \/ \E p \in Between(pos, Last(b.path)) :
                  /\ pos' = p
                  /\ gc' = [gc EXCEPT !.position = ProbedPosition("found", p)]
                  /\ state' = "IDLE"
             \/ /\ pos' = Last(b.path)
                /\ gc' = [gc EXCEPT !.position = ProbedPosition("end", pos)]
                /\ state' = IF b.motion \in {"G38.3", "G38.5"} THEN "IDLE"
                            ELSE "ALARM"
  /\ Done
  /\ UNCHANGED <<b, path, n, flood, abort, stored>>

-----------------------------------------------------------------------------
(* [21] M0: a feed hold with nothing to hold; in laser mode the pen goes to
   its rest position and stays there until the next motion. *)
Pause ==
  /\ At("flow") /\ b.flow = "M0"
  /\ Synced
  /\ IF state \in {"CHECK", "ALARM"} \/ abort
     THEN Done /\ UNCHANGED <<state, pwm>>
     ELSE /\ state' = "HOLD"
          /\ pwm' = IF gc.spindle = "M5" THEN pwm ELSE Rest
          /\ Then("paused")
  /\ UNCHANGED <<gc, b, path, n, queue, pos, flood, abort, stored>>

Resume ==
  /\ At("paused")
  /\ \/ abort /\ UNCHANGED state
     \/ ~abort /\ state' = "IDLE"
  /\ Done
  /\ UNCHANGED <<gc, b, path, n, queue, pos, pwm, flood, abort, stored>>

(* [21] M2, M30: some modes go back to their defaults; check mode reloads no
   offsets and leaves the outputs alone. *)
EndSystemMutant == gc.coordSystem
EndSystem == IF state = "CHECK" THEN gc.coordSystem ELSE stored["G54"]

ProgramEnd ==
  /\ At("flow") /\ b.flow \in {"M2", "M30"}
  /\ Synced
  /\ gc' = [gc EXCEPT !.motion = "G1", !.plane = "G17", !.distance = "G90",
                      !.feedMode = "G94", !.coord = "G54", !.spindle = "M5",
                      !.coolant = "M9", !.coordSystem = EndSystem]
  /\ IF state = "CHECK" THEN UNCHANGED <<pwm, flood>>
     ELSE /\ pwm' = SpindleSet("M5", 0)
          /\ flood' = (abort /\ flood)
  /\ Done
  /\ UNCHANGED <<b, path, n, machine, abort, stored>>

(* The main loop forgets the line. *)
NextLine == /\ todo = <<>> /\ b # NoBlock
            /\ b' = NoBlock
            /\ path' = <<>>
            /\ UNCHANGED <<gc, todo, n, machine, pwm, flood, abort, stored>>

-----------------------------------------------------------------------------
(* The machine.  A cycle starts by itself or by the host's '~', but not while
   the main program is busy starting a jog. *)
CycleStart == /\ state = "IDLE" /\ queue # <<>> /\ ~abort
              /\ ~(At("jog") /\ path = <<>>)
              /\ state' = "CYCLE"
              /\ UNCHANGED <<gc, handler, queue, pos, pwm, flood, abort,
                             stored>>

(* A block: st_prep_buffer gives the pen the block's speed.  The output of a
   block under M4 follows the speed of the motion, which ends at zero. *)
BlockPwmMutant(x) == Pwm(x.s)
BlockPwm(x) == IF x.spindle = "M5" THEN 0 ELSE Pwm(x.s)
FinalPwm(x) == IF x.spindle = "M4" THEN 0 ELSE BlockPwm(x)

RunBlock ==
  /\ state \in {"CYCLE", "JOG"} /\ queue # <<>> /\ ~abort
  /\ ~At("probing")
  /\ pos' = Head(queue).to
  /\ queue' = Tail(queue)
  /\ pwm' = IF queue' = <<>> THEN FinalPwm(Head(queue))
                             ELSE BlockPwm(Head(queue))
  /\ state' = IF queue' = <<>> THEN "IDLE" ELSE state
  /\ lost' = {}
  /\ UNCHANGED <<gc, handler, flood, abort, stored>>

(* The jog cancel character: stop where the machine is, forget the rest.  The
   main program does it where it checks for realtime commands, not between
   planning a jog and taking its target as the parser's position. *)
CancelPositionMutant(p) == gc.position
CancelPosition(p) == p

(* history: what the handler is then wrong about.  The speed, if it has taken
   one from a line whose motion is forgotten; the place, if it is waiting in a
   jog of no length and will go on to take its target as the position. *)
Unnoticed ==
  (IF \E i \in DOMAIN queue : queue[i].s # Head(queue).s THEN {"speed"} ELSE {})
  \cup (IF At("drop") THEN {"place"} ELSE {})

JogCancel ==
  /\ state = "JOG" /\ queue # <<>> /\ ~abort
  /\ ~(At("jog") /\ path = <<>>)
  /\ \E p \in Between(pos, Head(queue).to) :
       /\ pos' = p
       /\ gc' = [gc EXCEPT !.position = CancelPosition(p)]
  /\ pwm' = FinalPwm(Head(queue))
  /\ queue' = <<>>
  /\ state' = "IDLE"
  /\ lost' = Unnoticed
  /\ UNCHANGED <<handler, flood, abort, stored>>

(* mc_reset: the outputs off at once; an alarm if the machine was moving. *)
Reset ==
  /\ ~abort
  /\ abort' = TRUE
  /\ pwm' = 0
  /\ flood' = FALSE
  /\ IF state \in {"CYCLE", "JOG"}
     THEN /\ state' = "ALARM"
          /\ pos' \in IF queue = <<>> THEN {pos}
                      ELSE Between(pos, Head(queue).to)
     ELSE UNCHANGED <<state, pos>>
  /\ UNCHANGED <<gc, handler, queue, stored>>

(* The loop of main.c, once the handler has returned. *)
Reinit ==
  /\ abort /\ todo = <<>>
  /\ abort' = FALSE
  /\ gc' = InitialModes(stored, pos)
  /\ b' = NoBlock
  /\ path' = <<>>
  /\ queue' = <<>>
  /\ pwm' = 0
  /\ flood' = FALSE
  /\ state' = IF state = "ALARM" THEN "ALARM" ELSE "IDLE"
  /\ lost' = {}
  /\ UNCHANGED <<todo, n, pos, stored>>

(* '$X' and '$C' *)
Unlock == /\ todo = <<>> /\ ~abort /\ state = "ALARM"
          /\ state' = "IDLE"
          /\ UNCHANGED <<gc, handler, queue, pos, pwm, flood, abort, stored>>

CheckMode ==
  /\ todo = <<>> /\ ~abort
  /\ \/ /\ state = "IDLE"
        /\ state' = "CHECK"
        /\ UNCHANGED <<pwm, flood, abort>>
     \/ /\ state = "CHECK"
        /\ abort' = TRUE
        /\ pwm' = 0
        /\ flood' = FALSE
        /\ UNCHANGED state
  /\ UNCHANGED <<gc, handler, queue, pos, stored>>

Section == \/ SetSpeed \/ SpindleControl \/ CoolantControl \/ Dwell
           \/ LengthOffset \/ SelectSystem
           \/ WriteRecord \/ SetOffset \/ GoHome \/ StartMotion
           \/ Line \/ Dropped \/ LinesDone \/ JogDone \/ ProbeStart \/ ProbeEnd
           \/ Pause \/ Resume \/ ProgramEnd \/ NextLine

Machine == CycleStart \/ Reset \/ Unlock \/ CheckMode

Next == \/ /\ \/ \E l \in Lines : Accept(l) \/ ReadFails(l)
              \/ ViewParameters
              \/ Section
              \/ Machine
           /\ UNCHANGED lost
        \/ RunBlock \/ JogCancel \/ Reinit

Spec == Init /\ [][Next]_vars

-----------------------------------------------------------------------------
Offsets == [Axes -> Int]

TypeOK ==
  /\ gc.position \in Grid
  /\ gc.coordSystem \in Offsets /\ gc.coordOffset \in Offsets
  /\ gc.coord \in CoordSelects /\ gc.spindle \in Spindles
  /\ DOMAIN stored \subseteq Records
  /\ \A r \in DOMAIN stored : stored[r] \in Offsets
  /\ Len(queue) \in 0..BlockBuffer
  /\ \A i \in DOMAIN queue : queue[i].to \in Grid
  /\ pos \in Grid
  /\ pwm \in {0} \cup PwmMin..PwmMax
  /\ state \in {"IDLE", "CYCLE", "JOG", "HOLD", "ALARM", "CHECK"}
  /\ flood \in BOOLEAN /\ abort \in BOOLEAN

BetweenLines == todo = <<>> /\ ~abort

(* Between two lines the parser's position, from which the next target is
   computed, is where the machine will be once it has executed what is queued:
   after arcs, probes that stopped short, jogs that were cancelled and resets
   that lost a motion.  (Check mode moves the parser alone.)  The exception:
   a jog of no length that was waiting when the jog before it was cancelled. *)
ParserInSync ==
  BetweenLines /\ state # "CHECK" /\ "place" \notin lost =>
     gc.position = PlannedEnd

(* Between two lines the offsets in force are those of the stored record of
   the selected system, whichever of selecting it, changing it by G10, ending
   a program and resetting came last. *)
CoordSystemIsStored ==
  BetweenLines /\ state # "CHECK" =>
     gc.coord \in DOMAIN stored /\ gc.coordSystem = stored[gc.coord]

(* Standing still with an empty queue, the pen is not below its rest position
   unless M3 is in force, and in a cutting mode it is at the height of the last
   S word: no speed of an earlier line survives a change of mode, a line of no
   length, a probe, a program end or a reset.  The exception: when a jog cancel
   forgets a motion of another speed queued before the jog, the parser has
   taken that speed and the pen never does (until the next motion). *)
NoStalePower ==
  BetweenLines /\ queue = <<>> /\ state = "IDLE" /\ pwm > Rest =>
     /\ gc.spindle = "M3"
     /\ gc.motion \in Cutting /\ "speed" \notin lost => pwm = Pwm(gc.speed)

(* After G92 or a G10 L20 of the active system the current position reads as
   the values on the line, under every mix of the offsets in force. *)
Zeroes == \/ SetOffset /\ b.command = "G92"
          \/ WriteRecord /\ b.L = 20 /\ b.record = gc.coord

WPos == [a \in Axes |-> gc.position[a] - WCO[a]]

ZeroingWorks ==
  [][Zeroes => \A a \in DOMAIN b.named : WPos'[a] = b.named[a]]_vars
=============================================================================

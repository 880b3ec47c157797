# Specifications of TeleHandwriter

TeleHandwriter lets one person's handwriting appear on paper elsewhere. Pen
strokes drawn on a tablet go from one PC to another as OSC messages over UDP; the
receiving PC turns them into G-code and streams it over a serial line to an
Arduino running Grbl 1.1, which moves a coreXY plotter and, through the spindle's
PWM, the servo that lowers and raises the pen (`M3S...`).

This directory holds TLA+ specifications of the two programs, TLC configurations
that check them, and proofs checked by TLAPS.

Abbreviations for source directories:

| | |
|---|---|
| `host/` | `src/TH_DIS2018/src/` (Java, Processing) |
| `fw/` | `src/grbl1_1/grbl-master-coreXY-servo/grbl/` (C, AVR): the firmware that is deployed |
| `doc/` | `src/grbl1_1/grbl-master-coreXY-servo/doc/markdown/` |

The pristine tree `src/grbl1_1/grbl-master` differs from the deployed one only in
`config.h`, `cpu_map.h` and `spindle_control.c`. The firmware's settings on the
plotter are in `src/grbl1_1/settingLog.txt`: limits and homing are off (`$20`-`$23`
are 0), laser mode is on (`$32=1`).

## 1. Inventory

### Host

| part | state | operations | interacts with |
|---|---|---|---|
| `TabletInput` | two mode flags, stroke number, queue of events | `mouseEvent` (animation thread), mode keys | `OscComm` takes from its queue |
| `OscComm` | connection flag, one message object, calibration values in `Setting` | `streaming` (its own busy thread), `receive` (oscP5's thread), `tryToConnect` (key) | the peer over UDP; `Drawing` |
| `Drawing`, `Stroke` | list of strokes, each with points and a completion flag | `addStroke`, `addPoint` (receive thread), removal (interpreter thread) | |
| `Interpreter` | none of its own | `interpreting` (its own busy thread) | takes strokes, reserves G-code lines with `Grbl` |
| `Grbl` | reserved lines, lines without an answer, character count `bfrSize` | `streaming` (animation thread), `reserve` (interpreter, keys), `read`, `init` (serial thread) | `SerialComm` |
| `SerialComm` | port, connection flag, message under construction | `connecting` (animation thread), `read` (serial thread), `write` | the board; opening a port resets it |
| `TH_DIS2018` | the log table | set-up, keys, drawing on the screen, exit | starts all threads |

Five threads share these fields: Processing's animation thread (which also gets
mouse and key events), the OSC sender, the interpreter, oscP5's receiver and
jSSC's serial thread. There is no lock; a few lists are synchronized one call at a
time.

### Firmware

| part | state | operations | interacts with |
|---|---|---|---|
| `serial.c` | receive and transmit rings | `ISR(SERIAL_RX)`, `serial_read`, `serial_reset_read_buffer`; `serial_write`, `ISR(SERIAL_UDRE)` | realtime characters set flags in passing |
| `protocol.c`, `system.c` | flag words `sys_rt_exec_*`, `sys.state`, `sys.suspend`, `sys.step_control`, override percentages | main loop, `protocol_exec_rt_system`, suspend, synchronisation, `$` commands | all interrupts write the flag words |
| `motion_control.c`, `jog.c` | none of their own | `mc_line`, `mc_arc`, `mc_reset`, `mc_homing_cycle`, `mc_probe_cycle`, `jog_execute` | planner, stepper |
| `planner.c` | ring of blocks, `block_buffer_planned`, previous nominal speed | `plan_buffer_line`, `planner_recalculate`, discard, overrides | `stepper.c` executes the tail |
| `stepper.c` | segment ring, block data, `prep`, `st` | `st_prep_buffer` (main), `ISR(TIMER1)` | flags `CYCLE_STOP` |
| `limits.c` | none of its own | limit pin interrupt, homing, soft limits | `mc_reset` |
| `settings.c`, `eeprom.c` | settings, EEPROM | read, write with checksum | writes run with interrupts off |
| `gcode.c` | parser state | `gc_execute_line` | `mc_line`, `spindle_sync`, the EEPROM |
| `spindle_control.c`, `coolant_control.c` | the outputs | `..._sync`, `..._set_state` | wait for the motion to end |
| `report.c`, `print.c` | report counters in `sys` | status reports, listings | `serial_write` |
| others | | probe, helpers | |

### What is hard about it

- **Interleavings.** On the host, any two of five threads. In the firmware, every
  interrupt between any two reads or writes of the main program; the main program
  works on copies of volatile words and clears flags it has not looked at.
- **Waiting inside a handler.** A line of G-code waits for the machine in the middle
  of its sections; overrides, holds and resets are executed while it waits.
- **Copies.** The parser's position, the offsets, the settings, the block in execution
  exist two or three times, and each event changes some of the copies.
- **Protocols under failure.** UDP loses, doubles and reorders; opening the serial
  port restarts the board; the board restarts by itself; the power goes in the
  middle of an EEPROM record; limit switches break.
- **Incremental algorithms.** The planner repairs its plan from a pointer on, while
  the stepper executes and overrides change the limits.
- **Liveness.** A stroke without an end blocks all that follow; a lost cycle start
  leaves motion in the queue; a lost answer stalls the stream.

`PROJECT.json` lists the hazards line by line with the properties that watch them.

### What makes each part correct

- *Drawing and interpreter*: what is plotted is what was written, stroke by stroke;
  between strokes the pen is up; every stroke is plotted in the end.
- *Connection*: once nothing is under way both programs believe the same, a press of
  the key connects them, and the exchange of messages ends.
- *Streaming*: the count equals what the firmware has not answered for; its ring
  never overruns; each answer is charged to its line; every line is executed.
- *Serial rings*: they are bounded queues; a write to a full ring returns.
- *G-code parser*: its position, offsets and modes are those of the machine and of
  what is stored; axis words that set offsets set what they say; the pen's PWM
  belongs to the motion it was given with.
- *Planner*: no speed it cannot brake from, no jump, no more than a junction
  allows, and no slower than necessary.
- *Stepper*: every step lies on its block's line; no pulse is lost or doubled.
- *Realtime protocol*: the state says what the steppers do; a hold completes and only
  a `~` ends it; in alarm nothing moves; queued motion starts; the pen moves only
  when the line before it is drawn.
- *Homing*: a machine that comes out ready knows where it is.
- *Settings*: what was acknowledged is in force after the next power-up; a listing
  that was kept brings the settings back.
- *Overrides and reports*: a percentage goes where it was told to; the host learns of
  every change.
- *Messages*: each line is answered once, whatever else is printed.

## 2. Modules

| module | models | uses |
|---|---|---|
| `BoundedFifo` | abstract: a bounded queue that may refuse and be flushed | |
| `SerialRx` | the receive ring of `fw/serial.c`, access by access | implements `BoundedFifo` |
| `SerialTx` | the transmit ring, its interrupt and the UART | implements `BoundedFifo` |
| `OscLink` | `host/oscComm/OscComm.java`: two programs, three threads each, UDP | |
| `LinkProofs` | invariants and refinements of both rings, `Agreement` of the connection, and `CachesFollow` and `ButtonsHeard` of the pins, proved | |
| `CharCounting` | abstract: character counting, lines as numbers of characters | |
| `GrblStream` | `host/grbl/Grbl.java`, `host/grbl/SerialComm.java`, the link, the firmware's side | implements `CharCounting` |
| `GrblStreamProofs` | its invariant, `NoOverrun` and `AnswerIsForHead`, proved | |
| `StrokePipeline` | `TabletInput` to `Interpreter`, over UDP | |
| `HostProofs` | types, `CalibrationIsDeliberate` and the order (`DrawnInOrder`) of the strokes, `AnswersMatchLines` of the messages, `BackupRestores` of the `$` commands, and that `CharCounting` never overruns, proved | |
| `InkProofs` | `InkStaysInStrokes` of the strokes, proved on top of `HostProofs` | |
| `Planner` | `fw/planner.c` with the profile of `st_prep_buffer` | |
| `ControlProofs` | the invariants and action properties of `Planner` and `Overrides`, and the invariants of `Settings`, proved | |
| `Stepper` | `fw/stepper.c`: segments, block data, the interrupt, the pins | |
| `CoreXY` | pure: steps of the motors and of the axes (`fw/limits.c`, `fw/system.c`) | |
| `Homing` | `limits_go_home`, `mc_homing_cycle`, a CoreXY frame with its switches | `CoreXY` |
| `Positions` | the copies of the position: counted, planned, parsed, reported; soft limits | `CoreXY` |
| `MotionProofs` | the invariants of `Stepper`, `Positions` and `Homing`, `MotorsFollow`, `OnTheLine`, `PlaceIsKept` and `HomedUnlessMisled`, proved | |
| `Realtime` | `protocol_exec_rt_system`, its callers and the interrupts | |
| `RealtimeProofs` | its invariant, its safety properties and deliberate resumes, proved | |
| `GCodeBlock` | pure: what a line of G-code means in a parser state, and its errors | |
| `GCode` | `gc_execute_line` at work, with motion control, spindle, coolant, probe, jogs | `GCodeBlock` |
| `GCodeProofs` | its invariant, `ParserInSync`, `CoordSystemIsStored`, `NoStalePower` and `ZeroingWorks`, proved | |
| `Console` | `system_execute_line`, the listing `$$` and how it is read again | |
| `Settings` | `fw/settings.c` on `fw/eeprom.c`, byte by byte | |
| `Messages` | `fw/report.c` and who calls it; the host's counting of answers | |
| `Overrides` | override characters, coolant toggles, status reports | |
| `Pins` | `fw/cpu_map.h`: pins, pin change interrupts, what is derived from settings, outputs | |
| `MCLinks` | `SerialTx` (which extends `SerialRx`), `OscLink` and `MCPins` | |
| `MCMotion` | `Stepper`, `Homing` and `Positions` | |
| `MCControl` | `Planner`, `MCSettings` and `MCOverrides` | |
| `MCGCode` | `GCode`, `MCConsole` and `MCMessages` | |
| `MCGrblStream`, `MCSettings`, `MCOverrides`, `MCMessages`, `MCConsole`, `MCPins` | values for TLC | |

`MCLinks`, `MCMotion`, `MCControl` and `MCGCode` put parts side by side that share no
variable. In them **one part works while the others are as at the start**: each
disjunct of the next-state relation conjoins one part's steps with "the others are
unused". A behaviour of one part alone is what its properties speak about, so nothing
is lost, and the state spaces add up instead of multiplying.

Operators named `...Mutant` are slips a programmer could have made in the
definition that follows. They are used only to test that the properties would
notice: each property of a passing run is violated when one of the mutants listed
in `PROJECT.json` takes the place of its definition.

### SerialRx and SerialTx

State of the receive side: the ring and its two indices; `pc`, `idx`, `data` are the
main program's place and local copies. `ReceiveISR` is the interrupt in one step
(nothing preempts it). `serial_read` is three steps: copy the tail and compare
(`ReadTest`), fetch the byte (`ReadLoad`), store the tail (`ReadStore`); the flush is
two. The realtime characters the interrupt picks out of the stream are actions of
`Realtime`.

`serial_write` is cut the same way. The interrupt that empties the ring disables
itself, `serial_write` enables it after it has moved the head; the UART holds one byte
and shifts another. The module's comment names the timing it relies on: without it
the interrupt could be enabled on an empty ring. A reset ends a write that waits.

### OscLink

Each program's animation thread (keys, exit), oscP5 thread (`receive`) and sender
thread (pen data) compose their messages in the *one* object `msg`: clear, fill, send
are separate steps, so a thread may send what another one composed, or a mixture.
Datagrams are lost, doubled and overtaken; a program may end and start again.
`ordered` and `lastPress` remember whether anything went wrong since the last press.

### GrblStream

One action per access to a field of `Grbl` that both threads use: `bfrSize += n` is
`StreamLoad` and `StreamStore`, `bfrSize -= n` is `AckLoad` and `AckStore`,
`Grbl.init` three statements. A list that another thread has emptied makes `get(0)`
throw: that ends the animation thread (`anim = "dead"`) or makes Processing disable
the serial event (`srl = "disabled"`). Lines are numbers with a length, on the wire
that many bytes. Opening the port and spontaneous resets restart the firmware
(`fw = "off"`), whose boot flushes the ring and sends the welcome. A setting line
writes the EEPROM with interrupts off; bytes that arrive then may be lost.

History variables record what went wrong around the protocol: `torn` (an update of
the count inside another), `early` (a line on its way when the connection was set
up), `rebooted`, `deafened`. The properties say what holds in spite of, or without,
each of them, so that each property names exactly the accidents it cannot survive.

### StrokePipeline

Pen events in the modes of `TabletInput`, its queue, the network with faults, oscP5's
thread, and the interpreter. `addPoint` is three steps, between which the interpreter may
shorten the stroke or the list: the sizes of both lists are read (`ReadSizes`), the last
stroke and the time of its last point are looked up by them (`AddPointLoad`; a list that
was shortened since its size was read makes `get` throw, and the point is given up), and
the point is stored. `races` counts the points given up so, `faults` what the network did
and what the sender did: its one message object is also filled by oscP5's thread and by
the keys (`OscRace`; the race itself is in `OscLink`), so a datum may be lost, sent twice, or
sent with the flags of a mixed message (`mixed`). The clock starts with the first event.
Strokes are objects referred to by number, since the receive thread may hold one
that has left the list. Coordinates are the identities of events; only the clock
matters (points of one millisecond). Commands are `travel`, `line`, `down`, `up`; the
keys that reserve lines of their own (`KeyCommands`) put them between these, one line at a
time. `table` is the log the interpreter fills and `exit` saves.

### GCodeBlock and GCode

A line is the set of its commands and the values of its words. `GCodeBlock` has steps
1 to 3 of `gc_execute_line` as operators: which commands exclude each other, which
command claims the axis words, what every error check refuses, the target, and the
data of `G10`, `G92`, `G28`, arcs and probes. `GCode` executes step 4 section by
section (`todo`), stopping wherever the code waits for the planner's queue; while it
waits the machine moves and the host sends holds, cancels and resets. `gc` is the
parser's state, `queue` the planned blocks, `pos` the machine, `pwm` and `flood` the
outputs, `stored` the valid coordinate records. The history `lost` says what the last jog
cancel made the parser wrong about (section 5). Check mode, `$X`, dwells, jogs,
probing (contact or none), `M0`, `M2`/`M30` and `$#`, which writes the records it
cannot read, are actions.

### Console

`sysState` decides which `$` command is accepted; `values` are the settings as numbers
with four decimals, `copy` is a listing the front end keeps. `PrintFloat` rounds to
the places `$$` prints, `ReadFloat` takes eight digits, `Stored` converts, wraps (a
byte setting above 255 is a conversion C leaves undefined; the model wraps it, as the
AVR does) and couples soft limits with homing.

### Planner

Speeds are squared, as in the code, and the unit of distance makes
`2 * acceleration = 1`, so that `v^2 + 2*a*d` is `v + d`. `planner_recalculate` is one
action per iteration of its loops. `PrepLoad` loads a block or recomputes its profile,
`PrepSegment` goes one unit of distance further. Overrides, feed holds, cycle start
and stop, and resets are actions. All of it runs in the main program, and a
recalculation is never interrupted by another call; the module takes it apart so that
its passes can be reasoned about, and the properties speak of the states between. A
recomputed profile forgets that the last one was a forced slowing down: without parking,
fw/stepper.c:626 clears every bit of `recalculate_flag`, and `decelOverride` says only
whether the new profile is one.

### Stepper

`st_prep_buffer` cuts blocks into segments (where a segment ends is left open within
what its loop's exit conditions allow), publishes them in a ring, and copies what the
interrupt needs into a second ring, one slot smaller. The interrupt fires between any
two steps: it puts out the pins computed the time before, loads the next segment,
advances Bresenham's counters with AMASS's finer steps, or shuts down. `motor` counts
the pulses that really left, `exec` the fine steps of the block in execution, against
which `OnTheLine` measures. Holds, overrides, cycle start and reset are actions.

### Homing

The main program reads the switches, the flags and the segment queue at separate
moments; the interrupt steps the motors that `homing_axis_lock` lets through and
counts them in `sys_position`. `carriage` is where the motors really are. Each switch
works, never closes or never opens. Passes are approach, pull-off, locate, pull-off.

### Positions

Where the machine is, in the places the firmware keeps that: `counted` is
`sys_position`, steps of the motors, counted by the stepper interrupt; `planned` is
`pl.position`, steps of the axes at the end of the plan; `parsed` is
`gc_state.position`, the end of the last line, in parts of a step (`Sub`); `copy` is what
a status report has copied so far, byte by byte, while the interrupt counts on. `goal` is
history: where the last line planned leads to, or where the machine stood when the plan
was dropped. A block leaves the plan when its last segment is cut (fw/stepper.c:1004),
before the interrupt makes its steps: `blocks` are those with steps to make, the first
`discarded` of them are in segments and free for the planner, `prepped` counts the events of
the next one that are. `CutSegment` cuts one event: in the refill (`st_prep_buffer`, which
acts on a copy of the flags and so may come after the interrupt has stopped) and before a
motion starts (`st_wake_up`). `StepEvent` is one event of Bresenham's algorithm on the first
block; the interrupt stops when it finds no segment, whatever is planned. Segments cut after
that are left over in a machine that reports Idle with every block free and has not arrived:
`IdleReportIsRight` excepts them for the end of the last line, and `SyncExecutesAll` of
`Realtime` is the run that shows how they come about.
`Sync` (`plan_sync_position` and `gc_sync_position`) takes over the counted position at the end
of a jog cancel and after a reset, and truncates half a step. Lines and jogs that
leave the travel, check mode, cancels, resets and `$X` come between any two steps, and while
a line waits in `mc_line` for a free block.

### Realtime

The main program is cut wherever it reads or writes a word that interrupts share.
`sys_rt_exec_state` is a set of flags; `rt_exec` is the copy that a pass of
`protocol_exec_rt_system` works on. One action per part of the pass: alarm, copy, hold,
start, stop, override, refill, each clearing of flags on its own; `suspended` is the
place inside `protocol_exec_rt_suspend` (hold, door with retract and restore, sleep).
`caller` is the check point the pass runs for: the main loop, a line, `mc_line` waiting
for a free block, or `protocol_buffer_synchronize`. Motion is a number of
blocks and a number of segments. The interrupts are the realtime characters, the limit
pin, a step to the end of a segment, and the stepper's shutdown when it finds no
segment. `StatusShown` is what a status report says of all this.

### Settings

A command becomes a list of byte writes (`pending`), the checksum included, each an
action; the power may go at any of them, also inside a byte's erase and write.
`PowerOn` is `settings_init`, `gc_init` and the startup line. `known` remembers the
settings before and after the command that was interrupted.

### Overrides

The flags wait in `asked`; a pass takes a copy of one word and clears it in separate
steps. The percentages are bytes (`Modulus`). A line is one of a few kinds whose
sections wait for the machine, and the door and hold suspend in between. `counter` and
`shown` are the report's two counters and what the host has been told.

### Messages

`board` is as much of the firmware as decides what it prints: the state, the feed rate a
line may need, and the EEPROM's records, each readable or not. `Boot` is `main` up to the
main loop with the startup lines; every other action takes a line, prints what its
command prints and answers. A message is the list of the tokens it is printed from, so
that the host's test for `error:` is the code's. `replies` is the wire, `client` the host
that counts; `tally` remembers what a reset dropped and how many answers belong to no
line.

### Pins

A pin is a port and a bit, a mask a set of pins; `latch` is the PORT registers and `ground`
what switches connect. A level change makes the pin change interrupt of its port due if
the mask has the pin, and the interrupt reads the pins when it runs, not what changed
them. A command (`$2=`, `M3`, `M8`, a probe, `$H`) is cut where the main program lets
interrupts in between what it tests and what it writes; the stepper interrupt is cut after
it has stepped the pins, where it enables interrupts. `derived` holds what the code keeps in
another form than the settings: `$2` and `$3` reach the pins themselves only with the next
motion, `$21` arms or disarms at once, `$30` computes the PWM's
slope again and so switches the PWM off. What a hold or a start leads to is in `Realtime`;
the safety door's input is compiled out (its pin is the hold's).

## 3. Runs

States are distinct states.

| run | instance | states | what it shows |
|---|---|---|---|
| `links` | rings of 3 usable slots, 2 bytes; 2 programs, 2 presses, 1 network fault; one wired pin of each kind, 4 inputs, 2 commands | 0.4 million | both rings implement `BoundedFifo`; a write returns; the programs agree, a press connects, the exchange ends; masks follow the settings, buttons are heard |
| `grbl_stream` | lines of 1 (a setting), 2 and 3 characters, budget and ring 3; 2 openings, 1 reset | 0.4 million | the answers, no overrun, refinement of `CharCounting`, and every line executed |
| `stroke_pipeline` | 2 strokes of up to 3 events, a clock of 3 ms, 2 mode keys, 1 key that lowers the pen, 1 fault, any points given up | 1.5 million | what is plotted; pen up; no stray ink; every stroke plotted |
| `control` | planner: ring of 4, lengths 1 and 3, rates 1 and 4, overrides 1 and 2; settings: five bytes, one offset, one line; overrides: 2 to 3 of 8, 4 characters | 5.0 million | braking, optimality, junctions, no jump, the stepper's exit speed; what is acknowledged is stored; every change is reported and a percentage goes where it was told to |
| `realtime` | 1 block, 1 segment, 2 lines, all characters, limits on | 6.4 million | state, steppers and alarm agree; holds are ended only on purpose; a reported rest is one |
| `realtime_live` | the same without reset and limits | 0.7 million | holds complete; queued motion starts |
| `gcode` | 22 kinds of lines, 3 of them in any order, a queue of 3; `$` commands with 7 values; messages: 2 lines, 1 reset | 2.2 million | parser, machine, EEPROM and pen agree; a listing brings the settings back; each line is answered once |
| `motion` | 2 kinds of blocks, 3 of them, ring of 3, AMASS level 2; travel 9, pull-off 3, switches of three kinds; positions: travel of 3 steps, half steps, ring of 3, bytes of 2 values, 4 lines | 6.3 million | steps on the line, pins follow the position; a homed machine knows its position; the copies of the position agree |

Four further runs end in a violation: each checks one sentence of the project's own
documentation or comments, and TLC finds a behaviour of the code against it.

| run | sentence | what happens |
|---|---|---|
| `realtime_sync` | fw/protocol.c:167: "Block until all buffered steps are executed" | the stepper runs dry between the copy of the flags and the refill; the refilled segments are stranded and the pen moves before them. No realtime character is needed, only a main program that is late |
| `settings_power_down` | doc/settings.md:27: the settings "will be loaded back up" | the checksum's rotation uses `\|\|` for `\|` (fw/eeprom.c:133), so it depends on the last bytes only; a record torn by a power loss is accepted |
| `homing_switches` | fw/limits.c:295: "machine limits have been located" | both motors belong to either axis of a CoreXY frame: a closed switch of Y ends the search of X |
| `pins_limit` | doc/settings.md:177: a hard limit will "shutdown the coolant and spindle" | its interrupt comes inside the stepper interrupt, or between a command's test and its write, and that write comes last |

### Bounds, and why they are enough

- *Rings*: three slots make the indices wrap, and tell full, empty and in-between
  apart; for the receive ring the proofs remove the bound.
- *OscLink*: two presses are a connection and a disconnection, or two that cross; one
  fault suffices for each thing the handlers react to.
- *GrblStream*: lines 1 and 2 fill the budget together and the third alone, so the host
  has to wait for one and for two answers; with two openings and a reset all accidents
  occur, alone and combined. Lines longer than the budget are excluded: the host
  makes none (its longest is far below 128).
- *StrokePipeline*: two strokes are enough for points to stray; three events are a
  head, a middle and a tail; three milliseconds allow them apart or together. The one key
  is the one that lowers the pen, which is what a key can do to a stroke. Points given up
  are not bounded.
- *Planner*: a ring of four holds three blocks, the least for a reverse pass that stops
  half-way; lengths 1 and 3 give blocks that can and cannot be braked in; the rates
  give feed and rapid motions; a factor of 2 can be set and taken back.
- *Settings*: two bytes of a number tell torn from whole, one byte and the last byte
  are on either side of it; a command may change either, or none.
- *Overrides*: percentages of 2 and 3 of 8, so that a coarse and a fine decrement wrap
  around the byte as 10 and 1 do in 256; counters of 3 and 2 reach every order of the
  two reports.
- *Messages*: two lines, so that one stores what the next one, or the next power-up, meets;
  records are all readable, one unreadable, or all (a new board). One reset drops lines.
- *GCode*: three lines are the least for a mode, something that uses it, and something
  that takes it back; a queue of three blocks can be waited for in part and holds the
  blocks of two lines, so that a jog cancel meets blocks of different speeds; coordinates
  of -2 to 2 tell all offsets apart.
- *Console*: a value for each conversion: a flag, a byte too large, a float with more
  decimals and one with more digits than survive, numbers that name no setting.
- *Stepper*: two blocks that differ in the dominating axis and in direction; one of a
  single step; rings whose slots come round with the third block.
- *Homing*: a travel of three pull-offs; `Lag` lets one step be made between a switch's
  closing and the end of the pass, whether the motors are locked by then or not: the
  loop that locks them ends at once. A pull-off of three steps is long enough for a
  pass to be cut short by a flag left over from the one before. The runs keep
  `Lag < Pulloff`, which is what the proof assumes.
- *Positions*: segments are one step event long, which lets the interrupt run out of them
  at every step, and as many as are planned fit; lines that end on and between two steps (`Sub` is 2) tell rounding from
  truncation; a travel of 3 has steps inside, at its ends and beyond; bytes of 2 values
  make the report's copy carry at every other step; four lines fill the ring of two
  blocks, let one wait, and leave one for what comes after a cancel or a reset. The
  proofs remove all of these bounds.
- *Pins*: a limit switch, the probe and all three buttons, so that each interrupt and each
  order of two buttons occurs; two commands are one that sets and one that uses.
- *Realtime*: one block so that `mc_line` waits at once, one segment so that the queue
  is full or empty; `realtime_sync` has two of each, which tell a stranded segment
  from a full queue. `MaxLines` bounds the host, not the firmware.

`CHECK_DEADLOCK FALSE` where the system may stop: nobody writes, all lines are sent,
the planner's buffer fills up with the machine idle. In `Realtime`, a hard limit waits
for a reset for ever.

### Fairness

- `MCLinks`: the transmitter and a waiting writer go on; so does each thread of a
  program that is in the middle of something. No key has to be pressed.
- `GrblStream`: each thread, the link and the firmware go on (weak fairness). No
  line has to be reserved, no port opened, no reset happen. Justified by threads that
  are scheduled and bytes that travel.
- `StrokePipeline`: sender, receiver and interpreter go on; UDP delivers what it does
  not lose. Nobody has to draw.
- `Realtime`: the main program and the enabled stepper interrupt go on (weak). `Progress`
  is strongly fair: if refills that use a block up or bring a hold to its stop are
  possible again and again, one happens, because a block is finitely long and cut
  into segments of a minimum duration. No key has to be pressed: `HoldCompletes` and
  `MotionStarts` hold without the user.

`ReportsKeepUp` speaks of the number of reports the host asks for, not of fairness.

## 4. Proofs

TLAPS checks every proof for all values of the constants that satisfy the modules'
named assumptions.

**LinkProofs** is about both rings, the connection and the pins. For the receive ring (`RxAssumption`: at least one slot, `NoData` is
no byte) the inductive invariant `IInv` is types, `LocalCopiesValid` and `StoredAreReceived`:
types alone are not inductive, since `ReadStore` stores `idx` as the tail, and what
is known of `idx` is exactly `LocalCopiesValid`. The refinement maps the abstract queue
to `Stored`, the bytes from tail to head; the lemmas on `Distance` and `SlotAfter` carry
the arithmetic of the ring. A step of the interrupt is a `Put` or a `Refuse`, `ReadStore` a
`Get`, `FlushStore` a `Flush`, the others stutter. Theorems: `TypeCorrect`,
`CopiesStayValid`, `AvailableExact`, `RingImplementsFifo`.

For the transmit ring (`TxAssumption`, in the same terms) `TxIInv` is types, what `serial_write` knows at each of its places (`WriterIsRight`: a slot found free
stays free while the interrupt empties the ring), `StoredAreWritten`, and
`SomethingIsLeft`: between moving the head and enabling the interrupt the ring does
not run empty, because the UART has two bytes of its own to send first. Without it
`EnabledWhileStored` is not inductive: this is the timing the module's comment names.
Theorems: `TxTypeCorrect`, `InterruptFollowsRing`, `TxRingImplementsFifo`.

For the connection (`OscLink`; `TwoHosts`: there are two, and the bounds are any) there is
nothing in the code that the two programs share, so `LinkIInv` relates flags and threads of
one side to the datagrams that are still on the way to the other. While UDP behaves
(`ordered`), `SidesFit` holds of each side and the other. `RepliesHold`: a reply is under way only if its sender
holds itself for connected, is about to, or has sent or will send a disconnect or a request
after it, so that a late reply never connects one side for good. `AnswersHold` says the
same of a side that has sent its reply and not set its flag yet. `Matched`: a side alone
in the connection is about to be told or to be followed. `Away`: a program that has ended
left nothing that connects. For `lastPress`, which may come after any fault or race,
`Pressed` says at which of the stations `Asking`, `Asked` and `Answered` the press is, with what may
still be in each queue: the echo of the disconnect may be under way when the reply
is, but only before it (`EndsWith`). `ComposedIsHeld` carries the shared message object through
all of this: a race for it resets the history. TLC checked the invariant for three presses
with a fault before it was proved; the only lemmas about queues are what an
append and a tail do to it (`Grows`, `Shrinks`). Theorems: `LinkInductiveInvariant`, `HostsAgree`.

For the pins (`Pins`; `PinsAssumption`: switches on the input pins only, settings typed with values
of their kind). `CachesFollow` and `ButtonsHeard` are inductive once the types are, and with
them `ButtonsListen`: the buttons' pull-ups stay on and their bits stay in the interrupt's
mask. That is what the proof is about, since ports and mask are shared: step, direction, enable,
spindle and coolant pins are written through masks in the same registers, and homing
takes the limit pins out of the same mask. Steps that leave settings, derived values,
switches and interrupts alone are covered by one lemma (`QuietStep`); the eleven others
have lemmas of their own. A restore of the defaults breaks `CachesFollow` but for the reset that
comes with it, and the proof has to follow that reset through alarms and the locked
loop to the new start. Theorems: `PinsInductiveInvariant`, `CachesAlwaysFollow`,
`ButtonsAlwaysHeard`.

**HostProofs** is about the host and what it is told. For `StrokePipeline`
(`PipelineAssumption`: a contact has at least a press and a release; any number of contacts,
events, milliseconds, keys and faults) the types are worth a proof, because the receive
thread and the interpreter share points: `Shape` says with them that the stroke in hand is the
first of the list, that a pair still has its two points when the tail is looked at, that the point being
stored belongs to a stroke that exists, and that a datum of the
network came from the pen (`FaultMoves`, `NothingInvented`: a loss, a copy and a swap leave data as
they are; `Mixtures`: a mixed message has other flags and nothing else). For `CalibrationIsDeliberate` the invariant `CalibrationFits` follows stroke number -1
through the queue, the network and the receiver: what says it calibrates was made in
calibration mode. A writing contact has a stroke number of at least 0 unless the modes
changed in its middle (`midStroke`), so a drag never passes for a calibration.
`DrawnInOrder` is the part of `PlotsWhatWasWritten` and `InkStaysInStrokes` that speaks
of order, without their exceptions (it holds with modes switched in the middle of a stroke and
with two events in a millisecond): as long as the network does its part, a point is kept in the
stroke it was drawn in, no point is moved to twice or before an earlier one, and the log is in
order. It is not inductive, because the receiver puts a point into whatever stroke is last
when it comes in, and the interpreter takes strokes off the same list. Two invariants make it
so. `Numbered`: what is in flight (network, then receiver's queue) is numbered
with the strokes still to come, each of which has its head in flight, or with the last stroke
of the list, and the list is numbered without gaps up to the strokes made. `Ordered`: what
was handled (kept in a stroke, reserved as a move, logged) was drawn before what the receiver has in
hand, that before what is in flight, and what is in flight stands in order; and the moves reserved and
logged come before the points still in the list, but for those of the stroke in hand.
Theorems: `PipelineTypeCorrect`, `CalibrationIsAlwaysDeliberate`, `AlwaysDrawnInOrder`.
`InkStaysInStrokes` builds on these; its proof is in `InkProofs`, below.

For `Messages` (`MessagesAssumption`: no stored text and no number reads `error:`; any lines,
texts, numbers of records, resets). `Board` says that no text in the board's memory is taken for a status, so
that of all that is printed only statuses, and startup lines that are not G-code, count as
answers; lemmas say how `Count`, the number of answers among the messages not read, changes
under appending and reading, and `Least` that a listing that meets an unreadable record ends at the first one. The
client has a balance only once it has read a welcome message: before, it is `Expectant`,
the answers before the first welcome message being to lines of nobody. After that the lines it believes
unanswered and the answers too many are together the answers under way, the lines the
firmware has not read and the ones a reset lost. A client that gave up (`dead`) has read
more answers than its lines can have. Theorem: `AnswersAlwaysMatchLines`.

For `Console` (`ConsoleAssumption`: what is typed are texts of numbers; any texts).
`Coherent` is what all commands keep of the settings: types, a step pulse of at least 3
microseconds, and no soft limits without homing. `ListedAgain` says of each kind of setting that what
was printed is printed again once it was read, converted and stored, if `read_float`
takes all its digits; `LinePutsBack` that storing one line disturbs none that is already
back, not even `$22` = 0, which clears `$20`: the settings the listing was made of were
coherent too. The invariant `ConsoleInv` says so of the lines sent so far, of `$20` only in
the second pass, when `$22` is back. `OrderIsComplete` is a counting argument: a number's
place in the listing, the number of smaller ones, is a bijection. Theorem: `BackupAlwaysRestores`.

For `CharCounting` (`BudgetFits`: the budget is at most the ring): a full ring with a byte on
its way would need more unanswered characters than the budget.
`Unanswered <= Budget` is inductive and excludes the overrun. `BudgetPreventsOverrun` is about the abstract
protocol; that the two programs implement it is model-checked (`CountingSpec`). The same
promise of the programs themselves is proved in `GrblStreamProofs`.

**InkProofs** proves `InkStaysInStrokes` (same assumption), which speaks of one datum
(`Lost`: faults and points given up together): lost, doubled or overtaken by the network, lost
or doubled by the sender, or given up by the receiver, which its lemma (`GivenUpKeepsChain`)
finds to be a loss at the head of the network. The receiver does not look at a datum's stroke number: a head makes a stroke,
everything else is stored into the last stroke of the list, so one lost tail or a swapped
head joins points of two contacts in one stroke. Why the plotter nevertheless draws no line
between them is decided by the order of everything that has not come to the list yet. The
proof states it of one sequence, the `Chain` of links: what the receiver last opened or
closed, the datum in its hand, the network, the queue of the tablet, and what the pen will
do next if it writes. Without a fault the chain is `Perfect`: contacts, events and times
ascend, each contact's points stand behind its head, and between two contacts is the first
one's tail. What one fault anywhere in it leaves is `ChainHolds`: between a head and the
next tail come only points of the head's contact, unless an earlier head has no tail at all
before the next head (`HeadsFit`); where a tail came twice, nothing else is stored behind it
(`TwiceFits`); and what is stored behind a tail with the same time is that tail again
(`TailsFit`). The one thing worse, a head after a lost tail, leaves a stroke that is never
closed and that the interpreter never gets past (`Blocked`); then nothing has to hold of the
chain. The strengthening has five parts: `InPlace` (the list is the end of the strokes made,
the receiver's local copies belong to the last one), `MadeFits` (points and links made come
from the pen's past, kinds and times fit their events), `ChainFits`, `StrokesFit` (each
stroke that the interpreter can reach has a tail before any point of another contact, and
the one still open has points of one contact only), and `InkFits`, which carries that over
to the commands: whether the pen is down at the end of what was reserved, at which contact's
point, and that the points left in hand have that contact's tail. Every fault is a lemma
about sequences: dropping, doubling and swapping a link of a perfect chain (`Without`,
`Doubled`, `Swapped`). A datum sent with other flags changes a link's kind, which is none of
the three: the theorem excepts it (`~mixed`), and TLC checks the property with it.
Theorem: `InkAlwaysStaysInStrokes`.

**GrblStreamProofs** (`StreamAssumption`: the budget is at most the ring, as 128 and 128 in
the code, and no line is longer than the budget; any lines, openings and resets).
`StreamInv` has four parts. `Shape` is types and what each thread knows at its
places. `Handshake` says that while the count is `Sound` (no torn update, no line met
the setting up) nothing is under way on a connection that is not set up. `Count` relates
the host's books to the wire: lines are numbered by what has happened to them (`written`,
`listed`, `answered`, `counted`, `paid`, `heard`), `Ledger` says `bfrSize` is exactly the
characters of the lines counted and not paid, and `InFlight` that the bytes in the link,
the ring and the firmware's line buffer belong, in order, to lines behind `base`, where
the answers on their way are those of the lines after `heard` up to `base`. Bytes may be
missing: a restart or an EEPROM write loses some, and the rest keeps its order, which is
why `InOrder` compares places in the stream of all lines and not lengths. Characters of
the first n lines are a sum over data; instead of defining it by recursion the invariant
says *there is* a function of such sums, extended with each line that is reserved. At a
full ring a further byte would make the bytes under way more than `bfrSize`
(`AtMost`), which the streaming loop keeps within the budget: `NoOverrun`. For
`AnswerIsForHead`, `Match` adds that without an accident nothing is missing: the bytes
under way are all characters of the lines behind the answered ones (`AllOf`), and the
answers on their way are the next ones. TLC checked all parts on two instances before they were
proved. Theorems: `StreamInductiveInvariant`, `StreamTypeCorrect`, `RingNeverOverruns`,
`AnswersAreForHeads`.

**RealtimeProofs** (any number of blocks, segments and lines, any subset of the
characters, limits and laser mode on or off). The six safety properties of `Realtime` are
not inductive: each of them depends on what the main program has read and not yet
acted on. `RtIInv` says, for every place of `protocol_exec_rt_system` and its callers, how
the copy of the flags relates to the flags (`PlacesAgree`), which suspend bits each state
may have and in which order the door's stages come (`SuspendFits`, `StagesInOrder`,
`SuspendedFits`), when the stepper timer may run (`StepperFits`) and the pen be off
(`PenFits`), where a lost position is remembered until the alarm (`LostFits`), and that a
pending cycle start was asked for (`StartsAreAsked`). Most parts hold except while the
firmware is `Aborting`, on its way to `main()`: in that window the code does leave flags
and timer in states that nothing else allows (see section 5), and the parts that survive
it are stated without the exception. TLC checked `RtIInv` on the instance of `realtime`
before it was proved; the proof has one lemma per action. Theorems:
`RtInductiveInvariant`, `RtTypeCorrect`, `NothingMovesInAlarm`, `LostPositionIsAlarm`,
`ReportsOfRestAreTrue`, `CycleIsAlwaysStepped`, `PenIsRestored`, and the action property
`ResumesAreDeliberate`.

**MotionProofs** has three parts. For `Positions` (`PositionsAssumption`: positive travel,
resolution, conversion and widths; any moves). `PlaceIsKept` relates what an idle machine
counted to what was planned lines ago, so the invariant has to say where a machine in the
middle of its plan is. `PosIInv` is types, `CutFits` (what is in segments are the first events
that were not made, so that a block is discarded only when all of it is in segments, and what
the interrupt executes is never ahead of what was cut), `AtRest` (which modes may have a running timer
or its flag; blocks may be left over in any), `LineFits` (what the line in hand may be), `GoalIsPlanned` (the plan ends
where the last line leads, to half a step), `CopiesAgree`, `CopyIsTrue` (a report's copy of
a machine at rest is exact), and `PlanInTravel`. The last is the strengthening: *there is* a
way through the ends of the queued blocks, from the start of the first one to `planned`,
every point of it in the travel, each block being the difference of two of them, and the
counted position is the start of the first block plus what Bresenham's counters have made of
it. That also covers segments left over in an idle machine, which is not at the end of
the way; with no segment and no planned block left it is. Stating the way as a function that exists replaces the sum of the blocks, which would
need induction over the queue. The arithmetic is in lemmas: `lround` and `printFloat` go to
the nearest step and digit, a step is left alone by them, the event counters make exactly
the block's steps (`StepsOfAMotor`), and an axis of a CoreXY frame moves monotonically
between the ends of a block although each motor serves both axes (`OnTheWay`). Theorems:
`PosInductiveInvariant`, `PlaceIsAlwaysKept`.

The second part is about `Homing` (`HomingAssumption`: positive travel and pull-off,
a lag shorter than the pull-off, switches of the three kinds). `HomedUnlessMisled` speaks of
the end of a cycle of eight passes, so `HomingIInv` says what each pass hands to the next. Its
measure is `Beyond(axis)`, how far the carriage is beyond the axis' switch, whatever end
that is at. `PulledOff1`: after the first pull-off the switch is open and the carriage no
further from it than a pull-off. `Located`: the slow approach cannot run out of steps before it meets a
switch that works, and is not beyond it by more than the lag, so the pass ends with no
`CYCLE_STOP` pending. `PulledOff3`: the last pull-off therefore ends with its steps, and not
early by a stale flag. `AxesSettled`: an axis that is done stands at its pull-off and its
position says so, and homing the other one keeps both, since `Zeroed` keeps the other
axis' position to the step although both motors move. `StandsStill`, `LocksFit` and
`FailureIsAlarm` are what interrupts, the main program and a reset see of each other.
The proof showed that the lag has to count steps up to the end of a pass and not only up to
the lock: a motion that ran out between the two would leave its flag to the last
pull-off. TLC, asked about a pull-off of three, found that behaviour, and the
model now bounds these steps. Theorems: `HomingInductiveInvariant`, `HomedWithinLag`.

For `Stepper` (`StepperAssumption`: at least three segments, a level of smoothing, any
blocks with a step in them, since the planner refuses empty ones; `AmassAssumption`:
the powers of two up to that level are positive and divide the largest, which the provers
do not compute and TLC evaluates). Both properties depend on what the interrupt finds when it
fires between two steps of the main program, and the invariant has three parts. `InRange` is
types. `PulsesInv` is the handshake that turns the interrupt on and off: it is off at rest,
in a completed hold, from the end of the ring to the cycle stop, and while a cycle start
prepares the first segments, so `st_wake_up` never clears a pulse that is still due; with
that `MotorsFollow` is inductive. `LineInv` is why the tool stays on the line:

- `PlanInOrder` and `PrepInOrder`: blocks are numbered as they come, and what the
  preparation holds fits the block at the tail of the planner. `SegmentsGood`: each queued
  segment is for step events `from` to `to` of its block (history), and its slot of
  `st_block_buffer` holds that block's data.
- `Chained`: what is in execution, the queued segments and the block in preparation form one
  chain, in which each goes on where the one before ends, or starts a new block, in the next
  slot, after all of the last one. `SlotsSuffice`: a queued segment's slot is at most as far behind
  the slot in preparation as the segment is from the head. The ring is never fuller than its
  size less one, so the slot that is overwritten next is nobody's. This is the argument
  for `st_block_buffer` being one slot smaller than the ring of segments.
- `SegmentRuns` and `CountersTrue`: the ticks left of a segment are those left of its step
  events at its level of smoothing, and each axis' counter is half the block, plus its share of
  the ticks done, minus the steps made, in units of the whole block. The counters start
  afresh only when the slot changes, and `Chained` makes a change of the slot the same as a
  change of the block. A counter in 0 .. whole is the half step on either side: `OnTheLine`.

The proof has a lemma for every action; the long ones are `PublishSegmentKeeps`, which moves
the head, and `TakenIsRight` with `StepISRKeeps`, which move the tail. At the end of a block every
axis has made exactly the block's steps (`EndOfBlock`), so the next one starts there. TLC checked
all parts for rings of three and four. Theorems: `RingsStayInOrder`,
`StepperTypeCorrect`, `PulsesArrive`, `NoSegmentIsEmpty` (the assertion in the interrupt's
comment, "at least one step to be executed per segment"), `ToolStaysOnTheLine`. The model's guard that a
segment has fewer ticks than the 16 bits of `n_step` hold stands for the duration of a
segment, `DT_SEGMENT`, or that of a single longer step, at the timer's rate.

**ControlProofs** is about `Planner`, `Overrides` and `Settings`. For the planner (`PlannerAssumption`: at
least three slots, positive lengths, rates and factors) there are five invariants on top of each other:

- `TInv`: types, with what makes them inductive: queued blocks have a length (else a
  segment would make it negative), the stepper has a block and the passes run only
  while the ring is not empty, and the next head follows the head.
- `PInv`: the planned pointer is queued unless it is `Stray`. After the empty ring was
  recalculated the pointer may be anywhere; the one line queued since has an entry limit of
  zero, so its forward pass ends with the pointer at it. Where it is queued, the reverse
  pass stays between it and the head, and the forward pass behind it.
- `JInv`: entry limits are those of the overrides of now, and the entries of the blocks the
  recalculation has already visited, or need not visit, respect them.
- `SInv`: the profile in execution ends at the planned speed in the middle of a
  recalculation too. Two passes can change the entry it ends at: the reverse pass takes
  the block from the stepper when it gets there, and the forward pass gets there only
  from the tail, after the reverse pass did.
- `OInv`, for the best plan. `KInv` says what the stepper carries from one block to the
  next, and from a block it gives up to the same block planned anew: its speed, which is
  the planned entry, or less in a hold. `Feasible`: every block can slow down to its exit
  in the middle of the passes too, so raising entries from the head to the tail, and
  lowering them from the tail to the head, never breaks the promise of a neighbour.
  `GInv` says how good the plan is, block by block. Up to the planned pointer nothing
  that comes after can improve it, because the entry at the pointer is at its limit or as
  fast as can be reached (`Pushed`); the reverse pass leaves `Backed` entries behind it, which
  are as fast as the rest can slow down from; and the forward pass lowers only what cannot be
  reached. The delicate case is the forward pass lowering the exit of a block that was backed by the
  higher one: it would have to be faster than an entry it is too slow to reach.
  What makes the prefix stable is `Pushed` at the pointer. Dropping a block at the tail,
  a new line at the head and a raised override keep all of it; a reduced override leaves the
  machine faster than the new plan allows, for which `st_prep_buffer` has a branch of its own
  (`PREP_FLAG_DECEL_OVERRIDE`), and the properties except it (`slowed`).

For `Overrides` (`OverridesAssumption`: the relations fw/config.h:241-256 keeps between the
range of the percentages, their two steps and the byte they are computed in, which are
what TLC evaluates too) the invariant is `Due`: what the host has not been shown is due in
the next reports, since its counter has run out. Two lines break this between their two
steps, and the invariant says which: one that sets an offset flags the change in a step of its own, and
`M30` resets the percentages, waits, and makes the counters run out afterwards.
`ReportsKeepUp` follows, whatever order the flags, the lines, a door's suspension and a
reset come in. `OverridesObey` needs only the types and `AdjustedGoes`, which follows the byte
through its remainder and the clamp for every set of characters merged. Its proof needs the
minimum to be less than both decrements together, else these do not lower a percentage
that is at it; with config.h's numbers 10 % is less than 11 %.

For `Settings` (`SettingsAssumption`: what is typed are bytes; any settings, offsets, lines) the
invariant `SettingsIInv` looks ahead: `WillBe` is what a place of the EEPROM will hold once
all that is pending is written, and writing a byte leaves that alone. Each record `Holds` in
this sense what is in force, from the stage on at which the start has read or repaired it: the
settings at once, the offset after `gc_init`, a readable line after the startup line
was read. So nothing has to be known of torn records, whose checksum may be
right by accident: a start takes what it can read, and from then on that is what is stored. What the
checksum computes is not used either, only that it is a function of the bytes. `Fits` says that the flags'
byte is proper wherever it is, erased (all bits set) included, whence `SoftLimitsNeedHoming`,
which no run checks.

Theorems: `TypeCorrect`, `PlannedStaysInRange`, `JunctionsAreRespected`,
`StepperAlwaysKnowsExit`, `PlanStaysOptimal`, `SpeedNeverJumps`; `ChangesAreDue`,
`ReportsAlwaysKeepUp`, `OverridesAlwaysObey`; `StoredAlwaysInForce`, `SoftLimitsAlwaysBound`.

**GCodeProofs** (`GCodeAssumption`: a queue of at least one block, a PWM range within a
byte, words with whole values; any lines, any number of them, any axis range). The four
properties speak of the time between two lines. Their hazard is in the middle of one:
the handler works out targets and offsets when it parses the line and uses them
sections later, while it waits for the queue and the machine goes on, holds, is reset, or
cancels the jog it is waiting for. `GCodeIInv` follows a line through its sections:

- `TodoFits`: the sections left are in the order of the code, and only the first can be one
  the handler turned another into (a dropped point, a probe in progress, a pause).
- `StateFits`: the machine's states while a line waits: a jog is never under way inside
  another kind of line, a pause is a hold, a probe in progress is a cycle.
- `PlaceFits`: where the queue ends is where the parser is, or, in the middle of a motion, what the
  handler still has to plan ends at the line's target. For `G28` and `G30` that is the stored
  place and not the last point of the line.
- `SystemFits`: the offsets in force, and those about to be once the line selects a system, are
  those of the stored record. A `G10` of the active system and a selection in the
  same line are the delicate pair.
- `ZeroFits`: the data of `G92` and `G10 L20` were computed with the position and the offsets
  the line will find when it gets to storing them; the tool length comes before, so it is
  in force by then.
- `PenFits`: while the pen has no more motion to be shown the last queued block has the speed of
  the parser, or, the queue empty, the PWM is that speed's. `Showing` are the places of the handler
  in which the parser has taken a speed that no block carries yet.

After a reset only `TodoFits`, `TypesFit`, `StateFits` and `ZeroFits` hold, and they are what
`Reinit` needs. Two exceptions are in the properties, because the code has them: what a jog
cancel makes the parser lose (`lost`), reached by TLC in both forms before they were
excepted. Theorems: `GCodeInductiveInvariant`, `GCodeTypeCorrect`, `ParserAlwaysInSync`,
`CoordSystemAlwaysStored`, `PowerNeverStale`, and the action property `ZeroingAlwaysWorks`.

### Only model-checked

All liveness (fairness and ENABLED are out of the prover's reach); the refinement of
`CharCounting` (its mapping folds lengths over a sequence, which would need induction
over data); and one invariant, `PlotsWhatWasWritten` of `StrokePipeline`, which compares all
that was reserved with all that was written, joined stroke by stroke (the same induction); and `InkStaysInStrokes` for a datum sent with the
flags of a mixed message. Of
it the order is proved as `AlwaysDrawnInOrder`, and that the pen is up between strokes as
`InkAlwaysStaysInStrokes`; that no movement is missing is what only TLC shows.

## 5. Observations

Read off the code or met in counterexamples while the properties were stated. The
properties hold because they are stated around these, or the model shows them as
they are.

Host:

- `Grbl.streaming` and `Grbl.read` may lose an update of `bfrSize` under each other
  (host/grbl/Grbl.java:47, 65), after which the budget is wrong until the next
  connection and the firmware's ring may overrun, against doc/interface.md:41.
  `NoOverrun` holds while no update is torn.
- `Drawing.getLast` and the first line of `Stroke.addPoint` ask for a list's size and then for
  the element there (host/drawing/Drawing.java:33, Stroke.java:19). When the interpreter takes
  the first element off in between, `get` throws and oscP5 drops the point; if it is a tail, its
  stroke is never completed and blocks the list. `PlotsWhatWasWritten` and `EveryStrokePlotted`
  except it (`races`), as they except faults; `InkStaysInStrokes` holds with one such point.
- The message object the tablet's data are sent in is also filled by oscP5's thread and by the
  key that connects, so that a datum may be lost, doubled or garbled without any fault of
  the network; the same properties except it (`OscRace` counts as a fault).
- A program that ends between its peer's reply and the flag leaves the peer alone in
  the connection; two quick presses may leave both disconnected; two threads that
  compose in one message may turn a reply into a request.
- The keys `[` and `]`, which set `$100` and others, are refused with error 8 while the
  plotter moves, and in IDLE with blocks queued change the scale of what is queued;
  positions are not converted.

Realtime protocol and motion:

- fw/planner.c:158 skips a block at its maximum entry speed although an override may
  have lowered the maximum (guideline 1b, fw/planner.c:75); recalculating the empty
  ring leaves the planned pointer at a dead slot (fw/planner.c:129 against :110).
- A reset between the alarm test and the copy of the flags aborts motion without an
  alarm, against doc/commands.md:228; a jog cancel that arrives in time and is executed
  late acts in IDLE, against doc/commands.md:276.
- `!` during a door's restore is swallowed with the clearing of the hold flags.
- `$C` is accepted in IDLE with blocks queued; a later synchronisation waits for ever
  (fw/protocol.c:167). It also does not stop spindle and coolant (doc/commands.md:128).
- A door opened between the last check in the homing cycle and
  fw/motion_control.c:239 suspends with no hold to complete, until a reset. A stale
  `CYCLE_STOP` may fail the next homing pass, or end a pull-off early if the steps of
  the approach run out between its last check and `st_reset` (fw/limits.c:255-278);
  the approach's reserve of steps excludes that while the loop ends in time. `$HX` in this build returns an error with
  the state left HOMING (fw/system.c:179-191).

- A jog started while an abort is pending may leave the stepper timer running into
  `main()`; its shutdown between the clearing of the flags and `st_reset` leaves
  `CYCLE_STOP` set. If a limit pin is engaged at that start, the next pass takes the flag
  for the end of a motion and lifts the ALARM to IDLE without a `$X`.

Positions:

- A status report copies `sys_position` byte by byte while the interrupt counts
  (fw/report.c:465): in motion its position may be one that the machine never had.
- Segments cut after the interrupt has stopped stay in the buffer of an idle machine; the
  blocks they are of have left the planner, so that a report says Idle with every block free
  away from the end of the last line (the run `realtime_sync` has the trace). The next motion
  executes them first.
- A jog line that waits in `mc_line` when a jog cancel is executed is planned and started
  after it, against "cancel". A jog planned just when the interrupt has stopped stays queued
  and runs as a cycle later; a jog started with blocks of `G1` queued runs these as
  jog, to be cancelled like it.
- Each synchronisation truncates half a step of an axis: the machine stays within a step of
  where it was sent, and the error does not add up, since every line is planned from the
  counted position.

Parser:

- A jog without axis words (`$J=F100`) moves to machine zero: targets are computed only if
  there are axis words (fw/gcode.c:585), and `jog_execute` plans the zeros of a fresh block
  (`Target` of `GCodeBlock`).
- A zero-length `$J=` with `M3` stores the target as `gc_state.position` after a cancel
  already synchronised it (fw/gcode.c:851-864): `ParserInSync` excepts it (`lost`).
- A jog sent with blocks of `G1` queued starts these as jog; when it is cancelled they are
  forgotten, but the parser keeps the `S` word they came with, and the pen keeps that of
  the block that was executed, until the next motion: `NoStalePower` excepts it (`lost`).
- A failed probe followed by `$X` leaves the laser on in the modal state `G38.2`; jogs in
  the modal state `G0` with `M3` keep it on, against doc/laser_mode.md:62. The mask of
  words a jog may not have also refuses `G20`, `G21` and `G53`.
- `WPos` is computed with the new offsets while the wait of fw/system.c:277 goes on
  (fw/config.h:541).
- `$G` in inches shows `F` in mm unless `$13` is set; the `F0` it shows after power-up is
  refused together with `G1`.

Overrides and reports:

- The byte of fw/protocol.c:413 wraps when a coarse and a fine decrement are taken
  together near the minimum, and `min` makes 200 % of it. Characters of one pass lose
  their order, and one that arrives between copy and clear (lines 406-408) is lost.
- The spindle's output changed by the stepper interrupt is not reported
  (doc/interface.md:676); in check mode an `M30` changes percentages with no report
  (doc/interface.md:649); repeated offset reports delay the overrides more than one
  report.
- `M30` clears the coolant's mode, waits, and then switches the output off: a flood
  toggle in the wait leaves the mode on and the output off (fw/gcode.c:1104, :1124), against
  fw/protocol.c:459. The door's restore disagrees the same way (fw/protocol.c:683).
- fw/protocol.c:683 and :693 test flood twice: a mist coolant would be dropped.

Messages:

- `$#` and `$N` that meet an unreadable record print `error:7` and then `ok` as well, and a
  startup line that is refused prints `>...:error:22`, in which `Grbl.read` finds `error:`:
  answers to no line, against doc/interface.md:26. A host with no line pending throws on it
  and reads no more.
- Restoring all settings writes two zero bytes over the startup lines and the build info
  and leaves their checksums (fw/settings.c:117-134), so that an unreadable one may stay
  unreadable: a new board prints `>:error:7` twice at its first start.

Pins:

- All three buttons pressed at once read as none (fw/system.c:47: the test for "any" is true
  while one of the pins is high), so that no reset happens; the comment at fw/system.c:37
  says that a bit is set for each one triggered.

Settings:

- `sizeof(settings_t)` is odd, so a blank record is accepted once the version byte is
  written. `$Nx=` does not check x: `$N2` overlaps the build info, `$N3` wraps.
- `$$` sent back fails at `$20` when homing is off, so one pass is not enough; numbers of
  more than eight digits lose digits.
- `serial_get_rx_buffer_count` is off by one when the ring has wrapped (fw/serial.c:50);
  it is only used in deprecated reports.

## 6. Not modelled

- Coordinates, feed rates and colours of the `Interpreter` and the junction geometry of
  `plan_buffer_line`: arithmetic whose results the control flow does not depend on. Arcs
  by their end points: the approximation of `mc_arc` is floating point.
- The screen, the wording of help and messages: pure output. `draw()` walks the
  strokes while the interpreter removes them; an index out of bounds there ends the
  animation thread, and nothing a property could promise is left.
- The six calibration values, which are set one by one while coordinates are computed
  from them: the model has the calibration as one value. A torn one shifts points of one
  stroke.
- The parking motion (compiled out), the timers' prescalers.
- `serial_get_rx_buffer_count`: compiled only into classic status reports, which are off.
- The pristine Grbl tree: all but three files are the deployed ones byte by byte, so
  every definition stands for both trees, but is mapped to the deployed tree only. Half
  of the implementation's lines are these duplicates; of the rest, `config.h` and
  `defaults.h` are mostly comments and other machines' constants.
- Vendored libraries: oscP5, Processing, jSSC appear as what the host's code sees of
  them.

## 7. Plan

Done: the receive ring with its proofs, streaming, strokes, the planner and its first
proofs, the realtime protocol; then the transmit ring, the OSC connection, the stepper,
the EEPROM, the parser, homing, overrides with the reports, the `$` commands, and the
suspend states of the realtime protocol, the pins, the messages, and the copies of the
position; and the proofs of the transmit ring, the realtime protocol, the positions, the
stream, the pins, the best plan, the stepper, homing, the overrides, the connection, the
G-code parser, the calibration, the order and the strokes of the drawing, the messages, the `$` commands and the
settings.

Left, in order of importance:

1. Theorems: that no command of a stroke is missing (`PlotsWhatWasWritten` of
   `StrokePipeline`), stated position by position instead of with folds over the commands.
2. `Realtime` with `Stepper` instead of counted segments.
3. Host and firmware end to end, from strokes to pen movements.

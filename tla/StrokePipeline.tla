--------------------------- MODULE StrokePipeline ---------------------------
(***************************************************************************)
(* The way of a pen stroke from one user's tablet to the other user's      *)
(* plotter: class TabletInput (animation thread), OscComm.streaming        *)
(* (OscCommThread), UDP, OscComm.receive with Drawing and Stroke (the      *)
(* thread of oscP5), Interpreter (InterpreterThread), and the commands it  *)
(* hands to Grbl.reserve, between which keyPressed (animation thread) puts   *)
(* those of its keys.                                                      *)
(*                                                                         *)
(* A pen event is identified by <<s, k>>, the k-th event of the pen's s-th *)
(* contact with the tablet; coordinates are a function of it.  UDP loses,  *)
(* doubles and reorders datagrams, and so does a message for the           *)
(* connection (module OscLink) that is composed in the same object at the  *)
(* same time; each of these counts as one fault.  A point the receiver     *)
(* gives up because the interpreter shortens a list under it is a race.    *)
(***************************************************************************)
EXTENDS Integers, Sequences, FiniteSets, SequencesExt

CONSTANTS MaxStrokes,     \* bound: contacts of the pen with the tablet
          MaxEvents,      \* bound: events of one contact
          MaxMillis,      \* bound: the clock of the events, in milliseconds
          MaxToggles,     \* bound: presses of keys
          Keys,           \* the keys, besides 'i' and 'c', that are pressed
          MaxFaults       \* bound: faults of UDP and of the message object

ASSUME PipelineAssumption ==
  /\ {MaxStrokes, MaxMillis, MaxToggles, MaxFaults} \subseteq Nat
  /\ MaxEvents \in Nat \ {0, 1}         \* a press and a release at least
  /\ Keys \subseteq {"h", "?", "x", "w", "s", "[", "]"}

VARIABLES
  \* the pen: its place, the events of the current contact, the clock
  penDown, contact, events, millis, toggles,
  \* TabletInput
  modeWritable, modeCalibration, strokeIdx, tabletInputData,
  \* UDP
  net, faults,
  \* OscComm.receive: the sizes read of the lists of strokes and of points;
  \* the stroke, last time and datagram of a started addPoint
  sized, rcv,
  \* Drawing.strokes, a list of references into the Stroke objects
  strokes, stroke,
  targetCalib,
  \* Interpreter: its place, the stroke in its hands and the commands of a
  \* pair of points not reserved yet
  interp, current, said,
  typed,          \* the commands of a key not reserved yet
  reservedMsg,
  table,          \* the log that exit() saves
  \* history
  written,        \* completed contacts, as sequences of events with times
  penSoFar,       \* the events of the contact that is going on
  crowded,        \* two events of the pen fell into one millisecond
  midStroke,      \* a mode was switched while the pen was down
  calibrated,     \* the events that were meant as calibration
  mixed,          \* a datum was sent with the flags of a mixed message
  races           \* data given up since a list had been shortened

tablet == <<modeWritable, modeCalibration, strokeIdx, tabletInputData>>
pen == <<penDown, contact, events, millis, toggles>>
drawing == <<strokes, stroke>>
interpreter == <<interp, current, said, typed, reservedMsg, table>>
history == <<written, penSoFar, crowded, midStroke, calibrated, mixed, races>>
vars == <<pen, tablet, net, faults, rcv, sized, drawing, targetCalib,
          interpreter, history>>

Events == (1 .. MaxStrokes) \X (1 .. MaxEvents)
Millis == 0 .. MaxMillis + 1
Data == [idx : -1 .. MaxStrokes, event : Events, millis : Millis,
         isHead : BOOLEAN, isTail : BOOLEAN]
Point == [strokeIdx : 0 .. MaxStrokes, event : Events, millis : Millis,
          isHead : BOOLEAN, isTail : BOOLEAN]
TableRow == [strokeIdx : 0 .. MaxStrokes, event : Events, millis : Millis]
StrokeCommand ==
  [op : {"travel", "line"}, to : Events] \cup [op : {"down", "up"}]
KeyCommand == [op : {"G92", "G90", "G93", "$$", "$120", "$121"}]
              \cup [op : {"M3"}, S : {0, "servoHover", "servoZero"}]
Command == StrokeCommand \cup KeyCommand

NoRcv == [st |-> 0]
NoSizes == [strokes |-> -1]

TypeOK ==
  /\ penDown \in BOOLEAN /\ contact \in 0 .. MaxStrokes
  /\ events \in 0 .. MaxEvents /\ millis \in Millis /\ toggles \in Nat
  /\ modeWritable \in BOOLEAN /\ modeCalibration \in BOOLEAN
  /\ strokeIdx \in -1 .. MaxStrokes
  /\ tabletInputData \in Seq(Data) /\ net \in Seq(Data)
  /\ faults \in 0 .. MaxFaults
  /\ rcv = NoRcv \/ rcv \in [st : DOMAIN stroke, last : Millis, msg : Data]
  /\ sized = NoSizes \/ sized \in [strokes : Nat, points : Nat]
  /\ strokes \in Seq(DOMAIN stroke)
  /\ \A id \in DOMAIN stroke : /\ stroke[id].points \in Seq(Point)
                               /\ stroke[id].isCompleted \in BOOLEAN
  /\ targetCalib \in Events \cup {<< >>}
  /\ interp \in {"idle", "points", "pair", "remove"}
  /\ current \in {0} \cup DOMAIN stroke
  /\ said \in Seq(StrokeCommand) /\ typed \in Seq(KeyCommand)
  /\ reservedMsg \in Seq(Command) /\ table \in Seq(TableRow)
  /\ crowded \in BOOLEAN /\ midStroke \in BOOLEAN
  /\ mixed \in BOOLEAN /\ races \in Nat

Init ==
  /\ penDown = FALSE /\ contact = 0 /\ events = 0 /\ millis = 0 /\ toggles = 0
  /\ modeWritable = FALSE /\ modeCalibration = FALSE
  /\ strokeIdx = -1 /\ tabletInputData = << >>
  /\ net = << >> /\ faults = 0
  /\ rcv = NoRcv /\ sized = NoSizes /\ strokes = << >> /\ stroke = << >>
  /\ targetCalib = << >>
  /\ interp = "idle" /\ current = 0 /\ said = << >>
  /\ typed = << >> /\ reservedMsg = << >> /\ table = << >>
  /\ written = << >> /\ penSoFar = << >>
  /\ crowded = FALSE /\ midStroke = FALSE /\ calibrated = {}
  /\ mixed = FALSE /\ races = 0

-----------------------------------------------------------------------------
(* TabletInput.mouseEvent for one event of the pen, at the time of the event
   before or later; the clock counts from the first event. *)
DataOf(idx, e, t, isHead, isTail) ==
  [idx |-> idx, event |-> e, millis |-> t, isHead |-> isHead, isTail |-> isTail]

CalibrationEvent(action, e, t) ==
  /\ modeCalibration
  /\ tabletInputData' =
       IF action = "PRESS"
       THEN Append(tabletInputData, DataOf(-1, e, t, FALSE, FALSE))
       ELSE tabletInputData
  /\ modeCalibration' = (action # "RELEASE")
  /\ calibrated' = IF action = "PRESS" THEN calibrated \cup {e} ELSE calibrated
  /\ UNCHANGED <<modeWritable, strokeIdx, written, penSoFar>>

NextStrokeIdxMutant(action) ==
  IF action = "RELEASE" THEN strokeIdx + 1 ELSE strokeIdx
NextStrokeIdx(action) ==
  IF action = "PRESS" THEN strokeIdx + 1 ELSE strokeIdx

WritingEvent(action, e, t) ==
  /\ ~modeCalibration /\ modeWritable
  /\ strokeIdx' = NextStrokeIdx(action)
  /\ tabletInputData' =
       Append(tabletInputData,
              DataOf(strokeIdx', e, t, action = "PRESS", action = "RELEASE"))
  /\ UNCHANGED <<modeWritable, modeCalibration, calibrated>>
  /\ LET now == Append(penSoFar, [event |-> e, millis |-> t])
     IN IF action = "RELEASE"
        THEN written' = Append(written, now) /\ penSoFar' = << >>
        ELSE penSoFar' = now /\ UNCHANGED written

IdleEvent ==
  /\ ~modeCalibration /\ ~modeWritable
  /\ UNCHANGED <<tablet, written, penSoFar, calibrated>>

mouseEvent(action) ==
  /\ typed = << >>
  /\ \E t \in IF contact + events = 0 THEN {0} ELSE millis .. millis + 1 :
       /\ t <= MaxMillis
       /\ millis' = t
       /\ crowded' = (crowded \/ (contact + events > 0 /\ t = millis))
       /\ \/ CalibrationEvent(action, <<contact', events'>>, t)
          \/ WritingEvent(action, <<contact', events'>>, t)
          \/ IdleEvent
  /\ UNCHANGED <<toggles, net, faults, rcv, sized, drawing, targetCalib,
                 interpreter, midStroke, mixed, races>>

PenPress == /\ ~penDown /\ contact < MaxStrokes
            /\ penDown' = TRUE /\ contact' = contact + 1 /\ events' = 1
            /\ mouseEvent("PRESS")

PenDrag == /\ penDown /\ events < MaxEvents - 1
           /\ events' = events + 1 /\ UNCHANGED <<penDown, contact>>
           /\ mouseEvent("DRAG")

PenRelease == /\ penDown
              /\ penDown' = FALSE /\ events' = events + 1
              /\ UNCHANGED contact
              /\ mouseEvent("RELEASE")

(* The keys 'i' and 'c'. *)
ToggleMode ==
  /\ typed = << >> /\ toggles < MaxToggles
  /\ toggles' = toggles + 1
  /\ midStroke' = (midStroke \/ penDown)
  /\ \/ modeWritable' = ~modeWritable /\ UNCHANGED modeCalibration
     \/ modeCalibration' = ~modeCalibration /\ UNCHANGED modeWritable
  /\ UNCHANGED <<penDown, contact, events, millis, strokeIdx, tabletInputData,
                 net, faults, rcv, sized, drawing, targetCalib, interpreter,
                 written, penSoFar, crowded, calibrated, mixed, races>>

(* The other keys: home, the settings, the pen and the acceleration (its value
   is left out).  Each command of a key is reserved by itself. *)
KeyCommands(key) ==
  CASE key = "h" -> <<[op |-> "G92"], [op |-> "G90"], [op |-> "G93"]>>
    [] key = "?" -> <<[op |-> "$$"]>>
    [] key = "x" -> <<[op |-> "M3", S |-> 0]>>
    [] key = "w" -> <<[op |-> "M3", S |-> "servoHover"]>>
    [] key = "s" -> <<[op |-> "M3", S |-> "servoZero"]>>
    [] key = "[" -> <<[op |-> "$120"]>>
    [] key = "]" -> <<[op |-> "$121"]>>

keyPressed ==
  /\ typed = << >> /\ toggles < MaxToggles
  /\ toggles' = toggles + 1
  /\ \E key \in Keys : typed' = KeyCommands(key)
  /\ UNCHANGED <<penDown, contact, events, millis, tablet, net, faults, rcv,
                 sized, drawing, targetCalib, interp, current, said,
                 reservedMsg, table, history>>

ReserveTyped ==
  /\ typed # << >>
  /\ reservedMsg' = Append(reservedMsg, Head(typed))
  /\ typed' = Tail(typed)
  /\ UNCHANGED <<pen, tablet, net, faults, rcv, sized, drawing, targetCalib,
                 interp, current, said, table, history>>

-----------------------------------------------------------------------------
(* OscComm.streaming, which does not ask whether anyone is connected. *)
OscStreaming ==
  /\ tabletInputData # << >>
  /\ net' = Append(net, Head(tabletInputData))
  /\ tabletInputData' = Tail(tabletInputData)
  /\ UNCHANGED <<pen, modeWritable, modeCalibration, strokeIdx, faults, rcv,
                 sized, drawing, targetCalib, interpreter, history>>

(* The thread of oscP5 or the animation thread composes a message for the
   connection in the same object: the datum is replaced or cannot be read, is
   sent a second time, or the other message's port comes between its fields, so
   that it is read for isHead, and isHead for isTail, or only for isTail. *)
OscRace ==
  /\ tabletInputData # << >> /\ faults < MaxFaults
  /\ faults' = faults + 1
  /\ tabletInputData' = Tail(tabletInputData)
  /\ LET d == Head(tabletInputData)
     IN \/ UNCHANGED <<net, mixed>>
        \/ net' = net \o <<d, d>> /\ UNCHANGED mixed
        \/ /\ d.idx # -1 /\ mixed' = TRUE
           /\ \E m \in {[d EXCEPT !.isHead = FALSE, !.isTail = d.isHead],
                        [d EXCEPT !.isTail = FALSE]} :
                m # d /\ net' = Append(net, m)
  /\ UNCHANGED <<pen, modeWritable, modeCalibration, strokeIdx, rcv, sized,
                 drawing, targetCalib, interpreter, written, penSoFar, crowded,
                 midStroke, calibrated, races>>

(* A datagram is lost, delivered twice, or overtaken by the next one, as long
   as the receiver does not have it in its hands. *)
InHands(i) == i = 1 /\ sized # NoSizes

NetFault ==
  /\ faults < MaxFaults
  /\ faults' = faults + 1
  /\ \E i \in DOMAIN net :
       /\ ~InHands(i)
       /\ \/ net' = RemoveAt(net, i)
          \/ net' = InsertAt(net, i, net[i])
          \/ i < Len(net) /\ net' = [net EXCEPT ![i] = net[i + 1],
                                                ![i + 1] = net[i]]
  /\ UNCHANGED <<pen, tablet, rcv, sized, drawing, targetCalib, interpreter,
                 history>>

(* OscComm.receive.  A head opens a new stroke; any other point goes to the
   last stroke of the list, whatever stroke it was drawn in. *)
ReceiveCalibration(m) ==
  /\ m.idx = -1
  /\ targetCalib' = m.event
  /\ UNCHANGED <<rcv, sized, drawing, races>>

AddStroke(m) ==
  /\ m.idx # -1 /\ m.isHead
  /\ stroke' = Append(stroke,
                 [points |-> <<[strokeIdx |-> m.idx, event |-> m.event,
                                millis |-> m.millis,
                                isHead |-> TRUE, isTail |-> FALSE]>>,
                  isCompleted |-> FALSE])
  /\ strokes' = Append(strokes, Len(stroke'))
  /\ UNCHANGED <<rcv, sized, targetCalib, races>>

(* The last stroke of the list, and the time of its last point, are each found
   by the size of a list, then the element there; the interpreter may take
   elements off either list in between.  One step may read both sizes, for a
   stroke leaves the list only when it is empty, and get throws then too. *)
Sizes ==
  [strokes |-> Len(strokes),
   points |-> IF strokes = << >> THEN 0 ELSE Len(stroke[Last(strokes)].points)]

ReadSizes ==
  /\ rcv = NoRcv /\ sized = NoSizes
  /\ net # << >> /\ Head(net).idx # -1 /\ ~Head(net).isHead
  /\ sized' = Sizes
  /\ UNCHANGED <<pen, tablet, net, faults, rcv, drawing, targetCalib,
                 interpreter, history>>

(* With no stroke, or one the interpreter has emptied, get throws, and so it
   does if a list was shortened since its size was read: oscP5 gives the
   datagram up. *)
AddPointLoad(m) ==
  /\ m.idx # -1 /\ ~m.isHead /\ sized # NoSizes
  /\ sized' = NoSizes
  /\ IF strokes = << >> \/ stroke[Last(strokes)].points = << >>
     THEN UNCHANGED <<rcv, races>>
     ELSE IF sized # Sizes
     THEN races' = races + 1 /\ UNCHANGED rcv
     ELSE /\ rcv' = [st |-> Last(strokes),
                     last |-> Last(stroke[Last(strokes)].points).millis,
                     msg |-> m]
          /\ UNCHANGED races
  /\ UNCHANGED <<drawing, targetCalib>>

Receive ==
  /\ rcv = NoRcv /\ net # << >>
  /\ net' = Tail(net)
  /\ \/ ReceiveCalibration(Head(net))
     \/ AddStroke(Head(net))
     \/ AddPointLoad(Head(net))
  /\ UNCHANGED <<pen, tablet, faults, interpreter, written, penSoFar, crowded,
                 midStroke, calibrated, mixed>>

(* Stroke.addPoint, after it has read the time of the last point: a point of
   the same millisecond replaces it, one from the past is dropped.  The time
   of a tail that replaces a point is moved on, so that the last segment
   takes some time.  What getLast meets here if points are taken off between
   its size and its get, it might as well have met in the step before. *)
TailMillis(t, last) == IF t = last THEN t + 1 ELSE t

StoredPoint(m, last) ==
  [strokeIdx |-> m.idx, event |-> m.event,
   millis |-> IF m.isTail THEN TailMillis(m.millis, last) ELSE m.millis,
   isHead |-> FALSE, isTail |-> m.isTail]

WithPointMutant(points, m, last) == Append(points, StoredPoint(m, last))
WithPoint(points, m, last) ==
  IF m.millis > last THEN Append(points, StoredPoint(m, last))
  ELSE IF m.millis = last THEN Append(Front(points), StoredPoint(m, last))
  ELSE points

CompletesMutant(m, last) == m.isTail /\ m.millis > last
Completes(m, last) == m.isTail

AddPointStore ==
  /\ rcv # NoRcv
  /\ LET s == stroke[rcv.st]
     IN stroke' =
          IF rcv.msg.millis = rcv.last /\ s.points = << >>  \* getLast() throws
          THEN stroke
          ELSE [stroke EXCEPT ![rcv.st] =
                  [points |-> WithPoint(s.points, rcv.msg, rcv.last),
                   isCompleted |-> s.isCompleted \/ Completes(rcv.msg, rcv.last)]]
  /\ rcv' = NoRcv
  /\ UNCHANGED <<pen, tablet, net, faults, sized, strokes, targetCalib,
                 interpreter, history>>

-----------------------------------------------------------------------------
(* Interpreter.interpreting looks at the first stroke only ... *)
Interpret ==
  /\ interp = "idle" /\ strokes # << >>
  /\ stroke[Head(strokes)].isCompleted
  /\ interp' = "points" /\ current' = Head(strokes)
  /\ UNCHANGED <<pen, tablet, net, faults, rcv, sized, drawing, targetCalib,
                 said, typed, reservedMsg, table, history>>

(* ... turns each pair of neighbouring points into commands ... *)
HeadCommandsMutant(a) == IF a.isHead THEN <<[op |-> "down"],
                                       [op |-> "travel", to |-> a.event]>>
                                     ELSE << >>
HeadCommands(a) == IF a.isHead THEN <<[op |-> "travel", to |-> a.event],
                                      [op |-> "down"]>>
                               ELSE << >>
TailCommands(b) == IF b.isTail THEN <<[op |-> "up"]>> ELSE << >>

InterpretPair ==
  /\ interp = "points"
  /\ LET ps == stroke[current].points
     IN /\ Len(ps) >= 2
        /\ said' = HeadCommands(ps[1])
                   \o <<[op |-> "line", to |-> ps[2].event]>>
  /\ interp' = "pair"
  /\ UNCHANGED <<pen, tablet, net, faults, rcv, sized, drawing, targetCalib,
                 current, typed, reservedMsg, table, history>>

Reserve ==
  /\ interp = "pair" /\ said # << >>
  /\ reservedMsg' = Append(reservedMsg, Head(said))
  /\ said' = Tail(said)
  /\ UNCHANGED <<pen, tablet, net, faults, rcv, sized, drawing, targetCalib,
                 interp, current, typed, table, history>>

(* ... looks whether the second is the tail, logs the first one and drops it,
   ... *)
logTable(points) ==
  table' = table \o [i \in DOMAIN points |->
                      [strokeIdx |-> points[i].strokeIdx,
                       event |-> points[i].event, millis |-> points[i].millis]]

InterpretTail ==
  /\ interp = "pair" /\ said = << >>
  /\ LET ps == stroke[current].points
     IN /\ reservedMsg' = reservedMsg \o TailCommands(ps[2])
        /\ logTable(<<ps[1]>>)
        /\ stroke' = [stroke EXCEPT ![current].points = Tail(ps)]
  /\ interp' = "points"
  /\ UNCHANGED <<pen, tablet, net, faults, rcv, sized, strokes, targetCalib,
                 current, said, typed, history>>

(* ... and in the end the last point ... *)
InterpretRest ==
  /\ interp = "points" /\ Len(stroke[current].points) < 2
  /\ logTable(stroke[current].points)
  /\ stroke' = [stroke EXCEPT ![current].points = << >>]
  /\ interp' = "remove"
  /\ UNCHANGED <<pen, tablet, net, faults, rcv, sized, strokes, targetCalib,
                 current, said, typed, reservedMsg, history>>

(* ... and takes the stroke off the list. *)
RemoveStroke ==
  /\ interp = "remove"
  /\ strokes' = Tail(strokes)
  /\ interp' = "idle" /\ current' = 0
  /\ UNCHANGED <<pen, tablet, net, faults, rcv, sized, stroke, targetCalib,
                 said, typed, reservedMsg, table, history>>

Pen == PenPress \/ PenDrag \/ PenRelease
Keyboard == ToggleMode \/ keyPressed \/ ReserveTyped
Oscp5 == ReadSizes \/ Receive \/ AddPointStore
Interpreting == \/ Interpret \/ InterpretPair \/ Reserve \/ InterpretTail
                \/ InterpretRest \/ RemoveStroke

Next == \/ Pen \/ Keyboard \/ OscStreaming \/ OscRace \/ NetFault
        \/ Oscp5 \/ Interpreting

Spec == Init /\ [][Next]_vars

(* The threads of the two programs run and UDP delivers what it does not
   lose; nobody has to draw. *)
FairSpec == Spec /\ WF_vars(OscStreaming) /\ WF_vars(Oscp5)
                 /\ WF_vars(Interpreting)

-----------------------------------------------------------------------------
(* What a stroke should look like on the paper: the pen travels to its first
   point, is lowered, joins the points (the last one of each millisecond) and
   is raised.  A stroke within one millisecond leaves no mark. *)
Kept(s) == SelectSeq([k \in DOMAIN s |->
                        [event |-> s[k].event, millis |-> s[k].millis,
                         keep |-> k = Len(s) \/ s[k + 1].millis # s[k].millis]],
                     LAMBDA p : p.keep)
Plot(s) ==
  LET k == Kept(s)
  IN <<[op |-> "travel", to |-> k[1].event], [op |-> "down"]>>
     \o [i \in 1 .. Len(k) - 1 |-> [op |-> "line", to |-> k[i + 1].event]]
     \o <<[op |-> "up"]>>
PlotAll(ss) == FlattenSeq([i \in DOMAIN ss |-> Plot(ss[i])])

(* And in the log: the strokes that were written have consecutive numbers, and
   a tail that shares its millisecond is a millisecond later. *)
Log(s, idx) ==
  LET k == Kept(s)
      shares == Len(s) > 1 /\ s[Len(s) - 1].millis = Last(s).millis
  IN [i \in DOMAIN k |->
        [strokeIdx |-> idx, event |-> k[i].event,
         millis |-> k[i].millis + IF i = Len(k) /\ shares THEN 1 ELSE 0]]
LogAll(ss) == FlattenSeq([i \in DOMAIN ss |-> Log(ss[i], i - 1)])

(* The commands of the strokes, without those of the keys. *)
Strokes(cmds) ==
  SelectSeq(cmds, LAMBDA c : c.op \in {"travel", "line", "down", "up"})

(* The millisecond of a stroke's head holds a second event, which overwrites
   the point that would lower the pen. *)
CrowdedHead == \E i \in DOMAIN written :
                 written[i][1].millis = written[i][2].millis

Accident == faults + races > 0 \/ midStroke \/ CrowdedHead

(* With no fault of the network or the message object, no point given up in a
   race of receiver and interpreter, and no mode switched under the pen, the
   plotter is told to draw the strokes that were written, in order, one after
   the other, and nothing else, whatever the delays between the threads and
   whatever keys put their own commands between: no point strays into a
   neighbouring stroke, no pen movement is missing.  The log has the same
   points in the same order. *)
PlotsWhatWasWritten ==
  ~Accident => /\ IsPrefix(Strokes(reservedMsg), PlotAll(written))
               /\ IsPrefix(table, LogAll(written))

(* Of two events of the pen, which came first; and the moves among commands. *)
Before(a, b) == a[1] < b[1] \/ (a[1] = b[1] /\ a[2] < b[2])
Moves(cmds) == {i \in DOMAIN cmds : cmds[i].op \in {"travel", "line"}}

(* As long as the network does its part, and even if modes are switched under
   the pen or events fall into one millisecond: a point is kept in the stroke
   it was drawn in, though the receiver puts it into whatever stroke is last
   when it comes in while the interpreter takes strokes off the list; the
   plotter is sent to no point twice and to none before an earlier one; and the
   log names the points, and their strokes, in the order they were drawn. *)
DrawnInOrder ==
  faults = 0 =>
    /\ \A id \in DOMAIN stroke : \A k \in DOMAIN stroke[id].points :
         stroke[id].points[k].strokeIdx = id - 1
    /\ \A i, j \in Moves(reservedMsg) :
         i < j => Before(reservedMsg[i].to, reservedMsg[j].to)
    /\ \A i, j \in DOMAIN table :
         i < j => /\ Before(table[i].event, table[j].event)
                  /\ table[i].strokeIdx <= table[j].strokeIdx

(* Before command i is carried out, the pen is down. *)
Lowered(cmds, i) ==
  \E j \in DOMAIN cmds :
    /\ j < i /\ cmds[j].op = "down"
    /\ \A k \in DOMAIN cmds : j < k /\ k < i => cmds[k].op # "up"
PenIsUp(cmds) == ~Lowered(cmds, Len(cmds) + 1)

(* Between two strokes the pen is off the paper, even if one datum was lost,
   doubled or swapped by the network, lost, doubled or mixed with another
   message by the sender, or given up by the receiver: a stroke that lost its
   end blocks the list before it can leave the pen down.  A move with the pen
   down joins two points of one and the same stroke. *)
InkStaysInStrokes ==
  faults + races <= 1 /\ ~midStroke /\ ~crowded =>
    /\ interp \notin {"points", "pair"} => PenIsUp(reservedMsg)
    /\ \A i, j \in Moves(reservedMsg) :
         /\ i < j /\ Lowered(reservedMsg, j)
         /\ \A k \in Moves(reservedMsg) : ~(i < k /\ k < j)
         => reservedMsg[i].to[1] = reservedMsg[j].to[1]

(* The origin of the drawing is only ever set by a contact that was meant to
   calibrate, in spite of points and calibrations using the same queue, as
   long as writing is switched on between strokes. *)
CalibrationIsDeliberate ==
  ~midStroke => targetCalib \in calibrated \cup {<< >>}

(* Every stroke written is plotted in the end. *)
EveryStrokePlotted ==
  \A n \in 1 .. MaxStrokes :
    (Len(written) >= n) ~>
      (Accident \/ /\ Len(written) >= n
                   /\ IsPrefix(PlotAll(SubSeq(written, 1, n)),
                               Strokes(reservedMsg)))
=============================================================================

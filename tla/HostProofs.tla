----------------------------- MODULE HostProofs -----------------------------
(***************************************************************************)
(* Proofs about the host and what it is told: module StrokePipeline, the   *)
(* way of a pen stroke, for any number of contacts, events, keys and       *)
(* faults; Messages, the answers it counts, for any lines and resets;      *)
(* Console, the listing of the settings it keeps, for any text typed; and  *)
(* CharCounting, the protocol by which it streams, for every budget and    *)
(* ring.                                                                   *)
(***************************************************************************)
EXTENDS StrokePipeline, Messages, Console, CharCounting, FiniteSetTheorems,
        FunctionTheorems, WellFoundedInduction, TLAPS

-----------------------------------------------------------------------------
(* What append and tail do to a sequence. *)
LEMMA Element ==
  ASSUME NEW T, NEW s \in Seq(T), NEW i \in DOMAIN s PROVE s[i] \in T
OBVIOUS

LEMMA Appends ==
  ASSUME NEW T, NEW s \in Seq(T), NEW e \in T
  PROVE  /\ Append(s, e) \in Seq(T) /\ Append(s, e) # << >>
         /\ Len(Append(s, e)) = Len(s) + 1
         /\ DOMAIN Append(s, e) = 1 .. Len(s) + 1 /\ DOMAIN s = 1 .. Len(s)
         /\ \A i \in 1 .. Len(s) : Append(s, e)[i] = s[i]
         /\ Append(s, e)[Len(s) + 1] = e
OBVIOUS

LEMMA Tails ==
  ASSUME NEW T, NEW s \in Seq(T), s # << >>
  PROVE  /\ Tail(s) \in Seq(T) /\ Head(s) = s[1] /\ Head(s) \in T
         /\ Len(s) \in Nat /\ Len(s) >= 1 /\ Len(Tail(s)) = Len(s) - 1
         /\ DOMAIN Tail(s) = 1 .. Len(s) - 1 /\ DOMAIN s = 1 .. Len(s)
         /\ \A i \in 1 .. Len(s) - 1 : Tail(s)[i] = s[i + 1]
OBVIOUS

LEMMA Concatenation ==
  ASSUME NEW T, NEW a \in Seq(T), NEW b \in Seq(T)
  PROVE  /\ a \o b \in Seq(T) /\ Len(a \o b) = Len(a) + Len(b)
         /\ \A k \in 1 .. Len(a) + Len(b) :
              (a \o b)[k] = IF k <= Len(a) THEN a[k] ELSE b[k - Len(a)]
OBVIOUS

LEMMA Sub ==
  ASSUME NEW T, NEW s \in Seq(T), NEW m \in Nat \ {0}, NEW n \in Nat, n <= Len(s),
         m <= n + 1
  PROVE  /\ SubSeq(s, m, n) \in Seq(T) /\ Len(SubSeq(s, m, n)) = n - m + 1
         /\ \A k \in 1 .. n - m + 1 : SubSeq(s, m, n)[k] = s[k + m - 1]
OBVIOUS

LEMMA JoinedTwice ==
  ASSUME NEW T, NEW a \in Seq(T), NEW b \in Seq(T), NEW c \in Seq(T)
  PROVE  (a \o b) \o c = a \o (b \o c)
OBVIOUS

LEMMA JoinedAppend ==
  ASSUME NEW T, NEW a \in Seq(T), NEW b \in Seq(T), NEW e \in T
  PROVE  a \o Append(b, e) = Append(a \o b, e)
OBVIOUS

LEMMA LastIn ==
  ASSUME NEW T, NEW s \in Seq(T), s # << >>
  PROVE  Last(s) \in T /\ Last(s) = s[Len(s)] /\ Len(s) \in DOMAIN s
BY DEF Last

LEMMA Fronts ==
  ASSUME NEW T, NEW s \in Seq(T), s # << >>
  PROVE  /\ Front(s) \in Seq(T) /\ Len(Front(s)) = Len(s) - 1
         /\ \A k \in 1 .. Len(s) - 1 : Front(s)[k] = s[k]
<1>1. Len(s) \in Nat /\ Len(s) >= 1
  OBVIOUS
<1>2. /\ SubSeq(s, 1, Len(s) - 1) \in Seq(T)
      /\ Len(SubSeq(s, 1, Len(s) - 1)) = Len(s) - 1
      /\ \A k \in 1 .. Len(s) - 1 : SubSeq(s, 1, Len(s) - 1)[k] = s[k]
  BY <1>1
<1> QED BY <1>2 DEF Front

(* The way of a stroke.  Types, with what makes them inductive. *)
Samples == {d \in Data : d.millis <= MaxMillis}
Drawn == [points : Seq(Point), isCompleted : BOOLEAN]

PenShape ==
  /\ contact \in 0 .. MaxStrokes /\ events \in 0 .. MaxEvents
  /\ millis \in 0 .. MaxMillis /\ toggles \in Nat
  /\ contact + events = 0 => millis = 0
  /\ penDown => contact >= 1 /\ events \in 1 .. MaxEvents - 1
  /\ strokeIdx \in Int /\ -1 <= strokeIdx /\ strokeIdx < contact

FlagShape ==
  /\ penDown \in BOOLEAN /\ modeWritable \in BOOLEAN
  /\ modeCalibration \in BOOLEAN /\ crowded \in BOOLEAN
  /\ midStroke \in BOOLEAN

QueueShape ==
  /\ tabletInputData \in Seq(Samples) /\ net \in Seq(Samples)
  /\ faults \in 0 .. MaxFaults

DrawingShape ==
  /\ stroke \in Seq(Drawn)
  /\ strokes \in Seq(DOMAIN stroke)
  /\ rcv = NoRcv \/ /\ rcv \in [st : DOMAIN stroke, last : Millis, msg : Samples]
                    /\ rcv.msg.idx # -1
  /\ targetCalib \in Events \cup {<< >>}
  /\ interp \in {"idle", "points", "pair", "remove"}
  /\ interp = "idle" => current = 0
  /\ interp # "idle" => strokes # << >> /\ current = Head(strokes)
  /\ interp = "pair" => Len(stroke[current].points) >= 2

CommandShape ==
  /\ said \in Seq(StrokeCommand) /\ typed \in Seq(KeyCommand)
  /\ reservedMsg \in Seq(Command) /\ table \in Seq(TableRow)

Shape == /\ PenShape /\ FlagShape /\ QueueShape /\ DrawingShape
         /\ CommandShape

LEMMA Positive ==
  /\ MaxStrokes \in Nat /\ MaxMillis \in Nat /\ MaxToggles \in Nat
  /\ MaxFaults \in Nat /\ MaxEvents \in Nat /\ MaxEvents >= 2
BY PipelineAssumption

(* The receiver's sizes and the history of faults, which decide nothing that
   the types of the rest depend on. *)
Counts == /\ sized = NoSizes \/ sized \in [strokes : Nat, points : Nat]
          /\ mixed \in BOOLEAN /\ races \in Nat

LEMMA ShapeIsTypeOK == Shape /\ Counts => TypeOK
<1> SUFFICES ASSUME Shape, Counts PROVE TypeOK
  OBVIOUS
<1> USE Positive
<1>1. /\ contact \in 0 .. MaxStrokes
      /\ events \in 0 .. MaxEvents /\ millis \in Millis /\ toggles \in Nat
      /\ strokeIdx \in -1 .. MaxStrokes
  BY DEF Shape, PenShape, Millis
<1>2. tabletInputData \in Seq(Data) /\ net \in Seq(Data) /\ faults \in 0 .. MaxFaults
  <2>1. Samples \subseteq Data
    BY DEF Samples
  <2> QED BY <2>1 DEF Shape, QueueShape
<1>3. /\ rcv = NoRcv \/ rcv \in [st : DOMAIN stroke, last : Millis, msg : Data]
      /\ strokes \in Seq(DOMAIN stroke)
      /\ targetCalib \in Events \cup {<< >>}
      /\ interp \in {"idle", "points", "pair", "remove"}
  BY DEF Shape, DrawingShape, Samples
<1>4. \A id \in DOMAIN stroke : /\ stroke[id].points \in Seq(Point)
                                /\ stroke[id].isCompleted \in BOOLEAN
  <2>1. \A id \in DOMAIN stroke : stroke[id] \in Drawn
    BY Element DEF Shape, DrawingShape
  <2> QED BY <2>1 DEF Drawn
<1>5. current \in {0} \cup DOMAIN stroke
  <2>1. strokes # << >> => Head(strokes) \in DOMAIN stroke
    BY Tails, <1>3
  <2> QED BY <2>1 DEF Shape, DrawingShape
<1>6. /\ penDown \in BOOLEAN /\ modeWritable \in BOOLEAN
      /\ modeCalibration \in BOOLEAN /\ crowded \in BOOLEAN
      /\ midStroke \in BOOLEAN
  BY DEF Shape, FlagShape
<1>7. CommandShape
  BY DEF Shape
<1> QED
  BY <1>1, <1>2, <1>3, <1>4, <1>5, <1>6, <1>7, Zenon
     DEF TypeOK, CommandShape, Counts

LEMMA InitShape == Init => Shape
<1> SUFFICES ASSUME Init PROVE Shape
  OBVIOUS
<1>1. PenShape
  BY Positive DEF Init, PenShape
<1>2. FlagShape
  BY Zenon DEF Init, FlagShape
<1>3. QueueShape
  BY Positive DEF Init, QueueShape
<1>4. DrawingShape
  BY DEF Init, DrawingShape
<1>5. CommandShape
  BY DEF Init, CommandShape
<1> QED BY <1>1, <1>2, <1>3, <1>4, <1>5 DEF Shape

(* The datum of a pen event. *)
LEMMA DatumFits ==
  ASSUME NEW idx \in -1 .. MaxStrokes, NEW e \in Events, NEW t \in 0 .. MaxMillis,
         NEW h \in BOOLEAN, NEW l \in BOOLEAN
  PROVE  DataOf(idx, e, t, h, l) \in Samples
BY Positive DEF DataOf, Samples, Data, Millis

(* A pen event is a step of the pen and of TabletInput. *)
Event(action, t) ==
  /\ t \in 0 .. MaxMillis /\ millis <= t /\ millis' = t
  /\ <<contact', events'>> \in Events
  /\ typed = << >>
  /\ crowded' = (crowded \/ (contact + events > 0 /\ t = millis))
  /\ \/ CalibrationEvent(action, <<contact', events'>>, t)
     \/ WritingEvent(action, <<contact', events'>>, t)
     \/ IdleEvent
  /\ UNCHANGED <<toggles, net, faults, rcv, sized, drawing, targetCalib,
                 interpreter, midStroke, mixed, races>>

LEMMA EventOf ==
  ASSUME Shape, NEW action, mouseEvent(action), <<contact', events'>> \in Events
  PROVE  \E t : Event(action, t)
<1>1. PICK t \in IF contact + events = 0 THEN {0} ELSE millis .. millis + 1 :
        /\ t <= MaxMillis
        /\ millis' = t
        /\ crowded' = (crowded \/ (contact + events > 0 /\ t = millis))
        /\ \/ CalibrationEvent(action, <<contact', events'>>, t)
           \/ WritingEvent(action, <<contact', events'>>, t)
           \/ IdleEvent
  BY DEF mouseEvent
<1>2. t \in 0 .. MaxMillis /\ millis <= t
  BY <1>1, Positive DEF Shape, PenShape
<1> QED BY <1>1, <1>2 DEF mouseEvent, Event

LEMMA PenEvents ==
  ASSUME Shape, Pen
  PROVE  \/ /\ PenPress /\ \E t : Event("PRESS", t)
         \/ /\ PenDrag /\ \E t : Event("DRAG", t)
         \/ /\ PenRelease /\ \E t : Event("RELEASE", t)
<1> USE Positive
<1>1. CASE PenPress
  <2>1. <<contact', events'>> \in Events
    BY <1>1 DEF PenPress, Shape, PenShape, Events
  <2> QED BY <1>1, <2>1, EventOf DEF PenPress
<1>2. CASE PenDrag
  <2>1. <<contact', events'>> \in Events
    BY <1>2 DEF PenDrag, Shape, PenShape, Events
  <2> QED BY <1>2, <2>1, EventOf DEF PenDrag
<1>3. CASE PenRelease
  <2>1. <<contact', events'>> \in Events
    BY <1>3 DEF PenRelease, Shape, PenShape, Events
  <2> QED BY <1>3, <2>1, EventOf DEF PenRelease
<1> QED BY <1>1, <1>2, <1>3 DEF Pen

LEMMA EventKeeps ==
  ASSUME Shape, NEW action \in {"PRESS", "DRAG", "RELEASE"},
         NEW t, Event(action, t),
         contact' = IF action = "PRESS" THEN contact + 1 ELSE contact
  PROVE  /\ tabletInputData' \in Seq(Samples)
         /\ strokeIdx' \in Int /\ -1 <= strokeIdx' /\ strokeIdx' < contact'
         /\ modeWritable' \in BOOLEAN /\ modeCalibration' \in BOOLEAN
<1> USE Positive
<1> DEFINE e == <<contact', events'>>
<1>0. e \in Events /\ t \in 0 .. MaxMillis /\ -1 \in -1 .. MaxStrokes
      /\ contact' \in 1 .. MaxStrokes
      /\ strokeIdx \in Int /\ -1 <= strokeIdx /\ strokeIdx < contact
      /\ contact \in Nat /\ tabletInputData \in Seq(Samples)
  BY DEF Event, Events, Shape, PenShape, QueueShape
<1>1. modeWritable \in BOOLEAN /\ modeCalibration \in BOOLEAN
  BY DEF Shape, FlagShape
<1>2. CASE CalibrationEvent(action, e, t)
  <2>1. DataOf(-1, e, t, FALSE, FALSE) \in Samples
    BY <1>0, DatumFits
  <2>2. tabletInputData' \in Seq(Samples)
    BY <1>0, <1>2, <2>1, Appends DEF CalibrationEvent
  <2>3. strokeIdx' \in Int /\ -1 <= strokeIdx' /\ strokeIdx' < contact'
    BY <1>0, <1>2 DEF CalibrationEvent
  <2>4. modeWritable' \in BOOLEAN /\ modeCalibration' \in BOOLEAN
    BY <1>1, <1>2 DEF CalibrationEvent
  <2> QED BY <2>2, <2>3, <2>4
<1>3. CASE WritingEvent(action, e, t)
  <2>1. strokeIdx' \in Int /\ -1 <= strokeIdx' /\ strokeIdx' < contact'
        /\ strokeIdx' \in -1 .. MaxStrokes
    BY <1>0, <1>3 DEF WritingEvent, NextStrokeIdx
  <2>2. (action = "PRESS") \in BOOLEAN /\ (action = "RELEASE") \in BOOLEAN
    OBVIOUS
  <2>3. DataOf(strokeIdx', e, t, action = "PRESS", action = "RELEASE") \in Samples
    BY <1>0, <2>1, <2>2, DatumFits
  <2>4. tabletInputData' \in Seq(Samples)
    BY <1>0, <1>3, <2>3, Appends DEF WritingEvent
  <2>5. modeWritable' \in BOOLEAN /\ modeCalibration' \in BOOLEAN
    BY <1>1, <1>3 DEF WritingEvent
  <2> QED BY <2>1, <2>4, <2>5
<1>4. CASE IdleEvent
  <2>1. UNCHANGED tablet
    BY <1>4 DEF IdleEvent
  <2> QED BY <1>0, <1>1, <2>1 DEF tablet
<1> QED BY <1>2, <1>3, <1>4 DEF Event

LEMMA PenKeepsShape ==
  ASSUME Shape, Pen PROVE Shape'
<1> USE Positive
<1>1. ASSUME NEW action \in {"PRESS", "DRAG", "RELEASE"}, NEW t,
             Event(action, t), penDown' \in BOOLEAN,
             contact' = IF action = "PRESS" THEN contact + 1 ELSE contact,
             penDown' => events' \in 1 .. MaxEvents - 1
      PROVE  Shape'
  <2>0. /\ tabletInputData' \in Seq(Samples)
        /\ strokeIdx' \in Int /\ -1 <= strokeIdx' /\ strokeIdx' < contact'
        /\ modeWritable' \in BOOLEAN /\ modeCalibration' \in BOOLEAN
    BY <1>1, EventKeeps
  <2>1. PenShape'
    BY <1>1, <2>0 DEF Event, Events, Shape, PenShape
  <2>2. FlagShape'
    <3>1. crowded' \in BOOLEAN /\ midStroke' \in BOOLEAN
      BY <1>1 DEF Event, Shape, FlagShape
    <3> QED BY <1>1, <2>0, <3>1, Zenon DEF FlagShape
  <2>3. QueueShape'
    BY <1>1, <2>0 DEF Event, Shape, QueueShape
  <2>4. DrawingShape'
    BY <1>1 DEF Event, drawing, interpreter, Shape, DrawingShape
  <2>5. CommandShape'
    BY <1>1 DEF Event, interpreter, Shape, CommandShape
  <2> QED BY <2>1, <2>2, <2>3, <2>4, <2>5 DEF Shape
<1>2. CASE PenPress
  <2>1. PICK t : Event("PRESS", t)
    BY <1>2, PenEvents, EventOf DEF PenPress, Events, Shape, PenShape
  <2> QED BY <1>1, <1>2, <2>1 DEF PenPress
<1>3. CASE PenDrag
  <2>1. PICK t : Event("DRAG", t)
    BY <1>3, EventOf DEF PenDrag, Events, Shape, PenShape
  <2>2. penDown' \in BOOLEAN
    BY <1>3, Zenon DEF PenDrag, Shape, FlagShape
  <2>3. events' \in 1 .. MaxEvents - 1 /\ contact' = contact
    BY <1>3 DEF PenDrag, Shape, PenShape
  <2> QED BY <1>1, <2>1, <2>2, <2>3
<1>4. CASE PenRelease
  <2>1. PICK t : Event("RELEASE", t)
    BY <1>4, EventOf DEF PenRelease, Events, Shape, PenShape
  <2> QED BY <1>1, <1>4, <2>1 DEF PenRelease
<1> QED BY <1>2, <1>3, <1>4 DEF Pen

LEMMA ToggleKeepsShape ==
  ASSUME Shape, ToggleMode PROVE Shape'
<1>1. PenShape'
  BY DEF ToggleMode, Shape, PenShape
<1>2. FlagShape'
  BY Zenon DEF ToggleMode, Shape, FlagShape
<1>3. QueueShape'
  BY DEF ToggleMode, Shape, QueueShape
<1>4. DrawingShape'
  BY DEF ToggleMode, drawing, interpreter, Shape, DrawingShape
<1>5. CommandShape'
  BY DEF ToggleMode, interpreter, Shape, CommandShape
<1> QED BY <1>1, <1>2, <1>3, <1>4, <1>5 DEF Shape

LEMMA KeyCommandsFit ==
  ASSUME NEW key \in Keys PROVE KeyCommands(key) \in Seq(KeyCommand)
<1>1. \A op \in {"G92", "G90", "G93", "$$", "$120", "$121"} :
        [op |-> op] \in KeyCommand
  BY DEF KeyCommand
<1>2. \A S \in {0, "servoHover", "servoZero"} :
        [op |-> "M3", S |-> S] \in KeyCommand
  BY DEF KeyCommand
<1>3. key \in {"h", "?", "x", "w", "s", "[", "]"}
  BY PipelineAssumption
<1> QED BY <1>1, <1>2, <1>3 DEF KeyCommands

LEMMA KeyKeepsShape ==
  ASSUME Shape, keyPressed \/ ReserveTyped PROVE Shape'
<1>1. UNCHANGED <<penDown, contact, events, millis, tablet, net, faults, rcv,
                  drawing, targetCalib, interp, current, said, table, history>>
      /\ toggles' \in Nat
  BY DEF keyPressed, ReserveTyped, pen, Shape, PenShape
<1>2. PenShape'
  BY <1>1 DEF tablet, Shape, PenShape
<1>3. FlagShape'
  BY <1>1 DEF tablet, history, Shape, FlagShape
<1>4. QueueShape'
  BY <1>1 DEF tablet, Shape, QueueShape
<1>5. DrawingShape'
  BY <1>1 DEF drawing, Shape, DrawingShape
<1>6. CommandShape'
  <2>1. CASE keyPressed
    BY <2>1, KeyCommandsFit DEF keyPressed, Shape, CommandShape
  <2>2. CASE ReserveTyped
    <3>1. /\ Head(typed) \in KeyCommand /\ typed' \in Seq(KeyCommand)
          /\ reservedMsg \in Seq(Command)
      BY <2>2, Tails DEF ReserveTyped, Shape, CommandShape
    <3>2. reservedMsg' \in Seq(Command)
      BY <2>2, <3>1, Appends DEF ReserveTyped, Command
    <3> QED BY <2>2, <3>1, <3>2 DEF ReserveTyped, Shape, CommandShape
  <2> QED BY <2>1, <2>2
<1> QED BY <1>2, <1>3, <1>4, <1>5, <1>6 DEF Shape

LEMMA StreamingKeepsShape ==
  ASSUME Shape, OscStreaming PROVE Shape'
<1>1. PenShape'
  BY DEF OscStreaming, pen, Shape, PenShape
<1>2. FlagShape'
  BY DEF OscStreaming, pen, history, Shape, FlagShape
<1>3. QueueShape'
  <2>1. Head(tabletInputData) \in Samples /\ Tail(tabletInputData) \in Seq(Samples)
    BY Tails DEF OscStreaming, Shape, QueueShape
  <2> QED BY <2>1, Appends DEF OscStreaming, Shape, QueueShape
<1>4. DrawingShape'
  BY DEF OscStreaming, drawing, interpreter, Shape, DrawingShape
<1>5. CommandShape'
  BY DEF OscStreaming, interpreter, Shape, CommandShape
<1> QED BY <1>1, <1>2, <1>3, <1>4, <1>5 DEF Shape

(* A datum that the message for the connection gets in the way of. *)
Mixtures(d) == {[d EXCEPT !.isHead = FALSE, !.isTail = d.isHead],
                [d EXCEPT !.isTail = FALSE]}

LEMMA MixturesFit ==
  ASSUME NEW d \in Samples, NEW m \in Mixtures(d)
  PROVE  m \in Samples /\ m.idx = d.idx /\ m.event = d.event
         /\ m.millis = d.millis
BY DEF Mixtures, Samples, Data

LEMMA OscRaceIs ==
  ASSUME Shape, OscRace
  PROVE  /\ tabletInputData # << >> /\ tabletInputData' = Tail(tabletInputData)
         /\ Head(tabletInputData) \in Samples
         /\ tabletInputData' \in Seq(Samples)
         /\ \/ net' = net /\ mixed' = mixed
            \/ /\ net' = net \o <<Head(tabletInputData), Head(tabletInputData)>>
               /\ mixed' = mixed
            \/ /\ Head(tabletInputData).idx # -1 /\ mixed' = TRUE
               /\ \E m \in Mixtures(Head(tabletInputData)) : net' = Append(net, m)
BY Tails DEF OscRace, Mixtures, Shape, QueueShape

LEMMA RaceAdds ==
  ASSUME NEW T, NEW s \in Seq(T), NEW d \in T
  PROVE  /\ s \o <<d, d>> \in Seq(T) /\ Len(s \o <<d, d>>) = Len(s) + 2
         /\ \A i \in 1 .. Len(s) : (s \o <<d, d>>)[i] = s[i]
         /\ (s \o <<d, d>>)[Len(s) + 1] = d /\ (s \o <<d, d>>)[Len(s) + 2] = d
<1> DEFINE e == <<d, d>>
<1>1. e \in Seq(T) /\ Len(e) = 2 /\ e[1] = d /\ e[2] = d
  OBVIOUS
<1> HIDE DEF e
<1> DEFINE u == s \o e
<1>2. /\ u \in Seq(T) /\ Len(u) = Len(s) + Len(e)
      /\ \A i \in 1 .. Len(s) + Len(e) :
           u[i] = IF i <= Len(s) THEN s[i] ELSE e[i - Len(s)]
  BY <1>1, Concatenation
<1> HIDE DEF u
<1>2a. Len(s) \in Nat
  OBVIOUS
<1>3. /\ u \in Seq(T) /\ Len(u) = Len(s) + 2
      /\ \A i \in 1 .. Len(s) : u[i] = s[i]
      /\ u[Len(s) + 1] = d /\ u[Len(s) + 2] = d
  BY <1>1, <1>2, <1>2a
<1> QED BY <1>3, Zenon DEF u, e

LEMMA OscRaceKeepsShape ==
  ASSUME Shape, OscRace PROVE Shape'
<1>1. PenShape'
  BY DEF OscRace, pen, Shape, PenShape
<1>2. FlagShape'
  BY DEF OscRace, pen, Shape, FlagShape
<1>3. QueueShape'
  <2>1. net \in Seq(Samples) /\ faults' \in 0 .. MaxFaults
    BY Positive DEF OscRace, Shape, QueueShape
  <2>2. net' \in Seq(Samples)
    <3> DEFINE d == Head(tabletInputData)
    <3>1. d \in Samples
      BY OscRaceIs
    <3>2. net \o <<d, d>> \in Seq(Samples)
      BY <2>1, <3>1, RaceAdds
    <3>3. \A m \in Mixtures(d) : Append(net, m) \in Seq(Samples)
      BY <2>1, <3>1, MixturesFit, Appends
    <3>4. \/ net' = net \/ net' = net \o <<d, d>>
          \/ \E m \in Mixtures(d) : net' = Append(net, m)
      BY OscRaceIs
    <3> HIDE DEF d
    <3> QED BY <2>1, <3>2, <3>3, <3>4
  <2> QED BY <2>1, <2>2, OscRaceIs DEF QueueShape
<1>4. DrawingShape'
  BY DEF OscRace, drawing, interpreter, Shape, DrawingShape
<1>5. CommandShape'
  BY DEF OscRace, interpreter, Shape, CommandShape
<1> QED BY <1>1, <1>2, <1>3, <1>4, <1>5 DEF Shape

LEMMA ReadSizesKeepsShape ==
  ASSUME Shape, ReadSizes PROVE Shape'
<1>1. UNCHANGED <<pen, tablet, net, faults, rcv, drawing, targetCalib,
                  interpreter, history>>
  BY DEF ReadSizes
<1> QED BY <1>1 DEF pen, tablet, drawing, interpreter, history, Shape,
           PenShape, FlagShape, QueueShape, DrawingShape, CommandShape

(* What one fault does to the network: every datum after it was there before
   it, one place further on or back at most. *)
LEMMA FaultMoves ==
  ASSUME NEW T, NEW s \in Seq(T), NEW i \in DOMAIN s
  PROVE  /\ /\ RemoveAt(s, i) \in Seq(T) /\ Len(RemoveAt(s, i)) = Len(s) - 1
            /\ \A k \in 1 .. Len(s) - 1 :
                 RemoveAt(s, i)[k] = IF k < i THEN s[k] ELSE s[k + 1]
         /\ /\ InsertAt(s, i, s[i]) \in Seq(T)
            /\ Len(InsertAt(s, i, s[i])) = Len(s) + 1
            /\ \A k \in 1 .. Len(s) + 1 :
                 InsertAt(s, i, s[i])[k] = IF k <= i THEN s[k] ELSE s[k - 1]
         /\ i < Len(s) =>
              LET t == [s EXCEPT ![i] = s[i + 1], ![i + 1] = s[i]]
              IN t \in Seq(T) /\ Len(t) = Len(s)
                 /\ \A k \in 1 .. Len(s) : t[k] = IF k = i THEN s[i + 1]
                                           ELSE IF k = i + 1 THEN s[i] ELSE s[k]
<1>0. Len(s) \in Nat /\ i \in 1 .. Len(s) /\ DOMAIN s = 1 .. Len(s)
      /\ s[i] \in T
  BY Element
<1>1. /\ RemoveAt(s, i) \in Seq(T) /\ Len(RemoveAt(s, i)) = Len(s) - 1
      /\ \A k \in 1 .. Len(s) - 1 :
           RemoveAt(s, i)[k] = IF k < i THEN s[k] ELSE s[k + 1]
  <2> DEFINE a == SubSeq(s, 1, i - 1)
             b == SubSeq(s, i + 1, Len(s))
  <2>1. a \in Seq(T) /\ Len(a) = i - 1 /\ \A k \in 1 .. i - 1 : a[k] = s[k]
    BY <1>0, Sub
  <2>2. b \in Seq(T) /\ Len(b) = Len(s) - i
        /\ \A k \in 1 .. Len(s) - i : b[k] = s[k + i]
    BY <1>0, Sub
  <2>3. RemoveAt(s, i) = a \o b
    BY DEF RemoveAt
  <2> HIDE DEF a, b
  <2> DEFINE r == RemoveAt(s, i)
  <2>4. /\ r \in Seq(T) /\ Len(r) = Len(a) + Len(b)
        /\ \A k \in 1 .. Len(a) + Len(b) :
             r[k] = IF k <= Len(a) THEN a[k] ELSE b[k - Len(a)]
    BY <2>1, <2>2, <2>3, Concatenation
  <2> HIDE DEF r
  <2>5. r \in Seq(T) /\ Len(r) = Len(s) - 1
    BY <1>0, <2>1, <2>2, <2>4
  <2>6. ASSUME NEW k \in 1 .. Len(s) - 1
        PROVE  r[k] = IF k < i THEN s[k] ELSE s[k + 1]
    <3>1. k \in 1 .. Len(a) + Len(b)
      BY <1>0, <2>1, <2>2
    <3>2. r[k] = IF k <= Len(a) THEN a[k] ELSE b[k - Len(a)]
      BY <2>4, <3>1
    <3>3. CASE k < i
      <4>1. k <= Len(a) /\ k \in 1 .. i - 1
        BY <1>0, <2>1, <3>3
      <4> QED BY <2>1, <3>2, <3>3, <4>1
    <3>4. CASE ~(k < i)
      <4>1. ~(k <= Len(a)) /\ k - Len(a) \in 1 .. Len(s) - i
            /\ k - Len(a) + i = k + 1
        BY <1>0, <2>1, <3>4
      <4> QED BY <2>2, <3>2, <3>4, <4>1
    <3> QED BY <3>3, <3>4
  <2> QED BY <2>5, <2>6 DEF r
<1>2. /\ InsertAt(s, i, s[i]) \in Seq(T)
      /\ Len(InsertAt(s, i, s[i])) = Len(s) + 1
      /\ \A k \in 1 .. Len(s) + 1 :
           InsertAt(s, i, s[i])[k] = IF k <= i THEN s[k] ELSE s[k - 1]
  <2> DEFINE a == SubSeq(s, 1, i - 1)
             b == SubSeq(s, i, Len(s))
             c == a \o <<s[i]>>
  <2>1. a \in Seq(T) /\ Len(a) = i - 1 /\ \A k \in 1 .. i - 1 : a[k] = s[k]
    BY <1>0, Sub
  <2>2. b \in Seq(T) /\ Len(b) = Len(s) - i + 1
        /\ \A k \in 1 .. Len(s) - i + 1 : b[k] = s[k + i - 1]
    BY <1>0, Sub
  <2>3. <<s[i]>> \in Seq(T) /\ Len(<<s[i]>>) = 1 /\ <<s[i]>>[1] = s[i]
    BY <1>0
  <2>4. InsertAt(s, i, s[i]) = c \o b
    BY DEF InsertAt
  <2> HIDE DEF a, b
  <2>5. /\ c \in Seq(T) /\ Len(c) = i
        /\ \A k \in 1 .. i : c[k] = s[k]
    <3>1. /\ c \in Seq(T) /\ Len(c) = Len(a) + 1
          /\ \A k \in 1 .. Len(a) + 1 :
               c[k] = IF k <= Len(a) THEN a[k] ELSE <<s[i]>>[k - Len(a)]
      BY <2>1, <2>3, Concatenation
    <3> QED BY <1>0, <2>1, <2>3, <3>1
  <2> HIDE DEF c
  <2> DEFINE r == InsertAt(s, i, s[i])
  <2>6. /\ r \in Seq(T) /\ Len(r) = Len(c) + Len(b)
        /\ \A k \in 1 .. Len(c) + Len(b) :
             r[k] = IF k <= Len(c) THEN c[k] ELSE b[k - Len(c)]
    <3>1. /\ c \o b \in Seq(T) /\ Len(c \o b) = Len(c) + Len(b)
          /\ \A k \in 1 .. Len(c) + Len(b) :
               (c \o b)[k] = IF k <= Len(c) THEN c[k] ELSE b[k - Len(c)]
      BY <2>2, <2>5, Concatenation
    <3> QED BY <2>4, <3>1, Zenon
  <2> HIDE DEF r
  <2>7. r \in Seq(T) /\ Len(r) = Len(s) + 1
    BY <1>0, <2>2, <2>5, <2>6
  <2>8. ASSUME NEW k \in 1 .. Len(s) + 1
        PROVE  r[k] = IF k <= i THEN s[k] ELSE s[k - 1]
    <3>1. k \in 1 .. Len(c) + Len(b)
      BY <1>0, <2>2, <2>5
    <3>2. r[k] = IF k <= Len(c) THEN c[k] ELSE b[k - Len(c)]
      BY <2>6, <3>1
    <3>3. CASE k <= i
      <4>1. k <= Len(c) /\ k \in 1 .. i
        BY <1>0, <2>5, <3>3
      <4> QED BY <2>5, <3>2, <3>3, <4>1
    <3>4. CASE ~(k <= i)
      <4>1. ~(k <= Len(c)) /\ k - Len(c) \in 1 .. Len(s) - i + 1
            /\ k - Len(c) + i - 1 = k - 1
        BY <1>0, <2>5, <3>4
      <4> QED BY <2>2, <3>2, <3>4, <4>1
    <3> QED BY <3>3, <3>4
  <2> QED BY <2>7, <2>8 DEF r
<1>3. ASSUME i < Len(s)
      PROVE  LET t == [s EXCEPT ![i] = s[i + 1], ![i + 1] = s[i]]
             IN t \in Seq(T) /\ Len(t) = Len(s)
                /\ \A k \in 1 .. Len(s) : t[k] = IF k = i THEN s[i + 1]
                                          ELSE IF k = i + 1 THEN s[i] ELSE s[k]
  BY <1>0, <1>3
<1> QED BY <1>1, <1>2, <1>3

LEMMA NothingInvented ==
  ASSUME NEW T, NEW s \in Seq(T), NEW i \in DOMAIN s, NEW t,
         \/ t = RemoveAt(s, i)
         \/ t = InsertAt(s, i, s[i])
         \/ i < Len(s) /\ t = [s EXCEPT ![i] = s[i + 1], ![i + 1] = s[i]]
  PROVE  t \in Seq(T) /\ \A k \in DOMAIN t : \E j \in DOMAIN s : t[k] = s[j]
<1>0. Len(s) \in Nat /\ i \in 1 .. Len(s) /\ DOMAIN s = 1 .. Len(s)
  OBVIOUS
<1>1. CASE t = RemoveAt(s, i)
  <2>1. t \in Seq(T) /\ Len(t) = Len(s) - 1
        /\ \A k \in 1 .. Len(s) - 1 : t[k] = IF k < i THEN s[k] ELSE s[k + 1]
    BY <1>1, FaultMoves
  <2>2. ASSUME NEW k \in DOMAIN t PROVE \E j \in DOMAIN s : t[k] = s[j]
    <3>1. k \in 1 .. Len(s) - 1 /\ k \in DOMAIN s /\ k + 1 \in DOMAIN s
      BY <1>0, <2>1
    <3> QED BY <2>1, <3>1
  <2> QED BY <2>1, <2>2
<1>2. CASE t = InsertAt(s, i, s[i])
  <2>1. t \in Seq(T) /\ Len(t) = Len(s) + 1
        /\ \A k \in 1 .. Len(s) + 1 : t[k] = IF k <= i THEN s[k] ELSE s[k - 1]
    BY <1>2, FaultMoves
  <2>2. ASSUME NEW k \in DOMAIN t PROVE \E j \in DOMAIN s : t[k] = s[j]
    <3>1. k \in 1 .. Len(s) + 1
      BY <2>1
    <3>2. CASE k <= i
      <4>1. k \in DOMAIN s
        BY <1>0, <3>1, <3>2
      <4>2. t[k] = s[k]
        BY <2>1, <3>1, <3>2
      <4> QED BY <4>1, <4>2
    <3>3. CASE ~(k <= i)
      <4>1. k - 1 \in DOMAIN s
        BY <1>0, <3>1, <3>3
      <4>2. t[k] = s[k - 1]
        BY <2>1, <3>1, <3>3
      <4> QED BY <4>1, <4>2
    <3> QED BY <3>2, <3>3
  <2> QED BY <2>1, <2>2
<1>3. CASE i < Len(s) /\ t = [s EXCEPT ![i] = s[i + 1], ![i + 1] = s[i]]
  <2>1. t \in Seq(T) /\ Len(t) = Len(s)
        /\ \A k \in 1 .. Len(s) : t[k] = IF k = i THEN s[i + 1]
                                         ELSE IF k = i + 1 THEN s[i] ELSE s[k]
    BY <1>3, FaultMoves
  <2>2. DOMAIN t = 1 .. Len(s)
    BY <2>1
  <2> QED BY <1>0, <1>3, <2>1, <2>2
<1> QED BY <1>1, <1>2, <1>3

LEMMA FaultKeepsShape ==
  ASSUME Shape, NetFault PROVE Shape'
<1>1. PenShape'
  BY DEF NetFault, pen, tablet, Shape, PenShape
<1>2. FlagShape'
  BY DEF NetFault, pen, tablet, history, Shape, FlagShape
<1>3. QueueShape'
  <2>1. PICK i \in DOMAIN net :
          \/ net' = RemoveAt(net, i)
          \/ net' = InsertAt(net, i, net[i])
          \/ i < Len(net) /\ net' = [net EXCEPT ![i] = net[i + 1],
                                              ![i + 1] = net[i]]
    BY DEF NetFault
  <2>3. net' \in Seq(Samples)
    BY <2>1, NothingInvented DEF Shape, QueueShape
  <2>2. faults' \in 0 .. MaxFaults /\ tabletInputData' \in Seq(Samples)
    BY Positive DEF NetFault, tablet, Shape, QueueShape
  <2> QED BY <2>2, <2>3 DEF QueueShape
<1>4. DrawingShape'
  BY DEF NetFault, drawing, interpreter, Shape, DrawingShape
<1>5. CommandShape'
  BY DEF NetFault, interpreter, Shape, CommandShape
<1> QED BY <1>1, <1>2, <1>3, <1>4, <1>5 DEF Shape

(* The datagram in hand. *)
LEMMA ReceiveKeepsShape ==
  ASSUME Shape, Receive PROVE Shape'
<1>1. PenShape'
  BY DEF Receive, pen, tablet, Shape, PenShape
<1>2. FlagShape'
  BY DEF Receive, pen, tablet, history, Shape, FlagShape
<1>3. CommandShape'
  BY DEF Receive, interpreter, Shape, CommandShape
<1> DEFINE m == Head(net)
<1>4. m \in Samples /\ Tail(net) \in Seq(Samples)
  BY Tails DEF Receive, Shape, QueueShape
<1>5. QueueShape'
  BY <1>4 DEF Receive, tablet, Shape, QueueShape
<1> HIDE DEF m
<1>6. DrawingShape'
  <2>0. /\ DrawingShape /\ UNCHANGED interpreter
        /\ ReceiveCalibration(m) \/ AddStroke(m) \/ AddPointLoad(m)
    BY DEF Receive, Shape, m
  <2>1. CASE ReceiveCalibration(m)
    <3>1. m.event \in Events
      BY <1>4 DEF Samples, Data
    <3> QED BY <2>0, <2>1, <3>1
            DEF ReceiveCalibration, drawing, interpreter, DrawingShape
  <2>2. CASE AddStroke(m)
    <3> DEFINE s == [points |-> <<[strokeIdx |-> m.idx, event |-> m.event,
                                   millis |-> m.millis,
                                   isHead |-> TRUE, isTail |-> FALSE]>>,
                     isCompleted |-> FALSE]
    <3>1. m.idx \in 0 .. MaxStrokes /\ m.event \in Events /\ m.millis \in Millis
      BY <1>4, <2>2, Positive DEF AddStroke, Samples, Data, Millis
    <3>2. s \in Drawn
      BY <3>1 DEF Drawn, Point
    <3> HIDE DEF s
    <3>3. stroke' = Append(stroke, s) /\ strokes' = Append(strokes, Len(stroke'))
          /\ UNCHANGED <<rcv, targetCalib, interp, current>>
      BY <2>0, <2>2 DEF AddStroke, interpreter, s
    <3>4. /\ stroke' \in Seq(Drawn) /\ Len(stroke') = Len(stroke) + 1
          /\ DOMAIN stroke' = 1 .. Len(stroke) + 1
          /\ DOMAIN stroke = 1 .. Len(stroke) /\ Len(stroke) \in Nat
          /\ \A i \in DOMAIN stroke : stroke'[i] = stroke[i]
      BY <2>0, <3>2, <3>3, Appends DEF DrawingShape
    <3>5. DOMAIN stroke \subseteq DOMAIN stroke' /\ Len(stroke') \in DOMAIN stroke'
      BY <3>4
    <3>6. /\ strokes' \in Seq(DOMAIN stroke') /\ strokes' # << >>
          /\ strokes # << >> => Head(strokes') = Head(strokes)
                                /\ Head(strokes) \in DOMAIN stroke
      <4>1. strokes \in Seq(DOMAIN stroke')
        BY <2>0, <3>5 DEF DrawingShape
      <4>2. /\ strokes' \in Seq(DOMAIN stroke') /\ strokes' # << >>
            /\ \A i \in 1 .. Len(strokes) : strokes'[i] = strokes[i]
        BY <3>3, <3>5, <4>1, Appends
      <4>3. strokes # << >> => 1 \in 1 .. Len(strokes)
                                /\ Head(strokes) = strokes[1]
                                /\ Head(strokes) \in DOMAIN stroke
        BY <2>0, Tails DEF DrawingShape
      <4>4. Head(strokes') = strokes'[1]
        BY <4>2
      <4> QED BY <4>2, <4>3, <4>4
    <3>7. interp # "idle" => current \in DOMAIN stroke
      BY <2>0, <3>6 DEF DrawingShape
    <3>8. rcv' = NoRcv \/ /\ rcv' \in [st : DOMAIN stroke', last : Millis,
                                       msg : Samples]
                          /\ rcv'.msg.idx # -1
      BY <2>0, <3>3, <3>5 DEF DrawingShape
    <3> QED BY <2>0, <3>3, <3>4, <3>6, <3>7, <3>8 DEF DrawingShape
  <2>3. CASE AddPointLoad(m)
    <3>1. CASE UNCHANGED rcv
      BY <2>0, <2>3, <3>1 DEF AddPointLoad, drawing, interpreter, DrawingShape
    <3>2. CASE /\ strokes # << >> /\ stroke[Last(strokes)].points # << >>
               /\ rcv' = [st |-> Last(strokes),
                          last |-> Last(stroke[Last(strokes)].points).millis,
                          msg |-> m]
      <4>1. Last(strokes) \in DOMAIN stroke
        BY <2>0, <3>2, LastIn DEF DrawingShape
      <4>2. stroke[Last(strokes)].points \in Seq(Point)
        <5>1. stroke[Last(strokes)] \in Drawn
          BY <2>0, <4>1, Element DEF DrawingShape
        <5> QED BY <5>1 DEF Drawn
      <4>3. Last(stroke[Last(strokes)].points).millis \in Millis
        <5>1. Last(stroke[Last(strokes)].points) \in Point
          BY <3>2, <4>2, LastIn
        <5> QED BY <5>1 DEF Point
      <4>4. rcv' \in [st : DOMAIN stroke, last : Millis, msg : Samples]
            /\ rcv'.msg.idx # -1
        BY <1>4, <2>3, <3>2, <4>1, <4>3 DEF AddPointLoad
      <4> QED BY <2>0, <2>3, <4>4 DEF AddPointLoad, drawing, interpreter,
                 DrawingShape
    <3> QED BY <2>3, <3>1, <3>2 DEF AddPointLoad
  <2> QED BY <2>0, <2>1, <2>2, <2>3
<1> QED BY <1>1, <1>2, <1>3, <1>5, <1>6 DEF Shape

(* What a received point makes of the points of its stroke. *)
LEMMA WithPointFits ==
  ASSUME NEW s \in Seq(Point), NEW m \in Samples, m.idx # -1, NEW last \in Millis,
         s # << >> \/ m.millis # last
  PROVE  /\ StoredPoint(m, last) \in Point
         /\ WithPoint(s, m, last) \in Seq(Point)
         /\ Len(WithPoint(s, m, last)) >= Len(s)
         /\ s # << >> => WithPoint(s, m, last) # << >>
<1>1. StoredPoint(m, last) \in Point
  BY Positive DEF StoredPoint, TailMillis, Point, Samples, Data, Millis
<1>2. CASE m.millis > last
  BY <1>1, <1>2, Appends DEF WithPoint
<1>3. CASE ~(m.millis > last) /\ m.millis = last
  <2>1. Front(s) \in Seq(Point) /\ Len(Front(s)) = Len(s) - 1
    BY <1>3, Fronts
  <2> QED BY <1>1, <1>3, <2>1, Appends DEF WithPoint
<1>4. CASE ~(m.millis > last) /\ m.millis # last
  <2>1. WithPoint(s, m, last) = s /\ Len(s) \in Nat
    BY <1>4 DEF WithPoint
  <2> QED BY <1>1, <2>1
<1> QED BY <1>1, <1>2, <1>3, <1>4

(* A stroke gets other points. *)
LEMMA StrokeChanges ==
  ASSUME DrawingShape, NEW id \in DOMAIN stroke, NEW s \in Drawn,
         stroke' = [stroke EXCEPT ![id] = s]
  PROVE  /\ stroke' \in Seq(Drawn) /\ DOMAIN stroke' = DOMAIN stroke
         /\ stroke'[id] = s
         /\ \A i \in DOMAIN stroke : i # id => stroke'[i] = stroke[i]
BY DEF DrawingShape

LEMMA StoreKeepsShape ==
  ASSUME Shape, AddPointStore PROVE Shape'
<1>1. PenShape'
  BY DEF AddPointStore, pen, tablet, Shape, PenShape
<1>2. FlagShape'
  BY DEF AddPointStore, pen, tablet, history, Shape, FlagShape
<1>3. QueueShape'
  BY DEF AddPointStore, tablet, Shape, QueueShape
<1>4. CommandShape'
  BY DEF AddPointStore, interpreter, Shape, CommandShape
<1>5. DrawingShape'
  <2> DEFINE s == stroke[rcv.st]
             t == [points |-> WithPoint(s.points, rcv.msg, rcv.last),
                   isCompleted |-> s.isCompleted \/ Completes(rcv.msg, rcv.last)]
  <2>0. /\ DrawingShape /\ rcv' = NoRcv
        /\ rcv \in [st : DOMAIN stroke, last : Millis, msg : Samples]
        /\ rcv.msg.idx # -1
        /\ UNCHANGED <<strokes, targetCalib, interp, current>>
    BY DEF AddPointStore, interpreter, Shape, DrawingShape
  <2>1. s \in Drawn /\ rcv.st \in DOMAIN stroke
    BY <2>0, Element DEF DrawingShape
  <2>2. CASE stroke' = stroke
    BY <2>0, <2>2 DEF DrawingShape
  <2>3. CASE /\ ~(rcv.msg.millis = rcv.last /\ s.points = << >>)
             /\ stroke' = [stroke EXCEPT ![rcv.st] = t]
    <3>1. /\ WithPoint(s.points, rcv.msg, rcv.last) \in Seq(Point)
          /\ Len(WithPoint(s.points, rcv.msg, rcv.last)) >= Len(s.points)
      BY <2>0, <2>1, <2>3, WithPointFits DEF Drawn
    <3>2. (s.isCompleted \/ Completes(rcv.msg, rcv.last)) \in BOOLEAN
      OBVIOUS
    <3>3. t \in Drawn
      BY <3>1, <3>2 DEF Drawn
    <3>4. Len(t.points) >= Len(s.points)
      BY <3>1
    <3> HIDE DEF t
    <3>5. /\ stroke' \in Seq(Drawn) /\ DOMAIN stroke' = DOMAIN stroke
          /\ stroke'[rcv.st] = t
          /\ \A i \in DOMAIN stroke : i # rcv.st => stroke'[i] = stroke[i]
      BY <2>0, <2>1, <2>3, <3>3, StrokeChanges
    <3>6. interp = "pair" => Len(stroke'[current].points) >= 2
      <4>1. interp = "pair" => current \in DOMAIN stroke
                               /\ Len(stroke[current].points) >= 2
        BY <2>0, Tails DEF DrawingShape
      <4>3. Len(s.points) \in Nat /\ Len(t.points) \in Nat
        BY <2>1, <3>3 DEF Drawn
      <4>4. CASE current = rcv.st
        BY <3>4, <3>5, <4>1, <4>3, <4>4
      <4>5. CASE current # rcv.st
        BY <3>5, <4>1, <4>5
      <4> QED BY <4>4, <4>5
    <3> QED BY <2>0, <3>5, <3>6 DEF DrawingShape
  <2> QED BY <2>2, <2>3 DEF AddPointStore
<1> QED BY <1>1, <1>2, <1>3, <1>4, <1>5 DEF Shape

(* The interpreter. *)
LEMMA InterpretKeepsShape ==
  ASSUME Shape, Interpret PROVE Shape'
<1>1. PenShape'
  BY DEF Interpret, pen, tablet, Shape, PenShape
<1>2. FlagShape'
  BY DEF Interpret, pen, tablet, history, Shape, FlagShape
<1>3. QueueShape'
  BY DEF Interpret, tablet, Shape, QueueShape
<1>4. CommandShape'
  BY DEF Interpret, Shape, CommandShape
<1>5. DrawingShape'
  BY DEF Interpret, drawing, Shape, DrawingShape
<1> QED BY <1>1, <1>2, <1>3, <1>4, <1>5 DEF Shape

(* The stroke in hand. *)
LEMMA InHand ==
  ASSUME Shape, interp # "idle"
  PROVE  /\ current \in DOMAIN stroke /\ stroke[current] \in Drawn
         /\ stroke[current].points \in Seq(Point)
         /\ strokes # << >> /\ current = Head(strokes)
<1>1. current \in DOMAIN stroke
  BY Tails DEF Shape, DrawingShape
<1>2. stroke[current] \in Drawn
  BY <1>1, Element DEF Shape, DrawingShape
<1> QED BY <1>1, <1>2 DEF Drawn, Shape, DrawingShape

(* The two points of a pair. *)
LEMMA PairInHand ==
  ASSUME NEW s \in Seq(Point), Len(s) >= 2
  PROVE  /\ s[1] \in Point /\ s[2] \in Point /\ Tail(s) \in Seq(Point)
         /\ s # << >> /\ Len(Tail(s)) = Len(s) - 1
<1>1. 1 \in DOMAIN s /\ 2 \in DOMAIN s /\ s # << >>
  OBVIOUS
<1> QED BY <1>1, Element, Tails

LEMMA InterpretPairKeepsShape ==
  ASSUME Shape, InterpretPair PROVE Shape'
<1>1. PenShape'
  BY DEF InterpretPair, pen, tablet, Shape, PenShape
<1>2. FlagShape'
  BY DEF InterpretPair, pen, tablet, history, Shape, FlagShape
<1>3. QueueShape'
  BY DEF InterpretPair, tablet, Shape, QueueShape
<1>4. DrawingShape'
  BY DEF InterpretPair, drawing, Shape, DrawingShape
<1>5. CommandShape'
  <2> DEFINE ps == stroke[current].points
  <2>1. Len(ps) >= 2 /\ said' = HeadCommands(ps[1])
                                  \o <<[op |-> "line", to |-> ps[2].event]>>
    BY DEF InterpretPair
  <2>2. ps \in Seq(Point)
    BY InHand DEF InterpretPair
  <2> HIDE DEF ps
  <2>3. ps[1] \in Point /\ ps[2] \in Point
    BY <2>1, <2>2, PairInHand
  <2>4. ps[1].event \in Events /\ ps[2].event \in Events
    BY <2>3 DEF Point
  <2>5. /\ [op |-> "travel", to |-> ps[1].event] \in StrokeCommand
        /\ [op |-> "line", to |-> ps[2].event] \in StrokeCommand
        /\ [op |-> "down"] \in StrokeCommand
    BY <2>4 DEF StrokeCommand
  <2>6. /\ HeadCommands(ps[1]) \in Seq(StrokeCommand)
        /\ <<[op |-> "line", to |-> ps[2].event]>> \in Seq(StrokeCommand)
    BY <2>5 DEF HeadCommands
  <2>7. said' \in Seq(StrokeCommand)
    BY <2>1, <2>6, Concatenation
  <2> QED BY <2>7 DEF InterpretPair, Shape, CommandShape
<1> QED BY <1>1, <1>2, <1>3, <1>4, <1>5 DEF Shape

LEMMA ReserveKeepsShape ==
  ASSUME Shape, Reserve PROVE Shape'
<1>1. PenShape'
  BY DEF Reserve, pen, tablet, Shape, PenShape
<1>2. FlagShape'
  BY DEF Reserve, pen, tablet, history, Shape, FlagShape
<1>3. QueueShape'
  BY DEF Reserve, tablet, Shape, QueueShape
<1>4. DrawingShape'
  BY DEF Reserve, drawing, Shape, DrawingShape
<1>5. CommandShape'
  <2>1. Head(said) \in Command /\ Tail(said) \in Seq(StrokeCommand)
    <3>1. Head(said) \in StrokeCommand /\ Tail(said) \in Seq(StrokeCommand)
      BY Tails DEF Reserve, Shape, CommandShape
    <3> QED BY <3>1 DEF Command
  <2>2. reservedMsg' \in Seq(Command)
    BY <2>1, Appends DEF Reserve, Shape, CommandShape
  <2> QED BY <2>1, <2>2 DEF Reserve, Shape, CommandShape
<1> QED BY <1>1, <1>2, <1>3, <1>4, <1>5 DEF Shape

LEMMA LogFits ==
  ASSUME Shape, NEW s \in Seq(Point), logTable(s)
  PROVE  table' \in Seq(TableRow)
<1> DEFINE rows == [i \in DOMAIN s |->
                      [strokeIdx |-> s[i].strokeIdx, event |-> s[i].event,
                       millis |-> s[i].millis]]
<1>1. \A i \in DOMAIN s : rows[i] \in TableRow
  <2> TAKE i \in DOMAIN s
  <2>1. s[i] \in Point
    BY Element
  <2> QED BY <2>1 DEF Point, TableRow
<1>2. Len(s) \in Nat /\ DOMAIN s = 1 .. Len(s)
  OBVIOUS
<1>3. rows \in Seq(TableRow)
  BY <1>1, <1>2
<1>4. table \in Seq(TableRow) /\ table' = table \o rows
  BY DEF logTable, Shape, CommandShape
<1> HIDE DEF rows
<1> QED BY <1>3, <1>4, Concatenation

LEMMA InterpretTailKeepsShape ==
  ASSUME Shape, InterpretTail PROVE Shape'
<1>1. PenShape'
  BY DEF InterpretTail, pen, tablet, Shape, PenShape
<1>2. FlagShape'
  BY DEF InterpretTail, pen, tablet, history, Shape, FlagShape
<1>3. QueueShape'
  BY DEF InterpretTail, tablet, Shape, QueueShape
<1> DEFINE ps == stroke[current].points
           t == [stroke[current] EXCEPT !.points = Tail(ps)]
<1>4. /\ reservedMsg' = reservedMsg \o TailCommands(ps[2])
      /\ logTable(<<ps[1]>>)
      /\ stroke' = [stroke EXCEPT ![current].points = Tail(ps)]
      /\ interp = "pair" /\ interp' = "points"
  BY DEF InterpretTail
<1>5. ps \in Seq(Point) /\ Len(ps) >= 2 /\ current \in DOMAIN stroke
      /\ stroke[current] \in Drawn
  BY <1>4, InHand DEF Shape, DrawingShape
<1>6. t \in Drawn /\ stroke' = [stroke EXCEPT ![current] = t]
  <2>1. Tail(ps) \in Seq(Point)
    BY <1>5, PairInHand
  <2> QED BY <1>4, <1>5, <2>1 DEF Drawn
<1> HIDE DEF t
<1>7. DrawingShape'
  <2>1. stroke' \in Seq(Drawn) /\ DOMAIN stroke' = DOMAIN stroke
    BY <1>5, <1>6, StrokeChanges DEF Shape
  <2> QED BY <1>4, <2>1 DEF InterpretTail, Shape, DrawingShape
<1> HIDE DEF ps
<1>8. CommandShape'
  <2>1. ps[1] \in Point
    BY <1>5, PairInHand
  <2>2. table' \in Seq(TableRow)
    <3>1. <<ps[1]>> \in Seq(Point)
      BY <2>1
    <3> QED BY <1>4, <3>1, LogFits
  <2>3. TailCommands(ps[2]) \in Seq(Command)
    <3>1. [op |-> "up"] \in Command
      BY DEF Command, StrokeCommand
    <3> QED BY <3>1 DEF TailCommands
  <2>4. reservedMsg' \in Seq(Command)
    BY <1>4, <2>3, Concatenation DEF Shape, CommandShape
  <2> QED BY <2>2, <2>4 DEF InterpretTail, Shape, CommandShape
<1> QED BY <1>1, <1>2, <1>3, <1>7, <1>8 DEF Shape

LEMMA InterpretRestKeepsShape ==
  ASSUME Shape, InterpretRest PROVE Shape'
<1>1. PenShape'
  BY DEF InterpretRest, pen, tablet, Shape, PenShape
<1>2. FlagShape'
  BY DEF InterpretRest, pen, tablet, history, Shape, FlagShape
<1>3. QueueShape'
  BY DEF InterpretRest, tablet, Shape, QueueShape
<1> DEFINE t == [stroke[current] EXCEPT !.points = << >>]
<1>4. /\ stroke[current].points \in Seq(Point) /\ current \in DOMAIN stroke
      /\ stroke[current] \in Drawn
      /\ stroke' = [stroke EXCEPT ![current].points = << >>]
      /\ interp = "points" /\ interp' = "remove"
  BY InHand DEF InterpretRest
<1>5. t \in Drawn /\ stroke' = [stroke EXCEPT ![current] = t]
  <2>1. << >> \in Seq(Point)
    OBVIOUS
  <2>2. t \in Drawn
    BY <1>4, <2>1 DEF Drawn
  <2> QED BY <1>4, <2>2
<1> HIDE DEF t
<1>6. DrawingShape'
  <2>1. stroke' \in Seq(Drawn) /\ DOMAIN stroke' = DOMAIN stroke
    BY <1>4, <1>5, StrokeChanges DEF Shape
  <2> QED BY <1>4, <2>1 DEF InterpretRest, Shape, DrawingShape
<1>7. CommandShape'
  BY <1>4, LogFits DEF InterpretRest, Shape, CommandShape
<1> QED BY <1>1, <1>2, <1>3, <1>6, <1>7 DEF Shape

LEMMA RemoveKeepsShape ==
  ASSUME Shape, RemoveStroke PROVE Shape'
<1>1. PenShape'
  BY DEF RemoveStroke, pen, tablet, Shape, PenShape
<1>2. FlagShape'
  BY DEF RemoveStroke, pen, tablet, history, Shape, FlagShape
<1>3. QueueShape'
  BY DEF RemoveStroke, tablet, Shape, QueueShape
<1>4. CommandShape'
  BY DEF RemoveStroke, Shape, CommandShape
<1>5. DrawingShape'
  BY Tails DEF RemoveStroke, Shape, DrawingShape
<1> QED BY <1>1, <1>2, <1>3, <1>4, <1>5 DEF Shape

LEMMA ShapeStep == Shape /\ [Next]_vars => Shape'
<1> SUFFICES ASSUME Shape, [Next]_vars PROVE Shape'
  OBVIOUS
<1>1. CASE Pen
  BY <1>1, PenKeepsShape
<1>2. CASE Keyboard
  BY <1>2, ToggleKeepsShape, KeyKeepsShape DEF Keyboard
<1>3. CASE OscStreaming \/ OscRace \/ NetFault
  BY <1>3, StreamingKeepsShape, OscRaceKeepsShape, FaultKeepsShape
<1>4. CASE Oscp5
  BY <1>4, ReadSizesKeepsShape, ReceiveKeepsShape, StoreKeepsShape DEF Oscp5
<1>5. CASE Interpreting
  BY <1>5, InterpretKeepsShape, InterpretPairKeepsShape, ReserveKeepsShape,
     InterpretTailKeepsShape, InterpretRestKeepsShape, RemoveKeepsShape
     DEF Interpreting
<1>6. CASE UNCHANGED vars
  <2>1. UNCHANGED <<pen, tablet, net, faults, rcv, drawing, targetCalib,
                    interpreter, history>>
    BY <1>6 DEF vars
  <2> QED BY <2>1 DEF pen, tablet, drawing, interpreter, history, Shape,
             PenShape, FlagShape, QueueShape, DrawingShape, CommandShape
<1> QED BY <1>1, <1>2, <1>3, <1>4, <1>5, <1>6 DEF Next

LEMMA CountsStep == Shape /\ Counts /\ [Next]_vars => Counts'
<1> SUFFICES ASSUME Shape, Counts, [Next]_vars PROVE Counts'
  OBVIOUS
<1>1. CASE Pen
  BY <1>1, PenEvents DEF Event, Counts
<1>2. CASE Keyboard
  BY <1>2 DEF Keyboard, ToggleMode, keyPressed, ReserveTyped, history, Counts
<1>3. CASE OscStreaming \/ OscRace \/ NetFault
  BY <1>3 DEF OscStreaming, OscRace, NetFault, history, Counts
<1>4. CASE Oscp5
  <2>1. CASE ReadSizes
    <3>1. Sizes \in [strokes : Nat, points : Nat]
      <4>1. Len(strokes) \in Nat
        BY DEF Shape, DrawingShape
      <4>2. strokes # << >> => Len(stroke[Last(strokes)].points) \in Nat
        <5> SUFFICES ASSUME strokes # << >>
                     PROVE  Len(stroke[Last(strokes)].points) \in Nat
          OBVIOUS
        <5>1. Last(strokes) \in DOMAIN stroke
          BY LastIn DEF Shape, DrawingShape
        <5>2. stroke[Last(strokes)] \in Drawn
          BY <5>1, Element DEF Shape, DrawingShape
        <5> QED BY <5>2 DEF Drawn
      <4> QED BY <4>1, <4>2 DEF Sizes
    <3> QED BY <2>1, <3>1 DEF ReadSizes, history, Counts
  <2>2. CASE Receive
    BY <2>2 DEF Receive, ReceiveCalibration, AddStroke, AddPointLoad, Counts
  <2>3. CASE AddPointStore
    BY <2>3 DEF AddPointStore, history, Counts
  <2> QED BY <1>4, <2>1, <2>2, <2>3 DEF Oscp5
<1>5. CASE Interpreting
  BY <1>5 DEF Interpreting, Interpret, InterpretPair, Reserve, InterpretTail,
             InterpretRest, RemoveStroke, history, Counts
<1>6. CASE UNCHANGED vars
  BY <1>6 DEF vars, history, Counts
<1> QED BY <1>1, <1>2, <1>3, <1>4, <1>5, <1>6 DEF Next

THEOREM PipelineTypeCorrect == Spec => []TypeOK
<1>1. Init => Counts
  <2>1. 0 \in Nat /\ FALSE \in BOOLEAN
    OBVIOUS
  <2> QED BY <2>1, Zenon DEF Init, Counts
<1> QED BY <1>1, InitShape, ShapeStep, CountsStep, ShapeIsTypeOK, PTL DEF Spec

-----------------------------------------------------------------------------
(* Calibration.  As long as no mode is switched under the pen, what says that
   it calibrates was meant to, wherever it has got to; and a contact that
   writes has raised the number of strokes above that of no stroke, which is
   how a calibration is told from a point. *)
MeantToCalibrate(d) == d.idx = -1 => d.event \in calibrated

CalibrationFits ==
  ~midStroke =>
    /\ \A i \in DOMAIN tabletInputData : MeantToCalibrate(tabletInputData[i])
    /\ \A i \in DOMAIN net : MeantToCalibrate(net[i])
    /\ targetCalib \in calibrated \cup {<< >>}
    /\ penDown /\ ~modeCalibration /\ modeWritable => strokeIdx >= 0

LEMMA CalibrationStays ==
  ASSUME CalibrationFits,
         UNCHANGED <<penDown, tablet, net, targetCalib, midStroke, calibrated>>
  PROVE  CalibrationFits'
BY DEF CalibrationFits, MeantToCalibrate, tablet

LEMMA PenKeepsCalibration ==
  ASSUME Shape, CalibrationFits, Pen PROVE CalibrationFits'
<1> SUFFICES ASSUME ~midStroke' PROVE CalibrationFits'
  BY DEF CalibrationFits
<1>1. PICK action \in {"PRESS", "DRAG", "RELEASE"} :
        /\ \E t : Event(action, t)
        /\ action # "PRESS" => penDown
        /\ action = "RELEASE" => ~penDown'
  BY PenEvents DEF PenPress, PenDrag, PenRelease
<1>2. PICK t : Event(action, t)
  BY <1>1
<1> DEFINE e == <<contact', events'>>
<1>3. /\ ~midStroke /\ net' = net /\ targetCalib' = targetCalib
      /\ tabletInputData \in Seq(Samples) /\ t \in 0 .. MaxMillis /\ e \in Events
      /\ CalibrationFits /\ strokeIdx \in Int /\ strokeIdx >= -1
      /\ -1 \in -1 .. MaxStrokes
  BY <1>2, Positive DEF Event, Shape, QueueShape, PenShape
<1>4. CASE CalibrationEvent(action, e, t)
  <2>1. calibrated \subseteq calibrated'
    BY <1>4 DEF CalibrationEvent
  <2>6. penDown' => modeCalibration'
    BY <1>1, <1>4 DEF CalibrationEvent
  <2>2. DataOf(-1, e, t, FALSE, FALSE) \in Samples
    BY <1>3, DatumFits
  <2>3. \A i \in DOMAIN tabletInputData' :
           tabletInputData'[i].idx = -1 => tabletInputData'[i].event \in calibrated'
    <3>1. CASE action = "PRESS"
      <4>1. calibrated' = calibrated \cup {e}
            /\ tabletInputData' = Append(tabletInputData, DataOf(-1, e, t, FALSE, FALSE))
        BY <1>4, <3>1 DEF CalibrationEvent
      <4> DEFINE d == DataOf(-1, e, t, FALSE, FALSE)
      <4>2. d.event = e
        BY DEF DataOf
      <4>3. d \in Samples /\ tabletInputData' = Append(tabletInputData, d)
        BY <2>2, <4>1
      <4> HIDE DEF d
      <4>4. \A i \in DOMAIN tabletInputData' :
              \/ i \in DOMAIN tabletInputData /\ tabletInputData'[i] = tabletInputData[i]
              \/ tabletInputData'[i] = d
        BY <1>3, <4>3
      <4> QED BY <1>3, <4>1, <4>2, <4>4 DEF CalibrationFits, MeantToCalibrate
    <3>2. CASE action # "PRESS"
      BY <1>3, <1>4, <2>1, <3>2 DEF CalibrationEvent, CalibrationFits, MeantToCalibrate
    <3> QED BY <3>1, <3>2
  <2>4. \A i \in DOMAIN net' : net'[i].idx = -1 => net'[i].event \in calibrated'
    BY <1>3, <2>1 DEF CalibrationFits, MeantToCalibrate
  <2>5. targetCalib' \in calibrated' \cup {<< >>}
    BY <1>3, <2>1 DEF CalibrationFits
  <2> QED BY <2>3, <2>4, <2>5, <2>6, Zenon DEF CalibrationFits, MeantToCalibrate
<1>5. CASE WritingEvent(action, e, t)
  <2>1. calibrated' = calibrated /\ strokeIdx' = NextStrokeIdx(action)
        /\ tabletInputData' =
             Append(tabletInputData,
                    DataOf(strokeIdx', e, t, action = "PRESS", action = "RELEASE"))
        /\ ~modeCalibration /\ modeWritable
    BY <1>5 DEF WritingEvent
  <2>2. strokeIdx' >= 0 /\ strokeIdx' \in Int
    <3>1. CASE action = "PRESS"
      BY <1>3, <2>1, <3>1 DEF NextStrokeIdx
    <3>2. CASE action # "PRESS"
      <4>1. strokeIdx >= 0
        BY <1>1, <1>3, <2>1, <3>2 DEF CalibrationFits
      <4> QED BY <1>3, <2>1, <3>2, <4>1 DEF NextStrokeIdx
    <3> QED BY <3>1, <3>2
  <2> DEFINE d == DataOf(strokeIdx', e, t, action = "PRESS", action = "RELEASE")
  <2>3. d.idx # -1
    BY <2>2 DEF DataOf
  <2> HIDE DEF d
  <2>4. \A i \in DOMAIN tabletInputData' :
           tabletInputData'[i].idx = -1 => tabletInputData'[i].event \in calibrated'
    <3>1. \A i \in DOMAIN tabletInputData' :
            \/ i \in DOMAIN tabletInputData /\ tabletInputData'[i] = tabletInputData[i]
            \/ tabletInputData'[i] = d
      BY <1>3, <2>1 DEF d
    <3> QED BY <1>3, <2>1, <2>3, <3>1 DEF CalibrationFits, MeantToCalibrate
  <2> QED BY <1>3, <2>1, <2>2, <2>4 DEF CalibrationFits, MeantToCalibrate
<1>6. CASE IdleEvent
  BY <1>1, <1>2, <1>3, <1>6 DEF IdleEvent, tablet, CalibrationFits, MeantToCalibrate
<1> QED BY <1>2, <1>4, <1>5, <1>6 DEF Event

LEMMA ReceiveKeepsCalibration ==
  ASSUME Shape, CalibrationFits, Receive PROVE CalibrationFits'
<1>1. /\ net \in Seq(Samples) /\ net # << >> /\ net' = Tail(net)
      /\ UNCHANGED <<penDown, tablet, midStroke, calibrated>>
  BY DEF Receive, pen, history, Shape, QueueShape
<1>4. \/ targetCalib' = targetCalib
      \/ Head(net).idx = -1 /\ targetCalib' = Head(net).event
  <2>1. \/ ReceiveCalibration(Head(net)) \/ AddStroke(Head(net))
        \/ AddPointLoad(Head(net))
    BY DEF Receive
  <2>2. CASE ReceiveCalibration(Head(net))
    BY <2>2 DEF ReceiveCalibration
  <2>3. CASE AddStroke(Head(net))
    BY <2>3 DEF AddStroke
  <2>4. CASE AddPointLoad(Head(net))
    BY <2>4 DEF AddPointLoad
  <2> QED BY <2>1, <2>2, <2>3, <2>4
<1>2. \A i \in DOMAIN net' : i + 1 \in DOMAIN net /\ net'[i] = net[i + 1]
  BY <1>1, Tails
<1>3. 1 \in DOMAIN net /\ Head(net) = net[1]
  BY <1>1, Tails
<1> QED BY <1>1, <1>2, <1>3, <1>4 DEF CalibrationFits, MeantToCalibrate, tablet

LEMMA StreamingKeepsCalibration ==
  ASSUME Shape, CalibrationFits, OscStreaming PROVE CalibrationFits'
<1>1. /\ tabletInputData \in Seq(Samples) /\ tabletInputData # << >>
      /\ tabletInputData' = Tail(tabletInputData)
      /\ net \in Seq(Samples) /\ net' = Append(net, Head(tabletInputData))
      /\ UNCHANGED <<penDown, modeWritable, modeCalibration, strokeIdx,
                     targetCalib, midStroke, calibrated>>
  BY DEF OscStreaming, pen, history, Shape, QueueShape
<1>2. \A i \in DOMAIN tabletInputData' :
         i + 1 \in DOMAIN tabletInputData
         /\ tabletInputData'[i] = tabletInputData[i + 1]
  BY <1>1, Tails
<1>3. 1 \in DOMAIN tabletInputData /\ Head(tabletInputData) = tabletInputData[1]
      /\ Head(tabletInputData) \in Samples
  BY <1>1, Tails
<1>4. \A i \in DOMAIN net' : \/ i \in DOMAIN net /\ net'[i] = net[i]
                             \/ net'[i] = Head(tabletInputData)
  BY <1>1, <1>3, Appends
<1> QED BY <1>1, <1>2, <1>3, <1>4 DEF CalibrationFits, MeantToCalibrate

LEMMA OscRaceKeepsCalibration ==
  ASSUME Shape, CalibrationFits, OscRace PROVE CalibrationFits'
<1> DEFINE d == Head(tabletInputData)
<1>1. /\ tabletInputData \in Seq(Samples) /\ net \in Seq(Samples)
      /\ UNCHANGED <<penDown, modeWritable, modeCalibration, strokeIdx,
                     targetCalib, midStroke, calibrated>>
  BY DEF OscRace, pen, Shape, QueueShape
<1>2. /\ tabletInputData # << >> /\ d \in Samples
      /\ d = tabletInputData[1] /\ 1 \in DOMAIN tabletInputData
      /\ \A i \in DOMAIN tabletInputData' :
           i + 1 \in DOMAIN tabletInputData
           /\ tabletInputData'[i] = tabletInputData[i + 1]
  BY <1>1, OscRaceIs, Tails
<1>3. \A i \in DOMAIN net' : \/ i \in DOMAIN net /\ net'[i] = net[i]
                             \/ net'[i] = d
                             \/ d.idx # -1 /\ net'[i].idx = d.idx
  <2>1. CASE net' = net
    BY <2>1
  <2>2. CASE net' = net \o <<d, d>>
    <3>1. /\ net' \in Seq(Samples) /\ Len(net') = Len(net) + 2
          /\ \A i \in 1 .. Len(net) : net'[i] = net[i]
          /\ net'[Len(net) + 1] = d /\ net'[Len(net) + 2] = d
      BY <1>1, <1>2, <2>2, RaceAdds
    <3> QED BY <1>1, <3>1
  <2>3. ASSUME NEW m \in Mixtures(d), d.idx # -1, net' = Append(net, m)
        PROVE  \A i \in DOMAIN net' : \/ i \in DOMAIN net /\ net'[i] = net[i]
                                      \/ net'[i].idx = d.idx
    <3>1. m \in Samples /\ m.idx = d.idx
      BY <1>2, <2>3, MixturesFit
    <3> QED BY <1>1, <2>3, <3>1, Appends
  <2> QED BY <2>1, <2>2, <2>3, OscRaceIs
<1> HIDE DEF d
<1> QED BY <1>1, <1>2, <1>3 DEF CalibrationFits, MeantToCalibrate

LEMMA FaultKeepsCalibration ==
  ASSUME Shape, CalibrationFits, NetFault PROVE CalibrationFits'
<1>1. PICK i \in DOMAIN net :
        \/ net' = RemoveAt(net, i)
        \/ net' = InsertAt(net, i, net[i])
        \/ i < Len(net) /\ net' = [net EXCEPT ![i] = net[i + 1],
                                            ![i + 1] = net[i]]
  BY DEF NetFault
<1>2. \A k \in DOMAIN net' : \E j \in DOMAIN net : net'[k] = net[j]
  BY <1>1, NothingInvented DEF Shape, QueueShape
<1>3. UNCHANGED <<penDown, tablet, targetCalib, midStroke, calibrated>>
  BY DEF NetFault, pen, history
<1> QED BY <1>2, <1>3 DEF CalibrationFits, MeantToCalibrate, tablet

LEMMA CalibrationStep ==
  Shape /\ CalibrationFits /\ [Next]_vars => CalibrationFits'
<1> SUFFICES ASSUME Shape, CalibrationFits, [Next]_vars PROVE CalibrationFits'
  OBVIOUS
<1>1. CASE Pen
  BY <1>1, PenKeepsCalibration
<1>2. CASE Keyboard
  <2>1. CASE ToggleMode
    BY <2>1 DEF ToggleMode, CalibrationFits, MeantToCalibrate
  <2>2. CASE keyPressed \/ ReserveTyped
    BY <2>2, CalibrationStays DEF keyPressed, ReserveTyped, pen, history
  <2> QED BY <1>2, <2>1, <2>2 DEF Keyboard
<1>3. CASE OscStreaming \/ OscRace \/ NetFault
  BY <1>3, StreamingKeepsCalibration, OscRaceKeepsCalibration,
     FaultKeepsCalibration
<1>4. CASE Oscp5
  BY <1>4, ReceiveKeepsCalibration, CalibrationStays
     DEF Oscp5, ReadSizes, AddPointStore, pen, history
<1>5. CASE Interpreting
  BY <1>5, CalibrationStays
     DEF Interpreting, Interpret, InterpretPair, Reserve, InterpretTail,
         InterpretRest, RemoveStroke, pen, history
<1>6. CASE UNCHANGED vars
  BY <1>6, CalibrationStays DEF vars, pen, history
<1> QED BY <1>1, <1>2, <1>3, <1>4, <1>5, <1>6 DEF Next

(* The origin of the drawing is only set by contacts that were meant to
   calibrate, however the points and calibrations in the common queue are lost,
   doubled or overtaken. *)
THEOREM CalibrationIsAlwaysDeliberate == Spec => []CalibrationIsDeliberate
<1>1. Init => CalibrationFits
  BY DEF Init, CalibrationFits
<1>2. CalibrationFits => CalibrationIsDeliberate
  BY DEF CalibrationFits, CalibrationIsDeliberate
<1> QED BY <1>1, <1>2, InitShape, ShapeStep, CalibrationStep, PTL DEF Spec
-----------------------------------------------------------------------------
(* The order of the drawing. As long as the network does its part, what is on
   its way to the interpreter (the flow: the network, then the receiver's queue,
   then the message in hand) is numbered with the strokes still to come and
   stands in the order the pen made it; and what was handled (kept in a stroke,
   reserved as a command, or logged) was made before what is in hand, and that
   before what is on its way. Numbered and Ordered state this, and every step
   keeps them. *)
AtOrBefore(a, b) == a = b \/ Before(a, b)
Now == <<contact, events>>
Flow == net \o tabletInputData
Writes(d) == d.idx # -1

FlowNumbered ==
  /\ strokeIdx >= Len(stroke) - 1
  /\ \A j \in DOMAIN Flow :
       Writes(Flow[j]) => /\ Flow[j].idx \in Len(stroke) - 1 .. strokeIdx
                          /\ Flow[j].isHead => Flow[j].idx >= Len(stroke)
  /\ \A i, j \in DOMAIN Flow :
       i < j /\ Writes(Flow[i]) /\ Writes(Flow[j]) =>
         /\ Flow[i].idx <= Flow[j].idx
         /\ Flow[j].isHead => Flow[i].idx < Flow[j].idx
  /\ \A n \in Len(stroke) .. strokeIdx :
       \E k \in DOMAIN Flow : Flow[k].isHead /\ Flow[k].idx = n
ListNumbered ==
  /\ Len(strokes) <= Len(stroke)
  /\ \A i \in DOMAIN strokes : strokes[i] = Len(stroke) - Len(strokes) + i
  /\ \A id \in DOMAIN stroke : \A k \in DOMAIN stroke[id].points :
         stroke[id].points[k].strokeIdx = id - 1
  /\ rcv # NoRcv => rcv.st = Len(stroke) /\ rcv.msg.idx = Len(stroke) - 1
LogNumbered ==
  /\ \A i \in DOMAIN table : table[i].strokeIdx <= Len(stroke) - Len(strokes)
  /\ \A i, j \in DOMAIN table : i < j => table[i].strokeIdx <= table[j].strokeIdx
Numbered == faults = 0 => FlowNumbered /\ ListNumbered /\ LogNumbered

Targets(cmds) == {cmds[i].to : i \in Moves(cmds)}
Logged == {table[i].event : i \in DOMAIN table}
Moved == Targets(reservedMsg)
EventsOf(s) == {s.points[k].event : k \in DOMAIN s.points}
Handled == Moved \cup Targets(said) \cup Logged
           \cup UNION {EventsOf(stroke[id]) : id \in DOMAIN stroke}

FlowOrdered ==
  /\ \A j \in DOMAIN Flow : AtOrBefore(Flow[j].event, Now)
  /\ \A i, j \in DOMAIN Flow : i < j => Before(Flow[i].event, Flow[j].event)
  /\ rcv # NoRcv => /\ AtOrBefore(rcv.msg.event, Now)
                    /\ \A j \in DOMAIN Flow : Before(rcv.msg.event, Flow[j].event)
  /\ \A v \in Handled :
       /\ AtOrBefore(v, Now)
       /\ \A j \in DOMAIN Flow : Before(v, Flow[j].event)
       /\ rcv # NoRcv => Before(v, rcv.msg.event)
PointsOrdered ==
  /\ \A id \in DOMAIN stroke : \A k, l \in DOMAIN stroke[id].points :
       /\ k < l => Before(stroke[id].points[k].event, stroke[id].points[l].event)
       /\ stroke[id].points[k].isHead => k = 1
  /\ \A id, jd \in DOMAIN stroke : id < jd =>
       \A v \in EventsOf(stroke[id]), w \in EventsOf(stroke[jd]) : Before(v, w)
DoneOrdered ==
  /\ \A v \in Moved \cup Targets(said) \cup Logged :
       \A i \in DOMAIN strokes :
         interp = "idle" \/ i >= 2 =>
           \A w \in EventsOf(stroke[strokes[i]]) : Before(v, w)
  /\ \A v \in Moved \cup Targets(said) :
       /\ interp = "points" =>
            \A k \in DOMAIN stroke[current].points :
              /\ AtOrBefore(v, stroke[current].points[k].event)
              /\ stroke[current].points[k].isHead => Before(v, stroke[current].points[k].event)
       /\ interp = "pair" =>
            \A k \in DOMAIN stroke[current].points :
              k >= 2 => AtOrBefore(v, stroke[current].points[k].event)
  /\ interp \in {"points", "pair"} =>
       \A v \in Logged : \A w \in EventsOf(stroke[current]) : Before(v, w)
MovesInOrder(s) == \A i, j \in Moves(s) : i < j => Before(s[i].to, s[j].to)
CommandsOrdered ==
  /\ interp # "pair" => said = << >>
  /\ MovesInOrder(reservedMsg) /\ MovesInOrder(said)
  /\ \A v \in Moved, w \in Targets(said) : Before(v, w)
  /\ \A i, j \in DOMAIN table : i < j => Before(table[i].event, table[j].event)
Ordered == faults = 0 => FlowOrdered /\ PointsOrdered /\ DoneOrdered /\ CommandsOrdered

(* The order of events. *)
Times == Nat \X Nat

LEMMA Precedence ==
  ASSUME NEW a \in Times, NEW b \in Times, NEW c \in Times
  PROVE  /\ Before(a, b) /\ Before(b, c) => Before(a, c)
         /\ AtOrBefore(a, b) /\ Before(b, c) => Before(a, c)
         /\ Before(a, b) /\ AtOrBefore(b, c) => Before(a, c)
         /\ AtOrBefore(a, b) /\ AtOrBefore(b, c) => AtOrBefore(a, c)
         /\ Before(a, b) => AtOrBefore(a, b)
         /\ ~Before(a, a)
BY DEF Before, AtOrBefore, Times

LEMMA EventsAreTimes == Events \subseteq Times
BY Positive DEF Events, Times

(* What is in flight: streaming moves nothing in it, a pen event adds at its
   end, the receiver takes from its front. *)
LEMMA FlowIs ==
  ASSUME Shape
  PROVE  /\ Flow \in Seq(Samples) /\ Len(Flow) = Len(net) + Len(tabletInputData)
         /\ Len(net) \in Nat /\ Len(tabletInputData) \in Nat
         /\ DOMAIN Flow = 1 .. Len(net) + Len(tabletInputData)
         /\ \A k \in DOMAIN Flow :
              Flow[k] = IF k <= Len(net) THEN net[k] ELSE tabletInputData[k - Len(net)]
<1>1. net \in Seq(Samples) /\ tabletInputData \in Seq(Samples)
  BY DEF Shape, QueueShape
<1> QED BY <1>1, Concatenation DEF Flow

LEMMA FlowStays == ASSUME UNCHANGED <<net, tabletInputData>> PROVE Flow' = Flow
BY DEF Flow

LEMMA StreamingKeepsFlow ==
  ASSUME NEW T, NEW a \in Seq(T), NEW b \in Seq(T), b # << >>
  PROVE  Append(a, Head(b)) \o Tail(b) = a \o b
<1> DEFINE c == Append(a, Head(b))  d == Tail(b)
<1>1. /\ c \in Seq(T) /\ Len(c) = Len(a) + 1 /\ Len(a) \in Nat
      /\ \A i \in 1 .. Len(a) : c[i] = a[i]
      /\ c[Len(a) + 1] = b[1]
  BY Tails, Appends
<1>2. /\ d \in Seq(T) /\ Len(d) = Len(b) - 1 /\ Len(b) \in Nat /\ Len(b) >= 1
      /\ \A i \in 1 .. Len(b) - 1 : d[i] = b[i + 1]
  BY Tails
<1> HIDE DEF c, d
<1>3. /\ c \o d \in Seq(T) /\ Len(c \o d) = Len(a) + Len(b)
      /\ \A k \in 1 .. Len(a) + Len(b) :
           (c \o d)[k] = IF k <= Len(c) THEN c[k] ELSE d[k - Len(c)]
  <2>1. Len(c) + Len(d) = Len(a) + Len(b)
    BY <1>1, <1>2
  <2>2. /\ c \o d \in Seq(T) /\ Len(c \o d) = Len(c) + Len(d)
        /\ \A k \in 1 .. Len(c) + Len(d) :
             (c \o d)[k] = IF k <= Len(c) THEN c[k] ELSE d[k - Len(c)]
    BY <1>1, <1>2, Concatenation
  <2> QED BY <2>1, <2>2
<1>4. /\ a \o b \in Seq(T) /\ Len(a \o b) = Len(a) + Len(b)
      /\ \A k \in 1 .. Len(a) + Len(b) :
           (a \o b)[k] = IF k <= Len(a) THEN a[k] ELSE b[k - Len(a)]
  BY Concatenation
<1>5. ASSUME NEW k \in 1 .. Len(a) + Len(b) PROVE (c \o d)[k] = (a \o b)[k]
  <2>1. CASE k <= Len(a)
    BY <1>1, <1>2, <1>3, <1>4, <2>1
  <2>2. CASE k = Len(a) + 1
    <3>1. k - Len(a) = 1 /\ k <= Len(c) /\ ~(k <= Len(a))
      BY <1>1, <2>2
    <3> QED BY <1>1, <1>3, <1>4, <2>2, <3>1
  <2>3. CASE k > Len(a) + 1
    <3>1. /\ k - Len(c) \in 1 .. Len(b) - 1 /\ (k - Len(c)) + 1 = k - Len(a)
          /\ ~(k <= Len(c)) /\ ~(k <= Len(a))
      BY <1>1, <1>2, <2>3
    <3>2. d[k - Len(c)] = b[k - Len(a)]
      BY <1>2, <3>1
    <3> QED BY <1>3, <1>4, <3>1, <3>2
  <2> QED BY <1>1, <1>2, <2>1, <2>2, <2>3
<1> DEFINE l == c \o d  r == a \o b
<1>6. l \in Seq(T) /\ r \in Seq(T) /\ Len(l) = Len(r)
      /\ \A k \in 1 .. Len(l) : l[k] = r[k]
  BY <1>3, <1>4, <1>5
<1> HIDE DEF l, r
<1>7. l = r
  BY <1>6
<1> QED BY <1>7 DEF l, r, c, d

LEMMA StreamingKeepsAll ==
  ASSUME Shape, OscStreaming PROVE Flow' = Flow
<1>1. /\ net \in Seq(Samples) /\ tabletInputData \in Seq(Samples)
      /\ tabletInputData # << >>
      /\ net' = Append(net, Head(tabletInputData))
      /\ tabletInputData' = Tail(tabletInputData)
  BY DEF OscStreaming, Shape, QueueShape
<1> QED BY <1>1, StreamingKeepsFlow DEF Flow

LEMMA ReceiverTakes ==
  ASSUME Shape, Receive
  PROVE  /\ Flow # << >> /\ Head(net) = Flow[1] /\ Flow[1] \in Samples
         /\ DOMAIN Flow = 1 .. Len(Flow) /\ Len(Flow) \in Nat /\ Len(Flow) >= 1
         /\ DOMAIN Flow' = 1 .. Len(Flow) - 1
         /\ \A i \in DOMAIN Flow' : i + 1 \in DOMAIN Flow /\ Flow'[i] = Flow[i + 1]
<1>1. /\ net \in Seq(Samples) /\ tabletInputData \in Seq(Samples) /\ net # << >>
      /\ net' = Tail(net) /\ tabletInputData' = tabletInputData
  BY DEF Receive, tablet, Shape, QueueShape
<1>2. /\ Tail(net) \in Seq(Samples) /\ Head(net) = net[1] /\ Head(net) \in Samples
      /\ Len(net) \in Nat /\ Len(net) >= 1 /\ Len(Tail(net)) = Len(net) - 1
      /\ \A i \in 1 .. Len(net) - 1 : Tail(net)[i] = net[i + 1]
  BY <1>1, Tails
<1>3. /\ Flow \in Seq(Samples) /\ Len(Flow) = Len(net) + Len(tabletInputData)
      /\ DOMAIN Flow = 1 .. Len(net) + Len(tabletInputData)
      /\ Len(tabletInputData) \in Nat
      /\ \A k \in DOMAIN Flow :
           Flow[k] = IF k <= Len(net) THEN net[k] ELSE tabletInputData[k - Len(net)]
  BY FlowIs
<1> DEFINE t == Tail(net)
<1>4. /\ t \in Seq(Samples) /\ Len(t) = Len(net) - 1
      /\ \A i \in 1 .. Len(net) - 1 : t[i] = net[i + 1]
  BY <1>2
<1>5. Flow' = t \o tabletInputData
  BY <1>1 DEF Flow
<1> HIDE DEF t
<1> DEFINE f == t \o tabletInputData
<1>6. /\ f \in Seq(Samples) /\ Len(f) = Len(Flow) - 1
      /\ \A k \in 1 .. Len(Flow) - 1 :
           f[k] = IF k <= Len(t) THEN t[k] ELSE tabletInputData[k - Len(t)]
  <2>1. Len(t) + Len(tabletInputData) = Len(Flow) - 1
    BY <1>2, <1>3, <1>4
  <2>2. /\ f \in Seq(Samples) /\ Len(f) = Len(t) + Len(tabletInputData)
        /\ \A k \in 1 .. Len(t) + Len(tabletInputData) :
             f[k] = IF k <= Len(t) THEN t[k] ELSE tabletInputData[k - Len(t)]
    BY <1>1, <1>4, Concatenation
  <2> QED BY <2>1, <2>2
<1>7. DOMAIN f = 1 .. Len(Flow) - 1
  BY <1>6
<1>8. ASSUME NEW i \in 1 .. Len(Flow) - 1
      PROVE  i + 1 \in DOMAIN Flow /\ f[i] = Flow[i + 1]
  <2>1. i \in Nat /\ i >= 1 /\ i + 1 \in DOMAIN Flow
    BY <1>2, <1>3
  <2>2. CASE i <= Len(t)
    BY <1>2, <1>3, <1>4, <1>6, <2>1, <2>2
  <2>3. CASE ~(i <= Len(t))
    <3>1. i - Len(t) = (i + 1) - Len(net) /\ ~(i + 1 <= Len(net))
      BY <1>2, <1>4, <2>1, <2>3
    <3> QED BY <1>3, <1>6, <2>1, <2>3, <3>1
  <2> QED BY <2>1, <2>2, <2>3
<1> HIDE DEF f
<1>9. Flow' = f /\ Flow[1] = net[1]
  BY <1>2, <1>3, <1>5 DEF f
<1>10. /\ Flow # << >> /\ Head(net) = Flow[1] /\ Flow[1] \in Samples
       /\ DOMAIN Flow = 1 .. Len(Flow) /\ Len(Flow) \in Nat /\ Len(Flow) >= 1
  BY <1>1, <1>2, <1>3, <1>9
<1> QED BY <1>7, <1>8, <1>9, <1>10

(* An event of the pen adds at most one datum, which is of this event and, if
   it writes, of the stroke the tablet is at. *)
LEMMA PenAdds ==
  ASSUME Shape, Pen
  PROVE  /\ Now \in Times /\ Now' \in Events /\ Before(Now, Now')
         /\ \/ Flow' = Flow /\ strokeIdx' = strokeIdx
            \/ \E d \in Samples :
                 /\ d.event = Now'
                 /\ DOMAIN Flow' = 1 .. Len(Flow) + 1
                 /\ DOMAIN Flow = 1 .. Len(Flow) /\ Len(Flow) \in Nat
                 /\ \A i \in DOMAIN Flow : Flow'[i] = Flow[i]
                 /\ Flow'[Len(Flow) + 1] = d
                 /\ \/ /\ strokeIdx' = strokeIdx /\ ~d.isHead
                       /\ d.idx \in {-1, strokeIdx}
                    \/ /\ strokeIdx' = strokeIdx + 1 /\ d.isHead
                       /\ d.idx = strokeIdx + 1
<1>1. PICK action \in {"PRESS", "DRAG", "RELEASE"} :
        /\ \E t : Event(action, t)
        /\ PenPress \/ PenDrag \/ PenRelease
  BY PenEvents
<1>2. PICK t : Event(action, t)
  BY <1>1
<1> DEFINE e == <<contact', events'>>
<1>3. /\ e \in Events /\ contact \in Nat /\ events \in Nat /\ t \in 0 .. MaxMillis
      /\ strokeIdx \in Int /\ -1 <= strokeIdx /\ strokeIdx < contact
      /\ contact \in 0 .. MaxStrokes
      /\ tabletInputData \in Seq(Samples) /\ net \in Seq(Samples)
      /\ net' = net /\ -1 \in -1 .. MaxStrokes
  BY <1>2, Positive DEF Event, Shape, PenShape, QueueShape
<1>4. Now \in Times /\ Now' \in Events /\ Before(Now, Now')
  <2>1. \/ contact' = contact + 1
        \/ contact' = contact /\ events' = events + 1
    BY <1>1 DEF PenPress, PenDrag, PenRelease
  <2> QED BY <1>3, <2>1 DEF Now, Times, Before
<1>5. ASSUME NEW d \in Samples, tabletInputData' = Append(tabletInputData, d)
      PROVE  /\ DOMAIN Flow' = 1 .. Len(Flow) + 1
             /\ DOMAIN Flow = 1 .. Len(Flow) /\ Len(Flow) \in Nat
             /\ \A i \in DOMAIN Flow : Flow'[i] = Flow[i]
             /\ Flow'[Len(Flow) + 1] = d
  <2>1. /\ Flow \in Seq(Samples) /\ Flow' = net \o Append(tabletInputData, d)
    BY <1>3, <1>5, FlowIs DEF Flow
  <2>2. net \o Append(tabletInputData, d) = Append(net \o tabletInputData, d)
    BY <1>3, JoinedAppend
  <2>3. Flow' = Append(Flow, d)
    BY <2>1, <2>2 DEF Flow
  <2> QED BY <2>1, <2>3, Appends
<1>6. CASE CalibrationEvent(action, e, t)
  <2>1. strokeIdx' = strokeIdx
    BY <1>6 DEF CalibrationEvent
  <2>2. CASE action = "PRESS"
    <3> DEFINE d == DataOf(-1, e, t, FALSE, FALSE)
    <3>1. d \in Samples /\ d.event = Now' /\ ~d.isHead /\ d.idx = -1
      <4>1. d \in Samples
        BY <1>3, DatumFits
      <4> QED BY <4>1 DEF DataOf, Now
    <3>2. tabletInputData' = Append(tabletInputData, d)
      BY <1>6, <2>2 DEF CalibrationEvent
    <3> HIDE DEF d
    <3> QED BY <1>4, <1>5, <2>1, <3>1, <3>2
  <2>3. CASE action # "PRESS"
    <3>1. tabletInputData' = tabletInputData
      BY <1>6, <2>3 DEF CalibrationEvent
    <3> QED BY <1>3, <1>4, <2>1, <3>1, FlowStays
  <2> QED BY <2>2, <2>3
<1>7. CASE WritingEvent(action, e, t)
  <2> DEFINE d == DataOf(strokeIdx', e, t, action = "PRESS", action = "RELEASE")
  <2>1. /\ strokeIdx' = NextStrokeIdx(action)
        /\ tabletInputData' = Append(tabletInputData, d)
    BY <1>7 DEF WritingEvent
  <2>2. strokeIdx' \in -1 .. MaxStrokes
    <3>1. strokeIdx + 1 <= MaxStrokes
      BY <1>3, Positive
    <3> QED BY <1>3, <2>1, <3>1, Positive DEF NextStrokeIdx
  <2>3. /\ d \in Samples /\ d.event = Now' /\ d.idx = strokeIdx'
        /\ d.isHead = (action = "PRESS")
    <3>1. (action = "PRESS") \in BOOLEAN /\ (action = "RELEASE") \in BOOLEAN
      OBVIOUS
    <3>2. d \in Samples
      BY <1>3, <2>2, <3>1, DatumFits
    <3> QED BY <3>2 DEF DataOf, Now
  <2>4. \/ strokeIdx' = strokeIdx /\ ~d.isHead
        \/ strokeIdx' = strokeIdx + 1 /\ d.isHead
    BY <2>1, <2>3 DEF NextStrokeIdx
  <2> HIDE DEF d
  <2> QED BY <1>4, <1>5, <2>1, <2>3, <2>4
<1>8. CASE IdleEvent
  <2>1. strokeIdx' = strokeIdx /\ tabletInputData' = tabletInputData
    BY <1>8 DEF IdleEvent, tablet
  <2> QED BY <1>3, <1>4, <2>1, FlowStays
<1> QED BY <1>2, <1>6, <1>7, <1>8 DEF Event

(* The numbers of the strokes: what the receiver takes next is the head of the
   stroke after the last, or a point of the last. *)
LEMMA ListIs ==
  ASSUME Shape
  PROVE  /\ stroke \in Seq(Drawn) /\ strokes \in Seq(DOMAIN stroke)
         /\ Len(stroke) \in Nat /\ DOMAIN stroke = 1 .. Len(stroke)
         /\ Len(strokes) \in Nat /\ DOMAIN strokes = 1 .. Len(strokes)
         /\ strokeIdx \in Int /\ strokeIdx >= -1
         /\ table \in Seq(TableRow) /\ Len(table) \in Nat
         /\ DOMAIN table = 1 .. Len(table)
         /\ \A id \in DOMAIN stroke : stroke[id] \in Drawn
                                      /\ stroke[id].points \in Seq(Point)
<1>1. stroke \in Seq(Drawn) /\ strokes \in Seq(DOMAIN stroke)
  BY DEF Shape, DrawingShape
<1>2. table \in Seq(TableRow) /\ strokeIdx \in Int /\ strokeIdx >= -1
  BY DEF Shape, CommandShape, PenShape
<1>3. \A id \in DOMAIN stroke : stroke[id] \in Drawn
  BY <1>1, Element
<1>4. /\ Len(stroke) \in Nat /\ DOMAIN stroke = 1 .. Len(stroke)
      /\ Len(strokes) \in Nat /\ DOMAIN strokes = 1 .. Len(strokes)
      /\ Len(table) \in Nat /\ DOMAIN table = 1 .. Len(table)
  BY <1>1, <1>2
<1> QED BY <1>1, <1>2, <1>3, <1>4 DEF Drawn

LEMMA NumberedStays ==
  ASSUME Numbered, Flow' = Flow,
         UNCHANGED <<strokeIdx, stroke, strokes, rcv, table, faults>>
  PROVE  Numbered'
BY DEF Numbered, FlowNumbered, ListNumbered, LogNumbered, Writes

LEMMA PenKeepsNumbers ==
  ASSUME Shape, Numbered, Pen PROVE Numbered'
<1>1. PICK action : \E t : Event(action, t)
  BY PenEvents
<1>2. UNCHANGED <<stroke, strokes, rcv, table, faults>>
  BY <1>1 DEF Event, drawing, interpreter
<1>3. CASE Flow' = Flow /\ strokeIdx' = strokeIdx
  BY <1>2, <1>3, NumberedStays
<1>4. ASSUME NEW d \in Samples, faults = 0,
             /\ DOMAIN Flow' = 1 .. Len(Flow) + 1
             /\ DOMAIN Flow = 1 .. Len(Flow) /\ Len(Flow) \in Nat
             /\ \A i \in DOMAIN Flow : Flow'[i] = Flow[i]
             /\ Flow'[Len(Flow) + 1] = d,
             \/ /\ strokeIdx' = strokeIdx /\ ~d.isHead
                /\ d.idx \in {-1, strokeIdx}
             \/ /\ strokeIdx' = strokeIdx + 1 /\ d.isHead
                /\ d.idx = strokeIdx + 1
      PROVE  FlowNumbered'
  <2>1. FlowNumbered /\ strokeIdx \in Int /\ strokeIdx >= -1 /\ Len(stroke) \in Nat
    BY <1>4, ListIs DEF Numbered
  <2>2. strokeIdx' >= strokeIdx /\ strokeIdx' \in Int
    BY <1>4, <2>1
  <2>3. (strokeIdx >= Len(stroke) - 1)'
    BY <1>2, <2>1, <2>2 DEF FlowNumbered
  <2>4. \A j \in DOMAIN Flow :
          Writes(Flow[j]) => Flow[j].idx \in Len(stroke) - 1 .. strokeIdx
    BY <2>1 DEF FlowNumbered
  <2>5. \A j \in DOMAIN Flow' :
          Writes(Flow'[j]) => /\ Flow'[j].idx \in Len(stroke) - 1 .. strokeIdx'
                              /\ Flow'[j].isHead => Flow'[j].idx >= Len(stroke)
    <3> TAKE j \in DOMAIN Flow'
    <3>1. CASE j \in DOMAIN Flow
      <4>1. Flow'[j] = Flow[j]
        BY <1>4, <3>1
      <4>2. Writes(Flow[j]) => /\ Flow[j].idx \in Len(stroke) - 1 .. strokeIdx
                               /\ Flow[j].isHead => Flow[j].idx >= Len(stroke)
        BY <2>1, <3>1 DEF FlowNumbered
      <4> QED BY <2>1, <2>2, <4>1, <4>2
    <3>2. CASE j = Len(Flow) + 1
      <4>1. strokeIdx >= Len(stroke) - 1
        BY <2>1 DEF FlowNumbered
      <4>2. Flow'[j] = d
        BY <1>4, <3>2
      <4> QED BY <1>4, <2>1, <4>1, <4>2 DEF Writes
    <3> QED BY <1>4, <3>1, <3>2
  <2>6. \A i, j \in DOMAIN Flow' :
          i < j /\ Writes(Flow'[i]) /\ Writes(Flow'[j]) =>
            /\ Flow'[i].idx <= Flow'[j].idx
            /\ Flow'[j].isHead => Flow'[i].idx < Flow'[j].idx
    <3> SUFFICES ASSUME NEW i \in DOMAIN Flow', NEW j \in DOMAIN Flow', i < j,
                        Writes(Flow'[i]), Writes(Flow'[j])
                 PROVE  /\ Flow'[i].idx <= Flow'[j].idx
                        /\ Flow'[j].isHead => Flow'[i].idx < Flow'[j].idx
      OBVIOUS
    <3>1. i \in DOMAIN Flow /\ Flow'[i] = Flow[i]
      BY <1>4
    <3>2. CASE j \in DOMAIN Flow
      <4>1. Flow'[j] = Flow[j]
        BY <1>4, <3>2
      <4> QED BY <2>1, <3>1, <3>2, <4>1 DEF FlowNumbered
    <3>3. CASE j = Len(Flow) + 1
      <4>1. Flow'[j] = d /\ d.idx # -1
        BY <1>4, <3>3 DEF Writes
      <4>2. Flow[i].idx \in Len(stroke) - 1 .. strokeIdx
        BY <2>4, <3>1
      <4> QED BY <1>4, <2>1, <3>1, <4>1, <4>2
    <3> QED BY <1>4, <3>2, <3>3
  <2>7. \A n \in Len(stroke) .. strokeIdx' :
          \E k \in DOMAIN Flow' : Flow'[k].isHead /\ Flow'[k].idx = n
    <3> TAKE n \in Len(stroke) .. strokeIdx'
    <3>1. CASE n \in Len(stroke) .. strokeIdx
      <4>1. PICK k \in DOMAIN Flow : Flow[k].isHead /\ Flow[k].idx = n
        BY <2>1, <3>1 DEF FlowNumbered
      <4>2. k \in DOMAIN Flow' /\ Flow'[k] = Flow[k]
        BY <1>4, <4>1
      <4> QED BY <4>1, <4>2
    <3>2. CASE ~(n \in Len(stroke) .. strokeIdx)
      <4>1. d.isHead /\ d.idx = n
        BY <1>4, <2>1, <3>2
      <4> QED BY <1>4, <4>1
    <3> QED BY <3>1, <3>2
  <2> QED BY <1>2, <2>3, <2>5, <2>6, <2>7 DEF FlowNumbered
<1>5. CASE ~(Flow' = Flow /\ strokeIdx' = strokeIdx)
  <2>1. faults = 0 => FlowNumbered'
    <3> SUFFICES ASSUME faults = 0 PROVE FlowNumbered'
      OBVIOUS
    <3>1. PICK d \in Samples :
            /\ DOMAIN Flow' = 1 .. Len(Flow) + 1
            /\ DOMAIN Flow = 1 .. Len(Flow) /\ Len(Flow) \in Nat
            /\ \A i \in DOMAIN Flow : Flow'[i] = Flow[i]
            /\ Flow'[Len(Flow) + 1] = d
            /\ \/ /\ strokeIdx' = strokeIdx /\ ~d.isHead
                  /\ d.idx \in {-1, strokeIdx}
               \/ /\ strokeIdx' = strokeIdx + 1 /\ d.isHead
                  /\ d.idx = strokeIdx + 1
      BY <1>5, PenAdds
    <3> QED BY <1>4, <3>1
  <2>2. faults = 0 => ListNumbered' /\ LogNumbered'
    BY <1>2 DEF Numbered, ListNumbered, LogNumbered
  <2> QED BY <1>2, <2>1, <2>2 DEF Numbered
<1> QED BY <1>3, <1>5

(* The first of what is in flight. *)
LEMMA FirstOfFlow ==
  ASSUME Shape, FlowNumbered, Receive, Writes(Flow[1])
  PROVE  Flow[1].idx = IF Flow[1].isHead THEN Len(stroke) ELSE Len(stroke) - 1
<1>1. /\ 1 \in DOMAIN Flow /\ Flow[1] \in Samples /\ DOMAIN Flow = 1 .. Len(Flow)
      /\ Len(stroke) \in Nat /\ strokeIdx \in Int /\ Len(Flow) \in Nat
  BY ReceiverTakes, ListIs
<1>2. /\ Flow[1].idx \in Len(stroke) - 1 .. strokeIdx
      /\ Flow[1].isHead => Flow[1].idx >= Len(stroke)
  BY <1>1 DEF FlowNumbered
<1>3. ASSUME NEW n \in Len(stroke) .. strokeIdx, Flow[1].idx >= n
      PROVE  Flow[1].isHead /\ Flow[1].idx = n
  <2>1. PICK k \in DOMAIN Flow : Flow[k].isHead /\ Flow[k].idx = n
    BY <1>3 DEF FlowNumbered
  <2>2. Writes(Flow[k])
    BY <1>1, <2>1 DEF Writes
  <2>3. CASE k = 1
    BY <2>1, <2>3
  <2>4. CASE k # 1
    <3>1. 1 < k
      BY <1>1, <2>1, <2>4
    <3>2. Flow[1].idx < Flow[k].idx
      BY <1>1, <2>1, <2>2, <3>1 DEF FlowNumbered
    <3> QED BY <1>1, <1>2, <1>3, <2>1, <3>2
  <2> QED BY <2>3, <2>4
<1>4. CASE Flow[1].isHead
  <2>1. Len(stroke) \in Len(stroke) .. strokeIdx
    BY <1>1, <1>2, <1>4
  <2> QED BY <1>2, <1>3, <1>4, <2>1
<1>5. CASE ~Flow[1].isHead
  <2>1. ~(Flow[1].idx >= Len(stroke))
    <3> SUFFICES ASSUME Flow[1].idx >= Len(stroke) PROVE FALSE
      OBVIOUS
    <3>1. Flow[1].idx \in Len(stroke) .. strokeIdx /\ Flow[1].idx >= Flow[1].idx
      BY <1>1, <1>2
    <3> QED BY <1>3, <1>5, <3>1
  <2> QED BY <1>1, <1>2, <1>5, <2>1
<1> QED BY <1>4, <1>5

(* What is left of the flow is still numbered, for the strokes there are now. *)
LEMMA RestOfFlow ==
  ASSUME Shape, FlowNumbered, Receive, strokeIdx' = strokeIdx, Len(stroke') \in Nat,
         \/ Len(stroke') = Len(stroke) /\ ~(Writes(Flow[1]) /\ Flow[1].isHead)
         \/ /\ Len(stroke') = Len(stroke) + 1
            /\ Writes(Flow[1]) /\ Flow[1].isHead
  PROVE  FlowNumbered'
<1>1. /\ DOMAIN Flow = 1 .. Len(Flow) /\ Len(Flow) \in Nat /\ Len(Flow) >= 1
      /\ Flow[1] \in Samples
      /\ DOMAIN Flow' = 1 .. Len(Flow) - 1
      /\ \A i \in DOMAIN Flow' : i + 1 \in DOMAIN Flow /\ Flow'[i] = Flow[i + 1]
      /\ Len(stroke) \in Nat /\ strokeIdx \in Int
  BY ReceiverTakes, ListIs
<1>2. Writes(Flow[1]) /\ Flow[1].isHead => Flow[1].idx = Len(stroke)
                                           /\ Len(stroke) <= strokeIdx
  <2>1. Writes(Flow[1]) => Flow[1].idx \in Len(stroke) - 1 .. strokeIdx
    BY <1>1 DEF FlowNumbered
  <2> QED BY <1>1, <2>1, FirstOfFlow
<1>3. strokeIdx' >= Len(stroke') - 1
  BY <1>1, <1>2 DEF FlowNumbered
<1>4. \A j \in DOMAIN Flow' :
        Writes(Flow'[j]) => /\ Flow'[j].idx \in Len(stroke') - 1 .. strokeIdx'
                            /\ Flow'[j].isHead => Flow'[j].idx >= Len(stroke')
  <2> SUFFICES ASSUME NEW j \in DOMAIN Flow', Writes(Flow'[j])
               PROVE  /\ Flow'[j].idx \in Len(stroke') - 1 .. strokeIdx'
                      /\ Flow'[j].isHead => Flow'[j].idx >= Len(stroke')
    OBVIOUS
  <2>1. /\ j + 1 \in DOMAIN Flow /\ Flow'[j] = Flow[j + 1] /\ 1 < j + 1
        /\ 1 \in DOMAIN Flow
    BY <1>1
  <2>2. /\ Flow[j + 1].idx \in Len(stroke) - 1 .. strokeIdx
        /\ Flow[j + 1].isHead => Flow[j + 1].idx >= Len(stroke)
    BY <2>1 DEF FlowNumbered
  <2>3. CASE Len(stroke') = Len(stroke)
    BY <2>1, <2>2, <2>3
  <2>4. CASE Len(stroke') = Len(stroke) + 1 /\ Writes(Flow[1]) /\ Flow[1].isHead
    <3>1. /\ Flow[1].idx <= Flow[j + 1].idx
          /\ Flow[j + 1].isHead => Flow[1].idx < Flow[j + 1].idx
      BY <2>1, <2>4 DEF FlowNumbered
    <3> QED BY <1>1, <1>2, <2>1, <2>2, <2>4, <3>1
  <2> QED BY <2>3, <2>4
<1>5. \A i, j \in DOMAIN Flow' :
        i < j /\ Writes(Flow'[i]) /\ Writes(Flow'[j]) =>
          /\ Flow'[i].idx <= Flow'[j].idx
          /\ Flow'[j].isHead => Flow'[i].idx < Flow'[j].idx
  <2> SUFFICES ASSUME NEW i \in DOMAIN Flow', NEW j \in DOMAIN Flow', i < j,
                      Writes(Flow'[i]), Writes(Flow'[j])
               PROVE  /\ Flow'[i].idx <= Flow'[j].idx
                      /\ Flow'[j].isHead => Flow'[i].idx < Flow'[j].idx
    OBVIOUS
  <2>1. /\ i + 1 \in DOMAIN Flow /\ Flow'[i] = Flow[i + 1]
        /\ j + 1 \in DOMAIN Flow /\ Flow'[j] = Flow[j + 1] /\ i + 1 < j + 1
    BY <1>1
  <2> QED BY <2>1 DEF FlowNumbered
<1>6. \A n \in Len(stroke') .. strokeIdx' :
        \E k \in DOMAIN Flow' : Flow'[k].isHead /\ Flow'[k].idx = n
  <2> TAKE n \in Len(stroke') .. strokeIdx'
  <2>1. n \in Len(stroke) .. strokeIdx /\ n # -1
    BY <1>1
  <2>2. PICK k \in DOMAIN Flow : Flow[k].isHead /\ Flow[k].idx = n
    BY <2>1 DEF FlowNumbered
  <2>3. k # 1
    <3> SUFFICES ASSUME k = 1 PROVE FALSE
      OBVIOUS
    <3>1. Writes(Flow[1]) /\ Flow[1].isHead /\ Flow[1].idx = n
      BY <2>1, <2>2 DEF Writes
    <3> QED BY <1>1, <1>2, <3>1
  <2>4. k - 1 \in DOMAIN Flow' /\ (k - 1) + 1 = k
    BY <1>1, <2>2, <2>3
  <2>5. Flow'[k - 1] = Flow[k]
    BY <1>1, <2>4
  <2> QED BY <2>2, <2>4, <2>5
<1> QED BY <1>3, <1>4, <1>5, <1>6 DEF FlowNumbered

LEMMA ReceiveKeepsNumbers ==
  ASSUME Shape, Numbered, Receive PROVE Numbered'
<1> SUFFICES ASSUME faults = 0 PROVE FlowNumbered' /\ ListNumbered' /\ LogNumbered'
  BY DEF Receive, Numbered
<1> DEFINE m == Head(net)
<1>1. /\ FlowNumbered /\ ListNumbered /\ LogNumbered /\ rcv = NoRcv
      /\ m = Flow[1] /\ Flow[1] \in Samples
      /\ UNCHANGED <<strokeIdx, table>>
      /\ ReceiveCalibration(m) \/ AddStroke(m) \/ AddPointLoad(m)
  BY ReceiverTakes DEF Receive, Numbered, tablet, interpreter
<1>2. /\ stroke \in Seq(Drawn) /\ strokes \in Seq(DOMAIN stroke)
      /\ Len(stroke) \in Nat /\ DOMAIN stroke = 1 .. Len(stroke)
      /\ Len(strokes) \in Nat /\ DOMAIN strokes = 1 .. Len(strokes)
      /\ \A i \in DOMAIN table : table[i].strokeIdx \in Int
  <2>1. \A i \in DOMAIN table : table[i] \in TableRow
    BY ListIs, Element
  <2> QED BY <2>1, ListIs DEF TableRow
<1> HIDE DEF m
<1>3. CASE ReceiveCalibration(m)
  <2>1. UNCHANGED <<rcv, stroke, strokes>> /\ ~Writes(m)
    BY <1>3 DEF ReceiveCalibration, drawing, Writes
  <2>2. FlowNumbered'
    BY <1>1, <1>2, <2>1, RestOfFlow
  <2>3. ListNumbered' /\ LogNumbered'
    BY <1>1, <2>1 DEF ListNumbered, LogNumbered
  <2> QED BY <2>2, <2>3
<1>4. CASE AddStroke(m)
  <2> DEFINE p == [strokeIdx |-> m.idx, event |-> m.event, millis |-> m.millis,
                   isHead |-> TRUE, isTail |-> FALSE]
             s == [points |-> <<p>>, isCompleted |-> FALSE]
  <2>1. /\ stroke' = Append(stroke, s) /\ strokes' = Append(strokes, Len(stroke'))
        /\ rcv' = rcv /\ Writes(m) /\ m.isHead
    BY <1>4 DEF AddStroke, Writes
  <2>2. p \in Point
    BY <1>1, <2>1, Positive DEF Point, Samples, Data, Writes, Millis
  <2>3. s \in Drawn /\ s.points = <<p>>
    <3>1. <<p>> \in Seq(Point)
      BY <2>2
    <3> HIDE DEF p
    <3> QED BY <3>1 DEF Drawn
  <2>4. p.strokeIdx = m.idx
    OBVIOUS
  <2> HIDE DEF p, s
  <2>5. /\ stroke' \in Seq(Drawn) /\ Len(stroke') = Len(stroke) + 1
        /\ DOMAIN stroke' = 1 .. Len(stroke) + 1
        /\ \A i \in 1 .. Len(stroke) : stroke'[i] = stroke[i]
        /\ stroke'[Len(stroke) + 1] = s
    BY <1>2, <2>1, <2>3, Appends
  <2>6. /\ Len(strokes') = Len(strokes) + 1 /\ DOMAIN strokes' = 1 .. Len(strokes) + 1
        /\ \A i \in 1 .. Len(strokes) : strokes'[i] = strokes[i]
        /\ strokes'[Len(strokes) + 1] = Len(stroke) + 1
    <3>1. strokes \in Seq(Nat) /\ Len(stroke') \in Nat
      BY <1>2, <2>5
    <3> QED BY <1>2, <2>1, <2>5, <3>1, Appends
  <2>7. m.idx = Len(stroke)
    BY <1>1, <2>1, FirstOfFlow
  <2>8. FlowNumbered'
    BY <1>1, <1>2, <2>1, <2>5, RestOfFlow
  <2>9. /\ Len(strokes') <= Len(stroke')
        /\ \A i \in DOMAIN strokes' : strokes'[i] = Len(stroke') - Len(strokes') + i
    BY <1>1, <1>2, <2>5, <2>6 DEF ListNumbered
  <2>10. ASSUME NEW id \in DOMAIN stroke', NEW k \in DOMAIN stroke'[id].points
         PROVE  stroke'[id].points[k].strokeIdx = id - 1
    <3>1. CASE id \in DOMAIN stroke
      BY <1>1, <1>2, <2>5, <2>10, <3>1 DEF ListNumbered
    <3>2. CASE id = Len(stroke) + 1
      <4>1. stroke'[id].points = <<p>> /\ k = 1
        BY <2>3, <2>5, <2>10, <3>2
      <4> QED BY <1>2, <2>4, <2>7, <3>2, <4>1
    <3> QED BY <1>2, <2>5, <3>1, <3>2
  <2>11. ListNumbered'
    BY <1>1, <2>1, <2>9, <2>10 DEF ListNumbered
  <2>12. LogNumbered'
    BY <1>1, <1>2, <2>5, <2>6 DEF LogNumbered
  <2> QED BY <2>8, <2>11, <2>12
<1>5. CASE AddPointLoad(m)
  <2>1. UNCHANGED <<stroke, strokes>> /\ Writes(m) /\ ~m.isHead
    BY <1>5 DEF AddPointLoad, drawing, Writes
  <2>2. FlowNumbered'
    BY <1>1, <1>2, <2>1, RestOfFlow
  <2>3. m.idx = Len(stroke) - 1
    BY <1>1, <2>1, FirstOfFlow
  <2>4. rcv' # NoRcv => rcv'.st = Len(stroke) /\ rcv'.msg.idx = Len(stroke) - 1
    <3>1. CASE rcv' = rcv
      BY <1>1, <3>1
    <3>2. CASE /\ strokes # << >>
               /\ rcv' = [st |-> Last(strokes),
                          last |-> Last(stroke[Last(strokes)].points).millis,
                          msg |-> m]
      <4>1. Last(strokes) = strokes[Len(strokes)] /\ Len(strokes) \in DOMAIN strokes
        BY <1>2, <3>2, LastIn
      <4>2. Last(strokes) = Len(stroke)
        BY <1>1, <1>2, <4>1 DEF ListNumbered
      <4> QED BY <2>3, <3>2, <4>2
    <3> QED BY <1>5, <3>1, <3>2 DEF AddPointLoad
  <2>5. ListNumbered' /\ LogNumbered'
    BY <1>1, <2>1, <2>4 DEF ListNumbered, LogNumbered
  <2> QED BY <2>2, <2>5
<1> QED BY <1>1, <1>3, <1>4, <1>5

LEMMA Extended ==
  ASSUME NEW T, NEW s \in Seq(T), NEW n \in Nat, n = Len(s) \/ n = Len(s) - 1,
         NEW w \in Seq(T), Len(w) = n + 1, \A k \in 1 .. n : w[k] = s[k]
  PROVE  /\ Len(w) \in {Len(s), Len(s) + 1} /\ Len(w) \in Nat \ {0}
         /\ \A k \in 1 .. Len(w) - 1 : k \in DOMAIN s /\ w[k] = s[k]
<1>1. Len(s) \in Nat /\ DOMAIN s = 1 .. Len(s) /\ Len(w) \in Nat
  OBVIOUS
<1> DEFINE a == Len(s)  b == Len(w)
<1>2. a \in Nat /\ b \in Nat /\ (n = a \/ n = a - 1) /\ b = n + 1
  BY <1>1
<1> HIDE DEF a, b
<1>3. b \in {a, a + 1} /\ b \in Nat \ {0} /\ b - 1 = n /\ n <= a
  BY <1>2
<1>4. \A k \in 1 .. n : k \in 1 .. a
  BY <1>2, <1>3
<1>5. \A k \in 1 .. b - 1 : k \in DOMAIN s /\ w[k] = s[k]
  BY <1>1, <1>3, <1>4 DEF a
<1> QED BY <1>3, <1>5 DEF a, b

(* A received point is the last of the points it leaves in the stroke, the
   others of which were there. *)
LEMMA WithPointIs ==
  ASSUME NEW s \in Seq(Point), NEW m \in Samples, m.idx # -1, NEW last \in Millis,
         s # << >> \/ m.millis # last
  PROVE  \/ WithPoint(s, m, last) = s
         \/ /\ WithPoint(s, m, last) \in Seq(Point)
            /\ Len(WithPoint(s, m, last)) \in {Len(s), Len(s) + 1}
            /\ Len(WithPoint(s, m, last)) \in Nat \ {0}
            /\ WithPoint(s, m, last)[Len(WithPoint(s, m, last))] = StoredPoint(m, last)
            /\ \A k \in 1 .. Len(WithPoint(s, m, last)) - 1 :
                 k \in DOMAIN s /\ WithPoint(s, m, last)[k] = s[k]
<1> DEFINE p == StoredPoint(m, last)
<1>1. p \in Point /\ Len(s) \in Nat /\ DOMAIN s = 1 .. Len(s)
  BY WithPointFits
<1> HIDE DEF p
<1>2. ASSUME NEW f \in Seq(Point), NEW n, n = Len(f), n = Len(s) \/ n = Len(s) - 1,
             \A k \in 1 .. n : f[k] = s[k],
             NEW w, w = WithPoint(s, m, last), w = Append(f, p)
      PROVE  /\ w \in Seq(Point) /\ Len(w) \in {Len(s), Len(s) + 1}
             /\ Len(w) \in Nat \ {0} /\ w[Len(w)] = p
             /\ \A k \in 1 .. Len(w) - 1 : k \in DOMAIN s /\ w[k] = s[k]
  <2>1. /\ Append(f, p) \in Seq(Point) /\ Len(Append(f, p)) = Len(f) + 1
        /\ \A i \in 1 .. Len(f) : Append(f, p)[i] = f[i]
        /\ Append(f, p)[Len(f) + 1] = p
    BY <1>1, Appends
  <2>2. /\ w \in Seq(Point) /\ Len(w) = n + 1 /\ w[n + 1] = p
        /\ \A i \in 1 .. n : w[i] = f[i]
    BY <1>2, <2>1, Zenon
  <2>3. n \in Nat /\ \A i \in 1 .. n : w[i] = s[i]
    BY <1>2, <2>2
  <2> QED BY <1>2, <2>2, <2>3, Extended
<1>3. CASE m.millis > last
  <2>1. WithPoint(s, m, last) = Append(s, p)
    BY <1>3 DEF WithPoint, p
  <2> QED BY <1>2, <2>1 DEF p
<1>5. CASE ~(m.millis > last) /\ m.millis = last
  <2> DEFINE f == Front(s)
  <2>1. /\ f \in Seq(Point) /\ Len(f) = Len(s) - 1
        /\ \A k \in 1 .. Len(s) - 1 : f[k] = s[k]
    BY <1>5, Fronts
  <2>2. WithPoint(s, m, last) = Append(f, p)
    BY <1>5 DEF WithPoint, p
  <2> HIDE DEF f
  <2> QED BY <1>2, <2>1, <2>2 DEF p
<1>4. CASE ~(m.millis > last) /\ m.millis # last
  BY <1>4 DEF WithPoint
<1> QED BY <1>3, <1>4, <1>5

(* A started addPoint ends. *)
LEMMA StoreIs ==
  ASSUME Shape, AddPointStore
  PROVE  /\ rcv.msg \in Samples /\ rcv.msg.idx # -1 /\ rcv.st \in DOMAIN stroke
         /\ rcv # NoRcv /\ rcv' = NoRcv
         /\ DOMAIN stroke' = DOMAIN stroke /\ Len(stroke') = Len(stroke)
         /\ \A id \in DOMAIN stroke : id # rcv.st => stroke'[id] = stroke[id]
         /\ \/ stroke'[rcv.st].points = stroke[rcv.st].points
            \/ \E n \in Nat \ {0} :
                 /\ stroke'[rcv.st].points \in Seq(Point)
                 /\ DOMAIN stroke'[rcv.st].points = 1 .. n
                 /\ n \in {Len(stroke[rcv.st].points), Len(stroke[rcv.st].points) + 1}
                 /\ stroke'[rcv.st].points[n] = StoredPoint(rcv.msg, rcv.last)
                 /\ \A k \in 1 .. n - 1 :
                      /\ k \in DOMAIN stroke[rcv.st].points
                      /\ stroke'[rcv.st].points[k] = stroke[rcv.st].points[k]
<1> DEFINE s == stroke[rcv.st]
           t == [points |-> WithPoint(s.points, rcv.msg, rcv.last),
                 isCompleted |-> s.isCompleted \/ Completes(rcv.msg, rcv.last)]
<1>1. /\ DrawingShape /\ rcv' = NoRcv /\ rcv # NoRcv
      /\ rcv \in [st : DOMAIN stroke, last : Millis, msg : Samples]
      /\ rcv.msg.idx # -1 /\ rcv.msg \in Samples /\ rcv.st \in DOMAIN stroke
      /\ rcv.last \in Millis
  BY DEF AddPointStore, Shape, DrawingShape
<1>2. s \in Drawn /\ s.points \in Seq(Point)
  BY <1>1, ListIs
<1>3. CASE stroke' = stroke
  BY <1>1, <1>3
<1>4. CASE /\ ~(rcv.msg.millis = rcv.last /\ s.points = << >>)
           /\ stroke' = [stroke EXCEPT ![rcv.st] = t]
  <2>1. WithPoint(s.points, rcv.msg, rcv.last) \in Seq(Point)
    BY <1>1, <1>2, <1>4, WithPointFits
  <2>2. (s.isCompleted \/ Completes(rcv.msg, rcv.last)) \in BOOLEAN
    OBVIOUS
  <2>3. t \in Drawn /\ t.points = WithPoint(s.points, rcv.msg, rcv.last)
    BY <2>1, <2>2 DEF Drawn
  <2> DEFINE w == WithPoint(s.points, rcv.msg, rcv.last)
  <2>4. \/ w = s.points
        \/ /\ w \in Seq(Point) /\ Len(w) \in {Len(s.points), Len(s.points) + 1}
           /\ Len(w) \in Nat \ {0}
           /\ w[Len(w)] = StoredPoint(rcv.msg, rcv.last)
           /\ \A k \in 1 .. Len(w) - 1 :
                k \in DOMAIN s.points /\ w[k] = s.points[k]
    BY <1>1, <1>2, <1>4, WithPointIs
  <2> HIDE DEF t, w
  <2>5. /\ stroke' \in Seq(Drawn) /\ DOMAIN stroke' = DOMAIN stroke
        /\ stroke'[rcv.st] = t
        /\ \A i \in DOMAIN stroke : i # rcv.st => stroke'[i] = stroke[i]
    BY <1>1, <1>4, <2>3, StrokeChanges
  <2>6. Len(stroke') = Len(stroke)
    BY <1>1, <2>5, ListIs
  <2>7. t.points = w
    BY <2>3 DEF w
  <2>8. w \in Seq(Point) /\ DOMAIN w = 1 .. Len(w)
    BY <1>2, <2>4
  <2> QED BY <1>1, <2>4, <2>5, <2>6, <2>7, <2>8
<1> QED BY <1>3, <1>4 DEF AddPointStore

LEMMA StoreKeepsNumbers ==
  ASSUME Shape, Numbered, AddPointStore PROVE Numbered'
<1> SUFFICES ASSUME faults = 0 PROVE FlowNumbered' /\ ListNumbered' /\ LogNumbered'
  BY DEF AddPointStore, Numbered
<1>1. /\ FlowNumbered /\ ListNumbered /\ LogNumbered /\ Flow' = Flow
      /\ UNCHANGED <<strokeIdx, table, strokes>>
  BY FlowStays DEF AddPointStore, Numbered, tablet, interpreter
<1>2. /\ rcv' = NoRcv /\ DOMAIN stroke' = DOMAIN stroke /\ Len(stroke') = Len(stroke)
  BY StoreIs
<1>3. ASSUME NEW id \in DOMAIN stroke', NEW k \in DOMAIN stroke'[id].points
      PROVE  stroke'[id].points[k].strokeIdx = id - 1
  <2>1. CASE id # rcv.st \/ stroke'[rcv.st].points = stroke[rcv.st].points
    <3>1. stroke'[id].points = stroke[id].points
      BY <1>2, <2>1, StoreIs
    <3> QED BY <1>1, <1>2, <1>3, <3>1 DEF ListNumbered
  <2>2. CASE id = rcv.st /\ stroke'[rcv.st].points # stroke[rcv.st].points
    <3>1. PICK n \in Nat \ {0} :
            /\ DOMAIN stroke'[rcv.st].points = 1 .. n
            /\ stroke'[rcv.st].points[n] = StoredPoint(rcv.msg, rcv.last)
            /\ \A l \in 1 .. n - 1 :
                 /\ l \in DOMAIN stroke[rcv.st].points
                 /\ stroke'[rcv.st].points[l] = stroke[rcv.st].points[l]
      BY <2>2, StoreIs
    <3>2. StoredPoint(rcv.msg, rcv.last).strokeIdx = id - 1
      BY <1>1, <2>2, StoreIs DEF StoredPoint, ListNumbered
    <3>3. CASE k = n
      BY <2>2, <3>1, <3>2, <3>3
    <3>4. CASE k \in 1 .. n - 1
      BY <1>1, <1>2, <1>3, <2>2, <3>1, <3>4 DEF ListNumbered
    <3> QED BY <1>3, <2>2, <3>1, <3>3, <3>4
  <2> QED BY <2>1, <2>2
<1>4. FlowNumbered' /\ LogNumbered'
  BY <1>1, <1>2 DEF FlowNumbered, LogNumbered, Writes
<1>5. ListNumbered'
  BY <1>1, <1>2, <1>3 DEF ListNumbered
<1> QED BY <1>4, <1>5

(* The interpreter takes points off the first stroke. *)
LEMMA TakesOff ==
  ASSUME Shape, interp # "idle", NEW q \in Seq(Point),
         stroke' = [stroke EXCEPT ![current].points = q]
  PROVE  /\ DOMAIN stroke' = DOMAIN stroke /\ Len(stroke') = Len(stroke)
         /\ current \in DOMAIN stroke /\ stroke'[current].points = q
         /\ \A id \in DOMAIN stroke : id # current => stroke'[id] = stroke[id]
<1> DEFINE t == [stroke[current] EXCEPT !.points = q]
<1>1. /\ current \in DOMAIN stroke /\ stroke[current] \in Drawn
  BY InHand
<1>2. t \in Drawn /\ t.points = q /\ stroke' = [stroke EXCEPT ![current] = t]
  BY <1>1 DEF Drawn
<1> HIDE DEF t
<1>3. /\ stroke' \in Seq(Drawn) /\ DOMAIN stroke' = DOMAIN stroke
      /\ stroke'[current] = t
      /\ \A i \in DOMAIN stroke : i # current => stroke'[i] = stroke[i]
  BY <1>1, <1>2, StrokeChanges DEF Shape
<1>4. Len(stroke') = Len(stroke)
  BY <1>3, ListIs
<1> QED BY <1>1, <1>2, <1>3, <1>4

(* And logs at most the first of them. *)
LEMMA LogIs ==
  ASSUME Shape, NEW s \in Seq(Point), Len(s) <= 1, logTable(s)
  PROVE  \/ s = << >> /\ table' = table
         \/ /\ s # << >> /\ Len(table) \in Nat /\ DOMAIN table = 1 .. Len(table)
            /\ DOMAIN table' = 1 .. Len(table) + 1
            /\ \A i \in DOMAIN table : table'[i] = table[i]
            /\ table'[Len(table) + 1].event = s[1].event
            /\ table'[Len(table) + 1].strokeIdx = s[1].strokeIdx
<1> DEFINE rows == [i \in DOMAIN s |->
                      [strokeIdx |-> s[i].strokeIdx, event |-> s[i].event,
                       millis |-> s[i].millis]]
<1>1. /\ table \in Seq(TableRow) /\ Len(table) \in Nat
      /\ DOMAIN table = 1 .. Len(table) /\ table' = table \o rows
  BY ListIs DEF logTable
<1>2. \A i \in DOMAIN s : rows[i] \in TableRow
  <2> TAKE i \in DOMAIN s
  <2>1. s[i] \in Point
    BY Element
  <2> QED BY <2>1 DEF Point, TableRow
<1>3. Len(s) \in {0, 1} /\ DOMAIN s = 1 .. Len(s) /\ (Len(s) = 0 <=> s = << >>)
  OBVIOUS
<1>4. rows \in Seq(TableRow) /\ Len(rows) = Len(s)
  BY <1>2, <1>3
<1>5. s # << >> => /\ rows[1].event = s[1].event
                   /\ rows[1].strokeIdx = s[1].strokeIdx
  BY <1>3
<1> HIDE DEF rows
<1>6. /\ table' \in Seq(TableRow) /\ Len(table') = Len(table) + Len(rows)
      /\ \A k \in 1 .. Len(table) + Len(rows) :
           table'[k] = IF k <= Len(table) THEN table[k] ELSE rows[k - Len(table)]
  BY <1>1, <1>4, Concatenation
<1>7. CASE s = << >>
  <2>1. rows = << >>
    BY <1>3, <1>4, <1>7
  <2> QED BY <1>1, <1>7, <2>1
<1>8. CASE s # << >>
  <2>1. Len(rows) = 1
    BY <1>3, <1>4, <1>8
  <2>2. table'[Len(table) + 1] = rows[1]
    BY <1>1, <1>6, <2>1
  <2>3. /\ DOMAIN table' = 1 .. Len(table) + 1
        /\ \A i \in 1 .. Len(table) : table'[i] = table[i]
    BY <1>1, <1>6, <2>1
  <2> QED BY <1>1, <1>5, <1>8, <2>2, <2>3
<1> QED BY <1>7, <1>8

LEMMA FewerPointsKeepNumbers ==
  ASSUME Shape, ListNumbered, interp # "idle", NEW q \in Seq(Point),
         \A k \in DOMAIN q : \E l \in DOMAIN stroke[current].points :
           q[k] = stroke[current].points[l],
         stroke' = [stroke EXCEPT ![current].points = q],
         UNCHANGED <<strokes, rcv>>
  PROVE  ListNumbered'
<1>1. /\ DOMAIN stroke' = DOMAIN stroke /\ Len(stroke') = Len(stroke)
      /\ current \in DOMAIN stroke /\ stroke'[current].points = q
      /\ \A id \in DOMAIN stroke : id # current => stroke'[id] = stroke[id]
  BY TakesOff
<1>2. ASSUME NEW id \in DOMAIN stroke', NEW k \in DOMAIN stroke'[id].points
      PROVE  stroke'[id].points[k].strokeIdx = id - 1
  <2>1. CASE id = current
    <3>1. PICK l \in DOMAIN stroke[current].points : q[k] = stroke[current].points[l]
      BY <1>1, <1>2, <2>1
    <3>2. stroke[current].points[l].strokeIdx = current - 1
      BY <1>1, <3>1 DEF ListNumbered
    <3> QED BY <1>1, <2>1, <3>1, <3>2
  <2>2. CASE id # current
    BY <1>1, <1>2, <2>2 DEF ListNumbered
  <2> QED BY <2>1, <2>2
<1> QED BY <1>1, <1>2 DEF ListNumbered

LEMMA LogKeepsNumbers ==
  ASSUME Shape, ListNumbered, LogNumbered, interp # "idle",
         NEW s \in Seq(Point), Len(s) <= 1, logTable(s),
         \A k \in DOMAIN s : \E l \in DOMAIN stroke[current].points :
           s[k] = stroke[current].points[l],
         Len(stroke') = Len(stroke), strokes' = strokes
  PROVE  LogNumbered'
<1>1. CASE table' = table
  BY <1>1 DEF LogNumbered
<1>2. CASE /\ s # << >> /\ Len(table) \in Nat /\ DOMAIN table = 1 .. Len(table)
           /\ DOMAIN table' = 1 .. Len(table) + 1
           /\ \A i \in DOMAIN table : table'[i] = table[i]
           /\ table'[Len(table) + 1].strokeIdx = s[1].strokeIdx
  <2>1. 1 \in DOMAIN s
    BY <1>2
  <2>2. PICK l \in DOMAIN stroke[current].points : s[1] = stroke[current].points[l]
    BY <2>1
  <2>3. /\ current \in DOMAIN stroke /\ strokes # << >> /\ current = Head(strokes)
        /\ 1 \in DOMAIN strokes /\ Head(strokes) = strokes[1]
        /\ Len(stroke) \in Nat /\ Len(strokes) \in Nat
    BY InHand, ListIs, Tails
  <2>4. current = Len(stroke) - Len(strokes) + 1
    BY <2>3 DEF ListNumbered
  <2>5. s[1].strokeIdx = Len(stroke) - Len(strokes)
    BY <2>2, <2>3, <2>4 DEF ListNumbered
  <2>6. \A i \in DOMAIN table' : table'[i].strokeIdx <= Len(stroke') - Len(strokes')
    BY <1>2, <2>3, <2>5 DEF LogNumbered
  <2>7. ASSUME NEW i \in DOMAIN table', NEW j \in DOMAIN table', i < j
        PROVE  table'[i].strokeIdx <= table'[j].strokeIdx
    <3>1. i \in DOMAIN table /\ table'[i] = table[i]
      BY <1>2, <2>7
    <3>2. CASE j \in DOMAIN table
      <4>1. table'[j] = table[j]
        BY <1>2, <3>2
      <4> QED BY <2>7, <3>1, <3>2, <4>1 DEF LogNumbered
    <3>3. CASE j = Len(table) + 1
      BY <1>2, <2>5, <3>1, <3>3 DEF LogNumbered
    <3> QED BY <1>2, <3>2, <3>3
  <2> QED BY <2>6, <2>7 DEF LogNumbered
<1> QED BY <1>1, <1>2, LogIs

LEMMA InterpretTailKeepsNumbers ==
  ASSUME Shape, Numbered, InterpretTail PROVE Numbered'
<1> SUFFICES ASSUME faults = 0 PROVE FlowNumbered' /\ ListNumbered' /\ LogNumbered'
  BY DEF InterpretTail, Numbered
<1> DEFINE ps == stroke[current].points
           q == <<ps[1]>>
           r == Tail(ps)
<1>1. /\ FlowNumbered /\ ListNumbered /\ LogNumbered /\ Flow' = Flow
      /\ UNCHANGED <<strokeIdx, strokes, rcv>> /\ interp # "idle"
      /\ logTable(q) /\ stroke' = [stroke EXCEPT ![current].points = r]
  BY FlowStays DEF InterpretTail, Numbered, tablet
<1>2. ps \in Seq(Point) /\ Len(ps) >= 2
  BY InHand DEF InterpretTail, Shape, DrawingShape
<1> HIDE DEF ps
<1>3. ps[1] \in Point /\ r \in Seq(Point)
      /\ \A i \in DOMAIN r : i + 1 \in DOMAIN ps /\ r[i] = ps[i + 1]
  BY <1>2, PairInHand, Tails
<1>4. q \in Seq(Point) /\ Len(q) <= 1 /\ 1 \in DOMAIN ps
      /\ \A k \in DOMAIN q : q[k] = ps[1]
  BY <1>2, <1>3
<1> HIDE DEF q, r
<1>5. ListNumbered'
  BY <1>1, <1>3, FewerPointsKeepNumbers DEF ps
<1>6. Len(stroke') = Len(stroke)
  BY <1>1, <1>3, TakesOff
<1>7. LogNumbered'
  BY <1>1, <1>4, <1>6, LogKeepsNumbers DEF ps
<1>8. FlowNumbered'
  BY <1>1, <1>6 DEF FlowNumbered, Writes
<1> QED BY <1>5, <1>7, <1>8

LEMMA InterpretRestKeepsNumbers ==
  ASSUME Shape, Numbered, InterpretRest PROVE Numbered'
<1> SUFFICES ASSUME faults = 0 PROVE FlowNumbered' /\ ListNumbered' /\ LogNumbered'
  BY DEF InterpretRest, Numbered
<1> DEFINE ps == stroke[current].points
<1>1. /\ FlowNumbered /\ ListNumbered /\ LogNumbered /\ Flow' = Flow
      /\ UNCHANGED <<strokeIdx, strokes, rcv>> /\ interp # "idle"
      /\ logTable(ps) /\ Len(ps) < 2
  BY FlowStays DEF InterpretRest, Numbered, tablet
<1>2. PICK q : q = << >>
  OBVIOUS
<1>3. q \in Seq(Point) /\ DOMAIN q = {}
  BY <1>2
<1>4. stroke' = [stroke EXCEPT ![current].points = q]
  BY <1>2 DEF InterpretRest
<1>5. ps \in Seq(Point) /\ Len(ps) <= 1
  BY <1>1, InHand
<1>6. ListNumbered'
  BY <1>1, <1>3, <1>4, FewerPointsKeepNumbers
<1>7. Len(stroke') = Len(stroke)
  BY <1>1, <1>3, <1>4, TakesOff
<1>8. LogNumbered'
  BY <1>1, <1>5, <1>7, LogKeepsNumbers
<1>9. FlowNumbered'
  BY <1>1, <1>7 DEF FlowNumbered, Writes
<1> QED BY <1>6, <1>8, <1>9

LEMMA RemoveKeepsNumbers ==
  ASSUME Shape, Numbered, RemoveStroke PROVE Numbered'
<1> SUFFICES ASSUME faults = 0 PROVE FlowNumbered' /\ ListNumbered' /\ LogNumbered'
  BY DEF RemoveStroke, Numbered
<1>1. /\ FlowNumbered /\ ListNumbered /\ LogNumbered /\ Flow' = Flow
      /\ UNCHANGED <<strokeIdx, stroke, rcv, table>> /\ strokes' = Tail(strokes)
      /\ strokes # << >>
  BY FlowStays DEF RemoveStroke, Numbered, tablet, Shape, DrawingShape
<1>2. /\ strokes \in Seq(DOMAIN stroke) /\ Len(stroke) \in Nat
      /\ Len(strokes) \in Nat /\ DOMAIN strokes = 1 .. Len(strokes)
      /\ \A i \in DOMAIN table : table[i].strokeIdx \in Int
  <2>1. \A i \in DOMAIN table : table[i] \in TableRow
    BY ListIs, Element
  <2> QED BY <2>1, ListIs DEF TableRow
<1>3. /\ Len(strokes') = Len(strokes) - 1 /\ DOMAIN strokes' = 1 .. Len(strokes) - 1
      /\ \A i \in DOMAIN strokes' : i + 1 \in DOMAIN strokes
                                    /\ strokes'[i] = strokes[i + 1]
  BY <1>1, <1>2, Tails
<1>4. ListNumbered'
  <2>1. ASSUME NEW i \in DOMAIN strokes'
        PROVE  strokes'[i] = Len(stroke') - Len(strokes') + i
    <3>1. /\ i + 1 \in DOMAIN strokes /\ strokes'[i] = strokes[i + 1] /\ i \in Int
          /\ Len(strokes') = Len(strokes) - 1 /\ stroke' = stroke
      BY <1>1, <1>2, <1>3
    <3>2. strokes[i + 1] = Len(stroke) - Len(strokes) + (i + 1)
      BY <1>1, <3>1 DEF ListNumbered
    <3> QED BY <1>2, <3>1, <3>2
  <2>2. Len(strokes') <= Len(stroke')
    <3>1. Len(strokes) <= Len(stroke) /\ stroke' = stroke
      BY <1>1 DEF ListNumbered
    <3> QED BY <1>2, <1>3, <3>1
  <2> QED BY <1>1, <2>1, <2>2 DEF ListNumbered
<1>5. LogNumbered'
  BY <1>1, <1>2, <1>3 DEF LogNumbered
<1>6. FlowNumbered'
  BY <1>1 DEF FlowNumbered, Writes
<1> QED BY <1>4, <1>5, <1>6

LEMMA NumberedStep == Shape /\ Numbered /\ [Next]_vars => Numbered'
<1> SUFFICES ASSUME Shape, Numbered, [Next]_vars PROVE Numbered'
  OBVIOUS
<1>1. CASE Pen
  BY <1>1, PenKeepsNumbers
<1>2. CASE Keyboard
  <2>1. UNCHANGED <<net, tabletInputData, strokeIdx, stroke, strokes, rcv, table,
                    faults>>
    BY <1>2 DEF Keyboard, ToggleMode, keyPressed, ReserveTyped, tablet, drawing,
               interpreter
  <2> QED BY <2>1, FlowStays, NumberedStays
<1>3. CASE OscStreaming
  <2>1. UNCHANGED <<strokeIdx, stroke, strokes, rcv, table, faults>>
    BY <1>3 DEF OscStreaming, drawing, interpreter
  <2> QED BY <1>3, <2>1, StreamingKeepsAll, NumberedStays
<1>4. CASE NetFault \/ OscRace
  <2>1. faults' # 0
    BY <1>4 DEF NetFault, OscRace, Shape, QueueShape
  <2> QED BY <2>1 DEF Numbered
<1>5. CASE Oscp5
  <2>1. CASE ReadSizes
    <3>1. UNCHANGED <<net, tabletInputData, strokeIdx, stroke, strokes, rcv,
                      table, faults>>
      BY <2>1 DEF ReadSizes, tablet, drawing, interpreter
    <3> QED BY <3>1, FlowStays, NumberedStays
  <2> QED BY <1>5, <2>1, ReceiveKeepsNumbers, StoreKeepsNumbers DEF Oscp5
<1>6. CASE Interpret \/ InterpretPair \/ Reserve
  <2>1. UNCHANGED <<net, tabletInputData, strokeIdx, stroke, strokes, rcv, table,
                    faults>>
    BY <1>6 DEF Interpret, InterpretPair, Reserve, tablet, drawing
  <2> QED BY <2>1, FlowStays, NumberedStays
<1>7. CASE InterpretTail \/ InterpretRest \/ RemoveStroke
  BY <1>7, InterpretTailKeepsNumbers, InterpretRestKeepsNumbers, RemoveKeepsNumbers
<1>8. CASE UNCHANGED vars
  <2>1. UNCHANGED <<net, tabletInputData, strokeIdx, stroke, strokes, rcv, table,
                    faults>>
    BY <1>8 DEF vars, tablet, drawing, interpreter
  <2> QED BY <2>1, FlowStays, NumberedStays
<1> QED BY <1>1, <1>2, <1>3, <1>4, <1>5, <1>6, <1>7, <1>8 DEF Next, Interpreting

LEMMA InitNumbered == Init => Numbered
<1> SUFFICES ASSUME Init PROVE FlowNumbered /\ ListNumbered /\ LogNumbered
  BY DEF Numbered
<1>1. /\ Flow = << >> /\ strokeIdx = -1 /\ stroke = << >> /\ strokes = << >>
      /\ table = << >> /\ rcv = NoRcv
  BY DEF Init, Flow
<1>2. \A s : s = << >> => Len(s) = 0 /\ DOMAIN s = {}
  OBVIOUS
<1> QED BY <1>1, <1>2 DEF FlowNumbered, ListNumbered, LogNumbered

(* The moves among commands. *)
LEMMA MovesOfAppend ==
  ASSUME NEW T, NEW s \in Seq(T), NEW c \in T
  PROVE  /\ Targets(Append(s, c)) \subseteq
              Targets(s) \cup (IF c.op \in {"travel", "line"} THEN {c.to} ELSE {})
         /\ /\ MovesInOrder(s)
            /\ c.op \in {"travel", "line"} => \A v \in Targets(s) : Before(v, c.to)
            => MovesInOrder(Append(s, c))
<1> DEFINE t == Append(s, c)
<1>1. /\ DOMAIN t = 1 .. Len(s) + 1 /\ DOMAIN s = 1 .. Len(s) /\ Len(s) \in Nat
      /\ \A i \in 1 .. Len(s) : t[i] = s[i]
      /\ t[Len(s) + 1] = c
  BY Appends
<1> HIDE DEF t
<1>2. ASSUME NEW i \in Moves(t)
      PROVE  \/ i \in Moves(s) /\ t[i] = s[i] /\ i <= Len(s)
             \/ i = Len(s) + 1 /\ t[i] = c /\ c.op \in {"travel", "line"}
  BY <1>1, <1>2 DEF Moves
<1>3. Targets(t) \subseteq
        Targets(s) \cup (IF c.op \in {"travel", "line"} THEN {c.to} ELSE {})
  BY <1>2 DEF Targets
<1>4. ASSUME MovesInOrder(s),
             c.op \in {"travel", "line"} => \A v \in Targets(s) : Before(v, c.to)
      PROVE  MovesInOrder(t)
  <2> SUFFICES ASSUME NEW i \in Moves(t), NEW j \in Moves(t), i < j
               PROVE  Before(t[i].to, t[j].to)
    BY DEF MovesInOrder
  <2>1. i \in DOMAIN t /\ j \in DOMAIN t
    BY DEF Moves
  <2>2. i \in Moves(s) /\ t[i] = s[i] /\ s[i].to \in Targets(s)
    BY <1>1, <1>2, <2>1 DEF Targets
  <2>3. CASE j \in Moves(s) /\ t[j] = s[j]
    BY <1>4, <2>2, <2>3 DEF MovesInOrder
  <2>4. CASE t[j] = c /\ c.op \in {"travel", "line"}
    BY <1>4, <2>2, <2>4
  <2> QED BY <1>2, <2>3, <2>4
<1> QED BY <1>3, <1>4 DEF t

LEMMA MovesOfTail ==
  ASSUME NEW T, NEW s \in Seq(T), s # << >>, MovesInOrder(s)
  PROVE  /\ Targets(Tail(s)) \subseteq Targets(s) /\ MovesInOrder(Tail(s))
         /\ Head(s).op \in {"travel", "line"} =>
              /\ Head(s).to \in Targets(s)
              /\ \A w \in Targets(Tail(s)) : Before(Head(s).to, w)
<1> DEFINE t == Tail(s)
<1>1. /\ DOMAIN t = 1 .. Len(s) - 1 /\ DOMAIN s = 1 .. Len(s) /\ Len(s) \in Nat
      /\ Len(s) >= 1 /\ Head(s) = s[1]
      /\ \A i \in 1 .. Len(s) - 1 : t[i] = s[i + 1]
  BY Tails
<1> HIDE DEF t
<1>2. ASSUME NEW i \in Moves(t)
      PROVE  i + 1 \in Moves(s) /\ t[i] = s[i + 1] /\ 1 < i + 1 /\ i \in Int
  BY <1>1, <1>2 DEF Moves
<1>3. Targets(t) \subseteq Targets(s)
  BY <1>2 DEF Targets
<1>4. MovesInOrder(t)
  <2> SUFFICES ASSUME NEW i \in Moves(t), NEW j \in Moves(t), i < j
               PROVE  Before(t[i].to, t[j].to)
    BY DEF MovesInOrder
  <2>1. /\ i + 1 \in Moves(s) /\ t[i] = s[i + 1] /\ j + 1 \in Moves(s)
        /\ t[j] = s[j + 1] /\ i + 1 < j + 1
    BY <1>2
  <2> QED BY <2>1 DEF MovesInOrder
<1>5. ASSUME Head(s).op \in {"travel", "line"}
      PROVE  /\ Head(s).to \in Targets(s)
             /\ \A w \in Targets(t) : Before(Head(s).to, w)
  <2>1. 1 \in Moves(s)
    BY <1>1, <1>5 DEF Moves
  <2>2. ASSUME NEW w \in Targets(t) PROVE Before(Head(s).to, w)
    <3>1. PICK i \in Moves(t) : w = t[i].to
      BY <2>2 DEF Targets
    <3>2. i + 1 \in Moves(s) /\ t[i] = s[i + 1] /\ 1 < i + 1
      BY <1>2, <3>1
    <3> QED BY <1>1, <2>1, <3>1, <3>2 DEF MovesInOrder
  <2> QED BY <1>1, <2>1, <2>2 DEF Targets
<1> QED BY <1>3, <1>4, <1>5 DEF t

LEMMA MovesOfNone ==
  ASSUME NEW s, s = << >> PROVE Targets(s) = {} /\ MovesInOrder(s)
<1>1. DOMAIN s = {}
  OBVIOUS
<1> QED BY <1>1 DEF Targets, Moves, MovesInOrder

(* Everything named by the invariant is an event. *)
LEMMA HandledAreTimes ==
  ASSUME Shape
  PROVE  /\ Handled \subseteq Times /\ Now \in Times
         /\ \A j \in DOMAIN Flow : Flow[j].event \in Times
         /\ rcv # NoRcv => rcv.msg.event \in Times
         /\ \A id \in DOMAIN stroke : \A k \in DOMAIN stroke[id].points :
              stroke[id].points[k].event \in Times
<1>1. Now \in Times
  BY Positive DEF Now, Times, Shape, PenShape
<1>2. \A d \in Samples : d.event \in Times
  BY EventsAreTimes DEF Samples, Data
<1>3. \A j \in DOMAIN Flow : Flow[j].event \in Times
  <2>1. \A j \in DOMAIN Flow : Flow[j] \in Samples
    BY FlowIs, Element
  <2> QED BY <1>2, <2>1
<1>4. rcv # NoRcv => rcv.msg.event \in Times
  BY <1>2 DEF Shape, DrawingShape
<1>5. ASSUME NEW id \in DOMAIN stroke, NEW k \in DOMAIN stroke[id].points
      PROVE  stroke[id].points[k].event \in Times
  <2>1. stroke[id].points[k] \in Point
    BY <1>5, ListIs, Element
  <2> QED BY <2>1, EventsAreTimes DEF Point
<1>6. \A id \in DOMAIN stroke : EventsOf(stroke[id]) \subseteq Times
  BY <1>5 DEF EventsOf
<1>7. ASSUME NEW c \in Command, c.op \in {"travel", "line"} PROVE c.to \in Times
  BY <1>7, EventsAreTimes DEF Command, StrokeCommand, KeyCommand
<1>8. Moved \subseteq Times
  <2>1. \A i \in DOMAIN reservedMsg : reservedMsg[i] \in Command
    BY Element DEF Shape, CommandShape
  <2> QED BY <1>7, <2>1 DEF Moved, Targets, Moves
<1>9. Targets(said) \subseteq Times
  <2>1. \A i \in DOMAIN said : said[i] \in StrokeCommand
    BY Element DEF Shape, CommandShape
  <2>2. StrokeCommand \subseteq Command
    BY DEF Command
  <2> QED BY <1>7, <2>1, <2>2 DEF Targets, Moves
<1>10. Logged \subseteq Times
  <2>1. \A i \in DOMAIN table : table[i] \in TableRow
    BY ListIs, Element
  <2> QED BY <2>1, EventsAreTimes DEF Logged, TableRow
<1> QED BY <1>1, <1>3, <1>4, <1>5, <1>6, <1>8, <1>9, <1>10 DEF Handled

LEMMA FlowOrderedStays ==
  ASSUME FlowOrdered, Flow' = Flow, Now' = Now, rcv' = rcv \/ rcv' = NoRcv,
         Handled' \subseteq Handled
  PROVE  FlowOrdered'
<1>1. /\ \A j \in DOMAIN Flow' : AtOrBefore(Flow'[j].event, Now')
      /\ \A i, j \in DOMAIN Flow' : i < j => Before(Flow'[i].event, Flow'[j].event)
  BY DEF FlowOrdered
<1>2. rcv' # NoRcv => /\ AtOrBefore(rcv'.msg.event, Now')
                      /\ \A j \in DOMAIN Flow' :
                           Before(rcv'.msg.event, Flow'[j].event)
  BY DEF FlowOrdered
<1>3. \A v \in Handled' :
        /\ AtOrBefore(v, Now')
        /\ \A j \in DOMAIN Flow' : Before(v, Flow'[j].event)
        /\ rcv' # NoRcv => Before(v, rcv'.msg.event)
  BY DEF FlowOrdered
<1> QED BY <1>1, <1>2, <1>3 DEF FlowOrdered, AtOrBefore, Before

LEMMA DrawingStays ==
  ASSUME PointsOrdered, DoneOrdered, CommandsOrdered,
         UNCHANGED <<stroke, strokes, interp, current, reservedMsg, said, table>>
  PROVE  PointsOrdered' /\ DoneOrdered' /\ CommandsOrdered' /\ Handled' = Handled
<1>1. Handled' = Handled
  BY DEF Handled, Moved, Targets, Moves, Logged, EventsOf
<1>2. PointsOrdered'
  BY DEF PointsOrdered, EventsOf, Before
<1>3. DoneOrdered'
  BY DEF DoneOrdered, Moved, Targets, Moves, Logged, EventsOf, AtOrBefore, Before
<1>4. CommandsOrdered'
  BY DEF CommandsOrdered, MovesInOrder, Moved, Targets, Moves, Before
<1> QED BY <1>1, <1>2, <1>3, <1>4

LEMMA OrderedStays ==
  ASSUME Ordered, Flow' = Flow, Now' = Now,
         UNCHANGED <<stroke, strokes, rcv, interp, current, reservedMsg, said, table,
                     faults>>
  PROVE  Ordered'
<1> SUFFICES ASSUME faults = 0
             PROVE  FlowOrdered' /\ PointsOrdered' /\ DoneOrdered' /\ CommandsOrdered'
  BY DEF Ordered
<1>1. FlowOrdered /\ PointsOrdered /\ DoneOrdered /\ CommandsOrdered
  BY DEF Ordered
<1>2. PointsOrdered' /\ DoneOrdered' /\ CommandsOrdered' /\ Handled' = Handled
  BY <1>1, DrawingStays
<1> QED BY <1>1, <1>2, FlowOrderedStays

(* The pen: what it adds is of now. *)
LEMMA PenKeepsOrder ==
  ASSUME Shape, Ordered, Pen PROVE Ordered'
<1>1. PICK action : \E t : Event(action, t)
  BY PenEvents
<1>2. UNCHANGED <<stroke, strokes, rcv, interp, current, reservedMsg, said, table,
                  faults>>
  BY <1>1 DEF Event, drawing, interpreter
<1> SUFFICES ASSUME faults = 0
             PROVE  FlowOrdered' /\ PointsOrdered' /\ DoneOrdered' /\ CommandsOrdered'
  BY <1>2 DEF Ordered
<1>3. FlowOrdered /\ PointsOrdered /\ DoneOrdered /\ CommandsOrdered
  BY DEF Ordered
<1>4. PointsOrdered' /\ DoneOrdered' /\ CommandsOrdered' /\ Handled' = Handled
  BY <1>2, <1>3, DrawingStays
<1>5. Now \in Times /\ Now' \in Times /\ Before(Now, Now')
  BY PenAdds, EventsAreTimes
<1>6. \A v \in Times : AtOrBefore(v, Now) => Before(v, Now') /\ AtOrBefore(v, Now')
  BY <1>5, Precedence
<1>7. /\ \A j \in DOMAIN Flow : Before(Flow[j].event, Now')
                                /\ AtOrBefore(Flow[j].event, Now')
      /\ rcv # NoRcv => Before(rcv.msg.event, Now') /\ AtOrBefore(rcv.msg.event, Now')
      /\ \A v \in Handled : Before(v, Now') /\ AtOrBefore(v, Now')
  BY <1>3, <1>6, HandledAreTimes DEF FlowOrdered
<1>8. \/ Flow' = Flow
      \/ \E d \in Samples :
           /\ d.event = Now' /\ DOMAIN Flow' = 1 .. Len(Flow) + 1
           /\ DOMAIN Flow = 1 .. Len(Flow) /\ Len(Flow) \in Nat
           /\ \A i \in DOMAIN Flow : Flow'[i] = Flow[i]
           /\ Flow'[Len(Flow) + 1] = d
  BY PenAdds
<1>9. \A j \in DOMAIN Flow' :
        \/ j \in DOMAIN Flow /\ Flow'[j] = Flow[j]
        \/ Flow'[j].event = Now' /\ \A i \in DOMAIN Flow' : ~(j < i)
  BY <1>8
<1>10. \A j \in DOMAIN Flow' : AtOrBefore(Flow'[j].event, Now')
  BY <1>7, <1>9 DEF AtOrBefore
<1>11. \A i, j \in DOMAIN Flow' : i < j => Before(Flow'[i].event, Flow'[j].event)
  BY <1>3, <1>7, <1>9 DEF FlowOrdered
<1>12. rcv' # NoRcv => /\ AtOrBefore(rcv'.msg.event, Now')
                       /\ \A j \in DOMAIN Flow' : Before(rcv'.msg.event, Flow'[j].event)
  BY <1>2, <1>3, <1>7, <1>9 DEF FlowOrdered
<1>13. \A v \in Handled' :
         /\ AtOrBefore(v, Now')
         /\ \A j \in DOMAIN Flow' : Before(v, Flow'[j].event)
         /\ rcv' # NoRcv => Before(v, rcv'.msg.event)
  BY <1>2, <1>3, <1>4, <1>7, <1>9 DEF FlowOrdered
<1>14. FlowOrdered'
  BY <1>10, <1>11, <1>12, <1>13 DEF FlowOrdered, AtOrBefore, Before
<1> QED BY <1>4, <1>14

(* What the receiver takes is later than all that was handled before and
   earlier than all that is still to come. *)
LEMMA FirstIsNext ==
  ASSUME Shape, FlowOrdered, Receive, Now' = Now
  PROVE  /\ AtOrBefore(Flow[1].event, Now')
         /\ \A j \in DOMAIN Flow' : /\ AtOrBefore(Flow'[j].event, Now')
                                    /\ Before(Flow[1].event, Flow'[j].event)
         /\ \A i, j \in DOMAIN Flow' : i < j => Before(Flow'[i].event, Flow'[j].event)
         /\ \A v \in Handled : /\ AtOrBefore(v, Now') /\ Before(v, Flow[1].event)
                               /\ \A j \in DOMAIN Flow' : Before(v, Flow'[j].event)
<1>1. /\ 1 \in DOMAIN Flow /\ DOMAIN Flow = 1 .. Len(Flow) /\ Len(Flow) \in Nat
      /\ DOMAIN Flow' = 1 .. Len(Flow) - 1
      /\ \A i \in DOMAIN Flow' : i + 1 \in DOMAIN Flow /\ Flow'[i] = Flow[i + 1]
  BY ReceiverTakes
<1>2. \A i \in DOMAIN Flow' : i \in Int /\ 1 < i + 1
  BY <1>1
<1>3. \A i, j \in DOMAIN Flow' : i < j => Before(Flow'[i].event, Flow'[j].event)
  <2> SUFFICES ASSUME NEW i \in DOMAIN Flow', NEW j \in DOMAIN Flow', i < j
               PROVE  Before(Flow'[i].event, Flow'[j].event)
    OBVIOUS
  <2>1. /\ i + 1 \in DOMAIN Flow /\ j + 1 \in DOMAIN Flow /\ i + 1 < j + 1
        /\ Flow'[i] = Flow[i + 1] /\ Flow'[j] = Flow[j + 1]
    BY <1>1, <1>2
  <2> QED BY <2>1 DEF FlowOrdered
<1>4. \A j \in DOMAIN Flow' : /\ AtOrBefore(Flow'[j].event, Now')
                              /\ Before(Flow[1].event, Flow'[j].event)
  BY <1>1, <1>2 DEF FlowOrdered
<1>5. \A v \in Handled : /\ AtOrBefore(v, Now') /\ Before(v, Flow[1].event)
                         /\ \A j \in DOMAIN Flow' : Before(v, Flow'[j].event)
  BY <1>1 DEF FlowOrdered
<1>6. AtOrBefore(Flow[1].event, Now')
  BY <1>1 DEF FlowOrdered
<1> QED BY <1>3, <1>4, <1>5, <1>6

LEMMA AddStrokeIs ==
  ASSUME Shape, Receive, AddStroke(Head(net))
  PROVE  /\ DOMAIN stroke' = 1 .. Len(stroke) + 1 /\ DOMAIN stroke = 1 .. Len(stroke)
         /\ Len(stroke) \in Nat
         /\ \A id \in DOMAIN stroke : stroke'[id] = stroke[id]
         /\ DOMAIN stroke'[Len(stroke) + 1].points = {1}
         /\ stroke'[Len(stroke) + 1].points[1].event = Flow[1].event
         /\ EventsOf(stroke'[Len(stroke) + 1]) = {Flow[1].event}
         /\ DOMAIN strokes' = 1 .. Len(strokes) + 1
         /\ DOMAIN strokes = 1 .. Len(strokes) /\ Len(strokes) \in Nat
         /\ \A i \in DOMAIN strokes : /\ strokes'[i] = strokes[i]
                                       /\ strokes[i] \in DOMAIN stroke
         /\ strokes'[Len(strokes) + 1] = Len(stroke) + 1
<1> DEFINE m == Head(net)
           p == [strokeIdx |-> m.idx, event |-> m.event, millis |-> m.millis,
                 isHead |-> TRUE, isTail |-> FALSE]
           s == [points |-> <<p>>, isCompleted |-> FALSE]
<1>1. /\ stroke' = Append(stroke, s) /\ strokes' = Append(strokes, Len(stroke'))
      /\ m = Flow[1] /\ m \in Samples /\ m.idx # -1
  BY ReceiverTakes DEF AddStroke
<1>2. p \in Point /\ p.event = Flow[1].event
  BY <1>1, Positive DEF Point, Samples, Data, Millis
<1> HIDE DEF p, m
<1>3. <<p>> \in Seq(Point) /\ DOMAIN <<p>> = {1} /\ <<p>>[1] = p
  BY <1>2
<1>4. s \in Drawn /\ s.points = <<p>>
  BY <1>3 DEF Drawn
<1>5. DOMAIN s.points = {1} /\ s.points[1].event = Flow[1].event
  BY <1>2, <1>3, <1>4
<1> HIDE DEF s
<1>6. EventsOf(s) = {Flow[1].event}
  BY <1>5 DEF EventsOf
<1>7. /\ stroke \in Seq(Drawn) /\ Len(stroke) \in Nat
      /\ DOMAIN stroke = 1 .. Len(stroke) /\ DOMAIN strokes = 1 .. Len(strokes)
      /\ Len(strokes) \in Nat /\ strokes \in Seq(DOMAIN stroke)
      /\ \A i \in DOMAIN strokes : strokes[i] \in DOMAIN stroke
  BY ListIs, Element
<1>8. /\ DOMAIN stroke' = 1 .. Len(stroke) + 1 /\ Len(stroke') = Len(stroke) + 1
      /\ \A i \in 1 .. Len(stroke) : stroke'[i] = stroke[i]
      /\ stroke'[Len(stroke) + 1] = s
  BY <1>1, <1>4, <1>7, Appends
<1>9. /\ DOMAIN strokes' = 1 .. Len(strokes) + 1
      /\ \A i \in 1 .. Len(strokes) : strokes'[i] = strokes[i]
      /\ strokes'[Len(strokes) + 1] = Len(stroke) + 1
  <2>1. strokes \in Seq(Nat) /\ Len(stroke') \in Nat
    BY <1>7, <1>8
  <2> QED BY <1>1, <1>7, <1>8, <2>1, Appends
<1> QED BY <1>5, <1>6, <1>7, <1>8, <1>9

LEMMA ReceiveKeepsOrder ==
  ASSUME Shape, Ordered, Receive PROVE Ordered'
<1> SUFFICES ASSUME faults = 0
             PROVE  FlowOrdered' /\ PointsOrdered' /\ DoneOrdered' /\ CommandsOrdered'
  BY DEF Receive, Ordered
<1> DEFINE m == Head(net)
<1>1. /\ FlowOrdered /\ PointsOrdered /\ DoneOrdered /\ CommandsOrdered
      /\ rcv = NoRcv /\ m = Flow[1]
      /\ UNCHANGED <<interp, current, reservedMsg, said, table>> /\ Now' = Now
      /\ ReceiveCalibration(m) \/ AddStroke(m) \/ AddPointLoad(m)
  BY ReceiverTakes DEF Receive, Ordered, interpreter, pen, Now
<1> HIDE DEF m
<1>2. /\ AtOrBefore(m.event, Now')
      /\ \A j \in DOMAIN Flow' : /\ AtOrBefore(Flow'[j].event, Now')
                                 /\ Before(m.event, Flow'[j].event)
      /\ \A i, j \in DOMAIN Flow' : i < j => Before(Flow'[i].event, Flow'[j].event)
      /\ \A v \in Handled : /\ AtOrBefore(v, Now') /\ Before(v, m.event)
                            /\ \A j \in DOMAIN Flow' : Before(v, Flow'[j].event)
  BY <1>1, FirstIsNext
<1>3. CASE ReceiveCalibration(m) \/ AddPointLoad(m)
  <2>1. UNCHANGED <<stroke, strokes>> /\ (rcv' = NoRcv \/ rcv'.msg = m)
    <3>1. CASE ReceiveCalibration(m)
      BY <1>1, <3>1 DEF ReceiveCalibration, drawing
    <3>2. CASE AddPointLoad(m)
      BY <1>1, <3>2 DEF AddPointLoad, drawing
    <3> QED BY <1>3, <3>1, <3>2
  <2>2. PointsOrdered' /\ DoneOrdered' /\ CommandsOrdered' /\ Handled' = Handled
    BY <1>1, <2>1, DrawingStays
  <2>3. FlowOrdered'
    BY <1>2, <2>1, <2>2 DEF FlowOrdered, AtOrBefore, Before
  <2> QED BY <2>2, <2>3
<1>4. CASE AddStroke(m)
  <2> DEFINE n == Len(stroke) + 1
  <2>1. /\ DOMAIN stroke' = 1 .. n /\ DOMAIN stroke = 1 .. n - 1 /\ n \in Nat \ {0}
        /\ \A id \in DOMAIN stroke : stroke'[id] = stroke[id]
        /\ DOMAIN stroke'[n].points = {1} /\ stroke'[n].points[1].event = m.event
        /\ EventsOf(stroke'[n]) = {m.event}
        /\ DOMAIN strokes' = 1 .. Len(strokes) + 1
        /\ DOMAIN strokes = 1 .. Len(strokes) /\ Len(strokes) \in Nat
        /\ \A i \in DOMAIN strokes : /\ strokes'[i] = strokes[i]
                                      /\ strokes[i] \in DOMAIN stroke
        /\ strokes'[Len(strokes) + 1] = n
        /\ rcv' = rcv
    <3>1. rcv' = rcv /\ AddStroke(Head(net))
      BY <1>4 DEF AddStroke, m
    <3>2. Len(stroke) \in Nat /\ n - 1 = Len(stroke) /\ n \in Nat \ {0}
      BY ListIs
    <3> QED BY <1>1, <3>1, <3>2, AddStrokeIs
  <2> HIDE DEF n
  <2>2. n \in DOMAIN stroke' /\ \A id \in DOMAIN stroke' : id \in DOMAIN stroke \/ id = n
    BY <2>1
  <2>3. \A id \in DOMAIN stroke : EventsOf(stroke[id]) \subseteq Handled
    BY DEF Handled
  <2>4. \A v \in Handled' : v \in Handled \/ v = m.event
    <3>1. /\ Moved' = Moved /\ Targets(said)' = Targets(said) /\ Logged' = Logged
      BY <1>1 DEF Moved, Targets, Moves, Logged
    <3>2. \A id \in DOMAIN stroke' : \A v \in EventsOf(stroke'[id]) :
             v \in Handled \/ v = m.event
      BY <2>1, <2>2, <2>3
    <3>3. Handled' = Moved' \cup Targets(said)' \cup Logged'
                     \cup UNION {EventsOf(stroke'[id]) : id \in DOMAIN stroke'}
      BY DEF Handled, EventsOf
    <3> QED BY <3>1, <3>2, <3>3 DEF Handled
  <2>5. FlowOrdered'
    BY <1>1, <1>2, <2>1, <2>4 DEF FlowOrdered, AtOrBefore, Before
  <2>6. ASSUME NEW id \in DOMAIN stroke', NEW k \in DOMAIN stroke'[id].points,
               NEW l \in DOMAIN stroke'[id].points
        PROVE  /\ k < l => Before(stroke'[id].points[k].event,
                                  stroke'[id].points[l].event)
               /\ stroke'[id].points[k].isHead => k = 1
    <3>1. CASE id \in DOMAIN stroke
      BY <1>1, <2>1, <2>6, <3>1 DEF PointsOrdered
    <3>2. CASE id = n
      <4>1. k = 1 /\ l = 1
        BY <2>1, <2>6, <3>2
      <4> QED BY <4>1
    <3> QED BY <2>2, <3>1, <3>2
  <2>7. ASSUME NEW id \in DOMAIN stroke', NEW jd \in DOMAIN stroke', id < jd,
               NEW v \in EventsOf(stroke'[id]), NEW w \in EventsOf(stroke'[jd])
        PROVE  Before(v, w)
    <3>1. id \in DOMAIN stroke /\ stroke'[id] = stroke[id]
      BY <2>1, <2>7
    <3>2. CASE jd \in DOMAIN stroke
      BY <1>1, <2>1, <2>7, <3>1, <3>2 DEF PointsOrdered
    <3>3. CASE jd = n
      BY <1>2, <2>1, <2>3, <2>7, <3>1, <3>3
    <3> QED BY <2>2, <3>2, <3>3
  <2>8. PointsOrdered'
    BY <2>6, <2>7 DEF PointsOrdered, EventsOf, Before
  <2>9. ASSUME NEW v \in Moved \cup Targets(said) \cup Logged,
               NEW i \in DOMAIN strokes', interp = "idle" \/ i >= 2,
               NEW w \in EventsOf(stroke'[strokes'[i]])
        PROVE  Before(v, w)
    <3>1. CASE i \in DOMAIN strokes
      <4>1. stroke'[strokes'[i]] = stroke[strokes[i]]
        BY <2>1, <3>1
      <4> QED BY <1>1, <2>9, <3>1, <4>1 DEF DoneOrdered
    <3>2. CASE i = Len(strokes) + 1
      <4>1. w = m.event /\ v \in Handled
        BY <2>1, <2>9, <3>2 DEF Handled
      <4> QED BY <1>2, <4>1
    <3> QED BY <2>1, <3>1, <3>2
  <2>10. interp \in {"points", "pair"} => stroke'[current] = stroke[current]
    BY <2>1, InHand
  <2>11. DoneOrdered'
    <3>1. /\ Moved' = Moved /\ Targets(said)' = Targets(said) /\ Logged' = Logged
      BY <1>1 DEF Moved, Targets, Moves, Logged
    <3>2. \A v \in Moved \cup Targets(said) :
            /\ interp = "points" =>
                 \A k \in DOMAIN stroke'[current].points :
                   /\ AtOrBefore(v, stroke'[current].points[k].event)
                   /\ stroke'[current].points[k].isHead =>
                        Before(v, stroke'[current].points[k].event)
            /\ interp = "pair" =>
                 \A k \in DOMAIN stroke'[current].points :
                   k >= 2 => AtOrBefore(v, stroke'[current].points[k].event)
      BY <1>1, <2>10 DEF DoneOrdered
    <3>3. interp \in {"points", "pair"} =>
            \A v \in Logged : \A w \in EventsOf(stroke'[current]) : Before(v, w)
      BY <1>1, <2>10 DEF DoneOrdered
    <3> QED BY <1>1, <2>9, <3>1, <3>2, <3>3 DEF DoneOrdered, EventsOf, Before, AtOrBefore
  <2>12. CommandsOrdered'
    BY <1>1 DEF CommandsOrdered, MovesInOrder, Moved, Targets, Moves, Before
  <2> QED BY <2>5, <2>8, <2>11, <2>12
<1> QED BY <1>1, <1>3, <1>4

LEMMA StoreKeepsOrder ==
  ASSUME Shape, Numbered, Ordered, AddPointStore PROVE Ordered'
<1> SUFFICES ASSUME faults = 0
             PROVE  FlowOrdered' /\ PointsOrdered' /\ DoneOrdered' /\ CommandsOrdered'
  BY DEF AddPointStore, Ordered
<1> DEFINE e == rcv.msg.event
           st == rcv.st
<1>1. /\ FlowOrdered /\ PointsOrdered /\ DoneOrdered /\ CommandsOrdered
      /\ UNCHANGED <<strokes, interp, current, reservedMsg, said, table>>
      /\ Flow' = Flow /\ Now' = Now
  BY FlowStays DEF AddPointStore, Ordered, interpreter, pen, tablet, Now
<1>2. /\ rcv' = NoRcv /\ rcv # NoRcv /\ st \in DOMAIN stroke
      /\ DOMAIN stroke' = DOMAIN stroke
      /\ \A id \in DOMAIN stroke : id # st => stroke'[id] = stroke[id]
  BY StoreIs
<1>3. \A id \in DOMAIN stroke : id <= st
  BY <1>2, ListIs DEF Numbered, ListNumbered
<1>4. \A v \in Handled : Before(v, e)
  BY <1>1, <1>2 DEF FlowOrdered
<1>5. \A id \in DOMAIN stroke : EventsOf(stroke[id]) \subseteq Handled
  BY DEF Handled
<1>6. ASSUME NEW id \in DOMAIN stroke, NEW k \in DOMAIN stroke'[id].points
      PROVE  \/ k \in DOMAIN stroke[id].points
                /\ stroke'[id].points[k] = stroke[id].points[k]
             \/ /\ id = st /\ stroke'[id].points[k].event = e
                /\ ~stroke'[id].points[k].isHead
                /\ \A l \in DOMAIN stroke'[id].points : ~(k < l)
  <2>1. CASE stroke'[id].points = stroke[id].points
    BY <1>6, <2>1
  <2>2. CASE stroke'[id].points # stroke[id].points
    <3>1. id = st
      BY <1>2, <2>2
    <3>2. PICK n \in Nat \ {0} :
            /\ DOMAIN stroke'[st].points = 1 .. n
            /\ stroke'[st].points[n] = StoredPoint(rcv.msg, rcv.last)
            /\ \A l \in 1 .. n - 1 :
                 /\ l \in DOMAIN stroke[st].points
                 /\ stroke'[st].points[l] = stroke[st].points[l]
      BY <2>2, <3>1, StoreIs
    <3>3. /\ StoredPoint(rcv.msg, rcv.last).event = e
          /\ ~StoredPoint(rcv.msg, rcv.last).isHead
      BY DEF StoredPoint
    <3>4. CASE k = n
      BY <3>1, <3>2, <3>3, <3>4
    <3>5. CASE k \in 1 .. n - 1
      BY <3>1, <3>2, <3>5
    <3> QED BY <1>6, <3>1, <3>2, <3>4, <3>5
  <2> QED BY <2>1, <2>2
<1> HIDE DEF e, st
<1>7. \A id \in DOMAIN stroke : \A v \in EventsOf(stroke'[id]) :
        v \in EventsOf(stroke[id]) \/ (id = st /\ v = e)
  BY <1>6 DEF EventsOf
<1>8. \A v \in Handled' : v \in Handled \/ v = e
  <2>1. /\ Moved' = Moved /\ Targets(said)' = Targets(said) /\ Logged' = Logged
    BY <1>1 DEF Moved, Targets, Moves, Logged
  <2>2. Handled' = Moved' \cup Targets(said)' \cup Logged'
                   \cup UNION {EventsOf(stroke'[id]) : id \in DOMAIN stroke'}
    BY DEF Handled, EventsOf
  <2> QED BY <1>2, <1>5, <1>7, <2>1, <2>2 DEF Handled
<1>9. FlowOrdered'
  <2>1. AtOrBefore(e, Now) /\ \A j \in DOMAIN Flow : Before(e, Flow[j].event)
    BY <1>1, <1>2 DEF FlowOrdered, e
  <2> QED BY <1>1, <1>2, <1>8, <2>1 DEF FlowOrdered, AtOrBefore, Before
<1>10. ASSUME NEW id \in DOMAIN stroke, NEW k \in DOMAIN stroke'[id].points,
              NEW l \in DOMAIN stroke'[id].points
       PROVE  /\ k < l => Before(stroke'[id].points[k].event,
                                 stroke'[id].points[l].event)
              /\ stroke'[id].points[k].isHead => k = 1
  <2>1. stroke'[id].points[k].isHead => k = 1
    BY <1>1, <1>6, <1>10 DEF PointsOrdered
  <2>2. ASSUME k < l
        PROVE  Before(stroke'[id].points[k].event, stroke'[id].points[l].event)
    <3>1. /\ k \in DOMAIN stroke[id].points
          /\ stroke'[id].points[k] = stroke[id].points[k]
      BY <1>6, <1>10, <2>2
    <3>2. CASE /\ l \in DOMAIN stroke[id].points
               /\ stroke'[id].points[l] = stroke[id].points[l]
      BY <1>1, <1>10, <2>2, <3>1, <3>2 DEF PointsOrdered
    <3>3. CASE stroke'[id].points[l].event = e
      <4>1. stroke[id].points[k].event \in Handled
        BY <1>5, <1>10, <3>1 DEF EventsOf
      <4> QED BY <1>4, <3>1, <3>3, <4>1
    <3> QED BY <1>6, <1>10, <3>2, <3>3
  <2> QED BY <2>1, <2>2
<1>11. ASSUME NEW id \in DOMAIN stroke, NEW jd \in DOMAIN stroke, id < jd,
              NEW v \in EventsOf(stroke'[id]), NEW w \in EventsOf(stroke'[jd])
       PROVE  Before(v, w)
  <2>1. id # st
    BY <1>2, <1>3, <1>11, ListIs
  <2>2. v \in EventsOf(stroke[id]) /\ v \in Handled
    BY <1>5, <1>7, <1>11, <2>1
  <2>3. CASE w \in EventsOf(stroke[jd])
    BY <1>1, <1>11, <2>2, <2>3 DEF PointsOrdered
  <2>4. CASE w = e
    BY <1>4, <2>2, <2>4
  <2> QED BY <1>7, <1>11, <2>3, <2>4
<1>12. PointsOrdered'
  BY <1>2, <1>10, <1>11 DEF PointsOrdered, EventsOf, Before
<1>13. DoneOrdered'
  <2>1. /\ Moved' = Moved /\ Targets(said)' = Targets(said) /\ Logged' = Logged
    BY <1>1 DEF Moved, Targets, Moves, Logged
  <2>2. \A v \in Moved \cup Targets(said) \cup Logged : v \in Handled
    BY DEF Handled
  <2>3. \A i \in DOMAIN strokes : strokes[i] \in DOMAIN stroke
    BY ListIs, Element
  <2>4. ASSUME NEW v \in Moved \cup Targets(said) \cup Logged,
               NEW i \in DOMAIN strokes, interp = "idle" \/ i >= 2,
               NEW w \in EventsOf(stroke'[strokes[i]])
        PROVE  Before(v, w)
    <3>1. CASE w \in EventsOf(stroke[strokes[i]])
      BY <1>1, <2>4, <3>1 DEF DoneOrdered
    <3>2. CASE w = e
      BY <1>4, <2>2, <3>2
    <3> QED BY <1>7, <2>3, <2>4, <3>1, <3>2
  <2>5. interp \in {"points", "pair"} => current \in DOMAIN stroke
    BY InHand
  <2>6. ASSUME NEW v \in Moved \cup Targets(said), interp \in {"points", "pair"},
               NEW k \in DOMAIN stroke'[current].points
        PROVE  /\ interp = "points" =>
                    /\ AtOrBefore(v, stroke'[current].points[k].event)
                    /\ stroke'[current].points[k].isHead =>
                         Before(v, stroke'[current].points[k].event)
               /\ interp = "pair" /\ k >= 2 =>
                    AtOrBefore(v, stroke'[current].points[k].event)
    <3>1. CASE /\ k \in DOMAIN stroke[current].points
               /\ stroke'[current].points[k] = stroke[current].points[k]
      BY <1>1, <2>6, <3>1 DEF DoneOrdered
    <3>2. CASE stroke'[current].points[k].event = e
      <4>1. Before(v, e)
        BY <1>4, <2>2, <2>6
      <4> QED BY <3>2, <4>1 DEF AtOrBefore
    <3> QED BY <1>6, <2>5, <2>6, <3>1, <3>2
  <2>7. ASSUME NEW v \in Logged, interp \in {"points", "pair"},
               NEW w \in EventsOf(stroke'[current])
        PROVE  Before(v, w)
    <3>1. CASE w \in EventsOf(stroke[current])
      BY <1>1, <2>7, <3>1 DEF DoneOrdered
    <3>2. CASE w = e
      BY <1>4, <2>2, <3>2
    <3> QED BY <1>7, <2>5, <2>7, <3>1, <3>2
  <2> QED BY <1>1, <2>1, <2>4, <2>6, <2>7 DEF DoneOrdered, EventsOf, Before, AtOrBefore
<1>14. CommandsOrdered'
  BY <1>1 DEF CommandsOrdered, MovesInOrder, Moved, Targets, Moves, Before
<1> QED BY <1>9, <1>12, <1>13, <1>14

(* The interpreter begins a stroke. *)
LEMMA InterpretKeepsOrder ==
  ASSUME Shape, Ordered, Interpret PROVE Ordered'
<1> SUFFICES ASSUME faults = 0
             PROVE  FlowOrdered' /\ PointsOrdered' /\ DoneOrdered' /\ CommandsOrdered'
  BY DEF Interpret, Ordered
<1>1. /\ FlowOrdered /\ PointsOrdered /\ DoneOrdered /\ CommandsOrdered
      /\ UNCHANGED <<stroke, strokes, rcv, reservedMsg, said, table>>
      /\ Flow' = Flow /\ Now' = Now /\ interp = "idle" /\ interp' = "points"
      /\ current' = Head(strokes) /\ strokes # << >>
  BY FlowStays DEF Interpret, Ordered, drawing, pen, tablet, Now
<1>2. 1 \in DOMAIN strokes /\ current' = strokes[1]
  BY <1>1, ListIs, Tails
<1>3. /\ Moved' = Moved /\ Targets(said)' = Targets(said) /\ Logged' = Logged
      /\ Handled' = Handled
  BY <1>1 DEF Moved, Targets, Moves, Logged, Handled, EventsOf
<1>4. FlowOrdered'
  BY <1>1, <1>3, FlowOrderedStays
<1>5. PointsOrdered'
  BY <1>1 DEF PointsOrdered, EventsOf, Before
<1>6. \A v \in Moved \cup Targets(said) \cup Logged :
        \A i \in DOMAIN strokes : \A w \in EventsOf(stroke[strokes[i]]) : Before(v, w)
  BY <1>1 DEF DoneOrdered
<1>7. \A v \in Moved \cup Targets(said) \cup Logged :
        \A w \in EventsOf(stroke[current']) : Before(v, w)
  BY <1>2, <1>6
<1>8. \A v \in Moved \cup Targets(said) : \A k \in DOMAIN stroke[current'].points :
        /\ AtOrBefore(v, stroke[current'].points[k].event)
        /\ Before(v, stroke[current'].points[k].event)
  BY <1>7 DEF EventsOf, AtOrBefore
<1>9. DoneOrdered'
  BY <1>1, <1>3, <1>6, <1>7, <1>8 DEF DoneOrdered, EventsOf, Before, AtOrBefore
<1>10. CommandsOrdered'
  BY <1>1 DEF CommandsOrdered, MovesInOrder, Moved, Targets, Moves, Before
<1> QED BY <1>4, <1>5, <1>9, <1>10

(* Points are taken off the first stroke from the front. *)
LEMMA TakingKeepsPoints ==
  ASSUME Shape, PointsOrdered, interp # "idle", NEW q \in Seq(Point),
         \A k \in DOMAIN q : /\ k \in Nat \ {0} /\ k + 1 \in DOMAIN stroke[current].points
                             /\ q[k] = stroke[current].points[k + 1],
         stroke' = [stroke EXCEPT ![current].points = q]
  PROVE  /\ PointsOrdered'
         /\ DOMAIN stroke' = DOMAIN stroke /\ current \in DOMAIN stroke
         /\ stroke'[current].points = q
         /\ \A id \in DOMAIN stroke : EventsOf(stroke'[id]) \subseteq EventsOf(stroke[id])
         /\ \A id \in DOMAIN stroke : id # current => stroke'[id] = stroke[id]
<1>1. /\ DOMAIN stroke' = DOMAIN stroke
      /\ current \in DOMAIN stroke /\ stroke'[current].points = q
      /\ \A id \in DOMAIN stroke : id # current => stroke'[id] = stroke[id]
  BY TakesOff
<1>2. \A id \in DOMAIN stroke : EventsOf(stroke'[id]) \subseteq EventsOf(stroke[id])
  <2> TAKE id \in DOMAIN stroke
  <2>1. CASE id = current
    BY <1>1, <2>1 DEF EventsOf
  <2>2. CASE id # current
    BY <1>1, <2>2
  <2> QED BY <2>1, <2>2
<1>3. ASSUME NEW id \in DOMAIN stroke, NEW k \in DOMAIN stroke'[id].points,
             NEW l \in DOMAIN stroke'[id].points
      PROVE  /\ k < l => Before(stroke'[id].points[k].event,
                                stroke'[id].points[l].event)
             /\ stroke'[id].points[k].isHead => k = 1
  <2>1. CASE id = current
    <3>1. /\ k \in Nat \ {0} /\ l \in Nat \ {0}
          /\ k + 1 \in DOMAIN stroke[id].points /\ l + 1 \in DOMAIN stroke[id].points
          /\ stroke'[id].points[k] = stroke[id].points[k + 1]
          /\ stroke'[id].points[l] = stroke[id].points[l + 1]
      BY <1>1, <1>3, <2>1
    <3>2. stroke[id].points[k + 1].isHead => k + 1 = 1
      BY <1>3, <3>1 DEF PointsOrdered
    <3>3. k + 1 < l + 1 => Before(stroke[id].points[k + 1].event,
                                  stroke[id].points[l + 1].event)
      BY <1>3, <3>1 DEF PointsOrdered
    <3> QED BY <3>1, <3>2, <3>3
  <2>2. CASE id # current
    BY <1>1, <1>3, <2>2 DEF PointsOrdered
  <2> QED BY <2>1, <2>2
<1>4. \A id, jd \in DOMAIN stroke : id < jd =>
        \A v \in EventsOf(stroke'[id]), w \in EventsOf(stroke'[jd]) : Before(v, w)
  BY <1>2 DEF PointsOrdered
<1>5. PointsOrdered'
  BY <1>1, <1>3, <1>4 DEF PointsOrdered, EventsOf, Before
<1> QED BY <1>1, <1>2, <1>5

(* Strokes further back in the list were drawn later. *)
LEMMA LaterInList ==
  ASSUME Shape, Numbered, Ordered, faults = 0, interp # "idle",
         NEW i \in DOMAIN strokes, i >= 2,
         NEW v \in EventsOf(stroke[current]), NEW w \in EventsOf(stroke[strokes[i]])
  PROVE  Before(v, w)
<1>1. /\ current \in DOMAIN stroke /\ current = Head(strokes) /\ strokes # << >>
      /\ Head(strokes) = strokes[1] /\ 1 \in DOMAIN strokes
      /\ strokes[i] \in DOMAIN stroke
      /\ Len(stroke) \in Nat /\ Len(strokes) \in Nat /\ DOMAIN strokes = 1 .. Len(strokes)
  BY InHand, ListIs, Tails, Element
<1>2. ListNumbered /\ PointsOrdered
  BY DEF Numbered, Ordered
<1>3. /\ strokes[1] = Len(stroke) - Len(strokes) + 1
      /\ strokes[i] = Len(stroke) - Len(strokes) + i
  BY <1>1, <1>2 DEF ListNumbered
<1>4. current < strokes[i]
  BY <1>1, <1>3
<1> QED BY <1>1, <1>2, <1>4 DEF PointsOrdered

LEMMA InterpretPairKeepsOrder ==
  ASSUME Shape, Numbered, Ordered, InterpretPair PROVE Ordered'
<1> SUFFICES ASSUME faults = 0
             PROVE  FlowOrdered' /\ PointsOrdered' /\ DoneOrdered' /\ CommandsOrdered'
  BY DEF InterpretPair, Ordered
<1> DEFINE ps == stroke[current].points
           a == ps[1].event
           b == ps[2].event
<1>1. /\ FlowOrdered /\ PointsOrdered /\ DoneOrdered /\ CommandsOrdered
      /\ UNCHANGED <<stroke, strokes, rcv, current, reservedMsg, table>>
      /\ Flow' = Flow /\ Now' = Now /\ interp = "points" /\ interp' = "pair"
      /\ said = << >>
  BY FlowStays DEF InterpretPair, Ordered, drawing, pen, tablet, Now, CommandsOrdered
<1>2. /\ ps \in Seq(Point) /\ Len(ps) >= 2 /\ current \in DOMAIN stroke
      /\ 1 \in DOMAIN ps /\ 2 \in DOMAIN ps
  <2>1. ps \in Seq(Point) /\ Len(ps) >= 2 /\ current \in DOMAIN stroke
    BY InHand DEF InterpretPair
  <2> HIDE DEF ps
  <2> QED BY <2>1
<1>3. a \in EventsOf(stroke[current]) /\ b \in EventsOf(stroke[current])
  BY <1>2 DEF EventsOf
<1>4. Before(a, b)
  BY <1>1, <1>2 DEF PointsOrdered
<1>5. /\ ps[1] \in Point /\ ps[2] \in Point
      /\ \A k \in DOMAIN ps : k >= 2 => AtOrBefore(a, ps[k].event)
                                        /\ AtOrBefore(b, ps[k].event)
  <2>1. ps[1] \in Point /\ ps[2] \in Point
    BY <1>2, Element
  <2>2. ASSUME NEW k \in DOMAIN ps, k >= 2
        PROVE  AtOrBefore(a, ps[k].event) /\ AtOrBefore(b, ps[k].event)
    <3>0. k \in Int
      BY <1>2, <2>2
    <3>1. Before(a, ps[k].event)
      BY <1>1, <1>2, <2>2, <3>0 DEF PointsOrdered
    <3>2. 2 < k => Before(b, ps[k].event)
      BY <1>1, <1>2, <2>2 DEF PointsOrdered
    <3> QED BY <2>2, <3>0, <3>1, <3>2 DEF AtOrBefore
  <2> QED BY <2>1, <2>2
<1>6. \A v \in Moved : /\ AtOrBefore(v, a) /\ Before(v, b)
                       /\ ps[1].isHead => Before(v, a)
                       /\ \A k \in DOMAIN ps : AtOrBefore(v, ps[k].event)
  <2>1. \A v \in Moved : /\ AtOrBefore(v, a)
                         /\ ps[1].isHead => Before(v, a)
                         /\ \A k \in DOMAIN ps : AtOrBefore(v, ps[k].event)
    BY <1>1, <1>2 DEF DoneOrdered
  <2>2. Moved \subseteq Times /\ a \in Times /\ b \in Times
    BY <1>2, HandledAreTimes DEF Handled
  <2>3. \A v \in Moved : Before(v, b)
    BY <1>4, <2>1, <2>2, Precedence
  <2> QED BY <2>1, <2>3
<1>7. /\ Targets(said') \subseteq {a, b} /\ MovesInOrder(said')
      /\ a \in Targets(said') => ps[1].isHead \/ a = b
  <2> DEFINE x == [op |-> "travel", to |-> a]  y == [op |-> "line", to |-> b]
             z == [op |-> "down"]
  <2>1. \/ ps[1].isHead /\ said' = <<x, z>> \o <<y>>
        \/ ~ps[1].isHead /\ said' = << >> \o <<y>>
    BY <1>5 DEF InterpretPair, HeadCommands, Point
  <2>2. x.to = a /\ y.to = b /\ z.op \notin {"travel", "line"} /\ x.op = "travel"
    OBVIOUS
  <2> HIDE DEF x, y, z, ps
  <2>3. CASE ps[1].isHead /\ said' = <<x, z>> \o <<y>>
    <3> DEFINE l == <<x, z>>  r == <<y>>
    <3>1. /\ l \in Seq({x, y, z}) /\ Len(l) = 2 /\ l[1] = x /\ l[2] = z
          /\ r \in Seq({x, y, z}) /\ Len(r) = 1 /\ r[1] = y
      OBVIOUS
    <3> HIDE DEF l, r
    <3>2. /\ DOMAIN said' = 1 .. 3 /\ said'[1] = x /\ said'[2] = z /\ said'[3] = y
      <4>1. said' = l \o r
        BY <2>3 DEF l, r
      <4>2. /\ l \o r \in Seq({x, y, z}) /\ Len(l \o r) = 3
            /\ \A k \in 1 .. 3 : (l \o r)[k] = IF k <= 2 THEN l[k] ELSE r[k - 2]
        <5>1. /\ l \o r \in Seq({x, y, z}) /\ Len(l \o r) = Len(l) + Len(r)
              /\ \A k \in 1 .. Len(l) + Len(r) :
                   (l \o r)[k] = IF k <= Len(l) THEN l[k] ELSE r[k - Len(l)]
          <6> DEFINE three == {x, y, z}
          <6>1. l \in Seq(three) /\ r \in Seq(three)
            BY <3>1
          <6> HIDE DEF three
          <6>2. /\ l \o r \in Seq(three) /\ Len(l \o r) = Len(l) + Len(r)
                /\ \A k \in 1 .. Len(l) + Len(r) :
                     (l \o r)[k] = IF k <= Len(l) THEN l[k] ELSE r[k - Len(l)]
            BY <6>1, Concatenation
          <6> QED BY <6>2 DEF three
        <5>2. Len(l) + Len(r) = 3
          BY <3>1
        <5> QED BY <3>1, <5>1, <5>2
      <4> QED BY <3>1, <4>1, <4>2
    <3>3. \A i \in Moves(said') : (i = 1 /\ said'[i] = x) \/ (i = 3 /\ said'[i] = y)
      BY <2>2, <3>2 DEF Moves
    <3>4. Targets(said') \subseteq {a, b}
      BY <2>2, <3>3 DEF Targets
    <3>5. MovesInOrder(said')
      BY <1>4, <2>2, <3>3 DEF MovesInOrder
    <3> QED BY <2>3, <3>4, <3>5
  <2>4. CASE ~ps[1].isHead /\ said' = << >> \o <<y>>
    <3>1. said' = <<y>>
      BY <2>4
    <3>2. DOMAIN said' = {1} /\ said'[1] = y
      BY <3>1
    <3>3. \A i \in Moves(said') : i = 1 /\ said'[i] = y
      BY <3>2 DEF Moves
    <3>4. Targets(said') \subseteq {b}
      BY <2>2, <3>3 DEF Targets
    <3>5. MovesInOrder(said')
      BY <3>3 DEF MovesInOrder
    <3> QED BY <3>4, <3>5
  <2> QED BY <2>1, <2>3, <2>4
<1>8. /\ Moved' = Moved /\ Logged' = Logged /\ Targets(said)' = Targets(said')
  BY <1>1 DEF Moved, Targets, Moves, Logged
<1>9. Handled' \subseteq Handled
  <2>1. Handled' = Moved' \cup Targets(said)' \cup Logged'
                   \cup UNION {EventsOf(stroke[id]) : id \in DOMAIN stroke}
    BY <1>1 DEF Handled, EventsOf
  <2> QED BY <1>2, <1>3, <1>7, <1>8, <2>1 DEF Handled
<1>10. FlowOrdered'
  BY <1>1, <1>9, FlowOrderedStays
<1>11. PointsOrdered'
  BY <1>1 DEF PointsOrdered, EventsOf, Before
<1>12. DoneOrdered'
  <2>1. ASSUME NEW v \in Moved \cup Targets(said') \cup Logged,
               NEW i \in DOMAIN strokes, i >= 2,
               NEW w \in EventsOf(stroke[strokes[i]])
        PROVE  Before(v, w)
    <3>1. CASE v \in Moved \cup Logged
      BY <1>1, <2>1, <3>1 DEF DoneOrdered
    <3>2. CASE v \in Targets(said')
      <4>1. v \in EventsOf(stroke[current])
        BY <1>3, <1>7, <3>2
      <4> QED BY <1>1, <2>1, <4>1, LaterInList
    <3> QED BY <2>1, <3>1, <3>2
  <2>2. \A v \in Moved \cup Targets(said') : \A k \in DOMAIN ps :
           k >= 2 => AtOrBefore(v, ps[k].event)
    BY <1>5, <1>6, <1>7
  <2>3. \A v \in Logged : \A w \in EventsOf(stroke[current]) : Before(v, w)
    BY <1>1 DEF DoneOrdered
  <2> QED BY <1>1, <1>8, <2>1, <2>2, <2>3 DEF DoneOrdered, EventsOf, Before, AtOrBefore
<1>13. CommandsOrdered'
  <2>1. \A v \in Moved, w \in Targets(said') : Before(v, w)
    BY <1>6, <1>7
  <2>2. MovesInOrder(reservedMsg) /\ \A i, j \in DOMAIN table :
           i < j => Before(table[i].event, table[j].event)
    BY <1>1 DEF CommandsOrdered
  <2>3. MovesInOrder(reservedMsg)' /\ MovesInOrder(said)'
    BY <1>1, <1>7, <2>2 DEF MovesInOrder, Moves, Before
  <2> QED BY <1>1, <1>8, <2>1, <2>2, <2>3 DEF CommandsOrdered, Before
<1> QED BY <1>10, <1>11, <1>12, <1>13

(* Commands are reserved one by one. *)
LEMMA ReserveKeepsOrder ==
  ASSUME Shape, Ordered, Reserve PROVE Ordered'
<1> SUFFICES ASSUME faults = 0
             PROVE  FlowOrdered' /\ PointsOrdered' /\ DoneOrdered' /\ CommandsOrdered'
  BY DEF Reserve, Ordered
<1> DEFINE h == Head(said)
<1>1. /\ FlowOrdered /\ PointsOrdered /\ DoneOrdered /\ CommandsOrdered
      /\ UNCHANGED <<stroke, strokes, rcv, interp, current, table>>
      /\ Flow' = Flow /\ Now' = Now /\ interp = "pair"
      /\ said # << >> /\ said' = Tail(said) /\ reservedMsg' = Append(reservedMsg, h)
  BY FlowStays DEF Reserve, Ordered, drawing, pen, tablet, Now
<1>2. /\ said \in Seq(StrokeCommand) /\ reservedMsg \in Seq(Command) /\ h \in Command
  <2>1. said \in Seq(StrokeCommand) /\ reservedMsg \in Seq(Command)
    BY DEF Shape, CommandShape
  <2>2. h \in StrokeCommand
    BY <1>1, <2>1, Tails
  <2> QED BY <2>1, <2>2 DEF Command
<1>3. /\ Targets(Tail(said)) \subseteq Targets(said) /\ MovesInOrder(Tail(said))
      /\ h.op \in {"travel", "line"} =>
           h.to \in Targets(said) /\ \A w \in Targets(Tail(said)) : Before(h.to, w)
  BY <1>1, <1>2, MovesOfTail DEF CommandsOrdered
<1> HIDE DEF h
<1>4. /\ Targets(reservedMsg') \subseteq
           Moved \cup (IF h.op \in {"travel", "line"} THEN {h.to} ELSE {})
      /\ MovesInOrder(reservedMsg')
  <2>1. /\ MovesInOrder(reservedMsg)
        /\ h.op \in {"travel", "line"} => \A v \in Targets(reservedMsg) : Before(v, h.to)
    BY <1>1, <1>3 DEF CommandsOrdered, Moved
  <2> QED BY <1>1, <1>2, <2>1, MovesOfAppend DEF Moved
<1>5. /\ Moved' = Targets(reservedMsg') /\ Targets(said)' = Targets(said')
      /\ Logged' = Logged
  BY <1>1 DEF Moved, Targets, Moves, Logged
<1>6. /\ Moved' \subseteq Moved \cup Targets(said)
      /\ Targets(said)' \subseteq Targets(said)
  BY <1>1, <1>3, <1>4, <1>5
<1>7. Handled' \subseteq Handled
  <2>1. Handled' = Moved' \cup Targets(said)' \cup Logged'
                   \cup UNION {EventsOf(stroke[id]) : id \in DOMAIN stroke}
    BY <1>1 DEF Handled, EventsOf
  <2> QED BY <1>5, <1>6, <2>1 DEF Handled
<1>8. FlowOrdered'
  BY <1>1, <1>7, FlowOrderedStays
<1>9. PointsOrdered'
  BY <1>1 DEF PointsOrdered, EventsOf, Before
<1>10. DoneOrdered'
  <2>1. Moved' \cup Targets(said)' \subseteq Moved \cup Targets(said)
    BY <1>6
  <2>2. \A v \in Moved' \cup Targets(said)' \cup Logged' : \A i \in DOMAIN strokes :
           i >= 2 => \A w \in EventsOf(stroke[strokes[i]]) : Before(v, w)
    BY <1>1, <1>5, <2>1 DEF DoneOrdered
  <2>3. \A v \in Moved' \cup Targets(said)' : \A k \in DOMAIN stroke[current].points :
           k >= 2 => AtOrBefore(v, stroke[current].points[k].event)
    BY <1>1, <2>1 DEF DoneOrdered
  <2>4. \A v \in Logged' : \A w \in EventsOf(stroke[current]) : Before(v, w)
    BY <1>1, <1>5 DEF DoneOrdered
  <2> QED BY <1>1, <2>2, <2>3, <2>4 DEF DoneOrdered, EventsOf, Before, AtOrBefore
<1>11. CommandsOrdered'
  <2>1. \A v \in Moved', w \in Targets(said)' : Before(v, w)
    BY <1>1, <1>3, <1>4, <1>5 DEF CommandsOrdered
  <2>2. \A i, j \in DOMAIN table : i < j => Before(table[i].event, table[j].event)
    BY <1>1 DEF CommandsOrdered
  <2>3. MovesInOrder(reservedMsg)' /\ MovesInOrder(said)'
    BY <1>1, <1>3, <1>4 DEF MovesInOrder, Moves, Before
  <2> QED BY <1>1, <2>1, <2>2, <2>3 DEF CommandsOrdered, Before
<1> QED BY <1>8, <1>9, <1>10, <1>11

(* A command that is no move goes between them: one of a key, or the raising of
   the pen. *)
LEMMA OtherCommandsKeepOrder ==
  ASSUME Shape, NEW c \in Command, c.op \notin {"travel", "line"},
         reservedMsg' = Append(reservedMsg, c) \/ reservedMsg' = reservedMsg
  PROVE  /\ Moved' \subseteq Moved
         /\ MovesInOrder(reservedMsg) => MovesInOrder(reservedMsg')
<1>1. reservedMsg \in Seq(Command)
  BY DEF Shape, CommandShape
<1>2. Moved' = Targets(reservedMsg')
  BY DEF Moved, Targets, Moves
<1>3. CASE reservedMsg' = reservedMsg
  BY <1>2, <1>3 DEF Moved
<1>4. CASE reservedMsg' = Append(reservedMsg, c)
  <2>1. /\ Targets(Append(reservedMsg, c)) \subseteq Targets(reservedMsg)
        /\ MovesInOrder(reservedMsg) => MovesInOrder(Append(reservedMsg, c))
    BY <1>1, MovesOfAppend
  <2> QED BY <1>2, <1>4, <2>1 DEF Moved
<1> QED BY <1>3, <1>4

LEMMA ReserveTypedKeepsOrder ==
  ASSUME Shape, Ordered, ReserveTyped PROVE Ordered'
<1> SUFFICES ASSUME faults = 0
             PROVE  FlowOrdered' /\ PointsOrdered' /\ DoneOrdered' /\ CommandsOrdered'
  BY DEF ReserveTyped, Ordered
<1> DEFINE c == Head(typed)
<1>1. /\ FlowOrdered /\ PointsOrdered /\ DoneOrdered /\ CommandsOrdered
      /\ UNCHANGED <<stroke, strokes, rcv, interp, current, table, said>>
      /\ Flow' = Flow /\ Now' = Now
      /\ typed # << >> /\ reservedMsg' = Append(reservedMsg, c)
  BY FlowStays DEF ReserveTyped, Ordered, drawing, pen, tablet, Now
<1>2. c \in KeyCommand
  BY <1>1, Tails DEF Shape, CommandShape
<1> HIDE DEF c
<1>3. c \in Command /\ c.op \notin {"travel", "line"}
  BY <1>2 DEF Command, KeyCommand
<1>4. Moved' \subseteq Moved /\ MovesInOrder(reservedMsg')
  BY <1>1, <1>3, OtherCommandsKeepOrder DEF CommandsOrdered
<1>5. Targets(said)' = Targets(said) /\ Logged' = Logged
  BY <1>1 DEF Targets, Moves, Logged
<1>6. Handled' \subseteq Handled
  <2>1. Handled' = Moved' \cup Targets(said)' \cup Logged'
                   \cup UNION {EventsOf(stroke[id]) : id \in DOMAIN stroke}
    BY <1>1 DEF Handled, EventsOf
  <2> QED BY <1>4, <1>5, <2>1 DEF Handled
<1>7. FlowOrdered'
  BY <1>1, <1>6, FlowOrderedStays
<1>8. PointsOrdered'
  BY <1>1 DEF PointsOrdered, EventsOf, Before
<1>9. DoneOrdered'
  <2>1. \A v \in Moved' \cup Targets(said)' \cup Logged' : \A i \in DOMAIN strokes :
           interp = "idle" \/ i >= 2 =>
             \A w \in EventsOf(stroke[strokes[i]]) : Before(v, w)
    BY <1>1, <1>4, <1>5 DEF DoneOrdered
  <2>2. \A v \in Moved' \cup Targets(said)' :
          /\ interp = "points" =>
               \A k \in DOMAIN stroke[current].points :
                 /\ AtOrBefore(v, stroke[current].points[k].event)
                 /\ stroke[current].points[k].isHead =>
                      Before(v, stroke[current].points[k].event)
          /\ interp = "pair" =>
               \A k \in DOMAIN stroke[current].points :
                 k >= 2 => AtOrBefore(v, stroke[current].points[k].event)
    BY <1>1, <1>4, <1>5 DEF DoneOrdered
  <2>3. interp \in {"points", "pair"} =>
          \A v \in Logged' : \A w \in EventsOf(stroke[current]) : Before(v, w)
    BY <1>1, <1>5 DEF DoneOrdered
  <2> QED BY <1>1, <2>1, <2>2, <2>3 DEF DoneOrdered
<1>10. CommandsOrdered'
  <2>1. \A v \in Moved', w \in Targets(said)' : Before(v, w)
    BY <1>1, <1>4, <1>5 DEF CommandsOrdered
  <2>2. /\ MovesInOrder(said)
        /\ interp # "pair" => said = << >>
        /\ \A i, j \in DOMAIN table : i < j => Before(table[i].event, table[j].event)
    BY <1>1 DEF CommandsOrdered
  <2>3. MovesInOrder(reservedMsg)' /\ MovesInOrder(said)'
    BY <1>1, <1>4, <2>2 DEF MovesInOrder, Moves, Before
  <2> QED BY <1>1, <2>1, <2>2, <2>3 DEF CommandsOrdered, Before
<1> QED BY <1>7, <1>8, <1>9, <1>10

(* The log gets a later point. *)
LEMMA LogKeepsOrder ==
  ASSUME Shape, NEW s \in Seq(Point), Len(s) <= 1, logTable(s),
         s # << >> => \A v \in Logged : Before(v, s[1].event),
         \A i, j \in DOMAIN table : i < j => Before(table[i].event, table[j].event)
  PROVE  /\ \A i, j \in DOMAIN table' : i < j => Before(table'[i].event, table'[j].event)
         /\ \A v \in Logged' : v \in Logged \/ (s # << >> /\ v = s[1].event)
<1>1. Logged' = {table'[i].event : i \in DOMAIN table'}
  BY DEF Logged
<1>2. CASE table' = table
  BY <1>1, <1>2 DEF Logged
<1>3. CASE /\ s # << >> /\ Len(table) \in Nat /\ DOMAIN table = 1 .. Len(table)
           /\ DOMAIN table' = 1 .. Len(table) + 1
           /\ \A i \in DOMAIN table : table'[i] = table[i]
           /\ table'[Len(table) + 1].event = s[1].event
  <2>1. \A i \in DOMAIN table' :
          \/ i \in DOMAIN table /\ table'[i] = table[i] /\ table[i].event \in Logged
          \/ /\ table'[i].event = s[1].event
             /\ \A j \in DOMAIN table' : ~(i < j)
    BY <1>3 DEF Logged
  <2>2. \A i, j \in DOMAIN table' : i < j => Before(table'[i].event, table'[j].event)
    BY <1>3, <2>1
  <2> QED BY <1>1, <1>3, <2>1, <2>2
<1> QED BY <1>2, <1>3, LogIs

LEMMA InterpretTailKeepsOrder ==
  ASSUME Shape, Numbered, Ordered, InterpretTail PROVE Ordered'
<1> SUFFICES ASSUME faults = 0
             PROVE  FlowOrdered' /\ PointsOrdered' /\ DoneOrdered' /\ CommandsOrdered'
  BY DEF InterpretTail, Ordered
<1> DEFINE ps == stroke[current].points
           a == ps[1].event
           q == <<ps[1]>>
           r == Tail(ps)
           up == [op |-> "up"]
<1>1. /\ FlowOrdered /\ PointsOrdered /\ DoneOrdered /\ CommandsOrdered
      /\ UNCHANGED <<strokes, rcv, current, said>>
      /\ Flow' = Flow /\ Now' = Now /\ interp = "pair" /\ interp' = "points"
      /\ said = << >> /\ logTable(q)
      /\ stroke' = [stroke EXCEPT ![current].points = r]
      /\ reservedMsg' = reservedMsg \o TailCommands(ps[2])
  BY FlowStays DEF InterpretTail, Ordered, pen, tablet, Now
<1>2. /\ ps \in Seq(Point) /\ Len(ps) >= 2 /\ current \in DOMAIN stroke
      /\ DOMAIN ps = 1 .. Len(ps) /\ Len(ps) \in Nat
  <2>1. ps \in Seq(Point) /\ Len(ps) >= 2 /\ current \in DOMAIN stroke
    BY InHand DEF InterpretTail, Shape, DrawingShape
  <2> HIDE DEF ps
  <2> QED BY <2>1
<1>3. /\ r \in Seq(Point) /\ ps[1] \in Point
      /\ \A k \in DOMAIN r : k \in Nat \ {0} /\ k + 1 \in DOMAIN ps /\ r[k] = ps[k + 1]
  <2>1. ps # << >> /\ ps[1] \in Point
    BY <1>2, PairInHand
  <2>2. /\ r \in Seq(Point) /\ DOMAIN r = 1 .. Len(ps) - 1
        /\ \A k \in 1 .. Len(ps) - 1 : r[k] = ps[k + 1]
    BY <1>2, <2>1, Tails
  <2> HIDE DEF ps, r
  <2> QED BY <1>2, <2>1, <2>2
<1>4. q \in Seq(Point) /\ Len(q) <= 1 /\ q # << >> /\ q[1] = ps[1]
  BY <1>3
<1> HIDE DEF q, r
<1>5. /\ PointsOrdered' /\ DOMAIN stroke' = DOMAIN stroke
      /\ stroke'[current].points = r
      /\ \A id \in DOMAIN stroke : EventsOf(stroke'[id]) \subseteq EventsOf(stroke[id])
  BY <1>1, <1>3, TakingKeepsPoints
<1>6. a \in EventsOf(stroke[current])
  BY <1>2 DEF EventsOf
<1>7. /\ \A i, j \in DOMAIN table' : i < j => Before(table'[i].event, table'[j].event)
      /\ \A v \in Logged' : v \in Logged \/ v = a
  <2>1. \A v \in Logged : Before(v, a)
    BY <1>1, <1>6 DEF DoneOrdered
  <2> QED BY <1>1, <1>4, <2>1, LogKeepsOrder DEF CommandsOrdered
<1>8. Moved' \subseteq Moved /\ MovesInOrder(reservedMsg')
  <2>1. reservedMsg \in Seq(Command)
    BY DEF Shape, CommandShape
  <2>2. up \in Command /\ up.op \notin {"travel", "line"}
    BY DEF Command, StrokeCommand
  <2>3. TailCommands(ps[2]) = <<up>> \/ TailCommands(ps[2]) = << >>
    BY DEF TailCommands
  <2> HIDE DEF up
  <2>4. reservedMsg' = Append(reservedMsg, up) \/ reservedMsg' = reservedMsg
    BY <1>1, <2>1, <2>2, <2>3
  <2> QED BY <1>1, <2>2, <2>4, OtherCommandsKeepOrder DEF CommandsOrdered
<1>9. Targets(said) = {} /\ Targets(said)' = {}
  <2>1. Targets(said)' = Targets(said)
    BY <1>1 DEF Targets, Moves
  <2> QED BY <1>1, <2>1, MovesOfNone
<1>10. Handled' \subseteq Handled
  <2>1. Handled' = Moved' \cup Targets(said)' \cup Logged'
                   \cup UNION {EventsOf(stroke'[id]) : id \in DOMAIN stroke'}
    BY DEF Handled, EventsOf
  <2> QED BY <1>2, <1>5, <1>6, <1>7, <1>8, <1>9, <2>1 DEF Handled
<1>11. FlowOrdered'
  BY <1>1, <1>10, FlowOrderedStays
<1>12. DoneOrdered'
  <2>0. \A i \in DOMAIN strokes : strokes[i] \in DOMAIN stroke
    BY ListIs, Element
  <2>1. ASSUME NEW v \in Moved' \cup Targets(said)' \cup Logged',
               NEW i \in DOMAIN strokes, i >= 2,
               NEW w \in EventsOf(stroke'[strokes[i]])
        PROVE  Before(v, w)
    <3>1. w \in EventsOf(stroke[strokes[i]])
      BY <1>5, <2>0, <2>1
    <3>2. CASE v \in Moved \cup Logged
      BY <1>1, <2>1, <3>1, <3>2 DEF DoneOrdered
    <3>3. CASE v = a
      BY <1>1, <1>6, <2>1, <3>1, <3>3, LaterInList
    <3> QED BY <1>7, <1>8, <1>9, <2>1, <3>2, <3>3
  <2>2. ASSUME NEW v \in Moved' \cup Targets(said)', NEW k \in DOMAIN r
        PROVE  AtOrBefore(v, r[k].event) /\ ~r[k].isHead
    <3>1. k \in Nat \ {0} /\ k + 1 \in DOMAIN ps /\ k + 1 >= 2 /\ r[k] = ps[k + 1]
      BY <1>3, <2>2
    <3>2. AtOrBefore(v, ps[k + 1].event)
      BY <1>1, <1>8, <1>9, <2>2, <3>1 DEF DoneOrdered
    <3>3. ps[k + 1].isHead => k + 1 = 1
      BY <1>1, <1>2, <3>1 DEF PointsOrdered
    <3> QED BY <3>1, <3>2, <3>3
  <2>3. ASSUME NEW v \in Logged', NEW w \in EventsOf(stroke'[current])
        PROVE  Before(v, w)
    <3>1. CASE v \in Logged
      BY <1>1, <1>2, <1>5, <2>3, <3>1 DEF DoneOrdered
    <3>2. CASE v = a
      <4>1. PICK k \in DOMAIN r : w = r[k].event
        BY <1>5, <2>3 DEF EventsOf
      <4>2. /\ k + 1 \in DOMAIN ps /\ 1 < k + 1 /\ r[k] = ps[k + 1]
            /\ 1 \in DOMAIN ps
        BY <1>2, <1>3, <4>1
      <4> QED BY <1>1, <1>2, <3>2, <4>1, <4>2 DEF PointsOrdered
    <3> QED BY <1>7, <2>3, <3>1, <3>2
  <2> HIDE DEF ps, a
  <2> QED BY <1>1, <1>5, <2>1, <2>2, <2>3 DEF DoneOrdered, EventsOf, Before, AtOrBefore
<1>13. CommandsOrdered'
  <2>1. \A v \in Moved', w \in Targets(said)' : Before(v, w)
    BY <1>9
  <2>2. MovesInOrder(reservedMsg)' /\ MovesInOrder(said)'
    <3>1. MovesInOrder(said)
      BY <1>1 DEF CommandsOrdered
    <3>2. said' = said /\ MovesInOrder(reservedMsg')
      BY <1>1, <1>8
    <3> QED BY <3>1, <3>2 DEF MovesInOrder, Moves, Before
  <2> QED BY <1>1, <1>7, <2>1, <2>2 DEF CommandsOrdered, Before
<1> QED BY <1>5, <1>11, <1>12, <1>13

LEMMA InterpretRestKeepsOrder ==
  ASSUME Shape, Numbered, Ordered, InterpretRest PROVE Ordered'
<1> SUFFICES ASSUME faults = 0
             PROVE  FlowOrdered' /\ PointsOrdered' /\ DoneOrdered' /\ CommandsOrdered'
  BY DEF InterpretRest, Ordered
<1> DEFINE ps == stroke[current].points
           a == ps[1].event
<1>1. /\ FlowOrdered /\ PointsOrdered /\ DoneOrdered /\ CommandsOrdered
      /\ UNCHANGED <<strokes, rcv, current, said, reservedMsg>>
      /\ Flow' = Flow /\ Now' = Now /\ interp = "points" /\ interp' = "remove"
      /\ said = << >> /\ logTable(ps) /\ Len(ps) < 2
  BY FlowStays DEF InterpretRest, Ordered, pen, tablet, Now, CommandsOrdered
<1>2. ps \in Seq(Point) /\ Len(ps) <= 1 /\ current \in DOMAIN stroke
      /\ (ps # << >> => 1 \in DOMAIN ps)
  <2>1. ps \in Seq(Point) /\ Len(ps) < 2 /\ current \in DOMAIN stroke
    BY <1>1, InHand
  <2> HIDE DEF ps
  <2> QED BY <2>1
<1>3. PICK q : q = << >>
  OBVIOUS
<1>4. q \in Seq(Point) /\ DOMAIN q = {}
  BY <1>3
<1>5. stroke' = [stroke EXCEPT ![current].points = q]
  BY <1>3 DEF InterpretRest
<1>6. /\ PointsOrdered' /\ DOMAIN stroke' = DOMAIN stroke
      /\ \A id \in DOMAIN stroke : EventsOf(stroke'[id]) \subseteq EventsOf(stroke[id])
  BY <1>1, <1>4, <1>5, TakingKeepsPoints
<1>7. ps # << >> => a \in EventsOf(stroke[current])
  BY <1>2 DEF EventsOf
<1>8. /\ \A i, j \in DOMAIN table' : i < j => Before(table'[i].event, table'[j].event)
      /\ \A v \in Logged' : v \in Logged \/ (ps # << >> /\ v = a)
  <2>1. ps # << >> => \A v \in Logged : Before(v, a)
    BY <1>1, <1>7 DEF DoneOrdered
  <2> QED BY <1>1, <1>2, <2>1, LogKeepsOrder DEF CommandsOrdered
<1>9. /\ Moved' = Moved /\ Targets(said)' = Targets(said)
      /\ Targets(said) = {}
  <2>1. Moved' = Moved /\ Targets(said)' = Targets(said)
    BY <1>1 DEF Moved, Targets, Moves
  <2> QED BY <1>1, <2>1, MovesOfNone
<1>10. Handled' \subseteq Handled
  <2>1. Handled' = Moved' \cup Targets(said)' \cup Logged'
                   \cup UNION {EventsOf(stroke'[id]) : id \in DOMAIN stroke'}
    BY DEF Handled, EventsOf
  <2> QED BY <1>2, <1>6, <1>7, <1>8, <1>9, <2>1 DEF Handled
<1>11. FlowOrdered'
  BY <1>1, <1>10, FlowOrderedStays
<1>12. DoneOrdered'
  <2>0. \A i \in DOMAIN strokes : strokes[i] \in DOMAIN stroke
    BY ListIs, Element
  <2>1. ASSUME NEW v \in Moved' \cup Targets(said)' \cup Logged',
               NEW i \in DOMAIN strokes, i >= 2,
               NEW w \in EventsOf(stroke'[strokes[i]])
        PROVE  Before(v, w)
    <3>1. w \in EventsOf(stroke[strokes[i]])
      BY <1>6, <2>0, <2>1
    <3>2. CASE v \in Moved \cup Logged
      BY <1>1, <2>1, <3>1, <3>2 DEF DoneOrdered
    <3>3. CASE ps # << >> /\ v = a
      BY <1>1, <1>7, <2>1, <3>1, <3>3, LaterInList
    <3> QED BY <1>8, <1>9, <2>1, <3>2, <3>3
  <2> QED BY <1>1, <2>1 DEF DoneOrdered, EventsOf, Before
<1>13. CommandsOrdered'
  <2>1. \A v \in Moved', w \in Targets(said)' : Before(v, w)
    BY <1>9
  <2>2. MovesInOrder(reservedMsg)' /\ MovesInOrder(said)'
    BY <1>1 DEF CommandsOrdered, MovesInOrder, Moves, Before
  <2> QED BY <1>1, <1>8, <2>1, <2>2 DEF CommandsOrdered, Before
<1> QED BY <1>6, <1>11, <1>12, <1>13

LEMMA RemoveKeepsOrder ==
  ASSUME Shape, Ordered, RemoveStroke PROVE Ordered'
<1> SUFFICES ASSUME faults = 0
             PROVE  FlowOrdered' /\ PointsOrdered' /\ DoneOrdered' /\ CommandsOrdered'
  BY DEF RemoveStroke, Ordered
<1>1. /\ FlowOrdered /\ PointsOrdered /\ DoneOrdered /\ CommandsOrdered
      /\ UNCHANGED <<stroke, rcv, said, reservedMsg, table>>
      /\ Flow' = Flow /\ Now' = Now /\ interp = "remove" /\ interp' = "idle"
      /\ strokes' = Tail(strokes) /\ strokes # << >>
  BY FlowStays DEF RemoveStroke, Ordered, pen, tablet, Now, Shape, DrawingShape
<1>2. \A i \in DOMAIN strokes' : /\ i + 1 \in DOMAIN strokes /\ i + 1 >= 2
                                 /\ strokes'[i] = strokes[i + 1]
  <2>1. /\ DOMAIN strokes' = 1 .. Len(strokes) - 1 /\ Len(strokes) \in Nat
        /\ DOMAIN strokes = 1 .. Len(strokes)
        /\ \A i \in 1 .. Len(strokes) - 1 : strokes'[i] = strokes[i + 1]
    BY <1>1, ListIs, Tails
  <2> QED BY <2>1
<1>3. /\ Moved' = Moved /\ Targets(said)' = Targets(said) /\ Logged' = Logged
      /\ Handled' = Handled
  BY <1>1 DEF Moved, Targets, Moves, Logged, Handled, EventsOf
<1>4. FlowOrdered'
  BY <1>1, <1>3, FlowOrderedStays
<1>5. PointsOrdered'
  BY <1>1 DEF PointsOrdered, EventsOf, Before
<1>6. ASSUME NEW v \in Moved \cup Targets(said) \cup Logged, NEW i \in DOMAIN strokes',
             NEW w \in EventsOf(stroke[strokes'[i]])
      PROVE  Before(v, w)
  BY <1>1, <1>2, <1>6 DEF DoneOrdered
<1>7. DoneOrdered'
  BY <1>1, <1>3, <1>6 DEF DoneOrdered, EventsOf, Before
<1>8. CommandsOrdered'
  BY <1>1 DEF CommandsOrdered, MovesInOrder, Moved, Targets, Moves, Before
<1> QED BY <1>4, <1>5, <1>7, <1>8

LEMMA OrderedStep == Shape /\ Numbered /\ Ordered /\ [Next]_vars => Ordered'
<1> SUFFICES ASSUME Shape, Numbered, Ordered, [Next]_vars PROVE Ordered'
  OBVIOUS
<1>1. CASE Pen
  BY <1>1, PenKeepsOrder
<1>2. CASE Keyboard
  <2>1. CASE ToggleMode \/ keyPressed
    <3>1. UNCHANGED <<net, tabletInputData, contact, events, stroke, strokes, rcv,
                      interp, current, reservedMsg, said, table, faults>>
      BY <2>1 DEF ToggleMode, keyPressed, tablet, drawing, interpreter
    <3>2. Now' = Now
      BY <3>1 DEF Now
    <3> QED BY <3>1, <3>2, FlowStays, OrderedStays
  <2> QED BY <1>2, <2>1, ReserveTypedKeepsOrder DEF Keyboard
<1>3. CASE OscStreaming
  <2>1. UNCHANGED <<contact, events, stroke, strokes, rcv, interp, current,
                    reservedMsg, said, table, faults>>
    BY <1>3 DEF OscStreaming, drawing, interpreter, pen
  <2>2. Now' = Now
    BY <2>1 DEF Now
  <2> QED BY <1>3, <2>1, <2>2, StreamingKeepsAll, OrderedStays
<1>4. CASE NetFault \/ OscRace
  <2>1. faults' # 0
    BY <1>4 DEF NetFault, OscRace, Shape, QueueShape
  <2> QED BY <2>1 DEF Ordered
<1>5. CASE Oscp5
  <2>1. CASE ReadSizes
    <3>1. UNCHANGED <<net, tabletInputData, contact, events, stroke, strokes,
                      rcv, interp, current, reservedMsg, said, table, faults>>
      BY <2>1 DEF ReadSizes, tablet, drawing, interpreter, pen
    <3>2. Now' = Now
      BY <3>1 DEF Now
    <3> QED BY <3>1, <3>2, FlowStays, OrderedStays
  <2> QED BY <1>5, <2>1, ReceiveKeepsOrder, StoreKeepsOrder DEF Oscp5
<1>6. CASE Interpreting
  BY <1>6, InterpretKeepsOrder, InterpretPairKeepsOrder, ReserveKeepsOrder,
     InterpretTailKeepsOrder, InterpretRestKeepsOrder, RemoveKeepsOrder
     DEF Interpreting
<1>7. CASE UNCHANGED vars
  <2>1. UNCHANGED <<net, tabletInputData, contact, events, stroke, strokes, rcv,
                    interp, current, reservedMsg, said, table, faults>>
    BY <1>7 DEF vars, tablet, drawing, interpreter, pen
  <2>2. Now' = Now
    BY <2>1 DEF Now
  <2> QED BY <2>1, <2>2, FlowStays, OrderedStays
<1> QED BY <1>1, <1>2, <1>3, <1>4, <1>5, <1>6, <1>7 DEF Next

LEMMA InitOrdered == Init => Ordered
<1> SUFFICES ASSUME Init
             PROVE  FlowOrdered /\ PointsOrdered /\ DoneOrdered /\ CommandsOrdered
  BY DEF Ordered
<1>1. /\ Flow = << >> /\ stroke = << >> /\ strokes = << >> /\ table = << >>
      /\ reservedMsg = << >> /\ said = << >> /\ rcv = NoRcv /\ interp = "idle"
  BY DEF Init, Flow
<1>2. \A s : s = << >> => DOMAIN s = {}
  OBVIOUS
<1>3. Targets(said) = {} /\ Moved = {} /\ MovesInOrder(said) /\ MovesInOrder(reservedMsg)
  BY <1>1, MovesOfNone DEF Moved
<1>4. Handled = {} /\ Logged = {}
  BY <1>1, <1>2, <1>3 DEF Handled, Logged
<1>5. FlowOrdered /\ PointsOrdered
  BY <1>1, <1>2, <1>4 DEF FlowOrdered, PointsOrdered
<1>6. DoneOrdered
  BY <1>1, <1>3, <1>4 DEF DoneOrdered
<1>7. CommandsOrdered
  BY <1>1, <1>2, <1>3 DEF CommandsOrdered
<1> QED BY <1>5, <1>6, <1>7

(* As long as the network does its part, a point stays in the stroke it was
   drawn in, the plotter is sent to no point twice and to none before an earlier
   one, and the log is in the order of the pen, though the receiver stores a
   point into the last stroke of a list that the interpreter empties between its
   reading and its writing, whatever modes are switched and keys pressed. *)
THEOREM AlwaysDrawnInOrder == Spec => []DrawnInOrder
<1>1. Shape /\ Numbered /\ Ordered => DrawnInOrder
  BY DEF Numbered, ListNumbered, LogNumbered, Ordered, CommandsOrdered, MovesInOrder,
         DrawnInOrder
<1> QED BY <1>1, InitShape, ShapeStep, InitNumbered, NumberedStep, InitOrdered,
           OrderedStep, PTL DEF Spec
-----------------------------------------------------------------------------
(* Counting the messages after the first k that are answers. *)
AnswersIn(s, k) == {i \in DOMAIN s : i > k /\ IsAnswer(s[i])}
Count(s, k) == Cardinality(AnswersIn(s, k))

LEMMA AnswersFinite ==
  ASSUME NEW T, NEW s \in Seq(T), NEW k \in Nat
  PROVE  /\ IsFiniteSet(AnswersIn(s, k)) /\ Count(s, k) \in Nat
         /\ k >= Len(s) => Count(s, k) = 0
<1>1. Len(s) \in Nat /\ DOMAIN s = 1 .. Len(s)
  OBVIOUS
<1>2. IsFiniteSet(1 .. Len(s))
  BY <1>1, FS_Interval
<1>3. AnswersIn(s, k) \in SUBSET (1 .. Len(s))
  BY <1>1 DEF AnswersIn
<1>4. IsFiniteSet(AnswersIn(s, k))
  BY <1>2, <1>3, FS_Subset
<1>5. Count(s, k) \in Nat
  BY <1>4, FS_CardinalityType DEF Count
<1>6. ASSUME k >= Len(s) PROVE Count(s, k) = 0
  <2>1. AnswersIn(s, k) = {}
    BY <1>1, <1>6 DEF AnswersIn
  <2> QED BY <2>1, FS_EmptySet DEF Count
<1> QED BY <1>4, <1>5, <1>6

LEMMA ShiftKeepsSize ==
  ASSUME NEW S, IsFiniteSet(S), NEW T, NEW d \in Int, S \subseteq Int, T \subseteq Int,
         \A i \in Int : i \in S <=> i + d \in T
  PROVE  IsFiniteSet(T) /\ Cardinality(T) = Cardinality(S)
<1> DEFINE f == [i \in S |-> i + d]
<1>1. f \in [S -> T]
  OBVIOUS
<1>2. \A i, j \in S : f[i] = f[j] => i = j
  OBVIOUS
<1>3. \A t \in T : \E i \in S : f[i] = t
  <2> TAKE t \in T
  <2>1. t - d \in Int /\ t - d + d = t
    OBVIOUS
  <2>2. t - d \in S
    BY <2>1
  <2>3. f[t - d] = t
    BY <2>1, <2>2
  <2> QED BY <2>2, <2>3
<1> HIDE DEF f
<1>4. f \in Bijection(S, T)
  BY <1>1, <1>2, <1>3 DEF Bijection, Injection, Surjection, IsInjective
<1> QED BY <1>4, FS_Bijection DEF ExistsBijection

LEMMA CountOfTail ==
  ASSUME NEW T, NEW s \in Seq(T), s # << >>, NEW k \in Nat
  PROVE  Count(Tail(s), k) = Count(s, k + 1)
<1> DEFINE t == Tail(s)
<1>1. /\ t \in Seq(T) /\ Len(t) = Len(s) - 1 /\ Len(s) \in Nat
      /\ DOMAIN t = 1 .. Len(s) - 1 /\ DOMAIN s = 1 .. Len(s)
      /\ \A i \in 1 .. Len(s) - 1 : t[i] = s[i + 1]
  OBVIOUS
<1> HIDE DEF t
<1>2. ASSUME NEW i \in Int
      PROVE  i \in AnswersIn(t, k) <=> i + 1 \in AnswersIn(s, k + 1)
  <2>1. i \in DOMAIN t /\ i > k <=> i + 1 \in DOMAIN s /\ i + 1 > k + 1
    BY <1>1
  <2>2. i \in DOMAIN t => t[i] = s[i + 1]
    BY <1>1
  <2> QED BY <2>1, <2>2 DEF AnswersIn
<1>3. AnswersIn(t, k) \subseteq Int /\ AnswersIn(s, k + 1) \subseteq Int
  BY <1>1 DEF AnswersIn
<1>4. IsFiniteSet(AnswersIn(t, k))
  BY <1>1, AnswersFinite
<1>5. Cardinality(AnswersIn(s, k + 1)) = Cardinality(AnswersIn(t, k))
  <2>1. 1 \in Int
    OBVIOUS
  <2> HIDE DEF AnswersIn
  <2> QED BY <1>2, <1>3, <1>4, <2>1, ShiftKeepsSize
<1> QED BY <1>5 DEF Count, t

LEMMA CountOfHead ==
  ASSUME NEW T, NEW s \in Seq(T), s # << >>
  PROVE  Count(s, 0) = Count(Tail(s), 0) + IF IsAnswer(Head(s)) THEN 1 ELSE 0
<1>1. Len(s) \in Nat /\ DOMAIN s = 1 .. Len(s) /\ Head(s) = s[1] /\ 1 \in DOMAIN s
  OBVIOUS
<1>2. IsFiniteSet(AnswersIn(s, 1)) /\ Count(s, 1) \in Nat
  BY AnswersFinite
<1>3. Count(Tail(s), 0) = Count(s, 1)
  BY CountOfTail
<1>4. CASE IsAnswer(Head(s))
  <2>1. AnswersIn(s, 0) = AnswersIn(s, 1) \cup {1} /\ 1 \notin AnswersIn(s, 1)
    BY <1>1, <1>4 DEF AnswersIn
  <2>2. Count(s, 0) = Count(s, 1) + 1
    BY <1>2, <2>1, FS_AddElement DEF Count
  <2> QED BY <1>3, <1>4, <2>2
<1>5. CASE ~IsAnswer(Head(s))
  <2>1. AnswersIn(s, 0) = AnswersIn(s, 1)
    BY <1>1, <1>5 DEF AnswersIn
  <2> QED BY <1>2, <1>3, <1>5, <2>1 DEF Count
<1> QED BY <1>4, <1>5

LEMMA CountOfBoth ==
  ASSUME NEW T, NEW s \in Seq(T), NEW t \in Seq(T), NEW k \in 0 .. Len(s)
  PROVE  Count(s \o t, k) = Count(s, k) + Count(t, 0)
<1> DEFINE r == s \o t
           shifted == {i \in AnswersIn(r, k) : i > Len(s)}
<1>1. /\ r \in Seq(T) /\ Len(r) = Len(s) + Len(t)
      /\ Len(s) \in Nat /\ Len(t) \in Nat
      /\ DOMAIN r = 1 .. Len(s) + Len(t)
      /\ DOMAIN s = 1 .. Len(s) /\ DOMAIN t = 1 .. Len(t)
  OBVIOUS
<1>2. \A i \in 1 .. Len(s) : r[i] = s[i]
  OBVIOUS
<1>3. \A i \in 1 .. Len(t) : r[i + Len(s)] = t[i]
  OBVIOUS
<1> HIDE DEF r
<1>4. AnswersIn(r, k) = AnswersIn(s, k) \cup shifted
      /\ AnswersIn(s, k) \cap shifted = {}
  <2>1. ASSUME NEW i \in 1 .. Len(s)
        PROVE  i \in AnswersIn(r, k) <=> i \in AnswersIn(s, k)
    BY <1>1, <1>2 DEF AnswersIn
  <2>2. \A i \in AnswersIn(r, k) : i \in 1 .. Len(s) \/ i > Len(s)
    BY <1>1 DEF AnswersIn
  <2>3. AnswersIn(s, k) \subseteq 1 .. Len(s)
    BY <1>1 DEF AnswersIn
  <2>4. \A i \in 1 .. Len(s) : ~(i > Len(s))
    BY <1>1
  <2> QED BY <2>1, <2>2, <2>3, <2>4
<1>5. IsFiniteSet(AnswersIn(s, k)) /\ IsFiniteSet(AnswersIn(t, 0))
  BY AnswersFinite
<1>6. Cardinality(shifted) = Cardinality(AnswersIn(t, 0)) /\ IsFiniteSet(shifted)
  <2>1. ASSUME NEW i \in Int
        PROVE  i \in AnswersIn(t, 0) <=> i + Len(s) \in shifted
    <3>1. i \in DOMAIN t /\ i > 0 <=> /\ i + Len(s) \in DOMAIN r /\ i + Len(s) > k
                                      /\ i + Len(s) > Len(s)
      BY <1>1
    <3>2. i \in DOMAIN t => r[i + Len(s)] = t[i]
      BY <1>1, <1>3
    <3> QED BY <3>1, <3>2 DEF AnswersIn
  <2>2. AnswersIn(t, 0) \subseteq Int /\ shifted \subseteq Int
    BY <1>1 DEF AnswersIn
  <2> HIDE DEF shifted
  <2>3. Len(s) \in Int
    BY <1>1
  <2> QED BY <1>5, <2>1, <2>2, <2>3, ShiftKeepsSize
<1> HIDE DEF shifted
<1>7. Cardinality(AnswersIn(s, k) \cup shifted)
        = Cardinality(AnswersIn(s, k)) + Cardinality(shifted)
          - Cardinality(AnswersIn(s, k) \cap shifted)
  BY <1>5, <1>6, FS_Union
<1>8. Cardinality(AnswersIn(s, k) \cap shifted) = 0
  BY <1>4, FS_EmptySet
<1>9. Cardinality(AnswersIn(s, k)) \in Nat /\ Cardinality(shifted) \in Nat
  BY <1>5, <1>6, FS_CardinalityType
<1> QED BY <1>4, <1>6, <1>7, <1>8, <1>9 DEF Count, r

LEMMA CountOfNone ==
  ASSUME NEW s, \A i \in DOMAIN s : ~IsAnswer(s[i]), NEW k
  PROVE  Count(s, k) = 0
<1>1. AnswersIn(s, k) = {}
  BY DEF AnswersIn
<1> QED BY <1>1, FS_EmptySet DEF Count

LEMMA CountOfOne ==
  ASSUME NEW m
  PROVE  Count(<<m>>, 0) = IF IsAnswer(m) THEN 1 ELSE 0
<1>1. DOMAIN <<m>> = {1} /\ <<m>>[1] = m
  OBVIOUS
<1>2. AnswersIn(<<m>>, 0) = IF IsAnswer(m) THEN {1} ELSE {}
  BY <1>1 DEF AnswersIn
<1> QED BY <1>2, FS_EmptySet, FS_Singleton DEF Count

LEMMA CountOfAppend ==
  ASSUME NEW T, NEW s \in Seq(T), NEW m \in T, NEW k \in 0 .. Len(s)
  PROVE  Count(Append(s, m), k) = Count(s, k) + IF IsAnswer(m) THEN 1 ELSE 0
<1>1. Append(s, m) = s \o <<m>> /\ <<m>> \in Seq(T)
  OBVIOUS
<1>2. Count(s \o <<m>>, k) = Count(s, k) + Count(<<m>>, 0)
  BY <1>1, CountOfBoth
<1>3. Count(<<m>>, 0) = IF IsAnswer(m) THEN 1 ELSE 0
  BY CountOfOne
<1> QED BY <1>1, <1>2, <1>3

(* The first of some records, which ends a listing of them. *)
LEMMA Least ==
  ASSUME NEW S, S \subseteq Nat, S # {}
  PROVE  \E n \in S : \A m \in S : n <= m
<1> DEFINE below == {0 .. n : n \in S}
<1>1. below \subseteq FiniteSubsetsOf(Nat) /\ below # {}
  <2>1. ASSUME NEW n \in S PROVE 0 .. n \in FiniteSubsetsOf(Nat)
    <3>1. n \in Nat /\ IsFiniteSet(0 .. n)
      BY FS_Interval
    <3> QED BY <3>1 DEF FiniteSubsetsOf
  <2> QED BY <2>1
<1> HIDE DEF below
<1>0. IsWellFoundedOn(StrictSubsetOrdering(Nat), FiniteSubsetsOf(Nat))
  BY FS_StrictSubsetOrderingWellFounded
<1>2. PICK b \in below : \A c \in below : ~(<<c, b>> \in StrictSubsetOrdering(Nat))
  BY <1>0, <1>1, WFMin, Zenon
<1> USE DEF below
<1>3. PICK n \in S : b = 0 .. n
  OBVIOUS
<1>4. ASSUME NEW m \in S PROVE n <= m
  <2>1. ~(<<0 .. m, 0 .. n>> \in StrictSubsetOrdering(Nat))
    BY <1>2, <1>3
  <2>2. m \in Nat /\ n \in Nat
    OBVIOUS
  <2>3. 0 .. m \subseteq Nat /\ 0 .. n \subseteq Nat
    BY <2>2
  <2>4. ~(0 .. m \subseteq 0 .. n /\ 0 .. m # 0 .. n)
    BY <2>1, <2>3 DEF StrictSubsetOrdering
  <2>5. ASSUME m < n PROVE FALSE
    <3>1. 0 .. m \subseteq 0 .. n /\ n \in 0 .. n /\ n \notin 0 .. m
      BY <2>2, <2>5
    <3> QED BY <2>4, <3>1
  <2> QED BY <2>2, <2>5
<1> QED BY <1>4

(* The messages.  None is taken for an answer but the status of a line, a
   record that cannot be read and the error of a startup line. *)
Literals ==
  {"ok", "error:", "ERROR:", "G1F1", "G1X1", "", "[HLP:", "]", "$0=", "10",
   "[GC:", "[PRB:", "[G92:", "[TLO:", "[MSG:", "ALARM:", "$N", "=", ">", "[G",
   ":", "[VER:", "[OPT:", "Grbl 1.1f ['$' for help]", "'$H'|'$X' to unlock",
   "Caution: Unlocked", "Disabled", "Enabled", "Restoring defaults",
   "Reset to continue"}
Token == Literals \cup {l[2] : l \in Sent} \cup StoredLines \cup StoredInfos
         \cup {ToString(n) : n \in 0 .. 255}
Lawful == Token \ {"error:"}
Message == Seq(Token)
Remark(m) == m \in Message /\ ~IsAnswer(m)

LEMMA Numbers8 ==
  ASSUME NEW n \in 0 .. 255 PROVE print_uint8_base10(n) \in Lawful
BY MessagesAssumption DEF print_uint8_base10, Lawful, Token

LEMMA StoredIsLawful == StoredLines \subseteq Lawful /\ StoredInfos \subseteq Lawful
BY MessagesAssumption DEF Lawful, Token

LEMMA Tokens == Literals \subseteq Token /\ Lawful \subseteq Token
BY DEF Token, Lawful

LEMMA LiteralsAreLawful ==
  ASSUME NEW s \in Literals, s # "error:" PROVE s \in Lawful
BY DEF Lawful, Token

LEMMA SentIsToken ==
  ASSUME NEW l \in Sent PROVE l[2] \in Token
BY DEF Token

LEMMA Remarks ==
  ASSUME NEW a \in Lawful, NEW b \in Lawful, NEW c \in Lawful, NEW d \in Lawful
  PROVE  /\ a # "ok" => Remark(<<a>>)
         /\ Remark(<<a, b>>) /\ Remark(<<a, b, c>>) /\ Remark(<<a, b, c, d>>)
<1>1. a \in Token /\ b \in Token /\ c \in Token /\ d \in Token
      /\ a # "error:" /\ b # "error:" /\ c # "error:" /\ d # "error:"
  BY DEF Lawful
<1>2. ASSUME a # "ok" PROVE Remark(<<a>>)
  BY <1>1, <1>2 DEF Remark, Message, IsAnswer, ToSet
<1>3. Remark(<<a, b>>)
  BY <1>1 DEF Remark, Message, IsAnswer, ToSet
<1>4. Remark(<<a, b, c>>)
  BY <1>1 DEF Remark, Message, IsAnswer, ToSet
<1>5. Remark(<<a, b, c, d>>)
  BY <1>1 DEF Remark, Message, IsAnswer, ToSet
<1> QED BY <1>2, <1>3, <1>4, <1>5

LEMMA StatusAnswers ==
  ASSUME NEW status_code \in 0 .. 255
  PROVE  /\ report_status_message(status_code) \in Message
         /\ IsAnswer(report_status_message(status_code))
<1>1. print_uint8_base10(status_code) \in Token /\ "ok" \in Token /\ "error:" \in Token
  BY Numbers8, Tokens DEF Literals
<1> QED BY <1>1 DEF report_status_message, IsAnswer, ToSet, Message

LEMMA StartupAnswers ==
  ASSUME NEW text \in Lawful, NEW status_code \in 0 .. 255
  PROVE  LET m == report_execute_startup_message(text, status_code)
         IN m \in Message /\ (IsAnswer(m) <=> status_code # STATUS_OK)
<1> DEFINE m == report_execute_startup_message(text, status_code)
           a == <<">", text, ":">>
           b == report_status_message(status_code)
<1>1. a \in Seq(Token) /\ Len(a) = 3 /\ DOMAIN a = 1 .. 3
      /\ \A i \in 1 .. 3 : a[i] \in Lawful
  <2>1. ">" \in Lawful /\ ":" \in Lawful /\ text \in Lawful /\ Lawful \subseteq Token
    BY LiteralsAreLawful, Tokens DEF Literals
  <2> QED BY <2>1
<1>2. /\ b \in Seq(Token) /\ DOMAIN b = 1 .. Len(b) /\ Len(b) \in Nat \ {0}
      /\ status_code = STATUS_OK => Len(b) = 1 /\ b[1] = "ok"
      /\ status_code # STATUS_OK => b[1] = "error:"
  <2>1. b \in Seq(Token)
    BY StatusAnswers DEF Message
  <2>2. CASE status_code = STATUS_OK
    <3>1. b = <<"ok">>
      BY <2>2 DEF report_status_message
    <3> QED BY <2>1, <2>2, <3>1
  <2>3. CASE status_code # STATUS_OK
    <3>1. b = <<"error:", print_uint8_base10(status_code)>>
      BY <2>3 DEF report_status_message
    <3> QED BY <2>1, <2>3, <3>1
  <2> QED BY <2>2, <2>3
<1>3. m = a \o b
  BY DEF report_execute_startup_message
<1> HIDE DEF a, b, m
<1>4. /\ m \in Seq(Token) /\ Len(m) = 3 + Len(b)
      /\ \A k \in 1 .. 3 + Len(b) : m[k] = IF k <= 3 THEN a[k] ELSE b[k - 3]
  <2>1. /\ m \in Seq(Token) /\ Len(m) = Len(a) + Len(b)
        /\ \A k \in 1 .. Len(a) + Len(b) :
             m[k] = IF k <= Len(a) THEN a[k] ELSE b[k - Len(a)]
    BY <1>1, <1>2, <1>3, Concatenation
  <2> QED BY <1>1, <2>1
<1>5. /\ m # <<"ok">> /\ DOMAIN m = 1 .. 3 + Len(b) /\ m[4] = b[1]
      /\ 4 \in DOMAIN m
  BY <1>2, <1>4
<1>6. CASE status_code = STATUS_OK
  <2>1. \A i \in DOMAIN m : i \in 1 .. 3 \/ i = 4
    <3>1. Len(b) = 1
      BY <1>2, <1>6
    <3> QED BY <1>5, <3>1
  <2>2. \A i \in 1 .. 3 : m[i] # "error:"
    BY <1>1, <1>2, <1>4 DEF Lawful
  <2>3. m[4] # "error:"
    BY <1>2, <1>5, <1>6
  <2>4. ~IsAnswer(m)
    BY <1>5, <2>1, <2>2, <2>3 DEF IsAnswer, ToSet
  <2> QED BY <1>4, <1>6, <2>4 DEF m, Message
<1>7. CASE status_code # STATUS_OK
  <2>1. IsAnswer(m)
    BY <1>2, <1>5, <1>7 DEF IsAnswer, ToSet
  <2> QED BY <1>4, <1>7, <2>1 DEF m, Message
<1> QED BY <1>6, <1>7

LEMMA StatusesFit ==
  /\ \A s \in {STATUS_OK, STATUS_SETTING_DISABLED, STATUS_SETTING_READ_FAIL,
               STATUS_IDLE_ERROR, STATUS_SYSTEM_GC_LOCK, STATUS_OVERFLOW,
               STATUS_GCODE_UNSUPPORTED_COMMAND,
               STATUS_GCODE_UNDEFINED_FEED_RATE} : s \in 0 .. 255
  /\ \A text, feed : GcStatus(text, feed) \in 0 .. 255
  /\ \A text, feed : GcStatus(text, feed) = STATUS_OK
                       => text \in {"G1F1", "G1X1"}
<1> USE DEF STATUS_OK, STATUS_SETTING_DISABLED, STATUS_SETTING_READ_FAIL,
            STATUS_IDLE_ERROR, STATUS_SYSTEM_GC_LOCK, STATUS_OVERFLOW,
            STATUS_GCODE_UNSUPPORTED_COMMAND, STATUS_GCODE_UNDEFINED_FEED_RATE
<1>1. \A s \in {STATUS_OK, STATUS_SETTING_DISABLED, STATUS_SETTING_READ_FAIL,
                STATUS_IDLE_ERROR, STATUS_SYSTEM_GC_LOCK, STATUS_OVERFLOW,
                STATUS_GCODE_UNSUPPORTED_COMMAND,
                STATUS_GCODE_UNDEFINED_FEED_RATE} : s \in 0 .. 255
  OBVIOUS
<1>2. ASSUME NEW text, NEW feed
      PROVE  /\ GcStatus(text, feed) \in 0 .. 255
             /\ GcStatus(text, feed) = STATUS_OK => text \in {"G1F1", "G1X1"}
  BY DEF GcStatus
<1> QED BY <1>1, <1>2

LEMMA FixedRemarks ==
  /\ Remark(report_init_message) /\ Remark(report_grbl_help)
  /\ Remark(report_grbl_settings) /\ Remark(report_gcode_modes)
  /\ Remark(report_probe_parameters)
  /\ Remark(<<"[G92:", "]">>) /\ Remark(<<"[TLO:", "]">>)
  /\ \A text \in Lawful : Remark(report_feedback_message(text))
  /\ \A n \in 0 .. 255 : Remark(report_alarm_message(n))
  /\ \A n \in 0 .. 255, text \in Lawful : Remark(report_startup_line(n, text))
  /\ \A n \in 0 .. 255 : Remark(<<"[G", print_uint8_base10(n), ":", "]">>)
  /\ \A text \in Lawful : Remark(<<"[VER:", text, "]">>)
  /\ Remark(<<"[OPT:", "]">>)
  /\ "" \in Lawful
<1>1. \A s \in {"[HLP:", "]", "$0=", "10", "[GC:", "[PRB:", "[G92:", "[TLO:",
                "[MSG:", "ALARM:", "$N", "=", "[G", ":", "[VER:", "[OPT:", "",
                "Grbl 1.1f ['$' for help]"} : s \in Lawful
  BY LiteralsAreLawful DEF Literals
<1>2. /\ Remark(report_init_message) /\ Remark(report_grbl_help)
      /\ Remark(report_grbl_settings) /\ Remark(report_gcode_modes)
      /\ Remark(report_probe_parameters)
      /\ Remark(<<"[G92:", "]">>) /\ Remark(<<"[TLO:", "]">>)
      /\ Remark(<<"[OPT:", "]">>)
  BY <1>1, Remarks DEF report_init_message, report_grbl_help, report_grbl_settings,
     report_gcode_modes, report_probe_parameters
<1>3. \A text \in Lawful : /\ Remark(report_feedback_message(text))
                           /\ Remark(<<"[VER:", text, "]">>)
  BY <1>1, Remarks DEF report_feedback_message
<1>4. \A n \in 0 .. 255 : /\ Remark(report_alarm_message(n))
                          /\ Remark(<<"[G", print_uint8_base10(n), ":", "]">>)
  BY <1>1, Remarks, Numbers8 DEF report_alarm_message
<1>5. \A n \in 0 .. 255, text \in Lawful : Remark(report_startup_line(n, text))
  BY <1>1, Remarks, Numbers8 DEF report_startup_line
<1> QED BY <1>1, <1>2, <1>3, <1>4, <1>5

(* Sequences of remarks, and of remarks with one answer at their end. *)
LEMMA RemarksCountNothing ==
  ASSUME NEW s \in Seq(Message), \A i \in DOMAIN s : Remark(s[i])
  PROVE  Count(s, 0) = 0
<1>1. \A i \in DOMAIN s : ~IsAnswer(s[i])
  BY DEF Remark
<1> QED BY <1>1, CountOfNone

LEMMA ThreeRemarks ==
  ASSUME NEW x, NEW y, NEW z, Remark(x), Remark(y), Remark(z)
  PROVE  <<x, y, z>> \in Seq(Message) /\ \A i \in DOMAIN <<x, y, z>> : Remark(<<x, y, z>>[i])
<1>1. x \in Message /\ y \in Message /\ z \in Message
  BY DEF Remark
<1> HIDE DEF Remark
<1> QED BY <1>1

LEMMA ReadFailAnswers == ReadFail \in Message /\ IsAnswer(ReadFail)
<1>1. STATUS_SETTING_READ_FAIL \in 0 .. 255
  BY StatusesFit
<1> QED BY <1>1, StatusAnswers DEF ReadFail

(* $#: nothing in it counts but the record that ends it. *)
LEMMA ParametersCount ==
  ASSUME NEW unreadable \in SUBSET EepromRecords
  PROVE  /\ NgcParameters(unreadable) \in Seq(Message)
         /\ Count(NgcParameters(unreadable), 0) =
              IF FirstOf(unreadable) = {} THEN 0 ELSE 1
         /\ FirstOf(unreadable) \subseteq EepromRecords
<1> DEFINE failing == {c \in Coords : <<"coord", c>> \in unreadable}
           Line(c) == <<"[G", print_uint8_base10(c), ":", "]">>
           InList(n) == [i \in 1 .. n |-> Line(i - 1)]
<1>1. SETTING_INDEX_NCOORD \in 0 .. 255 /\ Coords = 0 .. SETTING_INDEX_NCOORD
  BY MessagesAssumption DEF Coords
<1>2. ASSUME NEW n \in 0 .. SETTING_INDEX_NCOORD + 1
      PROVE  /\ InList(n) \in Seq(Message) /\ Len(InList(n)) = n
             /\ \A i \in DOMAIN InList(n) : Remark(InList(n)[i])
             /\ Count(InList(n), 0) = 0
  <2>1. ASSUME NEW i \in 1 .. n
        PROVE  InList(n)[i] = Line(i - 1) /\ Remark(InList(n)[i])
    <3>1. i - 1 \in 0 .. 255
      BY <1>1
    <3>2. Remark(Line(i - 1))
      BY <3>1, FixedRemarks
    <3> QED BY <3>2
  <2>2. DOMAIN InList(n) = 1 .. n /\ n \in Nat
    BY <1>1
  <2>3. InList(n) = [i \in 1 .. n |-> InList(n)[i]]
    OBVIOUS
  <2> HIDE DEF InList
  <2>4. \A i \in 1 .. n : InList(n)[i] \in Message
    BY <2>1 DEF Remark
  <2>5. InList(n) \in Seq(Message) /\ Len(InList(n)) = n
    BY <2>2, <2>3, <2>4
  <2>6. \A i \in DOMAIN InList(n) : Remark(InList(n)[i])
    BY <2>1, <2>2
  <2> QED BY <2>5, <2>6, RemarksCountNothing
<1>3. FirstOf(unreadable) \subseteq EepromRecords
  BY DEF FirstOf
<1>4. CASE failing = {}
  <2> DEFINE rest == << <<"[G92:", "]">>, <<"[TLO:", "]">>, report_probe_parameters >>
             l == InList(SETTING_INDEX_NCOORD + 1)
  <2>1. NgcParameters(unreadable) = l \o rest
    BY <1>4 DEF NgcParameters
  <2>2. rest \in Seq(Message) /\ \A i \in DOMAIN rest : Remark(rest[i])
    BY FixedRemarks, ThreeRemarks
  <2>3. Count(rest, 0) = 0
    <3> HIDE DEF rest
    <3> QED BY <2>2, RemarksCountNothing
  <2>4. l \in Seq(Message) /\ Count(l, 0) = 0
    BY <1>1, <1>2
  <2>5. FirstOf(unreadable) = {}
    <3>1. \A r \in unreadable : r[1] # "coord"
      <4> TAKE r \in unreadable
      <4>1. r \in EepromRecords
        OBVIOUS
      <4>2. r[1] = "coord" => \E c \in Coords : r = <<"coord", c>>
        BY <4>1 DEF EepromRecords, StartupLines
      <4> QED BY <1>4, <4>2
    <3> QED BY <3>1 DEF FirstOf
  <2> HIDE DEF rest, l
  <2>6. 0 \in 0 .. Len(l)
    BY <2>4
  <2>7. l \o rest \in Seq(Message) /\ Count(l \o rest, 0) = 0
    BY <2>2, <2>3, <2>4, <2>6, CountOfBoth
  <2> QED BY <1>3, <2>1, <2>5, <2>7
<1>5. CASE failing # {}
  <2>1. failing \subseteq Nat /\ failing \subseteq 0 .. SETTING_INDEX_NCOORD
    BY <1>1
  <2>2. \E c \in failing : \A d \in failing : c <= d
    BY <1>5, <2>1, Least
  <2>3. Min(failing) \in failing /\ \A d \in failing : Min(failing) <= d
    BY <2>2 DEF Min
  <2> DEFINE c == Min(failing)
             l == InList(c)
  <2>4. NgcParameters(unreadable) = Append(l, ReadFail)
    BY <1>5 DEF NgcParameters
  <2>5. l \in Seq(Message) /\ Count(l, 0) = 0
    <3>1. c \in 0 .. SETTING_INDEX_NCOORD + 1
      BY <1>1, <2>1, <2>3
    <3> HIDE DEF c, InList
    <3> QED BY <1>2, <3>1
  <2>6. FirstOf(unreadable) # {}
    <3>1. <<"coord", c>> \in unreadable
      BY <2>3
    <3>2. ASSUME NEW s \in unreadable, s[1] = "coord" PROVE c <= s[2]
      <4>1. s \in EepromRecords
        OBVIOUS
      <4>2. PICK d \in Coords : s = <<"coord", d>>
        BY <3>2, <4>1 DEF EepromRecords, StartupLines
      <4> QED BY <2>3, <4>2
    <3> HIDE DEF c
    <3>3. <<"coord", c>> \in FirstOf(unreadable)
      BY <3>1, <3>2 DEF FirstOf
    <3> QED BY <3>3
  <2> HIDE DEF l
  <2>7. 0 \in 0 .. Len(l)
    BY <2>5
  <2>8. Append(l, ReadFail) \in Seq(Message) /\ Count(Append(l, ReadFail), 0) = 1
    BY <2>5, <2>7, ReadFailAnswers, CountOfAppend
  <2> QED BY <1>3, <2>4, <2>6, <2>8
<1> QED BY <1>4, <1>5

(* The board: the texts it has stored pass for no answer. *)
Board ==
  [state : {"off", "IDLE", "ALARM", "CHECK"}, reset : BOOLEAN, homing : BOOLEAN,
   feed : BOOLEAN, startup : [StartupLines -> Lawful], info : Lawful,
   unreadable : SUBSET EepromRecords]
Turn == [out : Seq(Message), feed : BOOLEAN, extra : Nat]
Counted(turn) == turn \in Turn /\ Count(turn.out, 0) = turn.extra

LEMMA FeedFits ==
  ASSUME NEW text, NEW feed \in BOOLEAN PROVE HasFeed(text, feed) \in BOOLEAN
BY Zenon DEF HasFeed

LEMMA SayOneMore ==
  ASSUME NEW turn, Counted(turn), NEW m \in Message, NEW feed \in BOOLEAN, NEW extra \in Nat,
         extra = IF IsAnswer(m) THEN 1 ELSE 0
  PROVE  Counted([out |-> Append(turn.out, m), feed |-> feed,
                  extra |-> turn.extra + extra])
<1>1. turn.out \in Seq(Message) /\ turn.extra \in Nat /\ Count(turn.out, 0) = turn.extra
  BY DEF Counted, Turn
<1>2. 0 \in 0 .. Len(turn.out)
  BY <1>1
<1>3. Count(Append(turn.out, m), 0) = Count(turn.out, 0) + extra
  BY <1>1, <1>2, CountOfAppend
<1>4. Append(turn.out, m) \in Seq(Message) /\ turn.extra + extra \in Nat
  BY <1>1
<1> QED BY <1>1, <1>3, <1>4 DEF Counted, Turn

LEMMA TurnCounts ==
  ASSUME NEW b \in Board, NEW turn, Counted(turn), NEW n \in StartupLines
  PROVE  Counted(StartupTurn(b, turn, n))
<1> DEFINE text == b.startup[n]
           status == GcStatus(text, turn.feed)
<1>1. text \in Lawful /\ turn.feed \in BOOLEAN /\ status \in 0 .. 255
      /\ "" \in Lawful /\ STATUS_SETTING_READ_FAIL \in 0 .. 255
      /\ STATUS_SETTING_READ_FAIL # STATUS_OK
  <2>1. STATUS_SETTING_READ_FAIL # STATUS_OK
    BY DEF STATUS_SETTING_READ_FAIL, STATUS_OK
  <2>2. text \in Lawful /\ turn.feed \in BOOLEAN
    BY DEF Board, Counted, Turn
  <2>3. status \in 0 .. 255 /\ STATUS_SETTING_READ_FAIL \in 0 .. 255 /\ "" \in Lawful
    BY StatusesFit, FixedRemarks
  <2> QED BY <2>1, <2>2, <2>3
<1>2. CASE <<"line", n>> \in b.unreadable
  <2> DEFINE m == report_execute_startup_message("", STATUS_SETTING_READ_FAIL)
  <2>1. m \in Message /\ IsAnswer(m)
    BY <1>1, StartupAnswers
  <2>2. StartupTurn(b, turn, n) = [out |-> Append(turn.out, m), feed |-> turn.feed,
                                   extra |-> turn.extra + 1]
    BY <1>2 DEF StartupTurn
  <2> HIDE DEF m
  <2> QED BY <1>1, <2>1, <2>2, SayOneMore
<1>3. CASE <<"line", n>> \notin b.unreadable /\ text = ""
  <2>1. StartupTurn(b, turn, n) = turn
    BY <1>3 DEF StartupTurn
  <2> QED BY <2>1
<1>4. CASE <<"line", n>> \notin b.unreadable /\ text # ""
  <2> DEFINE m == report_execute_startup_message(text, status)
             x == IF status = STATUS_OK THEN 0 ELSE 1
  <2>1. m \in Message /\ (IsAnswer(m) <=> status # STATUS_OK)
    BY <1>1, StartupAnswers
  <2>2. StartupTurn(b, turn, n) = [out |-> Append(turn.out, m),
                                   feed |-> HasFeed(text, turn.feed),
                                   extra |-> turn.extra + x]
    BY <1>4 DEF StartupTurn
  <2>3. HasFeed(text, turn.feed) \in BOOLEAN
    BY <1>1, FeedFits
  <2>4. x \in Nat /\ x = IF IsAnswer(m) THEN 1 ELSE 0
    BY <2>1
  <2> HIDE DEF m, x, status
  <2> QED BY <2>1, <2>2, <2>3, <2>4, SayOneMore
<1> QED BY <1>2, <1>3, <1>4

LEMMA StartupCounts ==
  ASSUME NEW b \in Board, NEW feed \in BOOLEAN
  PROVE  Counted(system_execute_startup(b, feed))
<1> DEFINE turn == [out |-> << >>, feed |-> feed, extra |-> 0]
<1>1. Counted(turn)
  <2>1. << >> \in Seq(Message) /\ DOMAIN << >> = {} /\ turn \in Turn
    BY DEF Turn
  <2>2. Count(<< >>, 0) = 0
    BY <2>1, CountOfNone
  <2> QED BY <2>1, <2>2 DEF Counted
<1>2. 0 \in StartupLines /\ 1 \in StartupLines
  BY DEF StartupLines
<1> HIDE DEF turn
<1>3. Counted(StartupTurn(b, turn, 0))
  BY <1>1, <1>2, TurnCounts
<1>4. Counted(StartupTurn(b, StartupTurn(b, turn, 0), 1))
  BY <1>2, <1>3, TurnCounts
<1> QED BY <1>4 DEF system_execute_startup, turn

LEMMA RepairedFits ==
  ASSUME NEW b \in Board, NEW records
  PROVE  /\ Repaired(b, records) \in Board
         /\ Repaired(b, records).state = b.state
<1>1. "" \in Lawful
  BY FixedRemarks
<1> QED BY <1>1 DEF Repaired, Board

LEMMA AfterStartupFits ==
  ASSUME NEW b \in Board, NEW feed \in BOOLEAN
  PROVE  /\ AfterStartup(b, feed) \in Board
         /\ AfterStartup(b, feed).state = b.state
<1> DEFINE r == Repaired(b, LineRecords \cap b.unreadable)
           f == system_execute_startup(b, feed).feed
<1>1. r \in Board /\ r.state = b.state
  BY RepairedFits
<1>2. f \in BOOLEAN
  BY StartupCounts DEF Counted, Turn
<1>3. AfterStartup(b, feed) = [r EXCEPT !.feed = f]
  BY DEF AfterStartup
<1> HIDE DEF r, f
<1> QED BY <1>1, <1>2, <1>3 DEF Board

LEMMA RestoredFits ==
  ASSUME NEW b \in Board, NEW r \in Restored(b)
  PROVE  r \in Board /\ r.state = b.state /\ r.reset = b.reset
<1>1. "" \in Lawful
  BY FixedRemarks
<1>2. PICK left \in SUBSET (TextRecords \cap b.unreadable) :
        r = [b EXCEPT !.unreadable = left,
                      !.startup = [n \in StartupLines |-> ""],
                      !.info = "", !.homing = FALSE]
  BY DEF Restored
<1>3. left \in SUBSET EepromRecords
  BY <1>2 DEF Board
<1> QED BY <1>1, <1>2, <1>3 DEF Board

-----------------------------------------------------------------------------
(* Before the host listens, the first welcome message is still to come, and
   the answers that come after it are to no line.  From then on what it waits
   for and the answers to no line are those on their way, those to come and
   those that were dropped. *)
Welcomes(i) == replies[i] = report_init_message

Expectant ==
  /\ ~client.dead /\ client.pending = 0 /\ lines = << >> /\ tally.lost = 0
  /\ \/ board.state = "off" /\ replies = << >> /\ tally.extra = 0
     \/ /\ board.state # "off"
        /\ \E i \in DOMAIN replies :
             /\ Welcomes(i) /\ \A j \in 1 .. i - 1 : ~Welcomes(j)
             /\ Count(replies, i) = tally.extra

MessagesIInv ==
  /\ board \in Board /\ lines \in Seq(Sent) /\ replies \in Seq(Message)
  /\ client \in [connected : BOOLEAN, pending : Nat, dead : BOOLEAN]
  /\ tally \in [lost : Nat, extra : Nat, sent : Nat, aborts : Nat]
  /\ ~client.connected => Expectant
  /\ client.connected => board.state # "off"
  /\ client.connected /\ ~client.dead =>
       client.pending + tally.extra = Count(replies, 0) + Len(lines) + tally.lost
  /\ client.dead => tally.extra > tally.lost + Len(lines)

LEMMA MessagesInitIInv == MessagesInit => MessagesIInv
<1> SUFFICES ASSUME MessagesInit PROVE MessagesIInv
  OBVIOUS
<1>1. "" \in Lawful
  BY FixedRemarks
<1>2. Off \in Board
  BY <1>1 DEF Off, Board
<1>3. << >> \in Seq(Message) /\ << >> \in Seq(Sent)
  OBVIOUS
<1>4. Expectant
  BY DEF MessagesInit, Expectant, Off
<1>5. /\ client \in [connected : BOOLEAN, pending : Nat, dead : BOOLEAN]
      /\ tally \in [lost : Nat, extra : Nat, sent : Nat, aborts : Nat]
      /\ ~client.connected /\ ~client.dead
  BY DEF MessagesInit
<1>6. board \in Board /\ lines \in Seq(Sent) /\ replies \in Seq(Message)
  BY <1>2, <1>3 DEF MessagesInit
<1> QED BY <1>4, <1>5, <1>6 DEF MessagesIInv

(* A line is taken and answered, with out and as many answers to no line. *)
LEMMA SaysKeeps ==
  ASSUME MessagesIInv, lines # << >>, board' \in Board, board'.state # "off",
         NEW out \in Seq(Message), NEW extra \in Nat, Count(out, 0) = extra,
         NEW status_code \in 0 .. 255, Says(out, status_code), Unmatched(extra)
  PROVE  MessagesIInv'
<1> DEFINE m == report_status_message(status_code)
           all == Append(out, m)
<1>1. m \in Message /\ IsAnswer(m)
  BY StatusAnswers
<1>2. /\ lines' = Tail(lines) /\ replies' = replies \o all /\ client' = client
      /\ tally' = [tally EXCEPT !.extra = @ + extra]
  BY DEF Says, Unmatched
<1> HIDE DEF m
<1>3. all \in Seq(Message) /\ Count(all, 0) = extra + 1
  <2>1. 0 \in 0 .. Len(out)
    OBVIOUS
  <2> QED BY <1>1, <2>1, CountOfAppend
<1> HIDE DEF all
<1>4. replies \in Seq(Message) /\ 0 \in 0 .. Len(replies)
  BY DEF MessagesIInv
<1>5. replies' \in Seq(Message) /\ Count(replies', 0) = Count(replies, 0) + extra + 1
      /\ Count(replies, 0) \in Nat
  BY <1>2, <1>3, <1>4, CountOfBoth, AnswersFinite
<1>6. lines' \in Seq(Sent) /\ Len(lines') = Len(lines) - 1 /\ Len(lines) \in Nat
  BY <1>2 DEF MessagesIInv
<1>7. client.connected
  BY DEF MessagesIInv, Expectant
<1>8. /\ tally \in [lost : Nat, extra : Nat, sent : Nat, aborts : Nat]
      /\ client \in [connected : BOOLEAN, pending : Nat, dead : BOOLEAN]
      /\ ~client.dead =>
           client.pending + tally.extra = Count(replies, 0) + Len(lines) + tally.lost
      /\ client.dead => tally.extra > tally.lost + Len(lines)
  BY <1>7 DEF MessagesIInv
<1>9. /\ tally' \in [lost : Nat, extra : Nat, sent : Nat, aborts : Nat]
      /\ tally'.lost = tally.lost /\ tally'.extra = tally.extra + extra
  <2>1. tally.extra + extra \in Nat
    BY <1>8
  <2> QED BY <1>2, <1>8, <2>1
<1>10. /\ ~client'.dead =>
            client'.pending + tally'.extra = Count(replies', 0) + Len(lines') + tally'.lost
       /\ client'.dead => tally'.extra > tally'.lost + Len(lines')
  <2>1. tally.extra \in Nat /\ tally.lost \in Nat /\ client.pending \in Nat
    BY <1>8
  <2>2. client' = client
    BY <1>2
  <2>3. ASSUME ~client'.dead
        PROVE  client'.pending + tally'.extra
                 = Count(replies', 0) + Len(lines') + tally'.lost
    <3>1. client.pending + tally.extra = Count(replies, 0) + Len(lines) + tally.lost
      BY <1>8, <2>2, <2>3
    <3>2. /\ Count(replies', 0) = Count(replies, 0) + extra + 1
          /\ Count(replies, 0) \in Nat
          /\ Len(lines') = Len(lines) - 1 /\ Len(lines) \in Nat
          /\ tally'.lost = tally.lost /\ tally'.extra = tally.extra + extra
          /\ client'.pending = client.pending
      BY <1>5, <1>6, <1>9, <2>2
    <3> DEFINE p == client.pending
               x == tally.extra
               c == Count(replies, 0)
               n == Len(lines)
               l == tally.lost
    <3>3. p \in Nat /\ x \in Nat /\ c \in Nat /\ n \in Nat /\ l \in Nat
      BY <2>1, <3>2
    <3>4. p + x = c + n + l
      BY <3>1
    <3> HIDE DEF p, x, c, n, l
    <3>5. p + (x + extra) = (c + extra + 1) + (n - 1) + l
      BY <3>3, <3>4
    <3> USE DEF p, x, c, n, l
    <3> QED BY <3>2, <3>5
  <2>4. ASSUME client'.dead PROVE tally'.extra > tally'.lost + Len(lines')
    <3>1. tally.extra > tally.lost + Len(lines)
      BY <1>8, <2>2, <2>4
    <3>2. /\ Len(lines') = Len(lines) - 1 /\ Len(lines) \in Nat
          /\ tally'.lost = tally.lost /\ tally'.extra = tally.extra + extra
      BY <1>6, <1>9
    <3> DEFINE x == tally.extra  n == Len(lines)  l == tally.lost
    <3>3. x \in Nat /\ n \in Nat /\ l \in Nat /\ x > l + n
      BY <2>1, <3>1, <3>2
    <3> HIDE DEF x, n, l
    <3>4. x + extra > l + (n - 1)
      BY <3>3
    <3> USE DEF x, n, l
    <3> QED BY <3>2, <3>4
  <2> QED BY <2>3, <2>4
<1> QED BY <1>2, <1>5, <1>6, <1>7, <1>8, <1>9, <1>10 DEF MessagesIInv

LEMMA SilentOrOne ==
  /\ << >> \in Seq(Message) /\ Count(<< >>, 0) = 0
  /\ \A m : Remark(m) => <<m>> \in Seq(Message) /\ Count(<<m>>, 0) = 0
<1>1. << >> \in Seq(Message) /\ Count(<< >>, 0) = 0
  <2>1. << >> \in Seq(Message) /\ \A i \in DOMAIN << >> : Remark(<< >>[i])
    OBVIOUS
  <2> QED BY <2>1, RemarksCountNothing
<1>2. ASSUME NEW m, Remark(m) PROVE <<m>> \in Seq(Message) /\ Count(<<m>>, 0) = 0
  <2>1. m \in Message /\ ~IsAnswer(m)
    BY <1>2 DEF Remark
  <2> QED BY <2>1, CountOfOne
<1> QED BY <1>1, <1>2

LEMMA TwoRemarks ==
  ASSUME NEW x, NEW y, x \in Message, y \in Message
  PROVE  /\ <<x, y>> \in Seq(Message)
         /\ Count(<<x, y>>, 0) = (IF IsAnswer(x) THEN 1 ELSE 0)
                                 + (IF IsAnswer(y) THEN 1 ELSE 0)
<1>1. <<x>> \in Seq(Message) /\ <<x, y>> = Append(<<x>>, y) /\ 0 \in 0 .. Len(<<x>>)
  OBVIOUS
<1>2. Count(Append(<<x>>, y), 0) = Count(<<x>>, 0) + IF IsAnswer(y) THEN 1 ELSE 0
  BY <1>1, CountOfAppend
<1>3. Count(<<x>>, 0) = IF IsAnswer(x) THEN 1 ELSE 0
  BY CountOfOne
<1>4. <<x, y>> \in Seq(Message)
  OBVIOUS
<1>5. Count(<<x, y>>, 0) = Count(<<x>>, 0) + IF IsAnswer(y) THEN 1 ELSE 0
  BY <1>1, <1>2, Zenon
<1> QED BY <1>3, <1>4, <1>5, Zenon

(* Lines that leave the board as it is. *)
LEMMA PrintsKeeps ==
  ASSUME MessagesIInv, NEW kind, Takes(kind), UNCHANGED board,
         NEW out \in Seq(Message), Count(out, 0) = 0, NEW status_code \in 0 .. 255,
         Says(out, status_code), Unmatched(0)
  PROVE  MessagesIInv'
<1>1. board' \in Board /\ board'.state # "off" /\ lines # << >> /\ 0 \in Nat
  BY DEF MessagesIInv, Takes
<1> QED BY <1>1, SaysKeeps

LEMMA PlainKeeps == ASSUME MessagesIInv, Plain PROVE MessagesIInv'
<1>1. STATUS_OK \in 0 .. 255 /\ STATUS_OVERFLOW \in 0 .. 255
  BY StatusesFit
<1>2. \A out \in {<< >>, <<report_grbl_help>>, <<report_grbl_settings>>,
                  <<report_gcode_modes>>} : out \in Seq(Message) /\ Count(out, 0) = 0
  BY SilentOrOne, FixedRemarks
<1>3. ASSUME NEW kind, Takes(kind), NEW status_code \in {STATUS_OK, STATUS_OVERFLOW},
             NEW out \in {<< >>, <<report_grbl_help>>, <<report_grbl_settings>>,
                          <<report_gcode_modes>>},
             Says(out, status_code), Unmatched(0), UNCHANGED board
      PROVE  MessagesIInv'
  <2>1. out \in Seq(Message) /\ Count(out, 0) = 0 /\ status_code \in 0 .. 255
    BY <1>1, <1>2
  <2> QED BY <1>3, <2>1, PrintsKeeps
<1>4. CASE Takes("") /\ Prints(<< >>)
  BY <1>3, <1>4 DEF Prints
<1>5. CASE Takes("long") /\ Refuses(STATUS_OVERFLOW)
  BY <1>3, <1>5 DEF Refuses
<1>6. CASE Takes("$") /\ Prints(<<report_grbl_help>>)
  BY <1>3, <1>6 DEF Prints
<1>7. CASE Takes("$$") /\ Prints(<<report_grbl_settings>>)
  BY <1>3, <1>7 DEF Prints
<1>8. CASE Takes("$G") /\ Prints(<<report_gcode_modes>>)
  BY <1>3, <1>8 DEF Prints
<1> QED BY <1>4, <1>5, <1>6, <1>7, <1>8 DEF Plain

LEMMA RefusesKeeps ==
  ASSUME MessagesIInv, NEW kind, Takes(kind), NEW status_code \in 0 .. 255,
         Refuses(status_code)
  PROVE  MessagesIInv'
BY SilentOrOne, PrintsKeeps DEF Refuses

(* Lines that change the board and print a remark or nothing. *)
LEMMA ChangesKeeps ==
  ASSUME MessagesIInv, NEW kind, Takes(kind), board' \in Board, board'.state # "off",
         NEW out, out = << >> \/ \E m : Remark(m) /\ out = <<m>>,
         NEW status_code \in 0 .. 255, Says(out, status_code), Unmatched(0)
  PROVE  MessagesIInv'
<1>1. out \in Seq(Message) /\ Count(out, 0) = 0 /\ 0 \in Nat /\ lines # << >>
  BY SilentOrOne DEF Takes
<1> QED BY <1>1, SaysKeeps

LEMMA TextFits ==
  ASSUME MessagesIInv, lines # << >> PROVE Text \in Token
<1>1. Head(lines) \in Sent
  BY DEF MessagesIInv
<1> QED BY <1>1, SentIsToken DEF Text

LEMMA GCodeKeeps == ASSUME MessagesIInv, GCode PROVE MessagesIInv'
<1>1. Takes("gcode") /\ STATUS_SYSTEM_GC_LOCK \in 0 .. 255
  BY StatusesFit DEF GCode
<1>2. CASE board.state = "ALARM"
  BY <1>1, <1>2, RefusesKeeps DEF GCode
<1>3. CASE board.state # "ALARM"
  <2>1. /\ board' = [board EXCEPT !.feed = HasFeed(Text, board.feed)]
        /\ Says(<< >>, GcStatus(Text, board.feed)) /\ Unmatched(0)
    BY <1>3 DEF GCode
  <2>2. board \in Board /\ board.feed \in BOOLEAN /\ board.state # "off"
    BY <1>1 DEF MessagesIInv, Board, Takes
  <2>3. HasFeed(Text, board.feed) \in BOOLEAN
    BY <2>2, FeedFits
  <2>4. board' \in Board /\ board'.state # "off"
    BY <2>1, <2>2, <2>3 DEF Board
  <2>5. GcStatus(Text, board.feed) \in 0 .. 255
    BY StatusesFit
  <2> QED BY <1>1, <2>1, <2>4, <2>5, ChangesKeeps
<1> QED BY <1>2, <1>3

LEMMA LockKeeps ==
  ASSUME MessagesIInv, DisableAlarmLock \/ ToggleCheckMode PROVE MessagesIInv'
<1>1. STATUS_OK \in 0 .. 255 /\ STATUS_IDLE_ERROR \in 0 .. 255
  BY StatusesFit
<1>2. \A text \in {"Caution: Unlocked", "Disabled", "Enabled"} :
        Remark(report_feedback_message(text))
  BY LiteralsAreLawful, FixedRemarks DEF Literals
<1>3. board \in Board
  BY DEF MessagesIInv
<1>4. ASSUME NEW kind, Takes(kind), NEW text \in {"Caution: Unlocked", "Disabled", "Enabled"},
             Says(<<report_feedback_message(text)>>, STATUS_OK), Unmatched(0),
             board' \in {[board EXCEPT !.state = "IDLE"], [board EXCEPT !.reset = TRUE],
                         [board EXCEPT !.state = "CHECK"]}
      PROVE  MessagesIInv'
  <2>1. board' \in Board /\ board'.state # "off"
    BY <1>3, <1>4 DEF Board, Takes
  <2> QED BY <1>1, <1>2, <1>4, <2>1, ChangesKeeps
<1>5. CASE DisableAlarmLock
  <2>1. CASE board.state = "ALARM"
    BY <1>4, <1>5, <2>1 DEF DisableAlarmLock
  <2>2. CASE board.state # "ALARM"
    BY <1>1, <1>5, <2>2, SilentOrOne, PrintsKeeps DEF DisableAlarmLock, Prints
  <2> QED BY <2>1, <2>2
<1>6. CASE ToggleCheckMode
  <2>1. CASE board.state = "CHECK"
    BY <1>4, <1>6, <2>1 DEF ToggleCheckMode
  <2>2. CASE board.state = "IDLE"
    BY <1>4, <1>6, <2>2 DEF ToggleCheckMode
  <2>3. CASE board.state \notin {"CHECK", "IDLE"}
    BY <1>1, <1>6, <2>3, RefusesKeeps DEF ToggleCheckMode
  <2> QED BY <2>1, <2>2, <2>3
<1> QED BY <1>5, <1>6

LEMMA NotIdleKeeps == ASSUME MessagesIInv, NotIdle PROVE MessagesIInv'
<1>1. STATUS_IDLE_ERROR \in 0 .. 255
  BY StatusesFit
<1> QED BY <1>1, RefusesKeeps DEF NotIdle

LEMMA ParametersKeep == ASSUME MessagesIInv, report_ngc_parameters PROVE MessagesIInv'
<1> DEFINE out == NgcParameters(board.unreadable)
           extra == IF FirstOf(board.unreadable) = {} THEN 0 ELSE 1
<1>1. board \in Board /\ board.unreadable \in SUBSET EepromRecords /\ lines # << >>
      /\ board.state # "off"
  BY DEF MessagesIInv, Board, report_ngc_parameters, TakesIdle, Takes
<1>2. out \in Seq(Message) /\ Count(out, 0) = extra
  BY <1>1, ParametersCount
<1>3. /\ board' = Repaired(board, FirstOf(board.unreadable))
      /\ Says(out, STATUS_OK) /\ Unmatched(extra)
  BY DEF report_ngc_parameters
<1>4. board' \in Board /\ board'.state # "off"
  BY <1>1, <1>3, RepairedFits
<1>5. extra \in Nat /\ STATUS_OK \in 0 .. 255
  BY StatusesFit
<1> HIDE DEF out, extra
<1> QED BY <1>1, <1>2, <1>3, <1>4, <1>5, SaysKeeps

LEMMA PrintStartupKeeps == ASSUME MessagesIInv, PrintStartupLines PROVE MessagesIInv'
<1> DEFINE failing == LineRecords \cap board.unreadable
           Line(n) == IF <<"line", n>> \in failing THEN ReadFail
                      ELSE report_startup_line(n, board.startup[n])
           out == <<Line(0), Line(1)>>
<1>1. board \in Board /\ lines # << >> /\ board.state # "off"
  BY DEF MessagesIInv, PrintStartupLines, TakesIdle, Takes
<1>2. /\ board' = Repaired(board, failing) /\ Says(out, STATUS_OK)
      /\ Unmatched(Cardinality(failing))
  BY DEF PrintStartupLines
<1>3. LineRecords = {<<"line", 0>>, <<"line", 1>>}
  <2>1. StartupLines = {0, 1}
    BY DEF StartupLines
  <2> QED BY <2>1 DEF LineRecords
<1>4. ASSUME NEW n \in StartupLines
      PROVE  Line(n) \in Message /\ (IsAnswer(Line(n)) <=> <<"line", n>> \in failing)
  <2>1. board.startup[n] \in Lawful /\ n \in 0 .. 255
    BY <1>1 DEF Board, StartupLines
  <2>2. Remark(report_startup_line(n, board.startup[n]))
    BY <2>1, FixedRemarks
  <2> QED BY <2>2, ReadFailAnswers DEF Remark
<1>5. Line(0) \in Message /\ (IsAnswer(Line(0)) <=> <<"line", 0>> \in failing)
      /\ Line(1) \in Message /\ (IsAnswer(Line(1)) <=> <<"line", 1>> \in failing)
  <2>1. 0 \in StartupLines /\ 1 \in StartupLines
    BY DEF StartupLines
  <2> HIDE DEF Line, failing
  <2> QED BY <1>4, <2>1
<1>6. Cardinality(failing) = (IF <<"line", 0>> \in failing THEN 1 ELSE 0)
                             + (IF <<"line", 1>> \in failing THEN 1 ELSE 0)
  <2> DEFINE a == <<"line", 0>>
             b == <<"line", 1>>
  <2>1. a # b /\ failing \subseteq {a, b}
    BY <1>3
  <2> HIDE DEF a, b, failing
  <2>2. Cardinality({}) = 0 /\ Cardinality({a}) = 1 /\ Cardinality({b}) = 1
    BY FS_EmptySet, FS_Singleton
  <2>3. Cardinality({a, b}) = 2
    <3>1. IsFiniteSet({a}) /\ Cardinality({a}) = 1 /\ b \notin {a} /\ {a, b} = {a} \cup {b}
      BY <2>1, FS_Singleton
    <3> QED BY <3>1, FS_AddElement
  <2>4. \/ failing = {} \/ failing = {a} \/ failing = {b} \/ failing = {a, b}
    BY <2>1
  <2>5. CASE failing = {}
    BY <2>2, <2>5 DEF a, b
  <2>6. CASE failing = {a}
    BY <2>1, <2>2, <2>6 DEF a, b
  <2>7. CASE failing = {b}
    BY <2>1, <2>2, <2>7 DEF a, b
  <2>8. CASE failing = {a, b}
    BY <2>1, <2>3, <2>8 DEF a, b
  <2> QED BY <2>4, <2>5, <2>6, <2>7, <2>8
<1> HIDE DEF Line, failing
<1>7. out \in Seq(Message) /\ Count(out, 0) = Cardinality(failing)
      /\ Cardinality(failing) \in Nat
  BY <1>5, <1>6, TwoRemarks
<1>8. board' \in Board /\ board'.state # "off"
  BY <1>1, <1>2, RepairedFits
<1>9. STATUS_OK \in 0 .. 255
  BY StatusesFit
<1> HIDE DEF out
<1> QED BY <1>1, <1>2, <1>7, <1>8, <1>9, SaysKeeps

LEMMA StoreLineKeeps == ASSUME MessagesIInv, StoreStartupLine PROVE MessagesIInv'
<1> DEFINE status == GcStatus(Text, board.feed)
           ran == [board EXCEPT !.feed = HasFeed(Text, board.feed)]
<1>1. Takes("$N0=") /\ STATUS_IDLE_ERROR \in 0 .. 255 /\ lines # << >>
  BY StatusesFit DEF StoreStartupLine, TakesIdle, Takes
<1>2. CASE board.state # "IDLE"
  BY <1>1, <1>2, RefusesKeeps DEF StoreStartupLine
<1>3. CASE board.state = "IDLE"
  <2>1. board \in Board /\ board.feed \in BOOLEAN
    BY DEF MessagesIInv, Board
  <2>2. HasFeed(Text, board.feed) \in BOOLEAN
    BY <2>1, FeedFits
  <2>3. ran \in Board /\ ran.state = "IDLE"
    BY <1>3, <2>1, <2>2 DEF Board
  <2>4. /\ board' = IF status # STATUS_OK THEN ran
                    ELSE [ran EXCEPT !.startup[0] = Text,
                                     !.unreadable = @ \ {<<"line", 0>>}]
        /\ Says(<< >>, status) /\ Unmatched(0)
    BY <1>3 DEF StoreStartupLine
  <2>5. status \in 0 .. 255 /\ (status = STATUS_OK => Text \in Lawful)
    <3>1. status = STATUS_OK => Text \in {"G1F1", "G1X1"}
      BY StatusesFit
    <3>2. "G1F1" \in Lawful /\ "G1X1" \in Lawful
      BY LiteralsAreLawful DEF Literals
    <3> QED BY <3>1, <3>2, StatusesFit
  <2> HIDE DEF ran, status
  <2>6. board' \in Board /\ board'.state # "off"
    BY <2>3, <2>4, <2>5 DEF Board, StartupLines
  <2> QED BY <1>1, <2>4, <2>5, <2>6, ChangesKeeps
<1> QED BY <1>2, <1>3

LEMMA BuildInfoKeeps ==
  ASSUME MessagesIInv, PrintBuildInfo \/ StoreBuildInfo PROVE MessagesIInv'
<1>0. STATUS_OK \in 0 .. 255 /\ board \in Board /\ lines # << >> /\ board.state # "off"
  BY StatusesFit DEF MessagesIInv, PrintBuildInfo, StoreBuildInfo, TakesIdle, Takes
<1>1. CASE PrintBuildInfo
  <2>1. /\ board' = Repaired(board, {<<"info", 0>>} \cap board.unreadable)
        /\ Says(report_build_info(board'.info), STATUS_OK) /\ Unmatched(0)
    BY <1>1 DEF PrintBuildInfo
  <2>2. board' \in Board /\ board'.state # "off"
    BY <1>0, <2>1, RepairedFits
  <2>3. board'.info \in Lawful
    BY <2>2 DEF Board
  <2> DEFINE x == <<"[VER:", board'.info, "]">>
             y == <<"[OPT:", "]">>
  <2>4. Remark(x) /\ Remark(y)
    BY <2>3, FixedRemarks
  <2>5. report_build_info(board'.info) = <<x, y>>
    BY DEF report_build_info
  <2> HIDE DEF x, y
  <2>6. <<x, y>> \in Seq(Message) /\ Count(<<x, y>>, 0) = 0
    BY <2>4, TwoRemarks DEF Remark
  <2>7. 0 \in Nat
    OBVIOUS
  <2> QED BY <1>0, <2>1, <2>2, <2>5, <2>6, <2>7, SaysKeeps
<1>2. CASE StoreBuildInfo
  <2>1. /\ board' = [board EXCEPT !.info = Upcase(Text),
                                  !.unreadable = @ \ {<<"info", 0>>}]
        /\ Says(<< >>, STATUS_OK) /\ Unmatched(0) /\ Takes("$I=")
    BY <1>2 DEF StoreBuildInfo, TakesIdle
  <2>2. Upcase(Text) \in Lawful
    <3>1. Text \in Token
      BY <1>0, TextFits
    <3>2. "ERROR:" \in Lawful
      BY LiteralsAreLawful DEF Literals
    <3> QED BY <3>1, <3>2 DEF Upcase, Lawful
  <2>3. board' \in Board /\ board'.state # "off"
    BY <1>0, <2>1, <2>2 DEF Board
  <2> QED BY <1>0, <2>1, <2>3, ChangesKeeps
<1> QED BY <1>1, <1>2

LEMMA RestoreKeeps == ASSUME MessagesIInv, RestoreEverything PROVE MessagesIInv'
<1>1. STATUS_OK \in 0 .. 255 /\ board \in Board /\ board.state # "off" /\ Takes("$RST=*")
  BY StatusesFit DEF MessagesIInv, RestoreEverything, TakesIdle, Takes
<1>2. PICK b \in Restored(board) : board' = [b EXCEPT !.reset = TRUE]
  BY DEF RestoreEverything
<1>3. b \in Board /\ b.state = board.state
  BY <1>1, RestoredFits
<1>4. board' \in Board /\ board'.state # "off"
  BY <1>1, <1>2, <1>3 DEF Board
<1>5. Remark(report_feedback_message("Restoring defaults"))
  BY LiteralsAreLawful, FixedRemarks DEF Literals
<1> QED BY <1>1, <1>4, <1>5, ChangesKeeps DEF RestoreEverything

LEMMA HomingKeeps == ASSUME MessagesIInv, HomingCommand PROVE MessagesIInv'
<1> DEFINE ran == system_execute_startup(board, board.feed)
<1>1. /\ STATUS_OK \in 0 .. 255 /\ STATUS_SETTING_DISABLED \in 0 .. 255
      /\ board \in Board /\ board.feed \in BOOLEAN /\ Takes("$H") /\ lines # << >>
  BY StatusesFit DEF MessagesIInv, Board, HomingCommand, TakesIdle, Takes
<1>2. CASE Refuses(STATUS_SETTING_DISABLED)
  BY <1>1, <1>2, RefusesKeeps
<1>3. CASE /\ board' = [AfterStartup(board, board.feed) EXCEPT !.state = "IDLE"]
           /\ Says(ran.out, STATUS_OK) /\ Unmatched(ran.extra)
  <2>1. ran.out \in Seq(Message) /\ ran.extra \in Nat /\ Count(ran.out, 0) = ran.extra
    BY <1>1, StartupCounts DEF Counted, Turn
  <2>2. AfterStartup(board, board.feed) \in Board
    BY <1>1, AfterStartupFits
  <2>3. board' \in Board /\ board'.state # "off"
    BY <1>3, <2>2 DEF Board
  <2> HIDE DEF ran
  <2> QED BY <1>1, <1>3, <2>1, <2>3, SaysKeeps
<1>4. CASE /\ board' = [board EXCEPT !.state = "ALARM", !.reset = TRUE]
           /\ Says(<<report_alarm_message(ALARM.homing_fail_pulloff)>>, STATUS_OK)
           /\ Unmatched(0)
  <2>1. board' \in Board /\ board'.state # "off"
    BY <1>1, <1>4 DEF Board
  <2>2. ALARM.homing_fail_pulloff \in 0 .. 255
    BY DEF ALARM
  <2>3. Remark(report_alarm_message(ALARM.homing_fail_pulloff))
    BY <2>2, FixedRemarks
  <2> QED BY <1>1, <1>4, <2>1, <2>3, ChangesKeeps
<1> QED BY <1>2, <1>3, <1>4 DEF HomingCommand

(* A welcome message keeps its place when more is said. *)
LEMMA WelcomeStays ==
  ASSUME NEW out \in Seq(Message), replies \in Seq(Message), replies' = replies \o out,
         NEW i \in DOMAIN replies, Welcomes(i), \A j \in 1 .. i - 1 : ~Welcomes(j)
  PROVE  /\ i \in DOMAIN replies' /\ Welcomes(i)'
         /\ \A j \in 1 .. i - 1 : ~Welcomes(j)'
         /\ Count(replies', i) = Count(replies, i) + Count(out, 0)
<1>1. /\ Len(replies) \in Nat /\ Len(out) \in Nat /\ i \in 1 .. Len(replies)
      /\ Len(replies') = Len(replies) + Len(out) /\ DOMAIN replies' = 1 .. Len(replies')
      /\ \A k \in 1 .. Len(replies) : replies'[k] = replies[k]
  OBVIOUS
<1>2. i \in 0 .. Len(replies)
  BY <1>1
<1>3. Count(replies', i) = Count(replies, i) + Count(out, 0)
  BY <1>2, CountOfBoth
<1>4. i \in DOMAIN replies' /\ \A j \in 1 .. i : j \in 1 .. Len(replies)
  BY <1>1
<1>5. \A j \in 1 .. i - 1 : j \in 1 .. i
  BY <1>1
<1> QED BY <1>1, <1>3, <1>4, <1>5 DEF Welcomes

LEMMA ReplyFacts ==
  ASSUME MessagesIInv
  PROVE  /\ replies \in Seq(Message) /\ 0 \in 0 .. Len(replies) /\ Count(replies, 0) \in Nat
         /\ Len(lines) \in Nat
<1>1. replies \in Seq(Message) /\ lines \in Seq(Sent) /\ 0 \in Nat
  BY DEF MessagesIInv
<1>2. Count(replies, 0) \in Nat
  BY <1>1, AnswersFinite
<1> QED BY <1>1, <1>2

LEMMA AbortSays ==
  ASSUME MessagesIInv, board.state # "off", NEW out \in Seq(Message), Count(out, 0) = 0,
         NEW state \in {"off", "IDLE", "ALARM", "CHECK"}, state # "off",
         board' = [board EXCEPT !.reset = TRUE, !.state = state],
         replies' = replies \o out,
         tally' = [tally EXCEPT !.aborts = @ + 1], UNCHANGED <<lines, client>>
  PROVE  MessagesIInv'
<1>1. board' \in Board /\ board'.state # "off"
  BY DEF MessagesIInv, Board
<1>2. replies' \in Seq(Message) /\ Count(replies', 0) = Count(replies, 0)
  <2>1. replies \in Seq(Message) /\ 0 \in 0 .. Len(replies) /\ Count(replies, 0) \in Nat
    BY ReplyFacts
  <2>2. Count(replies \o out, 0) = Count(replies, 0) + Count(out, 0)
    BY <2>1, CountOfBoth
  <2>3. Count(replies \o out, 0) = Count(replies, 0)
    BY <2>1, <2>2
  <2>4. replies \o out \in Seq(Message)
    BY <2>1
  <2> QED BY <2>3, <2>4, Zenon
<1>3. tally' \in [lost : Nat, extra : Nat, sent : Nat, aborts : Nat]
      /\ tally'.lost = tally.lost /\ tally'.extra = tally.extra /\ tally.extra \in Nat
  <2>1. tally \in [lost : Nat, extra : Nat, sent : Nat, aborts : Nat]
    BY DEF MessagesIInv
  <2>2. tally.aborts + 1 \in Nat
    BY <2>1
  <2> QED BY <2>1, <2>2
<1>4. ASSUME ~client.connected PROVE Expectant'
  <2>1. Expectant
    BY <1>4 DEF MessagesIInv
  <2>2. PICK i \in DOMAIN replies :
          /\ Welcomes(i) /\ \A j \in 1 .. i - 1 : ~Welcomes(j)
          /\ Count(replies, i) = tally.extra
    BY <2>1 DEF Expectant
  <2>3. /\ i \in DOMAIN replies' /\ Welcomes(i)'
        /\ \A j \in 1 .. i - 1 : ~Welcomes(j)'
        /\ Count(replies', i) = Count(replies, i) + 0
    BY <2>2, WelcomeStays, ReplyFacts
  <2>4. Count(replies', i) = tally'.extra
    <3>1. tally.extra + 0 = tally.extra
      BY <1>3
    <3> QED BY <1>3, <2>2, <2>3, <3>1, Zenon
  <2>5. ~client'.dead /\ client'.pending = 0 /\ lines' = << >> /\ tally'.lost = 0
    BY <1>3, <2>1 DEF Expectant
  <2> QED BY <1>1, <2>3, <2>4, <2>5 DEF Expectant
<1> QED BY <1>1, <1>2, <1>3, <1>4 DEF MessagesIInv

LEMMA AbortKeeps == ASSUME MessagesIInv, Abort PROVE MessagesIInv'
<1>1. ALARM.abort_cycle \in 0 .. 255 /\ ALARM.hard_limit \in 0 .. 255
  BY DEF ALARM
<1> DEFINE x == report_alarm_message(ALARM.hard_limit)
           y == report_feedback_message("Reset to continue")
           z == report_alarm_message(ALARM.abort_cycle)
<1>2. Remark(x) /\ Remark(y) /\ Remark(z)
  BY <1>1, LiteralsAreLawful, FixedRemarks DEF Literals
<1>3. /\ tally' = [tally EXCEPT !.aborts = @ + 1] /\ UNCHANGED <<lines, client>>
      /\ board.state # "off" /\ board.state \in {"off", "IDLE", "ALARM", "CHECK"}
  BY DEF MessagesIInv, Board, Abort
<1>4. /\ << >> \in Seq(Message) /\ Count(<< >>, 0) = 0
      /\ <<z>> \in Seq(Message) /\ Count(<<z>>, 0) = 0
  BY <1>2, SilentOrOne
<1>5. <<x, y>> \in Seq(Message) /\ Count(<<x, y>>, 0) = 0
  <2> HIDE DEF x, y, z
  <2>1. x \in Message /\ y \in Message /\ ~IsAnswer(x) /\ ~IsAnswer(y)
    BY <1>2 DEF Remark
  <2> QED BY <2>1, TwoRemarks
<1>6. \/ replies' = replies \o << >>
         /\ board' = [board EXCEPT !.reset = TRUE, !.state = board.state]
      \/ replies' = replies \o <<z>>
         /\ board' = [board EXCEPT !.reset = TRUE, !.state = "ALARM"]
      \/ replies' = replies \o <<x, y>>
         /\ board' = [board EXCEPT !.reset = TRUE, !.state = "ALARM"]
  <2>1. <<z>> # << >> /\ <<x, y>> # << >>
    OBVIOUS
  <2> QED BY <2>1 DEF Abort
<1> HIDE DEF x, y, z
<1>7. CASE replies' = replies \o << >>
           /\ board' = [board EXCEPT !.reset = TRUE, !.state = board.state]
  BY <1>3, <1>4, <1>7, AbortSays
<1>8. CASE replies' = replies \o <<z>>
           /\ board' = [board EXCEPT !.reset = TRUE, !.state = "ALARM"]
  BY <1>3, <1>4, <1>8, AbortSays
<1>9. CASE replies' = replies \o <<x, y>>
           /\ board' = [board EXCEPT !.reset = TRUE, !.state = "ALARM"]
  BY <1>3, <1>5, <1>9, AbortSays
<1> QED BY <1>6, <1>7, <1>8, <1>9

LEMMA SendKeeps == ASSUME MessagesIInv, SendLine PROVE MessagesIInv'
<1>1. PICK l \in Sent : lines' = Append(lines, l)
  BY DEF SendLine
<1>2. /\ client.connected /\ ~client.dead /\ UNCHANGED <<board, replies>>
      /\ client' = [client EXCEPT !.pending = client.pending + 1]
      /\ tally' = [tally EXCEPT !.sent = tally.sent + 1]
  BY DEF SendLine
<1>3. /\ lines' \in Seq(Sent) /\ Len(lines') = Len(lines) + 1
  BY <1>1 DEF MessagesIInv
<1>4. /\ client' \in [connected : BOOLEAN, pending : Nat, dead : BOOLEAN]
      /\ client'.connected = client.connected /\ client'.dead = client.dead
      /\ client'.pending = client.pending + 1 /\ client.pending \in Nat
  <2>1. client \in [connected : BOOLEAN, pending : Nat, dead : BOOLEAN]
    BY DEF MessagesIInv
  <2>2. client.pending + 1 \in Nat
    BY <2>1
  <2> QED BY <1>2, <2>1, <2>2
<1>5. /\ tally' \in [lost : Nat, extra : Nat, sent : Nat, aborts : Nat]
      /\ tally'.lost = tally.lost /\ tally'.extra = tally.extra
      /\ tally.lost \in Nat /\ tally.extra \in Nat
  <2>1. tally \in [lost : Nat, extra : Nat, sent : Nat, aborts : Nat]
    BY DEF MessagesIInv
  <2>2. tally.sent + 1 \in Nat
    BY <2>1
  <2> QED BY <1>2, <2>1, <2>2
<1>6. client'.pending + tally'.extra = Count(replies', 0) + Len(lines') + tally'.lost
  <2> DEFINE p == client.pending
             x == tally.extra
             c == Count(replies, 0)
             n == Len(lines)
             l0 == tally.lost
  <2>1. p \in Nat /\ x \in Nat /\ c \in Nat /\ n \in Nat /\ l0 \in Nat
    BY <1>4, <1>5, ReplyFacts
  <2>2. p + x = c + n + l0
    BY <1>2 DEF MessagesIInv
  <2>3. /\ client'.pending = p + 1 /\ tally'.extra = x /\ Count(replies', 0) = c
        /\ Len(lines') = n + 1 /\ tally'.lost = l0
    BY <1>2, <1>3, <1>4, <1>5
  <2> HIDE DEF p, x, c, n, l0
  <2>4. (p + 1) + x = c + (n + 1) + l0
    BY <2>1, <2>2
  <2> QED BY <2>3, <2>4
<1>7. board' \in Board /\ board'.state # "off" /\ replies' \in Seq(Message)
  BY <1>2 DEF MessagesIInv
<1> QED BY <1>2, <1>3, <1>4, <1>5, <1>6, <1>7 DEF MessagesIInv

LEMMA ReadKeeps == ASSUME MessagesIInv, ReadMessage PROVE MessagesIInv'
<1>1. /\ replies # << >> /\ ~client.dead /\ replies' = Tail(replies)
      /\ UNCHANGED <<board, lines, tally>>
  BY DEF ReadMessage
<1>2. /\ replies \in Seq(Message) /\ replies' \in Seq(Message)
      /\ Len(replies) \in Nat /\ Len(replies') = Len(replies) - 1
      /\ DOMAIN replies = 1 .. Len(replies) /\ DOMAIN replies' = 1 .. Len(replies) - 1
      /\ Head(replies) = replies[1]
      /\ \A k \in 1 .. Len(replies) - 1 : replies'[k] = replies[k + 1]
  BY <1>1 DEF MessagesIInv
<1>3. /\ Count(replies, 0) = Count(replies', 0) + IF IsAnswer(Head(replies)) THEN 1 ELSE 0
      /\ Count(replies', 0) \in Nat
  <2>1. 0 \in Nat
    OBVIOUS
  <2>2. Count(replies', 0) \in Nat
    BY <1>2, <2>1, AnswersFinite
  <2>3. Count(replies, 0) = Count(Tail(replies), 0)
                              + IF IsAnswer(Head(replies)) THEN 1 ELSE 0
    BY <1>1, <1>2, CountOfHead
  <2> QED BY <1>1, <2>2, <2>3
<1>4. /\ board' \in Board /\ lines' \in Seq(Sent)
      /\ tally' \in [lost : Nat, extra : Nat, sent : Nat, aborts : Nat]
      /\ client \in [connected : BOOLEAN, pending : Nat, dead : BOOLEAN]
      /\ tally.extra \in Nat /\ tally.lost \in Nat /\ client.pending \in Nat
      /\ Len(lines) \in Nat
  BY <1>1 DEF MessagesIInv
<1>5. CASE ~client.connected
  <2>1. /\ Expectant
        /\ client' = [client EXCEPT !.connected = Head(replies) = report_init_message]
    BY <1>5 DEF MessagesIInv, ReadMessage
  <2>2. PICK i \in DOMAIN replies :
          /\ Welcomes(i) /\ \A j \in 1 .. i - 1 : ~Welcomes(j)
          /\ Count(replies, i) = tally.extra
    BY <1>1, <2>1 DEF Expectant
  <2>3. board.state # "off"
    BY <1>1, <2>1 DEF Expectant
  <2>4. CASE Head(replies) = report_init_message
    <3>1. i = 1
      <4>1. Welcomes(1)
        BY <1>2, <2>4 DEF Welcomes
      <4>2. i \in Nat /\ i >= 1 /\ (i > 1 => 1 \in 1 .. i - 1)
        BY <1>2
      <4> QED BY <2>2, <4>1, <4>2
    <3>2. 0 \in Nat /\ 0 + 1 = 1
      OBVIOUS
    <3>3. Count(replies', 0) = tally.extra
      BY <1>1, <1>2, <2>2, <3>1, <3>2, CountOfTail
    <3>4. /\ client' \in [connected : BOOLEAN, pending : Nat, dead : BOOLEAN]
          /\ client'.connected /\ ~client'.dead /\ client'.pending = 0
      BY <1>1, <1>4, <2>1, <2>4 DEF Expectant
    <3>5. lines' = << >> /\ Len(lines') = 0 /\ tally'.lost = 0 /\ tally' = tally
      BY <1>1, <2>1 DEF Expectant
    <3>6. client'.pending + tally'.extra = Count(replies', 0) + Len(lines') + tally'.lost
      BY <1>4, <3>3, <3>4, <3>5
    <3> QED BY <1>1, <1>2, <1>4, <2>3, <3>4, <3>6 DEF MessagesIInv
  <2>5. CASE Head(replies) # report_init_message
    <3>1. client' = client
      BY <1>4, <1>5, <2>1, <2>5
    <3>2. i # 1
      BY <1>2, <2>2, <2>5 DEF Welcomes
    <3>3. i - 1 \in DOMAIN replies' /\ i - 1 \in Nat /\ (i - 1) + 1 = i /\ i \in Nat
      BY <1>2, <3>2
    <3>4. Count(replies', i - 1) = tally.extra
      BY <1>1, <1>2, <2>2, <3>3, CountOfTail
    <3>5. Welcomes(i - 1)' /\ \A j \in 1 .. (i - 1) - 1 : ~Welcomes(j)'
      <4>1. replies'[i - 1] = replies[i]
        BY <1>2, <3>3
      <4>2. \A j \in 1 .. (i - 1) - 1 : /\ replies'[j] = replies[j + 1]
                                         /\ j + 1 \in 1 .. i - 1
        BY <1>2, <3>3
      <4> QED BY <2>2, <4>1, <4>2 DEF Welcomes
    <3>6. Expectant'
      BY <1>1, <2>1, <2>3, <3>1, <3>3, <3>4, <3>5 DEF Expectant
    <3> QED BY <1>1, <1>2, <1>4, <1>5, <3>1, <3>6 DEF MessagesIInv
  <2> QED BY <2>4, <2>5
<1>6. CASE client.connected
  <2> DEFINE p == client.pending
             x == tally.extra
             c == Count(replies', 0)
             n == Len(lines)
             l == tally.lost
  <2>1. p \in Nat /\ x \in Nat /\ c \in Nat /\ n \in Nat /\ l \in Nat
    BY <1>3, <1>4
  <2>2. p + x = Count(replies, 0) + n + l /\ board.state # "off"
    BY <1>1, <1>6 DEF MessagesIInv
  <2>3. tally'.extra = x /\ Len(lines') = n /\ tally'.lost = l /\ board'.state # "off"
    BY <1>1, <2>2
  <2>4. CASE ~IsAnswer(Head(replies))
    <3>1. client' = client /\ Count(replies, 0) = c + 0
      <4>1. client' = client
        BY <1>6, <2>4 DEF ReadMessage
      <4>2. Count(replies, 0) = Count(replies', 0) + 0
        BY <1>3, <2>4
      <4> QED BY <4>1, <4>2
    <3>2. client'.pending = p
      BY <3>1
    <3> HIDE DEF p, x, c, n, l
    <3>3. p + x = c + n + l
      BY <2>1, <2>2, <3>1
    <3>4. client'.pending + tally'.extra = c + Len(lines') + tally'.lost
      BY <2>3, <3>2, <3>3
    <3> USE DEF c
    <3> QED BY <1>1, <1>2, <1>4, <1>6, <2>3, <3>1, <3>4 DEF MessagesIInv
  <2>5. CASE IsAnswer(Head(replies)) /\ p = 0
    <3>1. client' = [client EXCEPT !.dead = TRUE] /\ Count(replies, 0) = c + 1
      BY <1>3, <1>6, <2>5 DEF ReadMessage
    <3>2. /\ client' \in [connected : BOOLEAN, pending : Nat, dead : BOOLEAN]
          /\ client'.connected /\ client'.dead
      BY <1>4, <1>6, <3>1
    <3>3. x > l + n
      <4> HIDE DEF p, x, c, n, l
      <4> QED BY <2>1, <2>2, <2>5, <3>1
    <3>4. tally'.extra > tally'.lost + Len(lines')
      BY <2>3, <3>3
    <3> QED BY <1>2, <1>4, <2>3, <3>2, <3>4 DEF MessagesIInv
  <2>6. CASE IsAnswer(Head(replies)) /\ p # 0
    <3>1. client' = [client EXCEPT !.pending = p - 1] /\ Count(replies, 0) = c + 1
      BY <1>3, <1>6, <2>6 DEF ReadMessage
    <3>2. /\ client' \in [connected : BOOLEAN, pending : Nat, dead : BOOLEAN]
          /\ client'.connected /\ ~client'.dead /\ client'.pending = p - 1
      <4>1. p - 1 \in Nat
        BY <2>1, <2>6
      <4> QED BY <1>1, <1>4, <1>6, <3>1, <4>1
    <3> HIDE DEF p, x, c, n, l
    <3>3. (p - 1) + x = c + n + l
      BY <2>1, <2>2, <3>1
    <3>4. client'.pending + tally'.extra = c + Len(lines') + tally'.lost
      BY <2>3, <3>2, <3>3
    <3> USE DEF c
    <3> QED BY <1>2, <1>4, <2>3, <3>2, <3>4 DEF MessagesIInv
  <2> QED BY <2>4, <2>5, <2>6
<1> QED BY <1>5, <1>6

(* A start: what comes before the welcome message, and what the startup lines
   print after it. *)
LEMMA StartSays ==
  ASSUME NEW b \in Board, NEW locked
  PROVE  LET ran == system_execute_startup(b, FALSE)
             rest == IF locked
                     THEN <<report_feedback_message("'$H'|'$X' to unlock")>>
                     ELSE ran.out
             extra == IF locked THEN 0 ELSE ran.extra
         IN rest \in Seq(Message) /\ extra \in Nat /\ Count(rest, 0) = extra
<1>1. Counted(system_execute_startup(b, FALSE))
  BY StartupCounts
<1>2. Remark(report_feedback_message("'$H'|'$X' to unlock"))
  BY LiteralsAreLawful, FixedRemarks DEF Literals
<1> QED BY <1>1, <1>2, SilentOrOne DEF Counted, Turn

(* The board after a start, whatever memory it finds. *)
LEMMA MemoriesFit ==
  ASSUME NEW b \in Memories PROVE b \in Board /\ b.state = "off"
<1>1. \A r \in EepromRecords : {r} \in SUBSET EepromRecords
  OBVIOUS
<1>2. \A u \in {{}, EepromRecords} \cup {{r} : r \in EepromRecords} :
        u \in SUBSET EepromRecords
  BY <1>1
<1> QED BY <1>2, StoredIsLawful DEF Memories, Board

LEMMA BootOf ==
  ASSUME MessagesIInv, Boot
  PROVE  \E first, rest : \E extra \in Nat :
           /\ board' \in Board /\ board'.state # "off"
           /\ first \in Seq(Message) /\ \A i \in DOMAIN first : first[i] # report_init_message
           /\ board.reset => first = << >>
           /\ rest \in Seq(Message) /\ Count(rest, 0) = extra
           /\ replies' = ((replies \o first) \o <<report_init_message>>) \o rest
           /\ tally' = [tally EXCEPT !.lost = @ + Len(lines), !.extra = @ + extra]
           /\ lines' = << >> /\ client' = client
           /\ board.state = "off" \/ board.reset
<1>1. PICK memory \in IF board.reset THEN {board} ELSE Memories :
      \E loaded \in IF board.reset THEN {board} ELSE settings_init(memory) :
      LET b == [loaded EXCEPT !.reset = FALSE, !.feed = FALSE]
          locked == \/ board.state = "off" /\ b.homing
                    \/ board.state = "ALARM"
          ran == system_execute_startup(b, FALSE)
          first == IF ~board.reset /\ Fails(memory)
                   THEN <<ReadFail, report_grbl_settings>>
                   ELSE << >>
      IN /\ board' = IF locked THEN [b EXCEPT !.state = "ALARM"]
                     ELSE [AfterStartup(b, FALSE) EXCEPT !.state = "IDLE"]
         /\ replies' = replies \o first \o <<report_init_message>>
              \o IF locked
                 THEN <<report_feedback_message("'$H'|'$X' to unlock")>>
                 ELSE ran.out
         /\ tally' = [tally EXCEPT !.lost = @ + Len(lines),
                                   !.extra = @ + IF locked THEN 0
                                                 ELSE ran.extra]
  BY DEF Boot
<1>2. PICK loaded \in IF board.reset THEN {board} ELSE settings_init(memory) :
      LET b == [loaded EXCEPT !.reset = FALSE, !.feed = FALSE]
          locked == \/ board.state = "off" /\ b.homing
                    \/ board.state = "ALARM"
          ran == system_execute_startup(b, FALSE)
          first == IF ~board.reset /\ Fails(memory)
                   THEN <<ReadFail, report_grbl_settings>>
                   ELSE << >>
      IN /\ board' = IF locked THEN [b EXCEPT !.state = "ALARM"]
                     ELSE [AfterStartup(b, FALSE) EXCEPT !.state = "IDLE"]
         /\ replies' = replies \o first \o <<report_init_message>>
              \o IF locked
                 THEN <<report_feedback_message("'$H'|'$X' to unlock")>>
                 ELSE ran.out
         /\ tally' = [tally EXCEPT !.lost = @ + Len(lines),
                                   !.extra = @ + IF locked THEN 0
                                                 ELSE ran.extra]
  BY <1>1
<1> DEFINE b == [loaded EXCEPT !.reset = FALSE, !.feed = FALSE]
           locked == \/ board.state = "off" /\ b.homing
                     \/ board.state = "ALARM"
           ran == system_execute_startup(b, FALSE)
           first == IF ~board.reset /\ Fails(memory)
                    THEN <<ReadFail, report_grbl_settings>>
                    ELSE << >>
           rest == IF locked
                   THEN <<report_feedback_message("'$H'|'$X' to unlock")>>
                   ELSE ran.out
           extra == IF locked THEN 0 ELSE ran.extra
<1>3. /\ board' = IF locked THEN [b EXCEPT !.state = "ALARM"]
                  ELSE [AfterStartup(b, FALSE) EXCEPT !.state = "IDLE"]
      /\ replies' = ((replies \o first) \o <<report_init_message>>) \o rest
      /\ tally' = [tally EXCEPT !.lost = @ + Len(lines), !.extra = @ + extra]
  BY <1>2
<1>4. loaded \in Board
  <2>1. CASE board.reset
    <3>1. board \in Board
      BY DEF MessagesIInv
    <3> QED BY <2>1, <3>1
  <2>2. CASE ~board.reset
    <3>1. memory \in Memories /\ loaded \in settings_init(memory)
      BY <2>2
    <3>2. memory \in Board
      BY <3>1, MemoriesFit
    <3> QED BY <3>1, <3>2, RestoredFits DEF settings_init
  <2> QED BY <2>1, <2>2
<1>5. b \in Board
  BY <1>4 DEF Board
<1>6. rest \in Seq(Message) /\ extra \in Nat /\ Count(rest, 0) = extra
  <2> HIDE DEF b, locked
  <2> QED BY <1>5, StartSays
<1>7. board' \in Board /\ board'.state # "off"
  <2>1. AfterStartup(b, FALSE) \in Board
    <3> HIDE DEF b
    <3> QED BY <1>5, AfterStartupFits
  <2> HIDE DEF b, locked
  <2> QED BY <1>3, <1>5, <2>1 DEF Board
<1>8. /\ first \in Seq(Message) /\ \A i \in DOMAIN first : first[i] # report_init_message
      /\ board.reset => first = << >>
  <2> DEFINE x == ReadFail
             y == report_grbl_settings
  <2>1. x \in Message /\ y \in Message
    BY ReadFailAnswers, FixedRemarks DEF Remark
  <2>2. x # report_init_message /\ y # report_init_message
    <3>1. ~IsAnswer(report_init_message) /\ IsAnswer(x)
      BY ReadFailAnswers, FixedRemarks DEF Remark
    <3>2. y # report_init_message
      BY DEF report_grbl_settings, report_init_message
    <3> QED BY <3>1, <3>2
  <2> HIDE DEF x, y
  <2>3. <<x, y>> \in Seq(Message) /\ \A i \in DOMAIN <<x, y>> : <<x, y>>[i] # report_init_message
    BY <2>1, <2>2
  <2>4. << >> \in Seq(Message) /\ \A i \in DOMAIN << >> : << >>[i] # report_init_message
    OBVIOUS
  <2>5. first = << >> \/ (first = <<x, y>> /\ ~board.reset)
    BY DEF x, y
  <2> HIDE DEF first
  <2>6. CASE first = << >>
    BY <2>4, <2>6
  <2>7. CASE first = <<x, y>> /\ ~board.reset
    BY <2>3, <2>7
  <2> QED BY <2>5, <2>6, <2>7
<1>9. lines' = << >> /\ client' = client /\ (board.state = "off" \/ board.reset)
  BY DEF Boot
<1> HIDE DEF first, rest, extra, ran, locked, b
<1> QED BY <1>3, <1>6, <1>7, <1>8, <1>9

LEMMA BootKeeps == ASSUME MessagesIInv, Boot PROVE MessagesIInv'
<1>1. PICK first, rest : \E extra \in Nat :
           /\ board' \in Board /\ board'.state # "off"
           /\ first \in Seq(Message) /\ \A i \in DOMAIN first : first[i] # report_init_message
           /\ board.reset => first = << >>
           /\ rest \in Seq(Message) /\ Count(rest, 0) = extra
           /\ replies' = ((replies \o first) \o <<report_init_message>>) \o rest
           /\ tally' = [tally EXCEPT !.lost = @ + Len(lines), !.extra = @ + extra]
           /\ lines' = << >> /\ client' = client
           /\ board.state = "off" \/ board.reset
  BY BootOf
<1>2. PICK extra \in Nat :
           /\ board' \in Board /\ board'.state # "off"
           /\ first \in Seq(Message) /\ \A i \in DOMAIN first : first[i] # report_init_message
           /\ board.reset => first = << >>
           /\ rest \in Seq(Message) /\ Count(rest, 0) = extra
           /\ replies' = ((replies \o first) \o <<report_init_message>>) \o rest
           /\ tally' = [tally EXCEPT !.lost = @ + Len(lines), !.extra = @ + extra]
           /\ lines' = << >> /\ client' = client
           /\ board.state = "off" \/ board.reset
  BY <1>1
<1> DEFINE m == report_init_message
           s == replies \o first
           t == s \o <<m>>
           more == <<m>> \o rest
<1>3. /\ m \in Message /\ <<m>> \in Seq(Message) /\ Count(<<m>>, 0) = 0
      /\ Len(<<m>>) = 1 /\ 0 \in 0 .. Len(<<m>>)
  <2>1. Remark(m)
    BY FixedRemarks
  <2> HIDE DEF m
  <2>2. m \in Message
    BY <2>1 DEF Remark
  <2>3. <<m>> \in Seq(Message) /\ Count(<<m>>, 0) = 0
    BY <2>1, SilentOrOne
  <2>4. Len(<<m>>) = 1 /\ 0 \in 0 .. Len(<<m>>)
    OBVIOUS
  <2> QED BY <2>2, <2>3, <2>4
<1>4. replies \in Seq(Message) /\ Len(replies) \in Nat /\ 0 \in 0 .. Len(replies)
      /\ Count(replies, 0) \in Nat /\ Len(lines) \in Nat
  BY ReplyFacts
<1> HIDE DEF m
<1>5. replies' \in Seq(Message)
  BY <1>2, <1>3, <1>4 DEF m
<1>6. more \in Seq(Message) /\ Count(more, 0) = extra
  <2>1. Count(more, 0) = Count(<<m>>, 0) + Count(rest, 0)
    BY <1>2, <1>3, CountOfBoth
  <2> QED BY <1>2, <1>3, <2>1
<1>7. first = << >> => replies' = replies \o more
  <2>1. ASSUME first = << >> PROVE s = replies
    BY <1>4, <2>1
  <2>2. (replies \o <<m>>) \o rest = replies \o (<<m>> \o rest)
    <3> DEFINE one == <<m>>
    <3>1. replies \in Seq(Message) /\ one \in Seq(Message) /\ rest \in Seq(Message)
      BY <1>2, <1>3, <1>4
    <3> HIDE DEF one
    <3>2. (replies \o one) \o rest = replies \o (one \o rest)
      BY <3>1, JoinedTwice
    <3> QED BY <3>2 DEF one
  <2> QED BY <1>2, <2>1, <2>2 DEF m
<1> HIDE DEF more
<1>8. /\ tally \in [lost : Nat, extra : Nat, sent : Nat, aborts : Nat]
      /\ tally.lost \in Nat /\ tally.extra \in Nat /\ client.pending \in Nat
      /\ client \in [connected : BOOLEAN, pending : Nat, dead : BOOLEAN]
  BY DEF MessagesIInv
<1>9. /\ tally' \in [lost : Nat, extra : Nat, sent : Nat, aborts : Nat]
      /\ tally'.lost = tally.lost + Len(lines) /\ tally'.extra = tally.extra + extra
  <2>1. tally.lost + Len(lines) \in Nat /\ tally.extra + extra \in Nat
    BY <1>4, <1>8
  <2>2. tally' = [tally EXCEPT !.lost = tally.lost + Len(lines),
                               !.extra = tally.extra + extra]
    BY <1>2
  <2> QED BY <1>8, <2>1, <2>2
<1>10. lines' = << >> /\ lines' \in Seq(Sent) /\ Len(lines') = 0 /\ client' = client
       /\ board' \in Board /\ board'.state # "off"
  BY <1>2
<1>11. CASE ~client.connected
  <2>1. Expectant
    BY <1>11 DEF MessagesIInv
  <2>2. tally'.lost = 0
    BY <1>9, <2>1 DEF Expectant
  <2>3. \E i \in DOMAIN replies' :
          /\ Welcomes(i)' /\ \A j \in 1 .. i - 1 : ~Welcomes(j)'
          /\ Count(replies', i) = tally'.extra
    <3>1. CASE board.state = "off"
      <4>1. replies = << >> /\ tally.extra = 0
        BY <2>1, <3>1 DEF Expectant
      <4>2. s = first
        BY <1>2, <4>1
      <4> DEFINE i == Len(first) + 1
      <4>3. /\ t \in Seq(Message) /\ Len(t) = i /\ i \in Nat /\ t[i] = m
            /\ \A j \in 1 .. i - 1 : t[j] = first[j] /\ j \in DOMAIN first
        <5>1. t = Append(first, m)
          BY <1>2, <1>3, <4>2
        <5>2. /\ Append(first, m) \in Seq(Message) /\ Len(first) \in Nat
              /\ Len(Append(first, m)) = Len(first) + 1
              /\ DOMAIN first = 1 .. Len(first)
              /\ \A j \in 1 .. Len(first) : Append(first, m)[j] = first[j]
              /\ Append(first, m)[Len(first) + 1] = m
          BY <1>2, <1>3, Appends
        <5>3. i - 1 = Len(first)
          BY <5>2
        <5> HIDE DEF t
        <5> QED BY <5>1, <5>2, <5>3
      <4>4. replies' = t \o rest
        BY <1>2 DEF m
      <4> HIDE DEF t, i
      <4>5. i \in 0 .. Len(t) /\ i >= 1
        BY <1>2, <4>3 DEF i
      <4>6. Count(replies', i) = Count(t, i) + Count(rest, 0)
        BY <1>2, <4>3, <4>4, <4>5, CountOfBoth
      <4>7. Count(t, i) = 0
        BY <4>3, <4>5, AnswersFinite
      <4>8. Count(replies', i) = tally'.extra
        BY <1>2, <1>9, <4>1, <4>6, <4>7
      <4>9. /\ i \in DOMAIN replies' /\ replies'[i] = t[i]
            /\ \A j \in 1 .. i - 1 : replies'[j] = t[j]
        <5>1. /\ Len(replies') = Len(t) + Len(rest) /\ replies' \in Seq(Message)
              /\ Len(rest) \in Nat
              /\ \A k \in 1 .. Len(t) + Len(rest) :
                   replies'[k] = IF k <= Len(t) THEN t[k] ELSE rest[k - Len(t)]
          <6>1. /\ t \o rest \in Seq(Message)
                /\ Len(t \o rest) = Len(t) + Len(rest)
                /\ \A k \in 1 .. Len(t) + Len(rest) :
                     (t \o rest)[k] = IF k <= Len(t) THEN t[k] ELSE rest[k - Len(t)]
            BY <1>2, <4>3, Concatenation
          <6>2. Len(rest) \in Nat
            BY <1>2
          <6> QED BY <4>4, <6>1, <6>2
        <5>2. \A j \in 1 .. i : j \in 1 .. Len(t) + Len(rest) /\ j <= Len(t)
          BY <4>3, <4>5, <5>1
        <5>3. i \in 1 .. i /\ \A j \in 1 .. i - 1 : j \in 1 .. i
          BY <4>3, <4>5
        <5>4. DOMAIN replies' = 1 .. Len(t) + Len(rest)
          BY <5>1
        <5> QED BY <5>1, <5>2, <5>3, <5>4
      <4>10. Welcomes(i)' /\ \A j \in 1 .. i - 1 : ~Welcomes(j)'
        BY <1>2, <4>3, <4>9 DEF Welcomes, m
      <4> QED BY <4>8, <4>9, <4>10
    <3>2. CASE board.state # "off"
      <4>1. first = << >> /\ replies' = replies \o more
        BY <1>2, <1>7, <3>2
      <4>2. PICK i \in DOMAIN replies :
              /\ Welcomes(i) /\ \A j \in 1 .. i - 1 : ~Welcomes(j)
              /\ Count(replies, i) = tally.extra
        BY <2>1, <3>2 DEF Expectant
      <4>3. /\ i \in DOMAIN replies' /\ Welcomes(i)'
            /\ \A j \in 1 .. i - 1 : ~Welcomes(j)'
            /\ Count(replies', i) = Count(replies, i) + Count(more, 0)
        BY <1>4, <1>6, <4>1, <4>2, WelcomeStays
      <4>4. Count(replies', i) = tally'.extra
        BY <1>6, <1>9, <4>2, <4>3
      <4> QED BY <4>3, <4>4
    <3> QED BY <3>1, <3>2
  <2>4. Expectant'
    BY <1>10, <2>1, <2>2, <2>3 DEF Expectant
  <2> QED BY <1>5, <1>8, <1>9, <1>10, <1>11, <2>4 DEF MessagesIInv, Expectant
<1>12. CASE client.connected
  <2>1. board.state # "off"
    BY <1>12 DEF MessagesIInv
  <2>2. replies' = replies \o more
    BY <1>2, <1>7, <2>1
  <2>3. Count(replies', 0) = Count(replies, 0) + extra
    BY <1>4, <1>6, <2>2, CountOfBoth
  <2> DEFINE p == client.pending
             x == tally.extra
             c == Count(replies, 0)
             n == Len(lines)
             l == tally.lost
  <2>4. p \in Nat /\ x \in Nat /\ c \in Nat /\ n \in Nat /\ l \in Nat
    BY <1>4, <1>8
  <2>5. /\ tally'.lost = l + n /\ tally'.extra = x + extra
        /\ Count(replies', 0) = c + extra
        /\ client'.pending = p /\ Len(lines') = 0 /\ client'.dead = client.dead
    BY <1>9, <1>10, <2>3
  <2>6. /\ ~client.dead => p + x = c + n + l
        /\ client.dead => x > l + n
    BY <1>12 DEF MessagesIInv
  <2> HIDE DEF p, x, c, n, l
  <2>7. ~client'.dead => client'.pending + tally'.extra = Count(replies', 0) + Len(lines') + tally'.lost
    <3>1. ASSUME ~client.dead PROVE p + (x + extra) = (c + extra) + 0 + (l + n)
      BY <2>4, <2>6, <3>1
    <3> QED BY <2>5, <3>1
  <2>8. client'.dead => tally'.extra > tally'.lost + Len(lines')
    <3>1. ASSUME client.dead PROVE x + extra > (l + n) + 0
      BY <2>4, <2>6, <3>1
    <3> QED BY <2>5, <3>1
  <2> QED BY <1>5, <1>8, <1>9, <1>10, <1>12, <2>7, <2>8 DEF MessagesIInv
<1> QED BY <1>11, <1>12

(* All steps. *)
LEMMA MessagesStepKeepsIInv == MessagesIInv /\ [MessagesNext]_messageVars => MessagesIInv'
<1> SUFFICES ASSUME MessagesIInv, [MessagesNext]_messageVars PROVE MessagesIInv'
  OBVIOUS
<1>1. CASE UNCHANGED messageVars
  BY <1>1 DEF messageVars, MessagesIInv, Expectant, Welcomes
<1>2. CASE MessagesNext
  BY <1>2, BootKeeps, AbortKeeps, SendKeeps, ReadKeeps, PlainKeeps, GCodeKeeps, LockKeeps,
     NotIdleKeeps, ParametersKeep, PrintStartupKeeps, StoreLineKeeps, BuildInfoKeeps,
     RestoreKeeps, HomingKeeps DEF MessagesNext
<1> QED BY <1>1, <1>2

(* Each line is answered once: a host that counts is right about the board but
   for the answers to no line, whatever is stored, sent, reset or cannot be
   read, and however many. *)
THEOREM AnswersAlwaysMatchLines == MessagesSpec => []AnswersMatchLines
<1>1. MessagesIInv => AnswersMatchLines
  <2> SUFFICES ASSUME MessagesIInv PROVE AnswersMatchLines
    OBVIOUS
  <2>1. AnswersIn(replies, 0) = Answers
    <3>1. \A i \in DOMAIN replies : i > 0
      BY DEF MessagesIInv
    <3> QED BY <3>1 DEF AnswersIn, Answers
  <2>2. Count(replies, 0) = Cardinality(Answers)
    BY <2>1 DEF Count
  <2>3. tally.lost \in Nat /\ Len(lines) \in Nat /\ tally.extra \in Nat
    BY DEF MessagesIInv
  <2>4. client.dead => tally.extra > tally.lost
    BY <2>3 DEF MessagesIInv
  <2> QED BY <2>2, <2>4 DEF MessagesIInv, AnswersMatchLines
<1>2. QED
  BY <1>1, MessagesInitIInv, MessagesStepKeepsIInv, PTL DEF MessagesSpec
-----------------------------------------------------------------------------
(* Module Console: a listing that went back. *)

(* Powers of ten and the texts of numbers. *)
LEMMA Tens ==
  /\ TenTo(0) = 1 /\ TenTo(1) = 10 /\ TenTo(2) = 100 /\ TenTo(3) = 1000
  /\ TenTo(4) = 10000 /\ TenTo(5) = 100000 /\ TenTo(6) = 1000000
  /\ TenTo(7) = 10000000 /\ TenTo(8) = 100000000 /\ TenTo(9) = 1000000000
BY DEF TenTo

LEMMA OneIs == One = 10000 /\ Places = 4
BY Tens DEF One, Places

LEMMA TextIs ==
  ASSUME NEW t \in Texts
  PROVE  t[1] \in Nat /\ t[2] \in {0, 1, 2, 3, 4} /\ t = <<t[1], t[2]>>
<1>1. Texts = Nat \X (0 .. 4) /\ 0 .. 4 = {0, 1, 2, 3, 4}
  BY DEF Texts, Places
<1> QED BY <1>1

LEMMA DigitsFit ==
  ASSUME NEW t \in Texts
  PROVE  /\ DigitCount(t) \in 1 .. 10
         /\ t[1] < 100000000 => DigitCount(t) <= 8
<1> DEFINE Is(k) == /\ k = 10 \/ t[1] < TenTo(k)
                    /\ k = t[2] + 1 \/ t[1] >= TenTo(k - 1)
           d == t[2] + 1
<1>1. t[1] \in Nat /\ d \in 1 .. 5 /\ d \in {1, 2, 3, 4, 5}
  BY TextIs
<1>2. \E k \in d .. 10 : Is(k)
  <2>1. d \in d .. 10 /\ 10 \in d .. 10 /\ 9 \in d .. 10 /\ 8 \in d .. 10
        /\ 7 \in d .. 10 /\ 6 \in d .. 10
    BY <1>1
  <2>2. CASE t[1] < TenTo(d)
    BY <2>1, <2>2
  <2>3. CASE t[1] >= TenTo(9)
    <3>1. Is(10)
      BY <2>3
    <3> QED BY <2>1, <3>1
  <2>4. CASE t[1] >= TenTo(d) /\ t[1] < TenTo(9)
    <3>1. \E k \in 2 .. 9 : k > d /\ t[1] < TenTo(k) /\ t[1] >= TenTo(k - 1)
      <4> HIDE DEF Is
      <4>1. CASE d = 1
        BY <1>1, <2>4, <4>1, Tens
      <4>2. CASE d = 2
        BY <1>1, <2>4, <4>2, Tens
      <4>3. CASE d = 3
        BY <1>1, <2>4, <4>3, Tens
      <4>4. CASE d = 4
        BY <1>1, <2>4, <4>4, Tens
      <4>5. CASE d = 5
        BY <1>1, <2>4, <4>5, Tens
      <4> QED BY <1>1, <4>1, <4>2, <4>3, <4>4, <4>5
    <3>2. PICK k \in 2 .. 9 : k > d /\ t[1] < TenTo(k) /\ t[1] >= TenTo(k - 1)
      BY <3>1
    <3>3. k \in d .. 10
      BY <1>1, <3>2
    <3> QED BY <3>2, <3>3
  <2>5. TenTo(d) \in Int /\ TenTo(9) \in Int
    BY <1>1, Tens
  <2> QED BY <1>1, <2>2, <2>3, <2>4, <2>5
<1>3. DigitCount(t) \in d .. 10 /\ Is(DigitCount(t))
  BY <1>2 DEF DigitCount
<1>4. DigitCount(t) \in 1 .. 10
  BY <1>1, <1>3
<1>5. ASSUME t[1] < 100000000, DigitCount(t) > 8 PROVE FALSE
  <2>1. DigitCount(t) \in {9, 10}
    BY <1>4, <1>5
  <2>2. t[1] >= TenTo(DigitCount(t) - 1)
    BY <1>1, <1>3, <2>1
  <2>3. TenTo(DigitCount(t) - 1) \in {100000000, 1000000000}
    <3>1. DigitCount(t) - 1 = 8 \/ DigitCount(t) - 1 = 9
      BY <2>1
    <3> QED BY <3>1, Tens
  <2> QED BY <1>1, <1>5, <2>2, <2>3
<1> QED BY <1>4, <1>5

LEMMA ExcessFits ==
  ASSUME NEW t \in Texts
  PROVE  /\ Excess(t) \in {0, 1, 2}
         /\ t[1] < 100000000 => Excess(t) = 0
BY DigitsFit DEF Excess, MAX_INT_DIGITS

LEMMA ReadIs ==
  ASSUME NEW t \in Texts
  PROVE  /\ ReadFloat(t) \in Nat
         /\ Excess(t) = 0 => ReadFloat(t) = t[1] * TenTo(4 - t[2])
<1> DEFINE cut == TenTo(Excess(t))
           p == TenTo(4 - t[2])
<1>1. t[1] \in Nat
  BY TextIs
<1>2. cut \in {1, 10, 100} /\ (Excess(t) = 0 => cut = 1)
  BY ExcessFits, Tens
<1>3. p \in {1, 10, 100, 1000, 10000}
  <2>1. 4 - t[2] \in {0, 1, 2, 3, 4}
    BY TextIs
  <2> QED BY <2>1, Tens
<1>4. ReadFloat(t) = (t[1] \div cut) * cut * p
  BY DEF ReadFloat, Places
<1> HIDE DEF cut, p
<1>5. (t[1] \div cut) \in Nat
  BY <1>1, <1>2
<1>6. (t[1] \div cut) * cut \in Nat
  BY <1>2, <1>5
<1>7. (t[1] \div cut) * cut * p \in Nat
  BY <1>3, <1>6
<1>8. cut = 1 => (t[1] \div cut) * cut = t[1]
  BY <1>1
<1> QED BY <1>2, <1>4, <1>7, <1>8 DEF p

(* A small whole number. *)
LEMMA WholeIs ==
  ASSUME NEW t, NEW n \in 0 .. 255, t = <<n, 0>>
  PROVE  /\ t \in Texts /\ Short(t)
         /\ ReadFloat(t) = n * 10000 /\ IntValue(ReadFloat(t)) = n
         /\ ReadFloat(t) <= 255 * One /\ ReadFloat(t) \div One = n
<1>1. t \in Texts /\ t[1] = n /\ t[2] = 0
  BY DEF Texts, Places
<1>2. Excess(t) = 0
  BY <1>1, ExcessFits
<1>3. ReadFloat(t) = n * 10000
  BY <1>1, <1>2, ReadIs, Tens
<1>4. (n * 10000) \div 10000 = n /\ n * 10000 <= 255 * 10000 /\ n % 256 = n
  OBVIOUS
<1> QED BY <1>1, <1>2, <1>3, <1>4, OneIs DEF IntValue, Short

(* The kinds of settings do not overlap. *)
PlainSettings == FloatSettings \cup StepsPerMm \cup MaxRate

LEMMA Kinds ==
  /\ ByteSettings \cap FlagSettings = {} /\ Numbers \subseteq 0 .. 255
  /\ (RpmSettings \cup Acceleration \cup MaxTravel \cup PlainSettings)
       \cap (ByteSettings \cup FlagSettings) = {}
  /\ RpmSettings \cap (Acceleration \cup MaxTravel \cup PlainSettings) = {}
  /\ Acceleration \cap (MaxTravel \cup PlainSettings) = {}
  /\ MaxTravel \cap PlainSettings = {}
  /\ Numbers = ByteSettings \cup FlagSettings \cup RpmSettings
                 \cup Acceleration \cup MaxTravel \cup PlainSettings
BY DEF Numbers, AxisSettings, PlainSettings, ByteSettings, FlagSettings,
       FloatSettings, RpmSettings, StepsPerMm, MaxRate, Acceleration, MaxTravel

LEMMA Some ==
  /\ 0 \in ByteSettings /\ 20 \in FlagSettings /\ 22 \in FlagSettings
  /\ 0 \in Numbers /\ 20 \in Numbers /\ 22 \in Numbers
BY DEF Numbers, ByteSettings, FlagSettings

(* Settings the firmware can have: soft limits only with homing. *)
Usual(v) ==
  /\ DOMAIN v = Numbers
  /\ \A n \in ByteSettings : v[n] \in 0 .. 255
  /\ \A n \in FlagSettings : v[n] \in {0, 1}
  /\ \A n \in MaxTravel : -v[n] \in Nat
  /\ \A n \in RpmSettings \cup Acceleration \cup PlainSettings : v[n] \in Nat

Coherent(v) == Usual(v) /\ v[0] >= 3 /\ (v[20] # 0 => v[22] # 0)

(* How a number is listed and read again, kind by kind. *)
LEMMA ListedIs ==
  ASSUME NEW n \in Numbers, NEW v
  PROVE  /\ n \in ByteSettings \cup FlagSettings => Listed(n, v) = <<v, 0>>
         /\ n \in RpmSettings => Listed(n, v) = PrintFloat(v, 0)
         /\ n \in Acceleration => Listed(n, v) = PrintFloat(v \div 3600, 3)
         /\ n \in MaxTravel => Listed(n, v) = PrintFloat(-v, 3)
         /\ n \in PlainSettings => Listed(n, v) = PrintFloat(v, 3)
BY Kinds DEF Listed, N_DECIMAL_RPMVALUE, N_DECIMAL_SETTINGVALUE

LEMMA ConvertedIs ==
  ASSUME NEW n \in Numbers, NEW v
  PROVE  /\ n \in ByteSettings => Converted(n, v) = IntValue(v)
         /\ n \in FlagSettings =>
              Converted(n, v) = IF IntValue(v) # 0 THEN 1 ELSE 0
         /\ n \in Acceleration => Converted(n, v) = v * 3600
         /\ n \in MaxTravel => Converted(n, v) = -v
         /\ n \in RpmSettings \cup PlainSettings => Converted(n, v) = v
BY Kinds DEF Converted

LEMMA PrintIs ==
  ASSUME NEW v \in Nat
  PROVE  /\ PrintFloat(v, 0) = <<(v + 5000) \div 10000, 0>>
         /\ PrintFloat(v, 3) = <<(v + 5) \div 10, 3>>
         /\ PrintFloat(v, 0) \in Texts /\ PrintFloat(v, 3) \in Texts
<1>1. 10000 \div 2 = 5000 /\ 10 \div 2 = 5 /\ 4 - 0 = 4 /\ 4 - 3 = 1
  OBVIOUS
<1>2. /\ PrintFloat(v, 0) = <<(v + 5000) \div 10000, 0>>
      /\ PrintFloat(v, 3) = <<(v + 5) \div 10, 3>>
  BY <1>1, Tens DEF PrintFloat, Places
<1>3. (v + 5000) \div 10000 \in Nat /\ (v + 5) \div 10 \in Nat
  OBVIOUS
<1> QED BY <1>2, <1>3 DEF Texts, Places

(* What was printed comes back as it is. *)
LEMMA PrintedAgain ==
  ASSUME NEW k \in Nat
  PROVE  /\ PrintFloat(k * 10000, 0) = <<k, 0>>
         /\ PrintFloat(k * 10, 3) = <<k, 3>>
<1>1. (k * 10000 + 5000) \div 10000 = k /\ (k * 10 + 5) \div 10 = k
  OBVIOUS
<1>2. k * 10000 \in Nat /\ k * 10 \in Nat
  OBVIOUS
<1>3. PrintFloat(k * 10000, 0) = <<(k * 10000 + 5000) \div 10000, 0>>
  BY <1>2, PrintIs
<1>4. PrintFloat(k * 10, 3) = <<(k * 10 + 5) \div 10, 3>>
  BY <1>2, PrintIs
<1> QED BY <1>1, <1>3, <1>4

LEMMA ReadPrinted ==
  ASSUME NEW t, NEW k \in Nat
  PROVE  /\ t = <<k, 0>> /\ Short(t) => ReadFloat(t) = k * 10000
         /\ t = <<k, 3>> /\ Short(t) => ReadFloat(t) = k * 10
<1>1. ASSUME t = <<k, 0>> \/ t = <<k, 3>>, Short(t)
      PROVE  ReadFloat(t) = t[1] * TenTo(4 - t[2])
  <2>1. t \in Texts
    BY <1>1 DEF Texts, Places
  <2> QED BY <1>1, <2>1, ReadIs DEF Short
<1>2. 4 - 0 = 4 /\ 4 - 3 = 1
  OBVIOUS
<1> QED BY <1>1, <1>2, Tens

LEMMA ListedFits ==
  ASSUME NEW v, Usual(v), NEW n \in Numbers
  PROVE  Listed(n, v[n]) \in Texts
<1>1. CASE n \in ByteSettings \cup FlagSettings
  <2>1. v[n] \in 0 .. 255
    BY <1>1 DEF Usual
  <2>2. Listed(n, v[n]) = <<v[n], 0>>
    BY <1>1, ListedIs
  <2> QED BY <2>1, <2>2, WholeIs
<1>2. CASE n \in RpmSettings \cup PlainSettings
  <2>1. v[n] \in Nat
    BY <1>2 DEF Usual
  <2> QED BY <1>2, <2>1, PrintIs, ListedIs
<1>3. CASE n \in Acceleration
  <2>1. v[n] \in Nat
    BY <1>3 DEF Usual
  <2>2. v[n] \div 3600 \in Nat
    BY <2>1
  <2> QED BY <1>3, <2>2, PrintIs, ListedIs
<1>4. CASE n \in MaxTravel
  <2>1. -v[n] \in Nat
    BY <1>4 DEF Usual
  <2> QED BY <1>4, <2>1, PrintIs, ListedIs
<1> QED BY <1>1, <1>2, <1>3, <1>4, Kinds

LEMMA ListedAgain ==
  ASSUME NEW v, Usual(v), NEW n \in Numbers,
         NEW t, t = Listed(n, v[n]), Short(t)
  PROVE  Listed(n, Converted(n, ReadFloat(t))) = t
<1>1. CASE n \in ByteSettings \cup FlagSettings
  <2>1. v[n] \in 0 .. 255 /\ t = <<v[n], 0>>
    BY <1>1, ListedIs DEF Usual
  <2>2. IntValue(ReadFloat(t)) = v[n]
    BY <2>1, WholeIs
  <2>3. Converted(n, ReadFloat(t)) = v[n]
    BY <1>1, <2>2, ConvertedIs, Kinds DEF Usual
  <2> QED BY <2>3
<1>2. CASE n \in RpmSettings
  <2>1. v[n] \in Nat
    BY <1>2 DEF Usual
  <2>2. PICK k \in Nat : t = <<k, 0>>
    <3>1. (v[n] + 5000) \div 10000 \in Nat
      BY <2>1
    <3> QED BY <1>2, <2>1, <3>1, ListedIs, PrintIs
  <2>3. ReadFloat(t) = k * 10000
    BY <2>2, ReadPrinted
  <2> QED BY <1>2, <2>2, <2>3, ListedIs, ConvertedIs, PrintedAgain
<1>3. CASE n \in PlainSettings
  <2>1. v[n] \in Nat
    BY <1>3 DEF Usual
  <2>2. PICK k \in Nat : t = <<k, 3>>
    <3>1. (v[n] + 5) \div 10 \in Nat
      BY <2>1
    <3> QED BY <1>3, <2>1, <3>1, ListedIs, PrintIs
  <2>3. ReadFloat(t) = k * 10
    BY <2>2, ReadPrinted
  <2> QED BY <1>3, <2>2, <2>3, ListedIs, ConvertedIs, PrintedAgain
<1>4. CASE n \in Acceleration
  <2>1. v[n] \in Nat
    BY <1>4 DEF Usual
  <2>2. PICK k \in Nat : t = <<k, 3>>
    <3>1. v[n] \div 3600 \in Nat
      BY <2>1
    <3>2. ((v[n] \div 3600) + 5) \div 10 \in Nat
      BY <3>1
    <3> QED BY <1>4, <3>1, <3>2, ListedIs, PrintIs
  <2>3. ReadFloat(t) = k * 10
    BY <2>2, ReadPrinted
  <2>4. (k * 10 * 3600) \div 3600 = k * 10
    OBVIOUS
  <2>5. Converted(n, ReadFloat(t)) = k * 10 * 3600
    BY <1>4, <2>3, ConvertedIs
  <2>6. Listed(n, k * 10 * 3600) = PrintFloat(k * 10, 3)
    BY <1>4, <2>4, ListedIs
  <2> QED BY <2>2, <2>5, <2>6, PrintedAgain
<1>5. CASE n \in MaxTravel
  <2>1. -v[n] \in Nat
    BY <1>5 DEF Usual
  <2>2. PICK k \in Nat : t = <<k, 3>>
    <3>1. (-v[n] + 5) \div 10 \in Nat
      BY <2>1
    <3> QED BY <1>5, <2>1, <3>1, ListedIs, PrintIs
  <2>3. ReadFloat(t) = k * 10
    BY <2>2, ReadPrinted
  <2>4. -(-(k * 10)) = k * 10
    OBVIOUS
  <2>5. Converted(n, ReadFloat(t)) = -(k * 10)
    BY <1>5, <2>3, ConvertedIs
  <2> QED BY <1>5, <2>2, <2>4, <2>5, ListedIs, PrintedAgain
<1> QED BY <1>1, <1>2, <1>3, <1>4, <1>5, Kinds

(* A number of eight bits. *)
LEMMA IntValueFits ==
  ASSUME NEW r \in Nat
  PROVE  IntValue(r) \in 0 .. 255
<1>1. r \div 10000 \in Nat
  OBVIOUS
<1>2. (r \div 10000) % 256 \in 0 .. 255
  BY <1>1
<1> QED BY <1>2, OneIs DEF IntValue

LEMMA ConvertedFits ==
  ASSUME NEW n \in Numbers, NEW r \in Nat
  PROVE  /\ n \in ByteSettings => Converted(n, r) \in 0 .. 255
         /\ n \in FlagSettings => Converted(n, r) \in {0, 1}
         /\ n \in MaxTravel => -Converted(n, r) \in Nat
         /\ n \in RpmSettings \cup Acceleration \cup PlainSettings =>
              Converted(n, r) \in Nat
<1>1. r * 3600 \in Nat /\ -(-r) = r
  OBVIOUS
<1>2. n \in MaxTravel => -Converted(n, r) \in Nat
  BY <1>1, ConvertedIs
<1> QED BY <1>1, <1>2, IntValueFits, ConvertedIs

(* Whatever is stored, soft limits stay bound to homing. *)
LEMMA StoredStaysCoherent ==
  ASSUME NEW n, NEW r \in Nat, Coherent(values), ~Refused(n, r)
  PROVE  Coherent(Stored(n, r))
<1> DEFINE s == Stored(n, r)
<1>1. n \in Numbers /\ (n = 0 => IntValue(r) >= 3)
      /\ (n = 20 => IntValue(r) = 0 \/ values[22] # 0)
  <2>1. n = 0 => IntValue(r) >= 3
    BY IntValueFits DEF Refused
  <2> QED BY <2>1 DEF Refused
<1>2. /\ s[n] = Converted(n, r)
      /\ \A m \in Numbers \ {n} :
           s[m] = IF m = 20 /\ n = 22 /\ IntValue(r) = 0 THEN 0 ELSE values[m]
      /\ DOMAIN s = Numbers
  BY <1>1 DEF Stored
<1> HIDE DEF s
<1>3. Usual(s)
  <2>1. ASSUME NEW m \in Numbers
        PROVE  /\ m \in ByteSettings => s[m] \in 0 .. 255
               /\ m \in FlagSettings => s[m] \in {0, 1}
               /\ m \in MaxTravel => -s[m] \in Nat
               /\ m \in RpmSettings \cup Acceleration \cup PlainSettings => s[m] \in Nat
    <3>1. CASE m = n
      BY <1>1, <1>2, <3>1, ConvertedFits
    <3>2. CASE m # n /\ s[m] = values[m]
      BY <3>2 DEF Coherent, Usual
    <3>3. CASE m # n /\ m = 20 /\ s[m] = 0
      BY <3>3, Some, Kinds
    <3> QED BY <1>2, <3>1, <3>2, <3>3
  <2> QED BY <1>2, <2>1, Kinds DEF Usual
<1>4. s[0] >= 3
  <2>1. CASE n = 0
    BY <1>1, <1>2, <2>1, ConvertedIs, Some
  <2>2. CASE n # 0
    BY <1>2, <2>2, Some DEF Coherent
  <2> QED BY <2>1, <2>2
<1>5. s[20] # 0 => s[22] # 0
  <2>1. CASE n = 20
    <3>1. s[20] = IF IntValue(r) # 0 THEN 1 ELSE 0
      BY <1>2, <2>1, ConvertedIs, Some
    <3>2. s[22] = values[22]
      BY <1>2, <2>1, Some
    <3> QED BY <1>1, <2>1, <3>1, <3>2
  <2>2. CASE n = 22
    <3>1. s[22] = IF IntValue(r) # 0 THEN 1 ELSE 0
      BY <1>2, <2>2, ConvertedIs, Some
    <3>2. IntValue(r) = 0 => s[20] = 0
      BY <1>2, <2>2, Some
    <3> QED BY <3>1, <3>2
  <2>3. CASE n \notin {20, 22}
    BY <1>2, <2>3, Some DEF Coherent
  <2> QED BY <2>1, <2>2, <2>3
<1> QED BY <1>3, <1>4, <1>5 DEF Coherent, s

LEMMA TextStaysCoherent ==
  ASSUME NEW x, NEW t \in Texts, Coherent(values), StoreText(x, t)
  PROVE  Coherent(values')
<1> DEFINE n == ReadFloat(x) \div One
           r == ReadFloat(t)
<1>1. r \in Nat
  BY ReadIs
<1>2. values' = values \/ (~Refused(n, r) /\ values' = Stored(n, r))
  BY DEF StoreText
<1> HIDE DEF n, r
<1> QED BY <1>1, <1>2, StoredStaysCoherent

LEMMA DefaultIsCoherent == Coherent(Default)
<1>1. DOMAIN Default = Numbers
  BY DEF Default
<1>2. \A n \in ByteSettings : Default[n] \in 0 .. 255
  <2> SUFFICES ASSUME NEW n \in ByteSettings PROVE Default[n] \in 0 .. 255
    OBVIOUS
  <2>1. n \in Numbers /\ n \notin StepsPerMm \cup MaxRate \cup Acceleration \cup MaxTravel
    BY Kinds DEF PlainSettings
  <2>2. n \in {0, 1, 2, 3, 10, 23, 26}
    BY DEF ByteSettings
  <2>3. n \notin {11, 12, 24, 25, 27, 30}
    BY <2>2
  <2>4. Default[n] \in {10, 25, 1, 250, 0}
    BY <2>1, <2>3 DEF Default
  <2> QED BY <2>4
<1>3. \A n \in FlagSettings : Default[n] = 0
  BY Kinds
     DEF Default, FlagSettings, StepsPerMm,
         MaxRate, Acceleration, MaxTravel
<1>4. \A n \in MaxTravel : Default[n] = -200 * 10000
  BY Kinds, OneIs DEF Default, StepsPerMm, MaxRate, Acceleration, MaxTravel
<1>5. \A n \in RpmSettings \cup Acceleration \cup PlainSettings : Default[n] \in Nat
  <2>1. \A n \in RpmSettings \cup Acceleration \cup PlainSettings :
          n \notin MaxTravel /\ n \in Numbers
    BY Kinds
  <2>2. \A n \in Numbers \ MaxTravel : Default[n] \in Nat
    BY OneIs DEF Default
  <2> QED BY <2>1, <2>2
<1>6. Default[0] = 10
  BY Some DEF Default, StepsPerMm, MaxRate, Acceleration, MaxTravel
<1>7. -(-200 * 10000) \in Nat
  OBVIOUS
<1> QED BY <1>1, <1>2, <1>3, <1>4, <1>5, <1>6, <1>7, Some DEF Coherent, Usual

(* A line that went back puts its setting back and disturbs no other one that
   is back; soft limits need homing to be back. *)
Back(v, c, n) == Short(c[n]) => Listed(n, v[n]) = c[n]
IsListing(c, v) == c = [n \in Numbers |-> Listed(n, v[n])]

LEMMA LinePutsBack ==
  ASSUME NEW n \in Numbers, NEW w, Coherent(w), Coherent(values),
         IsListing(copy, w), StoreText(<<n, 0>>, copy[n])
  PROVE  /\ \A m \in Numbers :
              Back(values, copy, m) => Back(values', copy, m)
         /\ n # 20 \/ Back(values, copy, 22) => Back(values', copy, n)
<1> DEFINE t == copy[n]
           r == ReadFloat(t)
<1>1. t = Listed(n, w[n]) /\ t \in Texts /\ r \in Nat
  <2>1. t = Listed(n, w[n])
    BY DEF IsListing
  <2>2. t \in Texts
    BY <2>1, ListedFits DEF Coherent
  <2> QED BY <2>1, <2>2, ReadIs
<1>2. values' = IF Refused(n, r) THEN values ELSE Stored(n, r)
  <2>1. n \in 0 .. 255
    BY Kinds
  <2>2. ReadFloat(<<n, 0>>) <= 255 * One /\ ReadFloat(<<n, 0>>) \div One = n
    BY <2>1, WholeIs
  <2>3. ~(ReadFloat(<<n, 0>>) > 255 * One)
    <3>1. ReadFloat(<<n, 0>>) = n * 10000
      BY <2>1, WholeIs
    <3> QED BY <2>1, <2>2, <3>1, OneIs
  <2> QED BY <2>2, <2>3 DEF StoreText
<1>3. n \in ByteSettings \cup FlagSettings =>
        /\ w[n] \in 0 .. 255 /\ t = <<w[n], 0>> /\ IntValue(r) = w[n]
  <2>1. ASSUME n \in ByteSettings \cup FlagSettings
        PROVE  w[n] \in 0 .. 255 /\ t = <<w[n], 0>>
    BY <1>1, <2>1, ListedIs DEF Coherent, Usual
  <2> QED BY <2>1, WholeIs
<1> HIDE DEF t, r
<1>4. CASE Refused(n, r)
  <2>1. n = 20 /\ IntValue(r) # 0 /\ values[22] = 0
    <3>1. n # 0
      <4>1. ASSUME n = 0 PROVE FALSE
        <5>1. IntValue(r) = w[0] /\ w[0] \in 0 .. 255 /\ w[0] >= 3
          BY <1>3, <4>1, Some DEF Coherent
        <5>2. IntValue(r) < 3
          BY <1>4, <4>1 DEF Refused
        <5> QED BY <5>1, <5>2
      <4> QED BY <4>1
    <3> QED BY <1>4, <3>1 DEF Refused
  <2>2. ~Back(values, copy, 22)
    <3>1. w[20] # 0
      BY <1>3, <2>1, Some
    <3>2. w[22] = 1
      BY <3>1, Some DEF Coherent, Usual
    <3>3. copy[22] = <<1, 0>>
      BY <3>2, Some, ListedIs DEF IsListing
    <3>4. Short(copy[22])
      BY <3>3, WholeIs
    <3>5. Listed(22, values[22]) = <<0, 0>>
      BY <2>1, Some, ListedIs
    <3> QED BY <3>3, <3>4, <3>5 DEF Back
  <2> QED BY <1>2, <1>4, <2>1, <2>2
<1>5. CASE ~Refused(n, r)
  <2> DEFINE s == Stored(n, r)
  <2>1. values' = s
    BY <1>2, <1>5
  <2>2. /\ s[n] = Converted(n, r)
        /\ \A m \in Numbers \ {n} :
             s[m] = IF m = 20 /\ n = 22 /\ IntValue(r) = 0 THEN 0 ELSE values[m]
    BY DEF Stored
  <2> HIDE DEF s
  <2>3. Back(s, copy, n)
    <3>1. Short(t) => Listed(n, Converted(n, r)) = t
      BY <1>1, ListedAgain DEF Coherent, r
    <3> QED BY <2>2, <3>1 DEF Back, t
  <2>4. ASSUME NEW m \in Numbers, m # n, Back(values, copy, m)
        PROVE  Back(s, copy, m)
    <3>1. CASE s[m] = values[m]
      BY <2>4, <3>1 DEF Back
    <3>2. CASE m = 20 /\ n = 22 /\ IntValue(r) = 0 /\ s[m] = 0
      <4>1. w[22] = 0
        BY <1>3, <3>2, Some
      <4>2. w[20] = 0
        BY <4>1 DEF Coherent
      <4>3. copy[20] = Listed(20, 0)
        BY <4>2, Some DEF IsListing
      <4> QED BY <3>2, <4>3 DEF Back
    <3> QED BY <2>2, <2>4, <3>1, <3>2
  <2> QED BY <2>1, <2>3, <2>4
<1> QED BY <1>4, <1>5

(* The listing has every number, each in its place. *)
Place(n) == Cardinality({m \in Numbers : m < n})

LEMMA IntervalsAreFinite ==
  /\ IsFiniteSet(0 .. 255)
  /\ \A k \in Nat \ {0} :
       IsFiniteSet(0 .. k - 1) /\ Cardinality(0 .. k - 1) = k
<1>1. ASSUME NEW k \in Nat \ {0}
      PROVE  IsFiniteSet(0 .. k - 1) /\ Cardinality(0 .. k - 1) = k
  <2> DEFINE b == k - 1
  <2>1. b \in Int /\ 0 \in Int /\ ~(0 > b) /\ b - 0 + 1 = k
    OBVIOUS
  <2> HIDE DEF b
  <2>2. /\ IsFiniteSet(0 .. b)
        /\ Cardinality(0 .. b) = IF 0 > b THEN 0 ELSE b - 0 + 1
    BY <2>1, FS_Interval
  <2> QED BY <2>1, <2>2 DEF b
<1>2. PICK k \in Nat \ {0} : k - 1 = 255
  <2>1. 256 \in Nat \ {0} /\ 256 - 1 = 255
    OBVIOUS
  <2> QED BY <2>1
<1>3. IsFiniteSet(0 .. k - 1)
  BY <1>1
<1> QED BY <1>1, <1>2, <1>3

LEMMA NumbersAreFinite ==
  /\ IsFiniteSet(Numbers) /\ Length \in Nat \ {0}
  /\ \A n \in Numbers : /\ IsFiniteSet({m \in Numbers : m < n})
                        /\ Place(n) \in 0 .. Length - 1
<1>1. IsFiniteSet(Numbers)
  <2>1. IsFiniteSet(0 .. 255)
    BY IntervalsAreFinite
  <2> QED BY <2>1, Kinds, FS_Subset
<1>2. Length \in Nat
  BY <1>1, FS_CardinalityType DEF Length
<1>3. ASSUME NEW n \in Numbers
      PROVE  /\ IsFiniteSet({m \in Numbers : m < n}) /\ Place(n) \in Nat
             /\ Place(n) < Length
  <2> DEFINE B == {m \in Numbers : m < n}
  <2>1. B \in SUBSET Numbers /\ n \notin B
    BY Kinds
  <2> HIDE DEF B
  <2>2. /\ IsFiniteSet(B) /\ Cardinality(B) <= Length
        /\ Length = Cardinality(B) => Numbers = B
    BY <1>1, <2>1, FS_Subset DEF Length
  <2>3. Cardinality(B) \in Nat /\ Cardinality(B) # Length
    BY <2>1, <2>2, FS_CardinalityType
  <2>4. Place(n) = Cardinality(B)
    BY DEF Place, B
  <2>5. IsFiniteSet({m \in Numbers : m < n})
    BY <2>2 DEF B
  <2> QED BY <1>2, <2>2, <2>3, <2>4, <2>5
<1>4. Length # 0
  <2>1. PICK n : n \in Numbers
    BY Some
  <2>2. Place(n) \in Nat /\ Place(n) < Length
    BY <1>3, <2>1
  <2> QED BY <1>2, <2>2
<1> QED BY <1>1, <1>2, <1>3, <1>4

LEMMA PlacesDiffer ==
  ASSUME NEW a \in Numbers, NEW b \in Numbers, a < b
  PROVE  Place(a) # Place(b)
<1> DEFINE A == {m \in Numbers : m < a}
           B == {m \in Numbers : m < b}
<1>1. A \in SUBSET B /\ a \in B /\ a \notin A /\ IsFiniteSet(B)
  BY Kinds, NumbersAreFinite
<1> HIDE DEF A, B
<1>2. Cardinality(A) # Cardinality(B)
  BY <1>1, FS_Subset
<1> QED BY <1>2 DEF A, B, Place

LEMMA OrderIsComplete ==
  /\ \A i \in 1 .. Length : Order[i] \in Numbers
  /\ \A n \in Numbers : \E i \in 1 .. Length : Order[i] = n
<1> DEFINE T == 0 .. Length - 1
           f == [n \in Numbers |-> Place(n)]
<1>1. \A a, b \in Numbers : Place(a) = Place(b) => a = b
  <2>1. ASSUME NEW a \in Numbers, NEW b \in Numbers, Place(a) = Place(b), a # b
        PROVE  FALSE
    <3>1. a < b \/ b < a
      BY <2>1, Kinds
    <3> QED BY <2>1, <3>1, PlacesDiffer
  <2> QED BY <2>1
<1>2. f \in Injection(Numbers, T)
  BY <1>1, NumbersAreFinite, Fun_IsInj
<1>3. IsFiniteSet(T) /\ Cardinality(T) = Length
  BY NumbersAreFinite, IntervalsAreFinite
<1>4. f \in Surjection(Numbers, T)
  BY <1>2, <1>3, FS_Injection DEF Length
<1>5. \A p \in T : \E n \in Numbers : f[n] = p
  BY <1>4 DEF Surjection
<1>6. ASSUME NEW i \in 1 .. Length
      PROVE  Order[i] \in Numbers /\ Place(Order[i]) = i - 1
  <2>1. i - 1 \in T
    BY NumbersAreFinite
  <2>2. \E n \in Numbers : Place(n) = i - 1
    BY <1>5, <2>1
  <2> QED BY <2>2 DEF Order, Place
<1>7. ASSUME NEW n \in Numbers
      PROVE  \E i \in 1 .. Length : Order[i] = n
  <2>1. Place(n) + 1 \in 1 .. Length /\ (Place(n) + 1) - 1 = Place(n)
    <3>1. Place(n) \in 0 .. Length - 1 /\ Length \in Nat
      BY NumbersAreFinite
    <3> QED BY <3>1
  <2>2. Place(Order[Place(n) + 1]) = Place(n) /\ Order[Place(n) + 1] \in Numbers
    BY <1>6, <2>1
  <2>3. Order[Place(n) + 1] = n
    BY <1>1, <2>2
  <2> QED BY <2>1, <2>3
<1> QED BY <1>6, <1>7

(* What went back so far is back, soft limits in the second pass. *)
ConsoleInv ==
  /\ Coherent(values)
  /\ sent \in 0 .. 2 * Length
  /\ copy = << >> => sent = 0
  /\ copy # << >> => \E w : Coherent(w) /\ IsListing(copy, w)
  /\ \A i \in 1 .. Length :
       /\ i <= sent /\ Order[i] # 20 => Back(values, copy, Order[i])
       /\ Length + i <= sent => Back(values, copy, Order[i])

LEMMA ConsoleStarts == ConsoleInit => ConsoleInv
BY NumbersAreFinite, DefaultIsCoherent DEF ConsoleInit, ConsoleInv

LEMMA ConsoleFresh ==
  ASSUME Coherent(values'), sent' = 0,
         copy' # << >> => \E w : Coherent(w) /\ IsListing(copy', w)
  PROVE  ConsoleInv'
BY NumbersAreFinite DEF ConsoleInv

LEMMA ConsoleSends == ConsoleInv /\ SendBack => ConsoleInv'
<1> SUFFICES ASSUME ConsoleInv, SendBack PROVE ConsoleInv'
  OBVIOUS
<1> DEFINE L == Length
           j == (sent % L) + 1
           n == Order[j]
<1>1. L \in Nat \ {0} /\ sent \in 0 .. 2 * L /\ sent < 2 * L
  BY NumbersAreFinite DEF ConsoleInv, SendBack
<1>2. /\ j \in 1 .. L
      /\ sent < L => j = sent + 1
      /\ sent >= L => j = sent - L + 1
  <2> HIDE DEF L
  <2>1. CASE sent < L
    <3>1. sent % L = sent
      BY <1>1, <2>1
    <3> QED BY <1>1, <2>1, <3>1
  <2>2. CASE sent >= L
    <3>1. sent % L = sent - L
      BY <1>1, <2>2
    <3> QED BY <1>1, <2>2, <3>1
  <2> QED BY <1>1, <2>1, <2>2
<1>3. PICK w : Coherent(w) /\ IsListing(copy, w)
  BY DEF ConsoleInv, SendBack
<1>4. n \in Numbers
  BY <1>2, OrderIsComplete
<1>5. StoreText(<<n, 0>>, copy[n]) /\ copy' = copy /\ sent' = sent + 1
  BY DEF SendBack
<1> HIDE DEF n, j, L
<1>6. Coherent(values) /\ copy[n] \in Texts
  BY <1>3, <1>4, ListedFits DEF ConsoleInv, IsListing, Coherent
<1>7. Coherent(values')
  BY <1>5, <1>6, TextStaysCoherent
<1>8. /\ \A m \in Numbers : Back(values, copy, m) => Back(values', copy, m)
      /\ n # 20 \/ Back(values, copy, 22) => Back(values', copy, n)
  BY <1>3, <1>4, <1>5, <1>6, LinePutsBack
<1>9. sent >= L => Back(values, copy, 22)
  <2>1. PICK i \in 1 .. L : Order[i] = 22
    BY OrderIsComplete, Some DEF L
  <2> QED BY <1>1, <2>1 DEF ConsoleInv, L
<1>10. ASSUME NEW i \in 1 .. L
       PROVE  /\ i <= sent + 1 /\ Order[i] # 20 => Back(values', copy, Order[i])
              /\ L + i <= sent + 1 => Back(values', copy, Order[i])
  <2>1. Order[i] \in Numbers
    BY OrderIsComplete DEF L
  <2>2. /\ i <= sent /\ Order[i] # 20 => Back(values', copy, Order[i])
        /\ L + i <= sent => Back(values', copy, Order[i])
    BY <1>8, <2>1 DEF ConsoleInv, L
  <2>3. \/ i = j
        \/ (i <= sent + 1 => i <= sent) /\ (L + i <= sent + 1 => L + i <= sent)
    BY <1>1, <1>2
  <2>4. i = j => Order[i] = n
    BY DEF n
  <2> QED BY <1>1, <1>2, <1>8, <1>9, <2>2, <2>3, <2>4
<1>11. sent + 1 \in 0 .. 2 * L
  BY <1>1
<1>12. copy # << >>
  BY DEF SendBack
<1> QED BY <1>3, <1>5, <1>7, <1>10, <1>11, <1>12 DEF ConsoleInv, L

LEMMA ConsoleKeeps == ConsoleInv /\ [ConsoleNext]_consoleVars => ConsoleInv'
<1> SUFFICES ASSUME ConsoleInv, [ConsoleNext]_consoleVars PROVE ConsoleInv'
  OBVIOUS
<1>1. /\ Coherent(values)
      /\ copy # << >> => \E w : Coherent(w) /\ IsListing(copy, w)
  BY DEF ConsoleInv
<1>2. CASE TypeSetting
  <2>1. PICK x \in Typed : StoreText(x[1], x[2])
    BY <1>2 DEF TypeSetting
  <2>2. x[2] \in Texts
    BY <2>1, ConsoleAssumption
  <2>3. Coherent(values')
    BY <1>1, <2>1, <2>2, TextStaysCoherent
  <2> QED BY <1>1, <1>2, <2>3, ConsoleFresh DEF TypeSetting
<1>3. CASE RestoreDefaults
  BY <1>1, <1>3, DefaultIsCoherent, ConsoleFresh DEF RestoreDefaults
<1>4. CASE ViewSettings
  <2>1. IsListing(copy', values)
    BY <1>4 DEF ViewSettings, IsListing, Listing
  <2> QED BY <1>1, <1>4, <2>1, ConsoleFresh DEF ViewSettings
<1>5. CASE SendBack
  BY <1>5, ConsoleSends
<1>6. CASE ModeChanges \/ UNCHANGED consoleVars
  <2>1. UNCHANGED <<values, copy, sent>>
    BY <1>6 DEF ModeChanges, consoleVars
  <2> QED BY <2>1 DEF ConsoleInv
<1> QED BY <1>2, <1>3, <1>4, <1>5, <1>6 DEF ConsoleNext

LEMMA ConsoleSuffices == ConsoleInv => BackupRestores
<1> SUFFICES ASSUME ConsoleInv PROVE BackupRestores
  OBVIOUS
<1>1. Length \in Nat \ {0}
  BY NumbersAreFinite
<1>2. ASSUME NEW n \in Numbers, NEW i \in 1 .. Length, Order[i] = n
      PROVE  /\ sent = Length /\ n # 20 => Back(values, copy, n)
             /\ sent = 2 * Length => Back(values, copy, n)
  BY <1>1, <1>2 DEF ConsoleInv
<1>3. \A n \in Numbers :
        Back(values, copy, n) <=> (Short(copy[n]) => Listing[n] = copy[n])
  BY DEF Back, Listing
<1> QED BY <1>2, <1>3, OrderIsComplete DEF BackupRestores

(* A listing kept by the front end brings the settings back, for every text
   typed and whatever was stored or restored in between: system_execute_line
   reads what report_grbl_settings printed, and settings_store_global_setting
   keeps soft limits bound to homing on the way. *)
THEOREM BackupAlwaysRestores == ConsoleSpec => []BackupRestores
<1>1. ConsoleInv /\ [ConsoleNext]_consoleVars => ConsoleInv'
  BY ConsoleKeeps
<1> QED BY <1>1, ConsoleStarts, ConsoleSuffices, PTL DEF ConsoleSpec

-----------------------------------------------------------------------------
(* A full ring would need more unanswered characters than the budget: there
   is at least one more on the wire, the one that would be dropped. *)
CountingIInv == CountingTypeOK /\ Unanswered <= Budget /\ NoOverrun

LEMMA CountingInitIInv == BudgetFits /\ CountingInit => CountingIInv
<1> SUFFICES ASSUME BudgetFits, CountingInit PROVE CountingIInv
  OBVIOUS
<1>1. overrun \in BOOLEAN /\ bound \in BOOLEAN /\ NoOverrun
  BY DEF CountingInit, NoOverrun
<1>2. wire \in Nat /\ ring \in 0 .. Capacity /\ held \in Nat
      /\ Unanswered <= Budget
  BY DEF BudgetFits, CountingInit, Unanswered
<1>3. QED
  BY <1>1, <1>2, Zenon DEF CountingIInv, CountingTypeOK

LEMMA CountingStepKeepsIInv == BudgetFits /\ CountingIInv /\ [CountingNext]_countingVars => CountingIInv'
<1> SUFFICES ASSUME BudgetFits, CountingIInv, [CountingNext]_countingVars PROVE CountingIInv'
  OBVIOUS
<1>0. /\ wire \in Nat /\ ring \in Nat /\ held \in Nat /\ ring <= Capacity
      /\ overrun = FALSE /\ bound \in BOOLEAN
      /\ wire + ring + held <= Budget
      /\ Budget \in Nat /\ Capacity \in Nat /\ Budget <= Capacity
  BY DEF BudgetFits, CountingIInv, CountingTypeOK, Unanswered, NoOverrun
<1>1. ASSUME NEW n \in 1 .. Budget, Send(n) PROVE CountingIInv'
  BY <1>0, <1>1 DEF Send, CountingIInv, CountingTypeOK, Unanswered, NoOverrun
<1>2. CASE Arrive
  BY <1>0, <1>2 DEF Arrive, CountingIInv, CountingTypeOK, Unanswered, NoOverrun
<1>3. CASE Overrun
  BY <1>0, <1>3 DEF Overrun
<1>4. CASE Take
  BY <1>0, <1>4 DEF Take, CountingIInv, CountingTypeOK, Unanswered, NoOverrun
<1>5. ASSUME NEW n \in 1 .. Budget, Answer(n) PROVE CountingIInv'
  BY <1>0, <1>5 DEF Answer, CountingIInv, CountingTypeOK, Unanswered, NoOverrun
<1>6. CASE Breach
  <2>1. overrun' \in BOOLEAN /\ bound' \in BOOLEAN /\ NoOverrun'
    BY <1>0, <1>6 DEF Breach, NoOverrun
  <2>2. wire' \in Nat /\ ring' \in 0 .. Capacity /\ held' \in Nat
        /\ Unanswered' <= Budget
    BY <1>0, <1>6 DEF Breach, Unanswered
  <2>3. QED
    BY <2>1, <2>2, Zenon DEF CountingIInv, CountingTypeOK
<1>7. CASE UNCHANGED countingVars
  BY <1>0, <1>7 DEF countingVars, CountingIInv, CountingTypeOK, Unanswered, NoOverrun
<1>8. QED
  BY <1>1, <1>2, <1>3, <1>4, <1>5, <1>6, <1>7 DEF CountingNext

(* Whatever lines are sent and however late the link, the firmware and its
   answers are, a host that keeps to its budget never overruns the ring. *)
THEOREM BudgetPreventsOverrun ==
  ASSUME BudgetFits PROVE CountingSpec => []NoOverrun
<1>1. CountingIInv => NoOverrun
  BY DEF CountingIInv
<1>2. QED
  BY <1>1, CountingInitIInv, CountingStepKeepsIInv, PTL DEF CountingSpec
=============================================================================

----------------------------- MODULE GCodeBlock -----------------------------
(***************************************************************************)
(* Steps 1 to 3 of gc_execute_line (grbl/gcode.c) as operators: what one   *)
(* line means in a parser state, and whether the line is an error.  A line *)
(* is the set of its G and M commands and the values of its letter words,  *)
(*     [jog |-> BOOLEAN, cmds |-> SUBSET Commands, val |-> Words -> Int],  *)
(* so a word cannot be repeated (the code rejects a line that repeats one) *)
(* and the order of the words is lost, as it is in the code.  Numbers are  *)
(* whole millimetres.  The order of the checks only decides which error is *)
(* reported, not whether one is.                                           *)
(***************************************************************************)
EXTENDS Integers, Sequences, FiniteSets, FiniteSetsExt

CONSTANTS InchFactor,          \* MM_PER_INCH, 25.4, as a whole number
          MAX_LINE_NUMBER, MAX_TOOL_NUMBER

Axes == {"X", "Y", "Z"}
Zero == [a \in Axes |-> 0]

(* The non-modal commands, and the modal groups a line may use once each. *)
MotionCommands == {"G0", "G1", "G2", "G3", "G38.2", "G38.3", "G38.4", "G38.5"}
NonModal ==
  {"G4", "G10", "G28", "G28.1", "G30", "G30.1", "G53", "G92", "G92.1"}
Planes == {"G17", "G18", "G19"}
DistanceModes == {"G90", "G91"}
FeedModes == {"G93", "G94"}
UnitModes == {"G20", "G21"}
ToolOffsets == {"G43.1", "G49"}
Coolants == {"M8", "M9"}
CoordSystems == <<"G54", "G55", "G56", "G57", "G58", "G59">>
CoordSelects == {CoordSystems[i] : i \in 1..6}
Flows == {"M0", "M1", "M2", "M30"}
Spindles == {"M3", "M4", "M5"}

MODAL_GROUPS ==
  {NonModal, MotionCommands \cup {"G80"}, Planes, DistanceModes, {"G91.1"},
   FeedModes, UnitModes, {"G40"}, ToolOffsets, CoordSelects, {"G61"}, Flows,
   Spindles, Coolants}
Commands == UNION MODAL_GROUPS

-----------------------------------------------------------------------------
(* Step 2: the words of the line.  The mode of a group is the line's command
   of that group or, without one, the mode in force. *)
Mode(l, group, old) ==
  IF l.cmds \cap group = {} THEN old
  ELSE CHOOSE c \in l.cmds \cap group : TRUE

Words(l) == DOMAIN l.val
AxisWords(l) == Words(l) \cap Axes
OffsetWord == [X |-> "I", Y |-> "J", Z |-> "K"]
Value(l, w) == IF w \in Words(l) THEN l.val[w] ELSE 0

Motion(st, l) == Mode(l, MotionCommands \cup {"G80"},
                      IF l.jog THEN "G1" ELSE st.motion)
FeedMode(st, l) == Mode(l, FeedModes, IF l.jog THEN "G94" ELSE st.feedMode)
Units(st, l) == Mode(l, UnitModes, st.units)
Distance(st, l) == Mode(l, DistanceModes, st.distance)
CoordSelect(st, l) == Mode(l, CoordSelects, st.coord)
Command(l) == Mode(l, NonModal, "none")
Tool(st, l) == Mode(l, ToolOffsets, st.tool)

(* The G and M commands that claim the axis words. *)
ClaimsAxes == {"G10", "G28", "G30", "G92"} \cup MotionCommands
                                           \cup ToolOffsets
Claim(l) ==
  IF l.cmds \cap {"G10", "G28", "G30", "G92"} # {} THEN "non_modal"
  ELSE IF l.cmds \cap MotionCommands # {} THEN "motion"
  ELSE IF l.cmds \cap ToolOffsets # {} THEN "tool_length"
  ELSE IF AxisWords(l) = {} THEN "none" ELSE "motion"

WordErrors(l) ==
  \/ ~(l.cmds \subseteq Commands)
  \/ \E g \in MODAL_GROUPS : Cardinality(l.cmds \cap g) > 1
  \/ Cardinality(l.cmds \cap ClaimsAxes) > 1
  \/ \E w \in Words(l) \cap {"F", "N", "P", "T", "S"} : l.val[w] < 0
  \/ Value(l, "T") > MAX_TOOL_NUMBER
  \/ Value(l, "N") > MAX_LINE_NUMBER

-----------------------------------------------------------------------------
(* Step 3: values in millimetres and machine coordinates. *)
Scale(st, l) == IF Units(st, l) = "G20" THEN InchFactor ELSE 1

Feed(st, l) ==
  CASE l.jog -> Value(l, "F") * Scale(st, l)
    [] ~l.jog /\ FeedMode(st, l) = "G93" -> Value(l, "F")
    [] ~l.jog /\ FeedMode(st, l) = "G94" ->
         IF st.feedMode = "G93" THEN Value(l, "F")
         ELSE IF "F" \in Words(l) THEN Value(l, "F") * Scale(st, l)
         ELSE st.feed

Speed(st, l) == IF "S" \in Words(l) THEN l.val["S"] ELSE st.speed

(* The records the line reads: the system it selects, if that is a new one,
   the one G10 changes, the stored position it goes to. *)
G10Record(st, l) ==
  IF Value(l, "P") = 0 THEN CoordSelect(st, l) ELSE CoordSystems[l.val["P"]]

Reads(st, l) ==
  (IF CoordSelect(st, l) # st.coord THEN {CoordSelect(st, l)} ELSE {})
  \cup (IF Command(l) = "G10" THEN {G10Record(st, l)} ELSE {})
  \cup ({Command(l)} \cap {"G28", "G30"})

(* The coordinate system in force once the line has selected one. *)
BlockSystem(st, store, l) ==
  IF CoordSelect(st, l) = st.coord THEN st.coordSystem
  ELSE store[CoordSelect(st, l)]

ToolOffset(st, a) == IF a = "Z" THEN st.toolOffset ELSE 0

(* The point the axis words name; an axis that is not named stays.  A line
   with no axis words has no target computed: it keeps the zeros the block
   starts with, and a jog ($J=F100) goes there. *)
Target(st, store, l) ==
  [a \in Axes |->
     IF AxisWords(l) = {} THEN 0
     ELSE IF a \notin AxisWords(l) THEN st.position[a]
     ELSE LET v == l.val[a] * Scale(st, l)
          IN CASE Command(l) = "G53" -> v
               [] Distance(st, l) = "G91" -> v + st.position[a]
               [] OTHER -> v + BlockSystem(st, store, l)[a]
                             + st.coordOffset[a] + ToolOffset(st, a)]

(* G10: the record with the named axes set to a value (L2), or so that the
   current position reads as that value (L20). *)
G10DataMutant(st, store, l) ==
  [a \in Axes |->
     LET v == Value(l, a) * Scale(st, l)
     IN CASE a \notin AxisWords(l) -> store[G10Record(st, l)][a]
          [] Value(l, "L") = 20 -> st.position[a] - v - ToolOffset(st, a)
          [] OTHER -> v]

G10Data(st, store, l) ==
  [a \in Axes |->
     LET v == Value(l, a) * Scale(st, l)
     IN CASE a \notin AxisWords(l) -> store[G10Record(st, l)][a]
          [] Value(l, "L") = 20 -> st.position[a] - st.coordOffset[a] - v
                                     - ToolOffset(st, a)
          [] OTHER -> v]

(* G92: the offset under which the current position reads as the values. *)
G92Offset(st, store, l) ==
  [a \in Axes |->
     IF a \notin AxisWords(l) THEN st.coordOffset[a]
     ELSE st.position[a] - BlockSystem(st, store, l)[a]
            - l.val[a] * Scale(st, l) - ToolOffset(st, a)]

(* G28, G30: the stored position, of the named axes if any are named. *)
HomePosition(st, store, l) ==
  [a \in Axes |-> IF AxisWords(l) = {} \/ a \in AxisWords(l)
                  THEN store[Command(l)][a] ELSE st.position[a]]

-----------------------------------------------------------------------------
(* Arcs.  The two axes of the plane and the third one. *)
PlaneAxes(st, l) ==
  CASE Mode(l, Planes, st.plane) = "G17" -> <<"X", "Y", "Z">>
    [] Mode(l, Planes, st.plane) = "G18" -> <<"Z", "X", "Y">>
    [] OTHER -> <<"Y", "Z", "X">>

InPlane(st, l, v) == <<v[PlaneAxes(st, l)[1]], v[PlaneAxes(st, l)[2]]>>
Square(v) == v[1] * v[1] + v[2] * v[2]
Minus(v, w) == <<v[1] - w[1], v[2] - w[2]>>

ArcDelta(st, store, l) ==
  Minus(InPlane(st, l, Target(st, store, l)), InPlane(st, l, st.position))

(* R format: 4 r^2 - d^2 is h^2 d^2 for a whole h in the arcs enumerated. *)
RadiusRoot(st, store, l) ==
  LET d2 == Square(ArcDelta(st, store, l))
      r == Value(l, "R") * Scale(st, l)
  IN {h \in 0 .. 2 * (IF r < 0 THEN -r ELSE r) : h * h * d2 = 4 * r * r - d2}

(* The centre, from the current position: on the right of the travel for a
   clockwise arc of less than half a turn, on the left for more (R < 0). *)
ArcOffset(st, store, l) ==
  IF "R" \in Words(l)
  THEN LET d == ArcDelta(st, store, l)
           h == CHOOSE n \in RadiusRoot(st, store, l) : TRUE
           s == IF (Motion(st, l) = "G2") = (l.val["R"] >= 0) THEN -h ELSE h
       IN <<(d[1] - d[2] * s) \div 2, (d[2] + d[1] * s) \div 2>>
  ELSE LET off(a) == Value(l, OffsetWord[a]) * Scale(st, l)
       IN <<off(PlaneAxes(st, l)[1]), off(PlaneAxes(st, l)[2])>>

(* The radius vector after n quarter turns against the clock. *)
Turned(r, n) == CASE n % 4 = 0 -> r
                  [] n % 4 = 1 -> <<-r[2], r[1]>>
                  [] n % 4 = 2 -> <<-r[1], -r[2]>>
                  [] OTHER -> <<r[2], -r[1]>>

(* mc_arc with one chord per quarter turn: the points on the way, then the
   target; a whole circle if the target is the current position. *)
ArcPath(st, store, l) ==
  LET off == ArcOffset(st, store, l)
      target == Target(st, store, l)
      r == <<-off[1], -off[2]>>
      rt == Minus(ArcDelta(st, store, l), off)
      dir == IF Motion(st, l) = "G2" THEN -1 ELSE 1
      turns == {n \in 1..4 : Turned(r, dir * n) = rt}
      chords == IF turns = {} THEN 1 ELSE Min(turns)
      p == PlaneAxes(st, l)
      point(i) == LET v == Turned(r, dir * i)
                  IN [st.position EXCEPT
                        ![p[1]] = @ + off[1] + v[1],
                        ![p[2]] = @ + off[2] + v[2],
                        ![p[3]] = @ + (i * (target[p[3]] - @)) \div chords]
  IN [i \in 1..chords |-> IF i = chords THEN target ELSE point(i)]

ArcErrors(st, store, l) ==
  LET plane == {PlaneAxes(st, l)[1], PlaneAxes(st, l)[2]}
      d == ArcDelta(st, store, l)
      off == ArcOffset(st, store, l)
      r == Value(l, "R") * Scale(st, l)
  IN \/ AxisWords(l) \cap plane = {}
     \/ /\ "R" \in Words(l)
        /\ \/ Target(st, store, l) = st.position
           \/ 4 * r * r < Square(d)
     \/ /\ "R" \notin Words(l)
        /\ \/ {OffsetWord[a] : a \in plane} \cap Words(l) = {}
           \/ Square(Minus(d, off)) # Square(off)

-----------------------------------------------------------------------------
(* The remaining errors of step 3. *)
Arc(st, l) == Motion(st, l) \in {"G2", "G3"}
Probe(st, l) == Motion(st, l) \in {"G38.2", "G38.3", "G38.4", "G38.5"}

(* The claim after the checks: a G0 or G1 with no axis words and a G28 or G30
   with none lose it. *)
AxisCommand(st, l) ==
  IF AxisWords(l) = {}
     /\ \/ Command(l) \in {"G28", "G30"}
        \/ Claim(l) = "motion" /\ Motion(st, l) \in {"G0", "G1"}
  THEN "none" ELSE Claim(l)

UsedWords(st, l) ==
  {"N", "F"}
  \cup (IF l.jog THEN {} ELSE {"S", "T"})
  \cup (IF Command(l) = "G4" THEN {"P"} ELSE {})
  \cup (IF Command(l) = "G10" THEN {"P", "L"} ELSE {})
  \cup (IF AxisCommand(st, l) = "none" THEN {} ELSE Axes)
  \cup (IF Arc(st, l) /\ Claim(l) = "motion"
        THEN IF "R" \in Words(l) THEN {"R"} ELSE {"I", "J", "K"} ELSE {})

MotionErrors(st, store, l) ==
  \/ Motion(st, l) = "G80" /\ AxisWords(l) # {}
  \/ /\ Claim(l) = "motion"
     /\ Motion(st, l) \notin {"G0", "G80"}
     /\ \/ Feed(st, l) = 0
        \/ FeedMode(st, l) = "G93" /\ "F" \notin Words(l)
        \/ Arc(st, l) /\ ArcErrors(st, store, l)
        \/ Probe(st, l) /\ \/ AxisWords(l) = {}
                           \/ Target(st, store, l) = st.position

(* line 528: P or L is enough for G10; line 530: P6 is the last system. *)
CommandErrors(st, l) ==
  \/ Command(l) = "G4" /\ "P" \notin Words(l)
  \/ l.cmds \cap {"G43.1"} # {} /\ AxisWords(l) # {"Z"}
  \/ Command(l) \in {"G10", "G92"} /\ AxisWords(l) = {}
  \/ /\ Command(l) = "G10"
     /\ \/ Words(l) \cap {"P", "L"} = {}
        \/ Value(l, "P") > 6
        \/ Value(l, "L") \notin {2, 20}
        \/ Value(l, "L") = 2 /\ "R" \in Words(l)
  \/ Command(l) = "G53" /\ Motion(st, l) \notin {"G0", "G1"}

(* line 856: the mask of the modal groups a jog may use is written
   bit(G3) | bit(G6 | bit(G0)), which is groups G3 (G90, G91) and G7 (G40). *)
JogErrors(l) ==
  /\ l.jog
  /\ \/ "F" \notin Words(l)
     \/ ~(l.cmds \subseteq {"G90", "G91", "G40"})

(* A line the parser refuses whatever the stored records hold. *)
Rejected(st, store, l) == \/ WordErrors(l)
                          \/ CommandErrors(st, l)
                          \/ MotionErrors(st, store, l)
                          \/ JogErrors(l)
                          \/ ~(Words(l) \subseteq UsedWords(st, l))
=============================================================================

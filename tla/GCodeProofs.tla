---------------------------- MODULE GCodeProofs ----------------------------
(***************************************************************************)
(* Proofs about module GCode, for every set of lines, size of the queue,   *)
(* range of positions and range of the pen.                                *)
(*                                                                         *)
(* The properties of GCode speak of the time between two lines; what makes *)
(* them inductive is what holds in the middle of one, while its handler    *)
(* waits for the planner queue and the machine and the host go on:         *)
(*   TodoFits     which sections can be left, and in which order;          *)
(*   StateFits    what the machine may be doing meanwhile;                 *)
(*   PlaceFits    where the parser, or what the handler still has to plan, *)
(*                says the queue ends;                                     *)
(*   SystemFits   that the work coordinates, in force and about to be, are *)
(*                those stored;                                            *)
(*   ZeroFits     that the offsets worked out when the line was parsed are *)
(*                still right when they are taken;                         *)
(*   PenFits      which speed the pen shows, or will show when the queue   *)
(*                has drained.                                             *)
(* There is one lemma for each action, and for each kind of step one about *)
(* the parts of the invariant it cannot disturb (the lemmas ..Kept).       *)
(***************************************************************************)
EXTENDS GCode, TLAPS

-----------------------------------------------------------------------------
(* What the handler of a line does, in order. *)
StepOrder == [sync |-> 0, speed |-> 1, spindle |-> 2, coolant |-> 3, dwell |-> 4,
          tool |-> 5, coord |-> 6, command |-> 7, drop |-> 8, line |-> 9,
          motion |-> 10, probe |-> 10, probing |-> 10, flow |-> 11,
          paused |-> 11, jog |-> 11]
Steps == DOMAIN StepOrder

(* The steps a section turns into. *)
Inner == {"sync", "drop", "line", "probe", "probing", "paused", "jog"}

Increasing(s) == \A i, j \in DOMAIN s : i < j => StepOrder[s[i]] < StepOrder[s[j]]

(* Only the first step is an inner one, or the line or jog that waits because
   it has dropped a point. *)
OneInner(s) ==
  /\ \A i \in DOMAIN s : s[i] \in Inner => i = 1 \/ (i = 2 /\ s[1] = "drop")
  /\ s # <<>> /\ s[1] = "drop" => Len(s) >= 2 /\ s[2] \in {"line", "jog"}

Jogging == {<<"jog">>, <<"drop", "jog">>}

TodoFits ==
  /\ todo \in Seq(Steps)
  /\ Increasing(todo)
  /\ OneInner(todo)
  /\ todo # <<>> => IF b.jog THEN todo \in Jogging
                    ELSE \A i \in DOMAIN todo : todo[i] # "jog"

Holds(s, x) == \E i \in DOMAIN s : s[i] = x
Pending(x) == Holds(todo, x)

ModesType ==
  [motion : MotionCommands \cup {"G80"}, plane : Planes,
   distance : DistanceModes, feedMode : FeedModes, units : UnitModes,
   coord : CoordSelects, tool : ToolOffsets, spindle : Spindles,
   coolant : Coolants, feed : Int, speed : Nat, position : Grid,
   coordSystem : Grid, coordOffset : Offsets, toolOffset : Int]

QueueType == [to : Grid, spindle : Spindles, s : Nat, wco : Offsets]

(* The line in execution. *)
BlockFits(x) ==
  /\ x.jog \in BOOLEAN
  /\ x.path \in Seq(Grid) /\ x.path # <<>>
  /\ x.spindle \in Spindles /\ x.coolant \in Coolants
  /\ x.coord \in CoordSelects /\ x.coordSystem \in Grid
  /\ x.toolOffset \in Int /\ x.s \in Nat
  /\ x.command = "G10" => x.record \in CoordSelects /\ x.data \in Grid
  /\ x.command # "G10" => x.record = "none"
  /\ x.command \in {"G28", "G30"} => x.data \in Grid
  /\ x.command = "G92" => x.data \in Offsets
  /\ x.laserDisable = (x.motion \notin Cutting)

TypesFit ==
  /\ gc \in ModesType
  /\ todo # <<>> => BlockFits(b)
  /\ path \in Seq(Grid)
  /\ queue \in Seq(QueueType) /\ Len(queue) <= BlockBuffer
  /\ pos \in Grid
  /\ pwm \in {0} \cup PwmMin..PwmMax
  /\ flood \in BOOLEAN /\ abort \in BOOLEAN
  /\ state \in {"IDLE", "CYCLE", "JOG", "HOLD", "ALARM", "CHECK"}
  /\ stored \in [DOMAIN stored -> Grid]
  /\ "G54" \in DOMAIN stored /\ DOMAIN stored \subseteq Records
  /\ lost \subseteq {"speed", "place"}

(* The machine's state while a line is executed. *)
StateFits ==
  /\ todo # <<>> /\ ~b.jog => state # "JOG" /\ gc.motion = b.motion
  /\ ~abort /\ At("paused") => state = "HOLD"
  /\ ~abort /\ At("probing") => state = "CYCLE" /\ queue # <<>>
  /\ At("probe") \/ At("probing") => gc.motion \notin Cutting
  /\ Pending("motion") => b.command \notin {"G28", "G30"}

Live == ~abort /\ state # "CHECK"

(* The place. *)
Final == IF b.command \in {"G28", "G30"} THEN b.data ELSE Last(b.path)
Misled == "place" \in lost /\ queue = <<>>
During(s) == At(s) \/ (At("drop") /\ todo[2] = s)

PlaceFits ==
  Live =>
    /\ todo = <<>> \/ Head(todo) \notin {"line", "jog", "drop", "probing"} =>
         gc.position = PlannedEnd \/ Misled
    /\ During("line") => IF path = <<>> THEN PlannedEnd = Final
                                        ELSE Last(path) = Final
    /\ During("jog") =>
         IF path = <<>> THEN PlannedEnd = Last(b.path) \/ Misled
                        ELSE Last(path) = Last(b.path)

(* The work coordinates. *)
SystemFits ==
  Live =>
    /\ gc.coord \in DOMAIN stored /\ gc.coordSystem = stored[gc.coord]
    /\ Pending("coord") =>
         b.coord \in DOMAIN stored /\ b.coordSystem = stored[b.coord]

ZeroFits ==
  Pending("command") =>
    /\ ~Pending("coord") => gc.coordSystem = b.coordSystem
    /\ b.command \in {"G10", "G92"} => ~Pending("tool")
    /\ DOMAIN b.named \subseteq Axes
    /\ \A a \in DOMAIN b.named :
         /\ b.named[a] \in Int
         /\ b.command = "G92" =>
              b.data[a] = gc.position[a] - b.coordSystem[a] - b.named[a]
                            - ToolOffset(gc, a)
         /\ b.command = "G10" /\ b.L = 20 =>
              b.data[a] = gc.position[a] - gc.coordOffset[a] - b.named[a]
                            - ToolOffset(gc, a)

(* The pen. *)
Showing ==
  \/ Pending("speed") \/ Pending("motion") \/ At("drop")
  \/ At("line") /\ path # <<>>

PenFits ==
  Live =>
    /\ \A i \in DOMAIN queue : queue[i].spindle = gc.spindle
    /\ queue = <<>> /\ pwm > Rest => gc.spindle = "M3"
    /\ At("drop") => gc.spindle = "M3"
    /\ todo # <<>> /\ ~b.jog /\ ~Pending("speed") => gc.speed = b.s
    /\ Pending("speed") /\ b.isMotion => Pending("motion")
    /\ ~Showing /\ gc.spindle = "M3" /\ gc.motion \in Cutting =>
         /\ queue # <<>> => Last(queue).s = gc.speed
         /\ queue = <<>> /\ pwm > Rest /\ "speed" \notin lost =>
              pwm = Pwm(gc.speed)

GCodeIInv == /\ TodoFits /\ TypesFit /\ StateFits /\ PlaceFits /\ SystemFits
             /\ ZeroFits /\ PenFits

-----------------------------------------------------------------------------
(* The steps of a line. *)

LEMMA Orders ==
  /\ \A x \in Steps : StepOrder[x] \in 0..11
  /\ StepOrder["sync"] = 0 /\ StepOrder["speed"] = 1
  /\ StepOrder["spindle"] = 2 /\ StepOrder["coolant"] = 3
  /\ StepOrder["dwell"] = 4 /\ StepOrder["tool"] = 5
  /\ StepOrder["coord"] = 6 /\ StepOrder["command"] = 7
  /\ StepOrder["drop"] = 8 /\ StepOrder["line"] = 9
  /\ StepOrder["motion"] = 10 /\ StepOrder["probe"] = 10
  /\ StepOrder["probing"] = 10 /\ StepOrder["flow"] = 11
  /\ StepOrder["paused"] = 11 /\ StepOrder["jog"] = 11
  /\ Steps = {"sync", "speed", "spindle", "coolant", "dwell", "tool", "coord",
               "command", "drop", "line", "motion", "probe", "probing", "flow",
               "paused", "jog"}
BY DEF StepOrder, Steps

LEMMA TailFits ==
  ASSUME NEW s \in Seq(Steps), s # <<>>, Increasing(s), OneInner(s)
  PROVE  /\ Tail(s) \in Seq(Steps)
         /\ Increasing(Tail(s)) /\ OneInner(Tail(s))
         /\ Head(s) \in Steps /\ Head(s) = s[1]
         /\ \A x : Holds(Tail(s), x) =>
              /\ Holds(s, x) /\ x \in Steps /\ StepOrder[Head(s)] < StepOrder[x]
              /\ Head(s) # "drop" => x \notin Inner
         /\ \A x : Holds(s, x) => x = Head(s) \/ Holds(Tail(s), x)
<1>0. Len(s) \in Nat /\ Len(s) >= 1 /\ DOMAIN s = 1..Len(s) /\ Head(s) = s[1]
      /\ Tail(s) \in Seq(Steps)
  OBVIOUS
<1>1. Len(Tail(s)) = Len(s) - 1 /\ DOMAIN Tail(s) = 1..(Len(s) - 1)
      /\ \A i \in DOMAIN Tail(s) : Tail(s)[i] = s[i + 1] /\ i + 1 \in DOMAIN s
  BY <1>0
<1>2. \A i \in DOMAIN s : i # 1 =>
         i - 1 \in DOMAIN Tail(s) /\ Tail(s)[i - 1] = s[i]
  BY <1>0, <1>1
<1> DEFINE t == Tail(s)
<1> HIDE DEF t
<1>3. Increasing(t)
  <2> SUFFICES ASSUME NEW i \in DOMAIN t, NEW j \in DOMAIN t, i < j
               PROVE  StepOrder[t[i]] < StepOrder[t[j]]
    BY DEF Increasing
  <2>1. i + 1 \in DOMAIN s /\ j + 1 \in DOMAIN s /\ i + 1 < j + 1
        /\ t[i] = s[i + 1] /\ t[j] = s[j + 1]
    BY <1>0, <1>1 DEF t
  <2> QED BY <2>1 DEF Increasing
<1>4. OneInner(t)
  <2>1. \A i \in DOMAIN t : t[i] \in Inner => i = 1
    BY <1>0, <1>1 DEF OneInner, t
  <2>2. t # <<>> => t[1] # "drop"
    <3> SUFFICES ASSUME t # <<>>, t[1] = "drop" PROVE FALSE
      OBVIOUS
    <3>1. 1 \in DOMAIN t
      BY <1>0, <1>1 DEF t
    <3>2. 2 \in DOMAIN s /\ s[2] = "drop"
      BY <1>1, <3>1 DEF t
    <3> QED BY <3>2 DEF OneInner, Inner
  <2> QED BY <2>1, <2>2 DEF OneInner
<1>5. ASSUME NEW x, Holds(t, x)
      PROVE  /\ Holds(s, x) /\ x \in Steps /\ StepOrder[Head(s)] < StepOrder[x]
             /\ Head(s) # "drop" => x \notin Inner
  <2>1. PICK i \in DOMAIN t : t[i] = x
    BY <1>5 DEF Holds
  <2>2. i + 1 \in DOMAIN s /\ s[i + 1] = x /\ 1 < i + 1 /\ 1 \in DOMAIN s
    BY <2>1, <1>0, <1>1 DEF t
  <2>3. StepOrder[s[1]] < StepOrder[s[i + 1]]
    BY <2>2 DEF Increasing
  <2>4. s[1] # "drop" => s[i + 1] \notin Inner
    BY <2>2 DEF OneInner
  <2> QED BY <1>0, <2>2, <2>3, <2>4 DEF Holds
<1>6. ASSUME NEW x, Holds(s, x) PROVE x = Head(s) \/ Holds(t, x)
  BY <1>0, <1>2, <1>6 DEF Holds, t
<1> QED BY <1>0, <1>3, <1>4, <1>5, <1>6 DEF t

(* A step put before others. *)
LEMMA ConsFits ==
  ASSUME NEW t \in Seq(Steps), Increasing(t), NEW x \in Steps,
         \A y : Holds(t, y) => StepOrder[x] < StepOrder[y]
  PROVE  /\ <<x>> \o t \in Seq(Steps) /\ <<x>> \o t # <<>>
         /\ Increasing(<<x>> \o t)
         /\ Head(<<x>> \o t) = x /\ Tail(<<x>> \o t) = t
         /\ \A y : Holds(<<x>> \o t, y) <=> y = x \/ Holds(t, y)
<1> DEFINE s == <<x>> \o t
<1>1. s \in Seq(Steps) /\ s # <<>> /\ Head(s) = x /\ Tail(s) = t
      /\ Len(s) = Len(t) + 1 /\ s[1] = x /\ Len(t) \in Nat
      /\ DOMAIN s = 1..(Len(t) + 1) /\ DOMAIN t = 1..Len(t)
  OBVIOUS
<1>2. \A i \in DOMAIN s : i # 1 => i - 1 \in DOMAIN t /\ s[i] = t[i - 1]
  BY <1>1
<1>3. \A i \in DOMAIN t : i + 1 \in DOMAIN s /\ s[i + 1] = t[i]
  BY <1>1
<1> HIDE DEF s
<1>4. \A y : Holds(s, y) <=> y = x \/ Holds(t, y)
  <2>1. ASSUME NEW y, Holds(s, y) PROVE y = x \/ Holds(t, y)
    BY <2>1, <1>1, <1>2 DEF Holds
  <2>2. ASSUME NEW y, Holds(t, y) PROVE Holds(s, y)
    BY <2>2, <1>3 DEF Holds
  <2>3. Holds(s, x)
    BY <1>1 DEF Holds
  <2> QED BY <2>1, <2>2, <2>3
<1>5. ASSUME NEW i \in DOMAIN s, NEW j \in DOMAIN s, i < j
      PROVE  StepOrder[s[i]] < StepOrder[s[j]]
  <2>1. j # 1 /\ j - 1 \in DOMAIN t /\ s[j] = t[j - 1]
    BY <1>1, <1>2, <1>5
  <2>2. CASE i = 1
    BY <1>1, <2>1, <2>2 DEF Holds
  <2>3. CASE i # 1
    BY <1>1, <1>2, <1>5, <2>1, <2>3 DEF Increasing
  <2> QED BY <2>2, <2>3
<1> QED BY <1>1, <1>4, <1>5 DEF s, Increasing

(* The sections a line has something to do in, one after the other. *)
Plain(s) == /\ s \in Seq(Steps) /\ Increasing(s)
            /\ \A y : Holds(s, y) => y \notin Inner

LEMMA OnlyFits ==
  ASSUME NEW x, NEW k \in Steps \ Inner, NEW s, Plain(s),
         \A y : Holds(s, y) => StepOrder[y] < StepOrder[k]
  PROVE  /\ Plain(s \o Only(x, k))
         /\ \A y : Holds(s \o Only(x, k), y) <=>
                     Holds(s, y) \/ (y = k /\ Applies(x, k))
<1>1. CASE ~Applies(x, k)
  <2>1. s \o Only(x, k) = s
    BY <1>1 DEF Only, Plain
  <2> QED BY <2>1, <1>1
<1>2. CASE Applies(x, k)
  <2> DEFINE t == s \o Only(x, k)
  <2>1. /\ t \in Seq(Steps) /\ Len(t) = Len(s) + 1 /\ t[Len(t)] = k
        /\ DOMAIN t = 1..(Len(s) + 1) /\ DOMAIN s = 1..Len(s) /\ Len(s) \in Nat
        /\ \A i \in DOMAIN s : t[i] = s[i]
    BY <1>2 DEF Only, Plain
  <2> HIDE DEF t
  <2>2. ASSUME NEW y, Holds(t, y) PROVE Holds(s, y) \/ y = k
    BY <2>1, <2>2 DEF Holds
  <2>3. ASSUME NEW y, Holds(s, y) \/ y = k PROVE Holds(t, y)
    BY <2>1, <2>3 DEF Holds
  <2>4. ASSUME NEW i \in DOMAIN t, NEW j \in DOMAIN t, i < j
        PROVE  StepOrder[t[i]] < StepOrder[t[j]]
    <3>1. i \in DOMAIN s /\ t[i] = s[i]
      BY <2>1, <2>4
    <3>2. CASE j \in DOMAIN s
      BY <2>1, <2>4, <3>1, <3>2 DEF Plain, Increasing
    <3>3. CASE j \notin DOMAIN s
      <4>1. t[j] = k
        BY <2>1, <3>3
      <4> QED BY <3>1, <4>1 DEF Holds
    <3> QED BY <3>2, <3>3
  <2>5. Plain(t)
    BY <2>1, <2>2, <2>4 DEF Plain, Increasing
  <2> QED BY <1>2, <2>2, <2>3, <2>5 DEF t
<1> QED BY <1>1, <1>2

LEMMA SectionsFit ==
  ASSUME NEW x
  PROVE  /\ Plain(Sections(x)) /\ OneInner(Sections(x))
         /\ \A y \in Steps \ Inner : Holds(Sections(x), y) <=> Applies(x, y)
<1> DEFINE s0 == << >>
           s1 == Only(x, "speed")
           s2 == s1 \o Only(x, "spindle")
           s3 == s2 \o Only(x, "coolant")
           s4 == s3 \o Only(x, "dwell")
           s5 == s4 \o Only(x, "tool")
           s6 == s5 \o Only(x, "coord")
           s7 == s6 \o Only(x, "command")
           s8 == s7 \o Only(x, "motion")
           s9 == s8 \o Only(x, "flow")
           Upto(s, S) == /\ Plain(s)
                         /\ \A y : Holds(s, y) <=> y \in S /\ Applies(x, y)
<1>0. Sections(x) = s9
  BY DEF Sections
<1>a. ASSUME NEW s, NEW S, Upto(s, S), NEW k \in Steps \ Inner,
             \A y \in S : StepOrder[y] < StepOrder[k]
      PROVE  Upto(s \o Only(x, k), S \cup {k})
  <2>1. \A y : Holds(s, y) => StepOrder[y] < StepOrder[k]
    BY <1>a
  <2>2. Plain(s \o Only(x, k))
        /\ \A y : Holds(s \o Only(x, k), y) <=>
                    Holds(s, y) \/ (y = k /\ Applies(x, k))
    BY <1>a, <2>1, OnlyFits
  <2> QED BY <1>a, <2>2
<1>b. Steps \ Inner = {"speed", "spindle", "coolant", "dwell", "tool", "coord",
                       "command", "motion", "flow"}
  BY Orders DEF Inner
<1>1. Upto(s0, {})
  <2>1. s0 \in Seq(Steps) /\ DOMAIN s0 = {}
    OBVIOUS
  <2> QED BY <2>1 DEF Plain, Increasing, Holds
<1>c. s1 = s0 \o Only(x, "speed")
  <2>1. CASE Applies(x, "speed")
    BY <2>1 DEF Only
  <2>2. CASE ~Applies(x, "speed")
    BY <2>2 DEF Only
  <2> QED BY <2>1, <2>2
<1> HIDE DEF Upto, s0
<1>2. Upto(s1, {"speed"})
  <2>1. Upto(s0 \o Only(x, "speed"), {} \cup {"speed"})
    BY <1>1, <1>a, <1>b
  <2> QED BY <2>1, <1>c
<1> HIDE DEF s1
<1>3. Upto(s2, {"speed", "spindle"})
  <2>1. Upto(s1 \o Only(x, "spindle"), {"speed"} \cup {"spindle"})
    BY <1>2, <1>a, <1>b, Orders
  <2> QED BY <2>1
<1> HIDE DEF s2
<1>4. Upto(s3, {"speed", "spindle", "coolant"})
  <2>1. Upto(s2 \o Only(x, "coolant"), {"speed", "spindle"} \cup {"coolant"})
    BY <1>3, <1>a, <1>b, Orders
  <2> QED BY <2>1
<1> HIDE DEF s3
<1>5. Upto(s4, {"speed", "spindle", "coolant", "dwell"})
  <2>1. Upto(s3 \o Only(x, "dwell"),
             {"speed", "spindle", "coolant"} \cup {"dwell"})
    BY <1>4, <1>a, <1>b, Orders
  <2> QED BY <2>1
<1> HIDE DEF s4
<1>6. Upto(s5, {"speed", "spindle", "coolant", "dwell", "tool"})
  <2>1. Upto(s4 \o Only(x, "tool"),
             {"speed", "spindle", "coolant", "dwell"} \cup {"tool"})
    BY <1>5, <1>a, <1>b, Orders
  <2> QED BY <2>1
<1> HIDE DEF s5
<1>7. Upto(s6, {"speed", "spindle", "coolant", "dwell", "tool", "coord"})
  <2>1. Upto(s5 \o Only(x, "coord"),
             {"speed", "spindle", "coolant", "dwell", "tool"} \cup {"coord"})
    BY <1>6, <1>a, <1>b, Orders
  <2> QED BY <2>1
<1> HIDE DEF s6
<1>8. Upto(s7, {"speed", "spindle", "coolant", "dwell", "tool", "coord",
                "command"})
  <2>1. Upto(s6 \o Only(x, "command"),
             {"speed", "spindle", "coolant", "dwell", "tool", "coord"}
               \cup {"command"})
    BY <1>7, <1>a, <1>b, Orders
  <2> QED BY <2>1
<1> HIDE DEF s7
<1>9. Upto(s8, {"speed", "spindle", "coolant", "dwell", "tool", "coord",
                "command", "motion"})
  <2>1. Upto(s7 \o Only(x, "motion"),
             {"speed", "spindle", "coolant", "dwell", "tool", "coord",
              "command"} \cup {"motion"})
    BY <1>8, <1>a, <1>b, Orders
  <2> QED BY <2>1
<1> HIDE DEF s8
<1>10. Upto(s9, {"speed", "spindle", "coolant", "dwell", "tool", "coord",
                 "command", "motion", "flow"})
  <2>1. Upto(s8 \o Only(x, "flow"),
             {"speed", "spindle", "coolant", "dwell", "tool", "coord",
              "command", "motion"} \cup {"flow"})
    BY <1>9, <1>a, <1>b, Orders
  <2> QED BY <2>1
<1> HIDE DEF s9
<1>11. /\ Plain(s9)
       /\ \A y \in Steps \ Inner : Holds(s9, y) <=> Applies(x, y)
  BY <1>10, <1>b DEF Upto
<1>12. OneInner(s9)
  <2>1. \A i \in DOMAIN s9 : s9[i] \notin Inner
    BY <1>11 DEF Plain, Holds
  <2>2. s9 # << >> => 1 \in DOMAIN s9
    BY <1>11 DEF Plain
  <2> QED BY <2>1, <2>2 DEF OneInner, Inner
<1> QED BY <1>0, <1>11, <1>12

-----------------------------------------------------------------------------
(* What a line means. *)

LEMMA ModeFits ==
  ASSUME NEW l, NEW group, NEW old
  PROVE  /\ Mode(l, group, old) \in group \cup {old}
         /\ l.cmds \cap group = {} => Mode(l, group, old) = old
         /\ l.cmds \cap group # {} => Mode(l, group, old) \in l.cmds \cap group
BY DEF Mode

LEMMA CoordSelectsAre ==
  /\ \A i \in 1..6 : CoordSystems[i] \in CoordSelects
  /\ "G54" \in CoordSelects /\ "G28" \notin CoordSelects
  /\ "G30" \notin CoordSelects
BY DEF CoordSelects, CoordSystems

(* The constants, and the words of a line the parser accepts. *)
LEMMA WordsFit ==
  ASSUME NEW l \in Lines
  PROVE  /\ InchFactor \in Nat /\ l.jog \in BOOLEAN
         /\ \A w \in Words(l) : l.val[w] \in Int
         /\ \A w : Value(l, w) \in Int
BY GCodeAssumption DEF Words, Value

LEMMA ScaleFits == ASSUME NEW l PROVE Scale(gc, l) \in Nat
BY GCodeAssumption DEF Scale

LEMMA ArcPathFits ==
  ASSUME NEW l
  PROVE  \E c \in 1..4 : DOMAIN ArcPath(gc, stored, l) = 1..c
                         /\ ArcPath(gc, stored, l) = [i \in 1..c |-> ArcPath(gc, stored, l)[i]]
<1> DEFINE off == ArcOffset(gc, stored, l)
           target == Target(gc, stored, l)
           r == <<-off[1], -off[2]>>
           rt == Minus(ArcDelta(gc, stored, l), off)
           dir == IF Motion(gc, l) = "G2" THEN -1 ELSE 1
           turns == {k \in 1..4 : Turned(r, dir * k) = rt}
           chords == IF turns = {} THEN 1 ELSE Min(turns)
           p == PlaneAxes(gc, l)
           point(i) == LET v == Turned(r, dir * i)
                       IN [gc.position EXCEPT
                             ![p[1]] = @ + off[1] + v[1],
                             ![p[2]] = @ + off[2] + v[2],
                             ![p[3]] = @ + (i * (target[p[3]] - @)) \div chords]
           f == [i \in 1..chords |-> IF i = chords THEN target ELSE point(i)]
<1>1. ArcPath(gc, stored, l) = f
  BY DEF ArcPath
<1>2. turns \subseteq 1..4
  OBVIOUS
<1>3. chords \in 1..4
  <2> HIDE DEF turns
  <2>1. CASE turns # {}
    <3>1. \E m \in turns : \A k \in turns : m <= k
      <4>1. CASE 1 \in turns
        BY <1>2, <4>1
      <4>2. CASE 1 \notin turns /\ 2 \in turns
        BY <1>2, <4>2
      <4>3. CASE 1 \notin turns /\ 2 \notin turns /\ 3 \in turns
        BY <1>2, <4>3
      <4>4. CASE 1 \notin turns /\ 2 \notin turns /\ 3 \notin turns
        <5>1. \A k \in turns : k = 4
          BY <1>2, <4>4
        <5>2. PICK k : k \in turns
          BY <2>1
        <5> QED BY <5>1, <5>2
      <4> QED BY <4>1, <4>2, <4>3, <4>4
    <3>2. Min(turns) \in turns
      BY <3>1 DEF Min
    <3> QED BY <1>2, <2>1, <3>2
  <2> QED BY <2>1
<1> HIDE DEF chords
<1>4. DOMAIN f = 1..chords /\ f = [i \in 1..chords |-> f[i]]
  OBVIOUS
<1> HIDE DEF f
<1> QED BY <1>1, <1>3, <1>4

(* The guard of Accept, and what of it the proof uses. *)
Accepted(l) == /\ ~WordErrors(l) /\ ~CommandErrors(gc, l)
               /\ ~MotionErrors(gc, stored, l)
               /\ Reads(gc, l) \subseteq DOMAIN stored
               /\ InGrid(l)

LEMMA SystemReadFits ==
  ASSUME NEW l, TypesFit, Reads(gc, l) \subseteq DOMAIN stored
  PROVE  /\ CoordSelect(gc, l) \in CoordSelects
         /\ BlockSystem(gc, stored, l) \in Grid
         /\ CoordSelect(gc, l) # gc.coord =>
              /\ CoordSelect(gc, l) \in DOMAIN stored
              /\ BlockSystem(gc, stored, l) = stored[CoordSelect(gc, l)]
         /\ CoordSelect(gc, l) = gc.coord =>
              BlockSystem(gc, stored, l) = gc.coordSystem
<1>1. gc.coord \in CoordSelects /\ gc.coordSystem \in Grid
      /\ stored \in [DOMAIN stored -> Grid]
  BY DEF TypesFit, ModesType
<1>2. CoordSelect(gc, l) \in CoordSelects
  BY <1>1, ModeFits DEF CoordSelect
<1>3. CoordSelect(gc, l) # gc.coord => CoordSelect(gc, l) \in DOMAIN stored
  BY DEF Reads
<1> QED BY <1>1, <1>2, <1>3 DEF BlockSystem

LEMMA RecordFits ==
  ASSUME NEW l \in Lines, TypesFit, ~WordErrors(l), ~CommandErrors(gc, l),
         Command(l) = "G10"
  PROVE  G10Record(gc, l) \in CoordSelects
<1>1. CASE Value(l, "P") = 0
  <2>1. gc.coord \in CoordSelects
    BY DEF TypesFit, ModesType
  <2>2. CoordSelect(gc, l) \in CoordSelects
    BY <2>1, ModeFits DEF CoordSelect
  <2> QED BY <1>1, <2>2 DEF G10Record
<1>2. CASE Value(l, "P") # 0
  <2>1. "P" \in Words(l) /\ Value(l, "P") = l.val["P"] /\ l.val["P"] \in Int
    BY <1>2, WordsFit DEF Value
  <2>2. l.val["P"] >= 0
    BY <2>1 DEF WordErrors
  <2>3. Value(l, "P") <= 6
    BY <2>1 DEF CommandErrors
  <2>4. l.val["P"] \in 1..6
    BY <1>2, <2>1, <2>2, <2>3
  <2> QED BY <1>2, <2>4, CoordSelectsAre DEF G10Record
<1> QED BY <1>1, <1>2

LEMMA OffsetFits ==
  ASSUME NEW l \in Lines, TypesFit, Accepted(l)
  PROVE  G92Offset(gc, stored, l) \in Offsets
<1>1. BlockSystem(gc, stored, l) \in Grid /\ gc.position \in Grid
      /\ gc.coordOffset \in Offsets /\ gc.toolOffset \in Int /\ MaxCoord \in Int
  BY SystemReadFits, GCodeAssumption DEF Accepted, TypesFit, ModesType
<1>2. \A a \in Axes : /\ BlockSystem(gc, stored, l)[a] \in Int
                      /\ gc.position[a] \in Int /\ gc.coordOffset[a] \in Int
                      /\ ToolOffset(gc, a) \in Int
  BY <1>1 DEF Grid, Offsets, ToolOffset
<1>3. \A a \in AxisWords(l) : l.val[a] * Scale(gc, l) \in Int
  <2> TAKE a \in AxisWords(l)
  <2>1. l.val[a] \in Int /\ Scale(gc, l) \in Int
    BY WordsFit, ScaleFits DEF AxisWords
  <2> QED BY <2>1
<1> DEFINE by(a) == l.val[a] * Scale(gc, l)
           f(a) == IF a \notin AxisWords(l) THEN gc.coordOffset[a]
                   ELSE gc.position[a] - BlockSystem(gc, stored, l)[a]
                          - by(a) - ToolOffset(gc, a)
<1>4. \A a \in AxisWords(l) : by(a) \in Int
  BY <1>3
<1>5. G92Offset(gc, stored, l) = [a \in Axes |-> f(a)]
  BY DEF G92Offset
<1> HIDE DEF by
<1>6. \A a \in Axes : f(a) \in Int
  BY <1>2, <1>4
<1> HIDE DEF f
<1> QED BY <1>5, <1>6 DEF Offsets

LEMMA HomeFits ==
  ASSUME NEW l, TypesFit, Reads(gc, l) \subseteq DOMAIN stored,
         Command(l) \in {"G28", "G30"}
  PROVE  HomePosition(gc, stored, l) \in Grid
<1>1. Command(l) \in DOMAIN stored
  BY DEF Reads
<1>2. stored[Command(l)] \in Grid /\ gc.position \in Grid
  BY <1>1 DEF TypesFit, ModesType
<1> QED BY <1>2 DEF HomePosition, Grid

LEMMA PathFits ==
  ASSUME NEW l, Accepted(l)
  PROVE  Evaluated(l).path \in Seq(Grid) /\ Evaluated(l).path # <<>>
<1> DEFINE arc == Arc(gc, l) /\ AxisWords(l) # {} /\ AxisCommand(gc, l) = "motion"
<1>1. Evaluated(l).path = IF arc THEN ArcPath(gc, stored, l)
                          ELSE <<Target(gc, stored, l)>>
  BY DEF Evaluated
<1>2. CASE ~arc
  <2>1. Target(gc, stored, l) \in Grid
    BY DEF Accepted, InGrid
  <2> QED BY <1>1, <1>2, <2>1
<1>3. CASE arc
  <2>1. Claim(l) = "motion"
    BY <1>3 DEF AxisCommand
  <2>2. Range(ArcPath(gc, stored, l)) \subseteq Grid
    BY <1>3, <2>1 DEF Accepted, InGrid
  <2>3. PICK c \in 1..4 : DOMAIN ArcPath(gc, stored, l) = 1..c
          /\ ArcPath(gc, stored, l) = [i \in 1..c |-> ArcPath(gc, stored, l)[i]]
    BY ArcPathFits
  <2>4. \A i \in 1..c : ArcPath(gc, stored, l)[i] \in Grid
    BY <2>2, <2>3 DEF Range
  <2> DEFINE p == ArcPath(gc, stored, l)
  <2> HIDE DEF p
  <2>5. p \in [1..c -> Grid] /\ c \in Nat /\ c >= 1
    BY <2>3, <2>4 DEF p
  <2>6. p \in Seq(Grid) /\ Len(p) = c
    BY <2>5
  <2>7. p # <<>>
    BY <2>5, <2>6
  <2> QED BY <1>1, <1>3, <2>6, <2>7 DEF p
<1> QED BY <1>2, <1>3

LEMMA EvaluatedFits ==
  ASSUME NEW l \in Lines, TypesFit, Accepted(l)
  PROVE  BlockFits(Evaluated(l))
<1> DEFINE e == Evaluated(l)
<1>1. gc \in ModesType
  BY DEF TypesFit
<1>2. e.jog \in BOOLEAN /\ e.laserDisable = (e.motion \notin Cutting)
  BY WordsFit DEF Evaluated
<1>3. e.path \in Seq(Grid) /\ e.path # <<>>
  BY PathFits
<1>4. e.spindle \in Spindles
  <2>1. gc.spindle \in Spindles
    BY <1>1 DEF ModesType
  <2> QED BY <2>1, ModeFits DEF Evaluated
<1>5. e.coolant \in Coolants
  <2>1. gc.coolant \in Coolants
    BY <1>1 DEF ModesType
  <2> QED BY <2>1, ModeFits DEF Evaluated
<1>6. e.coord \in CoordSelects /\ e.coordSystem \in Grid
  BY SystemReadFits DEF Evaluated, Accepted
<1>7. e.toolOffset \in Int
  <2>1. Value(l, "Z") \in Int /\ Scale(gc, l) \in Int
    BY WordsFit, ScaleFits
  <2>2. Value(l, "Z") * Scale(gc, l) \in Int
    BY <2>1
  <2> QED BY <2>2 DEF Evaluated
<1>8. e.s \in Nat
  <2>1. gc.speed \in Nat
    BY <1>1 DEF ModesType
  <2>2. "S" \in Words(l) => l.val["S"] \in Int /\ l.val["S"] >= 0
    BY WordsFit DEF Accepted, WordErrors
  <2> QED BY <2>1, <2>2 DEF Evaluated, Speed
<1>9. e.command = "G10" => e.record \in CoordSelects /\ e.data \in Grid
  <2>1. e.command = Command(l)
    BY DEF Evaluated
  <2> SUFFICES ASSUME Command(l) = "G10"
               PROVE  e.record \in CoordSelects /\ e.data \in Grid
    BY <2>1
  <2>2. e.record = G10Record(gc, l) /\ e.data = G10Data(gc, stored, l)
    BY DEF Evaluated
  <2>3. G10Data(gc, stored, l) \in Grid
    BY DEF Accepted, InGrid
  <2> QED BY <2>2, <2>3, RecordFits DEF Accepted
<1>10. e.command \in {"G28", "G30"} => e.data \in Grid
  <2>1. e.command = Command(l)
    BY DEF Evaluated
  <2>2. Command(l) \in {"G28", "G30"} => e.data = HomePosition(gc, stored, l)
    BY DEF Evaluated
  <2> QED BY <2>1, <2>2, HomeFits DEF Accepted
<1>11. e.command = "G92" => e.data \in Offsets
  <2>1. e.command = Command(l)
    BY DEF Evaluated
  <2>2. Command(l) = "G92" => e.data = G92Offset(gc, stored, l)
    BY DEF Evaluated
  <2> QED BY <2>1, <2>2, OffsetFits
<1>12. e.command # "G10" => e.record = "none"
  BY DEF Evaluated
<1> HIDE DEF e
<1>13. BlockFits(e)
  BY <1>2, <1>3, <1>4, <1>5, <1>6, <1>7, <1>8, <1>9, <1>10, <1>11, <1>12
  DEF BlockFits
<1> QED BY <1>13 DEF e

(* The points that G92 and G10 L20 bring to the values named. *)
LEMMA ZeroDataFits ==
  ASSUME NEW l \in Lines, TypesFit, Accepted(l)
  PROVE  LET e == Evaluated(l)
         IN /\ DOMAIN e.named \subseteq Axes
            /\ e.command \in {"G10", "G92"} => e.axis # "tool_length"
            /\ \A a \in DOMAIN e.named :
                 /\ e.named[a] \in Int
                 /\ e.command = "G92" =>
                      e.data[a] = gc.position[a] - e.coordSystem[a] - e.named[a]
                                    - ToolOffset(gc, a)
                 /\ e.command = "G10" /\ e.L = 20 =>
                      e.data[a] = gc.position[a] - gc.coordOffset[a]
                                    - e.named[a] - ToolOffset(gc, a)
<1> DEFINE e == Evaluated(l)
           by(a) == l.val[a] * Scale(gc, l)
<1>1. /\ e.command = Command(l) /\ e.axis = AxisCommand(gc, l)
      /\ e.named = [a \in AxisWords(l) |-> by(a)]
      /\ e.L = Value(l, "L") /\ e.coordSystem = BlockSystem(gc, stored, l)
      /\ Command(l) = "G92" => e.data = G92Offset(gc, stored, l)
      /\ Command(l) = "G10" => e.data = G10Data(gc, stored, l)
  BY DEF Evaluated
<1>2. AxisWords(l) \subseteq Axes /\ AxisWords(l) \subseteq Words(l)
  BY DEF AxisWords
<1>3. \A a \in AxisWords(l) : by(a) \in Int
  <2> TAKE a \in AxisWords(l)
  <2>1. l.val[a] \in Int /\ Scale(gc, l) \in Int
    BY <1>2, WordsFit, ScaleFits
  <2> QED BY <2>1
<1>4. e.command \in {"G10", "G92"} => e.axis # "tool_length"
  <2> SUFFICES ASSUME Command(l) \in {"G10", "G92"}
               PROVE  AxisCommand(gc, l) # "tool_length"
    BY <1>1
  <2>1. Command(l) \in l.cmds
    BY ModeFits DEF Command
  <2>2. l.cmds \cap {"G10", "G28", "G30", "G92"} # {}
    BY <2>1
  <2>3. Claim(l) = "non_modal"
    BY <2>2 DEF Claim
  <2> QED BY <2>3 DEF AxisCommand
<1>5. \A a \in AxisWords(l) :
         /\ Command(l) = "G92" =>
              G92Offset(gc, stored, l)[a] =
                gc.position[a] - BlockSystem(gc, stored, l)[a] - by(a)
                  - ToolOffset(gc, a)
  BY <1>2 DEF G92Offset
<1>6. \A a \in AxisWords(l) :
         Command(l) = "G10" /\ Value(l, "L") = 20 =>
           G10Data(gc, stored, l)[a] =
             gc.position[a] - gc.coordOffset[a] - by(a) - ToolOffset(gc, a)
  BY <1>2 DEF G10Data, Value
<1> HIDE DEF e, by
<1> QED BY <1>1, <1>2, <1>3, <1>4, <1>5, <1>6 DEF e

LEMMA SingleFits ==
  ASSUME NEW x \in Steps, x # "drop"
  PROVE  /\ <<x>> \in Seq(Steps) /\ <<x>> # <<>> /\ Head(<<x>>) = x
         /\ Increasing(<<x>>) /\ OneInner(<<x>>)
         /\ \A y : Holds(<<x>>, y) <=> y = x
<1>1. <<x>> \in Seq(Steps) /\ DOMAIN <<x>> = {1} /\ <<x>>[1] = x /\ <<x>> # <<>>
      /\ Head(<<x>>) = x
  OBVIOUS
<1> QED BY <1>1 DEF Increasing, OneInner, Holds

-----------------------------------------------------------------------------
(* The pen. *)

(* A speed within the range is mapped into the range of the pulses. *)
LEMMA PwmFits ==
  ASSUME NEW rpm \in Nat
  PROVE  Pwm(rpm) \in {0} \cup PwmMin..PwmMax
<1>1. /\ RpmMin \in Nat /\ RpmMax \in Nat /\ PwmMin \in Nat /\ PwmMax \in Nat
      /\ 1 <= PwmMin /\ PwmMin <= PwmMax
  BY GCodeAssumption
<1>2. CASE RpmMin >= RpmMax \/ rpm >= RpmMax
  BY <1>1, <1>2 DEF Pwm
<1>3. CASE RpmMin < RpmMax /\ rpm < RpmMax /\ rpm <= RpmMin
  BY <1>1, <1>3 DEF Pwm
<1>4. CASE RpmMin < RpmMax /\ rpm < RpmMax /\ rpm > RpmMin
  <2> DEFINE m == rpm - RpmMin
             w == RpmMax - RpmMin
             h == PwmMax - PwmMin
  <2>1. m \in Nat /\ w \in Nat /\ h \in Nat /\ m <= w /\ w >= 1
    BY <1>1, <1>4
  <2>2. Pwm(rpm) = ((m * h) \div w) + PwmMin
    BY <1>1, <1>4 DEF Pwm
  <2> HIDE DEF m, w, h
  <2>3. m * h \in Nat /\ w * h \in Nat /\ m * h <= w * h
    BY <2>1
  <2> DEFINE q == (m * h) \div w
  <2>4. q \in Nat /\ q <= h
    <3> DEFINE mh == m * h
    <3>1. q \in Int /\ w * q <= mh /\ mh < w * q + w
      <4> HIDE DEF mh
      <4> SUFFICES /\ mh \div w \in Int /\ w * (mh \div w) <= mh
                   /\ mh < w * (mh \div w) + w
        BY DEF mh
      <4>1. mh \in Nat
        BY <2>3 DEF mh
      <4> QED BY <4>1, <2>1
    <3> HIDE DEF q
    <3>2. w * q <= w * h
      BY <2>1, <2>3, <3>1
    <3>3. q <= h
      BY <2>1, <3>1, <3>2
    <3>4. w * (q + 1) > 0
      BY <2>1, <2>3, <3>1
    <3>5. q + 1 > 0
      BY <2>1, <3>1, <3>4
    <3> QED BY <3>1, <3>3, <3>5
  <2> HIDE DEF q
  <2>5. q + PwmMin \in PwmMin..PwmMax
    <3>1. h = PwmMax - PwmMin
      BY DEF h
    <3> QED BY <1>1, <2>4, <3>1
  <2> QED BY <2>2, <2>5 DEF q
<1> QED BY <1>1, <1>2, <1>3, <1>4

LEMMA PensFit ==
  /\ Rest \in {0} \cup PwmMin..PwmMax /\ Rest \in Int /\ Rest >= 0
  /\ Pwm(0) <= Rest
<1>1. /\ RpmMin \in Nat /\ RpmMax \in Nat /\ PwmMin \in Nat /\ PwmMax \in Nat
      /\ 1 <= PwmMin /\ PwmMin <= PwmMax
  BY GCodeAssumption
<1>2. Rest \in {0} \cup PwmMin..PwmMax
  BY <1>1, PwmFits DEF Rest
<1>3. CASE RpmMin < RpmMax
  <2>1. Pwm(0) = 0
    BY <1>1, <1>3 DEF Pwm
  <2> QED BY <1>1, <1>2, <2>1
<1>4. CASE RpmMin >= RpmMax
  BY <1>1, <1>2, <1>4 DEF Pwm, Rest
<1> QED BY <1>1, <1>2, <1>3, <1>4

-----------------------------------------------------------------------------
(* The invariant holds at the start. *)

LEMMA ZeroInGrid == Zero \in Grid
BY GCodeAssumption DEF Zero, Grid

LEMMA InitialFits ==
  ASSUME NEW s, NEW p \in Grid, s["G54"] \in Grid
  PROVE  InitialModes(s, p) \in ModesType
<1>1. "G54" \in CoordSelects /\ Zero \in Offsets
  BY CoordSelectsAre DEF Zero, Offsets
<1> QED BY <1>1 DEF InitialModes, ModesType, MotionCommands, Planes,
         DistanceModes, FeedModes, UnitModes, ToolOffsets, Spindles, Coolants

LEMMA EmptyFits ==
  /\ <<>> \in Seq(Steps) /\ Increasing(<<>>) /\ OneInner(<<>>)
  /\ \A x : ~Holds(<<>>, x)
  /\ <<>> \in Seq(QueueType) /\ <<>> \in Seq(Grid) /\ Len(<<>>) = 0
BY DEF Increasing, OneInner, Holds

LEMMA InitGCodeIInv == Init => GCodeIInv
<1> SUFFICES ASSUME Init PROVE GCodeIInv
  OBVIOUS
<1>1. /\ gc = InitialModes(stored, Zero) /\ todo = <<>> /\ path = <<>>
      /\ queue = <<>> /\ pos = Zero /\ pwm = 0 /\ flood = FALSE
      /\ state = "IDLE" /\ abort = FALSE /\ lost = {}
  BY DEF Init
<1>2. /\ stored \in [DOMAIN stored -> Grid]
      /\ "G54" \in DOMAIN stored /\ DOMAIN stored \subseteq Records
      /\ stored["G54"] = Zero
  <2>1. PICK torn \in {"none"} \cup (Records \ {"G54"}) :
               stored = [r \in Records \ {torn} |-> Zero]
    BY DEF Init
  <2>2. "G54" \in Records \ {torn}
    BY <2>1, CoordSelectsAre DEF Records
  <2> QED BY <2>1, <2>2, ZeroInGrid
<1>3. TodoFits
  BY <1>1, EmptyFits DEF TodoFits
<1>4. TypesFit
  <2>1. gc \in ModesType
    BY <1>1, <1>2, ZeroInGrid, InitialFits
  <2>2. Len(queue) <= BlockBuffer
    BY <1>1, GCodeAssumption
  <2>3. flood \in BOOLEAN /\ abort \in BOOLEAN
    BY <1>1
  <2>4. queue \in Seq(QueueType) /\ path \in Seq(Grid)
    BY <1>1, EmptyFits
  <2> QED BY <1>1, <1>2, <2>1, <2>2, <2>3, <2>4, ZeroInGrid DEF TypesFit
<1>5. StateFits /\ ZeroFits
  BY <1>1, EmptyFits DEF StateFits, ZeroFits, At, Pending
<1>6. PlaceFits
  BY <1>1 DEF PlaceFits, During, At, PlannedEnd, InitialModes
<1>7. SystemFits
  BY <1>1, <1>2, EmptyFits DEF SystemFits, InitialModes, Pending
<1>8. PenFits
  <2> QED BY <1>1, PensFit, EmptyFits DEF PenFits, InitialModes, Pending, At
<1> QED BY <1>3, <1>4, <1>5, <1>6, <1>7, <1>8 DEF GCodeIInv

-----------------------------------------------------------------------------
(* A new line keeps the invariant. *)

LEMMA AcceptJogKeeps ==
  ASSUME GCodeIInv, NEW l \in Lines, Accept(l), l.jog, UNCHANGED lost
  PROVE  GCodeIInv'
<1>1. /\ todo = <<>> /\ ~abort /\ todo' = <<"jog">>
      /\ b' = Evaluated(l) /\ path' = b'.path
      /\ UNCHANGED <<gc, queue, pos, state, pwm, flood, abort, stored, lost>>
  BY DEF Accept, Ready, machine
<1>2. TypesFit /\ Accepted(l)
  BY DEF GCodeIInv, Accept, Accepted, Rejected
<1>3. BlockFits(b') /\ b'.jog
  <2>1. Evaluated(l).jog = l.jog
    BY DEF Evaluated
  <2> QED BY <1>1, <1>2, <2>1, EvaluatedFits
<1>4. /\ todo' \in Seq(Steps) /\ todo' # <<>> /\ Head(todo') = "jog"
      /\ Increasing(todo') /\ OneInner(todo') /\ \A y : Holds(todo', y) <=> y = "jog"
  BY <1>1, SingleFits, Orders
<1>5. TodoFits'
  BY <1>1, <1>3, <1>4 DEF TodoFits, Jogging
<1>6. TypesFit'
  BY <1>1, <1>2, <1>3 DEF TypesFit, BlockFits
<1>7. StateFits' /\ ZeroFits'
  BY <1>3, <1>4 DEF StateFits, ZeroFits, At, Pending
<1>8. PlaceFits'
  <2>1. ~During("line")'
    BY <1>4 DEF During, At
  <2>2. path' # <<>> /\ path' = b'.path
    BY <1>1, <1>3 DEF BlockFits
  <2>3. todo' # <<>> /\ Head(todo') = "jog"
    BY <1>4
  <2> QED BY <2>1, <2>2, <2>3 DEF PlaceFits
<1>9. SystemFits'
  BY <1>1, <1>4 DEF GCodeIInv, SystemFits, Live, Pending
<1>10. PenFits'
  <2>1. ~Showing
    BY <1>1, EmptyFits DEF Showing, Pending, At
  <2>2. PenFits
    BY DEF GCodeIInv
  <2>3. Live' => Live
    BY <1>1 DEF Live
  <2>4. ~Pending("speed")' /\ ~At("drop")'
    BY <1>4 DEF Pending, At
  <2> QED BY <1>1, <1>3, <2>1, <2>2, <2>3, <2>4 DEF PenFits
<1> QED BY <1>5, <1>6, <1>7, <1>8, <1>9, <1>10 DEF GCodeIInv

LEMMA AcceptKeeps ==
  ASSUME GCodeIInv, NEW l \in Lines, Accept(l), ~l.jog, UNCHANGED lost
  PROVE  GCodeIInv'
<1> DEFINE e == Evaluated(l)
<1>1. /\ todo = <<>> /\ ~abort /\ todo' = Sections(e)
      /\ b' = e /\ path' = <<>> /\ state # "JOG"
      /\ gc' = [gc EXCEPT !.feedMode = FeedMode(gc, l),
                          !.feed = Feed(gc, l),
                          !.plane = Mode(l, Planes, gc.plane),
                          !.units = Units(gc, l),
                          !.distance = Distance(gc, l),
                          !.tool = Tool(gc, l),
                          !.motion = Motion(gc, l)]
      /\ UNCHANGED <<queue, pos, state, pwm, flood, abort, stored, lost>>
  BY DEF Accept, Ready, machine, Allowed
<1>2. TypesFit /\ Accepted(l)
  BY DEF GCodeIInv, Accept, Accepted, Rejected
<1>3. BlockFits(e)
  BY <1>2, EvaluatedFits
<1>4. /\ e.jog = l.jog /\ e.motion = Motion(gc, l) /\ e.axis = AxisCommand(gc, l)
      /\ e.coord = CoordSelect(gc, l)
      /\ e.coordSystem = BlockSystem(gc, stored, l)
      /\ e.isMotion = (AxisWords(l) # {} /\ AxisCommand(gc, l) = "motion")
      /\ e.laserDisable = (e.motion \notin Cutting)
      /\ e.forceSync = (/\ ~e.isMotion /\ gc.spindle = "M3"
                        /\ (gc.motion \in Cutting) # (e.motion \in Cutting))
  BY DEF Evaluated
<1>5. /\ Plain(todo') /\ OneInner(todo')
      /\ \A y \in Steps \ Inner : Holds(todo', y) <=> Applies(e, y)
  BY <1>1, SectionsFit
<1>6. /\ {"speed", "coord", "command", "tool", "motion"} \subseteq Steps \ Inner
      /\ \A s \in Inner : ~At(s)'
  <2>1. {"speed", "coord", "command", "tool", "motion"} \subseteq Steps \ Inner
    BY Orders DEF Inner
  <2>2. todo' # <<>> => Holds(todo', Head(todo'))
    BY <1>5 DEF Plain, Holds
  <2> QED BY <1>5, <2>1, <2>2 DEF At, Plain
<1>7. gc \in ModesType
  BY <1>2 DEF TypesFit
<1>8. gc' \in ModesType
  <2>1. FeedMode(gc, l) \in FeedModes
    BY <1>7, ModeFits DEF FeedMode, ModesType, FeedModes
  <2>2. Mode(l, Planes, gc.plane) \in Planes
    BY <1>7, ModeFits DEF ModesType
  <2>3. Units(gc, l) \in UnitModes
    BY <1>7, ModeFits DEF ModesType, Units
  <2>4. Distance(gc, l) \in DistanceModes
    BY <1>7, ModeFits DEF ModesType, Distance
  <2>5. Tool(gc, l) \in ToolOffsets
    BY <1>7, ModeFits DEF ModesType, Tool
  <2>6. Motion(gc, l) \in MotionCommands \cup {"G80"}
    BY <1>7, ModeFits DEF ModesType, Motion
  <2>7. Feed(gc, l) \in Int
    <3>1. Value(l, "F") \in Int /\ Scale(gc, l) \in Int /\ gc.feed \in Int
      BY <1>7, WordsFit, ScaleFits DEF ModesType
    <3>2. Value(l, "F") * Scale(gc, l) \in Int
      BY <3>1
    <3>3. FeedMode(gc, l) \in {"G93", "G94"}
      BY <2>1 DEF FeedModes
    <3> HIDE DEF e
    <3> DEFINE v == Value(l, "F") * Scale(gc, l)
    <3>4. v \in Int
      BY <3>2
    <3>5. Feed(gc, l) \in {v, Value(l, "F"), gc.feed}
      <4>1. Feed(gc, l) =
              CASE l.jog -> v
                [] ~l.jog /\ FeedMode(gc, l) = "G93" -> Value(l, "F")
                [] ~l.jog /\ FeedMode(gc, l) = "G94" ->
                     IF gc.feedMode = "G93" THEN Value(l, "F")
                     ELSE IF "F" \in Words(l) THEN v ELSE gc.feed
        BY DEF Feed
      <4> HIDE DEF v
      <4> QED BY <3>3, <4>1
    <3> HIDE DEF v
    <3> QED BY <3>1, <3>4, <3>5
  <2> QED BY <1>1, <1>7, <2>1, <2>2, <2>3, <2>4, <2>5, <2>6, <2>7 DEF ModesType
<1>9. /\ gc'.position = gc.position /\ gc'.coordSystem = gc.coordSystem
      /\ gc'.coordOffset = gc.coordOffset /\ gc'.toolOffset = gc.toolOffset
      /\ gc'.coord = gc.coord /\ gc'.spindle = gc.spindle
      /\ gc'.speed = gc.speed /\ gc'.motion = e.motion
  BY <1>1, <1>4, <1>7 DEF ModesType
<1>10. TodoFits'
  <2>1. \A i \in DOMAIN todo' : todo'[i] # "jog"
    BY <1>5 DEF Plain, Holds, Inner
  <2> QED BY <1>1, <1>4, <1>5, <2>1 DEF TodoFits, Plain
<1>11. TypesFit'
  BY <1>1, <1>2, <1>3, <1>8, EmptyFits DEF TypesFit, BlockFits
<1> HIDE DEF e
<1>12. StateFits'
  <2>1. Pending("motion")' => e.command \notin {"G28", "G30"}
    <3> SUFFICES ASSUME Pending("motion")', Command(l) \in {"G28", "G30"}
                 PROVE  FALSE
      BY DEF e, Evaluated
    <3>1. e.axis = "motion"
      BY <1>5, <1>6 DEF Pending, Applies
    <3>2. Command(l) \in l.cmds
      BY ModeFits DEF Command
    <3>3. Claim(l) = "non_modal"
      BY <3>2 DEF Claim
    <3> QED BY <1>4, <3>1, <3>3 DEF AxisCommand
  <2> QED BY <1>1, <1>6, <1>9, <2>1 DEF StateFits, Inner
<1>13. PlaceFits'
  <2>1. ~During("line")' /\ ~During("jog")'
    BY <1>6 DEF During, Inner
  <2>2. Live' => gc.position = PlannedEnd \/ Misled
    BY <1>1 DEF GCodeIInv, PlaceFits, Live
  <2>3. gc'.position = gc.position /\ PlannedEnd' = PlannedEnd /\ Misled' = Misled
    BY <1>1, <1>9 DEF PlannedEnd, Misled
  <2> QED BY <2>1, <2>2, <2>3 DEF PlaceFits
<1>14. SystemFits'
  <2>1. SystemFits /\ (Live' => Live)
    BY <1>1 DEF GCodeIInv, Live
  <2>2. Pending("coord")' => b'.coord \in DOMAIN stored
                             /\ b'.coordSystem = stored[b'.coord]
    <3> SUFFICES ASSUME Pending("coord")' PROVE e.coord \in DOMAIN stored
                             /\ e.coordSystem = stored[e.coord]
      BY <1>1
    <3>1. Applies(e, "coord")
      BY <1>5, <1>6 DEF Pending
    <3>2. gc.coord # CoordSelect(gc, l)
      BY <3>1, <1>4 DEF Applies
    <3> QED BY <1>2, <1>4, <3>2, SystemReadFits DEF Accepted
  <2> QED BY <1>1, <1>9, <2>1, <2>2 DEF SystemFits
<1>15. ZeroFits'
  <2> SUFFICES ASSUME Pending("command")' PROVE ZeroFits'
    BY DEF ZeroFits
  <2>1. ~Pending("coord")' => gc'.coordSystem = e.coordSystem
    <3> SUFFICES ASSUME ~Pending("coord")' PROVE gc.coordSystem = e.coordSystem
      BY <1>9
    <3>1. ~Applies(e, "coord")
      BY <1>5, <1>6 DEF Pending
    <3>2. gc.coord = CoordSelect(gc, l)
      BY <3>1, <1>4 DEF Applies
    <3> QED BY <1>2, <1>4, <3>2, SystemReadFits DEF Accepted
  <2>2. e.command \in {"G10", "G92"} => ~Pending("tool")'
    <3> SUFFICES ASSUME e.command \in {"G10", "G92"} PROVE ~Applies(e, "tool")
      BY <1>5, <1>6 DEF Pending
    <3>1. e.axis # "tool_length"
      BY <1>2, ZeroDataFits DEF e
    <3> QED BY <3>1 DEF Applies
  <2>3. /\ DOMAIN e.named \subseteq Axes
        /\ \A a \in DOMAIN e.named :
             /\ e.named[a] \in Int
             /\ e.command = "G92" =>
                  e.data[a] = gc.position[a] - e.coordSystem[a] - e.named[a]
                                - ToolOffset(gc, a)
             /\ e.command = "G10" /\ e.L = 20 =>
                  e.data[a] = gc.position[a] - gc.coordOffset[a]
                                - e.named[a] - ToolOffset(gc, a)
    BY <1>2, ZeroDataFits DEF e
  <2>4. \A a : ToolOffset(gc, a)' = ToolOffset(gc, a)
    BY <1>9 DEF ToolOffset
  <2> QED BY <1>1, <1>9, <2>1, <2>2, <2>3, <2>4 DEF ZeroFits
<1>16. PenFits'
  <2>1. PenFits /\ (Live' => Live) /\ ~Showing
    BY <1>1, EmptyFits DEF GCodeIInv, Live, Showing, Pending, At
  <2>2. ~At("drop")'
    BY <1>6 DEF Inner
  <2>3. ~Pending("speed")' => gc.speed = e.s /\ ~e.forceSync
    <3>1. ~Pending("speed")' => ~Applies(e, "speed")
      BY <1>5, <1>6 DEF Pending
    <3> QED BY <3>1 DEF Applies
  <2>4. e.isMotion => Pending("motion")'
    <3> SUFFICES ASSUME e.isMotion PROVE Applies(e, "motion")
      BY <1>5, <1>6 DEF Pending
    <3>1. AxisWords(l) # {} /\ e.axis = "motion"
      BY <1>4
    <3>2. e.motion # "G80"
      BY <1>2, <1>4, <3>1 DEF Accepted, MotionErrors
    <3> QED BY <3>1, <3>2 DEF Applies
  <2>5. ~Showing' /\ gc.spindle = "M3" /\ e.motion \in Cutting =>
          gc.motion \in Cutting
    <3> SUFFICES ASSUME ~Showing', gc.spindle = "M3", e.motion \in Cutting
                 PROVE  gc.motion \in Cutting
      OBVIOUS
    <3>1. ~Pending("speed")' /\ ~Pending("motion")'
      BY DEF Showing
    <3>2. ~e.forceSync /\ ~e.isMotion
      BY <2>3, <2>4, <3>1
    <3> QED BY <1>4, <3>2
  <2> QED BY <1>1, <1>9, <2>1, <2>2, <2>3, <2>4, <2>5 DEF PenFits
<1> QED BY <1>10, <1>11, <1>12, <1>13, <1>14, <1>15, <1>16 DEF GCodeIInv

-----------------------------------------------------------------------------
(* The end of a step. *)

LEMMA HeadFits ==
  ASSUME TodoFits, todo # <<>>
  PROVE  /\ Head(todo) \in Steps /\ Holds(todo, Head(todo))
         /\ b.jog => Head(todo) \in {"jog", "drop"}
         /\ ~b.jog => Head(todo) # "jog"
         /\ Head(todo) = "drop" => Head(Tail(todo)) = todo[2]
                                   /\ todo[2] \in {"line", "jog"} /\ Tail(todo) # <<>>
         /\ Head(todo) \notin {"drop", "jog"} => ~b.jog
<1>1. /\ todo \in Seq(Steps) /\ 1 \in DOMAIN todo /\ Head(todo) = todo[1]
      /\ OneInner(todo)
  BY DEF TodoFits
<1>2. b.jog => Head(todo) \in {"jog", "drop"}
  <2>1. Head(<<"jog">>) = "jog" /\ Head(<<"drop", "jog">>) = "drop"
    OBVIOUS
  <2> QED BY <2>1 DEF TodoFits, Jogging
<1>3. ~b.jog => Head(todo) # "jog"
  BY <1>1 DEF TodoFits
<1>4. Head(todo) = "drop" => Head(Tail(todo)) = todo[2]
                             /\ todo[2] \in {"line", "jog"} /\ Tail(todo) # <<>>
  <2> SUFFICES ASSUME todo[1] = "drop"
               PROVE  Head(Tail(todo)) = todo[2]
                      /\ todo[2] \in {"line", "jog"} /\ Tail(todo) # <<>>
    BY <1>1
  <2>1. Len(todo) >= 2 /\ todo[2] \in {"line", "jog"}
    BY <1>1 DEF OneInner
  <2> DEFINE t == Tail(todo)
  <2>2. t \in Seq(Steps) /\ Len(t) = Len(todo) - 1 /\ t[1] = todo[2]
    BY <1>1, <2>1
  <2> HIDE DEF t
  <2>3. t # <<>> /\ Head(t) = t[1]
    BY <2>1, <2>2
  <2> QED BY <2>1, <2>2, <2>3 DEF t
<1> QED BY <1>1, <1>2, <1>3, <1>4 DEF Holds

LEMMA Popped ==
  ASSUME TodoFits, todo # <<>>, todo' = Tail(todo), b' = b
  PROVE  /\ TodoFits'
         /\ \A x : Holds(todo', x) =>
              /\ Holds(todo, x) /\ x \in Steps
              /\ StepOrder[Head(todo)] < StepOrder[x]
              /\ Head(todo) # "drop" => x \notin Inner
         /\ \A x : Holds(todo, x) => x = Head(todo) \/ Holds(todo', x)
         /\ todo' # <<>> => Holds(todo', Head(todo'))
<1>1. todo \in Seq(Steps) /\ Increasing(todo) /\ OneInner(todo)
  BY DEF TodoFits
<1>2. /\ todo' \in Seq(Steps) /\ Increasing(todo') /\ OneInner(todo')
      /\ \A x : Holds(todo', x) =>
              /\ Holds(todo, x) /\ x \in Steps
              /\ StepOrder[Head(todo)] < StepOrder[x]
              /\ Head(todo) # "drop" => x \notin Inner
      /\ \A x : Holds(todo, x) => x = Head(todo) \/ Holds(todo', x)
  BY <1>1, TailFits
<1>3. todo' # <<>> /\ ~b.jog => \A i \in DOMAIN todo' : todo'[i] # "jog"
  <2> SUFFICES ASSUME ~b.jog, NEW i \in DOMAIN todo' PROVE todo'[i] # "jog"
    OBVIOUS
  <2>1. Holds(todo, todo'[i])
    BY <1>2 DEF Holds
  <2> QED BY <2>1 DEF TodoFits, Holds
<1>4. todo' # <<>> /\ b.jog => todo' \in Jogging
  <2>1. Tail(<<"jog">>) = <<>> /\ Tail(<<"drop", "jog">>) = <<"jog">>
    OBVIOUS
  <2> QED BY <2>1 DEF TodoFits, Jogging
<1>5. todo' # <<>> => Holds(todo', Head(todo'))
  BY <1>2 DEF Holds
<1> QED BY <1>2, <1>3, <1>4, <1>5 DEF TodoFits

LEMMA Replaced ==
  ASSUME TodoFits, todo # <<>>, ~b.jog, b' = b, Head(todo) # "drop",
         NEW s \in Inner \ {"drop", "jog"}, todo' = <<s>> \o Tail(todo),
         \A y \in Steps \ Inner : StepOrder[Head(todo)] < StepOrder[y] =>
                                    StepOrder[s] < StepOrder[y]
  PROVE  /\ TodoFits'
         /\ todo' # <<>> /\ Head(todo') = s /\ Tail(todo') = Tail(todo)
         /\ \A x : Holds(todo', x) => x = s \/
              /\ Holds(todo, x) /\ x \in Steps \ Inner
              /\ StepOrder[Head(todo)] < StepOrder[x]
         /\ \A x : Holds(todo, x) => x = Head(todo) \/ Holds(todo', x)
<1> DEFINE t == Tail(todo)
<1>1. todo \in Seq(Steps) /\ Increasing(todo) /\ OneInner(todo)
  BY DEF TodoFits
<1>2. /\ t \in Seq(Steps) /\ Increasing(t)
      /\ \A x : Holds(t, x) =>
              /\ Holds(todo, x) /\ x \in Steps \ Inner
              /\ StepOrder[Head(todo)] < StepOrder[x]
      /\ \A x : Holds(todo, x) => x = Head(todo) \/ Holds(t, x)
  BY <1>1, TailFits
<1>3. s \in Steps
  BY Orders DEF Inner
<1> HIDE DEF t
<1>4. \A y : Holds(t, y) => StepOrder[s] < StepOrder[y]
  BY <1>2
<1>5. /\ todo' \in Seq(Steps) /\ todo' # <<>> /\ Increasing(todo')
      /\ Head(todo') = s /\ Tail(todo') = t
      /\ \A y : Holds(todo', y) <=> y = s \/ Holds(t, y)
  BY <1>2, <1>3, <1>4, ConsFits DEF t
<1>6. OneInner(todo')
  <2>1. todo'[1] = s
    BY <1>5
  <2>2. \A i \in DOMAIN todo' : i # 1 => i - 1 \in DOMAIN t /\ todo'[i] = t[i - 1]
    BY <1>2 DEF t
  <2>3. \A i \in DOMAIN todo' : todo'[i] \in Inner => i = 1
    BY <1>2, <2>2 DEF Holds
  <2> QED BY <2>1, <2>3 DEF OneInner
<1>7. \A i \in DOMAIN todo' : todo'[i] # "jog"
  <2>1. ~Holds(t, "jog")
    BY <1>2 DEF Inner
  <2> QED BY <1>5, <2>1 DEF Holds
<1> QED BY <1>2, <1>5, <1>6, <1>7 DEF TodoFits, t

(* What a change leaves alone. *)

Still == todo = <<>> \/ Head(todo) \notin {"line", "jog", "drop", "probing"}

LEMMA PlaceKept ==
  ASSUME PlaceFits, Still, Still', gc'.position = gc.position,
         UNCHANGED <<queue, pos, lost>>, Live' => Live
  PROVE  PlaceFits'
<1>1. ~During("line")' /\ ~During("jog")'
  BY DEF Still, During, At
<1>2. Live' => gc.position = PlannedEnd \/ Misled
  BY DEF PlaceFits, Still
<1>3. PlannedEnd' = PlannedEnd /\ Misled' = Misled
  BY DEF PlannedEnd, Misled
<1> QED BY <1>1, <1>2, <1>3 DEF PlaceFits

LEMMA SystemKept ==
  ASSUME SystemFits, gc'.coord = gc.coord, gc'.coordSystem = gc.coordSystem,
         UNCHANGED <<stored, b>>, Pending("coord")' => Pending("coord"),
         Live' => Live
  PROVE  SystemFits'
BY DEF SystemFits

LEMMA ZeroKept ==
  ASSUME ZeroFits, UNCHANGED b, Pending("command")' => Pending("command"),
         Pending("coord") => Pending("coord")',
         Pending("tool")' => Pending("tool"),
         gc'.position = gc.position, gc'.coordSystem = gc.coordSystem,
         gc'.coordOffset = gc.coordOffset, gc'.toolOffset = gc.toolOffset
  PROVE  ZeroFits'
<1>1. \A a : ToolOffset(gc, a)' = ToolOffset(gc, a)
  BY DEF ToolOffset
<1> QED BY <1>1 DEF ZeroFits

LEMMA PenKept ==
  ASSUME PenFits, UNCHANGED <<b, queue, pwm, lost>>, Live' => Live,
         gc'.spindle = gc.spindle, gc'.motion = gc.motion, gc'.speed = gc.speed,
         todo' # <<>> => todo # <<>>, ~At("drop")', ~At("drop"), ~At("line"),
         Pending("speed") <=> Pending("speed")',
         Pending("motion") <=> Pending("motion")'
  PROVE  PenFits'
<1>1. Showing => Showing'
  BY DEF Showing
<1> QED BY <1>1 DEF PenFits

LEMMA SpindleFits ==
  ASSUME TypesFit, NEW mode \in Spindles, NEW rpm \in Nat
  PROVE  /\ SpindleSet(mode, rpm) \in {0} \cup PwmMin..PwmMax
         /\ ~abort /\ mode # "M3" => SpindleSet(mode, rpm) <= Rest
         /\ ~abort /\ mode = "M3" => SpindleSet(mode, rpm) = Pwm(rpm)
<1>1. abort \in BOOLEAN /\ pwm \in {0} \cup PwmMin..PwmMax
  BY DEF TypesFit
<1>2. Pwm(0) \in {0} \cup PwmMin..PwmMax /\ Pwm(rpm) \in {0} \cup PwmMin..PwmMax
  BY PwmFits
<1>3. CASE abort
  BY <1>1, <1>3 DEF SpindleSet
<1>4. CASE ~abort /\ mode = "M5"
  BY <1>4, PensFit DEF SpindleSet
<1>5. CASE ~abort /\ mode = "M4"
  BY <1>2, <1>5, PensFit DEF SpindleSet
<1>6. CASE ~abort /\ mode = "M3"
  BY <1>2, <1>6 DEF SpindleSet
<1> QED BY <1>1, <1>3, <1>4, <1>5, <1>6 DEF Spindles

LEMMA WriteFits ==
  ASSUME TypesFit, NEW r \in Records, NEW v \in Grid
  PROVE  /\ DOMAIN Write(r, v) = DOMAIN stored \cup {r}
         /\ Write(r, v) \in [DOMAIN Write(r, v) -> Grid]
         /\ "G54" \in DOMAIN Write(r, v) /\ DOMAIN Write(r, v) \subseteq Records
         /\ Write(r, v)[r] = v
         /\ \A s \in DOMAIN stored : s # r => Write(r, v)[s] = stored[s]
BY DEF TypesFit, Write

-----------------------------------------------------------------------------
(* A torn record is found and replaced. *)

LEMMA RepairKeeps ==
  ASSUME GCodeIInv, todo = <<>>, NEW r \in Records \ DOMAIN stored,
         stored' = Write(r, Zero),
         UNCHANGED <<gc, b, todo, path, machine, pwm, flood, abort, lost>>
  PROVE  GCodeIInv'
<1> USE DEF machine
<1>1. TypesFit
  BY DEF GCodeIInv
<1>2. /\ stored' \in [DOMAIN stored' -> Grid]
      /\ "G54" \in DOMAIN stored' /\ DOMAIN stored' \subseteq Records
      /\ \A s \in DOMAIN stored : s \in DOMAIN stored' /\ stored'[s] = stored[s]
  <2>1. r \in Records
    OBVIOUS
  <2>2. /\ Write(r, Zero) \in [DOMAIN Write(r, Zero) -> Grid]
        /\ "G54" \in DOMAIN Write(r, Zero)
        /\ DOMAIN Write(r, Zero) = DOMAIN stored \cup {r}
        /\ DOMAIN Write(r, Zero) \subseteq Records
        /\ \A s \in DOMAIN stored : s # r => Write(r, Zero)[s] = stored[s]
    BY <1>1, <2>1, WriteFits, ZeroInGrid
  <2> QED BY <2>2
<1>3. TypesFit'
  BY <1>1, <1>2 DEF TypesFit, BlockFits
<1>4. TodoFits'
  BY DEF GCodeIInv, TodoFits
<1>5. StateFits' /\ ZeroFits'
  BY EmptyFits DEF StateFits, ZeroFits, At, Pending
<1>6. PlaceFits'
  BY PlaceKept DEF GCodeIInv, Still, Live
<1>7. SystemFits'
  BY <1>2, EmptyFits DEF GCodeIInv, SystemFits, Live, Pending
<1>8. PenFits'
  BY PenKept DEF GCodeIInv, Live, At, Pending
<1> QED BY <1>3, <1>4, <1>5, <1>6, <1>7, <1>8 DEF GCodeIInv

LEMMA ReadFailsKeeps ==
  ASSUME GCodeIInv, NEW l \in Lines, ReadFails(l), UNCHANGED lost
  PROVE  GCodeIInv'
<1>1. TypesFit
  BY DEF GCodeIInv
<1>2. PICK r \in Reads(gc, l) \ DOMAIN stored : stored' = Write(r, Zero)
  BY DEF ReadFails
<1>3. r \in Records
  <2>1. CoordSelects \subseteq Records /\ {"G28", "G30"} \subseteq Records
    BY DEF Records
  <2>2. CoordSelect(gc, l) \in CoordSelects
    <3>1. gc.coord \in CoordSelects
      BY <1>1 DEF TypesFit, ModesType
    <3> QED BY <3>1, ModeFits DEF CoordSelect
  <2>3. Command(l) = "G10" => G10Record(gc, l) \in CoordSelects
    BY <1>1, RecordFits DEF ReadFails
  <2> QED BY <1>2, <2>1, <2>2, <2>3 DEF Reads
<1> QED BY <1>2, <1>3, RepairKeeps DEF ReadFails, Ready, machine

LEMMA ViewParametersKeeps ==
  ASSUME GCodeIInv, ViewParameters, UNCHANGED lost
  PROVE  GCodeIInv'
BY RepairKeeps DEF ViewParameters, machine

-----------------------------------------------------------------------------
(* The sections. *)

LEMMA SectionDone ==
  ASSUME GCodeIInv, todo # <<>>, todo' = Tail(todo), b' = b,
         Head(todo) \notin {"drop", "jog"}
  PROVE  /\ TodoFits' /\ ~b.jog /\ BlockFits(b) /\ Still'
         /\ state # "JOG" /\ gc.motion = b.motion
         /\ \A x \in Inner : ~At(x)'
         /\ \A x : Pending(x)' => Pending(x) /\ StepOrder[Head(todo)] < StepOrder[x]
         /\ \A x : Pending(x) => x = Head(todo) \/ Pending(x)'
         /\ Pending(Head(todo))
<1>1. TodoFits /\ TypesFit /\ StateFits
  BY DEF GCodeIInv
<1>2. ~b.jog /\ Holds(todo, Head(todo))
  BY <1>1, HeadFits
<1>3. /\ TodoFits'
      /\ \A x : Holds(todo', x) =>
           /\ Holds(todo, x)
           /\ StepOrder[Head(todo)] < StepOrder[x] /\ x \notin Inner
      /\ \A x : Holds(todo, x) => x = Head(todo) \/ Holds(todo', x)
      /\ todo' # <<>> => Holds(todo', Head(todo'))
  BY <1>1, Popped
<1>4. \A x \in Inner : ~At(x)'
  BY <1>3 DEF At
<1>5. Still'
  BY <1>4 DEF Still, At, Inner
<1> QED BY <1>1, <1>2, <1>3, <1>4, <1>5 DEF Pending, TypesFit, StateFits

LEMMA SectionTurns ==
  ASSUME GCodeIInv, todo # <<>>, b' = b, Head(todo) \notin Inner,
         NEW s \in {"sync", "line", "probe", "paused"},
         todo' = <<s>> \o Tail(todo),
         \A y \in Steps \ Inner : StepOrder[Head(todo)] < StepOrder[y] =>
                                    StepOrder[s] < StepOrder[y]
  PROVE  /\ TodoFits' /\ ~b.jog /\ BlockFits(b)
         /\ state # "JOG" /\ gc.motion = b.motion
         /\ todo' # <<>> /\ Head(todo') = s
         /\ \A x : Pending(x)' => x = s \/
              (Pending(x) /\ x \notin Inner /\ StepOrder[Head(todo)] < StepOrder[x])
         /\ \A x : Pending(x) => x = Head(todo) \/ Pending(x)'
         /\ Pending(Head(todo))
<1>1. TodoFits /\ TypesFit /\ StateFits /\ s \in Inner \ {"drop", "jog"}
      /\ Head(todo) \notin {"drop", "jog"}
  BY DEF GCodeIInv, Inner
<1>2. ~b.jog /\ Holds(todo, Head(todo))
  BY <1>1, HeadFits
<1>3. /\ TodoFits'
      /\ todo' # <<>> /\ Head(todo') = s
      /\ \A x : Holds(todo', x) => x = s \/
           /\ Holds(todo, x) /\ x \in Steps \ Inner
           /\ StepOrder[Head(todo)] < StepOrder[x]
      /\ \A x : Holds(todo, x) => x = Head(todo) \/ Holds(todo', x)
  BY <1>1, <1>2, Replaced
<1> QED BY <1>1, <1>2, <1>3 DEF Pending, TypesFit, StateFits

LEMMA SetSpeedKeeps ==
  ASSUME GCodeIInv, SetSpeed, UNCHANGED lost
  PROVE  GCodeIInv'
<1>1. /\ todo # <<>> /\ Head(todo) = "speed" /\ todo' = Tail(todo)
      /\ gc' = [gc EXCEPT !.speed = b.s]
      /\ UNCHANGED <<b, path, queue, pos, state, flood, abort, stored, lost>>
      /\ IF gc.spindle # "M5" /\ ~b.isMotion
         THEN /\ CheckOrSynced
              /\ pwm' = IF state = "CHECK" THEN pwm
                        ELSE SpindleSet(gc.spindle, ShownSpeed)
         ELSE pwm' = pwm
  BY DEF SetSpeed, At, Done, machine
<1>2. /\ TodoFits' /\ ~b.jog /\ BlockFits(b) /\ Still'
      /\ state # "JOG" /\ gc.motion = b.motion
      /\ \A x \in Inner : ~At(x)'
      /\ \A x : Pending(x)' => Pending(x) /\ StepOrder["speed"] < StepOrder[x]
      /\ \A x : Pending(x) => x = "speed" \/ Pending(x)'
      /\ Pending("speed")
  BY <1>1, SectionDone
<1>3. TypesFit /\ gc \in ModesType
  BY DEF GCodeIInv, TypesFit
<1>4. ShownSpeed \in Nat /\ (gc.motion \in Cutting => ShownSpeed = b.s)
      /\ b.s \in Nat
  BY <1>2 DEF ShownSpeed, BlockFits
<1>5. /\ gc' \in ModesType
      /\ gc'.position = gc.position /\ gc'.coordSystem = gc.coordSystem
      /\ gc'.coordOffset = gc.coordOffset /\ gc'.toolOffset = gc.toolOffset
      /\ gc'.coord = gc.coord /\ gc'.spindle = gc.spindle
      /\ gc'.speed = b.s /\ gc'.motion = gc.motion /\ gc.spindle \in Spindles
  BY <1>1, <1>3, <1>4 DEF ModesType
<1>6. SpindleSet(gc.spindle, ShownSpeed) \in {0} \cup PwmMin..PwmMax
  BY <1>3, <1>4, <1>5, SpindleFits
<1>7. TypesFit'
  <2>1. pwm' \in {0} \cup PwmMin..PwmMax
    BY <1>1, <1>3, <1>6 DEF TypesFit
  <2> QED BY <1>1, <1>2, <1>3, <1>5, <2>1 DEF TypesFit, BlockFits
<1>8. StateFits'
  BY <1>1, <1>2, <1>5 DEF GCodeIInv, StateFits, Inner
<1>9. Live' = Live
  BY <1>1 DEF Live
<1>10. PlaceFits'
  BY <1>1, <1>2, <1>5, <1>9, PlaceKept DEF GCodeIInv, Still
<1>11. SystemFits'
  BY <1>1, <1>2, <1>5, <1>9, SystemKept DEF GCodeIInv
<1>12. ZeroFits'
  BY <1>1, <1>2, <1>5, ZeroKept DEF GCodeIInv
<1>13. PenFits'
  <2> SUFFICES ASSUME Live PROVE PenFits'
    BY <1>9 DEF PenFits
  <2>1. ~abort /\ state # "CHECK"
    BY DEF Live
  <2>2. PenFits
    BY DEF GCodeIInv
  <2>3. \A i \in DOMAIN queue' : queue'[i].spindle = gc'.spindle
    BY <1>1, <1>5, <2>2 DEF PenFits
  <2>4. queue' = <<>> /\ pwm' > Rest => gc'.spindle = "M3"
    <3>1. gc.spindle # "M3" => SpindleSet(gc.spindle, ShownSpeed) <= Rest
      BY <1>3, <1>4, <1>5, <2>1, SpindleFits
    <3>2. CASE pwm' = pwm
      BY <1>1, <1>5, <2>2, <3>2 DEF PenFits
    <3>3. CASE pwm' = SpindleSet(gc.spindle, ShownSpeed)
      BY <1>5, <1>6, <3>1, <3>3, PensFit, GCodeAssumption
    <3> QED BY <1>1, <3>2, <3>3
  <2>5. ~At("drop")' /\ ~Pending("speed")'
    BY <1>2, Orders DEF Inner
  <2>6. ~Showing' /\ gc'.spindle = "M3" /\ gc'.motion \in Cutting =>
          queue' = <<>> /\ pwm' = Pwm(gc'.speed)
    <3> SUFFICES ASSUME ~Showing', gc.spindle = "M3", gc.motion \in Cutting
                 PROVE  queue = <<>> /\ pwm' = Pwm(b.s)
      BY <1>1, <1>5
    <3>1. ~Pending("motion")
      BY <1>2 DEF Showing
    <3>2. ~b.isMotion
      BY <1>2, <2>2, <3>1 DEF PenFits
    <3>3. CheckOrSynced /\ pwm' = SpindleSet("M3", ShownSpeed)
      BY <1>1, <2>1, <3>2
    <3>4. queue = <<>>
      BY <2>1, <3>3 DEF CheckOrSynced, Synced
    <3>5. pwm' = Pwm(b.s)
      BY <1>3, <1>4, <2>1, <3>3, SpindleFits DEF Spindles
    <3> QED BY <3>4, <3>5
  <2> QED BY <1>1, <1>5, <2>3, <2>4, <2>5, <2>6 DEF PenFits
<1> QED BY <1>2, <1>7, <1>8, <1>10, <1>11, <1>12, <1>13 DEF GCodeIInv

(* A step with nothing left to do for the place, the pen or the offsets. *)
LEMMA QuietStep ==
  ASSUME GCodeIInv, todo # <<>>, todo' = Tail(todo), b' = b,
         Head(todo) \notin {"drop", "jog", "line", "probing", "speed", "coord",
                            "motion"},
         gc' \in ModesType, flood' \in BOOLEAN,
         gc'.position = gc.position, gc'.coordSystem = gc.coordSystem,
         gc'.coordOffset = gc.coordOffset, gc'.toolOffset = gc.toolOffset,
         gc'.coord = gc.coord, gc'.spindle = gc.spindle,
         gc'.speed = gc.speed, gc'.motion = gc.motion,
         UNCHANGED <<path, queue, pos, pwm, abort, stored, lost>>,
         state' = state \/ (state = "HOLD" /\ state' = "IDLE")
  PROVE  GCodeIInv'
<1>1. /\ TodoFits' /\ BlockFits(b) /\ Still' /\ state # "JOG"
      /\ gc.motion = b.motion
      /\ \A x \in Inner : ~At(x)'
      /\ \A x : Pending(x)' => Pending(x)
      /\ \A x : Pending(x) => x = Head(todo) \/ Pending(x)'
  BY SectionDone
<1>2. TypesFit'
  <2>1. state' \in {"IDLE", "CYCLE", "JOG", "HOLD", "ALARM", "CHECK"}
    BY DEF GCodeIInv, TypesFit
  <2> QED BY <1>1, <2>1 DEF GCodeIInv, TypesFit, BlockFits
<1>3. StateFits'
  BY <1>1 DEF GCodeIInv, StateFits, Inner
<1>4. Live' = Live
  BY DEF Live
<1>5. PlaceFits'
  BY <1>1, <1>4, PlaceKept DEF GCodeIInv, Still
<1>6. SystemFits'
  BY <1>1, <1>4, SystemKept DEF GCodeIInv
<1>7. ZeroFits'
  BY <1>1, ZeroKept DEF GCodeIInv
<1>8. PenFits'
  <2>1. ~At("drop") /\ ~At("drop")' /\ ~At("line")
    BY <1>1 DEF Inner, At
  <2> QED BY <1>1, <1>4, <2>1, PenKept DEF GCodeIInv
<1> QED BY <1>1, <1>2, <1>3, <1>5, <1>6, <1>7, <1>8 DEF GCodeIInv

LEMMA CoolantControlKeeps ==
  ASSUME GCodeIInv, CoolantControl, UNCHANGED lost
  PROVE  GCodeIInv'
<1>1. /\ todo # <<>> /\ Head(todo) = "coolant" /\ todo' = Tail(todo)
      /\ gc' = [gc EXCEPT !.coolant = b.coolant]
      /\ flood' = IF state = "CHECK" \/ abort THEN flood ELSE b.coolant = "M8"
      /\ UNCHANGED <<b, path, queue, pos, state, pwm, abort, stored, lost>>
  BY DEF CoolantControl, At, Done, machine
<1>2. BlockFits(b) /\ gc \in ModesType /\ flood \in BOOLEAN
  BY <1>1 DEF GCodeIInv, TypesFit
<1>3. flood' \in BOOLEAN
  <2>1. CASE state = "CHECK" \/ abort
    BY <1>1, <1>2, <2>1
  <2>2. CASE ~(state = "CHECK" \/ abort)
    BY <1>1, <2>2
  <2> QED BY <2>1, <2>2
<1>4. /\ gc' \in ModesType
      /\ gc'.position = gc.position /\ gc'.coordSystem = gc.coordSystem
      /\ gc'.coordOffset = gc.coordOffset /\ gc'.toolOffset = gc.toolOffset
      /\ gc'.coord = gc.coord /\ gc'.spindle = gc.spindle
      /\ gc'.speed = gc.speed /\ gc'.motion = gc.motion
  BY <1>1, <1>2 DEF ModesType, BlockFits
<1> QED BY <1>1, <1>3, <1>4, QuietStep, Zenon

LEMMA DwellKeeps ==
  ASSUME GCodeIInv, Dwell, UNCHANGED lost
  PROVE  GCodeIInv'
<1>1. /\ todo # <<>> /\ Head(todo) \in {"dwell", "sync"} /\ todo' = Tail(todo)
      /\ UNCHANGED <<gc, b, path, queue, pos, state, pwm, flood, abort, stored,
                     lost>>
  BY DEF Dwell, At, Done, machine
<1>2. gc \in ModesType /\ flood \in BOOLEAN
  BY DEF GCodeIInv, TypesFit
<1> QED BY <1>1, <1>2, QuietStep

LEMMA SpindleControlKeeps ==
  ASSUME GCodeIInv, SpindleControl, UNCHANGED lost
  PROVE  GCodeIInv'
<1>1. /\ todo # <<>> /\ Head(todo) = "spindle" /\ todo' = Tail(todo)
      /\ gc' = [gc EXCEPT !.spindle = b.spindle]
      /\ UNCHANGED <<b, path, queue, pos, state, flood, abort, stored, lost>>
      /\ CheckOrSynced
      /\ pwm' = IF state = "CHECK" THEN pwm
                ELSE SpindleSet(b.spindle, ShownSpeed)
  BY DEF SpindleControl, At, Done, machine
<1>2. /\ TodoFits' /\ BlockFits(b) /\ Still'
      /\ state # "JOG" /\ gc.motion = b.motion
      /\ \A x \in Inner : ~At(x)'
      /\ \A x : Pending(x)' => Pending(x)
      /\ \A x : Pending(x) => x = "spindle" \/ Pending(x)'
      /\ ~b.jog
  BY <1>1, SectionDone
<1>3. TypesFit /\ gc \in ModesType
  BY DEF GCodeIInv, TypesFit
<1>4. ShownSpeed \in Nat /\ (gc.motion \in Cutting => ShownSpeed = b.s)
      /\ b.s \in Nat /\ b.spindle \in Spindles
  BY <1>2 DEF ShownSpeed, BlockFits
<1>5. /\ gc' \in ModesType
      /\ gc'.position = gc.position /\ gc'.coordSystem = gc.coordSystem
      /\ gc'.coordOffset = gc.coordOffset /\ gc'.toolOffset = gc.toolOffset
      /\ gc'.coord = gc.coord /\ gc'.spindle = b.spindle
      /\ gc'.speed = gc.speed /\ gc'.motion = gc.motion
  BY <1>1, <1>3, <1>4 DEF ModesType
<1>6. SpindleSet(b.spindle, ShownSpeed) \in {0} \cup PwmMin..PwmMax
  BY <1>3, <1>4, SpindleFits
<1>7. TypesFit'
  <2>1. pwm' \in {0} \cup PwmMin..PwmMax
    BY <1>1, <1>3, <1>6 DEF TypesFit
  <2> QED BY <1>1, <1>2, <1>3, <1>5, <2>1 DEF TypesFit, BlockFits
<1>8. StateFits'
  BY <1>1, <1>2, <1>5 DEF GCodeIInv, StateFits, Inner
<1>9. Live' = Live
  BY <1>1 DEF Live
<1>10. PlaceFits'
  BY <1>1, <1>2, <1>5, <1>9, PlaceKept DEF GCodeIInv, Still
<1>11. SystemFits'
  BY <1>1, <1>2, <1>5, <1>9, SystemKept DEF GCodeIInv
<1>12. ZeroFits'
  BY <1>1, <1>2, <1>5, ZeroKept DEF GCodeIInv
<1>13. PenFits'
  <2> SUFFICES ASSUME Live PROVE PenFits'
    BY <1>9 DEF PenFits
  <2>1. ~abort /\ state # "CHECK" /\ PenFits
    BY DEF Live, GCodeIInv
  <2>2. queue' = <<>> /\ DOMAIN queue' = {}
    BY <1>1, <2>1 DEF CheckOrSynced, Synced
  <2>3. pwm' = SpindleSet(b.spindle, ShownSpeed)
    BY <1>1, <2>1
  <2>4. pwm' > Rest => b.spindle = "M3"
    <3>1. b.spindle # "M3" => pwm' <= Rest
      BY <1>3, <1>4, <2>1, <2>3, SpindleFits
    <3> QED BY <1>6, <2>3, <3>1, PensFit, GCodeAssumption
  <2>5. ~At("drop")' /\ (Pending("speed")' <=> Pending("speed"))
        /\ (Pending("motion")' <=> Pending("motion"))
    BY <1>2 DEF Inner
  <2>6. ~Showing' /\ gc'.spindle = "M3" /\ gc'.motion \in Cutting =>
          pwm' = Pwm(gc'.speed)
    <3> SUFFICES ASSUME ~Showing', b.spindle = "M3", gc.motion \in Cutting
                 PROVE  pwm' = Pwm(gc.speed)
      BY <1>5
    <3>1. gc.speed = b.s
      BY <1>1, <1>2, <2>1, <2>5 DEF PenFits, Showing, Live
    <3> QED BY <1>3, <1>4, <2>1, <2>3, <3>1, SpindleFits
  <2> QED BY <1>1, <1>2, <1>5, <2>1, <2>2, <2>4, <2>5, <2>6 DEF PenFits
<1> QED BY <1>2, <1>7, <1>8, <1>10, <1>11, <1>12, <1>13 DEF GCodeIInv

(* The ends of the sections that change the work coordinates. *)
LEMMA LengthOffsetKeeps ==
  ASSUME GCodeIInv, LengthOffset, UNCHANGED lost
  PROVE  GCodeIInv'
<1>1. /\ todo # <<>> /\ Head(todo) = "tool"
      /\ gc' = [gc EXCEPT !.toolOffset = b.toolOffset]
      /\ UNCHANGED <<b, path, queue, pos, state, pwm, flood, abort, stored,
                     lost>>
      /\ IF gc.toolOffset # b.toolOffset THEN todo' = <<"sync">> \o Tail(todo)
                                         ELSE todo' = Tail(todo)
  BY DEF LengthOffset, At, Done, Then, machine
<1>2. gc \in ModesType /\ TodoFits /\ TypesFit /\ flood \in BOOLEAN
  BY DEF GCodeIInv, TypesFit
<1>3. CASE gc.toolOffset = b.toolOffset
  <2>1. /\ gc' \in ModesType
        /\ gc'.position = gc.position /\ gc'.coordSystem = gc.coordSystem
        /\ gc'.coordOffset = gc.coordOffset /\ gc'.toolOffset = gc.toolOffset
        /\ gc'.coord = gc.coord /\ gc'.spindle = gc.spindle
        /\ gc'.speed = gc.speed /\ gc'.motion = gc.motion
    BY <1>1, <1>2, <1>3 DEF ModesType
  <2> QED BY <1>1, <1>2, <1>3, <2>1, QuietStep
<1>4. CASE gc.toolOffset # b.toolOffset
  <2>1. todo' = <<"sync">> \o Tail(todo)
    BY <1>1, <1>4
  <2>2. \A y \in Steps \ Inner : StepOrder[Head(todo)] < StepOrder[y] =>
                                    StepOrder["sync"] < StepOrder[y]
    BY <1>1, Orders
  <2>3. /\ TodoFits' /\ BlockFits(b) /\ state # "JOG" /\ gc.motion = b.motion
        /\ todo' # <<>> /\ Head(todo') = "sync"
        /\ \A x : Pending(x)' => x = "sync" \/ Pending(x)
        /\ \A x : Pending(x) => x = "tool" \/ Pending(x)'
        /\ Pending("tool")
    BY <1>1, <2>1, <2>2, SectionTurns DEF Inner
  <2>4. /\ gc' \in ModesType
        /\ gc'.position = gc.position /\ gc'.coordSystem = gc.coordSystem
        /\ gc'.coordOffset = gc.coordOffset
        /\ gc'.coord = gc.coord /\ gc'.spindle = gc.spindle
        /\ gc'.speed = gc.speed /\ gc'.motion = gc.motion
    BY <1>1, <1>2, <2>3 DEF ModesType, BlockFits
  <2>5. TypesFit'
    BY <1>1, <1>2, <2>3, <2>4 DEF TypesFit, BlockFits
  <2>6. StateFits'
    BY <1>1, <2>3, <2>4 DEF GCodeIInv, StateFits, At
  <2>7. Live' = Live
    BY <1>1 DEF Live
  <2>8. PlaceFits'
    BY <1>1, <2>3, <2>4, <2>7, PlaceKept DEF GCodeIInv, Still
  <2>9. SystemFits'
    BY <1>1, <2>3, <2>4, <2>7, SystemKept DEF GCodeIInv
  <2>10. ZeroFits'
    <3> SUFFICES ASSUME Pending("command")' PROVE ZeroFits'
      BY DEF ZeroFits
    <3>1. Pending("command") /\ ZeroFits
      BY <2>3 DEF GCodeIInv
    <3>2. b.command \notin {"G10", "G92"}
      BY <2>3, <3>1 DEF ZeroFits
    <3>3. Pending("coord") => Pending("coord")'
      BY <2>3
    <3> QED BY <1>1, <2>4, <3>1, <3>2, <3>3 DEF ZeroFits
  <2>11. PenFits'
    <3>1. ~At("drop") /\ ~At("drop")' /\ ~At("line")
      BY <1>1, <2>3 DEF At
    <3> QED BY <1>1, <2>3, <2>4, <2>7, <3>1, PenKept DEF GCodeIInv
  <2> QED BY <2>3, <2>5, <2>6, <2>8, <2>9, <2>10, <2>11 DEF GCodeIInv
<1> QED BY <1>3, <1>4

LEMMA SelectSystemKeeps ==
  ASSUME GCodeIInv, SelectSystem, UNCHANGED lost
  PROVE  GCodeIInv'
<1>1. /\ todo # <<>> /\ Head(todo) = "coord"
      /\ gc' = [gc EXCEPT !.coord = b.coord, !.coordSystem = b.coordSystem]
      /\ UNCHANGED <<b, path, queue, pos, state, pwm, flood, abort, stored,
                     lost>>
      /\ todo' = <<"sync">> \o Tail(todo)
  BY DEF SelectSystem, At, Then, machine
<1>2. gc \in ModesType /\ TypesFit
  BY DEF GCodeIInv, TypesFit
<1>3. \A y \in Steps \ Inner : StepOrder[Head(todo)] < StepOrder[y] =>
                                  StepOrder["sync"] < StepOrder[y]
  BY <1>1, Orders
<1>4. /\ TodoFits' /\ BlockFits(b) /\ state # "JOG" /\ gc.motion = b.motion
      /\ todo' # <<>> /\ Head(todo') = "sync"
      /\ \A x : Pending(x)' => x = "sync" \/
           (Pending(x) /\ StepOrder["coord"] < StepOrder[x])
      /\ \A x : Pending(x) => x = "coord" \/ Pending(x)'
      /\ Pending("coord")
  BY <1>1, <1>3, SectionTurns DEF Inner
<1>5. /\ gc' \in ModesType
      /\ gc'.position = gc.position /\ gc'.coordSystem = b.coordSystem
      /\ gc'.coordOffset = gc.coordOffset /\ gc'.toolOffset = gc.toolOffset
      /\ gc'.coord = b.coord /\ gc'.spindle = gc.spindle
      /\ gc'.speed = gc.speed /\ gc'.motion = gc.motion
  BY <1>1, <1>2, <1>4 DEF ModesType, BlockFits
<1>6. TypesFit'
  BY <1>1, <1>2, <1>4, <1>5 DEF TypesFit, BlockFits
<1>7. StateFits'
  BY <1>1, <1>4, <1>5 DEF GCodeIInv, StateFits, At
<1>8. Live' = Live
  BY <1>1 DEF Live
<1>9. PlaceFits'
  BY <1>1, <1>4, <1>5, <1>8, PlaceKept DEF GCodeIInv, Still
<1>10. SystemFits'
  <2>a. ~(StepOrder["coord"] < StepOrder["coord"])
    BY Orders
  <2>1. ~Pending("coord")'
    BY <1>4, <2>a
  <2>2. Live => b.coord \in DOMAIN stored /\ b.coordSystem = stored[b.coord]
    BY <1>4 DEF GCodeIInv, SystemFits
  <2> QED BY <1>1, <1>5, <1>8, <2>1, <2>2 DEF SystemFits
<1>11. ZeroFits'
  <2> SUFFICES ASSUME Pending("command")' PROVE ZeroFits'
    BY DEF ZeroFits
  <2>1. Pending("command") /\ ZeroFits
    BY <1>4 DEF GCodeIInv
  <2>2. Pending("tool")' => Pending("tool")
    BY <1>4
  <2>3. \A a : ToolOffset(gc, a)' = ToolOffset(gc, a)
    BY <1>5 DEF ToolOffset
  <2> QED BY <1>1, <1>5, <2>1, <2>2, <2>3 DEF ZeroFits
<1>12. PenFits'
  <2>1. ~At("drop") /\ ~At("drop")' /\ ~At("line")
    BY <1>1, <1>4 DEF At
  <2> QED BY <1>1, <1>4, <1>5, <1>8, <2>1, PenKept DEF GCodeIInv
<1> QED BY <1>4, <1>6, <1>7, <1>9, <1>10, <1>11, <1>12 DEF GCodeIInv

LEMMA WriteRecordKeeps ==
  ASSUME GCodeIInv, WriteRecord, UNCHANGED lost
  PROVE  GCodeIInv'
<1>1. /\ todo # <<>> /\ Head(todo) = "command" /\ todo' = Tail(todo)
      /\ b.command \in {"G10", "G28.1", "G30.1"}
      /\ stored' = CASE b.command = "G10" -> Write(b.record, b.data)
                     [] b.command = "G28.1" -> Write("G28", gc.position)
                     [] OTHER -> Write("G30", gc.position)
      /\ IF b.command = "G10" THEN gc' = [gc EXCEPT !.coordSystem = G10System]
                              ELSE gc' = gc
      /\ UNCHANGED <<b, path, queue, pos, state, pwm, flood, abort, lost>>
  BY DEF WriteRecord, At, Done, machine
<1>2. gc \in ModesType /\ TypesFit /\ gc.position \in Grid
      /\ gc.coordSystem \in Grid /\ gc.coord \in CoordSelects
  BY DEF GCodeIInv, TypesFit, ModesType
<1>3. /\ TodoFits' /\ BlockFits(b) /\ Still' /\ state # "JOG"
      /\ gc.motion = b.motion
      /\ \A x \in Inner : ~At(x)'
      /\ \A x : Pending(x)' => Pending(x) /\ StepOrder["command"] < StepOrder[x]
      /\ \A x : Pending(x) => x = "command" \/ Pending(x)'
  BY <1>1, SectionDone
<1>4. PICK r \in Records, v \in Grid :
        /\ stored' = Write(r, v)
        /\ b.command = "G10" => r = b.record /\ v = b.data
        /\ b.command # "G10" => r \in {"G28", "G30"}
  <2>1. CASE b.command = "G10"
    <3>1. stored' = Write(b.record, b.data)
      BY <1>1, <2>1
    <3>2. b.record \in Records /\ b.data \in Grid
      BY <1>3, <2>1 DEF BlockFits, Records
    <3> QED BY <2>1, <3>1, <3>2
  <2>2. CASE b.command = "G28.1"
    BY <1>1, <1>2, <2>2 DEF Records
  <2>3. CASE b.command = "G30.1"
    BY <1>1, <1>2, <2>3 DEF Records
  <2> QED BY <1>1, <2>1, <2>2, <2>3
<1>5. /\ DOMAIN stored' = DOMAIN stored \cup {r}
      /\ stored' \in [DOMAIN stored' -> Grid]
      /\ "G54" \in DOMAIN stored' /\ DOMAIN stored' \subseteq Records
      /\ stored'[r] = v
      /\ \A s \in DOMAIN stored : s # r => stored'[s] = stored[s]
  BY <1>2, <1>4, WriteFits
<1>6. G10System = IF b.record = gc.coord THEN b.data ELSE gc.coordSystem
  BY DEF G10System
<1>7. /\ gc' \in ModesType
      /\ gc'.position = gc.position
      /\ gc'.coordSystem = IF b.command = "G10" /\ b.record = gc.coord
                           THEN b.data ELSE gc.coordSystem
      /\ gc'.coordOffset = gc.coordOffset /\ gc'.toolOffset = gc.toolOffset
      /\ gc'.coord = gc.coord /\ gc'.spindle = gc.spindle
      /\ gc'.speed = gc.speed /\ gc'.motion = gc.motion
  <2>1. CASE b.command = "G10"
    <3>1. G10System \in Grid
      BY <1>2, <1>3, <1>6, <2>1 DEF BlockFits
    <3> QED BY <1>1, <1>2, <1>6, <2>1, <3>1 DEF ModesType
  <2>2. CASE b.command # "G10"
    BY <1>1, <1>2, <2>2
  <2> QED BY <2>1, <2>2
<1>8. TypesFit'
  BY <1>1, <1>2, <1>3, <1>5, <1>7 DEF TypesFit, BlockFits
<1>9. StateFits'
  BY <1>1, <1>3, <1>7 DEF GCodeIInv, StateFits, Inner
<1>10. Live' = Live
  BY <1>1 DEF Live
<1>11. PlaceFits'
  BY <1>1, <1>3, <1>7, <1>10, PlaceKept DEF GCodeIInv, Still
<1>12. ~Pending("coord")' /\ ~Pending("command")'
  BY <1>3, Orders
<1>13. SystemFits'
  <2> SUFFICES ASSUME Live
               PROVE  gc.coord \in DOMAIN stored'
                      /\ gc'.coordSystem = stored'[gc.coord]
    BY <1>7, <1>10, <1>12 DEF SystemFits
  <2>1. gc.coord \in DOMAIN stored /\ gc.coordSystem = stored[gc.coord]
    BY DEF GCodeIInv, SystemFits
  <2>2. gc.coord \notin {"G28", "G30"}
    BY <1>2, CoordSelectsAre
  <2> QED BY <1>4, <1>5, <1>7, <2>1, <2>2
<1>14. ZeroFits'
  BY <1>12 DEF ZeroFits
<1>15. PenFits'
  <2>1. ~At("drop") /\ ~At("drop")' /\ ~At("line")
    BY <1>1, <1>3 DEF At, Inner
  <2> QED BY <1>1, <1>3, <1>7, <1>10, <2>1, PenKept DEF GCodeIInv
<1> QED BY <1>3, <1>8, <1>9, <1>11, <1>13, <1>14, <1>15 DEF GCodeIInv

LEMMA SetOffsetKeeps ==
  ASSUME GCodeIInv, SetOffset, UNCHANGED lost
  PROVE  GCodeIInv'
<1>1. /\ todo # <<>> /\ Head(todo) = "command"
      /\ gc' = [gc EXCEPT !.coordOffset = IF b.command = "G92" THEN b.data
                                          ELSE Zero]
      /\ UNCHANGED <<b, path, queue, pos, state, pwm, flood, abort, stored,
                     lost>>
      /\ todo' = <<"sync">> \o Tail(todo)
  BY DEF SetOffset, At, Then, machine
<1>2. gc \in ModesType /\ TypesFit
  BY DEF GCodeIInv, TypesFit
<1>3. \A y \in Steps \ Inner : StepOrder[Head(todo)] < StepOrder[y] =>
                                  StepOrder["sync"] < StepOrder[y]
  BY <1>1, Orders
<1>4. /\ TodoFits' /\ BlockFits(b) /\ state # "JOG" /\ gc.motion = b.motion
      /\ todo' # <<>> /\ Head(todo') = "sync"
      /\ \A x : Pending(x)' => x = "sync" \/
           (Pending(x) /\ StepOrder["command"] < StepOrder[x])
      /\ \A x : Pending(x) => x = "command" \/ Pending(x)'
  BY <1>1, <1>3, SectionTurns DEF Inner
<1>5. /\ gc' \in ModesType
      /\ gc'.position = gc.position /\ gc'.coordSystem = gc.coordSystem
      /\ gc'.coord = gc.coord /\ gc'.spindle = gc.spindle
      /\ gc'.speed = gc.speed /\ gc'.motion = gc.motion
  <2> DEFINE o == IF b.command = "G92" THEN b.data ELSE Zero
  <2>1. o \in Offsets
    BY <1>4 DEF BlockFits, Zero, Offsets
  <2> HIDE DEF o
  <2>2. gc' = [gc EXCEPT !.coordOffset = o]
    BY <1>1 DEF o
  <2> QED BY <1>2, <2>1, <2>2 DEF ModesType
<1>6. TypesFit'
  BY <1>1, <1>2, <1>4, <1>5 DEF TypesFit, BlockFits
<1>7. StateFits'
  BY <1>1, <1>4, <1>5 DEF GCodeIInv, StateFits, At
<1>8. Live' = Live
  BY <1>1 DEF Live
<1>9. PlaceFits'
  BY <1>1, <1>4, <1>5, <1>8, PlaceKept DEF GCodeIInv, Still
<1>10. SystemFits'
  BY <1>1, <1>4, <1>5, <1>8, SystemKept DEF GCodeIInv
<1>11. ZeroFits'
  BY <1>4, Orders DEF ZeroFits
<1>12. PenFits'
  <2>1. ~At("drop") /\ ~At("drop")' /\ ~At("line")
    BY <1>1, <1>4 DEF At
  <2> QED BY <1>1, <1>4, <1>5, <1>8, <2>1, PenKept DEF GCodeIInv
<1> QED BY <1>4, <1>6, <1>7, <1>9, <1>10, <1>11, <1>12 DEF GCodeIInv

-----------------------------------------------------------------------------
(* The points of a path, and the blocks of the queue. *)
LEMMA LastFits ==
  ASSUME NEW S, NEW s \in Seq(S), s # <<>>
  PROVE  /\ Last(s) \in S /\ Head(s) \in S /\ Tail(s) \in Seq(S)
         /\ Head(s) = s[1] /\ Last(s) = s[Len(s)]
         /\ 1 \in DOMAIN s /\ Len(s) \in DOMAIN s
         /\ Len(Tail(s)) = Len(s) - 1 /\ Len(s) \in Nat
         /\ Tail(s) = <<>> => Last(s) = Head(s) /\ DOMAIN s = {1}
         /\ Tail(s) # <<>> => Last(Tail(s)) = Last(s)
         /\ \A i \in DOMAIN Tail(s) : i + 1 \in DOMAIN s /\ Tail(s)[i] = s[i + 1]
<1>1. /\ Len(s) \in Nat /\ Len(s) >= 1 /\ DOMAIN s = 1..Len(s)
      /\ Head(s) = s[1] /\ Last(s) = s[Len(s)]
      /\ Tail(s) \in Seq(S) /\ Len(Tail(s)) = Len(s) - 1
      /\ DOMAIN Tail(s) = 1..(Len(s) - 1)
      /\ \A i \in 1..(Len(s) - 1) : Tail(s)[i] = s[i + 1]
  BY DEF Last
<1>2. Tail(s) = <<>> => Len(s) = 1
  <2>1. Tail(s) = <<>> => Len(Tail(s)) = 0
    BY EmptyFits, Zenon
  <2> QED BY <1>1, <2>1
<1>3. Tail(s) # <<>> => Len(s) > 1 /\ Last(Tail(s)) = Tail(s)[Len(s) - 1]
  <2>1. Tail(s) # <<>> => Len(Tail(s)) >= 1
    <3> DEFINE t == Tail(s)
    <3>1. t \in Seq(S)
      BY <1>1
    <3> HIDE DEF t
    <3>2. t # <<>> => Len(t) >= 1
      BY <3>1
    <3> QED BY <3>2 DEF t
  <2>2. Last(Tail(s)) = Tail(s)[Len(Tail(s))]
    BY DEF Last
  <2> QED BY <1>1, <2>1, <2>2
<1>4. Tail(s) # <<>> => Last(Tail(s)) = Last(s)
  BY <1>1, <1>3
<1> QED BY <1>1, <1>2, <1>4

LEMMA AppendFits ==
  ASSUME NEW S, NEW s \in Seq(S), NEW x \in S
  PROVE  /\ Append(s, x) \in Seq(S) /\ Append(s, x) # <<>>
         /\ Last(Append(s, x)) = x /\ Len(Append(s, x)) = Len(s) + 1
         /\ \A i \in DOMAIN Append(s, x) :
              Append(s, x)[i] = x \/ (i \in DOMAIN s /\ Append(s, x)[i] = s[i])
BY DEF Last

LEMMA LineBlockFits ==
  ASSUME TypesFit, NEW to \in Grid, NEW s \in Nat
  PROVE  /\ [to |-> to, spindle |-> gc.spindle, s |-> s, wco |-> WCO]
              \in QueueType
         /\ PlannedEnd \in Grid
<1>1. /\ gc.coordSystem \in Grid /\ gc.coordOffset \in Offsets
      /\ gc.toolOffset \in Int /\ gc.spindle \in Spindles
  BY DEF TypesFit, ModesType
<1>2. WCO \in Offsets
  <2> SUFFICES ASSUME NEW a \in Axes
               PROVE  gc.coordSystem[a] + gc.coordOffset[a] + ToolOffset(gc, a)
                        \in Int
    BY DEF WCO, Offsets
  <2>1. gc.coordSystem[a] \in Int
    BY <1>1, GCodeAssumption DEF Grid
  <2>2. gc.coordOffset[a] \in Int
    BY <1>1 DEF Offsets
  <2>3. ToolOffset(gc, a) \in Int
    BY <1>1 DEF ToolOffset
  <2> QED BY <2>1, <2>2, <2>3
<1>3. PlannedEnd \in Grid
  <2>1. CASE queue = <<>>
    BY <2>1 DEF PlannedEnd, TypesFit
  <2>2. CASE queue # <<>>
    <3>1. Last(queue) \in QueueType
      BY <2>2, LastFits DEF TypesFit
    <3> QED BY <2>2, <3>1 DEF PlannedEnd, QueueType
  <2> QED BY <2>1, <2>2
<1> QED BY <1>1, <1>2, <1>3 DEF QueueType

LEMMA FinalFits ==
  ASSUME BlockFits(b)
  PROVE  Final \in Grid /\ Last(b.path) \in Grid
<1>1. Last(b.path) \in Grid
  BY LastFits DEF BlockFits
<1> QED BY <1>1 DEF BlockFits, Final

-----------------------------------------------------------------------------
(* The motions start. *)
LEMMA GoHomeKeeps ==
  ASSUME GCodeIInv, GoHome, UNCHANGED lost
  PROVE  GCodeIInv'
<1>1. /\ todo # <<>> /\ Head(todo) = "command"
      /\ b.command \in {"G28", "G30"}
      /\ path' = (IF b.axis = "none" THEN <<>> ELSE b.path) \o <<b.data>>
      /\ UNCHANGED <<gc, b, queue, pos, state, pwm, flood, abort, stored, lost>>
      /\ todo' = <<"line">> \o Tail(todo)
  BY DEF GoHome, At, Then, machine
<1>2. TypesFit
  BY DEF GCodeIInv
<1>3. \A y \in Steps \ Inner : StepOrder[Head(todo)] < StepOrder[y] =>
                                  StepOrder["line"] < StepOrder[y]
  BY <1>1, Orders DEF Inner
<1>4. /\ TodoFits' /\ ~b.jog /\ BlockFits(b) /\ state # "JOG"
      /\ gc.motion = b.motion
      /\ todo' # <<>> /\ Head(todo') = "line"
      /\ \A x : Pending(x)' => x = "line" \/
           (Pending(x) /\ StepOrder["command"] < StepOrder[x])
      /\ \A x : Pending(x) => x = "command" \/ Pending(x)'
  BY <1>1, <1>3, SectionTurns DEF Inner
<1>5. path' \in Seq(Grid) /\ path' # <<>> /\ Last(path') = b.data
  <2> DEFINE p == IF b.axis = "none" THEN <<>> ELSE b.path
  <2>1. p \in Seq(Grid) /\ b.data \in Grid
    BY <1>1, <1>4 DEF BlockFits
  <2> HIDE DEF p
  <2>2. path' = p \o <<b.data>>
    BY <1>1 DEF p
  <2> QED BY <2>1, <2>2 DEF Last
<1>6. TypesFit'
  BY <1>1, <1>2, <1>4, <1>5 DEF TypesFit, BlockFits
<1>7. StateFits'
  BY <1>1, <1>4 DEF GCodeIInv, StateFits, At
<1>8. Live' = Live
  BY <1>1 DEF Live
<1>9. PlaceFits'
  <2>1. Final' = b.data
    BY <1>1 DEF Final
  <2>2. ~During("jog")'
    BY <1>4 DEF During, At
  <2> QED BY <1>4, <1>5, <2>1, <2>2 DEF PlaceFits
<1>10. SystemFits'
  BY <1>1, <1>4, <1>8, SystemKept DEF GCodeIInv
<1>11. ~Pending("command")' /\ ~Pending("speed")'
  <2>1. StepOrder["command"] = 7 /\ StepOrder["speed"] = 1
    BY Orders
  <2> QED BY <1>4, <2>1
<1>12. ZeroFits'
  BY <1>11 DEF ZeroFits
<1>13. PenFits'
  <2>1. ~At("drop")' /\ Showing' /\ ~Pending("speed")
    BY <1>4, <1>5, <1>11 DEF At, Showing
  <2> QED BY <1>1, <1>4, <1>8, <1>11, <2>1 DEF GCodeIInv, PenFits
<1> QED BY <1>4, <1>6, <1>7, <1>9, <1>10, <1>12, <1>13 DEF GCodeIInv

LEMMA StartMotionKeeps ==
  ASSUME GCodeIInv, StartMotion, UNCHANGED lost
  PROVE  GCodeIInv'
<1>1. /\ todo # <<>> /\ Head(todo) = "motion"
      /\ UNCHANGED <<gc, b, queue, pos, state, pwm, flood, abort, stored, lost>>
  BY DEF StartMotion, At, machine
<1>2. PICK s \in {"line", "probe"} :
        /\ todo' = <<s>> \o Tail(todo)
        /\ s = "line" => path' = b.path
        /\ s = "probe" => b.motion \notin Cutting /\ path' = path
  <2>1. CASE b.motion \in {"G0"} \cup Cutting
    <3>1. path' = b.path /\ todo' = <<"line">> \o Tail(todo)
      BY <2>1 DEF StartMotion, Then
    <3> QED BY <3>1
  <2>2. CASE b.motion \notin {"G0"} \cup Cutting
    <3>1. path' = path /\ todo' = <<"probe">> \o Tail(todo)
      BY <2>2 DEF StartMotion, Then
    <3> QED BY <2>2, <3>1
  <2> QED BY <2>1, <2>2
<1>3. TypesFit
  BY DEF GCodeIInv
<1>4. \A y \in Steps \ Inner : StepOrder[Head(todo)] < StepOrder[y] =>
                                  StepOrder[s] < StepOrder[y]
  BY <1>1, <1>2, Orders DEF Inner
<1>5. /\ TodoFits' /\ ~b.jog /\ BlockFits(b) /\ state # "JOG"
      /\ gc.motion = b.motion
      /\ todo' # <<>> /\ Head(todo') = s
      /\ \A x : Pending(x)' => x = s \/
           (Pending(x) /\ StepOrder["motion"] < StepOrder[x])
      /\ \A x : Pending(x) => x = "motion" \/ Pending(x)'
      /\ Pending("motion")
  BY <1>1, <1>2, <1>4, SectionTurns DEF Inner
<1>6. path' \in Seq(Grid)
  BY <1>2, <1>3, <1>5 DEF TypesFit, BlockFits
<1>7. TypesFit'
  BY <1>1, <1>3, <1>5, <1>6 DEF TypesFit, BlockFits
<1>8. /\ ~Pending("command")' /\ ~Pending("speed")' /\ ~Pending("coord")'
      /\ ~Pending("motion")' /\ ~Pending("speed")
  <2>1. /\ StepOrder["command"] = 7 /\ StepOrder["speed"] = 1
        /\ StepOrder["coord"] = 6 /\ StepOrder["motion"] = 10
    BY Orders
  <2> QED BY <1>2, <1>5, <2>1
<1>9. StateFits'
  BY <1>1, <1>2, <1>5, <1>8 DEF GCodeIInv, StateFits, At
<1>10. Live' = Live
  BY <1>1 DEF Live
<1>11. PlaceFits'
  <2>1. CASE s = "line"
    <3>1. b.command \notin {"G28", "G30"}
      BY <1>5 DEF GCodeIInv, StateFits
    <3>2. Final' = Last(b.path)
      BY <1>1, <3>1 DEF Final
    <3>3. path' # <<>> /\ path' = b.path
      BY <1>2, <1>5, <2>1 DEF BlockFits
    <3>4. ~During("jog")'
      BY <1>5, <2>1 DEF During, At
    <3> QED BY <1>5, <2>1, <3>2, <3>3, <3>4 DEF PlaceFits
  <2>2. CASE s = "probe"
    BY <1>1, <1>5, <1>10, <2>2, PlaceKept DEF GCodeIInv, Still
  <2> QED BY <1>2, <2>1, <2>2
<1>12. SystemFits'
  BY <1>1, <1>8, <1>10, SystemKept DEF GCodeIInv
<1>13. ZeroFits'
  BY <1>8 DEF ZeroFits
<1>14. PenFits'
  <2>1. ~At("drop")' /\ ~At("drop")
    BY <1>1, <1>2, <1>5 DEF At
  <2>2. Showing' \/ gc'.motion \notin Cutting
    <3>1. CASE s = "line"
      <4>1. path' # <<>>
        BY <1>2, <1>5, <3>1 DEF BlockFits
      <4> QED BY <1>5, <3>1, <4>1 DEF Showing, At
    <3>2. CASE s = "probe"
      BY <1>1, <1>2, <1>5, <3>2
    <3> QED BY <1>2, <3>1, <3>2
  <2> QED BY <1>1, <1>5, <1>8, <1>10, <2>1, <2>2 DEF GCodeIInv, PenFits
<1> QED BY <1>5, <1>7, <1>9, <1>11, <1>12, <1>13, <1>14 DEF GCodeIInv

LEMMA DropFits ==
  ASSUME TodoFits, todo # <<>>, Head(todo) \in {"line", "jog"}, b' = b,
         todo' = <<"drop">> \o todo
  PROVE  /\ TodoFits' /\ todo' # <<>> /\ Head(todo') = "drop"
         /\ todo'[2] = Head(todo)
         /\ \A x : Pending(x)' <=> x = "drop" \/ Pending(x)
<1>1. /\ todo \in Seq(Steps) /\ Increasing(todo) /\ OneInner(todo)
      /\ Head(todo) = todo[1] /\ 1 \in DOMAIN todo
  BY DEF TodoFits
<1>2. \A y : Holds(todo, y) => StepOrder["drop"] < StepOrder[y]
  <2> SUFFICES ASSUME NEW y, Holds(todo, y), y # Head(todo)
               PROVE  StepOrder["drop"] < StepOrder[y]
    BY Orders
  <2>1. StepOrder[Head(todo)] < StepOrder[y] /\ y \in Steps
    BY <1>1, TailFits
  <2>2. StepOrder[y] \in Int /\ StepOrder["drop"] = 8
        /\ StepOrder[Head(todo)] >= 9 /\ StepOrder[Head(todo)] \in Int
    BY <2>1, Orders
  <2> QED BY <2>1, <2>2
<1>3. /\ todo' \in Seq(Steps) /\ todo' # <<>> /\ Increasing(todo')
      /\ Head(todo') = "drop" /\ Tail(todo') = todo
      /\ \A y : Holds(todo', y) <=> y = "drop" \/ Holds(todo, y)
  <2>1. "drop" \in Steps
    BY Orders
  <2> QED BY <1>1, <1>2, <2>1, ConsFits
<1>4. /\ Len(todo') = Len(todo) + 1 /\ Len(todo) \in Nat /\ Len(todo) >= 1
      /\ todo'[1] = "drop" /\ todo'[2] = todo[1]
      /\ \A i \in DOMAIN todo' : i # 1 => i - 1 \in DOMAIN todo
                                          /\ todo'[i] = todo[i - 1]
  BY <1>1
<1>5. OneInner(todo')
  <2>1. ASSUME NEW i \in DOMAIN todo', i # 1, todo'[i] \in Inner PROVE i = 2
    <3>1. i - 1 \in DOMAIN todo /\ todo[i - 1] \in Inner
      BY <1>4, <2>1
    <3>2. i - 1 = 1
      BY <1>1, <3>1 DEF OneInner
    <3>3. i \in Int
      BY <1>3
    <3> QED BY <3>2, <3>3
  <2> QED BY <1>1, <1>4, <2>1 DEF OneInner
<1>6. IF b.jog THEN todo' \in Jogging
      ELSE \A i \in DOMAIN todo' : todo'[i] # "jog"
  <2>1. CASE b.jog
    <3>1. todo = <<"jog">>
      <4>1. Head(<<"drop", "jog">>) = "drop"
        OBVIOUS
      <4> QED BY <2>1, <4>1 DEF TodoFits, Jogging
    <3>2. <<"drop">> \o <<"jog">> = <<"drop", "jog">>
      <4> DEFINE t == <<"drop">> \o <<"jog">>
                 u == <<"drop", "jog">>
      <4>1. t \in Seq(Steps) /\ Len(t) = 2 /\ t[1] = "drop" /\ t[2] = "jog"
        BY Orders
      <4>2. u \in Seq(Steps) /\ Len(u) = 2 /\ u[1] = "drop" /\ u[2] = "jog"
        BY Orders
      <4> HIDE DEF t, u
      <4>3. t = [i \in 1..2 |-> t[i]] /\ u = [i \in 1..2 |-> u[i]]
        BY <4>1, <4>2
      <4>4. \A i \in 1..2 : t[i] = u[i]
        BY <4>1, <4>2
      <4>5. t = u
        BY <4>3, <4>4
      <4> QED BY <4>5 DEF t, u
    <3> QED BY <2>1, <3>1, <3>2 DEF Jogging
  <2>2. CASE ~b.jog
    BY <1>3, <1>4, <2>2 DEF TodoFits, Holds
  <2> QED BY <2>1, <2>2
<1> QED BY <1>1, <1>3, <1>4, <1>5, <1>6 DEF TodoFits, Pending

(* A line is drawn at the last speed taken. *)
LEMMA LineSpeedFits ==
  ASSUME GCodeIInv, todo # <<>>
  PROVE  /\ LineSpeed \in Nat
         /\ Live /\ ~Pending("speed") /\ gc.motion \in Cutting =>
              LineSpeed = gc.speed
<1>1. BlockFits(b) /\ gc.speed \in Nat
  BY DEF GCodeIInv, TypesFit, ModesType
<1>2. CASE b.jog
  BY <1>1, <1>2 DEF LineSpeed
<1>3. CASE ~b.jog
  <2>1. LineSpeed = ShownSpeed /\ gc.motion = b.motion
    BY <1>3 DEF LineSpeed, GCodeIInv, StateFits
  <2>2. gc.motion \in Cutting => ShownSpeed = b.s
    BY <1>1, <2>1 DEF ShownSpeed, BlockFits
  <2>3. ShownSpeed \in Nat
    BY <1>1 DEF ShownSpeed, BlockFits
  <2>4. Live /\ ~Pending("speed") => gc.speed = b.s
    BY <1>3 DEF GCodeIInv, PenFits
  <2> QED BY <2>1, <2>2, <2>3, <2>4
<1> QED BY <1>2, <1>3

LEMMA LineKeeps ==
  ASSUME GCodeIInv, Line, UNCHANGED lost
  PROVE  GCodeIInv'
<1>1. /\ todo # <<>> /\ Head(todo) \in {"line", "jog"}
      /\ path # <<>> /\ path' = Tail(path)
      /\ UNCHANGED <<gc, b, pos, pwm, state, flood, abort, stored, lost>>
  BY DEF Line, At
<1>2. TypesFit /\ TodoFits /\ BlockFits(b)
  BY <1>1 DEF GCodeIInv, TypesFit
<1>3. /\ path' \in Seq(Grid) /\ Head(path) \in Grid
      /\ path' = <<>> => Last(path) = Head(path)
      /\ path' # <<>> => Last(path') = Last(path)
  BY <1>1, <1>2, LastFits DEF TypesFit
<1>4. LineBlock \in QueueType /\ LineBlock.to = Head(path)
      /\ LineBlock.spindle = gc.spindle /\ LineBlock.s = LineSpeed
  BY <1>1, <1>2, <1>3, LineSpeedFits, LineBlockFits DEF LineBlock
<1>5. PICK d \in {TRUE, FALSE} :
        /\ IF d THEN todo' = <<"drop">> \o todo /\ Live /\ gc.spindle = "M3"
                ELSE todo' = todo
        /\ Live /\ gc.spindle = "M3" /\ ~d => queue' # queue
        /\ Live => \/ Head(path) = PlannedEnd /\ queue' = queue
                   \/ ~d /\ ~Full /\ queue' = Append(queue, LineBlock)
        /\ ~Live => queue' = queue
  <2>1. CASE ~Live
    <3>1. queue' = queue /\ todo' = todo
      BY <2>1 DEF Line, Live
    <3> QED BY <2>1, <3>1
  <2>2. CASE Live /\ Coincident
    <3>1. queue' = queue
          /\ todo' = IF gc.spindle = "M3" THEN <<"drop">> \o todo ELSE todo
      BY <2>2 DEF Line, Live
    <3>2. CASE gc.spindle = "M3"
      BY <2>2, <3>1, <3>2 DEF Coincident
    <3>3. CASE gc.spindle # "M3"
      BY <2>2, <3>1, <3>3 DEF Coincident
    <3> QED BY <3>2, <3>3
  <2>3. CASE Live /\ ~Coincident
    <3>1. ~Full /\ queue' = Append(queue, LineBlock) /\ todo' = todo
      BY <2>3 DEF Line, Live
    <3>2. queue' # queue
      <4>1. Len(queue') = Len(queue) + 1 /\ Len(queue) \in Nat
        BY <1>2, <1>4, <3>1 DEF TypesFit
      <4> QED BY <4>1
    <3> QED BY <2>3, <3>1, <3>2
  <2> QED BY <2>1, <2>2, <2>3
<1>6. /\ TodoFits' /\ todo' # <<>>
      /\ d => Head(todo') = "drop" /\ todo'[2] = Head(todo)
      /\ \A x : x # "drop" => (Pending(x)' <=> Pending(x))
  <2>1. CASE d
    BY <1>1, <1>2, <1>5, <2>1, DropFits
  <2>2. CASE ~d
    <3>1. TodoFits'
      BY <1>1, <1>2, <1>5, <2>2 DEF TodoFits
    <3> QED BY <1>1, <1>5, <2>2, <3>1 DEF Pending
  <2> QED BY <2>1, <2>2
<1>7. \A x \in Inner \ {"drop"} : At(x)' => At(x)
  BY <1>1, <1>5, <1>6 DEF At
<1>8. queue' \in Seq(QueueType) /\ Len(queue') <= BlockBuffer
      /\ (Live => PlannedEnd' = Head(path))
      /\ (queue # <<>> => queue' # <<>>)
  <2>1. CASE queue' = queue
    <3>1. PlannedEnd' = PlannedEnd
      BY <1>1, <2>1 DEF PlannedEnd
    <3>2. Append(queue, LineBlock) # queue
      <4>1. Len(Append(queue, LineBlock)) = Len(queue) + 1 /\ Len(queue) \in Nat
        BY <1>2, <1>4 DEF TypesFit
      <4> QED BY <4>1
    <3> QED BY <1>2, <1>5, <2>1, <3>1, <3>2 DEF TypesFit
  <2>2. CASE ~Full /\ queue' = Append(queue, LineBlock)
    <3>1. /\ queue' \in Seq(QueueType) /\ queue' # <<>>
          /\ Last(queue') = LineBlock /\ Len(queue') = Len(queue) + 1
      BY <1>2, <1>4, <2>2, AppendFits DEF TypesFit
    <3>2. Len(queue) \in Nat /\ Len(queue) <= BlockBuffer
          /\ Len(queue) # BlockBuffer /\ BlockBuffer \in Nat
      BY <1>2, <2>2, GCodeAssumption DEF TypesFit, Full
    <3>3. PlannedEnd' = Head(path)
      BY <1>4, <3>1 DEF PlannedEnd
    <3> QED BY <3>1, <3>2, <3>3
  <2> QED BY <1>5, <2>1, <2>2
<1>9. TypesFit'
  BY <1>1, <1>2, <1>3, <1>6, <1>8 DEF TypesFit, BlockFits
<1>10. Live' = Live
  BY <1>1 DEF Live
<1>11. StateFits'
  <2>1. Pending("motion")' => Pending("motion")
    BY <1>6
  <2> QED BY <1>1, <1>6, <1>7, <1>8, <2>1 DEF GCodeIInv, StateFits, Inner
<1>12. PlaceFits'
  <2> SUFFICES ASSUME Live PROVE PlaceFits'
    BY <1>10 DEF PlaceFits
  <2>1. /\ During("line")' => At("line")
        /\ During("jog")' => At("jog")
        /\ Head(todo') \in {"line", "jog", "drop"}
    BY <1>1, <1>5, <1>6 DEF During, At
  <2>2. /\ At("line") => Last(path) = Final
        /\ At("jog") => Last(path) = Last(b.path)
    BY <1>1 DEF GCodeIInv, PlaceFits, During
  <2>3. Final' = Final
    BY <1>1 DEF Final
  <2> QED BY <1>1, <1>3, <1>6, <1>8, <2>1, <2>2, <2>3 DEF PlaceFits
<1>13. SystemFits'
  <2>1. Pending("coord")' => Pending("coord")
    BY <1>6
  <2> QED BY <1>1, <1>10, <2>1, SystemKept DEF GCodeIInv
<1>14. ZeroFits'
  <2>1. /\ Pending("coord") <=> Pending("coord")'
        /\ Pending("command") <=> Pending("command")'
        /\ Pending("tool") <=> Pending("tool")'
    BY <1>6
  <2> QED BY <1>1, <2>1, ZeroKept DEF GCodeIInv
<1>15. PenFits'
  <2> SUFFICES ASSUME Live PROVE PenFits'
    BY <1>10 DEF PenFits
  <2>1. PenFits /\ ~At("drop")
    BY <1>1 DEF GCodeIInv, At
  <2>2. /\ Pending("speed") <=> Pending("speed")'
        /\ Pending("motion") <=> Pending("motion")'
    BY <1>6
  <2>3. CASE d
    <3>1. Showing' /\ queue' = queue /\ gc.spindle = "M3"
      BY <1>5, <1>6, <2>3 DEF Showing, At
    <3> QED BY <1>1, <1>6, <2>1, <2>2, <3>1 DEF PenFits
  <2>4. CASE ~d /\ queue' = queue
    <3>1. gc.spindle # "M3" /\ ~At("drop")'
      BY <1>1, <1>5, <2>4 DEF At
    <3> QED BY <1>1, <2>1, <2>2, <2>4, <3>1 DEF PenFits
  <2>5. CASE ~d /\ queue' = Append(queue, LineBlock)
    <3>1. /\ queue' # <<>> /\ Last(queue') = LineBlock
          /\ \A i \in DOMAIN queue' :
               queue'[i] = LineBlock \/ (i \in DOMAIN queue /\ queue'[i] = queue[i])
      BY <1>2, <1>4, <2>5, AppendFits DEF TypesFit
    <3>2. \A i \in DOMAIN queue' : queue'[i].spindle = gc'.spindle
      BY <1>1, <1>4, <2>1, <3>1 DEF PenFits
    <3>3. ~At("drop")'
      BY <1>1, <1>5, <2>5 DEF At
    <3>4. ~Showing' /\ gc.motion \in Cutting => Last(queue').s = gc.speed
      <4>1. ~Showing' => ~Pending("speed")
        BY <2>2 DEF Showing
      <4> QED BY <1>1, <1>4, <3>1, <4>1, LineSpeedFits
    <3> QED BY <1>1, <2>1, <2>2, <3>1, <3>2, <3>3, <3>4 DEF PenFits
  <2> QED BY <1>5, <2>3, <2>4, <2>5
<1> QED BY <1>6, <1>9, <1>11, <1>12, <1>13, <1>14, <1>15 DEF GCodeIInv

LEMMA DroppedKeeps ==
  ASSUME GCodeIInv, Dropped, UNCHANGED lost
  PROVE  GCodeIInv'
<1>1. /\ todo # <<>> /\ Head(todo) = "drop" /\ todo' = Tail(todo) /\ Synced
      /\ pwm' = SpindleSet("M3", LineSpeed)
      /\ UNCHANGED <<gc, b, path, queue, pos, state, flood, abort, stored,
                     lost>>
  BY DEF Dropped, At, Done, machine
<1>2. TypesFit /\ TodoFits /\ BlockFits(b)
  BY <1>1 DEF GCodeIInv, TypesFit
<1>3. /\ TodoFits' /\ todo' # <<>> /\ Head(todo') = todo[2]
      /\ todo[2] \in {"line", "jog"}
  BY <1>1, <1>2, Popped, HeadFits
<1>4. /\ \A x : Pending(x)' => Pending(x)
      /\ \A x : Pending(x) => x = "drop" \/ Pending(x)'
  BY <1>1, <1>2, Popped DEF Pending
<1>5. LineSpeed \in Nat /\ "M3" \in Spindles
  BY <1>1, LineSpeedFits DEF Spindles
<1>6. TypesFit'
  <2>1. pwm' \in {0} \cup PwmMin..PwmMax
    BY <1>1, <1>2, <1>5, SpindleFits
  <2> QED BY <1>1, <1>2, <1>3, <2>1 DEF TypesFit, BlockFits
<1>7. StateFits'
  <2>1. Pending("motion")' => Pending("motion")
    BY <1>4
  <2> QED BY <1>1, <1>3, <2>1 DEF GCodeIInv, StateFits, At
<1>8. Live' = Live
  BY <1>1 DEF Live
<1>9. PlaceFits'
  <2> SUFFICES ASSUME Live PROVE PlaceFits'
    BY <1>8 DEF PlaceFits
  <2>1. /\ During("line")' => During("line")
        /\ During("jog")' => During("jog")
    BY <1>1, <1>3 DEF During, At
  <2>2. Final' = Final /\ PlannedEnd' = PlannedEnd /\ Misled' = Misled
    BY <1>1 DEF Final, PlannedEnd, Misled
  <2> QED BY <1>1, <1>3, <2>1, <2>2 DEF GCodeIInv, PlaceFits
<1>10. SystemFits'
  BY <1>1, <1>4, <1>8, SystemKept DEF GCodeIInv
<1>11. ZeroFits'
  <2>1. Pending("coord") => Pending("coord")'
    BY <1>4
  <2> QED BY <1>1, <1>4, <2>1, ZeroKept DEF GCodeIInv
<1>12. PenFits'
  <2> SUFFICES ASSUME Live PROVE PenFits'
    BY <1>8 DEF PenFits
  <2>1. PenFits /\ gc.spindle = "M3" /\ queue = <<>>
    BY <1>1 DEF GCodeIInv, PenFits, At, Live, Synced
  <2>2. Pending("speed") <=> Pending("speed")'
    BY <1>4
  <2>3. Pending("motion") <=> Pending("motion")'
    BY <1>4
  <2>4. ~At("drop")'
    BY <1>3 DEF At
  <2>5. ~Showing' /\ gc.motion \in Cutting => pwm' = Pwm(gc.speed)
    <3>1. ~Showing' => ~Pending("speed")
      BY <2>2 DEF Showing
    <3>2. gc.motion \in Cutting /\ ~Pending("speed") => LineSpeed = gc.speed
      BY <1>1, LineSpeedFits
    <3>3. pwm' = Pwm(LineSpeed)
      BY <1>1, <1>2, <1>5, SpindleFits DEF Live
    <3> QED BY <3>1, <3>2, <3>3
  <2> QED BY <1>1, <2>1, <2>2, <2>3, <2>4, <2>5 DEF PenFits
<1> QED BY <1>3, <1>6, <1>7, <1>9, <1>10, <1>11, <1>12 DEF GCodeIInv

LEMMA LinesDoneKeeps ==
  ASSUME GCodeIInv, LinesDone, UNCHANGED lost
  PROVE  GCodeIInv'
<1>1. /\ todo # <<>> /\ Head(todo) = "line" /\ todo' = Tail(todo)
      /\ path = <<>>
      /\ gc' = [gc EXCEPT !.position = Final]
      /\ UNCHANGED <<b, path, queue, pos, state, pwm, flood, abort, stored,
                     lost>>
  BY DEF LinesDone, At, Done, machine, Final
<1>2. /\ TodoFits' /\ BlockFits(b) /\ Still' /\ state # "JOG"
      /\ gc.motion = b.motion
      /\ \A x \in Inner : ~At(x)'
      /\ \A x : Pending(x)' => Pending(x) /\ StepOrder["line"] < StepOrder[x]
      /\ \A x : Pending(x) => x = "line" \/ Pending(x)'
  BY <1>1, SectionDone
<1>3. TypesFit /\ gc \in ModesType /\ Final \in Grid
  BY <1>2, FinalFits DEF GCodeIInv, TypesFit
<1>4. /\ gc' \in ModesType /\ gc'.position = Final
      /\ gc'.coordSystem = gc.coordSystem /\ gc'.coord = gc.coord
      /\ gc'.spindle = gc.spindle /\ gc'.speed = gc.speed
      /\ gc'.motion = gc.motion
  BY <1>1, <1>3 DEF ModesType
<1>5. TypesFit'
  BY <1>1, <1>2, <1>3, <1>4 DEF TypesFit, BlockFits
<1>6. StateFits'
  BY <1>1, <1>2, <1>4 DEF GCodeIInv, StateFits, Inner
<1>7. Live' = Live
  BY <1>1 DEF Live
<1>8. PlaceFits'
  <2>1. Live => PlannedEnd = Final
    BY <1>1 DEF GCodeIInv, PlaceFits, During, At
  <2>2. PlannedEnd' = PlannedEnd
    BY <1>1 DEF PlannedEnd
  <2>3. ~During("line")' /\ ~During("jog")'
    BY <1>2 DEF During, Inner
  <2> QED BY <1>4, <1>7, <2>1, <2>2, <2>3 DEF PlaceFits
<1>9. SystemFits'
  BY <1>1, <1>2, <1>4, <1>7, SystemKept DEF GCodeIInv
<1>10. ~Pending("command")'
  <2>1. StepOrder["command"] = 7 /\ StepOrder["line"] = 9
    BY Orders
  <2> QED BY <1>2, <2>1
<1>11. ZeroFits'
  BY <1>10 DEF ZeroFits
<1>12. PenFits'
  <2>1. /\ Pending("speed") <=> Pending("speed")'
        /\ Pending("motion") <=> Pending("motion")'
        /\ ~At("drop") /\ ~At("drop")'
    BY <1>1, <1>2 DEF At, Inner
  <2>2. Showing => Showing'
    BY <1>1, <2>1 DEF Showing
  <2> QED BY <1>1, <1>2, <1>4, <1>7, <2>1, <2>2 DEF GCodeIInv, PenFits
<1> QED BY <1>2, <1>5, <1>6, <1>8, <1>9, <1>11, <1>12 DEF GCodeIInv

(* Of a jog, nothing is left when it is done. *)
LEMMA JogFits ==
  ASSUME TodoFits, todo # <<>>, b.jog
  PROVE  /\ \A x : Pending(x) => x \in {"drop", "jog"}
         /\ Head(todo) \in {"drop", "jog"}
         /\ Head(todo) = "drop" => todo[2] = "jog"
         /\ Head(todo) = "jog" => Tail(todo) = <<>>
<1>1. todo = <<"jog">> \/ todo = <<"drop", "jog">>
  BY DEF TodoFits, Jogging
<1>2. /\ Head(<<"jog">>) = "jog" /\ Head(<<"drop", "jog">>) = "drop"
      /\ <<"drop", "jog">>[2] = "jog" /\ Tail(<<"jog">>) = <<>>
      /\ DOMAIN <<"jog">> = {1} /\ DOMAIN <<"drop", "jog">> = {1, 2}
      /\ <<"jog">>[1] = "jog" /\ <<"drop", "jog">>[1] = "drop"
  OBVIOUS
<1>3. CASE todo = <<"jog">>
  BY <1>2, <1>3 DEF Pending, Holds
<1>4. CASE todo = <<"drop", "jog">>
  BY <1>2, <1>4 DEF Pending, Holds
<1> QED BY <1>1, <1>3, <1>4

LEMMA JogDoneKeeps ==
  ASSUME GCodeIInv, JogDone, UNCHANGED lost
  PROVE  GCodeIInv'
<1>1. /\ todo # <<>> /\ Head(todo) = "jog" /\ todo' = Tail(todo)
      /\ path = <<>>
      /\ gc' = [gc EXCEPT !.position = Last(b.path)]
      /\ state' = IF state = "IDLE" /\ queue # <<>> THEN "JOG" ELSE state
      /\ UNCHANGED <<b, path, queue, pos, pwm, flood, abort, stored, lost>>
  BY DEF JogDone, At, Done
<1>2. TypesFit /\ TodoFits /\ BlockFits(b) /\ gc \in ModesType
      /\ Last(b.path) \in Grid
  BY <1>1, FinalFits DEF GCodeIInv, TypesFit
<1>3. b.jog /\ todo' = <<>> /\ \A x : Pending(x) => x \in {"drop", "jog"}
  <2>1. b.jog
    BY <1>1, <1>2, HeadFits
  <2> QED BY <1>1, <1>2, <2>1, JogFits
<1>4. /\ gc' \in ModesType /\ gc'.position = Last(b.path)
      /\ gc'.coordSystem = gc.coordSystem /\ gc'.coord = gc.coord
      /\ gc'.spindle = gc.spindle /\ gc'.speed = gc.speed
      /\ gc'.motion = gc.motion
  BY <1>1, <1>2 DEF ModesType
<1>5. TodoFits'
  BY <1>3, EmptyFits DEF TodoFits
<1>6. TypesFit'
  <2>1. state' \in {"IDLE", "CYCLE", "JOG", "HOLD", "ALARM", "CHECK"}
    BY <1>1, <1>2 DEF TypesFit
  <2> QED BY <1>1, <1>2, <1>3, <1>4, <2>1 DEF TypesFit
<1>7. /\ \A x : ~Pending(x)' /\ ~At(x)'
  BY <1>3, EmptyFits DEF Pending, At
<1>8. StateFits' /\ ZeroFits'
  BY <1>3, <1>7 DEF StateFits, ZeroFits
<1>9. Live' => Live
  BY <1>1 DEF Live
<1>10. PlaceFits'
  <2>1. Live => PlannedEnd = Last(b.path) \/ Misled
    BY <1>1 DEF GCodeIInv, PlaceFits, During, At
  <2>2. PlannedEnd' = PlannedEnd /\ Misled' = Misled
    BY <1>1 DEF PlannedEnd, Misled
  <2>3. ~During("line")' /\ ~During("jog")'
    BY <1>7 DEF During
  <2> QED BY <1>4, <1>9, <2>1, <2>2, <2>3 DEF PlaceFits
<1>11. SystemFits'
  BY <1>1, <1>4, <1>7, <1>9, SystemKept DEF GCodeIInv
<1>12. PenFits'
  <2>1. ~Showing
    BY <1>1, <1>3 DEF Showing, At
  <2> QED BY <1>1, <1>3, <1>4, <1>7, <1>9, <2>1 DEF GCodeIInv, PenFits
<1> QED BY <1>5, <1>6, <1>8, <1>10, <1>11, <1>12 DEF GCodeIInv

-----------------------------------------------------------------------------
(* Probes. *)
LEMMA ProbeStartKeeps ==
  ASSUME GCodeIInv, ProbeStart, UNCHANGED lost
  PROVE  GCodeIInv'
<1>1. /\ todo # <<>> /\ Head(todo) = "probe"
      /\ UNCHANGED <<b, path, pwm, flood, abort, stored, lost>>
  BY DEF ProbeStart, At
<1>2. TypesFit /\ TodoFits /\ BlockFits(b) /\ gc \in ModesType
      /\ Last(b.path) \in Grid /\ gc.position \in Grid
  BY <1>1, FinalFits DEF GCodeIInv, TypesFit, ModesType
<1>3. gc.motion \notin Cutting /\ ~b.jog /\ state # "JOG" /\ gc.motion = b.motion
  <2>1. ~b.jog
    BY <1>1, <1>2, HeadFits
  <2> QED BY <1>1, <2>1 DEF GCodeIInv, StateFits, At
<1>4. CASE ~Live
  <2>1. PICK p \in Grid : gc' = [gc EXCEPT !.position = p]
    <3>1. gc' = [gc EXCEPT !.position =
                  ProbedPosition(IF abort THEN "abort" ELSE "check", pos)]
      BY <1>4 DEF ProbeStart, Live
    <3>2. ProbedPosition(IF abort THEN "abort" ELSE "check", pos) \in Grid
      BY <1>2 DEF ProbedPosition
    <3> QED BY <3>1, <3>2
  <2>2. todo' = Tail(todo) /\ UNCHANGED <<queue, pos, state>>
    BY <1>4 DEF ProbeStart, Live, Done, machine
  <2>3. /\ TodoFits'
        /\ \A x \in Inner : ~At(x)'
        /\ \A x : Pending(x)' => Pending(x) /\ StepOrder["probe"] < StepOrder[x]
    BY <1>1, <2>2, SectionDone
  <2>4. /\ gc' \in ModesType /\ gc'.motion = gc.motion
    BY <1>2, <2>1 DEF ModesType
  <2>5. TypesFit'
    BY <1>1, <1>2, <2>2, <2>4 DEF TypesFit, BlockFits
  <2>6. StateFits'
    BY <1>1, <1>3, <2>2, <2>3, <2>4 DEF GCodeIInv, StateFits, Inner
  <2>7. ~Live'
    BY <1>1, <1>4, <2>2 DEF Live
  <2>8. PlaceFits' /\ SystemFits' /\ PenFits'
    BY <2>7 DEF PlaceFits, SystemFits, PenFits
  <2>9. ZeroFits'
    BY <2>3, Orders DEF ZeroFits
  <2> QED BY <2>3, <2>5, <2>6, <2>8, <2>9 DEF GCodeIInv
<1>5. CASE Live /\ state' = "ALARM"
  <2>1. gc' = gc /\ queue' = queue /\ pos' = pos /\ todo' = Tail(todo)
    BY <1>5 DEF ProbeStart, Live, Done
  <2>2. /\ TodoFits' /\ Still'
        /\ \A x \in Inner : ~At(x)'
        /\ \A x : Pending(x)' => Pending(x)
        /\ \A x : Pending(x) => x = "probe" \/ Pending(x)'
    BY <1>1, <2>1, SectionDone
  <2>3. TypesFit'
    BY <1>1, <1>2, <1>5, <2>1 DEF TypesFit, BlockFits
  <2>4. StateFits'
    BY <1>1, <1>3, <1>5, <2>1, <2>2 DEF GCodeIInv, StateFits, Inner
  <2>5. PlaceFits'
    BY <1>1, <1>5, <2>1, <2>2, PlaceKept DEF GCodeIInv, Still
  <2>6. SystemFits'
    BY <1>1, <1>5, <2>1, <2>2, SystemKept DEF GCodeIInv
  <2>7. ZeroFits'
    <3>1. Pending("coord") => Pending("coord")'
      BY <2>2
    <3> QED BY <1>1, <2>1, <2>2, <3>1, ZeroKept DEF GCodeIInv
  <2>8. PenFits'
    <3>1. ~At("drop") /\ ~At("drop")' /\ ~At("line")
      BY <1>1, <2>2 DEF At, Inner
    <3>2. /\ Pending("speed") <=> Pending("speed")'
          /\ Pending("motion") <=> Pending("motion")'
      BY <2>2
    <3> QED BY <1>1, <1>5, <2>1, <3>1, <3>2, PenKept DEF GCodeIInv
  <2> QED BY <2>2, <2>3, <2>4, <2>5, <2>6, <2>7, <2>8 DEF GCodeIInv
<1>6. CASE Live /\ state' # "ALARM"
  <2> DEFINE x0 == [to |-> Last(b.path), spindle |-> gc.spindle,
                    s |-> 0, wco |-> WCO]
  <2>1. /\ gc' = gc /\ pos' = pos /\ state' = "CYCLE" /\ queue' = <<x0>>
        /\ todo' = <<"probing">> \o Tail(todo)
    BY <1>6 DEF ProbeStart, Live, Then
  <2>2. x0 \in QueueType
    BY <1>2, LineBlockFits
  <2>3. x0.spindle = gc.spindle
    OBVIOUS
  <2> HIDE DEF x0
  <2>4. /\ queue' \in Seq(QueueType) /\ Len(queue') = 1 /\ queue' # <<>>
        /\ DOMAIN queue' = {1} /\ queue'[1] = x0
    BY <2>1, <2>2
  <2>5. \A y \in Steps \ Inner : StepOrder[Head(todo)] < StepOrder[y] =>
                                    StepOrder["probing"] < StepOrder[y]
    BY <1>1, Orders
  <2>6. /\ TodoFits' /\ todo' # <<>> /\ Head(todo') = "probing"
        /\ \A x : Holds(todo', x) => x = "probing" \/ Holds(todo, x)
        /\ \A x : Holds(todo, x) => x = "probe" \/ Holds(todo', x)
    BY <1>1, <1>2, <1>3, <2>1, <2>5, Replaced DEF Inner
  <2>7. /\ \A x : Pending(x)' => x = "probing" \/ Pending(x)
        /\ \A x : Pending(x) => x = "probe" \/ Pending(x)'
    BY <2>6 DEF Pending
  <2>8. TypesFit'
    <3>1. Len(queue') <= BlockBuffer
      BY <2>4, GCodeAssumption
    <3> QED BY <1>1, <1>2, <2>1, <2>4, <3>1 DEF TypesFit, BlockFits
  <2>9. StateFits'
    BY <1>1, <1>3, <2>1, <2>4, <2>6, <2>7 DEF GCodeIInv, StateFits, At
  <2>10. PlaceFits'
    BY <2>6 DEF PlaceFits, During, At
  <2>11. Live' = Live
    BY <1>1, <1>6, <2>1 DEF Live
  <2>12. SystemFits'
    BY <1>1, <2>1, <2>7, <2>11, SystemKept DEF GCodeIInv
  <2>13. ZeroFits'
    <3>1. Pending("coord") => Pending("coord")'
      BY <2>7
    <3> QED BY <1>1, <2>1, <2>7, <3>1, ZeroKept DEF GCodeIInv
  <2>14. PenFits'
    <3>1. ~At("drop")'
      BY <2>6 DEF At
    <3>2. /\ Pending("speed") <=> Pending("speed")'
          /\ Pending("motion") <=> Pending("motion")'
      BY <2>7
    <3> QED BY <1>1, <1>3, <1>6, <2>1, <2>3, <2>4, <3>1, <3>2
            DEF GCodeIInv, PenFits
  <2> QED BY <2>6, <2>8, <2>9, <2>10, <2>12, <2>13, <2>14 DEF GCodeIInv
<1> QED BY <1>4, <1>5, <1>6

LEMMA ProbeEndKeeps ==
  ASSUME GCodeIInv, ProbeEnd, UNCHANGED lost
  PROVE  GCodeIInv'
<1>1. /\ todo # <<>> /\ Head(todo) = "probing" /\ todo' = Tail(todo)
      /\ UNCHANGED <<b, path, flood, abort, stored, lost>>
  BY DEF ProbeEnd, At, Done
<1>2. TypesFit /\ BlockFits(b) /\ gc \in ModesType /\ Last(b.path) \in Grid
  BY <1>1, FinalFits DEF GCodeIInv, TypesFit
<1>3. /\ TodoFits' /\ Still' /\ state # "JOG" /\ gc.motion = b.motion /\ ~b.jog
      /\ \A x \in Inner : ~At(x)'
      /\ \A x : Pending(x)' => Pending(x) /\ StepOrder["probing"] < StepOrder[x]
      /\ \A x : Pending(x) => x = "probing" \/ Pending(x)'
  BY <1>1, SectionDone
<1>4. gc.motion \notin Cutting
  BY <1>1 DEF GCodeIInv, StateFits, At
<1>5. CASE abort
  <2>1. UNCHANGED <<gc, queue, pos, state, pwm>>
    BY <1>5 DEF ProbeEnd, machine
  <2>2. TypesFit'
    BY <1>1, <1>2, <2>1 DEF TypesFit, BlockFits
  <2>3. StateFits'
    BY <1>1, <1>3, <2>1 DEF GCodeIInv, StateFits, Inner
  <2>4. ~Live'
    BY <1>1, <1>5 DEF Live
  <2>5. PlaceFits' /\ SystemFits' /\ PenFits'
    BY <2>4 DEF PlaceFits, SystemFits, PenFits
  <2>6. ZeroFits'
    BY <1>3, Orders DEF ZeroFits
  <2> QED BY <1>3, <2>2, <2>3, <2>5, <2>6 DEF GCodeIInv
<1>6. CASE ~abort
  <2>1. PICK p \in Grid :
          /\ queue' = <<>> /\ pwm' = 0 /\ pos' = p
          /\ gc' = [gc EXCEPT !.position = p]
          /\ state' \in {"IDLE", "ALARM"}
    <3>1. queue' = <<>> /\ pwm' = 0
      BY <1>6 DEF ProbeEnd
    <3>2. CASE \E p \in Between(pos, Last(b.path)) :
                 /\ pos' = p
                 /\ gc' = [gc EXCEPT !.position = ProbedPosition("found", p)]
                 /\ state' = "IDLE"
      BY <3>1, <3>2 DEF Between, ProbedPosition
    <3>3. CASE /\ pos' = Last(b.path)
               /\ gc' = [gc EXCEPT !.position = ProbedPosition("end", pos)]
               /\ state' = IF b.motion \in {"G38.3", "G38.5"} THEN "IDLE"
                           ELSE "ALARM"
      BY <1>2, <3>1, <3>3 DEF ProbedPosition
    <3> QED BY <1>6, <3>2, <3>3 DEF ProbeEnd
  <2>2. /\ gc' \in ModesType /\ gc'.position = p
        /\ gc'.coordSystem = gc.coordSystem /\ gc'.coord = gc.coord
        /\ gc'.spindle = gc.spindle /\ gc'.speed = gc.speed
        /\ gc'.motion = gc.motion
    BY <1>2, <2>1 DEF ModesType
  <2>3. TypesFit'
    <3>1. queue' \in Seq(QueueType) /\ Len(queue') <= BlockBuffer
      BY <2>1, EmptyFits, GCodeAssumption
    <3> QED BY <1>1, <1>2, <2>1, <2>2, <3>1 DEF TypesFit, BlockFits
  <2>4. StateFits'
    BY <1>1, <1>3, <2>1, <2>2 DEF GCodeIInv, StateFits, Inner
  <2>5. Live
    BY <1>1, <1>6 DEF GCodeIInv, StateFits, Live, At
  <2>6. PlaceFits'
    <3>1. ~During("line")' /\ ~During("jog")'
      BY <1>3 DEF During, Inner
    <3>2. gc'.position = PlannedEnd'
      BY <2>1, <2>2 DEF PlannedEnd
    <3> QED BY <3>1, <3>2 DEF PlaceFits
  <2>7. SystemFits'
    BY <1>1, <1>3, <2>2, <2>5, SystemKept DEF GCodeIInv
  <2>8. ZeroFits'
    BY <1>3, Orders DEF ZeroFits
  <2>9. PenFits'
    <3>1. ~(pwm' > Rest) /\ DOMAIN queue' = {}
      BY <2>1, PensFit
    <3>2. Pending("speed") <=> Pending("speed")'
      BY <1>3
    <3>3. Pending("motion") <=> Pending("motion")'
      BY <1>3
    <3>4. ~At("drop")'
      BY <1>3 DEF Inner
    <3> QED BY <1>1, <1>4, <2>2, <2>5, <3>1, <3>2, <3>3, <3>4
            DEF GCodeIInv, PenFits
  <2> QED BY <1>3, <2>3, <2>4, <2>6, <2>7, <2>8, <2>9 DEF GCodeIInv
<1> QED BY <1>5, <1>6

-----------------------------------------------------------------------------
(* Pauses and the program's end. *)
LEMMA PauseKeeps ==
  ASSUME GCodeIInv, Pause, UNCHANGED lost
  PROVE  GCodeIInv'
<1>1. /\ todo # <<>> /\ Head(todo) = "flow" /\ Synced
      /\ UNCHANGED <<gc, b, path, queue, pos, flood, abort, stored, lost>>
  BY DEF Pause, At
<1>2. TypesFit /\ gc \in ModesType /\ flood \in BOOLEAN
  BY DEF GCodeIInv, TypesFit
<1>3. CASE state \in {"CHECK", "ALARM"} \/ abort
  <2>1. todo' = Tail(todo) /\ UNCHANGED <<state, pwm>>
    BY <1>3 DEF Pause, Done
  <2> QED BY <1>1, <1>2, <2>1, QuietStep
<1>4. CASE ~(state \in {"CHECK", "ALARM"} \/ abort)
  <2>1. /\ state' = "HOLD"
        /\ pwm' = IF gc.spindle = "M5" THEN pwm ELSE Rest
        /\ todo' = <<"paused">> \o Tail(todo)
    BY <1>4 DEF Pause, Then
  <2>2. \A y \in Steps \ Inner : StepOrder[Head(todo)] < StepOrder[y] =>
                                    StepOrder["paused"] < StepOrder[y]
    BY <1>1, Orders
  <2>3. /\ TodoFits' /\ BlockFits(b) /\ gc.motion = b.motion
        /\ todo' # <<>> /\ Head(todo') = "paused"
        /\ \A x : Pending(x)' => x = "paused" \/ Pending(x)
        /\ \A x : Pending(x) => x = "flow" \/ Pending(x)'
    BY <1>1, <2>1, <2>2, SectionTurns DEF Inner
  <2>4. TypesFit'
    <3>1. pwm' \in {0} \cup PwmMin..PwmMax
      BY <1>2, <2>1, PensFit DEF TypesFit
    <3> QED BY <1>1, <1>2, <2>1, <2>3, <3>1 DEF TypesFit, BlockFits
  <2>5. StateFits'
    BY <1>1, <2>1, <2>3 DEF GCodeIInv, StateFits, At
  <2>6. Live /\ Live'
    BY <1>1, <1>4, <2>1 DEF Live
  <2>7. PlaceFits'
    BY <1>1, <2>3, <2>6, PlaceKept DEF GCodeIInv, Still
  <2>8. SystemFits'
    BY <1>1, <2>3, <2>6, SystemKept DEF GCodeIInv
  <2>9. ZeroFits'
    <3>1. Pending("coord") => Pending("coord")'
      BY <2>3
    <3> QED BY <1>1, <2>3, <3>1, ZeroKept DEF GCodeIInv
  <2>10. PenFits'
    <3>1. PenFits /\ queue' = <<>> /\ queue = <<>> /\ DOMAIN queue' = {}
      BY <1>1, <1>4 DEF GCodeIInv, Synced
    <3>2. pwm' > Rest => pwm' = pwm /\ gc.spindle = "M5"
      BY <2>1, PensFit
    <3>3. ~(pwm' > Rest)
      BY <2>6, <3>1, <3>2 DEF PenFits
    <3>4. ~At("drop")'
      BY <2>3 DEF At
    <3>5. Pending("speed") <=> Pending("speed")'
      BY <2>3
    <3>6. Pending("motion") <=> Pending("motion")'
      BY <2>3
    <3> QED BY <1>1, <2>3, <2>6, <3>1, <3>3, <3>4, <3>5, <3>6 DEF PenFits
  <2> QED BY <2>3, <2>4, <2>5, <2>7, <2>8, <2>9, <2>10 DEF GCodeIInv
<1> QED BY <1>3, <1>4

LEMMA ResumeKeeps ==
  ASSUME GCodeIInv, Resume, UNCHANGED lost
  PROVE  GCodeIInv'
<1>1. /\ todo # <<>> /\ Head(todo) = "paused" /\ todo' = Tail(todo)
      /\ UNCHANGED <<gc, b, path, queue, pos, pwm, flood, abort, stored, lost>>
  BY DEF Resume, At, Done
<1>2. gc \in ModesType /\ flood \in BOOLEAN
  BY DEF GCodeIInv, TypesFit
<1>3. ~abort => state = "HOLD"
  BY <1>1 DEF GCodeIInv, StateFits, At
<1>4. state' = state \/ (state = "HOLD" /\ state' = "IDLE")
  BY <1>3 DEF Resume
<1> QED BY <1>1, <1>2, <1>4, QuietStep

LEMMA ProgramEndKeeps ==
  ASSUME GCodeIInv, ProgramEnd, UNCHANGED lost
  PROVE  GCodeIInv'
<1>1. /\ todo # <<>> /\ Head(todo) = "flow" /\ todo' = Tail(todo) /\ Synced
      /\ gc' = [gc EXCEPT !.motion = "G1", !.plane = "G17", !.distance = "G90",
                          !.feedMode = "G94", !.coord = "G54",
                          !.spindle = "M5", !.coolant = "M9",
                          !.coordSystem = EndSystem]
      /\ UNCHANGED <<b, path, queue, pos, state, abort, stored, lost>>
      /\ IF state = "CHECK" THEN pwm' = pwm /\ flood' = flood
         ELSE pwm' = SpindleSet("M5", 0) /\ flood' = (abort /\ flood)
  BY DEF ProgramEnd, At, Done, machine
<1>2. TypesFit /\ gc \in ModesType /\ flood \in BOOLEAN /\ abort \in BOOLEAN
  BY DEF GCodeIInv, TypesFit
<1>3. /\ TodoFits' /\ Still' /\ todo' = <<>>
  <2>1. /\ TodoFits' /\ Still'
        /\ \A x : Pending(x)' => Pending(x) /\ StepOrder["flow"] < StepOrder[x]
    BY <1>1, SectionDone
  <2>2. todo' # <<>> => Holds(todo', Head(todo')) /\ Head(todo') \in Steps
    <3>1. TodoFits
      BY DEF GCodeIInv
    <3> QED BY <1>1, <3>1, Popped
  <2>3. \A x \in Steps : ~(StepOrder["flow"] < StepOrder[x])
    <3>1. \A x \in Steps : StepOrder[x] \in 0..11
      BY Orders
    <3>2. StepOrder["flow"] = 11
      BY Orders
    <3> QED BY <3>1, <3>2
  <2> QED BY <2>1, <2>2, <2>3 DEF Pending
<1>4. /\ gc' \in ModesType /\ gc'.position = gc.position
      /\ gc'.coordSystem = EndSystem /\ gc'.coord = "G54"
      /\ gc'.spindle = "M5"
  <2>1. EndSystem \in Grid
    BY <1>2 DEF EndSystem, TypesFit, ModesType
  <2>2. "G54" \in CoordSelects
    BY CoordSelectsAre
  <2> QED BY <1>1, <1>2, <2>1, <2>2 DEF ModesType, MotionCommands, Planes,
               DistanceModes, FeedModes, Spindles, Coolants
<1>5. TypesFit'
  <2>1. SpindleSet("M5", 0) \in {0} \cup PwmMin..PwmMax
    BY <1>2, SpindleFits DEF Spindles
  <2>2. pwm' \in {0} \cup PwmMin..PwmMax
    BY <1>1, <1>2, <2>1 DEF TypesFit
  <2>3. flood' \in BOOLEAN
    <3>1. CASE state = "CHECK"
      BY <1>1, <1>2, <3>1
    <3>2. CASE state # "CHECK"
      BY <1>1, <3>2
    <3> QED BY <3>1, <3>2
  <2> QED BY <1>1, <1>2, <1>3, <1>4, <2>2, <2>3 DEF TypesFit
<1>6. \A x : ~Pending(x)' /\ ~At(x)'
  BY <1>3, EmptyFits DEF Pending, At
<1>7. StateFits' /\ ZeroFits'
  BY <1>3, <1>6 DEF StateFits, ZeroFits
<1>8. Live' = Live
  BY <1>1 DEF Live
<1>9. PlaceFits'
  BY <1>1, <1>3, <1>4, <1>8, PlaceKept DEF GCodeIInv, Still
<1>10. SystemFits'
  <2>1. Live => EndSystem = stored["G54"]
    BY DEF Live, EndSystem
  <2> QED BY <1>1, <1>2, <1>4, <1>6, <1>8, <2>1 DEF SystemFits, TypesFit
<1>11. PenFits'
  <2> SUFFICES ASSUME Live PROVE PenFits'
    BY <1>8 DEF PenFits
  <2>1. queue' = <<>> /\ DOMAIN queue' = {}
    BY <1>1 DEF Live, Synced
  <2>2. ~(pwm' > Rest)
    <3>1. pwm' = Rest
      BY <1>1 DEF Live, SpindleSet
    <3> QED BY <3>1, PensFit
  <2> QED BY <1>3, <1>4, <1>6, <2>1, <2>2 DEF PenFits
<1> QED BY <1>3, <1>5, <1>7, <1>9, <1>10, <1>11 DEF GCodeIInv

LEMMA NextLineKeeps ==
  ASSUME GCodeIInv, NextLine, UNCHANGED lost
  PROVE  GCodeIInv'
<1>1. /\ todo = <<>> /\ todo' = <<>> /\ path' = <<>>
      /\ UNCHANGED <<gc, queue, pos, state, pwm, flood, abort, stored, lost>>
  BY DEF NextLine, machine
<1>2. \A x : ~Pending(x)' /\ ~At(x)' /\ ~Pending(x) /\ ~At(x)
  BY <1>1, EmptyFits DEF Pending, At
<1>3. TodoFits'
  BY <1>1, EmptyFits DEF TodoFits
<1>4. TypesFit'
  BY <1>1, EmptyFits DEF GCodeIInv, TypesFit
<1>5. StateFits' /\ ZeroFits'
  BY <1>1, <1>2 DEF StateFits, ZeroFits
<1>6. Live' = Live
  BY <1>1 DEF Live
<1>7. PlaceFits'
  BY <1>1, <1>6, PlaceKept DEF GCodeIInv, Still
<1>8. SystemFits'
  BY <1>1, <1>2, <1>6 DEF GCodeIInv, SystemFits
<1>9. PenFits'
  <2>1. ~Showing
    BY <1>2 DEF Showing
  <2> QED BY <1>1, <1>2, <1>6, <2>1 DEF GCodeIInv, PenFits
<1> QED BY <1>3, <1>4, <1>5, <1>7, <1>8, <1>9 DEF GCodeIInv

-----------------------------------------------------------------------------
(* The machine. *)

(* A step that leaves the line and its modes alone. *)
LEMMA LineKept ==
  ASSUME TodoFits, ZeroFits, UNCHANGED <<gc, b, todo>>
  PROVE  /\ TodoFits' /\ ZeroFits'
         /\ \A x : Pending(x)' <=> Pending(x)
         /\ \A x : At(x)' <=> At(x)
         /\ \A x : During(x)' <=> During(x)
<1>1. \A x : Pending(x)' <=> Pending(x)
  BY DEF Pending
<1>2. /\ \A x : At(x)' <=> At(x)
      /\ \A x : During(x)' <=> During(x)
  BY DEF At, During
<1>3. TodoFits'
  BY DEF TodoFits
<1>4. ZeroFits'
  BY <1>1, ZeroKept
<1> QED BY <1>1, <1>2, <1>3, <1>4

LEMMA CycleStartKeeps ==
  ASSUME GCodeIInv, CycleStart, UNCHANGED lost
  PROVE  GCodeIInv'
<1>1. /\ state = "IDLE" /\ state' = "CYCLE" /\ ~abort
      /\ UNCHANGED <<gc, b, todo, path, queue, pos, pwm, flood, abort, stored,
                     lost>>
  BY DEF CycleStart, handler
<1>2. TypesFit /\ TodoFits /\ ZeroFits
  BY DEF GCodeIInv
<1>3. /\ TodoFits' /\ ZeroFits'
      /\ \A x : Pending(x)' <=> Pending(x)
      /\ \A x : At(x)' <=> At(x)
      /\ \A x : During(x)' <=> During(x)
  BY <1>1, <1>2, LineKept
<1>4. Live' /\ Live
  BY <1>1 DEF Live
<1>5. TypesFit'
  BY <1>1, <1>2 DEF TypesFit, BlockFits
<1>6. StateFits'
  BY <1>1, <1>3 DEF GCodeIInv, StateFits
<1>7. PlaceFits'
  <2>1. Final' = Final /\ PlannedEnd' = PlannedEnd /\ Misled' = Misled
    BY <1>1 DEF Final, PlannedEnd, Misled
  <2> QED BY <1>1, <1>3, <1>4, <2>1 DEF GCodeIInv, PlaceFits
<1>8. SystemFits'
  BY <1>1, <1>3, <1>4, SystemKept DEF GCodeIInv
<1>9. PenFits'
  <2>1. Showing' <=> Showing
    BY <1>1, <1>3 DEF Showing
  <2> QED BY <1>1, <1>3, <1>4, <2>1 DEF GCodeIInv, PenFits
<1> QED BY <1>3, <1>5, <1>6, <1>7, <1>8, <1>9 DEF GCodeIInv

LEMMA FinalPwmFits ==
  ASSUME NEW x \in QueueType
  PROVE  /\ FinalPwm(x) \in {0} \cup PwmMin..PwmMax
         /\ BlockPwm(x) \in {0} \cup PwmMin..PwmMax
         /\ FinalPwm(x) > Rest => x.spindle = "M3"
         /\ x.spindle = "M3" => FinalPwm(x) = Pwm(x.s)
<1>1. x.s \in Nat /\ x.spindle \in {"M3", "M4", "M5"}
  BY DEF QueueType, Spindles
<1>2. Pwm(x.s) \in {0} \cup PwmMin..PwmMax
  BY <1>1, PwmFits
<1>3. /\ x.spindle = "M3" => FinalPwm(x) = Pwm(x.s) /\ BlockPwm(x) = Pwm(x.s)
      /\ x.spindle = "M4" => FinalPwm(x) = 0 /\ BlockPwm(x) = Pwm(x.s)
      /\ x.spindle = "M5" => FinalPwm(x) = 0 /\ BlockPwm(x) = 0
  BY DEF FinalPwm, BlockPwm
<1> QED BY <1>1, <1>2, <1>3, PensFit

LEMMA RunBlockKeeps ==
  ASSUME GCodeIInv, RunBlock
  PROVE  GCodeIInv'
<1>1. /\ state \in {"CYCLE", "JOG"} /\ queue # <<>> /\ ~abort
      /\ ~At("probing")
      /\ pos' = Head(queue).to /\ queue' = Tail(queue)
      /\ pwm' = IF queue' = <<>> THEN FinalPwm(Head(queue))
                                 ELSE BlockPwm(Head(queue))
      /\ state' = IF queue' = <<>> THEN "IDLE" ELSE state
      /\ lost' = {}
      /\ UNCHANGED <<gc, b, todo, path, flood, abort, stored>>
  BY DEF RunBlock, handler
<1>2. TypesFit /\ TodoFits /\ ZeroFits /\ queue \in Seq(QueueType)
  BY DEF GCodeIInv, TypesFit
<1>3. /\ TodoFits' /\ ZeroFits'
      /\ \A x : Pending(x)' <=> Pending(x)
      /\ \A x : At(x)' <=> At(x)
      /\ \A x : During(x)' <=> During(x)
  BY <1>1, <1>2, LineKept
<1>4. Live' /\ Live
  BY <1>1 DEF Live
<1>5. /\ Head(queue) \in QueueType /\ queue' \in Seq(QueueType)
      /\ Len(queue') = Len(queue) - 1 /\ Len(queue) \in Nat
      /\ queue' = <<>> => Last(queue) = Head(queue)
      /\ queue' # <<>> => Last(queue') = Last(queue)
      /\ 1 \in DOMAIN queue /\ queue[1] = Head(queue)
      /\ \A i \in DOMAIN queue' : i + 1 \in DOMAIN queue
                                  /\ queue'[i] = queue[i + 1]
  BY <1>1, <1>2, LastFits
<1>6. TypesFit'
  <2>1. Head(queue).to \in Grid
    BY <1>5 DEF QueueType
  <2>2. pwm' \in {0} \cup PwmMin..PwmMax
    BY <1>1, <1>5, FinalPwmFits
  <2>3. Len(queue') <= BlockBuffer
    <3>1. BlockBuffer \in Nat /\ Len(queue) <= BlockBuffer
      BY <1>2, GCodeAssumption DEF TypesFit
    <3> QED BY <1>5, <3>1
  <2>4. state' \in {"IDLE", "CYCLE", "JOG", "HOLD", "ALARM", "CHECK"}
    BY <1>1
  <2> QED BY <1>1, <1>2, <1>5, <2>1, <2>2, <2>3, <2>4 DEF TypesFit, BlockFits
<1>7. StateFits'
  BY <1>1, <1>3 DEF GCodeIInv, StateFits
<1>8. PlaceFits'
  <2>1. PlannedEnd' = PlannedEnd
    <3>1. CASE queue' = <<>>
      BY <1>1, <1>5, <3>1 DEF PlannedEnd
    <3>2. CASE queue' # <<>>
      BY <1>1, <1>5, <3>2 DEF PlannedEnd
    <3> QED BY <3>1, <3>2
  <2>2. Final' = Final /\ ~Misled
    BY <1>1 DEF Final, Misled
  <2> QED BY <1>1, <1>3, <1>4, <2>1, <2>2 DEF GCodeIInv, PlaceFits
<1>9. SystemFits'
  BY <1>1, <1>3, <1>4, SystemKept DEF GCodeIInv
<1>10. PenFits'
  <2>1. PenFits /\ (Showing' <=> Showing)
    BY <1>1, <1>3 DEF GCodeIInv, Showing
  <2>2. \A i \in DOMAIN queue' : queue'[i].spindle = gc'.spindle
    BY <1>1, <1>4, <1>5, <2>1 DEF PenFits
  <2>3. Head(queue).spindle = gc.spindle
    BY <1>4, <1>5, <2>1 DEF PenFits
  <2>4. queue' = <<>> /\ pwm' > Rest => gc'.spindle = "M3"
    BY <1>1, <1>5, <2>3, FinalPwmFits
  <2>5. ~Showing /\ gc.spindle = "M3" /\ gc.motion \in Cutting =>
          Last(queue).s = gc.speed
    BY <1>1, <1>4, <2>1 DEF PenFits
  <2>6. gc.spindle = "M3" /\ queue' = <<>> => pwm' = Pwm(Last(queue).s)
    BY <1>1, <1>5, <2>3, FinalPwmFits
  <2>7. ~Showing' /\ gc'.spindle = "M3" /\ gc'.motion \in Cutting =>
          /\ queue' # <<>> => Last(queue').s = gc'.speed
          /\ queue' = <<>> => pwm' = Pwm(gc'.speed)
    BY <1>1, <1>5, <2>1, <2>5, <2>6
  <2>8. /\ At("drop")' => gc'.spindle = "M3"
        /\ todo' # <<>> /\ ~b'.jog /\ ~Pending("speed")' => gc'.speed = b'.s
        /\ Pending("speed")' /\ b'.isMotion => Pending("motion")'
    BY <1>1, <1>3, <1>4, <2>1 DEF PenFits
  <2> QED BY <2>2, <2>4, <2>7, <2>8 DEF PenFits
<1> QED BY <1>3, <1>6, <1>7, <1>8, <1>9, <1>10 DEF GCodeIInv

LEMMA JogCancelKeeps ==
  ASSUME GCodeIInv, JogCancel
  PROVE  GCodeIInv'
<1>1. /\ state = "JOG" /\ queue # <<>> /\ ~abort
      /\ ~(At("jog") /\ path = <<>>)
      /\ pwm' = FinalPwm(Head(queue))
      /\ queue' = <<>> /\ state' = "IDLE" /\ lost' = Unnoticed
      /\ UNCHANGED <<b, todo, path, flood, abort, stored>>
  BY DEF JogCancel, handler
<1>2. PICK p \in Grid : pos' = p /\ gc' = [gc EXCEPT !.position = p]
  BY DEF JogCancel, Between, CancelPosition
<1>3. TypesFit /\ TodoFits /\ gc \in ModesType /\ queue \in Seq(QueueType)
  BY DEF GCodeIInv, TypesFit
<1>4. /\ gc' \in ModesType /\ gc'.position = p
      /\ gc'.coordSystem = gc.coordSystem /\ gc'.coord = gc.coord
      /\ gc'.spindle = gc.spindle /\ gc'.speed = gc.speed
      /\ gc'.motion = gc.motion
  BY <1>2, <1>3 DEF ModesType
<1>5. todo # <<>> =>
        /\ b.jog /\ \A x : Pending(x) => x \in {"drop", "jog"}
        /\ Head(todo) \in {"drop", "jog"}
        /\ Head(todo) = "drop" => todo[2] = "jog"
  <2> SUFFICES ASSUME todo # <<>>
               PROVE  /\ b.jog /\ \A x : Pending(x) => x \in {"drop", "jog"}
                      /\ Head(todo) \in {"drop", "jog"}
                      /\ Head(todo) = "drop" => todo[2] = "jog"
    OBVIOUS
  <2>1. b.jog
    BY <1>1 DEF GCodeIInv, StateFits
  <2> QED BY <1>3, <2>1, JogFits
<1>6. /\ \A x : Pending(x)' <=> Pending(x)
      /\ \A x : At(x)' <=> At(x)
      /\ \A x : During(x)' <=> During(x)
      /\ \A x : Pending(x) => x \in {"drop", "jog"}
  <2>1. todo = <<>> => \A x : ~Pending(x)
    BY EmptyFits DEF Pending
  <2>2. \A x : Pending(x)' <=> Pending(x)
    BY <1>1 DEF Pending
  <2>3. /\ \A x : At(x)' <=> At(x)
        /\ \A x : During(x)' <=> During(x)
    BY <1>1 DEF At, During
  <2> QED BY <1>5, <2>1, <2>2, <2>3
<1>7. Live' /\ Live
  BY <1>1 DEF Live
<1>8. /\ Head(queue) \in QueueType /\ 1 \in DOMAIN queue
      /\ queue[1] = Head(queue)
      /\ Len(queue) \in DOMAIN queue /\ Last(queue) = queue[Len(queue)]
  BY <1>1, <1>3, LastFits
<1>9. TodoFits'
  BY <1>1, <1>3 DEF TodoFits
<1>10. TypesFit'
  <2>1. pwm' \in {0} \cup PwmMin..PwmMax
    BY <1>1, <1>8, FinalPwmFits
  <2>2. queue' \in Seq(QueueType) /\ Len(queue') <= BlockBuffer
    BY <1>1, EmptyFits, GCodeAssumption
  <2>3. lost' \subseteq {"speed", "place"}
    BY <1>1 DEF Unnoticed
  <2> QED BY <1>1, <1>2, <1>3, <1>4, <2>1, <2>2, <2>3 DEF TypesFit, BlockFits
<1>11. StateFits'
  <2>1. ~At("paused") /\ ~At("probe") /\ ~At("probing")
    BY <1>5 DEF At
  <2>2. ~Pending("motion")
    BY <1>6
  <2> QED BY <1>1, <1>5, <1>6, <2>1, <2>2 DEF StateFits
<1>12. PlaceFits'
  <2>1. PlannedEnd' = p
    BY <1>1, <1>2 DEF PlannedEnd
  <2>2. ~During("line")
    BY <1>5 DEF During, At
  <2>3. During("jog") /\ path = <<>> => Misled'
    <3>1. During("jog") /\ path = <<>> => At("drop")
      BY <1>1 DEF During
    <3>2. At("drop") => "place" \in Unnoticed
      BY DEF Unnoticed
    <3> QED BY <1>1, <3>1, <3>2 DEF Misled
  <2>4. During("jog") /\ path # <<>> => Last(path) = Last(b.path)
    BY <1>7 DEF GCodeIInv, PlaceFits
  <2> QED BY <1>1, <1>4, <1>6, <2>1, <2>2, <2>3, <2>4 DEF PlaceFits
<1>13. SystemFits'
  BY <1>1, <1>4, <1>6, <1>7, SystemKept DEF GCodeIInv
<1>14. ZeroFits'
  BY <1>6 DEF ZeroFits
<1>15. PenFits'
  <2>1. PenFits /\ (Showing' <=> Showing) /\ DOMAIN queue' = {}
    BY <1>1, <1>6 DEF GCodeIInv, Showing
  <2>2. Head(queue).spindle = gc.spindle
    BY <1>7, <1>8, <2>1 DEF PenFits
  <2>3. pwm' > Rest => gc'.spindle = "M3"
    BY <1>1, <1>4, <1>8, <2>2, FinalPwmFits
  <2>4. ~Showing /\ gc.spindle = "M3" /\ gc.motion \in Cutting
        /\ "speed" \notin lost' => pwm' = Pwm(gc.speed)
    <3> SUFFICES ASSUME ~Showing, gc.spindle = "M3", gc.motion \in Cutting,
                        "speed" \notin lost'
                 PROVE  pwm' = Pwm(gc.speed)
      OBVIOUS
    <3>1. Last(queue).s = gc.speed
      BY <1>1, <1>7, <2>1 DEF PenFits
    <3>2. Last(queue).s = Head(queue).s
      BY <1>1, <1>8 DEF Unnoticed
    <3>3. pwm' = Pwm(Head(queue).s)
      BY <1>1, <1>8, <2>2, FinalPwmFits
    <3> QED BY <3>1, <3>2, <3>3
  <2>5. /\ At("drop")' => gc'.spindle = "M3"
        /\ ~Pending("speed")'
        /\ todo' # <<>> => b'.jog
    BY <1>1, <1>4, <1>5, <1>6, <1>7, <2>1 DEF PenFits
  <2> QED BY <1>1, <1>4, <2>1, <2>3, <2>4, <2>5 DEF PenFits
<1> QED BY <1>9, <1>10, <1>11, <1>12, <1>13, <1>14, <1>15 DEF GCodeIInv

LEMMA ResetKeeps ==
  ASSUME GCodeIInv, Reset, UNCHANGED lost
  PROVE  GCodeIInv'
<1>1. /\ abort' = TRUE /\ pwm' = 0 /\ flood' = FALSE
      /\ UNCHANGED <<gc, b, todo, path, queue, stored, lost>>
      /\ state' \in {state, "ALARM"}
  BY DEF Reset, handler
<1>2. TypesFit /\ TodoFits /\ ZeroFits
  BY DEF GCodeIInv
<1>3. /\ TodoFits' /\ ZeroFits'
      /\ \A x : Pending(x)' <=> Pending(x)
      /\ \A x : At(x)' <=> At(x)
  BY <1>1, <1>2, LineKept
<1>4. pos' \in Grid
  BY <1>2 DEF Reset, TypesFit, Between
<1>5. TypesFit'
  BY <1>1, <1>2, <1>4 DEF TypesFit, BlockFits
<1>6. StateFits'
  BY <1>1, <1>3 DEF GCodeIInv, StateFits
<1>7. ~Live'
  BY <1>1 DEF Live
<1>8. PlaceFits' /\ SystemFits' /\ PenFits'
  BY <1>7 DEF PlaceFits, SystemFits, PenFits
<1> QED BY <1>3, <1>5, <1>6, <1>8 DEF GCodeIInv

LEMMA ReinitKeeps ==
  ASSUME GCodeIInv, Reinit
  PROVE  GCodeIInv'
<1>1. /\ todo = <<>> /\ todo' = <<>> /\ path' = <<>> /\ queue' = <<>>
      /\ pwm' = 0 /\ flood' = FALSE /\ abort' = FALSE /\ lost' = {}
      /\ gc' = InitialModes(stored, pos)
      /\ state' = IF state = "ALARM" THEN "ALARM" ELSE "IDLE"
      /\ UNCHANGED <<pos, stored>>
  BY DEF Reinit
<1>2. TypesFit /\ pos \in Grid /\ stored["G54"] \in Grid
      /\ "G54" \in DOMAIN stored
  BY DEF GCodeIInv, TypesFit
<1>3. /\ gc' \in ModesType /\ gc'.position = pos /\ gc'.coord = "G54"
      /\ gc'.coordSystem = stored["G54"] /\ gc'.spindle = "M5"
  BY <1>1, <1>2, InitialFits DEF InitialModes
<1>4. \A x : ~Pending(x)' /\ ~At(x)'
  BY <1>1, EmptyFits DEF Pending, At
<1>5. TodoFits'
  BY <1>1, EmptyFits DEF TodoFits
<1>6. TypesFit'
  <2>1. state' \in {"IDLE", "CYCLE", "JOG", "HOLD", "ALARM", "CHECK"}
    BY <1>1
  <2>2. Len(queue') <= BlockBuffer
    BY <1>1, EmptyFits, GCodeAssumption
  <2> QED BY <1>1, <1>2, <1>3, <2>1, <2>2, EmptyFits DEF TypesFit
<1>7. StateFits' /\ ZeroFits'
  BY <1>1, <1>4 DEF StateFits, ZeroFits
<1>8. PlaceFits'
  <2>1. PlannedEnd' = pos
    BY <1>1 DEF PlannedEnd
  <2> QED BY <1>3, <1>4, <2>1 DEF PlaceFits, During
<1>9. SystemFits'
  BY <1>1, <1>2, <1>3, <1>4 DEF SystemFits
<1>10. PenFits'
  <2>1. ~(pwm' > Rest) /\ DOMAIN queue' = {}
    BY <1>1, PensFit
  <2> QED BY <1>1, <1>3, <1>4, <2>1 DEF PenFits
<1> QED BY <1>5, <1>6, <1>7, <1>8, <1>9, <1>10 DEF GCodeIInv

(* Between two lines. *)
LEMMA UnlockKeeps ==
  ASSUME GCodeIInv, Unlock, UNCHANGED lost
  PROVE  GCodeIInv'
<1>1. /\ todo = <<>> /\ state = "ALARM" /\ state' = "IDLE"
      /\ UNCHANGED <<gc, b, todo, path, queue, pos, pwm, flood, abort, stored,
                     lost>>
  BY DEF Unlock, handler
<1>2. TypesFit /\ TodoFits /\ ZeroFits
  BY DEF GCodeIInv
<1>3. /\ TodoFits' /\ ZeroFits'
      /\ \A x : Pending(x)' <=> Pending(x)
      /\ \A x : At(x)' <=> At(x)
  BY <1>1, <1>2, LineKept
<1>4. Live' = Live
  BY <1>1 DEF Live
<1>5. TypesFit'
  BY <1>1, <1>2 DEF TypesFit
<1>6. StateFits'
  BY <1>1, EmptyFits DEF StateFits, At, Pending
<1>7. PlaceFits'
  BY <1>1, <1>4, PlaceKept DEF GCodeIInv, Still
<1>8. SystemFits'
  BY <1>1, <1>3, <1>4, SystemKept DEF GCodeIInv
<1>9. PenFits'
  BY <1>1, <1>3, <1>4, PenKept DEF GCodeIInv, At
<1> QED BY <1>3, <1>5, <1>6, <1>7, <1>8, <1>9 DEF GCodeIInv

LEMMA CheckModeKeeps ==
  ASSUME GCodeIInv, CheckMode, UNCHANGED lost
  PROVE  GCodeIInv'
<1>1. /\ todo = <<>>
      /\ UNCHANGED <<gc, b, todo, path, queue, pos, stored, lost>>
      /\ state' = "CHECK" /\ pwm' \in {pwm, 0}
      /\ flood' \in {flood, FALSE} /\ abort' \in {abort, TRUE}
  BY DEF CheckMode, handler
<1>2. TypesFit /\ TodoFits /\ ZeroFits
  BY DEF GCodeIInv
<1>3. TodoFits' /\ ZeroFits'
  BY <1>1, <1>2, LineKept
<1>4. TypesFit'
  BY <1>1, <1>2 DEF TypesFit
<1>5. StateFits'
  BY <1>1, EmptyFits DEF StateFits, At, Pending
<1>6. ~Live'
  BY <1>1 DEF Live
<1>7. PlaceFits' /\ SystemFits' /\ PenFits'
  BY <1>6 DEF PlaceFits, SystemFits, PenFits
<1> QED BY <1>3, <1>4, <1>5, <1>7 DEF GCodeIInv

LEMMA StutterKeeps ==
  ASSUME GCodeIInv, UNCHANGED vars
  PROVE  GCodeIInv'
<1>1. UNCHANGED <<gc, b, todo, path, queue, pos, pwm, flood, state, abort,
                  stored, lost>>
  BY DEF vars
<1>2. TypesFit /\ TodoFits /\ ZeroFits
  BY DEF GCodeIInv
<1>3. /\ TodoFits' /\ ZeroFits'
      /\ \A x : Pending(x)' <=> Pending(x)
      /\ \A x : At(x)' <=> At(x)
      /\ \A x : During(x)' <=> During(x)
  BY <1>1, <1>2, LineKept
<1>4. Live' = Live
  BY <1>1 DEF Live
<1>5. TypesFit'
  BY <1>1, <1>2 DEF TypesFit, BlockFits
<1>6. StateFits'
  BY <1>1, <1>3 DEF GCodeIInv, StateFits
<1>7. PlaceFits'
  <2>1. Final' = Final /\ PlannedEnd' = PlannedEnd /\ Misled' = Misled
    BY <1>1 DEF Final, PlannedEnd, Misled
  <2> QED BY <1>1, <1>3, <1>4, <2>1 DEF GCodeIInv, PlaceFits
<1>8. SystemFits'
  BY <1>1, <1>3, <1>4, SystemKept DEF GCodeIInv
<1>9. PenFits'
  <2>1. Showing' <=> Showing
    BY <1>1, <1>3 DEF Showing
  <2> QED BY <1>1, <1>3, <1>4, <2>1 DEF GCodeIInv, PenFits
<1> QED BY <1>3, <1>5, <1>6, <1>7, <1>8, <1>9 DEF GCodeIInv

-----------------------------------------------------------------------------
(* Every step keeps the invariant. *)
LEMMA SectionKeeps ==
  ASSUME GCodeIInv, Section, UNCHANGED lost
  PROVE  GCodeIInv'
<1>1. CASE SetSpeed BY <1>1, SetSpeedKeeps
<1>2. CASE SpindleControl BY <1>2, SpindleControlKeeps
<1>3. CASE CoolantControl BY <1>3, CoolantControlKeeps
<1>4. CASE Dwell BY <1>4, DwellKeeps
<1>5. CASE LengthOffset BY <1>5, LengthOffsetKeeps
<1>6. CASE SelectSystem BY <1>6, SelectSystemKeeps
<1>7. CASE WriteRecord BY <1>7, WriteRecordKeeps
<1>8. CASE SetOffset BY <1>8, SetOffsetKeeps
<1>9. CASE GoHome BY <1>9, GoHomeKeeps
<1>10. CASE StartMotion BY <1>10, StartMotionKeeps
<1>11. CASE Line BY <1>11, LineKeeps
<1>12. CASE Dropped BY <1>12, DroppedKeeps
<1>13. CASE LinesDone BY <1>13, LinesDoneKeeps
<1>14. CASE JogDone BY <1>14, JogDoneKeeps
<1>15. CASE ProbeStart BY <1>15, ProbeStartKeeps
<1>16. CASE ProbeEnd BY <1>16, ProbeEndKeeps
<1>17. CASE Pause BY <1>17, PauseKeeps
<1>18. CASE Resume BY <1>18, ResumeKeeps
<1>19. CASE ProgramEnd BY <1>19, ProgramEndKeeps
<1>20. CASE NextLine BY <1>20, NextLineKeeps
<1> QED BY <1>1, <1>2, <1>3, <1>4, <1>5, <1>6, <1>7, <1>8, <1>9, <1>10,
           <1>11, <1>12, <1>13, <1>14, <1>15, <1>16, <1>17, <1>18, <1>19,
           <1>20 DEF Section

LEMMA NextGCodeIInv == GCodeIInv /\ [Next]_vars => GCodeIInv'
<1> SUFFICES ASSUME GCodeIInv, [Next]_vars PROVE GCodeIInv'
  OBVIOUS
<1>1. CASE UNCHANGED lost /\ \E l \in Lines : Accept(l) \/ ReadFails(l)
  <2>1. PICK l \in Lines : Accept(l) \/ ReadFails(l)
    BY <1>1
  <2>2. CASE Accept(l)
    <3>1. CASE l.jog
      BY <1>1, <2>2, <3>1, AcceptJogKeeps
    <3>2. CASE ~l.jog
      BY <1>1, <2>2, <3>2, AcceptKeeps
    <3> QED BY <3>1, <3>2
  <2>3. CASE ReadFails(l)
    BY <1>1, <2>3, ReadFailsKeeps
  <2> QED BY <2>1, <2>2, <2>3
<1>2. CASE UNCHANGED lost /\ ViewParameters
  BY <1>2, ViewParametersKeeps
<1>3. CASE UNCHANGED lost /\ Section
  BY <1>3, SectionKeeps
<1>4. CASE UNCHANGED lost /\ Machine
  BY <1>4, CycleStartKeeps, ResetKeeps, UnlockKeeps, CheckModeKeeps DEF Machine
<1>5. CASE RunBlock BY <1>5, RunBlockKeeps
<1>6. CASE JogCancel BY <1>6, JogCancelKeeps
<1>7. CASE Reinit BY <1>7, ReinitKeeps
<1>8. CASE UNCHANGED vars BY <1>8, StutterKeeps
<1> QED BY <1>1, <1>2, <1>3, <1>4, <1>5, <1>6, <1>7, <1>8 DEF Next

(* The inductive invariant: what is left of the line in execution, the place,
   the work coordinates and the pen fit one another at every step of a line,
   whatever the machine and the host do while its handler waits. *)
THEOREM GCodeInductiveInvariant == Spec => []GCodeIInv
<1> QED BY InitGCodeIInv, NextGCodeIInv, PTL DEF Spec

(* The parser, the queue, the outputs and the records have their types: no
   line takes a target, a record or a pulse out of range. *)
THEOREM GCodeTypeCorrect == Spec => []TypeOK
<1>1. GCodeIInv => TypeOK
  <2> SUFFICES ASSUME TypesFit PROVE TypeOK
    BY DEF GCodeIInv
  <2>1. Grid \subseteq Offsets
    BY GCodeAssumption DEF Grid, Offsets
  <2>2. Len(queue) \in 0..BlockBuffer
    BY GCodeAssumption DEF TypesFit
  <2>3. \A i \in DOMAIN queue : queue[i].to \in Grid
    <3>1. \A i \in DOMAIN queue : queue[i] \in QueueType
      BY DEF TypesFit
    <3> QED BY <3>1 DEF QueueType
  <2>4. \A r \in DOMAIN stored : stored[r] \in Offsets
    BY <2>1 DEF TypesFit
  <2>5. /\ gc.position \in Grid
        /\ gc.coordSystem \in Offsets /\ gc.coordOffset \in Offsets
        /\ gc.coord \in CoordSelects /\ gc.spindle \in Spindles
    BY <2>1 DEF TypesFit, ModesType
  <2> QED BY <2>2, <2>3, <2>4, <2>5 DEF TypesFit, TypeOK
<1> QED BY <1>1, GCodeInductiveInvariant, PTL

(* Between two lines the parser's position is where the machine will be once
   what is queued is executed: gc_state.position follows sys_position and the
   planner through arcs, probes, jog cancels and resets. *)
THEOREM ParserAlwaysInSync == Spec => []ParserInSync
<1>1. GCodeIInv => ParserInSync
  BY DEF GCodeIInv, PlaceFits, Live, Misled, ParserInSync, BetweenLines
<1> QED BY <1>1, GCodeInductiveInvariant, PTL

(* Between two lines the offsets in force are those stored for the selected
   system: gc_state.modal.coord_select and gc_state.coord_system, and the
   EEPROM, never disagree. *)
THEOREM CoordSystemAlwaysStored == Spec => []CoordSystemIsStored
<1>1. GCodeIInv => CoordSystemIsStored
  BY DEF GCodeIInv, SystemFits, Live, CoordSystemIsStored, BetweenLines
<1> QED BY <1>1, GCodeInductiveInvariant, PTL

(* At rest the pen is not below its rest position unless M3 is in force, and
   then it is at the height of the last S word. *)
THEOREM PowerNeverStale == Spec => []NoStalePower
<1>1. GCodeIInv => NoStalePower
  <2> SUFFICES ASSUME PenFits, BetweenLines, queue = <<>>, state = "IDLE",
                      pwm > Rest
               PROVE  /\ gc.spindle = "M3"
                      /\ gc.motion \in Cutting /\ "speed" \notin lost =>
                           pwm = Pwm(gc.speed)
    BY DEF GCodeIInv, NoStalePower
  <2>1. Live /\ todo = <<>>
    BY DEF Live, BetweenLines
  <2>2. ~Showing
    BY <2>1, EmptyFits DEF Showing, At, Pending
  <2> QED BY <2>1, <2>2 DEF PenFits
<1> QED BY <1>1, GCodeInductiveInvariant, PTL

(* G92, and G10 L20 of the active system, make the current position read as
   the values on the line, whatever the offsets in force. *)
THEOREM ZeroingAlwaysWorks == Spec => ZeroingWorks
<1>1. ASSUME GCodeIInv, Zeroes, NEW a \in DOMAIN b.named
      PROVE  WPos'[a] = b.named[a]
  <2>1. /\ todo # <<>> /\ Head(todo) = "command" /\ TodoFits /\ TypesFit
    BY <1>1 DEF Zeroes, SetOffset, WriteRecord, At, GCodeIInv
  <2>2. BlockFits(b) /\ gc \in ModesType
    BY <2>1 DEF TypesFit
  <2>3. Pending("command") /\ ~Pending("coord")
    <3>1. StepOrder["command"] = 7 /\ StepOrder["coord"] = 6
      BY Orders
    <3>2. /\ Holds(todo, "coord") =>
                Holds(Tail(todo), "coord") /\ StepOrder["command"] < StepOrder["coord"]
      BY <2>1, TailFits DEF TodoFits
    <3> QED BY <2>1, <3>1, <3>2, HeadFits DEF Pending
  <2>4. /\ a \in Axes /\ b.named[a] \in Int /\ gc.coordSystem = b.coordSystem
        /\ b.command = "G92" =>
             b.data[a] = gc.position[a] - b.coordSystem[a] - b.named[a]
                           - ToolOffset(gc, a)
        /\ b.command = "G10" /\ b.L = 20 =>
             b.data[a] = gc.position[a] - gc.coordOffset[a] - b.named[a]
                           - ToolOffset(gc, a)
    BY <1>1, <2>3 DEF GCodeIInv, ZeroFits
  <2>5. /\ gc.position[a] \in Int /\ gc.coordSystem[a] \in Int
        /\ gc.coordOffset[a] \in Int /\ ToolOffset(gc, a) \in Int
    <3>1. gc.position \in Grid /\ gc.coordSystem \in Grid
          /\ gc.coordOffset \in Offsets /\ gc.toolOffset \in Int
      BY <2>2 DEF ModesType
    <3>2. gc.position[a] \in Int /\ gc.coordSystem[a] \in Int
      BY <2>4, <3>1, GCodeAssumption DEF Grid
    <3> QED BY <2>4, <3>1, <3>2 DEF Offsets, ToolOffset
  <2>6. WPos'[a] = gc'.position[a] - (gc'.coordSystem[a] + gc'.coordOffset[a]
                                        + ToolOffset(gc', a))
    BY <2>4 DEF WPos, WCO
  <2>7. CASE SetOffset /\ b.command = "G92"
    <3>1. gc' = [gc EXCEPT !.coordOffset = b.data]
      BY <2>7 DEF SetOffset
    <3>2. /\ gc'.position = gc.position /\ gc'.coordSystem = gc.coordSystem
          /\ gc'.coordOffset = b.data /\ gc'.toolOffset = gc.toolOffset
      BY <2>2, <3>1 DEF ModesType
    <3>3. ToolOffset(gc', a) = ToolOffset(gc, a)
      BY <3>2 DEF ToolOffset
    <3> QED BY <2>4, <2>5, <2>6, <2>7, <3>2, <3>3
  <2>8. CASE WriteRecord /\ b.L = 20 /\ b.record = gc.coord
    <3>1. b.command = "G10"
      <4>1. gc.coord \in CoordSelects /\ "none" \notin CoordSelects
        BY <2>2 DEF ModesType, CoordSelects, CoordSystems
      <4> QED BY <2>2, <2>8, <4>1 DEF BlockFits
    <3>2. gc' = [gc EXCEPT !.coordSystem = b.data]
      BY <2>8, <3>1 DEF WriteRecord, G10System
    <3>3. /\ gc'.position = gc.position /\ gc'.coordSystem = b.data
          /\ gc'.coordOffset = gc.coordOffset /\ gc'.toolOffset = gc.toolOffset
      BY <2>2, <3>2 DEF ModesType
    <3>4. ToolOffset(gc', a) = ToolOffset(gc, a)
      BY <3>3 DEF ToolOffset
    <3> QED BY <2>4, <2>5, <2>6, <2>8, <3>1, <3>3, <3>4
  <2> QED BY <1>1, <2>7, <2>8 DEF Zeroes
<1>2. GCodeIInv => [Zeroes => \A a \in DOMAIN b.named :
                                WPos'[a] = b.named[a]]_vars
  BY <1>1
<1> QED BY <1>2, GCodeInductiveInvariant, PTL DEF ZeroingWorks

=============================================================================

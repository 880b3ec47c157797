------------------------------ MODULE InkProofs ------------------------------
(***************************************************************************)
(* Proof that ink stays in its strokes: InkStaysInStrokes of module        *)
(* StrokePipeline, for any number of contacts, events and keys, with one   *)
(* datum lost or doubled, by the network or the sender, swapped with the   *)
(* next, or given up by the receiver.                                      *)
(*                                                                         *)
(* The receiver stores a point into whatever stroke is last, so that one   *)
(* lost head or tail joins points of two strokes.  That the plotter draws  *)
(* no line between them hangs on the order of all that has not come to the *)
(* list yet: the chain of links from what the receiver last opened, over   *)
(* the datum in its hand, the network and the queue of the tablet to what  *)
(* the pen will do next.  Without a fault the chain is perfect; one fault  *)
(* anywhere in it leaves either heads, the strokes of which get points of  *)
(* their own contact only before a tail comes, or a stroke that is never   *)
(* closed and blocks the list.  So each stroke that the interpreter takes  *)
(* up has a tail before any point of another contact, and the pen is       *)
(* raised there.                                                           *)
(***************************************************************************)
EXTENDS HostProofs, SequenceTheorems

-----------------------------------------------------------------------------
(* What comes to the receiver, one after the other, as links: of a point of a
   stroke, its head, one of its further points, or its tail. *)
Kind(isHead, isTail) == IF isHead THEN "head" ELSE IF isTail THEN "tail" ELSE "point"
LinkOf(p) == [event |-> p.event, millis |-> p.millis, kind |-> Kind(p.isHead, p.isTail)]
LinkIn(d) == [event |-> d.event, millis |-> d.millis,
              kind |-> IF d.idx = -1 THEN "other" ELSE Kind(d.isHead, d.isTail)]
Contact(link) == link.event[1]

(* The chain begins with what the receiver adds to, the head of a stroke without
   its tail, or the tail of one that may get more; and ends with what the pen
   will do next if it writes. *)
LastStroke == stroke[Last(strokes)]
OpenedOf(s) ==
  IF ~s.isCompleted THEN <<LinkOf(s.points[1])>>
  ELSE IF s.points # << >> /\ Last(s.points).isTail THEN <<LinkOf(Last(s.points))>>
       ELSE << >>
Opened == IF strokes = << >> THEN << >> ELSE OpenedOf(LastStroke)
InHandLink == IF rcv = NoRcv THEN << >> ELSE <<LinkIn(rcv.msg)>>
Arriving == [k \in DOMAIN Flow |-> LinkIn(Flow[k])]
Writing == penDown /\ ~modeCalibration /\ modeWritable
ToCome == IF Writing
          THEN <<[event |-> <<contact, events + 1>>, millis |-> millis + 1,
                  kind |-> "point"]>>
          ELSE << >>
Chain == ((Opened \o InHandLink) \o Arriving) \o ToCome

Further(s, i) == s[i].kind \in {"point", "tail"}
Drawing(s, i) == s[i].kind # "other"
(* Link j is added to the stroke that link i is of, or opens. *)
Behind(s, i, j) ==
  /\ i < j /\ Further(s, j)
  /\ \A k \in DOMAIN s : i < k /\ k < j => s[k].kind # "head"
BeforeTail(s, i, j) == \A k \in DOMAIN s : i < k /\ k < j => s[k].kind # "tail"
Unclosed(s, i) ==
  s[i].kind = "head" /\ \A j \in DOMAIN s : Behind(s, i, j) => s[j].kind # "tail"
Joined(s, i) ==
  \A j \in DOMAIN s : Behind(s, i, j) /\ BeforeTail(s, i, j) => Contact(s[j]) = Contact(s[i])

HeadsFit(s) ==
  \A i \in DOMAIN s : s[i].kind = "head" =>
    Joined(s, i) \/ \E k \in DOMAIN s : k < i /\ Unclosed(s, k)
TwiceFits(s) ==
  \A a, b, j \in DOMAIN s :
    /\ s[a].kind = "tail" /\ s[b].kind = "tail" /\ s[a].event = s[b].event
    /\ Behind(s, a, b) /\ Behind(s, a, j)
    => j = b
TailsFit(s) ==
  \A i, j \in DOMAIN s :
    s[i].kind = "tail" /\ Behind(s, i, j) /\ s[i].millis = s[j].millis =>
      s[i].event = s[j].event

Perfect(s) ==
  /\ \A i, j \in DOMAIN s :
       i < j /\ Drawing(s, i) /\ Drawing(s, j) =>
         /\ Contact(s[i]) <= Contact(s[j]) /\ s[i].event # s[j].event
         /\ s[i].millis < s[j].millis
         /\ s[j].kind = "head" \/ s[i].kind = "tail" => Contact(s[i]) < Contact(s[j])
         /\ Contact(s[i]) < Contact(s[j]) =>
              \E t \in i .. j - 1 : s[t].kind = "tail" /\ Contact(s[t]) = Contact(s[i])
  /\ \A j \in DOMAIN s :
       Further(s, j) /\ ~(j = 1 /\ s[j].kind = "tail") =>
         \E i \in DOMAIN s : i < j /\ s[i].kind = "head" /\ Contact(s[i]) = Contact(s[j])
Ended(s) ==
  \A i \in DOMAIN s : Drawing(s, i) =>
    \E t \in DOMAIN s : i <= t /\ s[t].kind = "tail" /\ Contact(s[t]) = Contact(s[i])

InPlace ==
  /\ Len(strokes) <= Len(stroke)
  /\ \A i \in DOMAIN strokes : strokes[i] = Len(stroke) - Len(strokes) + i
  /\ rcv # NoRcv =>
       /\ rcv.st = Len(stroke) /\ ~rcv.msg.isHead
       /\ stroke[rcv.st].points # << >> => rcv.last = Last(stroke[rcv.st].points).millis
  /\ interp # "idle" => stroke[current].isCompleted
  /\ \A id \in DOMAIN stroke :
       /\ ~stroke[id].isCompleted =>
            /\ stroke[id].points # << >>
            /\ \A k \in DOMAIN stroke[id].points : ~stroke[id].points[k].isTail
            /\ ~crowded => stroke[id].points[1].isHead
       /\ \A k \in DOMAIN stroke[id].points :
            /\ stroke[id].points[k].isHead => k = 1 /\ ~stroke[id].points[k].isTail

(* Everything the pen made that is on its way or stored. *)
Points == UNION {{LinkOf(stroke[id].points[k]) : k \in DOMAIN stroke[id].points}
                   : id \in DOMAIN stroke}
InChain == {LinkIn(Flow[k]) : k \in DOMAIN Flow}
           \cup (IF rcv = NoRcv THEN {} ELSE {LinkIn(rcv.msg)})
Made == {x \in Points \cup InChain : x.kind # "other"}
Timed == {x \in Points : x.kind # "tail"} \cup InChain
MadeFits ==
  /\ \A x \in Made :
       /\ AtOrBefore(x.event, Now)
       /\ x.kind = "head" <=> x.event[2] = 1
       /\ x.kind = "tail" => x.event[1] < contact \/ ~penDown
       /\ x.millis <= millis + 1
  /\ \A x \in Timed : AtOrBefore(x.event, Now) /\ x.millis <= millis
  /\ \A x, y \in Made :
       /\ x.event = y.event => x.kind = y.kind
       /\ x.kind = "tail" /\ x.event[1] = y.event[1] => AtOrBefore(y.event, x.event)
  /\ ~crowded => \A x, y \in Timed : /\ Before(x.event, y.event) => x.millis < y.millis
                                     /\ x.event = y.event => x.millis = y.millis

Blocked == \E i \in DOMAIN strokes : i < Len(strokes) /\ ~stroke[strokes[i]].isCompleted
(* What was lost, doubled, swapped or given up. *)
Lost == faults + races
Lucky == Lost <= 1 /\ ~midStroke /\ ~crowded
ChainHolds(s) == HeadsFit(s) /\ TwiceFits(s) /\ TailsFit(s)
(* With nothing opened the chain does not begin with a tail: its stroke would
   have been opened. *)
Led == Opened = << >> /\ Chain # << >> => Chain[1].kind # "tail"
Early == \A k \in DOMAIN Opened : Opened[k].millis <= millis
(* What holds of the chain as long as no fault happened, in particular if the pen
   has nothing more to write; and what one fault leaves of it. *)
Fit(s, calm, closed) ==
  ChainHolds(s) /\ (calm => Perfect(s) /\ (closed => Ended(s)))
ChainFits ==
  Lucky =>
    /\ Lost = 0 => ~Blocked /\ Led /\ Early
    /\ Blocked \/ Fit(Chain, Lost = 0, ~Writing)

(* A tail comes before any point of another stroke. *)
Closes(ps, k, c) ==
  /\ k \in DOMAIN ps /\ ps[k].isTail
  /\ \A j \in 1 .. k : ps[j].event[1] = c
Whole(ps) == \E k \in DOMAIN ps : Closes(ps, k, ps[1].event[1])
Reached(i) == \A j \in 1 .. i : stroke[strokes[j]].isCompleted
StrokesFit ==
  Lucky =>
    /\ \A i \in DOMAIN strokes :
         Reached(i) /\ (i >= 2 \/ interp = "idle") => Whole(stroke[strokes[i]].points)
    /\ ~Blocked /\ strokes # << >> /\ ~LastStroke.isCompleted =>
         \A k \in DOMAIN LastStroke.points :
           LastStroke.points[k].event[1] = LastStroke.points[1].event[1]

IsMove(c) == c.op \in {"travel", "line"}
Down(s) == Lowered(s, Len(s) + 1)
LastAt(s, c) ==
  \A i \in Moves(s) : (\A k \in Moves(s) : k <= i) => s[i].to[1] = c
Inked(s) ==
  \A i, j \in Moves(s) :
    /\ i < j /\ Lowered(s, j)
    /\ \A k \in Moves(s) : ~(i < k /\ k < j)
    => s[i].to[1] = s[j].to[1]
(* The pen is down, or will be by what is said, only within a stroke that has
   its tail. *)
ClosedLater(ps, c) == \E k \in DOMAIN ps : k >= 2 /\ Closes(ps, k, c)
SaidFits(ps) ==
  \E c \in 1 .. contact :
    \/ /\ said = << >> /\ (Down(reservedMsg) => LastAt(reservedMsg, c) /\ ClosedLater(ps, c))
    \/ /\ Len(said) = 1 /\ said[1].op = "line"
       /\ Down(reservedMsg) =>
            said[1].to[1] = c /\ LastAt(reservedMsg, c) /\ ClosedLater(ps, c)
    \/ /\ Len(said) = 2 /\ said[1].op = "down" /\ said[2].op = "line" /\ said[2].to[1] = c
       /\ LastAt(reservedMsg, c) /\ ClosedLater(ps, c)
    \/ /\ Len(said) = 3 /\ said[1].op = "travel" /\ said[2].op = "down" /\ said[3].op = "line"
       /\ said[1].to[1] = c /\ said[3].to[1] = c
       /\ ~Down(reservedMsg) /\ ClosedLater(ps, c)
InkFits ==
  Lucky =>
    /\ Inked(reservedMsg)
    /\ interp \notin {"points", "pair"} => ~Down(reservedMsg)
    /\ interp = "points" =>
         LET ps == stroke[current].points
         IN /\ Down(reservedMsg) =>
                 \E c \in 1 .. contact : LastAt(reservedMsg, c) /\ ClosedLater(ps, c)
            /\ ps # << >> /\ ps[1].isHead => ~Down(reservedMsg) /\ Whole(ps)
    /\ interp = "pair" => SaidFits(stroke[current].points)

-----------------------------------------------------------------------------
(* Sequences of links, one link fewer. *)
Links == [event : Times, millis : Nat, kind : {"head", "point", "tail", "other"}]

Without(s, t, r) ==
  /\ r \in DOMAIN s /\ t \in Seq(Links) /\ Len(t) = Len(s) - 1
  /\ \A k \in DOMAIN t : t[k] = IF k < r THEN s[k] ELSE s[k + 1]

(* Where the links of the shorter sequence were, and which stayed. *)
At(k, r) == IF k < r THEN k ELSE k + 1
LEMMA WithoutIs ==
  ASSUME NEW s \in Seq(Links), NEW t, NEW r, Without(s, t, r)
  PROVE  /\ DOMAIN s = 1 .. Len(s) /\ Len(s) \in Nat /\ r \in 1 .. Len(s)
         /\ DOMAIN t = 1 .. Len(s) - 1
         /\ \A k \in DOMAIN t : At(k, r) \in DOMAIN s /\ t[k] = s[At(k, r)]
         /\ \A i, j \in DOMAIN t : (i < j <=> At(i, r) < At(j, r))
                                   /\ (i = j <=> At(i, r) = At(j, r))
         /\ \A k \in DOMAIN s : k # r => \E i \in DOMAIN t : k = At(i, r)
<1>1. DOMAIN s = 1 .. Len(s) /\ Len(s) \in Nat /\ r \in 1 .. Len(s)
  BY DEF Without
<1>2. DOMAIN t = 1 .. Len(s) - 1
  <2>1. t \in Seq(Links) /\ Len(t) = Len(s) - 1
    BY DEF Without
  <2> QED BY <2>1
<1>3. \A k \in DOMAIN t : At(k, r) \in DOMAIN s /\ t[k] = s[At(k, r)]
  BY <1>1, <1>2 DEF Without, At
<1>4. \A i, j \in DOMAIN t : (i < j <=> At(i, r) < At(j, r))
                             /\ (i = j <=> At(i, r) = At(j, r))
  BY <1>1, <1>2 DEF At
<1>5. ASSUME NEW k \in DOMAIN s, k # r PROVE \E i \in DOMAIN t : k = At(i, r)
  <2> DEFINE i == IF k < r THEN k ELSE k - 1
  <2>1. i \in DOMAIN t /\ k = At(i, r)
    BY <1>1, <1>2, <1>5 DEF At
  <2> QED BY <2>1
<1> QED BY <1>1, <1>2, <1>3, <1>4, <1>5

(* Taking out a link that opens nothing. *)
LEMMA WithoutBehind ==
  ASSUME NEW s \in Seq(Links), NEW t, NEW r, Without(s, t, r), s[r].kind # "head",
         NEW i \in DOMAIN t, NEW j \in DOMAIN t
  PROVE  Behind(t, i, j) <=> Behind(s, At(i, r), At(j, r))
<1>1. Behind(t, i, j) => Behind(s, At(i, r), At(j, r))
  <2> SUFFICES ASSUME Behind(t, i, j) PROVE Behind(s, At(i, r), At(j, r))
    OBVIOUS
  <2>1. At(i, r) < At(j, r) /\ Further(s, At(j, r))
    BY WithoutIs DEF Behind, Further
  <2>2. ASSUME NEW k \in DOMAIN s, At(i, r) < k, k < At(j, r) PROVE s[k].kind # "head"
    <3>1. CASE k = r
      BY <3>1
    <3>2. CASE k # r
      <4>1. PICK l \in DOMAIN t : k = At(l, r)
        BY <3>2, WithoutIs
      <4>2. i < l /\ l < j /\ t[l] = s[k]
        BY <2>2, <4>1, WithoutIs
      <4> QED BY <4>2 DEF Behind
    <3> QED BY <3>1, <3>2
  <2> QED BY <2>1, <2>2 DEF Behind
<1>2. Behind(s, At(i, r), At(j, r)) => Behind(t, i, j)
  <2> SUFFICES ASSUME Behind(s, At(i, r), At(j, r)) PROVE Behind(t, i, j)
    OBVIOUS
  <2>1. i < j /\ Further(t, j)
    BY WithoutIs DEF Behind, Further
  <2>2. ASSUME NEW k \in DOMAIN t, i < k, k < j PROVE t[k].kind # "head"
    <3>1. At(i, r) < At(k, r) /\ At(k, r) < At(j, r) /\ At(k, r) \in DOMAIN s
          /\ t[k] = s[At(k, r)]
      BY <2>2, WithoutIs
    <3> QED BY <3>1 DEF Behind
  <2> QED BY <2>1, <2>2 DEF Behind
<1> QED BY <1>1, <1>2

LEMMA WithoutBeforeTail ==
  ASSUME NEW s \in Seq(Links), NEW t, NEW r, Without(s, t, r), s[r].kind # "tail",
         NEW i \in DOMAIN t, NEW j \in DOMAIN t, BeforeTail(t, i, j)
  PROVE  BeforeTail(s, At(i, r), At(j, r))
<1> SUFFICES ASSUME NEW k \in DOMAIN s, At(i, r) < k, k < At(j, r)
             PROVE  s[k].kind # "tail"
  BY DEF BeforeTail
<1>1. CASE k = r
  BY <1>1
<1>2. CASE k # r
  <2>1. PICK l \in DOMAIN t : k = At(l, r)
    BY <1>2, WithoutIs
  <2>2. i < l /\ l < j /\ t[l] = s[k]
    BY <2>1, WithoutIs
  <2> QED BY <2>2 DEF BeforeTail
<1> QED BY <1>1, <1>2

(* A link that opens nothing may go if it is a tail only with nothing open
   before it. *)
LEMMA WithoutKeepsUnclosed ==
  ASSUME NEW s \in Seq(Links), NEW t, NEW r, Without(s, t, r), s[r].kind # "head",
         NEW k \in DOMAIN t, Unclosed(s, At(k, r))
  PROVE  Unclosed(t, k)
<1>1. t[k].kind = "head"
  BY WithoutIs DEF Unclosed
<1>2. ASSUME NEW j \in DOMAIN t, Behind(t, k, j) PROVE t[j].kind # "tail"
  BY <1>2, WithoutBehind, WithoutIs DEF Unclosed
<1> QED BY <1>1, <1>2 DEF Unclosed

LEMMA WithoutKeepsChain ==
  ASSUME NEW s \in Seq(Links), NEW t, NEW r, Without(s, t, r), s[r].kind # "head",
         s[r].kind = "tail" => \A k \in DOMAIN s : k < r => s[k].kind # "head",
         ChainHolds(s)
  PROVE  ChainHolds(t)
<1>1. HeadsFit(t)
  <2> SUFFICES ASSUME NEW i \in DOMAIN t, t[i].kind = "head"
               PROVE  Joined(t, i) \/ \E k \in DOMAIN t : k < i /\ Unclosed(t, k)
    BY DEF HeadsFit
  <2>1. At(i, r) \in DOMAIN s /\ s[At(i, r)] = t[i]
    BY WithoutIs
  <2>2. CASE Joined(s, At(i, r))
    <3>1. ASSUME NEW j \in DOMAIN t, Behind(t, i, j), BeforeTail(t, i, j)
          PROVE  Contact(t[j]) = Contact(t[i])
      <4>1. Behind(s, At(i, r), At(j, r))
        BY <3>1, WithoutBehind
      <4>2. BeforeTail(s, At(i, r), At(j, r))
        <5>1. CASE s[r].kind # "tail"
          BY <3>1, <5>1, WithoutBeforeTail
        <5>2. CASE s[r].kind = "tail"
          <6>1. ~(At(i, r) < r)
            BY <5>2, <2>1
          <6>2. ASSUME NEW k \in DOMAIN s, At(i, r) < k, k < At(j, r)
                PROVE  s[k].kind # "tail"
            <7>0. At(i, r) \in 1 .. Len(s) /\ r \in 1 .. Len(s) /\ k \in 1 .. Len(s)
              BY <2>1, WithoutIs
            <7>1. k # r
              BY <6>1, <6>2, <7>0
            <7>2. PICK l \in DOMAIN t : k = At(l, r)
              BY <7>1, WithoutIs
            <7>3. i < l /\ l < j /\ t[l] = s[k]
              BY <6>2, <7>2, WithoutIs
            <7> QED BY <3>1, <7>3 DEF BeforeTail
          <6> QED BY <6>2 DEF BeforeTail
        <5> QED BY <5>1, <5>2
      <4> QED BY <2>1, <2>2, <4>1, <4>2, WithoutIs DEF Joined
    <3> QED BY <3>1 DEF Joined
  <2>3. CASE \E k \in DOMAIN s : k < At(i, r) /\ Unclosed(s, k)
    <3>1. PICK k \in DOMAIN s : k < At(i, r) /\ Unclosed(s, k)
      BY <2>3
    <3>2. k # r
      BY <3>1 DEF Unclosed
    <3>3. PICK l \in DOMAIN t : k = At(l, r)
      BY <3>2, WithoutIs
    <3>4. l < i
      BY <3>1, <3>3, WithoutIs
    <3> QED BY <3>1, <3>3, <3>4, WithoutKeepsUnclosed
  <2> QED BY <2>1, <2>2, <2>3 DEF HeadsFit, ChainHolds
<1>2. TwiceFits(t)
  <2> SUFFICES ASSUME NEW a \in DOMAIN t, NEW b \in DOMAIN t, NEW j \in DOMAIN t,
                      t[a].kind = "tail", t[b].kind = "tail", t[a].event = t[b].event,
                      Behind(t, a, b), Behind(t, a, j)
               PROVE  j = b
    BY DEF TwiceFits
  <2>1. /\ s[At(a, r)].kind = "tail" /\ s[At(b, r)].kind = "tail"
        /\ s[At(a, r)].event = s[At(b, r)].event
        /\ At(a, r) \in DOMAIN s /\ At(b, r) \in DOMAIN s /\ At(j, r) \in DOMAIN s
    BY WithoutIs
  <2>2. Behind(s, At(a, r), At(b, r)) /\ Behind(s, At(a, r), At(j, r))
    BY WithoutBehind
  <2>3. At(j, r) = At(b, r)
    BY <2>1, <2>2 DEF TwiceFits, ChainHolds
  <2> QED BY <2>3, WithoutIs
<1>3. TailsFit(t)
  <2> SUFFICES ASSUME NEW i \in DOMAIN t, NEW j \in DOMAIN t,
                      t[i].kind = "tail", Behind(t, i, j), t[i].millis = t[j].millis
               PROVE  t[i].event = t[j].event
    BY DEF TailsFit
  <2>1. /\ At(i, r) \in DOMAIN s /\ At(j, r) \in DOMAIN s
        /\ t[i] = s[At(i, r)] /\ t[j] = s[At(j, r)]
    BY WithoutIs
  <2>2. Behind(s, At(i, r), At(j, r))
    BY WithoutBehind
  <2> QED BY <2>1, <2>2 DEF TailsFit, ChainHolds
<1> QED BY <1>1, <1>2, <1>3 DEF ChainHolds

(* The head of a stroke may go when its tail comes next: the stroke is closed. *)
LEMMA ClosingKeepsChain ==
  ASSUME NEW s \in Seq(Links), NEW t, Without(s, t, 1), s[1].kind = "head",
         Len(s) >= 2, s[2].kind = "tail", ChainHolds(s)
  PROVE  ChainHolds(t)
<1>1. /\ DOMAIN s = 1 .. Len(s) /\ DOMAIN t = 1 .. Len(s) - 1 /\ Len(s) \in Nat
      /\ \A k \in DOMAIN t : k + 1 \in DOMAIN s /\ t[k] = s[k + 1]
      /\ \A k \in DOMAIN s : k # 1 => k - 1 \in DOMAIN t
  BY WithoutIs DEF Without
<1>2. ASSUME NEW i \in DOMAIN t, NEW j \in DOMAIN t
      PROVE  Behind(t, i, j) <=> Behind(s, i + 1, j + 1)
  <2>1. ASSUME Behind(t, i, j), NEW k \in DOMAIN s, i + 1 < k, k < j + 1
        PROVE  s[k].kind # "head"
    <3>1. k - 1 \in DOMAIN t /\ t[k - 1] = s[k] /\ i < k - 1 /\ k - 1 < j
      BY <1>1, <2>1
    <3> QED BY <2>1, <3>1 DEF Behind
  <2>2. ASSUME Behind(s, i + 1, j + 1), NEW k \in DOMAIN t, i < k, k < j
        PROVE  t[k].kind # "head"
    <3>1. k + 1 \in DOMAIN s /\ t[k] = s[k + 1] /\ i + 1 < k + 1 /\ k + 1 < j + 1
      BY <1>1, <2>2
    <3> QED BY <2>2, <3>1 DEF Behind
  <2>3. (i < j <=> i + 1 < j + 1) /\ (Further(t, j) <=> Further(s, j + 1))
    BY <1>1 DEF Further
  <2> QED BY <2>1, <2>2, <2>3 DEF Behind
<1>3. HeadsFit(t)
  <2> SUFFICES ASSUME NEW i \in DOMAIN t, t[i].kind = "head"
               PROVE  Joined(t, i) \/ \E k \in DOMAIN t : k < i /\ Unclosed(t, k)
    BY DEF HeadsFit
  <2>1. i + 1 \in DOMAIN s /\ s[i + 1] = t[i]
    BY <1>1
  <2>2. CASE Joined(s, i + 1)
    <3>1. ASSUME NEW j \in DOMAIN t, Behind(t, i, j), BeforeTail(t, i, j)
          PROVE  Contact(t[j]) = Contact(t[i])
      <4>1. BeforeTail(s, i + 1, j + 1)
        <5>1. ASSUME NEW k \in DOMAIN s, i + 1 < k, k < j + 1 PROVE s[k].kind # "tail"
          <6>1. k - 1 \in DOMAIN t /\ t[k - 1] = s[k] /\ i < k - 1 /\ k - 1 < j
            BY <1>1, <5>1
          <6> QED BY <3>1, <6>1 DEF BeforeTail
        <5> QED BY <5>1 DEF BeforeTail
      <4> QED BY <1>1, <1>2, <2>1, <2>2, <3>1, <4>1 DEF Joined
    <3> QED BY <3>1 DEF Joined
  <2>3. CASE \E k \in DOMAIN s : k < i + 1 /\ Unclosed(s, k)
    <3>1. PICK k \in DOMAIN s : k < i + 1 /\ Unclosed(s, k)
      BY <2>3
    <3>2. k # 1
      <4>1. 2 \in DOMAIN s
        BY <1>1
      <4>2. Behind(s, 1, 2)
        BY <1>1 DEF Behind, Further
      <4> QED BY <3>1, <4>1, <4>2 DEF Unclosed
    <3>3. k - 1 \in DOMAIN t /\ t[k - 1] = s[k] /\ k - 1 < i /\ k = (k - 1) + 1
      BY <1>1, <3>1, <3>2
    <3>4. ASSUME NEW j \in DOMAIN t, Behind(t, k - 1, j) PROVE t[j].kind # "tail"
      <4>1. Behind(s, k, j + 1)
        BY <1>2, <3>3, <3>4
      <4> QED BY <1>1, <3>1, <4>1 DEF Unclosed
    <3> QED BY <3>1, <3>3, <3>4 DEF Unclosed
  <2> QED BY <2>1, <2>2, <2>3 DEF HeadsFit, ChainHolds
<1>4. TwiceFits(t)
  <2> SUFFICES ASSUME NEW a \in DOMAIN t, NEW b \in DOMAIN t, NEW j \in DOMAIN t,
                      t[a].kind = "tail", t[b].kind = "tail", t[a].event = t[b].event,
                      Behind(t, a, b), Behind(t, a, j)
               PROVE  j = b
    BY DEF TwiceFits
  <2>1. Behind(s, a + 1, b + 1) /\ Behind(s, a + 1, j + 1)
    BY <1>2
  <2>2. j + 1 = b + 1
    BY <1>1, <2>1 DEF TwiceFits, ChainHolds
  <2> QED BY <1>1, <2>2
<1>5. TailsFit(t)
  <2> SUFFICES ASSUME NEW i \in DOMAIN t, NEW j \in DOMAIN t,
                      t[i].kind = "tail", Behind(t, i, j), t[i].millis = t[j].millis
               PROVE  t[i].event = t[j].event
    BY DEF TailsFit
  <2>1. Behind(s, i + 1, j + 1)
    BY <1>2
  <2> QED BY <1>1, <2>1 DEF TailsFit, ChainHolds
<1> QED BY <1>3, <1>4, <1>5 DEF ChainHolds

LEMMA ContactIs ==
  ASSUME NEW s \in Seq(Links), NEW i \in DOMAIN s
  PROVE  Contact(s[i]) \in Nat /\ s[i] \in Links
<1>1. s[i] \in Links
  BY Element
<1> QED BY <1>1 DEF Links, Times, Contact

LEMMA WithoutKeepsPerfect ==
  ASSUME NEW s \in Seq(Links), NEW t, NEW r, Without(s, t, r),
         \/ r = 1 /\ s[1].kind = "head" /\ Len(s) >= 2 /\ s[2].kind = "tail"
         \/ r = 1 /\ s[1].kind # "head"
         \/ s[r].kind \in {"point", "other"},
         Perfect(s)
  PROVE  Perfect(t) /\ (Ended(s) => Ended(t))
<1> USE WithoutIs
<1>0. ASSUME NEW i \in DOMAIN t, NEW x \in DOMAIN s, s[x].kind = "tail", At(i, r) <= x
      PROVE  \E l \in DOMAIN t : i <= l /\ x = At(l, r) /\ t[l] = s[x]
  <2>1. x # r
    <3>1. CASE r = 1
      <4>1. At(i, r) >= 2
        BY <3>1 DEF At
      <4> QED BY <1>0, <3>1, <4>1
    <3>2. CASE r # 1
      BY <3>2, <1>0
    <3> QED BY <3>1, <3>2
  <2>2. PICK l \in DOMAIN t : x = At(l, r)
    BY <2>1
  <2>3. i <= l
    BY <1>0, <2>2 DEF At
  <2> QED BY <2>2, <2>3
<1>1. ASSUME NEW i \in DOMAIN t, NEW j \in DOMAIN t, i < j, Drawing(t, i), Drawing(t, j)
      PROVE  /\ Contact(t[i]) <= Contact(t[j]) /\ t[i].event # t[j].event
             /\ t[i].millis < t[j].millis
             /\ t[j].kind = "head" \/ t[i].kind = "tail" => Contact(t[i]) < Contact(t[j])
             /\ Contact(t[i]) < Contact(t[j]) =>
                  \E x \in i .. j - 1 : t[x].kind = "tail" /\ Contact(t[x]) = Contact(t[i])
  <2>1. /\ At(i, r) \in DOMAIN s /\ At(j, r) \in DOMAIN s /\ At(i, r) < At(j, r)
        /\ t[i] = s[At(i, r)] /\ t[j] = s[At(j, r)]
        /\ Drawing(s, At(i, r)) /\ Drawing(s, At(j, r))
    BY <1>1 DEF Drawing
  <2>2. ASSUME Contact(t[i]) < Contact(t[j])
        PROVE  \E x \in i .. j - 1 : t[x].kind = "tail" /\ Contact(t[x]) = Contact(t[i])
    <3>1. PICK x \in At(i, r) .. At(j, r) - 1 :
                 s[x].kind = "tail" /\ Contact(s[x]) = Contact(s[At(i, r)])
      BY <2>1, <2>2 DEF Perfect
    <3>2. x \in DOMAIN s /\ At(i, r) <= x /\ x < At(j, r)
      BY <2>1, <3>1
    <3>3. PICK l \in DOMAIN t : i <= l /\ x = At(l, r) /\ t[l] = s[x]
      BY <1>0, <3>1, <3>2
    <3>4. l < j
      BY <3>2, <3>3
    <3>5. l \in i .. j - 1
      BY <3>3, <3>4
    <3> QED BY <2>1, <3>1, <3>3, <3>5
  <2> QED BY <2>1, <2>2 DEF Perfect
<1>2. ASSUME NEW j \in DOMAIN t, Further(t, j), ~(j = 1 /\ t[j].kind = "tail")
      PROVE  \E i \in DOMAIN t :
               i < j /\ t[i].kind = "head" /\ Contact(t[i]) = Contact(t[j])
  <2>1. At(j, r) \in DOMAIN s /\ Further(s, At(j, r)) /\ t[j] = s[At(j, r)]
        /\ ~(At(j, r) = 1 /\ s[At(j, r)].kind = "tail")
    BY <1>2 DEF At, Further
  <2>2. PICK x \in DOMAIN s :
           x < At(j, r) /\ s[x].kind = "head" /\ Contact(s[x]) = Contact(s[At(j, r)])
    BY <2>1 DEF Perfect
  <2>3. x # r
    <3> SUFFICES ASSUME x = r PROVE FALSE
      OBVIOUS
    <3>1. r = 1 /\ s[1].kind = "head" /\ Len(s) >= 2 /\ s[2].kind = "tail"
      BY <2>2
    <3>2. 1 \in DOMAIN s /\ 2 \in DOMAIN s /\ Drawing(s, 1) /\ Drawing(s, 2)
      BY <3>1 DEF Drawing
    <3>3. Contact(s[1]) <= Contact(s[2])
      BY <3>2 DEF Perfect
    <3>4. ~(Contact(s[1]) < Contact(s[2]))
      <4> SUFFICES ASSUME Contact(s[1]) < Contact(s[2]) PROVE FALSE
        OBVIOUS
      <4>1. \E y \in 1 .. 2 - 1 : s[y].kind = "tail" /\ Contact(s[y]) = Contact(s[1])
        BY <3>2 DEF Perfect
      <4> QED BY <3>1, <4>1
    <3>5. 2 < At(j, r) /\ Drawing(s, At(j, r))
      <4>1. At(j, r) # 2
        <5>1. At(j, r) = 2 => j = 1 /\ s[At(j, r)].kind = "tail"
          BY <3>1 DEF At
        <5> QED BY <1>2, <2>1, <5>1
      <4> QED BY <2>1, <3>1, <4>1 DEF At, Drawing, Further
    <3>6. Contact(s[2]) < Contact(s[At(j, r)])
      BY <2>1, <3>1, <3>2, <3>5 DEF Perfect
    <3> QED BY <2>1, <2>2, <3>1, <3>2, <3>3, <3>4, <3>6, ContactIs
  <2>4. PICK l \in DOMAIN t : x = At(l, r)
    BY <2>3
  <2>5. l < j /\ t[l] = s[x]
    BY <2>2, <2>4
  <2> QED BY <2>1, <2>2, <2>5
<1>3. ASSUME Ended(s), NEW i \in DOMAIN t, Drawing(t, i)
      PROVE  \E x \in DOMAIN t :
               i <= x /\ t[x].kind = "tail" /\ Contact(t[x]) = Contact(t[i])
  <2>1. At(i, r) \in DOMAIN s /\ Drawing(s, At(i, r)) /\ t[i] = s[At(i, r)]
    BY <1>3 DEF Drawing
  <2>2. PICK x \in DOMAIN s : /\ At(i, r) <= x /\ s[x].kind = "tail"
                              /\ Contact(s[x]) = Contact(s[At(i, r)])
    BY <1>3, <2>1 DEF Ended
  <2> QED BY <1>0, <2>1, <2>2
<1>4. Perfect(t)
  BY <1>1, <1>2, Zenon DEF Perfect
<1> QED BY <1>3, <1>4 DEF Ended

LEMMA NextIsNoTail ==
  ASSUME NEW s \in Seq(Links), NEW t, Without(s, t, 1), s[1].kind # "head", Perfect(s),
         t # << >>
  PROVE  t[1].kind # "tail"
<1>1. /\ DOMAIN s = 1 .. Len(s) /\ Len(s) \in Nat /\ t \in Seq(Links)
      /\ DOMAIN t = 1 .. Len(s) - 1
  BY WithoutIs DEF Without
<1>2. 1 \in DOMAIN t /\ 2 \in DOMAIN s /\ t[1] = s[2]
  BY <1>1 DEF Without
<1>3. ASSUME s[2].kind = "tail" PROVE FALSE
  <2>1. PICK i \in DOMAIN s : i < 2 /\ s[i].kind = "head"
    BY <1>2, <1>3 DEF Perfect, Further
  <2>2. i = 1
    BY <1>1, <2>1
  <2> QED BY <2>1, <2>2
<1> QED BY <1>2, <1>3

-----------------------------------------------------------------------------
(* Sequences of links, one link more. *)
Added(s, x, t) == t = Append(s, x)

LEMMA AppendIs ==
  ASSUME NEW s \in Seq(Links), NEW x \in Links, NEW t, Added(s, x, t)
  PROVE  /\ t \in Seq(Links) /\ Len(t) = Len(s) + 1 /\ Len(s) \in Nat
         /\ DOMAIN s = 1 .. Len(s) /\ DOMAIN t = 1 .. Len(s) + 1
         /\ \A k \in DOMAIN s : k \in DOMAIN t /\ t[k] = s[k]
         /\ t[Len(s) + 1] = x /\ Len(s) + 1 \in DOMAIN t
         /\ \A k \in DOMAIN t : k \in DOMAIN s \/ k = Len(s) + 1
BY DEF Added

LEMMA AppendBehind ==
  ASSUME NEW s \in Seq(Links), NEW x \in Links, NEW t, Added(s, x, t),
         NEW i \in DOMAIN s, NEW j \in DOMAIN s
  PROVE  /\ Behind(t, i, j) <=> Behind(s, i, j)
         /\ BeforeTail(t, i, j) <=> BeforeTail(s, i, j)
         /\ Further(t, j) <=> Further(s, j)
<1> USE AppendIs
<1>1. \A k \in DOMAIN t : i < k /\ k < j => k \in DOMAIN s
  OBVIOUS
<1>2. Further(t, j) <=> Further(s, j)
  BY DEF Further
<1> QED BY <1>1, <1>2 DEF Behind, BeforeTail

LEMMA OpeningKeepsChain ==
  ASSUME NEW s \in Seq(Links), NEW x \in Links, NEW t, Added(s, x, t),
         x.kind \in {"head", "other"}, ChainHolds(s)
  PROVE  ChainHolds(t)
<1> USE AppendIs
<1>0. ASSUME NEW i \in DOMAIN t, NEW j \in DOMAIN t, Behind(t, i, j)
      PROVE  i \in DOMAIN s /\ j \in DOMAIN s /\ Behind(s, i, j)
  <2>1. j \in DOMAIN s
    BY <1>0 DEF Behind, Further
  <2>2. i \in DOMAIN s
    BY <1>0, <2>1 DEF Behind
  <2> QED BY <1>0, <2>1, <2>2, AppendBehind
<1>1. HeadsFit(t)
  <2> SUFFICES ASSUME NEW i \in DOMAIN t, t[i].kind = "head"
               PROVE  Joined(t, i) \/ \E k \in DOMAIN t : k < i /\ Unclosed(t, k)
    BY DEF HeadsFit
  <2>1. CASE i \notin DOMAIN s
    BY <1>0, <2>1 DEF Joined
  <2>2. CASE i \in DOMAIN s /\ Joined(s, i)
    <3>1. ASSUME NEW j \in DOMAIN t, Behind(t, i, j), BeforeTail(t, i, j)
          PROVE  Contact(t[j]) = Contact(t[i])
      <4>1. j \in DOMAIN s /\ Behind(s, i, j)
        BY <1>0, <3>1
      <4>2. BeforeTail(s, i, j)
        BY <2>2, <3>1, <4>1, AppendBehind
      <4>3. Contact(s[j]) = Contact(s[i])
        BY <2>2, <4>1, <4>2 DEF Joined
      <4> QED BY <2>2, <4>1, <4>3
    <3> QED BY <3>1 DEF Joined
  <2>3. CASE i \in DOMAIN s /\ \E k \in DOMAIN s : k < i /\ Unclosed(s, k)
    <3>1. PICK k \in DOMAIN s : k < i /\ Unclosed(s, k)
      BY <2>3
    <3>2. Unclosed(t, k)
      BY <1>0, <3>1 DEF Unclosed
    <3> QED BY <3>1, <3>2
  <2> QED BY <2>1, <2>2, <2>3 DEF ChainHolds, HeadsFit
<1>2. TwiceFits(t)
  BY <1>0 DEF TwiceFits, ChainHolds
<1>3. TailsFit(t)
  <2> SUFFICES ASSUME NEW i \in DOMAIN t, NEW j \in DOMAIN t,
                      t[i].kind = "tail", Behind(t, i, j), t[i].millis = t[j].millis
               PROVE  t[i].event = t[j].event
    BY DEF TailsFit
  <2> QED BY <1>0 DEF TailsFit, ChainHolds
<1> QED BY <1>1, <1>2, <1>3 DEF ChainHolds

(* A point follows its head or another point of its stroke. *)
LEMMA PointKeepsChain ==
  ASSUME NEW s \in Seq(Links), NEW x \in Links, NEW t, Added(s, x, t),
         x.kind = "point", s # << >>, s[Len(s)].kind \in {"head", "point"},
         Contact(x) = Contact(s[Len(s)]),
         \A k \in DOMAIN s : s[k].millis < x.millis,
         ChainHolds(s)
  PROVE  ChainHolds(t)
<1> USE AppendIs
<1> DEFINE n == Len(s)
<1>n. n \in DOMAIN s
  OBVIOUS
<1>0. ASSUME NEW i \in DOMAIN t, NEW j \in DOMAIN t, Behind(t, i, j)
      PROVE  /\ i \in DOMAIN s
             /\ j \in DOMAIN s => Behind(s, i, j)
             /\ j = n + 1 => i = n \/ (s[n].kind = "point" /\ Behind(s, i, n))
  <2>1. i \in DOMAIN s
    BY <1>0 DEF Behind
  <2>2. j \in DOMAIN s => Behind(s, i, j)
    BY <1>0, <2>1, AppendBehind
  <2>3. ASSUME j = n + 1, i # n PROVE s[n].kind = "point" /\ Behind(s, i, n)
    <3>1. i < n /\ n < j
      BY <2>1, <2>3
    <3>2. \A k \in DOMAIN s : i < k /\ k <= n => s[k].kind # "head"
      BY <1>0, <2>3 DEF Behind
    <3>3. s[n].kind = "point"
      BY <1>n, <3>1, <3>2
    <3> QED BY <3>1, <3>2, <3>3 DEF Behind, Further
  <2> QED BY <2>1, <2>2, <2>3
<1>1. HeadsFit(t)
  <2> SUFFICES ASSUME NEW i \in DOMAIN t, t[i].kind = "head"
               PROVE  Joined(t, i) \/ \E k \in DOMAIN t : k < i /\ Unclosed(t, k)
    BY DEF HeadsFit
  <2>0. i \in DOMAIN s /\ t[i] = s[i]
    OBVIOUS
  <2>2. CASE Joined(s, i)
    <3>1. ASSUME NEW j \in DOMAIN t, Behind(t, i, j), BeforeTail(t, i, j)
          PROVE  Contact(t[j]) = Contact(t[i])
      <4>1. CASE j \in DOMAIN s
        <5>1. Behind(s, i, j)
          BY <1>0, <3>1, <4>1
        <5>2. BeforeTail(s, i, j)
          BY <2>0, <3>1, <4>1, AppendBehind
        <5>3. Contact(s[j]) = Contact(s[i])
          BY <2>2, <4>1, <5>1, <5>2 DEF Joined
        <5> QED BY <2>0, <4>1, <5>3
      <4>2. CASE j = n + 1 /\ i = n
        BY <2>0, <4>2
      <4>3. CASE j = n + 1 /\ Behind(s, i, n)
        <5>1. BeforeTail(s, i, n)
          BY <3>1, <4>3 DEF BeforeTail
        <5>2. Contact(s[n]) = Contact(s[i])
          BY <1>n, <2>0, <2>2, <4>3, <5>1 DEF Joined
        <5> QED BY <2>0, <4>3, <5>2
      <4> QED BY <1>0, <3>1, <4>1, <4>2, <4>3
    <3> QED BY <3>1 DEF Joined
  <2>3. CASE \E k \in DOMAIN s : k < i /\ Unclosed(s, k)
    <3>1. PICK k \in DOMAIN s : k < i /\ Unclosed(s, k)
      BY <2>3
    <3>2. ASSUME NEW j \in DOMAIN t, Behind(t, k, j) PROVE t[j].kind # "tail"
      BY <1>0, <3>1, <3>2 DEF Unclosed
    <3>3. k \in DOMAIN t /\ t[k].kind = "head"
      BY <3>1 DEF Unclosed
    <3> QED BY <3>1, <3>2, <3>3 DEF Unclosed
  <2> QED BY <2>0, <2>2, <2>3 DEF ChainHolds, HeadsFit
<1>2. TwiceFits(t)
  <2> SUFFICES ASSUME NEW a \in DOMAIN t, NEW b \in DOMAIN t, NEW j \in DOMAIN t,
                      t[a].kind = "tail", t[b].kind = "tail", t[a].event = t[b].event,
                      Behind(t, a, b), Behind(t, a, j)
               PROVE  j = b
    BY DEF TwiceFits
  <2>1. a \in DOMAIN s /\ b \in DOMAIN s /\ Behind(s, a, b) /\ a # n
        /\ s[a].kind = "tail" /\ s[b].kind = "tail" /\ s[a].event = s[b].event
    BY <1>0
  <2>2. CASE j \in DOMAIN s
    BY <1>0, <2>1, <2>2 DEF TwiceFits, ChainHolds
  <2>3. CASE j = n + 1
    <3>1. s[n].kind = "point" /\ Behind(s, a, n)
      BY <1>0, <2>1, <2>3
    <3>2. n = b
      BY <1>n, <2>1, <3>1 DEF TwiceFits, ChainHolds
    <3> QED BY <2>1, <3>1, <3>2
  <2> QED BY <2>2, <2>3
<1>3. TailsFit(t)
  <2> SUFFICES ASSUME NEW i \in DOMAIN t, NEW j \in DOMAIN t,
                      t[i].kind = "tail", Behind(t, i, j), t[i].millis = t[j].millis
               PROVE  t[i].event = t[j].event
    BY DEF TailsFit
  <2>1. i \in DOMAIN s /\ s[i].kind = "tail"
    BY <1>0
  <2>2. j # n + 1
    <3> SUFFICES ASSUME j = n + 1 PROVE FALSE
      OBVIOUS
    <3>1. s[i].millis < x.millis /\ s[i].millis = x.millis /\ s[i] \in Links
      BY <2>1, Element
    <3> QED BY <3>1 DEF Links
  <2> QED BY <1>0, <2>1, <2>2 DEF TailsFit, ChainHolds
<1> QED BY <1>1, <1>2, <1>3 DEF ChainHolds

(* The last point turns out to be the tail. *)
Ends(s, t) ==
  /\ s # << >> /\ t \in Seq(Links) /\ Len(t) = Len(s)
  /\ \A k \in 1 .. Len(s) - 1 : t[k] = s[k]
  /\ s[Len(s)].kind = "point"
  /\ t[Len(s)] = [s[Len(s)] EXCEPT !.kind = "tail"]

LEMMA EndsIs ==
  ASSUME NEW s \in Seq(Links), NEW t, Ends(s, t)
  PROVE  /\ Len(s) \in Nat \ {0} /\ DOMAIN s = 1 .. Len(s) /\ DOMAIN t = 1 .. Len(s)
         /\ \A k \in DOMAIN s : /\ k # Len(s) => t[k] = s[k]
                                /\ t[k].event = s[k].event /\ t[k].millis = s[k].millis
                                /\ Contact(t[k]) = Contact(s[k])
                                /\ Further(t, k) <=> Further(s, k)
                                /\ Drawing(t, k) <=> Drawing(s, k)
                                /\ t[k].kind = "head" <=> s[k].kind = "head"
         /\ Len(s) \in DOMAIN s
         /\ s[Len(s)].kind = "point" /\ t[Len(s)].kind = "tail"
<1>1. Len(s) \in Nat \ {0} /\ DOMAIN s = 1 .. Len(s)
  BY DEF Ends
<1>2. DOMAIN t = 1 .. Len(s)
  <2>1. t \in Seq(Links) /\ Len(t) = Len(s)
    BY DEF Ends
  <2> QED BY <2>1
<1>3. s[Len(s)] \in Links
  BY <1>1, Element
<1>4. /\ t[Len(s)].event = s[Len(s)].event /\ t[Len(s)].millis = s[Len(s)].millis
      /\ t[Len(s)].kind = "tail" /\ s[Len(s)].kind = "point"
  BY <1>3 DEF Ends, Links
<1>5. \A k \in DOMAIN s : k # Len(s) => t[k] = s[k]
  BY <1>1 DEF Ends
<1> QED BY <1>1, <1>2, <1>4, <1>5 DEF Further, Drawing, Contact

LEMMA EndingKeepsChain ==
  ASSUME NEW s \in Seq(Links), NEW t, Ends(s, t),
         \A k \in DOMAIN s : k < Len(s) /\ s[k].kind # "other" =>
                               s[k].event # s[Len(s)].event,
         ChainHolds(s)
  PROVE  ChainHolds(t)
<1> USE EndsIs
<1>0. ASSUME NEW i \in DOMAIN s, NEW j \in DOMAIN s
      PROVE  /\ Behind(t, i, j) <=> Behind(s, i, j)
             /\ BeforeTail(t, i, j) <=> BeforeTail(s, i, j)
  BY DEF Behind, BeforeTail
<1>1. HeadsFit(t)
  <2> SUFFICES ASSUME NEW i \in DOMAIN s, s[i].kind = "head"
               PROVE  Joined(t, i) \/ \E k \in DOMAIN s : k < i /\ Unclosed(t, k)
    BY DEF HeadsFit
  <2>2. CASE Joined(s, i)
    <3>1. ASSUME NEW j \in DOMAIN t, Behind(t, i, j), BeforeTail(t, i, j)
          PROVE  Contact(t[j]) = Contact(t[i])
      BY <1>0, <2>2, <3>1 DEF Joined
    <3> QED BY <3>1 DEF Joined
  <2>3. CASE \E k \in DOMAIN s : k < i /\ Unclosed(s, k)
    <3>1. PICK k \in DOMAIN s : k < i /\ Unclosed(s, k)
      BY <2>3
    <3>2. ASSUME NEW j \in DOMAIN t, Behind(t, k, j) PROVE t[j].kind # "tail"
      <4>1. Behind(s, k, j)
        BY <1>0, <3>2
      <4>2. j # Len(s)
        <5>1. i # Len(s) /\ i < Len(s)
          OBVIOUS
        <5> QED BY <3>1, <4>1, <5>1 DEF Behind
      <4> QED BY <3>1, <4>1, <4>2 DEF Unclosed
    <3>3. k \in DOMAIN t /\ t[k].kind = "head"
      BY <3>1 DEF Unclosed
    <3> QED BY <3>1, <3>2, <3>3 DEF Unclosed
  <2> QED BY <2>2, <2>3 DEF ChainHolds, HeadsFit
<1>2. TwiceFits(t)
  <2> SUFFICES ASSUME NEW a \in DOMAIN t, NEW b \in DOMAIN t, NEW j \in DOMAIN t,
                      t[a].kind = "tail", t[b].kind = "tail", t[a].event = t[b].event,
                      Behind(t, a, b), Behind(t, a, j)
               PROVE  j = b
    BY DEF TwiceFits
  <2>1. Behind(s, a, b) /\ Behind(s, a, j) /\ a < b /\ a < Len(s)
    BY <1>0 DEF Behind
  <2>2. s[a].kind = "tail" /\ s[a].event = s[b].event
    BY <2>1
  <2>3. b # Len(s)
    BY <2>1, <2>2
  <2>4. s[b].kind = "tail"
    BY <2>3
  <2> QED BY <2>1, <2>2, <2>4 DEF TwiceFits, ChainHolds
<1>3. TailsFit(t)
  <2> SUFFICES ASSUME NEW i \in DOMAIN t, NEW j \in DOMAIN t,
                      t[i].kind = "tail", Behind(t, i, j), t[i].millis = t[j].millis
               PROVE  t[i].event = t[j].event
    BY DEF TailsFit
  <2>1. Behind(s, i, j) /\ i < Len(s)
    BY <1>0 DEF Behind
  <2>2. s[i].kind = "tail" /\ s[i].millis = s[j].millis
    BY <2>1
  <2> QED BY <2>1, <2>2 DEF TailsFit, ChainHolds
<1> QED BY <1>1, <1>2, <1>3 DEF ChainHolds

LEMMA OtherKeepsPerfect ==
  ASSUME NEW s \in Seq(Links), NEW x \in Links, NEW t, Added(s, x, t),
         x.kind = "other", Perfect(s)
  PROVE  Perfect(t) /\ (Ended(s) => Ended(t))
<1> USE AppendIs
<1>0. \A i \in DOMAIN t : /\ Drawing(t, i) => i \in DOMAIN s /\ Drawing(s, i) /\ t[i] = s[i]
                          /\ Further(t, i) => i \in DOMAIN s /\ Further(s, i)
  BY DEF Drawing, Further
<1>1. ASSUME NEW i \in DOMAIN t, NEW j \in DOMAIN t, i < j, Drawing(t, i), Drawing(t, j)
      PROVE  /\ Contact(t[i]) <= Contact(t[j]) /\ t[i].event # t[j].event
             /\ t[i].millis < t[j].millis
             /\ t[j].kind = "head" \/ t[i].kind = "tail" => Contact(t[i]) < Contact(t[j])
             /\ Contact(t[i]) < Contact(t[j]) =>
                  \E y \in i .. j - 1 : t[y].kind = "tail" /\ Contact(t[y]) = Contact(t[i])
  <2>1. /\ i \in DOMAIN s /\ j \in DOMAIN s /\ Drawing(s, i) /\ Drawing(s, j)
        /\ t[i] = s[i] /\ t[j] = s[j]
    BY <1>0, <1>1
  <2>2. \A y \in i .. j - 1 : t[y] = s[y]
    BY <1>1, <2>1
  <2> QED BY <1>1, <2>1, <2>2 DEF Perfect
<1>2. ASSUME NEW j \in DOMAIN t, Further(t, j), ~(j = 1 /\ t[j].kind = "tail")
      PROVE  \E i \in DOMAIN t :
               i < j /\ t[i].kind = "head" /\ Contact(t[i]) = Contact(t[j])
  <2>1. j \in DOMAIN s /\ Further(s, j) /\ t[j] = s[j]
    BY <1>0, <1>2
  <2>2. PICK i \in DOMAIN s :
           i < j /\ s[i].kind = "head" /\ Contact(s[i]) = Contact(s[j])
    BY <1>2, <2>1 DEF Perfect
  <2> QED BY <2>1, <2>2
<1>3. ASSUME Ended(s), NEW i \in DOMAIN t, Drawing(t, i)
      PROVE  \E y \in DOMAIN t :
               i <= y /\ t[y].kind = "tail" /\ Contact(t[y]) = Contact(t[i])
  <2>1. i \in DOMAIN s /\ Drawing(s, i) /\ t[i] = s[i]
    BY <1>0, <1>3
  <2>2. PICK y \in DOMAIN s : i <= y /\ s[y].kind = "tail" /\ Contact(s[y]) = Contact(s[i])
    BY <1>3, <2>1 DEF Ended
  <2> QED BY <2>1, <2>2
<1>4. Perfect(t)
  <2> HIDE AppendIs
  <2> QED BY <1>1, <1>2, Zenon DEF Perfect
<1> QED BY <1>3, <1>4 DEF Ended

LEMMA HeadKeepsPerfect ==
  ASSUME NEW s \in Seq(Links), NEW x \in Links, NEW t, Added(s, x, t),
         x.kind = "head", Perfect(s), Ended(s),
         \A k \in DOMAIN s : Contact(s[k]) < Contact(x) /\ s[k].millis < x.millis
  PROVE  Perfect(t)
<1> USE AppendIs
<1>1. ASSUME NEW i \in DOMAIN t, NEW j \in DOMAIN t, i < j, Drawing(t, i), Drawing(t, j)
      PROVE  /\ Contact(t[i]) <= Contact(t[j]) /\ t[i].event # t[j].event
             /\ t[i].millis < t[j].millis
             /\ t[j].kind = "head" \/ t[i].kind = "tail" => Contact(t[i]) < Contact(t[j])
             /\ Contact(t[i]) < Contact(t[j]) =>
                  \E y \in i .. j - 1 : t[y].kind = "tail" /\ Contact(t[y]) = Contact(t[i])
  <2>1. i \in DOMAIN s /\ Drawing(s, i) /\ t[i] = s[i]
    BY <1>1 DEF Drawing
  <2>2. CASE j \in DOMAIN s
    <3>1. t[j] = s[j] /\ Drawing(s, j)
      BY <1>1, <2>2 DEF Drawing
    <3>2. \A y \in i .. j - 1 : t[y] = s[y]
      BY <1>1, <2>1, <2>2
    <3> QED BY <1>1, <2>1, <2>2, <3>1, <3>2 DEF Perfect
  <2>3. CASE j = Len(s) + 1
    <3>1. PICK y \in DOMAIN s : i <= y /\ s[y].kind = "tail" /\ Contact(s[y]) = Contact(s[i])
      BY <2>1 DEF Ended
    <3>2. y \in i .. j - 1 /\ t[y] = s[y]
      BY <2>3, <3>1
    <3>3. Contact(s[i]) < Contact(x) /\ Contact(s[i]) \in Nat /\ Contact(x) \in Nat
      BY <2>1, ContactIs DEF Links, Times, Contact
    <3>4. t[i].event # t[j].event
      BY <2>1, <2>3, <3>3 DEF Contact
    <3> QED BY <2>1, <2>3, <3>1, <3>2, <3>3, <3>4
  <2> QED BY <2>2, <2>3
<1>2. ASSUME NEW j \in DOMAIN t, Further(t, j), ~(j = 1 /\ t[j].kind = "tail")
      PROVE  \E i \in DOMAIN t :
               i < j /\ t[i].kind = "head" /\ Contact(t[i]) = Contact(t[j])
  <2>1. j \in DOMAIN s /\ Further(s, j) /\ t[j] = s[j]
    BY <1>2 DEF Further
  <2>2. PICK i \in DOMAIN s :
           i < j /\ s[i].kind = "head" /\ Contact(s[i]) = Contact(s[j])
    BY <1>2, <2>1 DEF Perfect
  <2> QED BY <2>1, <2>2
<1> HIDE AppendIs
<1> QED BY <1>1, <1>2, Zenon DEF Perfect

LEMMA PointKeepsPerfect ==
  ASSUME NEW s \in Seq(Links), NEW x \in Links, NEW t, Added(s, x, t),
         x.kind = "point", s # << >>, s[Len(s)].kind \in {"head", "point"},
         Contact(x) = Contact(s[Len(s)]),
         \A k \in DOMAIN s : s[k].millis < x.millis /\ s[k].event # x.event,
         Perfect(s)
  PROVE  Perfect(t)
<1> USE AppendIs
<1> DEFINE n == Len(s)
<1>n. n \in DOMAIN s /\ Drawing(s, n)
  BY DEF Drawing
<1>1. ASSUME NEW i \in DOMAIN t, NEW j \in DOMAIN t, i < j, Drawing(t, i), Drawing(t, j)
      PROVE  /\ Contact(t[i]) <= Contact(t[j]) /\ t[i].event # t[j].event
             /\ t[i].millis < t[j].millis
             /\ t[j].kind = "head" \/ t[i].kind = "tail" => Contact(t[i]) < Contact(t[j])
             /\ Contact(t[i]) < Contact(t[j]) =>
                  \E y \in i .. j - 1 : t[y].kind = "tail" /\ Contact(t[y]) = Contact(t[i])
  <2>1. i \in DOMAIN s /\ Drawing(s, i) /\ t[i] = s[i]
    BY <1>1 DEF Drawing
  <2>2. CASE j \in DOMAIN s
    <3>1. t[j] = s[j] /\ Drawing(s, j)
      BY <1>1, <2>2 DEF Drawing
    <3>2. \A y \in i .. j - 1 : t[y] = s[y]
      BY <1>1, <2>1, <2>2
    <3> QED BY <1>1, <2>1, <2>2, <3>1, <3>2 DEF Perfect
  <2>3. CASE j = n + 1 /\ i = n
    BY <1>n, <2>3, ContactIs
  <2>4. CASE j = n + 1 /\ i # n
    <3>0. i < n
      BY <2>1, <2>4
    <3>1. /\ Contact(s[i]) <= Contact(s[n])
          /\ s[i].kind = "tail" => Contact(s[i]) < Contact(s[n])
          /\ Contact(s[i]) < Contact(s[n]) =>
               \E y \in i .. n - 1 : s[y].kind = "tail" /\ Contact(s[y]) = Contact(s[i])
      BY <1>n, <2>1, <3>0 DEF Perfect
    <3>2. \A y \in i .. n - 1 : y \in i .. j - 1 /\ t[y] = s[y]
      BY <2>1, <2>4
    <3> QED BY <2>1, <2>4, <3>1, <3>2
  <2> QED BY <2>2, <2>3, <2>4
<1>2. ASSUME NEW j \in DOMAIN t, Further(t, j), ~(j = 1 /\ t[j].kind = "tail")
      PROVE  \E i \in DOMAIN t :
               i < j /\ t[i].kind = "head" /\ Contact(t[i]) = Contact(t[j])
  <2>1. CASE j \in DOMAIN s
    <3>1. Further(s, j) /\ t[j] = s[j]
      BY <1>2, <2>1 DEF Further
    <3>2. PICK i \in DOMAIN s :
             i < j /\ s[i].kind = "head" /\ Contact(s[i]) = Contact(s[j])
      BY <1>2, <2>1, <3>1 DEF Perfect
    <3> QED BY <3>1, <3>2
  <2>2. CASE j = n + 1 /\ s[n].kind = "head"
    BY <1>n, <2>2
  <2>3. CASE j = n + 1 /\ s[n].kind = "point"
    <3>1. PICK i \in DOMAIN s :
             i < n /\ s[i].kind = "head" /\ Contact(s[i]) = Contact(s[n])
      BY <1>n, <2>3 DEF Perfect, Further
    <3> QED BY <2>3, <3>1
  <2> QED BY <2>1, <2>2, <2>3
<1> HIDE AppendIs
<1> QED BY <1>1, <1>2, Zenon DEF Perfect

LEMMA EndingKeepsPerfect ==
  ASSUME NEW s \in Seq(Links), NEW t, Ends(s, t), Perfect(s)
  PROVE  Perfect(t) /\ Ended(t)
<1> USE EndsIs
<1>1. ASSUME NEW i \in DOMAIN t, NEW j \in DOMAIN t, i < j, Drawing(t, i), Drawing(t, j)
      PROVE  /\ Contact(t[i]) <= Contact(t[j]) /\ t[i].event # t[j].event
             /\ t[i].millis < t[j].millis
             /\ t[j].kind = "head" \/ t[i].kind = "tail" => Contact(t[i]) < Contact(t[j])
             /\ Contact(t[i]) < Contact(t[j]) =>
                  \E y \in i .. j - 1 : t[y].kind = "tail" /\ Contact(t[y]) = Contact(t[i])
  <2>1. /\ i \in DOMAIN s /\ Drawing(s, i) /\ t[i] = s[i] /\ i < Len(s)
        /\ j \in DOMAIN s /\ Drawing(s, j)
    BY <1>1
  <2>2. /\ Contact(s[i]) <= Contact(s[j]) /\ s[i].event # s[j].event
        /\ s[i].millis < s[j].millis
        /\ s[j].kind = "head" \/ s[i].kind = "tail" => Contact(s[i]) < Contact(s[j])
        /\ Contact(s[i]) < Contact(s[j]) =>
             \E y \in i .. j - 1 : s[y].kind = "tail" /\ Contact(s[y]) = Contact(s[i])
    BY <1>1, <2>1 DEF Perfect
  <2>3. \A y \in i .. j - 1 : t[y] = s[y]
    BY <2>1
  <2> QED BY <2>1, <2>2, <2>3
<1>2. ASSUME NEW j \in DOMAIN t, Further(t, j), ~(j = 1 /\ t[j].kind = "tail")
      PROVE  \E i \in DOMAIN t :
               i < j /\ t[i].kind = "head" /\ Contact(t[i]) = Contact(t[j])
  <2>1. j \in DOMAIN s /\ Further(s, j) /\ ~(j = 1 /\ s[j].kind = "tail")
    BY <1>2
  <2>2. PICK i \in DOMAIN s :
           i < j /\ s[i].kind = "head" /\ Contact(s[i]) = Contact(s[j])
    BY <2>1 DEF Perfect
  <2> QED BY <2>1, <2>2
<1>3. ASSUME NEW i \in DOMAIN t, Drawing(t, i)
      PROVE  \E y \in DOMAIN t :
               i <= y /\ t[y].kind = "tail" /\ Contact(t[y]) = Contact(t[i])
  <2> DEFINE n == Len(s)
  <2>1. n \in DOMAIN s /\ Drawing(s, n) /\ i \in DOMAIN s /\ Drawing(s, i)
    BY <1>3 DEF Drawing
  <2>2. CASE Contact(s[i]) = Contact(s[n])
    BY <2>1, <2>2
  <2>3. CASE Contact(s[i]) # Contact(s[n])
    <3>1. i < n
      BY <2>1, <2>3
    <3>2. Contact(s[i]) < Contact(s[n])
      BY <2>1, <2>3, <3>1, ContactIs DEF Perfect
    <3>3. PICK y \in i .. n - 1 : s[y].kind = "tail" /\ Contact(s[y]) = Contact(s[i])
      BY <2>1, <3>1, <3>2 DEF Perfect
    <3>4. y \in DOMAIN t /\ t[y] = s[y] /\ i <= y
      BY <2>1, <3>3
    <3> QED BY <2>1, <3>3, <3>4
  <2> QED BY <2>2, <2>3
<1>4. Perfect(t)
  BY <1>1, <1>2 DEF Perfect
<1> QED BY <1>3, <1>4 DEF Ended

-----------------------------------------------------------------------------
(* What one fault leaves of a perfect chain. *)
(* What is known of two links of a perfect chain that are of two strokes, the
   second of them no head. *)
LEMMA Between ==
  ASSUME NEW s \in Seq(Links), Perfect(s), NEW i \in DOMAIN s, NEW j \in DOMAIN s,
         i < j, Drawing(s, i), Further(s, j), Contact(s[i]) # Contact(s[j])
  PROVE  \E x \in DOMAIN s, h \in DOMAIN s :
           /\ i <= x /\ x < h /\ h < j
           /\ s[x].kind = "tail" /\ Contact(s[x]) = Contact(s[i])
           /\ s[h].kind = "head" /\ Contact(s[h]) = Contact(s[j])
<1>0. DOMAIN s = 1 .. Len(s) /\ Len(s) \in Nat
  OBVIOUS
<1>1. Drawing(s, j)
  BY DEF Drawing, Further
<1>2. Contact(s[i]) < Contact(s[j])
  BY <1>1, ContactIs DEF Perfect
<1>3. PICK x \in i .. j - 1 : s[x].kind = "tail" /\ Contact(s[x]) = Contact(s[i])
  BY <1>1, <1>2 DEF Perfect
<1>4. x \in DOMAIN s /\ i <= x /\ x < j /\ Drawing(s, x)
  BY <1>0, <1>3 DEF Drawing
<1>5. PICK h \in DOMAIN s :
         h < j /\ s[h].kind = "head" /\ Contact(s[h]) = Contact(s[j])
  <2>1. ~(j = 1 /\ s[j].kind = "tail")
    BY <1>0
  <2> QED BY <2>1 DEF Perfect
<1>6. Drawing(s, h) /\ h # x
  BY <1>3, <1>5 DEF Drawing
<1>7. x < h
  <2> SUFFICES ASSUME h < x PROVE FALSE
    BY <1>0, <1>4, <1>5, <1>6
  <2>1. Contact(s[h]) <= Contact(s[x])
    BY <1>4, <1>5, <1>6 DEF Perfect
  <2> QED BY <1>2, <1>3, <1>4, <1>5, <2>1, ContactIs
<1> QED BY <1>3, <1>4, <1>5, <1>7

(* Links of one event or one millisecond are one link. *)
LEMMA OneEvent ==
  ASSUME NEW s \in Seq(Links), Perfect(s), NEW i \in DOMAIN s, NEW j \in DOMAIN s,
         Drawing(s, i), Drawing(s, j),
         s[i].event = s[j].event \/ s[i].millis = s[j].millis
  PROVE  i = j
<1>0. DOMAIN s = 1 .. Len(s) /\ Len(s) \in Nat
  OBVIOUS
<1>1. s[i].millis \in Nat /\ s[j].millis \in Nat
  <2>1. s[i] \in Links /\ s[j] \in Links
    BY Element
  <2> QED BY <2>1 DEF Links
<1>2. i < j => s[i].event # s[j].event /\ s[i].millis < s[j].millis
  BY DEF Perfect
<1>3. j < i => s[j].event # s[i].event /\ s[j].millis < s[i].millis
  BY DEF Perfect
<1> QED BY <1>0, <1>1, <1>2, <1>3

LEMMA LossKeepsChain ==
  ASSUME NEW s \in Seq(Links), NEW t, NEW p, Without(s, t, p), Perfect(s)
  PROVE  ChainHolds(t)
<1> USE WithoutIs
<1>0. \A k \in DOMAIN t : /\ Drawing(t, k) <=> Drawing(s, At(k, p))
                          /\ Further(t, k) <=> Further(s, At(k, p))
                          /\ t[k].kind \in {"head", "tail"} => Drawing(t, k)
                          /\ Further(t, k) => Drawing(t, k)
  BY DEF Drawing, Further
<1>1. ASSUME NEW i \in DOMAIN t, t[i].kind = "head" PROVE Joined(t, i)
  <2> SUFFICES ASSUME NEW j \in DOMAIN t, Behind(t, i, j), BeforeTail(t, i, j),
                      Contact(t[i]) # Contact(t[j])
               PROVE  FALSE
    BY DEF Joined
  <2>1. /\ At(i, p) \in DOMAIN s /\ At(j, p) \in DOMAIN s /\ At(i, p) < At(j, p)
        /\ Drawing(s, At(i, p)) /\ Further(s, At(j, p))
        /\ s[At(i, p)] = t[i] /\ s[At(j, p)] = t[j]
    BY <1>0, <1>1 DEF Behind
  <2>2. PICK x \in DOMAIN s, h \in DOMAIN s :
           /\ At(i, p) <= x /\ x < h /\ h < At(j, p)
           /\ s[x].kind = "tail" /\ s[h].kind = "head"
    BY <2>1, Between
  <2>3. At(i, p) < x /\ At(i, p) < h /\ x < At(j, p)
    <3>1. x # At(i, p)
      BY <1>1, <2>1, <2>2
    <3> QED BY <2>1, <2>2, <3>1
  <2>4. ASSUME NEW k \in DOMAIN s, At(i, p) < k, k < At(j, p), k # p
        PROVE  s[k].kind \notin {"head", "tail"}
    <3>1. PICK l \in DOMAIN t : k = At(l, p)
      BY <2>4
    <3>2. i < l /\ l < j /\ t[l] = s[k]
      BY <2>4, <3>1
    <3> QED BY <3>2 DEF Behind, BeforeTail
  <2>5. h = p /\ x = p
    BY <2>2, <2>3, <2>4
  <2> QED BY <2>2, <2>5
<1>2. ASSUME NEW a \in DOMAIN t, NEW b \in DOMAIN t, Drawing(t, a), Drawing(t, b),
             t[a].event = t[b].event \/ t[a].millis = t[b].millis
      PROVE  a = b
  <2>1. At(a, p) = At(b, p)
    BY <1>0, <1>2, OneEvent
  <2> QED BY <2>1
<1>3. TwiceFits(t)
  <2> SUFFICES ASSUME NEW a \in DOMAIN t, NEW b \in DOMAIN t,
                      t[a].kind = "tail", t[b].kind = "tail", t[a].event = t[b].event,
                      a < b
               PROVE  FALSE
    BY DEF TwiceFits, Behind
  <2>1. a = b
    BY <1>0, <1>2
  <2> QED BY <2>1
<1>4. TailsFit(t)
  <2> SUFFICES ASSUME NEW i \in DOMAIN t, NEW j \in DOMAIN t,
                      t[i].kind = "tail", Further(t, j), t[i].millis = t[j].millis
               PROVE  t[i].event = t[j].event
    BY DEF TailsFit, Behind
  <2>1. i = j
    BY <1>0, <1>2
  <2> QED BY <2>1
<1> QED BY <1>1, <1>3, <1>4 DEF ChainHolds, HeadsFit

Doubled(s, t, p) ==
  /\ p \in DOMAIN s /\ t \in Seq(Links) /\ Len(t) = Len(s) + 1
  /\ \A k \in DOMAIN t : t[k] = IF k <= p THEN s[k] ELSE s[k - 1]
Original(k, p) == IF k <= p THEN k ELSE k - 1

LEMMA CopyKeepsChain ==
  ASSUME NEW s \in Seq(Links), NEW t, NEW p, Doubled(s, t, p), Perfect(s)
  PROVE  ChainHolds(t)
<1>a. /\ DOMAIN s = 1 .. Len(s) /\ Len(s) \in Nat /\ p \in 1 .. Len(s)
      /\ DOMAIN t = 1 .. Len(s) + 1
  <2>1. t \in Seq(Links) /\ Len(t) = Len(s) + 1 /\ p \in DOMAIN s
    BY DEF Doubled
  <2> QED BY <2>1
<1>b. \A k \in DOMAIN t : Original(k, p) \in DOMAIN s /\ t[k] = s[Original(k, p)]
  BY <1>a DEF Doubled, Original
<1>c. \A i, j \in DOMAIN t : /\ Original(i, p) < Original(j, p) => i < j
                             /\ i < j => Original(i, p) <= Original(j, p)
                             /\ i < j /\ Original(i, p) = Original(j, p) => i = p /\ j = p + 1
  BY <1>a DEF Original
<1>d. ASSUME NEW k \in DOMAIN s PROVE \E l \in DOMAIN t : Original(l, p) = k
  <2> DEFINE l == IF k <= p THEN k ELSE k + 1
  <2>1. l \in DOMAIN t /\ Original(l, p) = k
    BY <1>a DEF Original
  <2> QED BY <2>1
<1>0. \A k \in DOMAIN t : /\ Drawing(t, k) <=> Drawing(s, Original(k, p))
                          /\ Further(t, k) <=> Further(s, Original(k, p))
                          /\ t[k].kind \in {"head", "tail"} => Drawing(t, k)
                          /\ Further(t, k) => Drawing(t, k)
  BY <1>b DEF Drawing, Further
<1>e. ASSUME NEW i \in DOMAIN t, NEW j \in DOMAIN t, i < j, Drawing(t, i), Further(t, j),
             Contact(t[i]) # Contact(t[j])
      PROVE  \E k \in DOMAIN t : i < k /\ k < j /\ t[k].kind = "head"
  <2>1. Original(i, p) < Original(j, p)
    <3>1. Original(i, p) # Original(j, p)
      BY <1>b, <1>e
    <3>2. Original(i, p) <= Original(j, p)
      BY <1>c, <1>e
    <3> QED BY <1>a, <1>b, <3>1, <3>2
  <2>2. PICK x \in DOMAIN s, h \in DOMAIN s :
           /\ Original(i, p) <= x /\ x < h /\ h < Original(j, p) /\ s[h].kind = "head"
    BY <1>0, <1>b, <1>e, <2>1, Between
  <2>3. PICK k \in DOMAIN t : Original(k, p) = h
    BY <1>d
  <2>4. Original(i, p) < h
    BY <1>a, <1>b, <2>2
  <2> QED BY <1>b, <1>c, <2>2, <2>3, <2>4
<1>1. ASSUME NEW i \in DOMAIN t, t[i].kind = "head" PROVE Joined(t, i)
  <2> SUFFICES ASSUME NEW j \in DOMAIN t, Behind(t, i, j), Contact(t[i]) # Contact(t[j])
               PROVE  FALSE
    BY DEF Joined
  <2>1. i < j /\ Drawing(t, i) /\ Further(t, j)
    BY <1>0, <1>1 DEF Behind
  <2>2. \E k \in DOMAIN t : i < k /\ k < j /\ t[k].kind = "head"
    BY <1>e, <2>1
  <2> QED BY <2>2 DEF Behind
<1>2. ASSUME NEW a \in DOMAIN t, NEW b \in DOMAIN t, Drawing(t, a), Drawing(t, b),
             t[a].event = t[b].event \/ t[a].millis = t[b].millis
      PROVE  Original(a, p) = Original(b, p)
  BY <1>0, <1>b, <1>2, OneEvent
<1>3. TwiceFits(t)
  <2> SUFFICES ASSUME NEW a \in DOMAIN t, NEW b \in DOMAIN t, NEW j \in DOMAIN t,
                      t[a].kind = "tail", t[b].kind = "tail", t[a].event = t[b].event,
                      Behind(t, a, b), Behind(t, a, j), j # b
               PROVE  FALSE
    BY DEF TwiceFits
  <2>1. Drawing(t, a) /\ Drawing(t, b) /\ a < b /\ a < j /\ Further(t, j) /\ Drawing(t, j)
    BY <1>0 DEF Behind
  <2>2. Original(a, p) = Original(b, p)
    BY <1>2, <2>1
  <2>3. a = p /\ b = p + 1
    BY <1>c, <2>1, <2>2
  <2>4. Original(a, p) < Original(j, p)
    BY <1>a, <2>1, <2>3 DEF Original
  <2>5. Contact(t[a]) < Contact(t[j])
    BY <1>0, <1>b, <2>1, <2>4 DEF Perfect
  <2>6. Contact(t[a]) # Contact(t[j])
    BY <1>b, <2>5, ContactIs
  <2> QED BY <1>e, <2>1, <2>6 DEF Behind
<1>4. TailsFit(t)
  <2> SUFFICES ASSUME NEW i \in DOMAIN t, NEW j \in DOMAIN t,
                      t[i].kind = "tail", Further(t, j), t[i].millis = t[j].millis
               PROVE  t[i].event = t[j].event
    BY DEF TailsFit, Behind
  <2>1. Original(i, p) = Original(j, p)
    BY <1>0, <1>2
  <2> QED BY <1>b, <2>1
<1> QED BY <1>1, <1>3, <1>4 DEF ChainHolds, HeadsFit

Swapped(s, t, p) ==
  /\ p \in DOMAIN s /\ p + 1 \in DOMAIN s /\ t \in Seq(Links) /\ Len(t) = Len(s)
  /\ \A k \in DOMAIN t : t[k] = IF k = p THEN s[p + 1]
                                ELSE IF k = p + 1 THEN s[p] ELSE s[k]
Other(k, p) == IF k = p THEN p + 1 ELSE IF k = p + 1 THEN p ELSE k

LEMMA OvertakingKeepsChain ==
  ASSUME NEW s \in Seq(Links), NEW t, NEW p, Swapped(s, t, p), Perfect(s),
         p = 1 => s[1].kind # "tail"
  PROVE  ChainHolds(t)
<1>a. /\ DOMAIN s = 1 .. Len(s) /\ Len(s) \in Nat /\ p \in 1 .. Len(s) - 1
      /\ DOMAIN t = 1 .. Len(s)
  <2>1. t \in Seq(Links) /\ Len(t) = Len(s) /\ p \in DOMAIN s /\ p + 1 \in DOMAIN s
    BY DEF Swapped
  <2> QED BY <2>1
<1>b. \A k \in DOMAIN t : /\ Other(k, p) \in DOMAIN s /\ t[k] = s[Other(k, p)]
                          /\ Other(Other(k, p), p) = k
  BY <1>a DEF Swapped, Other
<1>c. \A i, j \in DOMAIN t : /\ Other(i, p) = Other(j, p) => i = j
                             /\ i < j => \/ Other(i, p) < Other(j, p)
                                         \/ i = p /\ j = p + 1
  <2>1. ASSUME NEW i \in DOMAIN t, NEW j \in DOMAIN t, Other(i, p) = Other(j, p)
        PROVE  i = j
    BY <1>b, <2>1
  <2>2. ASSUME NEW i \in DOMAIN t, NEW j \in DOMAIN t, i < j
        PROVE  Other(i, p) < Other(j, p) \/ (i = p /\ j = p + 1)
    <3>1. i \in Nat /\ j \in Nat /\ p \in Nat
      BY <1>a
    <3>2. CASE i = p
      <4>1. Other(i, p) = p + 1
        BY <3>2 DEF Other
      <4>2. j # p + 1 => Other(j, p) = j
        BY <2>2, <3>1, <3>2 DEF Other
      <4> QED BY <2>2, <3>1, <3>2, <4>1, <4>2
    <3>3. CASE i = p + 1
      <4>1. Other(i, p) = p
        BY <3>1, <3>3 DEF Other
      <4>2. Other(j, p) = j
        BY <2>2, <3>1, <3>3 DEF Other
      <4> QED BY <2>2, <3>1, <3>3, <4>1, <4>2
    <3>4. CASE i # p /\ i # p + 1
      <4>1. Other(i, p) = i
        BY <3>4 DEF Other
      <4>2. Other(j, p) = j \/ (j = p /\ Other(j, p) = p + 1)
            \/ (j = p + 1 /\ Other(j, p) = p)
        BY DEF Other
      <4> QED BY <2>2, <3>1, <3>4, <4>1, <4>2
    <3> QED BY <3>2, <3>3, <3>4
  <2> QED BY <2>1, <2>2
<1>0. \A k \in DOMAIN t : /\ Drawing(t, k) <=> Drawing(s, Other(k, p))
                          /\ Further(t, k) <=> Further(s, Other(k, p))
                          /\ t[k].kind \in {"head", "tail"} => Drawing(t, k)
                          /\ Further(t, k) => Drawing(t, k)
  BY <1>b DEF Drawing, Further
<1>1. ASSUME NEW i \in DOMAIN t, t[i].kind = "head"
      PROVE  Joined(t, i) \/ \E k \in DOMAIN t : k < i /\ Unclosed(t, k)
  <2> SUFFICES ASSUME NEW j \in DOMAIN t, Behind(t, i, j), BeforeTail(t, i, j),
                      Contact(t[i]) # Contact(t[j])
               PROVE  \E k \in DOMAIN t : k < i /\ Unclosed(t, k)
    BY DEF Joined
  <2> DEFINE a == Other(i, p)  b == Other(j, p)
  <2>1. /\ i < j /\ a \in DOMAIN s /\ b \in DOMAIN s /\ Drawing(s, a) /\ Further(s, b)
        /\ s[a] = t[i] /\ s[b] = t[j] /\ Drawing(s, b) /\ s[a].kind = "head"
    BY <1>0, <1>1, <1>b DEF Behind
  <2>2. CASE a < b
    <3>1. PICK x \in DOMAIN s, h \in DOMAIN s :
             /\ a <= x /\ x < h /\ h < b /\ s[x].kind = "tail" /\ s[h].kind = "head"
      BY <2>1, <2>2, Between
    <3>2. a < x
      BY <1>a, <2>1, <3>1
    <3>3. ~(i < Other(h, p) /\ Other(h, p) < j) /\ ~(i < Other(x, p) /\ Other(x, p) < j)
      BY <1>a, <1>b, <3>1 DEF Behind, BeforeTail
    <3> QED BY <1>a, <2>1, <2>2, <3>1, <3>2, <3>3 DEF Other
  <2>3. CASE ~(a < b)
    <3>1. i = p /\ j = p + 1 /\ a = p + 1 /\ b = p
      BY <1>a, <1>c, <2>1, <2>3 DEF Other
    <3>2. PICK h \in DOMAIN s : h < p /\ s[h].kind = "head" /\ Contact(s[h]) = Contact(s[p])
      BY <2>1, <3>1 DEF Perfect
    <3>3. h \in DOMAIN t /\ t[h] = s[h] /\ h < i /\ Drawing(s, h)
      BY <1>a, <1>b, <3>1, <3>2 DEF Other, Drawing
    <3>4. ASSUME NEW y \in DOMAIN t, Behind(t, h, y), t[y].kind = "tail" PROVE FALSE
      <4>1. y < p
        <5>1. h < p /\ p \in DOMAIN t /\ t[p].kind = "head" /\ h < y
          BY <1>1, <3>1, <3>2, <3>4 DEF Behind
        <5>2. ~(p < y)
          BY <3>4, <5>1 DEF Behind
        <5>3. p # y
          BY <1>1, <3>1, <3>4
        <5> QED BY <1>a, <5>2, <5>3
      <4>2. y \in DOMAIN s /\ s[y].kind = "tail" /\ h < y /\ Drawing(s, y)
        <5>1. y \in DOMAIN s /\ y \in Nat /\ p \in Nat
          BY <1>a
        <5>2. Other(y, p) = y
          BY <4>1, <5>1 DEF Other
        <5>3. t[y] = s[y]
          BY <1>b, <5>2
        <5> QED BY <3>4, <5>1, <5>3 DEF Behind, Drawing
      <4>3. Contact(s[y]) < Contact(s[p])
        BY <2>1, <3>1, <4>1, <4>2 DEF Perfect
      <4>4. Contact(s[h]) <= Contact(s[y])
        BY <3>3, <4>2 DEF Perfect
      <4> QED BY <3>2, <4>2, <4>3, <4>4, ContactIs
    <3> QED BY <3>2, <3>3, <3>4 DEF Unclosed
  <2> QED BY <2>2, <2>3
<1>2. ASSUME NEW a \in DOMAIN t, NEW b \in DOMAIN t, Drawing(t, a), Drawing(t, b),
             t[a].event = t[b].event \/ t[a].millis = t[b].millis
      PROVE  a = b
  <2>1. Other(a, p) = Other(b, p)
    BY <1>0, <1>b, <1>2, OneEvent
  <2> QED BY <1>c, <2>1
<1>3. TwiceFits(t)
  <2> SUFFICES ASSUME NEW a \in DOMAIN t, NEW b \in DOMAIN t,
                      t[a].kind = "tail", t[b].kind = "tail", t[a].event = t[b].event,
                      a < b
               PROVE  FALSE
    BY DEF TwiceFits, Behind
  <2>1. a = b
    BY <1>0, <1>2
  <2> QED BY <2>1
<1>4. TailsFit(t)
  <2> SUFFICES ASSUME NEW i \in DOMAIN t, NEW j \in DOMAIN t,
                      t[i].kind = "tail", Further(t, j), t[i].millis = t[j].millis
               PROVE  t[i].event = t[j].event
    BY DEF TailsFit, Behind
  <2>1. i = j
    BY <1>0, <1>2
  <2> QED BY <2>1
<1> QED BY <1>1, <1>3, <1>4 DEF ChainHolds, HeadsFit

-----------------------------------------------------------------------------
(* What a fault does to the flow. *)
FlowParts ==
  /\ Flow \in Seq(Samples) /\ Len(Flow) = Len(net) + Len(tabletInputData)
  /\ Len(net) \in Nat /\ Len(tabletInputData) \in Nat
  /\ DOMAIN Flow = 1 .. Len(net) + Len(tabletInputData)
  /\ \A k \in DOMAIN Flow :
       Flow[k] = IF k <= Len(net) THEN net[k] ELSE tabletInputData[k - Len(net)]
LEMMA FlowPartsIs == Shape => FlowParts
  BY FlowIs DEF FlowParts
LEMMA FlowPartsIsNext == Shape' => FlowParts'
  BY FlowPartsIs, PTL

LosesAt(i) ==
  /\ Len(Flow') = Len(Flow) - 1
  /\ \A k \in 1 .. Len(Flow) - 1 : Flow'[k] = IF k < i THEN Flow[k] ELSE Flow[k + 1]
DoublesAt(i) ==
  /\ Len(Flow') = Len(Flow) + 1
  /\ \A k \in 1 .. Len(Flow) + 1 : Flow'[k] = IF k <= i THEN Flow[k] ELSE Flow[k - 1]
SwapsAt(i) ==
  /\ i < Len(Flow) /\ Len(Flow') = Len(Flow)
  /\ \A k \in 1 .. Len(Flow) : Flow'[k] = IF k = i THEN Flow[i + 1]
                                          ELSE IF k = i + 1 THEN Flow[i] ELSE Flow[k]

LEMMA OscRaceInFlow ==
  ASSUME Shape, Shape', OscRace, ~mixed'
  PROVE  \E i \in 1 .. Len(Flow) : LosesAt(i) \/ DoublesAt(i)
<1> DEFINE n == Len(net)
           m == Len(tabletInputData)
           d == Head(tabletInputData)
<1>1. /\ net \in Seq(Samples) /\ tabletInputData \in Seq(Samples)
      /\ tabletInputData # << >> /\ tabletInputData' = Tail(tabletInputData)
      /\ d \in Samples /\ d = tabletInputData[1]
      /\ net' = net \/ net' = net \o <<d, d>>
  <2>1. net \in Seq(Samples) /\ tabletInputData \in Seq(Samples)
    BY DEF Shape, QueueShape
  <2>2. tabletInputData # << >> /\ tabletInputData' = Tail(tabletInputData)
    BY OscRaceIs
  <2>3. d \in Samples /\ d = tabletInputData[1]
    BY <2>1, <2>2, Tails
  <2>4. mixed' # TRUE
    OBVIOUS
  <2>5. net' = net \/ net' = net \o <<d, d>>
    BY <2>4, OscRaceIs, Zenon
  <2> QED BY <2>1, <2>2, <2>3, <2>5
<1>2. /\ n \in Nat /\ m \in Nat /\ m >= 1 /\ Len(Flow) = n + m
      /\ \A k \in 1 .. n + m : Flow[k] = IF k <= n THEN net[k] ELSE tabletInputData[k - n]
  <2>1. m >= 1
    BY <1>1
  <2> QED BY <2>1, FlowPartsIs DEF FlowParts
<1>3. /\ Len(tabletInputData') = m - 1
      /\ \A k \in 1 .. m - 1 : tabletInputData'[k] = tabletInputData[k + 1]
  BY <1>1, Tails
<1>4. /\ Len(net') \in Nat /\ Len(Flow') = Len(net') + (m - 1)
      /\ \A k \in 1 .. Len(net') + (m - 1) :
           Flow'[k] = IF k <= Len(net') THEN net'[k] ELSE tabletInputData'[k - Len(net')]
  BY <1>3, FlowPartsIsNext DEF FlowParts
<1> DEFINE i == n + 1
<1>5. i \in 1 .. Len(Flow) /\ Flow[i] = d
  BY <1>1, <1>2
<1> HIDE DEF n, m, d
<1>6. CASE net' = net
  <2>1. Len(net') = n
    BY <1>6 DEF n
  <2>2. ASSUME NEW k \in 1 .. Len(Flow) - 1
        PROVE  Flow'[k] = IF k < i THEN Flow[k] ELSE Flow[k + 1]
    <3>1. /\ k \in 1 .. Len(net') + (m - 1) /\ k \in 1 .. n + m /\ k + 1 \in 1 .. n + m
          /\ (k < i <=> k <= n)
      BY <1>2, <2>1
    <3>2. CASE k <= n
      BY <1>4, <1>2, <1>6, <2>1, <3>1, <3>2
    <3>3. CASE ~(k <= n)
      <4>1. /\ k - n \in 1 .. m - 1 /\ ~(k + 1 <= n) /\ (k + 1) - n = (k - n) + 1
        BY <1>2, <3>1, <3>3
      <4> QED BY <1>2, <1>3, <1>4, <2>1, <3>1, <3>3, <4>1
    <3> QED BY <3>2, <3>3
  <2>3. Len(Flow') = Len(Flow) - 1
    BY <1>2, <1>4, <2>1
  <2>4. LosesAt(i)
    BY <2>2, <2>3 DEF LosesAt
  <2> QED BY <1>5, <2>4
<1>7. CASE net' = net \o <<d, d>>
  <2>1. /\ Len(net') = n + 2 /\ \A k \in 1 .. n : net'[k] = net[k]
        /\ net'[n + 1] = d /\ net'[n + 2] = d
    BY <1>1, <1>7, RaceAdds DEF n
  <2>2. ASSUME NEW k \in 1 .. Len(Flow) + 1
        PROVE  Flow'[k] = IF k <= i THEN Flow[k] ELSE Flow[k - 1]
    <3>1. /\ k \in 1 .. Len(net') + (m - 1) /\ k \in Int /\ 1 <= k /\ k <= n + m + 1
      BY <1>2, <2>1
    <3>2. CASE k <= n
      <4>1. k \in 1 .. n /\ k \in 1 .. n + m /\ k <= Len(net') /\ k <= i
        BY <1>2, <2>1, <3>1, <3>2
      <4> QED BY <1>2, <1>4, <2>1, <3>1, <3>2, <4>1
    <3>3. CASE k = n + 1
      <4>1. k <= Len(net')
        BY <1>2, <2>1, <3>3
      <4> QED BY <1>4, <1>5, <2>1, <3>1, <3>3, <4>1
    <3>4. CASE k = n + 2
      <4>1. k <= Len(net') /\ ~(k <= i) /\ k - 1 = i
        BY <1>2, <2>1, <3>4
      <4> QED BY <1>4, <1>5, <2>1, <3>1, <3>4, <4>1
    <3>5. CASE n + 2 < k
      <4>1. /\ ~(k <= Len(net')) /\ ~(k <= i) /\ k - 1 \in 1 .. n + m /\ ~(k - 1 <= n)
            /\ k - Len(net') \in 1 .. m - 1 /\ (k - Len(net')) + 1 = (k - 1) - n
        BY <1>2, <2>1, <3>1, <3>5
      <4> QED BY <1>2, <1>3, <1>4, <3>1, <4>1
    <3> QED BY <1>2, <3>1, <3>2, <3>3, <3>4, <3>5
  <2>3. Len(Flow') = Len(Flow) + 1
    BY <1>2, <1>4, <2>1
  <2>4. DoublesAt(i)
    BY <2>2, <2>3 DEF DoublesAt
  <2> QED BY <1>5, <2>4
<1> QED BY <1>1, <1>6, <1>7

(* As long as no message was mixed there was none. *)
LEMMA NotMixed == [Next]_vars /\ ~mixed' => ~mixed
<1> SUFFICES ASSUME [Next]_vars, ~mixed' PROVE ~mixed
  OBVIOUS
<1>1. CASE Pen
  BY <1>1 DEF Pen, PenPress, PenDrag, PenRelease, mouseEvent
<1>2. CASE Keyboard
  BY <1>2 DEF Keyboard, ToggleMode, keyPressed, ReserveTyped, history
<1>3. CASE OscStreaming \/ OscRace \/ NetFault
  BY <1>3 DEF OscStreaming, OscRace, NetFault, history
<1>4. CASE Oscp5
  BY <1>4 DEF Oscp5, ReadSizes, Receive, AddPointStore, history
<1>5. CASE Interpreting
  BY <1>5 DEF Interpreting, Interpret, InterpretPair, Reserve, InterpretTail,
             InterpretRest, RemoveStroke, history
<1>6. CASE UNCHANGED vars
  BY <1>6 DEF vars, history
<1> QED BY <1>1, <1>2, <1>3, <1>4, <1>5, <1>6 DEF Next

-----------------------------------------------------------------------------
(* What the pen made. *)
LEMMA LinksOf ==
  /\ \A p \in Point : LinkOf(p) \in Links
  /\ \A d \in Samples : LinkIn(d) \in Links
<1>1. Millis \subseteq Nat
  BY Positive DEF Millis
<1>2. \A h, l \in BOOLEAN : Kind(h, l) \in {"head", "point", "tail", "other"}
  BY DEF Kind
<1>3. ASSUME NEW p \in Point PROVE LinkOf(p) \in Links
  <2>1. p.event \in Times /\ p.millis \in Nat /\ p.isHead \in BOOLEAN /\ p.isTail \in BOOLEAN
    BY <1>1, EventsAreTimes DEF Point
  <2> QED BY <1>2, <2>1 DEF LinkOf, Links
<1>4. ASSUME NEW d \in Samples PROVE LinkIn(d) \in Links
  <2>1. d.event \in Times /\ d.millis \in Nat /\ d.isHead \in BOOLEAN /\ d.isTail \in BOOLEAN
    BY <1>1, EventsAreTimes DEF Samples, Data
  <2> QED BY <1>2, <2>1 DEF LinkIn, Links
<1> QED BY <1>3, <1>4

LEMMA KindOf ==
  /\ \A p : /\ LinkOf(p).event = p.event /\ LinkOf(p).millis = p.millis
            /\ LinkOf(p).kind = Kind(p.isHead, p.isTail) /\ LinkOf(p).kind # "other"
  /\ \A d : /\ LinkIn(d).event = d.event /\ LinkIn(d).millis = d.millis
            /\ d.idx # -1 => LinkIn(d).kind = Kind(d.isHead, d.isTail)
                             /\ LinkIn(d).kind # "other"
            /\ d.idx = -1 => LinkIn(d).kind = "other"
  /\ \A h, l : /\ Kind(h, l) = "head" <=> h
               /\ Kind(h, l) = "tail" <=> ~h /\ l
               /\ Kind(h, l) = "point" <=> ~h /\ ~l
BY DEF LinkOf, LinkIn, Kind

(* A point that was stored is the datum in hand, but for the time of a tail
   that shares its millisecond. *)
LEMMA StoredLink ==
  ASSUME NEW m \in Samples, m.idx # -1, ~m.isHead, NEW last
  PROVE  /\ LinkOf(StoredPoint(m, last)).event = m.event
         /\ LinkOf(StoredPoint(m, last)).kind = LinkIn(m).kind
         /\ StoredPoint(m, last).event = m.event
         /\ StoredPoint(m, last).isTail = m.isTail /\ ~StoredPoint(m, last).isHead
         /\ ~(m.isTail /\ m.millis = last) =>
              LinkOf(StoredPoint(m, last)) = LinkIn(m) /\ StoredPoint(m, last).millis = m.millis
         /\ m.isTail /\ m.millis = last =>
              /\ StoredPoint(m, last).millis = m.millis + 1
              /\ LinkOf(StoredPoint(m, last)).millis = m.millis + 1
<1> DEFINE p == StoredPoint(m, last)
<1>1. /\ p.event = m.event /\ p.isTail = m.isTail /\ p.isHead = FALSE
      /\ p.millis = IF m.isTail /\ m.millis = last THEN m.millis + 1 ELSE m.millis
  BY DEF StoredPoint, TailMillis
<1>2. m.isHead \in BOOLEAN /\ m.isTail \in BOOLEAN
  BY DEF Samples, Data
<1>3. Kind(p.isHead, p.isTail) = Kind(m.isHead, m.isTail)
  BY <1>1, <1>2 DEF Kind
<1> HIDE DEF p
<1>4. /\ LinkOf(p).event = m.event /\ LinkOf(p).kind = LinkIn(m).kind
      /\ LinkOf(p).millis = p.millis
  BY <1>1, <1>3, KindOf
<1>5. p.millis = m.millis => LinkOf(p) = LinkIn(m)
  BY <1>1, <1>3 DEF LinkOf, LinkIn
<1> QED BY <1>1, <1>4, <1>5 DEF p

(* What addPoint does: nothing to a point from the past, a replacement of the
   last point by one of its millisecond, or one point more. *)
LEMMA StoredIs ==
  ASSUME Shape, AddPointStore
  PROVE  LET s == stroke[rcv.st]
             w == stroke'[rcv.st]
             m == rcv.msg
             p == StoredPoint(m, rcv.last)
         IN /\ rcv # NoRcv /\ m \in Samples /\ m.idx # -1 /\ rcv.st \in DOMAIN stroke
            /\ m.millis \in Nat /\ rcv.last \in Nat /\ m.isTail \in BOOLEAN
            /\ s.isCompleted \in BOOLEAN
            /\ s.points \in Seq(Point) /\ w.points \in Seq(Point)
            /\ \/ /\ w = s /\ s.points = << >> /\ m.millis = rcv.last
               \/ /\ w.isCompleted = (s.isCompleted \/ m.isTail)
                  /\ \/ m.millis < rcv.last /\ w.points = s.points
                     \/ m.millis = rcv.last /\ s.points # << >>
                        /\ w.points = Append(Front(s.points), p)
                     \/ m.millis > rcv.last /\ w.points = Append(s.points, p)
<1> DEFINE s == stroke[rcv.st]
           m == rcv.msg
<1>1. /\ rcv # NoRcv /\ m \in Samples /\ m.idx # -1 /\ rcv.st \in DOMAIN stroke
      /\ rcv.last \in Millis
  BY DEF AddPointStore, Shape, DrawingShape
<1>2. m.millis \in Nat /\ rcv.last \in Nat /\ m.isTail \in BOOLEAN
  BY <1>1, Positive DEF Samples, Data, Millis
<1>3. s \in Drawn /\ s.points \in Seq(Point) /\ s.isCompleted \in BOOLEAN
  <2>1. s \in Drawn
    BY <1>1, Element DEF Shape, DrawingShape
  <2> QED BY <2>1 DEF Drawn
<1>4. CASE m.millis = rcv.last /\ s.points = << >>
  <2>1. stroke' = stroke
    BY <1>4 DEF AddPointStore
  <2> QED BY <1>1, <1>2, <1>3, <1>4, <2>1
<1>5. CASE ~(m.millis = rcv.last /\ s.points = << >>)
  <2> DEFINE r == [points |-> WithPoint(s.points, m, rcv.last),
                   isCompleted |-> s.isCompleted \/ Completes(m, rcv.last)]
  <2>1. stroke' = [stroke EXCEPT ![rcv.st] = r]
    BY <1>5 DEF AddPointStore
  <2>2. r.points = WithPoint(s.points, m, rcv.last)
        /\ r.isCompleted = (s.isCompleted \/ m.isTail)
    BY DEF Completes
  <2>3. r.points \in Seq(Point)
    BY <1>1, <1>3, <1>5, <2>2, WithPointFits
  <2>4. stroke'[rcv.st] = r
    <3>1. stroke \in Seq(Drawn)
      BY DEF Shape, DrawingShape
    <3> HIDE DEF r
    <3> QED BY <1>1, <2>1, <3>1
  <2>5. \/ m.millis < rcv.last /\ r.points = s.points
        \/ /\ m.millis = rcv.last /\ s.points # << >>
           /\ r.points = Append(Front(s.points), StoredPoint(m, rcv.last))
        \/ /\ m.millis > rcv.last
           /\ r.points = Append(s.points, StoredPoint(m, rcv.last))
    <3> DEFINE p == StoredPoint(m, rcv.last)
    <3>1. WithPoint(s.points, m, rcv.last) =
            IF m.millis > rcv.last THEN Append(s.points, p)
            ELSE IF m.millis = rcv.last THEN Append(Front(s.points), p) ELSE s.points
      BY DEF WithPoint
    <3>2. m.millis < rcv.last \/ m.millis = rcv.last \/ m.millis > rcv.last
      BY <1>2
    <3> HIDE DEF r, p, s, m
    <3>3. CASE m.millis < rcv.last
      <4>1. ~(m.millis > rcv.last) /\ m.millis # rcv.last
        BY <1>2, <3>3
      <4> QED BY <2>2, <3>1, <3>3, <4>1
    <3>4. CASE m.millis = rcv.last
      <4>1. ~(m.millis > rcv.last) /\ s.points # << >>
        BY <1>2, <1>5, <3>4
      <4> QED BY <2>2, <3>1, <3>4, <4>1 DEF p
    <3>5. CASE m.millis > rcv.last
      BY <2>2, <3>1, <3>5 DEF p
    <3> QED BY <3>2, <3>3, <3>4, <3>5
  <2> HIDE DEF r
  <2> QED BY <1>1, <1>2, <1>3, <2>2, <2>3, <2>4, <2>5
<1> QED BY <1>4, <1>5

(* What the pen does, in terms of links. *)
PenKind(action) ==
  IF action = "PRESS" THEN "head" ELSE IF action = "RELEASE" THEN "tail" ELSE "point"
PenMoves(action) ==
  /\ millis' \in {millis, millis + 1}
  /\ crowded' = (crowded \/ (contact + events > 0 /\ millis' = millis))
  /\ \/ action = "PRESS" /\ ~penDown /\ penDown' /\ contact' = contact + 1 /\ events' = 1
     \/ /\ action \in {"DRAG", "RELEASE"} /\ penDown /\ penDown' = (action = "DRAG")
        /\ contact' = contact /\ events' = events + 1 /\ events >= 1
  /\ UNCHANGED <<Lost, rcv, drawing, interp, current, said, reservedMsg, midStroke>>
Sends(kind) ==
  \E d \in Samples : /\ Flow' = Append(Flow, d) /\ d.event = Now' /\ d.millis = millis'
                     /\ LinkIn(d).kind = kind
TabletDoes(action) ==
  /\ UNCHANGED modeWritable
  /\ \/ /\ modeCalibration /\ modeCalibration' = (action # "RELEASE")
        /\ \/ action = "PRESS" /\ Sends("other")
           \/ action # "PRESS" /\ Flow' = Flow
     \/ /\ ~modeCalibration /\ ~modeCalibration' /\ modeWritable
        /\ \/ Sends(PenKind(action))
           \/ action # "PRESS" /\ strokeIdx = -1 /\ Sends("other")
     \/ /\ ~modeCalibration /\ ~modeCalibration' /\ ~modeWritable /\ Flow' = Flow

LEMMA AppendToFlow ==
  ASSUME Shape, NEW d \in Samples, tabletInputData' = Append(tabletInputData, d),
         net' = net
  PROVE  Flow' = Append(Flow, d)
<1>1. net \in Seq(Samples) /\ tabletInputData \in Seq(Samples)
  BY DEF Shape, QueueShape
<1> QED BY <1>1 DEF Flow

LEMMA PenDoes ==
  ASSUME Shape, Pen
  PROVE  \E action \in {"PRESS", "DRAG", "RELEASE"} : PenMoves(action) /\ TabletDoes(action)
<1> USE Positive
<1>0. /\ contact \in Nat /\ events \in Nat /\ millis \in Nat /\ penDown \in BOOLEAN
      /\ modeCalibration \in BOOLEAN /\ modeWritable \in BOOLEAN
      /\ penDown => events >= 1
      /\ strokeIdx \in Int /\ strokeIdx >= -1
  BY DEF Shape, PenShape, FlagShape
<1>1. Now' \in Events
  BY PenAdds
<1>2. PICK action \in {"PRESS", "DRAG", "RELEASE"} :
        /\ \/ action = "PRESS" /\ ~penDown /\ penDown' /\ contact' = contact + 1 /\ events' = 1
           \/ /\ action \in {"DRAG", "RELEASE"} /\ penDown /\ penDown' = (action = "DRAG")
              /\ contact' = contact /\ events' = events + 1 /\ events >= 1
        /\ mouseEvent(action)
  <2>1. CASE PenPress
    BY <1>0, <2>1 DEF PenPress
  <2>2. CASE PenDrag
    BY <1>0, <2>2 DEF PenDrag
  <2>3. CASE PenRelease
    BY <1>0, <2>3 DEF PenRelease
  <2> QED BY <2>1, <2>2, <2>3 DEF Pen
<1>3. PICK t \in IF contact + events = 0 THEN {0} ELSE millis .. millis + 1 :
        /\ t <= MaxMillis
        /\ millis' = t
        /\ crowded' = (crowded \/ (contact + events > 0 /\ t = millis))
        /\ \/ CalibrationEvent(action, Now', t)
           \/ WritingEvent(action, Now', t)
           \/ IdleEvent
  BY <1>2 DEF mouseEvent, Now
<1>3a. t \in Nat /\ t \in {millis, millis + 1}
  BY <1>0, <1>3 DEF Shape, PenShape
<1>4. PenMoves(action)
  <2>1. millis' \in {millis, millis + 1}
    BY <1>3, <1>3a
  <2>2. UNCHANGED <<Lost, rcv, drawing, interp, current, said, reservedMsg, midStroke>>
    BY <1>2 DEF mouseEvent, interpreter, Lost
  <2> QED BY <1>2, <1>3, <2>1, <2>2 DEF PenMoves
<1>5. t \in 0 .. MaxMillis /\ net' = net
  BY <1>0, <1>2, <1>3 DEF mouseEvent
<1>6. TabletDoes(action)
  <2>1. CASE CalibrationEvent(action, Now', t)
    <3>1. CASE action = "PRESS"
      <4> DEFINE d == DataOf(-1, Now', t, FALSE, FALSE)
      <4>1. d \in Samples /\ d.event = Now' /\ d.millis = t /\ d.idx = -1
        <5>1. -1 \in -1 .. MaxStrokes
          OBVIOUS
        <5>2. d \in Samples
          BY <1>1, <1>5, <5>1, DatumFits
        <5> QED BY <5>2 DEF DataOf
      <4>2. Flow' = Append(Flow, d)
        BY <1>5, <2>1, <3>1, <4>1, AppendToFlow DEF CalibrationEvent
      <4>3. LinkIn(d).kind = "other"
        BY <4>1, KindOf
      <4> HIDE DEF d
      <4>4. Sends("other")
        BY <1>3, <4>1, <4>2, <4>3 DEF Sends
      <4> QED BY <2>1, <3>1, <4>4 DEF TabletDoes, CalibrationEvent
    <3>2. CASE action # "PRESS"
      <4>1. Flow' = Flow
        BY <1>5, <2>1, <3>2, FlowStays DEF CalibrationEvent
      <4> QED BY <2>1, <3>2, <4>1 DEF TabletDoes, CalibrationEvent
    <3> QED BY <3>1, <3>2
  <2>2. CASE WritingEvent(action, Now', t)
    <3> DEFINE h == (action = "PRESS")  l == (action = "RELEASE")
               d == DataOf(strokeIdx', Now', t, h, l)
    <3>1. strokeIdx' = IF action = "PRESS" THEN strokeIdx + 1 ELSE strokeIdx
      BY <2>2 DEF WritingEvent, NextStrokeIdx
    <3>2. strokeIdx' \in -1 .. MaxStrokes
      <4>1. Shape'
        BY PenKeepsShape
      <4> QED BY <4>1, <1>0 DEF Shape, PenShape
    <3>3. /\ d \in Samples /\ d.event = Now' /\ d.millis = t /\ d.idx = strokeIdx'
          /\ d.isHead = h /\ d.isTail = l
      <4>1. h \in BOOLEAN /\ l \in BOOLEAN
        OBVIOUS
      <4>2. d \in Samples
        BY <1>1, <1>5, <3>2, <4>1, DatumFits
      <4> QED BY <4>2 DEF DataOf
    <3>4. Flow' = Append(Flow, d)
      BY <1>5, <2>2, <3>3, AppendToFlow DEF WritingEvent
    <3>5. Kind(h, l) = PenKind(action)
      BY DEF Kind, PenKind
    <3>6. d.idx # -1 => LinkIn(d).kind = PenKind(action)
      BY <3>3, <3>5, KindOf
    <3>7. d.idx = -1 => LinkIn(d).kind = "other" /\ action # "PRESS" /\ strokeIdx = -1
      BY <1>0, <3>1, <3>3, KindOf
    <3> HIDE DEF d
    <3>8. Sends(PenKind(action)) \/ (action # "PRESS" /\ strokeIdx = -1 /\ Sends("other"))
      BY <1>3, <3>3, <3>4, <3>6, <3>7 DEF Sends
    <3> QED BY <2>2, <3>8 DEF TabletDoes, WritingEvent
  <2>3. CASE IdleEvent
    <3>1. Flow' = Flow
      BY <1>5, <2>3, FlowStays DEF IdleEvent, tablet
    <3> QED BY <2>3, <3>1 DEF TabletDoes, IdleEvent, tablet
  <2> QED BY <1>3, <2>1, <2>2, <2>3
<1> QED BY <1>4, <1>6

(* All that was made, and its times. *)
LEMMA PointIn ==
  ASSUME NEW id \in DOMAIN stroke, NEW k \in DOMAIN stroke[id].points
  PROVE  /\ LinkOf(stroke[id].points[k]) \in Points /\ LinkOf(stroke[id].points[k]) \in Made
         /\ ~stroke[id].points[k].isTail => LinkOf(stroke[id].points[k]) \in Timed
<1>1. LinkOf(stroke[id].points[k]) \in Points
  BY DEF Points
<1>2. LinkOf(stroke[id].points[k]).kind # "other"
  BY KindOf
<1>3. ~stroke[id].points[k].isTail => LinkOf(stroke[id].points[k]).kind # "tail"
  BY KindOf
<1> QED BY <1>1, <1>2, <1>3 DEF Made, Timed

LEMMA PointsFrom ==
  ASSUME NEW x \in Points
  PROVE  \E id \in DOMAIN stroke : \E k \in DOMAIN stroke[id].points :
           x = LinkOf(stroke[id].points[k])
BY DEF Points

LEMMA MadeIs ==
  ASSUME Shape
  PROVE  \A x \in Points \cup InChain : x \in Links /\ x.event \in Events
<1>1. ASSUME NEW x \in Points PROVE x \in Links /\ x.event \in Events
  <2>1. PICK id \in DOMAIN stroke : \E k \in DOMAIN stroke[id].points :
          x = LinkOf(stroke[id].points[k])
    BY PointsFrom
  <2>2. PICK p \in Point : x = LinkOf(p)
    BY <2>1, ListIs, Element
  <2>3. x.event = p.event
    BY <2>2, KindOf
  <2>4. x.event \in Events
    BY <2>3 DEF Point
  <2> QED BY <2>2, <2>4, LinksOf
<1>2. ASSUME NEW x \in InChain PROVE x \in Links /\ x.event \in Events
  <2>1. PICK d \in Samples : x = LinkIn(d)
    <3>1. CASE \E k \in DOMAIN Flow : x = LinkIn(Flow[k])
      BY <3>1, FlowIs, Element
    <3>2. CASE rcv # NoRcv /\ x = LinkIn(rcv.msg)
      BY <3>2 DEF Shape, DrawingShape
    <3> QED BY <1>2, <3>1, <3>2 DEF InChain
  <2>2. x.event = d.event
    BY <2>1, KindOf
  <2>3. x.event \in Events
    BY <2>2 DEF Samples, Data
  <2> QED BY <2>1, <2>3, LinksOf
<1> QED BY <1>1, <1>2

LEMMA ClockIs ==
  ASSUME Shape
  PROVE  /\ contact \in Nat /\ events \in Nat /\ millis \in Nat /\ Now \in Times
         /\ Now[1] = contact /\ Now[2] = events /\ penDown \in BOOLEAN
         /\ crowded \in BOOLEAN
BY Positive DEF Shape, PenShape, FlagShape, Now, Times

(* Nothing new is made. *)
LEMMA MadeStays ==
  ASSUME MadeFits, UNCHANGED <<contact, events, penDown, millis, crowded>>,
         \A x \in Made' : \E y \in Made : /\ x.event = y.event /\ x.kind = y.kind
                                          /\ x.millis <= millis + 1,
         Timed' \subseteq Timed
  PROVE  MadeFits'
<1>1. Now' = Now
  BY DEF Now
<1>2. ASSUME NEW x \in Made'
      PROVE  /\ AtOrBefore(x.event, Now)
             /\ x.kind = "head" <=> x.event[2] = 1
             /\ x.kind = "tail" => x.event[1] < contact \/ ~penDown
             /\ x.millis <= millis + 1
  BY <1>2 DEF MadeFits
<1>3. ASSUME NEW x \in Made', NEW y \in Made'
      PROVE  /\ x.event = y.event => x.kind = y.kind
             /\ x.kind = "tail" /\ x.event[1] = y.event[1] => AtOrBefore(y.event, x.event)
  <2>1. PICK v \in Made : x.event = v.event /\ x.kind = v.kind
    OBVIOUS
  <2>2. PICK w \in Made : y.event = w.event /\ y.kind = w.kind
    OBVIOUS
  <2> QED BY <2>1, <2>2 DEF MadeFits
<1>4. \A x \in Timed' : x.millis <= millis /\ AtOrBefore(x.event, Now)
  BY DEF MadeFits
<1>5. ~crowded => \A x, y \in Timed' : /\ Before(x.event, y.event) => x.millis < y.millis
                                       /\ x.event = y.event => x.millis = y.millis
  BY DEF MadeFits
<1> QED BY <1>1, <1>2, <1>3, <1>4, <1>5 DEF MadeFits

LEMMA FewerMade ==
  ASSUME Shape, MadeFits, UNCHANGED <<contact, events, penDown, millis, crowded>>,
         InChain' \subseteq InChain, Points' \subseteq Points \cup InChain,
         \A x \in Points' : x.kind # "other"
  PROVE  MadeFits'
<1>1. Made' \subseteq Made /\ Timed' \subseteq Timed
  BY DEF Made, Timed
<1>2. \A x \in Made : x.millis <= millis + 1
  BY DEF MadeFits
<1> QED BY <1>1, <1>2, MadeStays

LEMMA PointsAreDrawingNext == \A x \in Points' : x.kind # "other"
<1> SUFFICES ASSUME NEW x \in Points' PROVE x.kind # "other"
  OBVIOUS
<1>1. PICK id \in DOMAIN stroke' : \E k \in DOMAIN stroke'[id].points :
        x = LinkOf(stroke'[id].points[k])
  BY DEF Points
<1> QED BY <1>1, KindOf

LEMMA InMade ==
  /\ \A x \in Points \cup InChain : x.kind # "other" => x \in Made
  /\ \A x \in Made : x \in Points \cup InChain /\ x.kind # "other"
BY DEF Made

LEMMA LinkSent ==
  ASSUME Shape, NEW kind, Sends(kind), UNCHANGED rcv
  PROVE  \E x \in Links : /\ x.event = Now' /\ x.millis = millis' /\ x.kind = kind
                          /\ InChain' \subseteq InChain \cup {x}
<1>1. PICK d \in Samples : /\ Flow' = Append(Flow, d) /\ d.event = Now'
                           /\ d.millis = millis' /\ LinkIn(d).kind = kind
  BY DEF Sends
<1>2. /\ LinkIn(d) \in Links /\ LinkIn(d).event = Now' /\ LinkIn(d).millis = millis'
  BY <1>1, LinksOf, KindOf
<1>3. ASSUME NEW k \in DOMAIN Flow' PROVE Flow'[k] = d \/ \E j \in DOMAIN Flow : Flow'[k] = Flow[j]
  BY <1>1, FlowIs, Appends
<1>4. InChain' \subseteq InChain \cup {LinkIn(d)}
  <2> SUFFICES ASSUME NEW x \in InChain', x # LinkIn(d) PROVE x \in InChain
    OBVIOUS
  <2>1. CASE \E k \in DOMAIN Flow' : x = LinkIn(Flow'[k])
    BY <1>3, <2>1 DEF InChain
  <2>2. CASE rcv # NoRcv /\ x = LinkIn(rcv.msg)
    BY <2>2 DEF InChain
  <2> QED BY <2>1, <2>2 DEF InChain
<1> QED BY <1>1, <1>2, <1>4

LEMMA PenKeepsMade ==
  ASSUME Shape, MadeFits, Pen PROVE MadeFits'
<1>1. PICK action \in {"PRESS", "DRAG", "RELEASE"} : PenMoves(action) /\ TabletDoes(action)
  BY PenDoes
<1>2. Now \in Times /\ Now' \in Events /\ Before(Now, Now')
  BY PenAdds
<1>3. Points' = Points /\ rcv' = rcv
  BY <1>1 DEF PenMoves, drawing, Points
<1>4. /\ contact \in Nat /\ events \in Nat /\ millis \in Nat /\ Now[1] = contact
      /\ Now[2] = events /\ Now'[1] = contact' /\ Now'[2] = events'
      /\ millis' \in Nat /\ millis <= millis' /\ millis' <= millis + 1
      /\ contact' \in Nat /\ contact <= contact'
  BY <1>1, ClockIs DEF PenMoves, Now
<1>9. /\ action = "PRESS" => /\ ~penDown /\ penDown' /\ contact' = contact + 1
                            /\ events' = 1
      /\ action # "PRESS" => /\ penDown /\ contact' = contact /\ events' = events + 1
                            /\ events >= 1
      /\ action = "RELEASE" => ~penDown'
  BY <1>1 DEF PenMoves
<1>5. CASE InChain' \subseteq InChain
  <2>1. Made' \subseteq Made /\ Timed' \subseteq Timed
    BY <1>3, <1>5 DEF Made, Timed
  <2>2. ASSUME NEW x \in Made' \cup Timed'
        PROVE  AtOrBefore(x.event, Now') /\ x \in Links /\ x.event \in Events
    <3>1. AtOrBefore(x.event, Now) /\ x \in Links /\ x.event \in Events
      BY <2>1, MadeIs DEF MadeFits, Made, Timed
    <3>2. x.event \in Times /\ Now' \in Times
      BY <1>2, <3>1, EventsAreTimes
    <3> QED BY <1>2, <3>1, <3>2, Precedence
  <2>3. ASSUME NEW x \in Made' PROVE x.kind = "tail" => x.event[1] < contact' \/ ~penDown'
    <3>1. /\ x \in Links
          /\ x.kind = "tail" => x.event[1] < contact \/ ~penDown
          /\ AtOrBefore(x.event, Now)
      BY <2>1, MadeIs DEF MadeFits, Made
    <3>2. x.event \in Times
      BY <3>1 DEF Links
    <3>3. x.event[1] \in Nat /\ x.event[1] <= contact
      BY <1>4, <3>1, <3>2 DEF AtOrBefore, Before, Times
    <3> QED BY <1>4, <1>9, <3>1, <3>3
  <2>4. \A x \in Made' : x.millis <= millis' + 1
    BY <1>4, <2>1, MadeIs DEF MadeFits, Made, Links
  <2>5. \A x \in Timed' : x.millis <= millis'
    BY <1>4, <2>1, MadeIs DEF MadeFits, Timed, Links
  <2>6. crowded' = FALSE => ~crowded
    BY <1>1, ClockIs DEF PenMoves
  <2> QED BY <2>1, <2>2, <2>3, <2>4, <2>5, <2>6 DEF MadeFits
<1>6. ASSUME NEW kind, Sends(kind), kind \in {PenKind(action), "other"}
      PROVE  MadeFits'
  <2>1. PICK n \in Links : /\ n.event = Now' /\ n.millis = millis' /\ n.kind = kind
                           /\ InChain' \subseteq InChain \cup {n}
    BY <1>3, <1>6, LinkSent
  <2>2. /\ \A x \in Made' : x \in Made \/ (x = n /\ kind # "other")
        /\ \A x \in Timed' : x \in Timed \/ x = n
    <3>1. ASSUME NEW x \in Made' PROVE x \in Made \/ (x = n /\ kind # "other")
      <4>1. x \in Points' \cup InChain' /\ x.kind # "other"
        BY <3>1 DEF Made
      <4>2. x \in Points \cup InChain \/ x = n
        BY <1>3, <2>1, <4>1
      <4>3. CASE x = n
        BY <2>1, <4>1, <4>3
      <4>4. CASE x \in Points \cup InChain
        BY <4>1, <4>4, InMade
      <4> QED BY <4>2, <4>3, <4>4
    <3>2. ASSUME NEW x \in Timed' PROVE x \in Timed \/ x = n
      BY <1>3, <2>1, <3>2 DEF Timed
    <3> QED BY <3>1, <3>2
  <2>3. ASSUME NEW x \in Made \cup Timed
        PROVE  /\ x \in Links /\ x.event \in Events /\ Before(x.event, Now')
               /\ x.event # Now' /\ x.event[1] \in Nat /\ x.event[1] <= contact
               /\ x.event[1] >= 1 /\ AtOrBefore(x.event, Now')
    <3>1. x \in Links /\ x.event \in Events /\ AtOrBefore(x.event, Now)
      BY MadeIs DEF Made, Timed, MadeFits
    <3>2. x.event \in Times /\ Now' \in Times
      BY <1>2, <3>1, EventsAreTimes
    <3>3. Before(x.event, Now') /\ x.event # Now' /\ AtOrBefore(x.event, Now')
      BY <1>2, <3>1, <3>2, Precedence
    <3>4. x.event[1] \in Nat /\ x.event[1] <= contact /\ x.event[1] >= 1
      BY <1>4, <3>1, Positive DEF AtOrBefore, Before, Events
    <3> QED BY <3>1, <3>3, <3>4
  <2>4. /\ kind = "head" => action = "PRESS" /\ events' = 1
        /\ kind \notin {"head", "other"} => action # "PRESS" /\ events' # 1
        /\ kind = "tail" => ~penDown'
    BY <1>4, <1>6, <1>9 DEF PenKind
  <2>5. ASSUME NEW x \in Made'
        PROVE  /\ AtOrBefore(x.event, Now')
               /\ x.kind = "head" <=> x.event[2] = 1
               /\ x.kind = "tail" => x.event[1] < contact' \/ ~penDown'
               /\ x.millis <= millis' + 1
    <3>1. CASE x = n
      BY <1>4, <2>1, <2>2, <2>3, <2>4, <3>1 DEF AtOrBefore
    <3>2. CASE x \in Made
      <4>1. /\ x.kind = "head" <=> x.event[2] = 1
            /\ x.kind = "tail" => x.event[1] < contact \/ ~penDown
            /\ x.millis <= millis + 1
        BY <3>2 DEF MadeFits
      <4>2. x.kind = "tail" => x.event[1] < contact' \/ ~penDown'
        BY <1>4, <1>9, <2>3, <3>2, <4>1
      <4>3. x.millis \in Nat
        BY <2>3, <3>2 DEF Links
      <4> QED BY <1>4, <2>3, <3>2, <4>1, <4>2, <4>3
    <3> QED BY <2>2, <3>1, <3>2
  <2>6. ASSUME NEW x \in Timed' PROVE AtOrBefore(x.event, Now') /\ x.millis <= millis'
    <3>1. CASE x = n
      BY <1>4, <2>1, <3>1 DEF AtOrBefore
    <3>2. CASE x \in Timed
      BY <1>4, <2>3, <3>2 DEF MadeFits, Links
    <3> QED BY <2>2, <3>1, <3>2
  <2>7. ASSUME NEW x \in Made', NEW y \in Made'
        PROVE  /\ x.event = y.event => x.kind = y.kind
               /\ x.kind = "tail" /\ x.event[1] = y.event[1] => AtOrBefore(y.event, x.event)
    <3>1. CASE x \in Made /\ y \in Made
      BY <3>1 DEF MadeFits
    <3>2. CASE x = n /\ y = n
      BY <3>2 DEF AtOrBefore
    <3>3. CASE x = n /\ y \in Made
      BY <2>1, <2>3, <3>3 DEF AtOrBefore
    <3>4. CASE x \in Made /\ y = n
      <4>1. x.event # y.event /\ y.event[1] = contact'
        BY <1>4, <2>1, <2>3, <3>4
      <4>2. x.kind = "tail" => x.event[1] # contact'
        <5>1. x.kind = "tail" => x.event[1] < contact \/ ~penDown
          BY <3>4 DEF MadeFits
        <5> QED BY <1>4, <1>9, <2>3, <3>4, <5>1
      <4> QED BY <4>1, <4>2
    <3> QED BY <2>2, <3>1, <3>2, <3>3, <3>4
  <2>8. ASSUME ~crowded', NEW x \in Timed', NEW y \in Timed'
        PROVE  /\ Before(x.event, y.event) => x.millis < y.millis
               /\ x.event = y.event => x.millis = y.millis
    <3>1. ~crowded /\ ~(contact + events > 0 /\ millis' = millis)
      BY <1>1, <2>8 DEF PenMoves
    <3>2. ASSUME NEW z \in Timed PROVE z.millis < n.millis /\ ~Before(n.event, z.event)
      <4>1. z.millis <= millis /\ z.millis \in Nat
        BY <2>3 DEF MadeFits, Links
      <4>2. contact + events > 0
        BY <1>4, <2>3
      <4>3. millis' = millis + 1
        BY <1>1, <1>4, <3>1, <4>2 DEF PenMoves
      <4>4. ~Before(n.event, z.event)
        BY <1>2, <2>1, <2>3, EventsAreTimes, Precedence
      <4> QED BY <1>4, <2>1, <4>1, <4>3, <4>4
    <3>3. CASE x \in Timed /\ y \in Timed
      BY <3>1, <3>3 DEF MadeFits
    <3>4. CASE x = n /\ y = n
      <4>1. ~Before(n.event, n.event)
        BY <1>2, <2>1, EventsAreTimes, Precedence
      <4> QED BY <3>4, <4>1
    <3>5. CASE x = n /\ y \in Timed
      BY <2>1, <2>3, <3>2, <3>5
    <3>6. CASE x \in Timed /\ y = n
      BY <2>1, <2>3, <3>2, <3>6
    <3> QED BY <2>2, <3>3, <3>4, <3>5, <3>6
  <2> QED BY <2>5, <2>6, <2>7, <2>8 DEF MadeFits
<1>7. (\E kind \in {PenKind(action), "other"} : Sends(kind)) \/ Flow' = Flow
  BY <1>1 DEF TabletDoes
<1>8. Flow' = Flow => InChain' \subseteq InChain
  BY <1>3 DEF InChain
<1> QED BY <1>5, <1>6, <1>7, <1>8

LEMMA ReceiveKeepsMade ==
  ASSUME Shape, MadeFits, Receive PROVE MadeFits'
<1>1. /\ Flow # << >> /\ Head(net) = Flow[1] /\ Flow[1] \in Samples
      /\ 1 \in DOMAIN Flow
      /\ \A i \in DOMAIN Flow' : i + 1 \in DOMAIN Flow /\ Flow'[i] = Flow[i + 1]
  BY ReceiverTakes
<1>2. /\ UNCHANGED <<contact, events, penDown, millis, crowded>> /\ rcv = NoRcv
      /\ ReceiveCalibration(Flow[1]) \/ AddStroke(Flow[1]) \/ AddPointLoad(Flow[1])
  BY <1>1 DEF Receive, pen, history
<1>3. rcv' = NoRcv \/ rcv'.msg = Flow[1]
  BY <1>2 DEF ReceiveCalibration, AddStroke, AddPointLoad
<1>4. InChain' \subseteq InChain
  BY <1>1, <1>3 DEF InChain
<1>5. Points' \subseteq Points \cup InChain
  <2>1. CASE stroke' = stroke
    BY <2>1 DEF Points
  <2>2. CASE AddStroke(Flow[1])
    <3> SUFFICES ASSUME NEW x \in Points' PROVE x \in Points \cup InChain
      OBVIOUS
    <3> DEFINE p == [strokeIdx |-> Flow[1].idx, event |-> Flow[1].event,
                     millis |-> Flow[1].millis, isHead |-> TRUE, isTail |-> FALSE]
               w == [points |-> <<p>>, isCompleted |-> FALSE]
    <3>1. stroke' = Append(stroke, w) /\ Flow[1].idx # -1 /\ Flow[1].isHead
      BY <2>2 DEF AddStroke
    <3>2. PICK id \in DOMAIN stroke' : \E k \in DOMAIN stroke'[id].points :
            x = LinkOf(stroke'[id].points[k])
      BY DEF Points
    <3>3. LinkOf(p) = LinkIn(Flow[1])
      BY <3>1 DEF LinkOf, LinkIn, Kind
    <3>4. /\ stroke \in Seq(Drawn) /\ DOMAIN stroke' = 1 .. Len(stroke) + 1
          /\ DOMAIN stroke = 1 .. Len(stroke) /\ Len(stroke) \in Nat
          /\ \A i \in DOMAIN stroke : stroke'[i] = stroke[i]
      BY <1>1, <2>2, AddStrokeIs, ListIs
    <3>5. CASE id \in DOMAIN stroke
      BY <3>2, <3>4, <3>5 DEF Points
    <3>6. CASE id = Len(stroke) + 1
      <4>1. stroke'[id] = w
        BY <3>1, <3>4, <3>6
      <4>2. x = LinkOf(p)
        <5>1. w.points = <<p>>
          OBVIOUS
        <5>2. DOMAIN w.points = {1} /\ w.points[1] = p
          BY <5>1
        <5> HIDE DEF p, w
        <5> QED BY <3>2, <4>1, <5>2
      <4> QED BY <1>1, <3>3, <4>2 DEF InChain
    <3> QED BY <3>4, <3>5, <3>6
  <2> QED BY <1>2, <2>1, <2>2 DEF ReceiveCalibration, AddPointLoad, drawing
<1> QED BY <1>2, <1>4, <1>5, FewerMade, PointsAreDrawingNext

LEMMA StoreKeepsMade ==
  ASSUME Shape, InPlace, MadeFits, AddPointStore PROVE MadeFits'
<1> DEFINE m == rcv.msg
           p == StoredPoint(m, rcv.last)
<1>1. /\ UNCHANGED <<contact, events, penDown, millis, crowded>> /\ Flow' = Flow
      /\ rcv # NoRcv /\ rcv' = NoRcv
  BY FlowStays DEF AddPointStore, pen, history, tablet
<1>2. m \in Samples /\ m.idx # -1
  BY StoreIs
<1>3. LinkIn(m) \in Made /\ LinkIn(m) \in Timed
  BY <1>1, <1>2, KindOf DEF Made, Timed, InChain
<1>5. InChain' \subseteq InChain
  BY <1>1 DEF InChain
<1>6. ASSUME NEW x \in Points' PROVE x \in Points \/ x = LinkOf(p)
  <2>1. PICK id \in DOMAIN stroke' : \E k \in DOMAIN stroke'[id].points :
          x = LinkOf(stroke'[id].points[k])
    BY <1>6 DEF Points
  <2>2. /\ DOMAIN stroke' = DOMAIN stroke /\ rcv.st \in DOMAIN stroke
        /\ \A i \in DOMAIN stroke : i # rcv.st => stroke'[i] = stroke[i]
    BY StoreIs
  <2>3. CASE id # rcv.st
    BY <2>1, <2>2, <2>3 DEF Points
  <2>4. CASE id = rcv.st
    <3>1. \A k \in DOMAIN stroke'[rcv.st].points :
            \/ stroke'[rcv.st].points[k] = p
            \/ \E l \in DOMAIN stroke[rcv.st].points :
                 stroke'[rcv.st].points[k] = stroke[rcv.st].points[l]
      <4>1. CASE stroke'[rcv.st].points = stroke[rcv.st].points
        BY <4>1
      <4>2. CASE stroke'[rcv.st].points # stroke[rcv.st].points
        <5>1. PICK n \in Nat \ {0} :
                 /\ DOMAIN stroke'[rcv.st].points = 1 .. n
                 /\ stroke'[rcv.st].points[n] = StoredPoint(rcv.msg, rcv.last)
                 /\ \A k \in 1 .. n - 1 :
                      /\ k \in DOMAIN stroke[rcv.st].points
                      /\ stroke'[rcv.st].points[k] = stroke[rcv.st].points[k]
          BY <4>2, StoreIs
        <5> QED BY <5>1
      <4> QED BY <4>1, <4>2
    <3> QED BY <2>1, <2>2, <2>4, <3>1 DEF Points
  <2> QED BY <2>3, <2>4
<1>7. /\ LinkOf(p).event = m.event
      /\ LinkOf(p).kind = LinkIn(m).kind
      /\ LinkOf(p).millis \in {m.millis, m.millis + 1}
      /\ LinkOf(p).kind # "tail" => LinkOf(p) = LinkIn(m)
      /\ LinkOf(p).kind # "other"
  <2>1. ~m.isHead
    BY <1>1 DEF InPlace
  <2>2. rcv.last \in Nat /\ m.millis \in Nat
    BY StoredIs
  <2>3. /\ LinkOf(p).event = m.event /\ LinkOf(p).kind = LinkIn(m).kind
        /\ p.isTail = m.isTail
        /\ ~(m.isTail /\ m.millis = rcv.last) => LinkOf(p) = LinkIn(m)
        /\ m.isTail /\ m.millis = rcv.last => LinkOf(p).millis = m.millis + 1
    BY <1>2, <2>1, StoredLink
  <2>4. LinkOf(p).kind # "other" /\ LinkOf(p).kind # "tail" => ~m.isTail
    <3>1. LinkOf(p).kind = Kind(p.isHead, p.isTail) /\ ~p.isHead
      BY <1>2, <2>1, StoredLink, KindOf
    <3> QED BY <2>3, <3>1, KindOf
  <2>5. LinkOf(p).kind # "other" /\ LinkIn(m).millis = m.millis
    BY KindOf
  <2> QED BY <2>3, <2>4, <2>5
<1>8. ASSUME NEW x \in Made'
      PROVE  \E y \in Made : /\ x.event = y.event /\ x.kind = y.kind
                             /\ x.millis <= millis + 1
  <2>1. CASE x \in Made
    BY <2>1 DEF MadeFits
  <2>2. CASE x = LinkOf(p)
    <3>1. LinkIn(m).event = m.event /\ m.millis \in Nat /\ millis \in Nat
          /\ LinkIn(m).millis = m.millis
      BY <1>2, KindOf, ClockIs, Positive DEF Samples, Data, Millis
    <3>2. m.millis <= millis
      BY <1>3, <3>1 DEF MadeFits
    <3>3. x.millis <= millis + 1
      BY <1>7, <2>2, <3>1, <3>2
    <3> QED BY <1>3, <1>7, <2>2, <3>1, <3>3
  <2> QED BY <1>5, <1>6, <2>1, <2>2 DEF Made
<1>9. Timed' \subseteq Timed
  BY <1>3, <1>5, <1>6, <1>7 DEF Timed
<1> QED BY <1>1, <1>8, <1>9, MadeStays

LEMMA TakingKeepsMade ==
  ASSUME Shape, MadeFits, interp # "idle", NEW q \in Seq(Point),
         \A k \in DOMAIN q : \E l \in DOMAIN stroke[current].points :
           q[k] = stroke[current].points[l],
         stroke' = [stroke EXCEPT ![current].points = q],
         UNCHANGED <<pen, crowded, tabletInputData, net, rcv>>
  PROVE  MadeFits'
<1>1. /\ DOMAIN stroke' = DOMAIN stroke /\ current \in DOMAIN stroke
      /\ stroke'[current].points = q
      /\ \A id \in DOMAIN stroke : id # current => stroke'[id] = stroke[id]
  BY TakesOff
<1>2. Points' \subseteq Points
  <2> SUFFICES ASSUME NEW x \in Points' PROVE x \in Points
    OBVIOUS
  <2>1. PICK id \in DOMAIN stroke' : \E k \in DOMAIN stroke'[id].points :
          x = LinkOf(stroke'[id].points[k])
    BY DEF Points
  <2>2. CASE id = current
    BY <1>1, <2>1, <2>2 DEF Points
  <2>3. CASE id # current
    BY <1>1, <2>1, <2>3 DEF Points
  <2> QED BY <2>2, <2>3
<1>3. InChain' \subseteq InChain
  BY FlowStays DEF InChain
<1> QED BY <1>2, <1>3, FewerMade, PointsAreDrawingNext DEF pen

LEMMA MadeUnchanged ==
  ASSUME Shape, MadeFits, Flow' = Flow,
         UNCHANGED <<contact, events, penDown, millis, crowded, stroke, rcv>>
  PROVE  MadeFits'
<1>1. InChain' \subseteq InChain /\ Points' \subseteq Points
  BY DEF InChain, Points
<1> QED BY <1>1, FewerMade, PointsAreDrawingNext

LEMMA MadeStep ==
  Shape /\ Shape' /\ InPlace /\ MadeFits /\ [Next]_vars /\ ~mixed' => MadeFits'
<1> SUFFICES ASSUME Shape, Shape', InPlace, MadeFits, [Next]_vars, ~mixed'
             PROVE  MadeFits'
  OBVIOUS
<1> USE DEF pen, drawing, interpreter, history
<1>1. CASE Pen
  BY <1>1, PenKeepsMade
<1>2. CASE Keyboard
  BY <1>2, MadeUnchanged, FlowStays DEF Keyboard, ToggleMode, keyPressed, ReserveTyped, tablet
<1>3. CASE OscStreaming
  BY <1>3, MadeUnchanged, StreamingKeepsAll DEF OscStreaming
<1>3a. CASE OscRace
  <2>1. PICK i \in 1 .. Len(Flow) : LosesAt(i) \/ DoublesAt(i)
    BY <1>3a, OscRaceInFlow
  <2>2. /\ Len(Flow) \in Nat /\ DOMAIN Flow = 1 .. Len(Flow)
        /\ DOMAIN Flow' = 1 .. Len(Flow')
    BY FlowPartsIs, FlowPartsIsNext DEF FlowParts
  <2>3. ASSUME NEW k \in DOMAIN Flow' PROVE \E j \in DOMAIN Flow : Flow'[k] = Flow[j]
    <3>1. CASE LosesAt(i)
      <4>1. k \in 1 .. Len(Flow) - 1 /\ k \in DOMAIN Flow /\ k + 1 \in DOMAIN Flow
        BY <2>2, <3>1 DEF LosesAt
      <4> QED BY <3>1, <4>1 DEF LosesAt
    <3>2. CASE DoublesAt(i)
      <4>1. /\ k \in 1 .. Len(Flow) + 1 /\ (k <= i => k \in DOMAIN Flow)
            /\ ~(k <= i) => k - 1 \in DOMAIN Flow
        BY <2>2, <3>2 DEF DoublesAt
      <4> QED BY <3>2, <4>1 DEF DoublesAt
    <3> QED BY <2>1, <3>1, <3>2
  <2>4. InChain' \subseteq InChain
    BY <1>3a, <2>3 DEF OscRace, InChain
  <2>5. Points' \subseteq Points /\ UNCHANGED <<contact, events, penDown, millis, crowded>>
    BY <1>3a DEF OscRace, Points
  <2> QED BY <2>4, <2>5, FewerMade, PointsAreDrawingNext
<1>3b. CASE ReadSizes
  BY <1>3b, MadeUnchanged, FlowStays DEF ReadSizes, tablet
<1>4. CASE NetFault
  <2>1. PICK i \in DOMAIN net :
          \/ net' = RemoveAt(net, i)
          \/ net' = InsertAt(net, i, net[i])
          \/ i < Len(net) /\ net' = [net EXCEPT ![i] = net[i + 1], ![i + 1] = net[i]]
    BY <1>4 DEF NetFault
  <2>2. net' \in Seq(Samples) /\ \A k \in DOMAIN net' : \E j \in DOMAIN net : net'[k] = net[j]
    <3>1. net \in Seq(Samples)
      BY DEF Shape, QueueShape
    <3> QED BY <2>1, <3>1, NothingInvented
  <2>3. tabletInputData \in Seq(Samples) /\ tabletInputData' = tabletInputData /\ rcv' = rcv
    BY <1>4 DEF NetFault, tablet, Shape, QueueShape
  <2>4. ASSUME NEW k \in DOMAIN Flow' PROVE \E j \in DOMAIN Flow : Flow'[k] = Flow[j]
    <3>1. /\ DOMAIN Flow' = 1 .. Len(net') + Len(tabletInputData)
          /\ \A l \in DOMAIN Flow' :
               Flow'[l] = IF l <= Len(net') THEN net'[l] ELSE tabletInputData[l - Len(net')]
      BY <2>2, <2>3, Concatenation DEF Flow
    <3>2. DOMAIN net' = 1 .. Len(net') /\ DOMAIN net = 1 .. Len(net) /\ Len(net') \in Nat
      BY <2>2 DEF Shape, QueueShape
    <3>3. CASE k <= Len(net')
      <4>1. PICK j \in DOMAIN net : net'[k] = net[j]
        BY <2>2, <3>1, <3>2, <3>3
      <4> QED BY <3>1, <3>2, <3>3, <4>1, FlowIs
    <3>4. CASE k > Len(net')
      <4> DEFINE j == k - Len(net') + Len(net)
      <4>1. j \in DOMAIN Flow /\ j > Len(net) /\ j - Len(net) = k - Len(net')
        BY <3>1, <3>2, <3>4, FlowIs
      <4> HIDE DEF j
      <4>2. Flow[j] = tabletInputData[k - Len(net')]
        BY <4>1, FlowIs
      <4> QED BY <3>1, <3>2, <3>4, <4>1, <4>2
    <3> QED BY <3>1, <3>2, <3>3, <3>4
  <2>5. InChain' \subseteq InChain
    BY <2>3, <2>4 DEF InChain
  <2>6. Points' \subseteq Points /\ UNCHANGED <<contact, events, penDown, millis, crowded>>
    BY <1>4 DEF NetFault, Points
  <2> QED BY <2>5, <2>6, FewerMade, PointsAreDrawingNext
<1>5. CASE Receive
  BY <1>5, ReceiveKeepsMade
<1>6. CASE AddPointStore
  BY <1>6, StoreKeepsMade
<1>7. CASE Interpret \/ InterpretPair \/ Reserve \/ RemoveStroke
  BY <1>7, MadeUnchanged, FlowStays
     DEF Interpret, InterpretPair, Reserve, RemoveStroke, tablet
<1>8. CASE InterpretTail
  <2>1. interp # "idle" /\ interp = "pair"
    BY <1>8 DEF InterpretTail
  <2>2. /\ stroke[current].points \in Seq(Point) /\ Len(stroke[current].points) >= 2
        /\ stroke[current].points # << >>
    BY <2>1, InHand DEF Shape, DrawingShape
  <2>3. /\ Tail(stroke[current].points) \in Seq(Point)
        /\ \A k \in DOMAIN Tail(stroke[current].points) :
             \E l \in DOMAIN stroke[current].points :
               Tail(stroke[current].points)[k] = stroke[current].points[l]
    BY <2>2, Tails
  <2> QED BY <1>8, <2>1, <2>3, TakingKeepsMade DEF InterpretTail, tablet
<1>9. CASE InterpretRest
  <2>1. interp # "idle" /\ << >> \in Seq(Point) /\ DOMAIN << >> = {}
    BY <1>9 DEF InterpretRest
  <2>2. \A q : q = << >> /\ q \in Seq(Point) =>
                \A k \in DOMAIN q : \E l \in DOMAIN stroke[current].points :
                  q[k] = stroke[current].points[l]
    OBVIOUS
  <2> QED BY <1>9, <2>1, <2>2, TakingKeepsMade DEF InterpretRest, tablet
<1>10. CASE UNCHANGED vars
  BY <1>10, MadeUnchanged, FlowStays DEF vars, tablet
<1> QED BY <1>1, <1>2, <1>3, <1>3a, <1>3b, <1>4, <1>5, <1>6, <1>7, <1>8, <1>9, <1>10
        DEF Next, Oscp5, Interpreting

-----------------------------------------------------------------------------
(* The places of points and strokes. *)
LEMMA TimesCompare ==
  ASSUME NEW a \in Times, NEW b \in Times PROVE Before(a, b) \/ Before(b, a) \/ a = b
BY DEF Times, Before

LEMMA PlacesStay ==
  ASSUME InPlace, UNCHANGED <<stroke, strokes, rcv, interp, current>>, crowded => crowded'
  PROVE  InPlace'
BY DEF InPlace

LEMMA StrokeIs ==
  ASSUME Shape, NEW id \in DOMAIN stroke
  PROVE  /\ stroke[id] \in Drawn /\ stroke[id].points \in Seq(Point)
         /\ stroke[id].isCompleted \in BOOLEAN
         /\ Len(stroke[id].points) \in Nat
         /\ DOMAIN stroke[id].points = 1 .. Len(stroke[id].points)
         /\ \A k \in DOMAIN stroke[id].points : stroke[id].points[k] \in Point
<1>1. stroke[id] \in Drawn /\ stroke[id].points \in Seq(Point)
  BY ListIs
<1>2. stroke[id].isCompleted \in BOOLEAN
  BY <1>1 DEF Drawn
<1>3. \A k \in DOMAIN stroke[id].points : stroke[id].points[k] \in Point
  BY <1>1, Element
<1> QED BY <1>1, <1>2, <1>3

(* The last stroke of the list is the newest. *)
LEMMA LastPlace ==
  ASSUME Shape, InPlace, strokes # << >>
  PROVE  /\ Last(strokes) = Len(stroke) /\ Len(stroke) \in DOMAIN stroke
         /\ Len(stroke) \in Nat /\ Len(stroke) >= 1
         /\ Len(strokes) \in Nat /\ Len(strokes) >= 1 /\ Len(strokes) \in DOMAIN strokes
         /\ strokes[Len(strokes)] = Len(stroke)
<1>1. /\ strokes \in Seq(DOMAIN stroke) /\ Len(strokes) \in Nat /\ Len(stroke) \in Nat
      /\ DOMAIN stroke = 1 .. Len(stroke) /\ DOMAIN strokes = 1 .. Len(strokes)
  BY ListIs
<1>2. /\ Last(strokes) = strokes[Len(strokes)] /\ Len(strokes) \in DOMAIN strokes
      /\ Last(strokes) \in DOMAIN stroke
  BY <1>1, LastIn
<1>3. strokes[Len(strokes)] = Len(stroke)
  BY <1>1, <1>2 DEF InPlace
<1> QED BY <1>1, <1>2, <1>3

PlaceOf(id) ==
  /\ ~stroke[id].isCompleted =>
       /\ stroke[id].points # << >>
       /\ \A k \in DOMAIN stroke[id].points : ~stroke[id].points[k].isTail
       /\ ~crowded => stroke[id].points[1].isHead
  /\ \A k \in DOMAIN stroke[id].points :
       stroke[id].points[k].isHead => k = 1 /\ ~stroke[id].points[k].isTail

LEMMA ReceiveKeepsPlaces ==
  ASSUME Shape, InPlace, Receive PROVE InPlace'
<1>1. /\ Flow # << >> /\ Head(net) = Flow[1] /\ Flow[1] \in Samples
  BY ReceiverTakes
<1>2. /\ UNCHANGED <<interp, current, crowded>> /\ rcv = NoRcv
      /\ ReceiveCalibration(Flow[1]) \/ AddStroke(Flow[1]) \/ AddPointLoad(Flow[1])
  BY <1>1 DEF Receive, history, interpreter
<1>3. CASE rcv' = rcv /\ UNCHANGED drawing
  BY <1>2, <1>3, PlacesStay DEF drawing
<1>4. CASE AddStroke(Flow[1])
  <2> DEFINE p == [strokeIdx |-> Flow[1].idx, event |-> Flow[1].event,
                   millis |-> Flow[1].millis, isHead |-> TRUE, isTail |-> FALSE]
             w == [points |-> <<p>>, isCompleted |-> FALSE]
  <2>1. stroke' = Append(stroke, w) /\ rcv' = NoRcv
    BY <1>2, <1>4 DEF AddStroke
  <2>2. /\ DOMAIN stroke' = 1 .. Len(stroke) + 1 /\ DOMAIN stroke = 1 .. Len(stroke)
        /\ Len(stroke) \in Nat
        /\ \A id \in DOMAIN stroke : stroke'[id] = stroke[id]
        /\ DOMAIN strokes' = 1 .. Len(strokes) + 1
        /\ DOMAIN strokes = 1 .. Len(strokes) /\ Len(strokes) \in Nat
        /\ \A i \in DOMAIN strokes : /\ strokes'[i] = strokes[i]
                                      /\ strokes[i] \in DOMAIN stroke
        /\ strokes'[Len(strokes) + 1] = Len(stroke) + 1
    BY <1>1, <1>4, AddStrokeIs
  <2>3. stroke'[Len(stroke) + 1] = w /\ Len(stroke') = Len(stroke) + 1
    <3> HIDE DEF w
    <3>1. stroke \in Seq(Drawn)
      BY ListIs
    <3> QED BY <2>1, <3>1
  <2>4. Len(strokes') = Len(strokes) + 1
    BY <1>4, ListIs DEF AddStroke
  <2>5. /\ w.points # << >> /\ w.isCompleted = FALSE /\ DOMAIN w.points = {1}
        /\ w.points[1].isHead /\ ~w.points[1].isTail
    <3>1. w.points = <<p>>
      OBVIOUS
    <3>2. p.isHead /\ ~p.isTail
      OBVIOUS
    <3> QED BY <3>1, <3>2
  <2> HIDE DEF w
  <2>6. \A i \in DOMAIN strokes' : strokes'[i] = Len(stroke') - Len(strokes') + i
    <3> SUFFICES ASSUME NEW i \in DOMAIN strokes'
                 PROVE  strokes'[i] = Len(stroke') - Len(strokes') + i
      OBVIOUS
    <3>1. CASE i \in DOMAIN strokes
      <4>1. strokes'[i] = Len(stroke) - Len(strokes) + i
        BY <2>2, <3>1 DEF InPlace
      <4> QED BY <2>2, <2>3, <2>4, <4>1
    <3>2. CASE i = Len(strokes) + 1
      BY <2>2, <2>3, <2>4, <3>2
    <3> QED BY <2>2, <3>1, <3>2
  <2>7. interp # "idle" => stroke'[current].isCompleted
    BY <2>2, InHand DEF InPlace
  <2>8. ASSUME NEW id \in DOMAIN stroke' PROVE PlaceOf(id)'
    <3>1. CASE id \in DOMAIN stroke
      BY <1>2, <2>2, <3>1 DEF PlaceOf, InPlace
    <3>2. CASE id = Len(stroke) + 1
      BY <1>2, <2>3, <2>5, <3>2 DEF PlaceOf
    <3> QED BY <2>2, <3>1, <3>2
  <2>9. Len(strokes') <= Len(stroke')
    BY <2>2, <2>3, <2>4 DEF InPlace
  <2> QED BY <1>2, <2>1, <2>6, <2>7, <2>8, <2>9 DEF InPlace, PlaceOf
<1>5. CASE AddPointLoad(Flow[1]) /\ rcv' # rcv
  <2>1. /\ strokes # << >> /\ UNCHANGED drawing /\ ~Flow[1].isHead
        /\ rcv' = [st |-> Last(strokes), last |-> Last(stroke[Last(strokes)].points).millis,
                   msg |-> Flow[1]]
    BY <1>5 DEF AddPointLoad
  <2>2. Last(strokes) = Len(stroke)
    BY <2>1, LastPlace
  <2>3. /\ rcv'.st = Len(stroke) /\ ~rcv'.msg.isHead
        /\ rcv'.last = Last(stroke[Len(stroke)].points).millis
    BY <2>1, <2>2
  <2> QED BY <1>2, <2>1, <2>3 DEF InPlace, drawing
<1> QED BY <1>2, <1>3, <1>4, <1>5 DEF ReceiveCalibration, AddPointLoad

LEMMA StoreKeepsPlaces ==
  ASSUME Shape, InPlace, MadeFits, AddPointStore PROVE InPlace'
<1> DEFINE s == stroke[rcv.st]
           w == stroke'[rcv.st]
           m == rcv.msg
           p == StoredPoint(m, rcv.last)
<1>1. /\ rcv # NoRcv /\ m \in Samples /\ m.idx # -1 /\ rcv.st \in DOMAIN stroke
      /\ m.millis \in Nat /\ rcv.last \in Nat /\ m.isTail \in BOOLEAN
      /\ s.isCompleted \in BOOLEAN
      /\ s.points \in Seq(Point) /\ w.points \in Seq(Point)
  BY StoredIs
<1>2. \/ w = s
      \/ /\ w.isCompleted = (s.isCompleted \/ m.isTail)
         /\ \/ w.points = s.points
            \/ /\ m.millis = rcv.last /\ s.points # << >>
               /\ w.points = Append(Front(s.points), p)
            \/ m.millis > rcv.last /\ w.points = Append(s.points, p)
  BY StoredIs
<1>0. PICK st \in DOMAIN stroke : st = rcv.st
  BY <1>1
<1>3. /\ DOMAIN stroke' = DOMAIN stroke /\ Len(stroke') = Len(stroke) /\ rcv' = NoRcv
      /\ \A id \in DOMAIN stroke : id # rcv.st => stroke'[id] = stroke[id]
  BY StoreIs
<1>4. UNCHANGED <<strokes, interp, current, crowded>>
  BY DEF AddPointStore, interpreter, history
<1>5. ~m.isHead /\ (s.points # << >> => rcv.last = Last(s.points).millis)
  BY <1>1 DEF InPlace
<1>6. /\ ~p.isHead /\ p.isTail = m.isTail
      /\ s.points # << >> \/ m.millis # rcv.last => p \in Point
  <2>1. rcv.last \in Millis
    BY <1>1 DEF Shape, DrawingShape
  <2> QED BY <1>1, <1>5, <2>1, StoredLink, WithPointFits
<1>7. PlaceOf(st)
  BY <1>0 DEF InPlace, PlaceOf
(* Of one millisecond with a head only the head itself came in. *)
<1>8. ASSUME ~crowded, Len(s.points) = 1, s.points[1].isHead, m.millis = rcv.last
      PROVE  FALSE
  <2>1. s.points # << >> /\ 1 \in DOMAIN s.points /\ Last(s.points) = s.points[1]
    BY <1>1, <1>8, LastIn
  <2> DEFINE x == LinkOf(s.points[1])
  <2>2. ~s.points[1].isTail
    BY <1>0, <1>7, <1>8, <2>1 DEF PlaceOf
  <2>3. x \in Made /\ x \in Timed /\ x.kind = "head" /\ x.millis = s.points[1].millis
    <3>1. x \in Made /\ x \in Timed
      BY <1>1, <2>1, <2>2, PointIn
    <3>2. x.kind = "head" /\ x.millis = s.points[1].millis
      BY <1>8, KindOf
    <3> QED BY <3>1, <3>2
  <2>4. LinkIn(m) \in Made /\ LinkIn(m) \in Timed /\ LinkIn(m).millis = m.millis
        /\ LinkIn(m).kind # "head"
    <3>1. LinkIn(m) \in InChain
      BY <1>1 DEF InChain
    <3>2. LinkIn(m).millis = m.millis /\ LinkIn(m).kind # "head" /\ LinkIn(m).kind # "other"
      BY <1>1, <1>5, KindOf
    <3> QED BY <3>1, <3>2 DEF Made, Timed
  <2>5. x.millis = LinkIn(m).millis
    BY <1>5, <1>8, <2>1, <2>3, <2>4
  <2>6. /\ x.event \in Times /\ LinkIn(m).event \in Times
        /\ x.millis \in Nat /\ LinkIn(m).millis \in Nat
    <3>1. x \in Links /\ LinkIn(m) \in Links
      BY <2>3, <2>4, InMade, MadeIs
    <3> QED BY <3>1 DEF Links
  <2> HIDE DEF x, m
  <2>7. ~Before(x.event, LinkIn(m).event) /\ ~Before(LinkIn(m).event, x.event)
    BY <1>8, <2>3, <2>4, <2>5, <2>6 DEF MadeFits
  <2>8. x.event = LinkIn(m).event
    BY <2>6, <2>7, TimesCompare
  <2>9. x.kind = LinkIn(m).kind
    BY <2>3, <2>4, <2>8 DEF MadeFits
  <2> QED BY <2>3, <2>4, <2>9
<1>9. PlaceOf(st)'
  <2>1. CASE w = s
    BY <1>0, <1>3, <1>4, <1>7, <2>1 DEF PlaceOf
  <2>2. CASE w.isCompleted = (s.isCompleted \/ m.isTail) /\ w.points = s.points
    BY <1>0, <1>1, <1>3, <1>4, <1>7, <2>2 DEF PlaceOf
  <2>3. ASSUME NEW q \in Seq(Point), p \in Point, w.isCompleted = (s.isCompleted \/ m.isTail),
               w.points = Append(q, p), Len(q) <= Len(s.points),
               \A k \in 1 .. Len(q) : q[k] = s.points[k],
               s.points = << >> \/ Len(q) >= 1 \/ (Len(s.points) = 1 /\ m.millis = rcv.last)
        PROVE  PlaceOf(st)'
    <3>1. /\ DOMAIN w.points = 1 .. Len(q) + 1 /\ Len(q) \in Nat /\ w.points # << >>
          /\ \A k \in 1 .. Len(q) : w.points[k] = q[k]
          /\ w.points[Len(q) + 1] = p
      BY <1>6, <2>3, Appends
    <3>2. DOMAIN s.points = 1 .. Len(s.points) /\ Len(s.points) \in Nat
      BY <1>1
    <3>3. ASSUME NEW k \in DOMAIN w.points
          PROVE  w.points[k] = p \/ (k \in DOMAIN s.points /\ w.points[k] = s.points[k])
      BY <2>3, <3>1, <3>2
    <3>4. \A k \in DOMAIN w.points : w.points[k].isHead => k = 1 /\ ~w.points[k].isTail
      BY <1>0, <1>6, <1>7, <3>3 DEF PlaceOf
    <3>5. ASSUME ~w.isCompleted
          PROVE  /\ \A k \in DOMAIN w.points : ~w.points[k].isTail
                 /\ ~crowded => w.points[1].isHead
      <4>1. ~s.isCompleted /\ ~m.isTail
        BY <1>1, <2>3, <3>5
      <4>2. /\ s.points # << >> /\ \A k \in DOMAIN s.points : ~s.points[k].isTail
            /\ ~crowded => s.points[1].isHead
        BY <1>0, <1>7, <4>1 DEF PlaceOf
      <4>3. \A k \in DOMAIN w.points : ~w.points[k].isTail
        BY <1>6, <3>3, <4>1, <4>2
      <4>4. ~crowded => w.points[1].isHead
        <5>1. CASE Len(q) >= 1
          <6>1. w.points[1] = s.points[1]
            BY <2>3, <3>1, <5>1
          <6> QED BY <4>2, <6>1
        <5>2. CASE Len(s.points) = 1 /\ m.millis = rcv.last
          BY <1>8, <4>2, <5>2
        <5> QED BY <2>3, <4>2, <5>1, <5>2
      <4> QED BY <4>3, <4>4
    <3> QED BY <1>0, <1>4, <3>1, <3>4, <3>5 DEF PlaceOf
  <2>4. CASE /\ w.isCompleted = (s.isCompleted \/ m.isTail)
             /\ m.millis > rcv.last /\ w.points = Append(s.points, p)
    <3>0. p \in Point
      BY <1>1, <1>6, <2>4
    <3>1. s.points = << >> \/ Len(s.points) >= 1
      BY <1>1
    <3>2. Len(s.points) <= Len(s.points)
      BY <1>1
    <3> HIDE DEF s, w, p, m
    <3> QED BY <1>1, <2>3, <2>4, <3>0, <3>1, <3>2
  <2>5. CASE /\ w.isCompleted = (s.isCompleted \/ m.isTail)
             /\ m.millis = rcv.last /\ s.points # << >>
             /\ w.points = Append(Front(s.points), p)
    <3>1. /\ Front(s.points) \in Seq(Point) /\ Len(Front(s.points)) = Len(s.points) - 1
          /\ \A k \in 1 .. Len(s.points) - 1 : Front(s.points)[k] = s.points[k]
          /\ Len(s.points) \in Nat
      BY <1>1, <2>5, Fronts
    <3>2. Len(Front(s.points)) >= 1 \/ (Len(s.points) = 1 /\ m.millis = rcv.last)
      <4>1. Len(s.points) >= 1 /\ m.millis = rcv.last
        BY <1>1, <2>5
      <4>0. \A n \in Nat : n >= 1 => n - 1 >= 1 \/ n = 1
        OBVIOUS
      <4>2. Len(s.points) - 1 >= 1 \/ Len(s.points) = 1
        <5>1. Len(s.points) \in Nat
          BY <1>1
        <5> QED BY <4>0, <4>1, <5>1
      <4> QED BY <3>1, <4>1, <4>2
    <3>3. Len(Front(s.points)) <= Len(s.points) /\ p \in Point
      BY <1>6, <2>5, <3>1
    <3> HIDE DEF s, w, p, m
    <3> QED BY <2>3, <2>5, <3>1, <3>2, <3>3
  <2> QED BY <1>2, <2>1, <2>2, <2>4, <2>5
<1>10. ASSUME NEW id \in DOMAIN stroke' PROVE PlaceOf(id)'
  <2>1. CASE id = st
    BY <1>9, <2>1
  <2>2. CASE id # st
    BY <1>0, <1>3, <1>4, <2>2 DEF InPlace, PlaceOf
  <2> QED BY <2>1, <2>2
<1>11. interp' # "idle" => stroke'[current'].isCompleted
  <2> SUFFICES ASSUME interp # "idle" PROVE stroke'[current].isCompleted
    BY <1>4
  <2>1. current \in DOMAIN stroke /\ stroke[current].isCompleted
    BY InHand DEF InPlace
  <2>2. CASE current = rcv.st
    <3>1. s.isCompleted
      BY <2>1, <2>2
    <3> QED BY <1>2, <2>2, <3>1
  <2>3. CASE current # rcv.st
    BY <1>3, <2>1, <2>3
  <2> QED BY <2>2, <2>3
<1> QED BY <1>3, <1>4, <1>10, <1>11 DEF InPlace, PlaceOf

LEMMA TakingKeepsPlaces ==
  ASSUME Shape, InPlace, interp # "idle", NEW q \in Seq(Point),
         \A k \in DOMAIN q : /\ k \in Nat \ {0} /\ k + 1 \in DOMAIN stroke[current].points
                             /\ q[k] = stroke[current].points[k + 1],
         q # << >> => stroke[current].points # << >> /\ Last(q) = Last(stroke[current].points),
         stroke' = [stroke EXCEPT ![current].points = q],
         UNCHANGED <<strokes, rcv, current, crowded>>
  PROVE  InPlace'
<1>1. /\ DOMAIN stroke' = DOMAIN stroke /\ Len(stroke') = Len(stroke)
      /\ current \in DOMAIN stroke /\ stroke'[current].points = q
      /\ \A id \in DOMAIN stroke : id # current => stroke'[id] = stroke[id]
  BY TakesOff
<1>2. stroke[current].isCompleted
  BY DEF InPlace
<1>3. stroke'[current].isCompleted
  <2>1. stroke \in Seq(Drawn) /\ stroke[current] \in Drawn
    BY InHand, ListIs
  <2> QED BY <1>1, <1>2, <2>1 DEF Drawn
<1>4. ASSUME NEW id \in DOMAIN stroke' PROVE PlaceOf(id)'
  <2>1. CASE id = current
    <3>1. \A k \in DOMAIN q : ~q[k].isHead
      <4> SUFFICES ASSUME NEW k \in DOMAIN q PROVE ~q[k].isHead
        OBVIOUS
      <4>1. k + 1 # 1 /\ k + 1 \in DOMAIN stroke[current].points
            /\ q[k] = stroke[current].points[k + 1]
        OBVIOUS
      <4> QED BY <1>1, <4>1 DEF InPlace
    <3> QED BY <1>1, <1>3, <2>1, <3>1 DEF PlaceOf
  <2>2. CASE id # current
    BY <1>1, <2>2 DEF InPlace, PlaceOf
  <2> QED BY <2>1, <2>2
<1>5. ASSUME rcv # NoRcv, stroke'[rcv.st].points # << >>
      PROVE  rcv.last = Last(stroke'[rcv.st].points).millis
  <2>1. CASE rcv.st = current
    BY <1>1, <1>5, <2>1 DEF InPlace
  <2>2. CASE rcv.st # current
    <3>1. rcv.st \in DOMAIN stroke
      BY <1>5 DEF Shape, DrawingShape
    <3> QED BY <1>1, <1>5, <2>2, <3>1 DEF InPlace
  <2> QED BY <2>1, <2>2
<1> QED BY <1>1, <1>3, <1>4, <1>5 DEF InPlace, PlaceOf

LEMMA LastOfTail ==
  ASSUME NEW T, NEW s \in Seq(T), Len(s) >= 2
  PROVE  /\ Tail(s) \in Seq(T) /\ Tail(s) # << >> /\ Last(Tail(s)) = Last(s) /\ s # << >>
         /\ DOMAIN Tail(s) = 1 .. Len(s) - 1 /\ Len(s) \in Nat /\ DOMAIN s = 1 .. Len(s)
         /\ \A k \in DOMAIN Tail(s) : /\ k \in Nat \ {0} /\ k + 1 \in DOMAIN s
                                      /\ Tail(s)[k] = s[k + 1]
<1>1. s # << >> /\ Len(s) \in Nat
  OBVIOUS
<1>2. /\ Tail(s) \in Seq(T) /\ Len(Tail(s)) = Len(s) - 1
      /\ DOMAIN Tail(s) = 1 .. Len(s) - 1 /\ DOMAIN s = 1 .. Len(s)
      /\ \A i \in 1 .. Len(s) - 1 : Tail(s)[i] = s[i + 1]
  BY <1>1, Tails
<1>3. Tail(s) # << >>
  <2>1. \A q : q = << >> => Len(q) = 0
    OBVIOUS
  <2>2. \A n \in Nat : n >= 2 => n - 1 # 0
    OBVIOUS
  <2>3. Len(s) - 1 # 0
    BY <1>1, <2>2
  <2> QED BY <1>2, <2>1, <2>3
<1>4. Last(Tail(s)) = Tail(s)[Len(s) - 1] /\ Last(s) = s[Len(s)]
  BY <1>1, <1>2, <1>3, LastIn
<1>5. Tail(s)[Len(s) - 1] = s[Len(s)]
  <2>0. \A n \in Nat : n >= 2 => n - 1 \in 1 .. n - 1 /\ (n - 1) + 1 = n
    OBVIOUS
  <2>1. Len(s) - 1 \in 1 .. Len(s) - 1 /\ (Len(s) - 1) + 1 = Len(s)
    BY <1>1, <2>0
  <2> QED BY <1>2, <2>1
<1> QED BY <1>1, <1>2, <1>3, <1>4, <1>5

LEMMA NoneTaken ==
  ASSUME NEW T, NEW s, NEW q, q = << >>
  PROVE  /\ q \in Seq(T)
         /\ \A k \in DOMAIN q : k \in Nat \ {0} /\ k + 1 \in DOMAIN s /\ q[k] = s[k + 1]
OBVIOUS

LEMMA InterpretTailKeepsPlaces ==
  ASSUME Shape, InPlace, InterpretTail PROVE InPlace'
<1>1. interp # "idle" /\ interp = "pair"
  BY DEF InterpretTail
<1>2. /\ stroke[current].points \in Seq(Point) /\ Len(stroke[current].points) >= 2
  BY <1>1, InHand DEF Shape, DrawingShape
<1> DEFINE q == Tail(stroke[current].points)
<1>3. /\ q \in Seq(Point) /\ q # << >> /\ stroke[current].points # << >>
      /\ Last(q) = Last(stroke[current].points)
      /\ \A k \in DOMAIN q : /\ k \in Nat \ {0} /\ k + 1 \in DOMAIN stroke[current].points
                             /\ q[k] = stroke[current].points[k + 1]
  BY <1>2, LastOfTail
<1>4. stroke' = [stroke EXCEPT ![current].points = q]
      /\ UNCHANGED <<strokes, rcv, current, crowded>>
  BY DEF InterpretTail, history
<1> HIDE DEF q
<1> QED BY <1>1, <1>3, <1>4, TakingKeepsPlaces

LEMMA InterpretRestKeepsPlaces ==
  ASSUME Shape, InPlace, InterpretRest PROVE InPlace'
<1>1. interp # "idle"
  BY DEF InterpretRest
<1>2. PICK q : q = << >>
  OBVIOUS
<1>3. stroke' = [stroke EXCEPT ![current].points = q]
      /\ UNCHANGED <<strokes, rcv, current, crowded>>
  BY <1>2 DEF InterpretRest, history
<1>4. /\ q \in Seq(Point)
      /\ \A k \in DOMAIN q : /\ k \in Nat \ {0} /\ k + 1 \in DOMAIN stroke[current].points
                             /\ q[k] = stroke[current].points[k + 1]
  BY <1>2, NoneTaken
<1> QED BY <1>1, <1>2, <1>3, <1>4, TakingKeepsPlaces

LEMMA RemoveKeepsPlaces ==
  ASSUME Shape, InPlace, RemoveStroke PROVE InPlace'
<1>1. strokes # << >> /\ UNCHANGED <<stroke, rcv, crowded>> /\ strokes' = Tail(strokes)
      /\ interp' = "idle"
  BY DEF RemoveStroke, history, Shape, DrawingShape
<1>2. /\ Len(strokes') = Len(strokes) - 1 /\ DOMAIN strokes' = 1 .. Len(strokes) - 1
      /\ DOMAIN strokes = 1 .. Len(strokes) /\ Len(strokes) \in Nat /\ Len(strokes) >= 1
      /\ \A i \in 1 .. Len(strokes) - 1 : strokes'[i] = strokes[i + 1]
      /\ Len(stroke) \in Nat
  BY <1>1, Tails, ListIs
<1>3. ASSUME NEW i \in DOMAIN strokes' PROVE strokes'[i] = Len(stroke') - Len(strokes') + i
  <2>1. strokes'[i] = strokes[i + 1] /\ i + 1 \in DOMAIN strokes
    BY <1>2
  <2>2. strokes[i + 1] = Len(stroke) - Len(strokes) + (i + 1)
    BY <2>1 DEF InPlace
  <2> QED BY <1>1, <1>2, <2>1, <2>2
<1>4. Len(strokes') <= Len(stroke')
  BY <1>1, <1>2 DEF InPlace
<1> QED BY <1>1, <1>3, <1>4 DEF InPlace

LEMMA PlacesStep == Shape /\ InPlace /\ MadeFits /\ [Next]_vars => InPlace'
<1> SUFFICES ASSUME Shape, InPlace, MadeFits, [Next]_vars PROVE InPlace'
  OBVIOUS
<1> USE DEF pen, drawing, interpreter, history
<1>1. CASE Pen
  <2>1. PICK action \in {"PRESS", "DRAG", "RELEASE"} : PenMoves(action)
    BY <1>1, PenDoes
  <2> QED BY <2>1, PlacesStay DEF PenMoves
<1>2. CASE Keyboard \/ OscStreaming \/ OscRace \/ NetFault \/ ReadSizes \/ UNCHANGED vars
  BY <1>2, PlacesStay
     DEF Keyboard, ToggleMode, keyPressed, ReserveTyped, OscStreaming, OscRace, NetFault,
         ReadSizes, vars
<1>3. CASE Receive
  BY <1>3, ReceiveKeepsPlaces
<1>4. CASE AddPointStore
  BY <1>4, StoreKeepsPlaces
<1>5. CASE Interpret
  <2>1. /\ interp' = "points" /\ current' = Head(strokes) /\ UNCHANGED <<stroke, strokes, rcv, crowded>>
        /\ stroke[Head(strokes)].isCompleted
    BY <1>5 DEF Interpret
  <2> QED BY <2>1 DEF InPlace
<1>6. CASE InterpretPair \/ Reserve
  <2>1. interp # "idle" /\ UNCHANGED <<stroke, strokes, rcv, current, crowded>>
    BY <1>6 DEF InterpretPair, Reserve
  <2> QED BY <2>1 DEF InPlace
<1>7. CASE InterpretTail
  BY <1>7, InterpretTailKeepsPlaces
<1>8. CASE InterpretRest
  BY <1>8, InterpretRestKeepsPlaces
<1>9. CASE RemoveStroke
  BY <1>9, RemoveKeepsPlaces
<1> QED BY <1>1, <1>2, <1>3, <1>4, <1>5, <1>6, <1>7, <1>8, <1>9
        DEF Next, Oscp5, Interpreting

-----------------------------------------------------------------------------
(* The front of the chain, where the receiver takes from it. *)
LEMMA FitWithout ==
  ASSUME NEW calm, NEW closed, NEW s \in Seq(Links), NEW t, NEW r, Without(s, t, r),
         s[r].kind # "head", r = 1 \/ s[r].kind \in {"point", "other"},
         Fit(s, calm, closed)
  PROVE  Fit(t, calm, closed)
<1>1. ChainHolds(t)
  <2>1. DOMAIN s = 1 .. Len(s)
    OBVIOUS
  <2>2. s[r].kind = "tail" => \A k \in DOMAIN s : k < r => s[k].kind # "head"
    BY <2>1
  <2> QED BY <2>2, WithoutKeepsChain DEF Fit
<1>2. calm => Perfect(t) /\ (closed => Ended(t))
  <2>1. \/ r = 1 /\ s[1].kind # "head"
        \/ s[r].kind \in {"point", "other"}
    OBVIOUS
  <2> QED BY <2>1, WithoutKeepsPerfect DEF Fit
<1> QED BY <1>1, <1>2 DEF Fit

LEMMA FitClosing ==
  ASSUME NEW calm, NEW closed, NEW s \in Seq(Links), NEW t, Without(s, t, 1),
         s[1].kind = "head", Len(s) >= 2, s[2].kind = "tail",
         Fit(s, calm, closed)
  PROVE  Fit(t, calm, closed)
<1>1. ChainHolds(t)
  BY ClosingKeepsChain DEF Fit
<1>2. calm => Perfect(t) /\ (closed => Ended(t))
  BY WithoutKeepsPerfect DEF Fit
<1> QED BY <1>1, <1>2 DEF Fit

LEMMA Dropped ==
  ASSUME NEW o \in Seq(Links), NEW x \in Links, NEW u \in Seq(Links)
  PROVE  /\ o \o (<<x>> \o u) \in Seq(Links) /\ o \o u \in Seq(Links)
         /\ Without(o \o (<<x>> \o u), o \o u, Len(o) + 1)
         /\ (o \o (<<x>> \o u))[Len(o) + 1] = x
         /\ Len(o \o (<<x>> \o u)) = Len(o) + Len(u) + 1
         /\ Len(o) \in Nat /\ Len(u) \in Nat
         /\ \A k \in 1 .. Len(o) : (o \o (<<x>> \o u))[k] = o[k]
<1>0. /\ <<x>> \in Seq(Links) /\ Len(<<x>>) = 1 /\ <<x>>[1] = x
      /\ Len(o) \in Nat /\ Len(u) \in Nat
  OBVIOUS
<1> DEFINE y == <<x>> \o u
<1>1. /\ y \in Seq(Links) /\ Len(y) = Len(u) + 1 /\ y[1] = x
      /\ \A k \in 1 .. Len(u) : y[k + 1] = u[k]
  <2>1. /\ y \in Seq(Links) /\ Len(y) = 1 + Len(u)
        /\ \A k \in 1 .. 1 + Len(u) : y[k] = IF k <= 1 THEN <<x>>[k] ELSE u[k - 1]
    BY <1>0, Concatenation
  <2> HIDE DEF y
  <2>2. y[1] = x
    BY <1>0, <2>1
  <2>3. ASSUME NEW k \in 1 .. Len(u) PROVE y[k + 1] = u[k]
    <3>1. k + 1 \in 1 .. 1 + Len(u) /\ ~(k + 1 <= 1) /\ (k + 1) - 1 = k
      BY <1>0
    <3> QED BY <2>1, <3>1
  <2> QED BY <1>0, <2>1, <2>2, <2>3
<1> HIDE DEF y
<1> DEFINE s == o \o y  t == o \o u
<1>2. /\ s \in Seq(Links) /\ Len(s) = Len(o) + Len(u) + 1
      /\ \A k \in 1 .. Len(o) : s[k] = o[k]
      /\ s[Len(o) + 1] = x
      /\ \A k \in 1 .. Len(u) : s[Len(o) + k + 1] = u[k]
  <2>1. /\ s \in Seq(Links) /\ Len(s) = Len(o) + Len(y)
        /\ \A k \in 1 .. Len(o) + Len(y) : s[k] = IF k <= Len(o) THEN o[k] ELSE y[k - Len(o)]
    BY <1>1, Concatenation
  <2> HIDE DEF s
  <2>2. \A k \in 1 .. Len(o) : s[k] = o[k]
    BY <1>0, <1>1, <2>1
  <2>3. s[Len(o) + 1] = x
    BY <1>0, <1>1, <2>1
  <2>4. ASSUME NEW k \in 1 .. Len(u) PROVE s[Len(o) + k + 1] = u[k]
    <3>1. /\ Len(o) + k + 1 \in 1 .. Len(o) + Len(y) /\ ~(Len(o) + k + 1 <= Len(o))
          /\ (Len(o) + k + 1) - Len(o) = k + 1
      BY <1>0, <1>1
    <3> QED BY <1>1, <2>1, <3>1
  <2> QED BY <1>0, <1>1, <2>1, <2>2, <2>3, <2>4
<1>3. /\ t \in Seq(Links) /\ Len(t) = Len(o) + Len(u)
      /\ \A k \in 1 .. Len(o) + Len(u) : t[k] = IF k <= Len(o) THEN o[k] ELSE u[k - Len(o)]
  BY Concatenation
<1> HIDE DEF s, t
<1>4. ASSUME NEW k \in DOMAIN t PROVE t[k] = IF k < Len(o) + 1 THEN s[k] ELSE s[k + 1]
  <2>0. k \in 1 .. Len(o) + Len(u)
    BY <1>3
  <2>1. CASE k <= Len(o)
    <3>1. k \in 1 .. Len(o) /\ k < Len(o) + 1
      BY <1>0, <2>0, <2>1
    <3>2. t[k] = o[k] /\ s[k] = o[k]
      BY <1>2, <1>3, <2>0, <2>1, <3>1
    <3> QED BY <3>1, <3>2
  <2>2. CASE k > Len(o)
    <3>1. k - Len(o) \in 1 .. Len(u) /\ Len(o) + (k - Len(o)) + 1 = k + 1
      BY <1>0, <2>0, <2>2
    <3>2. s[k + 1] = u[k - Len(o)]
      BY <1>2, <3>1
    <3> QED BY <1>0, <1>3, <2>0, <2>2, <3>2
  <2> QED BY <1>0, <2>0, <2>1, <2>2
<1>5. Without(s, t, Len(o) + 1)
  <2>1. Len(o) + 1 \in DOMAIN s
    BY <1>0, <1>2
  <2>2. Len(t) = Len(s) - 1
    BY <1>0, <1>2, <1>3
  <2> QED BY <1>3, <1>4, <2>1, <2>2 DEF Without
<1> QED BY <1>0, <1>2, <1>3, <1>5 DEF s, t, y

(* The parts of the chain. *)
Coming == Arriving \o ToCome
ChainParts ==
  /\ Opened \in Seq(Links) /\ Len(Opened) \in {0, 1}
  /\ InHandLink \in Seq(Links) /\ Len(InHandLink) \in {0, 1}
  /\ Arriving \in Seq(Links) /\ Len(Arriving) = Len(Flow)
  /\ ToCome \in Seq(Links) /\ Len(ToCome) \in {0, 1}
  /\ Coming \in Seq(Links) /\ Chain \in Seq(Links)
  /\ Chain = Opened \o (InHandLink \o Coming)
  /\ Chain = (Opened \o InHandLink) \o Coming
LEMMA ChainIs == Shape /\ InPlace => ChainParts
<1> SUFFICES ASSUME Shape, InPlace PROVE ChainParts
  OBVIOUS
<1>1. Opened \in Seq(Links) /\ Len(Opened) \in {0, 1}
  <2>1. CASE Opened = << >>
    BY <2>1
  <2>2. CASE Opened # << >>
    <3>1. /\ strokes # << >>
          /\ \/ ~LastStroke.isCompleted /\ Opened = <<LinkOf(LastStroke.points[1])>>
             \/ LastStroke.points # << >> /\ Opened = <<LinkOf(Last(LastStroke.points))>>
      BY <2>2 DEF Opened, OpenedOf
    <3>2. LastStroke = stroke[Len(stroke)] /\ Len(stroke) \in DOMAIN stroke
      BY <3>1, LastPlace DEF LastStroke
    <3>3. LastStroke.points \in Seq(Point) /\ LastStroke.points # << >>
      BY <3>1, <3>2, StrokeIs DEF InPlace
    <3>4. LastStroke.points[1] \in Point /\ Last(LastStroke.points) \in Point
      BY <3>3, LastIn, Tails
    <3>5. PICK x \in Links : Opened = <<x>>
      BY <3>1, <3>4, LinksOf
    <3> QED BY <3>5
  <2> QED BY <2>1, <2>2
<1>2. InHandLink \in Seq(Links) /\ Len(InHandLink) \in {0, 1}
  <2>1. rcv # NoRcv => LinkIn(rcv.msg) \in Links
    BY LinksOf DEF Shape, DrawingShape
  <2> QED BY <2>1 DEF InHandLink
<1>3. Arriving \in Seq(Links) /\ Len(Arriving) = Len(Flow)
  <2>1. Flow \in Seq(Samples)
    BY FlowIs
  <2>2. Len(Flow) \in Nat /\ DOMAIN Flow = 1 .. Len(Flow) /\ \A k \in DOMAIN Flow : LinkIn(Flow[k]) \in Links
    BY <2>1, LinksOf, Element
  <2> QED BY <2>2 DEF Arriving
<1>4. ToCome \in Seq(Links) /\ Len(ToCome) \in {0, 1}
  <2>1. [event |-> <<contact, events + 1>>, millis |-> millis + 1, kind |-> "point"] \in Links
    BY ClockIs DEF Links, Times
  <2>2. CASE Writing
    <3>1. PICK x \in Links : ToCome = <<x>>
      BY <2>1, <2>2 DEF ToCome
    <3> QED BY <3>1
  <2>3. CASE ~Writing
    BY <2>3 DEF ToCome
  <2> QED BY <2>2, <2>3
<1>5. Coming \in Seq(Links)
  BY <1>3, <1>4, Concatenation DEF Coming
<1>6. Chain = (Opened \o InHandLink) \o Coming
  <2> DEFINE front == Opened \o InHandLink
  <2>1. front \in Seq(Links)
    BY <1>1, <1>2, Concatenation
  <2> HIDE DEF front
  <2>2. (front \o Arriving) \o ToCome = front \o (Arriving \o ToCome)
    BY <1>3, <1>4, <2>1, ConcatAssociative
  <2> QED BY <2>2 DEF Chain, Coming, front
<1>7. Chain = Opened \o (InHandLink \o Coming)
  <2>1. (Opened \o InHandLink) \o Coming = Opened \o (InHandLink \o Coming)
    BY <1>1, <1>2, <1>5, ConcatAssociative
  <2> QED BY <1>6, <2>1
<1>8. Chain \in Seq(Links)
  BY <1>1, <1>2, <1>5, <1>7, Concatenation
<1> QED BY <1>1, <1>2, <1>3, <1>4, <1>5, <1>6, <1>7, <1>8 DEF ChainParts

LEMMA ChainIsNext == (Shape /\ InPlace)' => ChainParts'
BY ChainIs, PTL

OpenedFits ==
  /\ strokes = << >> => Opened = << >>
  /\ strokes # << >> => Opened = OpenedOf(stroke[Len(stroke)])
LEMMA OpenedIs == Shape /\ InPlace => OpenedFits
BY LastPlace DEF Opened, LastStroke, OpenedFits
LEMMA OpenedIsNext == (Shape /\ InPlace)' => OpenedFits'
BY OpenedIs, PTL

LEMMA AppendLast ==
  ASSUME NEW T, NEW q \in Seq(T), NEW e \in T
  PROVE  Append(q, e) # << >> /\ Last(Append(q, e)) = e
<1>1. /\ Append(q, e) \in Seq(T) /\ Append(q, e) # << >> /\ Len(Append(q, e)) = Len(q) + 1
      /\ Append(q, e)[Len(q) + 1] = e
  BY Appends
<1> QED BY <1>1, LastIn

(* Two points of one millisecond. *)
LEMMA OneMillisecond ==
  ASSUME Shape, MadeFits, ~crowded, NEW x \in Made, x \in Timed, NEW y \in Made, y \in Timed,
         x.millis = y.millis
  PROVE  x.event = y.event /\ x.kind = y.kind
<1>1. x \in Links /\ y \in Links
  BY InMade, MadeIs
<1>2. /\ x.event \in Times /\ y.event \in Times /\ x.millis \in Nat /\ y.millis \in Nat
  BY <1>1 DEF Links
<1>3. ~Before(x.event, y.event) /\ ~Before(y.event, x.event)
  BY <1>2 DEF MadeFits
<1>4. x.event = y.event
  BY <1>2, <1>3, TimesCompare
<1> QED BY <1>4 DEF MadeFits

(* How the start of the chain changes when a point, link x, is stored. *)
OpensNothing(x) == Opened' = Opened /\ (Opened = << >> \/ x.kind = "point")
OpensTail(x) == x.kind = "tail" /\ Opened = << >> /\ Opened' = <<x>>
ClosesHead(x) ==
  /\ x.kind = "tail" /\ Opened # << >> /\ Opened[1].kind = "head"
  /\ Opened' \in {<<x>>, << >>}
FollowsTail(x) ==
  /\ Opened # << >> /\ Opened[1].kind = "tail"
  /\ \/ x.kind = "tail" /\ Opened' = Opened
     \/ Opened' \in {<<x>>, << >>}
     \/ /\ x.kind = "tail" /\ x.millis = Opened[1].millis
        /\ \E y \in Links : y.kind = "tail" /\ Opened' = <<y>>
OpensAs(x) ==
  /\ x \in Links /\ x.kind \in {"point", "tail"} /\ x \in Timed
  /\ OpensNothing(x) \/ OpensTail(x) \/ ClosesHead(x) \/ FollowsTail(x)
LEMMA StoreOpens ==
  ASSUME Shape, InPlace, InPlace', Shape', MadeFits, ~crowded, AddPointStore
  PROVE  OpensAs(LinkIn(rcv.msg))
<1> DEFINE s == stroke[rcv.st]
           w == stroke'[rcv.st]
           m == rcv.msg
           p == StoredPoint(m, rcv.last)
           x == LinkIn(m)
           before == m.millis < rcv.last /\ w.points = s.points
           same == /\ m.millis = rcv.last /\ s.points # << >>
                   /\ w.points = Append(Front(s.points), p)
           after == m.millis > rcv.last /\ w.points = Append(s.points, p)
<1>1. /\ rcv # NoRcv /\ m \in Samples /\ m.idx # -1 /\ rcv.st \in DOMAIN stroke
      /\ m.millis \in Nat /\ rcv.last \in Nat /\ m.isTail \in BOOLEAN
      /\ s.isCompleted \in BOOLEAN
      /\ s.points \in Seq(Point) /\ w.points \in Seq(Point)
  BY StoredIs
<1>2. \/ w = s /\ s.points = << >>
      \/ w.isCompleted = (s.isCompleted \/ m.isTail) /\ (before \/ same \/ after)
  BY StoredIs
<1>3. /\ rcv.st = Len(stroke) /\ ~m.isHead
      /\ s.points # << >> => rcv.last = Last(s.points).millis
  BY <1>1 DEF InPlace
<1>4. /\ strokes' = strokes /\ Len(stroke') = Len(stroke)
  BY StoreIs DEF AddPointStore
<1>5. /\ x \in Links
      /\ x.kind = IF m.isTail THEN "tail" ELSE "point"
      /\ x.millis = m.millis /\ x \in Made /\ x \in Timed
  <2>1. x \in InChain /\ x.kind # "other"
    BY <1>1, KindOf DEF InChain
  <2>2. x \in Made /\ x \in Timed
    BY <2>1 DEF Made, Timed
  <2>3. x.kind = Kind(m.isHead, m.isTail) /\ x.millis = m.millis
    BY <1>1, KindOf
  <2>4. Kind(m.isHead, m.isTail) = IF m.isTail THEN "tail" ELSE "point"
    BY <1>3 DEF Kind
  <2>5. x \in Links
    BY <1>1, LinksOf
  <2> HIDE DEF x, m
  <2> QED BY <2>2, <2>3, <2>4, <2>5
<1>6. /\ p.isTail = m.isTail /\ ~p.isHead
      /\ LinkOf(p).kind = x.kind
      /\ m.millis # rcv.last => LinkOf(p) = x
      /\ s.points # << >> \/ m.millis # rcv.last => p \in Point
  <2>1. rcv.last \in Millis
    BY <1>1 DEF Shape, DrawingShape
  <2> QED BY <1>1, <1>3, <2>1, StoredLink, WithPointFits
<1> SUFFICES OpensAs(x)
  OBVIOUS
<1> HIDE DEF x
<1>0. x \in Links /\ x.kind \in {"point", "tail"} /\ x \in Timed
  BY <1>1, <1>5
<1>7. CASE strokes = << >>
  <2>1. Opened = << >> /\ Opened' = << >>
    BY <1>4, <1>7, OpenedIs, OpenedIsNext DEF OpenedFits
  <2>2. OpensNothing(x)
    BY <2>1 DEF OpensNothing
  <2> QED BY <1>0, <2>2 DEF OpensAs
<1>8. CASE strokes # << >>
  <2>1. Opened = OpenedOf(s) /\ Opened' = OpenedOf(w)
    BY <1>3, <1>4, <1>8, OpenedIs, OpenedIsNext DEF OpenedFits
  <2>2. /\ ~s.isCompleted => /\ s.points # << >> /\ s.points[1].isHead
                             /\ \A k \in DOMAIN s.points : ~s.points[k].isTail
        /\ \A k \in DOMAIN s.points : s.points[k].isHead => ~s.points[k].isTail
    BY <1>1 DEF InPlace
  <2>3. s.points # << >> =>
          /\ Last(s.points) \in Point /\ Last(s.points) = s.points[Len(s.points)]
          /\ Len(s.points) \in DOMAIN s.points
    BY <1>1, LastIn
  (* A tail shares its millisecond with no other point. *)
  <2>4. m.isTail /\ m.millis = rcv.last /\ s.points # << >> => Last(s.points).isTail
    <3> SUFFICES ASSUME m.isTail, m.millis = rcv.last, s.points # << >>, ~Last(s.points).isTail
                 PROVE  FALSE
      OBVIOUS
    <3> DEFINE y == LinkOf(Last(s.points))
    <3>1. y \in Made /\ y \in Timed
      BY <1>1, <2>3, PointIn
    <3>2. y.millis = x.millis /\ y.kind # "tail"
      BY <1>3, <1>5, KindOf
    <3> HIDE DEF y
    <3>3. y.kind = x.kind
      BY <1>5, <3>1, <3>2, OneMillisecond
    <3> QED BY <1>5, <3>2, <3>3
  <2>5. CASE w = s /\ s.points = << >>
    <3>1. s.isCompleted
      BY <2>2, <2>5
    <3>2. Opened = << >> /\ Opened' = << >>
      BY <2>1, <2>5, <3>1 DEF OpenedOf
    <3>3. OpensNothing(x)
      BY <3>2 DEF OpensNothing
    <3> QED BY <1>0, <3>3 DEF OpensAs
  <2>6. same \/ after => w.points # << >> /\ Last(w.points) = p /\ p \in Point
    <3>1. CASE same
      <4>1. Front(s.points) \in Seq(Point) /\ p \in Point
        BY <1>1, <1>6, <3>1, Fronts
      <4> QED BY <3>1, <4>1, AppendLast
    <3>2. CASE after
      <4>1. p \in Point
        BY <1>1, <1>6, <3>2
      <4> QED BY <1>1, <3>2, <4>1, AppendLast
    <3> QED BY <3>1, <3>2
  <2>7. CASE w.isCompleted = (s.isCompleted \/ m.isTail) /\ (before \/ same \/ after) /\ ~s.isCompleted
    <3>1. Opened = <<LinkOf(s.points[1])>> /\ LinkOf(s.points[1]).kind = "head"
      <4>1. LinkOf(s.points[1]).kind = "head"
        BY <2>2, <2>7, KindOf
      <4> QED BY <2>1, <2>7, <4>1 DEF OpenedOf
    <3>2. Opened # << >> /\ Opened[1].kind = "head"
      BY <3>1
    <3>3. CASE ~m.isTail
      <4>1. ~w.isCompleted
        BY <2>7, <3>3
      <4>2. w.points[1].isHead
        <5>1. DOMAIN stroke' = DOMAIN stroke /\ crowded' = crowded
          BY StoreIs DEF AddPointStore, history
        <5> QED BY <1>1, <4>1, <5>1 DEF InPlace
      <4>3. w.points[1] = s.points[1]
        <5>1. CASE before
          BY <5>1
        <5>2. CASE after
          <6>1. p \in Point /\ 1 \in 1 .. Len(s.points)
            BY <1>1, <2>2, <2>6, <2>7, <5>2
          <6> QED BY <1>1, <5>2, <6>1, Appends
        <5>3. CASE same
          <6>1. /\ Front(s.points) \in Seq(Point) /\ p \in Point
                /\ Len(Front(s.points)) = Len(s.points) - 1
                /\ \A k \in 1 .. Len(s.points) - 1 : Front(s.points)[k] = s.points[k]
            BY <1>1, <2>6, <5>3, Fronts
          <6> DEFINE f == Front(s.points)
          <6>2. /\ \A k \in 1 .. Len(f) : w.points[k] = f[k]
                /\ w.points[Len(f) + 1] = p /\ Len(f) \in Nat
            BY <5>3, <6>1, Appends
          <6> HIDE DEF f
          <6>3. CASE Len(f) = 0
            <7>1. w.points[1] = p
              BY <6>2, <6>3
            <7> QED BY <1>6, <4>2, <7>1
          <6>4. CASE Len(f) # 0
            <7>1. 1 \in 1 .. Len(f)
              BY <6>2, <6>4
            <7>2. w.points[1] = f[1]
              BY <6>2, <7>1
            <7>3. 1 \in 1 .. Len(s.points) - 1 /\ f[1] = s.points[1]
              BY <6>1, <7>1 DEF f
            <7> QED BY <7>2, <7>3
          <6> QED BY <6>3, <6>4
        <5> QED BY <2>7, <5>1, <5>2, <5>3
      <4>4. Opened' = Opened
        BY <2>1, <3>1, <4>1, <4>3 DEF OpenedOf
      <4>5. OpensNothing(x)
        BY <1>5, <3>3, <4>4 DEF OpensNothing
      <4> QED BY <1>0, <4>5 DEF OpensAs
    <3>4. CASE m.isTail
      <4>1. w.isCompleted
        BY <2>7, <3>4
      <4>2. CASE before
        <5>1. ~Last(w.points).isTail
          BY <2>2, <2>3, <2>7, <4>2
        <5>2. Opened' = << >>
          BY <2>1, <4>1, <5>1 DEF OpenedOf
        <5>3. ClosesHead(x)
          BY <1>5, <3>2, <3>4, <5>2 DEF ClosesHead
        <5> QED BY <1>0, <5>3 DEF OpensAs
      <4>3. CASE same
        BY <2>2, <2>3, <2>4, <2>7, <3>4, <4>3
      <4>4. CASE after
        <5>1. LinkOf(p) = x /\ p.isTail
          BY <1>1, <1>6, <3>4, <4>4
        <5>2. Opened' = <<x>>
          BY <2>1, <2>6, <4>1, <4>4, <5>1 DEF OpenedOf
        <5>3. ClosesHead(x)
          BY <1>5, <3>2, <3>4, <5>2 DEF ClosesHead
        <5> QED BY <1>0, <5>3 DEF OpensAs
      <4> QED BY <2>7, <4>2, <4>3, <4>4
    <3> QED BY <3>3, <3>4
  <2>8. CASE w.isCompleted = (s.isCompleted \/ m.isTail) /\ (before \/ same \/ after) /\ s.isCompleted
    <3>1. w.isCompleted
      BY <2>8
    <3>2. \/ Opened = << >> /\ (s.points = << >> \/ ~Last(s.points).isTail)
          \/ /\ s.points # << >> /\ Last(s.points).isTail
             /\ Opened = <<LinkOf(Last(s.points))>>
             /\ LinkOf(Last(s.points)).kind = "tail"
             /\ LinkOf(Last(s.points)).millis = Last(s.points).millis
      <4>1. CASE s.points # << >> /\ Last(s.points).isTail
        <5>1. ~Last(s.points).isHead
          BY <2>2, <2>3, <4>1
        <5>2. /\ LinkOf(Last(s.points)).kind = "tail"
              /\ LinkOf(Last(s.points)).millis = Last(s.points).millis
          BY <4>1, <5>1, KindOf
        <5> QED BY <2>1, <2>8, <4>1, <5>2 DEF OpenedOf
      <4>2. CASE ~(s.points # << >> /\ Last(s.points).isTail)
        BY <2>1, <2>8, <4>2 DEF OpenedOf
      <4> QED BY <4>1, <4>2
    <3>3. CASE before
      <4>1. Opened' = Opened
        BY <2>1, <2>8, <3>1, <3>3 DEF OpenedOf
      <4>2. Opened # << >> => Opened[1].kind = "tail"
        BY <3>2
      <4>3. OpensNothing(x) \/ FollowsTail(x)
        BY <1>0, <4>1, <4>2 DEF OpensNothing, FollowsTail
      <4> QED BY <1>0, <4>3 DEF OpensAs
    <3>4. CASE (same \/ after) /\ ~m.isTail
      <4>1. Opened' = << >>
        BY <1>6, <2>1, <2>6, <3>1, <3>4 DEF OpenedOf
      <4>2. Opened = << >> \/ (Opened # << >> /\ Opened[1].kind = "tail")
        BY <3>2
      <4>3. OpensNothing(x) \/ FollowsTail(x)
        BY <1>0, <4>1, <4>2 DEF OpensNothing, FollowsTail
      <4> QED BY <1>0, <4>3 DEF OpensAs
    <3>5. CASE (same \/ after) /\ m.isTail
      <4>1. Opened' = <<LinkOf(p)>>
        BY <1>6, <2>1, <2>6, <3>1, <3>5 DEF OpenedOf
      <4>2. CASE after
        <5>1. LinkOf(p) = x
          BY <1>1, <1>6, <4>2
        <5>2. Opened = << >> \/ (Opened # << >> /\ Opened[1].kind = "tail")
          BY <3>2
        <5>3. OpensTail(x) \/ FollowsTail(x)
          BY <1>5, <3>5, <4>1, <5>1, <5>2 DEF OpensTail, FollowsTail
        <5> QED BY <1>0, <5>3 DEF OpensAs
      <4>3. CASE same
        <5>1. Last(s.points).isTail
          BY <2>4, <3>5, <4>3
        <5>2. /\ Opened # << >> /\ Opened[1].kind = "tail"
              /\ Opened[1].millis = x.millis
          BY <1>3, <1>5, <3>2, <4>3, <5>1
        <5>3. LinkOf(p) \in Links /\ LinkOf(p).kind = "tail"
          BY <1>5, <1>6, <2>6, <3>5, <4>3, LinksOf
        <5>4. FollowsTail(x)
          BY <1>5, <3>5, <4>1, <5>2, <5>3 DEF FollowsTail
        <5> QED BY <1>0, <5>4 DEF OpensAs
      <4> QED BY <3>5, <4>2, <4>3
    <3> QED BY <2>8, <3>3, <3>4, <3>5
  <2> HIDE DEF before, same, after
  <2>10. s.isCompleted \/ ~s.isCompleted
    OBVIOUS
  <2> QED BY <1>2, <2>5, <2>7, <2>8, <2>10
<1> QED BY <1>7, <1>8

LEMMA AfterFirst ==
  ASSUME NEW s \in Seq(Links), Perfect(s), Len(s) >= 2
  PROVE  /\ s[1].kind = "head" => s[2].kind # "head"
         /\ s[1].kind = "tail" => ~Further(s, 2)
<1>1. 1 \in DOMAIN s /\ 2 \in DOMAIN s /\ DOMAIN s = 1 .. Len(s) /\ Len(s) \in Nat
  OBVIOUS
<1>2. s[1].kind = "head" => s[2].kind # "head"
  <2> SUFFICES ASSUME s[1].kind = "head", s[2].kind = "head" PROVE FALSE
    OBVIOUS
  <2>1. Drawing(s, 1) /\ Drawing(s, 2)
    BY DEF Drawing
  <2>2. Contact(s[1]) < Contact(s[2])
    BY <1>1, <2>1 DEF Perfect
  <2>3. \E t \in 1 .. 2 - 1 : s[t].kind = "tail"
    BY <1>1, <2>1, <2>2 DEF Perfect
  <2> QED BY <2>3
<1>3. s[1].kind = "tail" => ~Further(s, 2)
  <2> SUFFICES ASSUME s[1].kind = "tail", Further(s, 2) PROVE FALSE
    OBVIOUS
  <2>1. PICK i \in DOMAIN s : i < 2 /\ s[i].kind = "head"
    BY <1>1 DEF Perfect
  <2>2. i = 1
    BY <1>1, <2>1
  <2> QED BY <2>1, <2>2
<1> QED BY <1>2, <1>3

(* A tail that comes twice and so replaces itself has nothing behind it. *)
LEMMA ReplacingKeepsChain ==
  ASSUME NEW s \in Seq(Links), NEW t \in Seq(Links), Len(s) >= 2, Len(t) = Len(s) - 1,
         s[1].kind = "tail", s[2].kind = "tail", s[1].millis = s[2].millis,
         t[1].kind = "tail", \A k \in 2 .. Len(t) : t[k] = s[k + 1],
         ChainHolds(s)
  PROVE  ChainHolds(t)
<1>0. /\ DOMAIN s = 1 .. Len(s) /\ DOMAIN t = 1 .. Len(s) - 1 /\ Len(s) \in Nat
      /\ 1 \in DOMAIN s /\ 2 \in DOMAIN s /\ 1 \in DOMAIN t
  <2>1. \A n \in Nat : n >= 2 => 1 \in 1 .. n /\ 2 \in 1 .. n /\ 1 \in 1 .. n - 1
    OBVIOUS
  <2>2. DOMAIN s = 1 .. Len(s) /\ DOMAIN t = 1 .. Len(t) /\ Len(s) \in Nat
    OBVIOUS
  <2> QED BY <2>1, <2>2
<1>1. Behind(s, 1, 2)
  BY <1>0 DEF Behind, Further
<1>2. s[1].event = s[2].event
  BY <1>0, <1>1 DEF ChainHolds, TailsFit
<1>3. ASSUME NEW j \in DOMAIN t, Behind(t, 1, j) PROVE FALSE
  <2>1. j \in 2 .. Len(t) /\ t[j] = s[j + 1] /\ j + 1 \in DOMAIN s /\ j + 1 # 2
    BY <1>0, <1>3 DEF Behind
  <2>2. ASSUME NEW k \in DOMAIN s, 1 < k, k < j + 1 PROVE s[k].kind # "head"
    <3>1. CASE k = 2
      BY <3>1
    <3>2. CASE k # 2
      <4>1. k - 1 \in DOMAIN t /\ k - 1 \in 2 .. Len(t) /\ 1 < k - 1 /\ k - 1 < j
            /\ (k - 1) + 1 = k
        BY <1>0, <2>1, <2>2, <3>2
      <4>2. t[k - 1] = s[k]
        BY <4>1
      <4> QED BY <1>3, <4>1, <4>2 DEF Behind
    <3> QED BY <3>1, <3>2
  <2>3. Behind(s, 1, j + 1)
    BY <1>0, <1>3, <2>1, <2>2 DEF Behind, Further
  <2>4. j + 1 = 2
    BY <1>0, <1>1, <1>2, <2>1, <2>3 DEF ChainHolds, TwiceFits
  <2> QED BY <2>1, <2>4
<1> DEFINE u == [k \in 1 .. Len(s) - 1 |-> s[k + 1]]
<1>4. /\ u \in Seq(Links) /\ Len(u) = Len(s) - 1 /\ DOMAIN u = 1 .. Len(s) - 1
      /\ \A k \in 1 .. Len(s) - 1 : u[k] = s[k + 1]
  <2>1. \A k \in 1 .. Len(s) - 1 : s[k + 1] \in Links
    BY <1>0, Element
  <2>2. Len(s) - 1 \in Nat
    BY <1>0
  <2> QED BY <2>1, <2>2
<1> HIDE DEF u
<1>5. Without(s, u, 1)
  BY <1>0, <1>4 DEF Without
<1>6. ChainHolds(u)
  <2>1. \A k \in DOMAIN s : k < 1 => s[k].kind # "head"
    BY <1>0
  <2> QED BY <1>5, <2>1, WithoutKeepsChain
<1>7. /\ \A k \in DOMAIN t : k # 1 => t[k] = u[k]
      /\ u[1].kind = "tail"
  BY <1>0, <1>4
<1>8. ASSUME NEW i \in DOMAIN t, NEW j \in DOMAIN t, i # 1
      PROVE  /\ Behind(t, i, j) <=> Behind(u, i, j)
             /\ BeforeTail(t, i, j) <=> BeforeTail(u, i, j)
  <2>1. \A k \in DOMAIN t : k > i => t[k] = u[k]
    BY <1>0, <1>7, <1>8
  <2>2. DOMAIN t = DOMAIN u
    BY <1>0, <1>4
  <2> QED BY <2>1, <2>2 DEF Behind, BeforeTail, Further
<1>9. HeadsFit(t)
  <2> SUFFICES ASSUME NEW i \in DOMAIN t, t[i].kind = "head"
               PROVE  Joined(t, i) \/ \E k \in DOMAIN t : k < i /\ Unclosed(t, k)
    BY DEF HeadsFit
  <2>0. DOMAIN t = DOMAIN u /\ i # 1 /\ t[i] = u[i]
    BY <1>0, <1>4, <1>7
  <2>1. CASE Joined(u, i)
    <3> SUFFICES ASSUME NEW j \in DOMAIN t, Behind(t, i, j), BeforeTail(t, i, j)
                 PROVE  Contact(t[j]) = Contact(t[i])
      BY DEF Joined
    <3>1. Behind(u, i, j) /\ BeforeTail(u, i, j)
      BY <1>8, <2>0
    <3>2. j # 1
      BY <1>0 DEF Behind
    <3> QED BY <1>7, <2>0, <2>1, <3>1, <3>2 DEF Joined
  <2>2. CASE \E k \in DOMAIN u : k < i /\ Unclosed(u, k)
    <3>1. PICK k \in DOMAIN u : k < i /\ Unclosed(u, k)
      BY <2>2
    <3>2. k # 1 /\ k \in DOMAIN t /\ t[k] = u[k]
      BY <1>7, <2>0, <3>1 DEF Unclosed
    <3>3. ASSUME NEW j \in DOMAIN t, Behind(t, k, j) PROVE t[j].kind # "tail"
      <4>1. Behind(u, k, j) /\ j # 1
        <5>1. Behind(u, k, j)
          BY <1>8, <3>2, <3>3
        <5>2. k < j /\ k \in 1 .. Len(s) - 1
          BY <1>0, <3>2, <3>3 DEF Behind
        <5> QED BY <1>0, <5>1, <5>2
      <4> QED BY <1>7, <2>0, <3>1, <4>1 DEF Unclosed
    <3> QED BY <3>1, <3>2, <3>3 DEF Unclosed
  <2> QED BY <1>6, <2>0, <2>1, <2>2 DEF ChainHolds, HeadsFit
<1>10. TwiceFits(t)
  <2> SUFFICES ASSUME NEW a \in DOMAIN t, NEW b \in DOMAIN t, NEW j \in DOMAIN t,
                      t[a].kind = "tail", t[b].kind = "tail", t[a].event = t[b].event,
                      Behind(t, a, b), Behind(t, a, j)
               PROVE  j = b
    BY DEF TwiceFits
  <2>1. a # 1
    BY <1>3
  <2>2. Behind(u, a, b) /\ Behind(u, a, j) /\ DOMAIN t = DOMAIN u
    BY <1>0, <1>4, <1>8, <2>1
  <2>3. b # 1 /\ t[a] = u[a] /\ t[b] = u[b]
    <3>1. a < b /\ a \in 1 .. Len(s) - 1
      BY <1>0 DEF Behind
    <3>2. b # 1
      BY <1>0, <3>1
    <3> QED BY <1>7, <2>1, <3>2
  <2> QED BY <1>6, <2>2, <2>3 DEF ChainHolds, TwiceFits
<1>11. TailsFit(t)
  <2> SUFFICES ASSUME NEW i \in DOMAIN t, NEW j \in DOMAIN t,
                      t[i].kind = "tail", Behind(t, i, j), t[i].millis = t[j].millis
               PROVE  t[i].event = t[j].event
    BY DEF TailsFit
  <2>1. i # 1
    BY <1>3
  <2>2. Behind(u, i, j) /\ DOMAIN t = DOMAIN u
    BY <1>0, <1>4, <1>8, <2>1
  <2>3. j # 1 /\ t[i] = u[i] /\ t[j] = u[j]
    <3>1. i < j /\ i \in 1 .. Len(s) - 1
      BY <1>0 DEF Behind
    <3>2. j # 1
      BY <1>0, <3>1
    <3> QED BY <1>7, <2>1, <3>2
  <2> QED BY <1>6, <2>2, <2>3 DEF ChainHolds, TailsFit
<1> QED BY <1>9, <1>10, <1>11 DEF ChainHolds

(* A step of the receiver or the interpreter. *)
LEMMA ChainFrom ==
  ASSUME ChainFits, UNCHANGED <<Lost, penDown, modeCalibration, modeWritable, midStroke,
                                crowded, millis>>,
         Lucky /\ Blocked => Blocked',
         Lucky /\ ~Blocked /\ Fit(Chain, Lost = 0, ~Writing) =>
           \/ Blocked' /\ Lost # 0
           \/ /\ ~Blocked' /\ Fit(Chain', Lost = 0, ~Writing)
              /\ Lost = 0 /\ Led /\ Early => Led' /\ Early'
  PROVE  ChainFits'
<1> SUFFICES ASSUME Lucky' PROVE /\ Lost' = 0 => ~Blocked' /\ Led' /\ Early'
                                 /\ Blocked' \/ Fit(Chain', Lost' = 0, ~Writing')
  BY DEF ChainFits
<1>1. Lucky /\ (Writing' <=> Writing)
  BY DEF Lucky, Writing
<1>2. CASE Blocked
  <2>1. Blocked' /\ Lost' # 0
    BY <1>1, <1>2 DEF ChainFits
  <2> QED BY <2>1
<1>3. CASE ~Blocked
  <2>1. Fit(Chain, Lost = 0, ~Writing) /\ (Lost = 0 => Led /\ Early)
    BY <1>1, <1>3 DEF ChainFits
  <2>2. CASE Blocked' /\ Lost # 0
    BY <2>2
  <2>3. CASE /\ ~Blocked' /\ Fit(Chain', Lost = 0, ~Writing)
             /\ Lost = 0 /\ Led /\ Early => Led' /\ Early'
    <3>1. (Lost' = 0) <=> (Lost = 0)
      OBVIOUS
    <3>2. Fit(Chain', Lost' = 0, ~Writing')
      BY <1>1, <2>3, <3>1 DEF Fit
    <3> QED BY <2>1, <2>3, <3>1, <3>2
  <2> QED BY <1>1, <1>3, <2>1, <2>2, <2>3
<1> QED BY <1>2, <1>3

LEMMA FirstOfLinks ==
  ASSUME NEW a \in Seq(Links), NEW b \in Seq(Links), NEW x \in Links,
         Len(a) = Len(b) + 1, a[1] = x, \A k \in 1 .. Len(b) : b[k] = a[k + 1]
  PROVE  a = <<x>> \o b
<1>0. <<x>> \in Seq(Links) /\ Len(<<x>>) = 1 /\ <<x>>[1] = x /\ Len(b) \in Nat
  OBVIOUS
<1> DEFINE c == <<x>> \o b
<1>1. /\ c \in Seq(Links) /\ Len(c) = Len(b) + 1
      /\ \A k \in 1 .. Len(b) + 1 : c[k] = IF k <= 1 THEN <<x>>[k] ELSE b[k - 1]
  BY <1>0, Concatenation
<1> HIDE DEF c
<1>2. ASSUME NEW k \in 1 .. Len(a) PROVE a[k] = c[k]
  <2>1. CASE k = 1
    BY <1>0, <1>1, <2>1
  <2>2. CASE k # 1
    <3>1. k - 1 \in 1 .. Len(b) /\ (k - 1) + 1 = k /\ ~(k <= 1)
      BY <1>0, <1>2, <2>2
    <3>2. b[k - 1] = a[k]
      BY <3>1
    <3> QED BY <1>1, <1>2, <3>1, <3>2
  <2> QED BY <2>1, <2>2
<1>3. a = c
  BY <1>1, <1>2, SeqEqual
<1> QED BY <1>3 DEF c

LEMMA ToComeStays ==
  ASSUME UNCHANGED <<penDown, modeCalibration, modeWritable, contact, events, millis>>
  PROVE  ToCome' = ToCome
BY DEF ToCome, Writing

LEMMA ComingTaken ==
  ASSUME Shape, InPlace, Shape', InPlace', Receive
  PROVE  /\ LinkIn(Flow[1]) \in Links /\ Coming' \in Seq(Links) /\ InHandLink = << >>
         /\ Chain = Opened \o (<<LinkIn(Flow[1])>> \o Coming')
<1> DEFINE x == LinkIn(Flow[1])
<1>1. /\ Flow # << >> /\ Flow[1] \in Samples /\ Len(Flow) \in Nat /\ Len(Flow) >= 1
      /\ DOMAIN Flow = 1 .. Len(Flow) /\ DOMAIN Flow' = 1 .. Len(Flow) - 1
      /\ \A i \in DOMAIN Flow' : i + 1 \in DOMAIN Flow /\ Flow'[i] = Flow[i + 1]
  BY ReceiverTakes
<1>2. ChainParts /\ ChainParts'
  BY ChainIs, ChainIsNext
<1>3. /\ Arriving \in Seq(Links) /\ Arriving' \in Seq(Links) /\ ToCome \in Seq(Links)
      /\ Len(Arriving) = Len(Flow) /\ Len(Arriving') = Len(Flow')
      /\ Coming' \in Seq(Links) /\ Opened \in Seq(Links)
      /\ Chain = Opened \o (InHandLink \o Coming)
  BY <1>2 DEF ChainParts
<1>4. x \in Links
  BY <1>1, LinksOf
<1>5. Len(Flow') = Len(Flow) - 1
  <2>1. /\ net' = Tail(net) /\ net # << >> /\ net \in Seq(Samples)
        /\ tabletInputData' = tabletInputData /\ tabletInputData \in Seq(Samples)
    BY DEF Receive, tablet, Shape, QueueShape
  <2>2. /\ net' \in Seq(Samples) /\ Len(net') = Len(net) - 1 /\ Len(net) \in Nat
        /\ Len(tabletInputData) \in Nat
    BY <2>1, Tails
  <2>3. Len(Flow) = Len(net) + Len(tabletInputData)
    BY <2>1, Concatenation DEF Flow
  <2>4. Len(Flow') = Len(net') + Len(tabletInputData)
    BY <2>1, <2>2, Concatenation DEF Flow
  <2> QED BY <2>2, <2>3, <2>4
<1>6. Arriving = <<x>> \o Arriving'
  <2>1. Arriving[1] = x /\ Len(Arriving) = Len(Arriving') + 1
    BY <1>1, <1>3, <1>5 DEF Arriving
  <2>2. \A k \in 1 .. Len(Arriving') : Arriving'[k] = Arriving[k + 1]
    BY <1>1, <1>3, <1>5 DEF Arriving
  <2> QED BY <1>3, <1>4, <2>1, <2>2, FirstOfLinks
<1>7. Coming = <<x>> \o Coming'
  <2>1. ToCome' = ToCome
    BY ToComeStays DEF Receive, pen, tablet
  <2>2. <<x>> \in Seq(Links)
    BY <1>4
  <2> HIDE DEF x
  <2> QED BY <1>3, <1>6, <2>1, <2>2, ConcatAssociative DEF Coming
<1>8. InHandLink = << >>
  BY DEF InHandLink, Receive
<1>9. Coming \in Seq(Links)
  BY <1>2 DEF ChainParts
<1>10. Chain = Opened \o Coming
  BY <1>3, <1>8, <1>9, ConcatEmptySeq
<1> QED BY <1>3, <1>4, <1>7, <1>8, <1>10

(* What leaves the chain at its front. *)
LEMMA OneDropped ==
  ASSUME NEW calm, NEW closed, NEW o \in Seq(Links), Len(o) \in {0, 1}, NEW x \in Links,
         NEW u \in Seq(Links), x.kind # "head", o = << >> \/ x.kind \in {"point", "other"},
         Fit(o \o (<<x>> \o u), calm, closed)
  PROVE  /\ Fit(o \o u, calm, closed)
         /\ calm /\ o = << >> /\ o \o u # << >> => (o \o u)[1].kind # "tail"
<1> DEFINE s == o \o (<<x>> \o u)  t == o \o u  r == Len(o) + 1
<1>1. /\ s \in Seq(Links) /\ t \in Seq(Links) /\ Without(s, t, r) /\ s[r] = x
      /\ Len(o) \in Nat
  BY Dropped
<1>2. o = << >> => r = 1
  BY <1>1
<1> HIDE DEF s, t, r
<1>3. Fit(s, calm, closed)
  BY DEF s
<1>4. Fit(t, calm, closed)
  BY <1>1, <1>2, <1>3, FitWithout
<1>5. calm /\ o = << >> /\ t # << >> => t[1].kind # "tail"
  BY <1>1, <1>2, <1>3, NextIsNoTail DEF Fit
<1> QED BY <1>4, <1>5 DEF t

LEMMA FirstDropped ==
  ASSUME NEW calm, NEW closed, NEW x \in Links, NEW u \in Seq(Links), x.kind # "head",
         Fit(<<x>> \o u, calm, closed)
  PROVE  /\ Fit(u, calm, closed)
         /\ calm /\ u # << >> => u[1].kind # "tail"
<1>0. << >> \in Seq(Links) /\ Len(<< >>) = 0
  OBVIOUS
<1>1. PICK o \in Seq(Links) : o = << >> /\ Len(o) = 0
  BY <1>0
<1>2. <<x>> \o u \in Seq(Links)
  <2>1. <<x>> \in Seq(Links)
    OBVIOUS
  <2> QED BY <2>1, Concatenation
<1>3. o \o (<<x>> \o u) = <<x>> \o u /\ o \o u = u
  BY <1>1, <1>2, ConcatEmptySeq
<1>4. Fit(o \o (<<x>> \o u), calm, closed)
  BY <1>3
<1>5. Len(o) \in {0, 1} /\ (o = << >> \/ x.kind \in {"point", "other"})
  BY <1>1
<1>6. /\ Fit(o \o u, calm, closed)
      /\ calm /\ o = << >> /\ o \o u # << >> => (o \o u)[1].kind # "tail"
  BY <1>4, <1>5, OneDropped
<1> QED BY <1>1, <1>3, <1>6

LEMMA HeadClosed ==
  ASSUME NEW calm, NEW closed, NEW h \in Links, NEW x \in Links, NEW u \in Seq(Links),
         h.kind = "head", x.kind = "tail",
         Fit(<<h>> \o (<<x>> \o u), calm, closed)
  PROVE  Fit(<<x>> \o u, calm, closed)
<1>0. << >> \in Seq(Links) /\ Len(<< >>) = 0
  OBVIOUS
<1>1. PICK o \in Seq(Links) : o = << >> /\ Len(o) = 0
  BY <1>0
<1>2. <<h>> \in Seq(Links) /\ <<x>> \in Seq(Links) /\ Len(<<h>>) = 1 /\ <<h>>[1] = h
      /\ Len(<<x>>) = 1 /\ <<x>>[1] = x
  OBVIOUS
<1> DEFINE t == <<x>> \o u  s == <<h>> \o t
<1>3. /\ t \in Seq(Links) /\ Len(t) = 1 + Len(u) /\ Len(u) \in Nat /\ t[1] = x
  <2>1. /\ t \in Seq(Links) /\ Len(t) = 1 + Len(u)
        /\ \A k \in 1 .. 1 + Len(u) : t[k] = IF k <= 1 THEN <<x>>[k] ELSE u[k - 1]
    BY <1>2, Concatenation
  <2>2. Len(u) \in Nat
    OBVIOUS
  <2> HIDE DEF t
  <2>3. 1 \in 1 .. 1 + Len(u)
    BY <2>2
  <2> QED BY <1>2, <2>1, <2>2, <2>3
<1> HIDE DEF t
<1>4. /\ s \in Seq(Links) /\ Len(s) = 1 + Len(t) /\ s[1] = h /\ s[2] = x
  <2>1. /\ s \in Seq(Links) /\ Len(s) = 1 + Len(t)
        /\ \A k \in 1 .. 1 + Len(t) : s[k] = IF k <= 1 THEN <<h>>[k] ELSE t[k - 1]
    BY <1>2, <1>3, Concatenation
  <2> HIDE DEF s
  <2>2. 1 \in 1 .. 1 + Len(t) /\ 2 \in 1 .. 1 + Len(t)
    BY <1>3
  <2> QED BY <1>2, <1>3, <2>1, <2>2
<1>5. Without(s, t, 1)
  <2>1. o \o s = s /\ o \o t = t
    BY <1>1, <1>3, <1>4, ConcatEmptySeq
  <2>2. Without(o \o (<<h>> \o t), o \o t, Len(o) + 1)
    BY <1>1, <1>3, Dropped
  <2> QED BY <1>1, <2>1, <2>2
<1> HIDE DEF s
<1>6. Len(s) >= 2
  BY <1>3, <1>4
<1>7. Fit(s, calm, closed)
  BY DEF s, t
<1>8. Fit(t, calm, closed)
  BY <1>4, <1>5, <1>6, <1>7, FitClosing
<1> QED BY <1>8 DEF t

LEMMA OpenedKind ==
  ASSUME Shape, InPlace, ~crowded, strokes # << >>
  PROVE  /\ ~stroke[Len(stroke)].isCompleted =>
              \E y \in Links : Opened = <<y>> /\ y.kind = "head"
         /\ stroke[Len(stroke)].isCompleted =>
              Opened = << >> \/ \E y \in Links : Opened = <<y>> /\ y.kind = "tail"
<1> DEFINE s == stroke[Len(stroke)]
<1>1. Opened = OpenedOf(s) /\ Len(stroke) \in DOMAIN stroke
  BY OpenedIs, LastPlace DEF OpenedFits
<1>2. s.points \in Seq(Point)
  BY <1>1, StrokeIs
<1>3. /\ ~s.isCompleted => s.points # << >> /\ s.points[1].isHead
      /\ \A k \in DOMAIN s.points : s.points[k].isHead => ~s.points[k].isTail
  BY <1>1 DEF InPlace
<1>4. ASSUME ~s.isCompleted PROVE \E y \in Links : Opened = <<y>> /\ y.kind = "head"
  <2>1. s.points[1] \in Point
    BY <1>2, <1>3, <1>4, Tails
  <2>2. LinkOf(s.points[1]) \in Links /\ LinkOf(s.points[1]).kind = "head"
    BY <1>3, <1>4, <2>1, LinksOf, KindOf
  <2> QED BY <1>1, <1>4, <2>2 DEF OpenedOf
<1>5. ASSUME s.isCompleted
      PROVE  Opened = << >> \/ \E y \in Links : Opened = <<y>> /\ y.kind = "tail"
  <2>1. CASE s.points # << >> /\ Last(s.points).isTail
    <3>1. Last(s.points) \in Point /\ ~Last(s.points).isHead
      BY <1>2, <1>3, <2>1, LastIn
    <3>2. LinkOf(Last(s.points)) \in Links /\ LinkOf(Last(s.points)).kind = "tail"
      BY <2>1, <3>1, LinksOf, KindOf
    <3> QED BY <1>1, <1>5, <2>1, <3>2 DEF OpenedOf
  <2>2. CASE ~(s.points # << >> /\ Last(s.points).isTail)
    BY <1>1, <1>5, <2>2 DEF OpenedOf
  <2> QED BY <2>1, <2>2
<1> QED BY <1>4, <1>5

LEMMA BlockedStays ==
  ASSUME Shape, InPlace, UNCHANGED strokes,
         \A id \in DOMAIN stroke : id < Len(stroke) =>
           stroke'[id].isCompleted = stroke[id].isCompleted
  PROVE  Blocked' <=> Blocked
<1>1. ASSUME NEW i \in DOMAIN strokes, i < Len(strokes)
      PROVE  strokes[i] \in DOMAIN stroke /\ strokes[i] < Len(stroke)
  <2>1. /\ strokes \in Seq(DOMAIN stroke) /\ Len(strokes) \in Nat /\ Len(stroke) \in Nat
        /\ DOMAIN strokes = 1 .. Len(strokes)
    BY ListIs
  <2>2. strokes[i] = Len(stroke) - Len(strokes) + i
    BY DEF InPlace
  <2>3. strokes[i] \in DOMAIN stroke
    BY <2>1, Element
  <2> QED BY <1>1, <2>1, <2>2, <2>3
<1> QED BY <1>1 DEF Blocked

LEMMA ReceiveKeepsChain ==
  ASSUME Shape, Counts, InPlace, Shape', InPlace', MadeFits, ChainFits, Receive,
         races' = races
  PROVE  ChainFits'
<1> DEFINE x == LinkIn(Flow[1])
           calm == Lost = 0
           closed == ~Writing
<1>1. /\ Flow # << >> /\ Head(net) = Flow[1] /\ Flow[1] \in Samples /\ 1 \in DOMAIN Flow
  BY ReceiverTakes
<1>2. /\ UNCHANGED <<Lost, penDown, modeCalibration, modeWritable, midStroke, crowded, millis>>
      /\ rcv = NoRcv
      /\ ReceiveCalibration(Flow[1]) \/ AddStroke(Flow[1]) \/ AddPointLoad(Flow[1])
  BY <1>1 DEF Receive, pen, tablet, Lost
<1>3. /\ x \in Links /\ Coming' \in Seq(Links) /\ InHandLink = << >>
      /\ Chain = Opened \o (<<x>> \o Coming')
  BY ComingTaken
<1>4. /\ Opened \in Seq(Links) /\ Len(Opened) \in {0, 1}
      /\ Opened' \in Seq(Links) /\ InHandLink' \in Seq(Links)
      /\ Chain' = Opened' \o (InHandLink' \o Coming')
  BY ChainIs, ChainIsNext DEF ChainParts
<1>5. x.kind = (IF Flow[1].idx = -1 THEN "other" ELSE Kind(Flow[1].isHead, Flow[1].isTail))
      /\ x \in InChain
  BY <1>1 DEF LinkIn, InChain
<1>6. CASE UNCHANGED drawing /\ rcv' = NoRcv /\ x.kind # "head"
           /\ (Opened = << >> \/ x.kind \in {"point", "other"})
  <2>1. Opened' = Opened /\ (Blocked' <=> Blocked)
    BY <1>6 DEF Opened, LastStroke, drawing, Blocked
  <2>2. InHandLink' = << >>
    BY <1>6 DEF InHandLink
  <2>3. Chain' = Opened \o Coming'
    BY <1>3, <1>4, <2>1, <2>2, ConcatEmptySeq
  <2>4. ASSUME Fit(Chain, calm, closed)
        PROVE  Fit(Chain', calm, closed) /\ (calm /\ Led /\ Early => Led' /\ Early')
    <3> HIDE DEF x, calm, closed
    <3>1. /\ Fit(Chain', calm, closed)
          /\ calm /\ Opened = << >> /\ Chain' # << >> => Chain'[1].kind # "tail"
      <4>1. Fit(Opened \o (<<x>> \o Coming'), calm, closed)
        BY <1>3, <2>4
      <4> QED BY <1>3, <1>4, <1>6, <2>3, <4>1, OneDropped
    <3> QED BY <1>2, <2>1, <3>1 DEF Led, Early
  <2> QED BY <1>2, <2>1, <2>4, ChainFrom
<1>7. CASE AddPointLoad(Flow[1]) /\ rcv' # NoRcv
  <2>1. UNCHANGED drawing /\ rcv'.msg = Flow[1]
    BY <1>2, <1>7 DEF AddPointLoad
  <2>2. Opened' = Opened /\ (Blocked' <=> Blocked)
    BY <2>1 DEF Opened, LastStroke, drawing, Blocked
  <2>3. InHandLink' = <<x>>
    BY <1>7, <2>1 DEF InHandLink
  <2>4. Chain' = Chain
    BY <1>3, <1>4, <2>2, <2>3
  <2>5. Led /\ Early => Led' /\ Early'
    BY <1>2, <2>2, <2>4 DEF Led, Early
  <2> QED BY <1>2, <2>2, <2>4, <2>5, ChainFrom
<1>8. CASE AddStroke(Flow[1])
  <2>1. /\ DOMAIN stroke' = 1 .. Len(stroke) + 1 /\ DOMAIN stroke = 1 .. Len(stroke)
        /\ Len(stroke) \in Nat
        /\ \A id \in DOMAIN stroke : stroke'[id] = stroke[id]
        /\ DOMAIN strokes' = 1 .. Len(strokes) + 1
        /\ DOMAIN strokes = 1 .. Len(strokes) /\ Len(strokes) \in Nat
        /\ \A i \in DOMAIN strokes : /\ strokes'[i] = strokes[i]
                                      /\ strokes[i] \in DOMAIN stroke
        /\ strokes'[Len(strokes) + 1] = Len(stroke) + 1
    BY <1>1, <1>8, AddStrokeIs
  <2>2. /\ Len(strokes') = Len(strokes) + 1 /\ strokes' # << >> /\ rcv' = NoRcv
        /\ Len(stroke') = Len(stroke) + 1
        /\ stroke'[Len(stroke')].isCompleted = FALSE
        /\ LinkOf(stroke'[Len(stroke')].points[1]) = x
        /\ x.kind = "head"
    <3> DEFINE p == [strokeIdx |-> Flow[1].idx, event |-> Flow[1].event,
                     millis |-> Flow[1].millis, isHead |-> TRUE, isTail |-> FALSE]
               w == [points |-> <<p>>, isCompleted |-> FALSE]
    <3>1. /\ stroke' = Append(stroke, w) /\ rcv' = NoRcv /\ Flow[1].idx # -1 /\ Flow[1].isHead
          /\ strokes' = Append(strokes, Len(stroke'))
      BY <1>2, <1>8 DEF AddStroke
    <3>2. LinkOf(p) = x /\ x.kind = "head"
      BY <3>1 DEF LinkOf, LinkIn, Kind
    <3>3. w.points[1] = p /\ w.isCompleted = FALSE
      OBVIOUS
    <3> HIDE DEF w, p, x
    <3>4. stroke \in Seq(Drawn) /\ strokes \in Seq(DOMAIN stroke)
      BY ListIs
    <3>5. stroke'[Len(stroke) + 1] = w /\ Len(stroke') = Len(stroke) + 1
      BY <3>1, <3>4
    <3>6. Len(strokes') = Len(strokes) + 1 /\ strokes' # << >>
      BY <3>1, <3>4
    <3> QED BY <3>1, <3>2, <3>3, <3>5, <3>6
  <2>3. Opened' = <<x>>
    BY <2>2, OpenedIsNext DEF OpenedFits, OpenedOf
  <2>4. Chain' = <<x>> \o Coming'
    <3>1. InHandLink' = << >>
      BY <2>2 DEF InHandLink
    <3> QED BY <1>3, <1>4, <2>3, <3>1, ConcatEmptySeq
  <2>5. Blocked => Blocked'
    <3> SUFFICES ASSUME NEW i \in DOMAIN strokes, i < Len(strokes), ~stroke[strokes[i]].isCompleted
                 PROVE  Blocked'
      BY DEF Blocked
    <3>1. i \in DOMAIN strokes' /\ i < Len(strokes') /\ ~stroke'[strokes'[i]].isCompleted
      BY <2>1, <2>2
    <3> QED BY <3>1 DEF Blocked
  <2>6. Led' /\ (x.millis <= millis => Early')
    <3>1. Opened' # << >> /\ \A k \in DOMAIN Opened' : Opened'[k] = x
      BY <2>3
    <3> QED BY <1>2, <3>1 DEF Led, Early
  <2>7. x.millis <= millis
    BY <1>5 DEF MadeFits, Timed
  <2>8. ASSUME ~Blocked, strokes = << >> \/ stroke[Len(stroke)].isCompleted PROVE ~Blocked'
    <3> SUFFICES ASSUME NEW i \in DOMAIN strokes', i < Len(strokes')
                 PROVE  stroke'[strokes'[i]].isCompleted
      BY DEF Blocked
    <3>1. /\ i \in DOMAIN strokes /\ strokes'[i] = strokes[i]
          /\ stroke'[strokes[i]] = stroke[strokes[i]]
      BY <2>1, <2>2
    <3>2. CASE i < Len(strokes)
      BY <2>8, <3>1, <3>2 DEF Blocked
    <3>3. CASE i = Len(strokes)
      <4>1. strokes # << >>
        BY <2>1, <3>1
      <4>2. strokes[i] = Len(stroke)
        BY <3>3, <4>1, LastPlace
      <4> QED BY <2>8, <3>1, <4>1, <4>2
    <3> QED BY <2>1, <3>1, <3>2, <3>3
  <2>9. ASSUME Lucky, ~Blocked, Fit(Chain, calm, closed)
        PROVE  (Blocked' /\ ~calm) \/ (~Blocked' /\ Fit(Chain', calm, closed))
    <3> HIDE DEF x, calm, closed
    <3>0. <<x>> \o Coming' \in Seq(Links) /\ Len(<<x>>) = 1
      <4>1. <<x>> \in Seq(Links)
        BY <1>3
      <4> QED BY <1>3, <4>1, Concatenation
    <3>1. CASE Opened = << >> /\ (strokes = << >> \/ stroke[Len(stroke)].isCompleted)
      <4>1. Chain = <<x>> \o Coming'
        BY <1>3, <3>0, <3>1, ConcatEmptySeq
      <4> QED BY <2>4, <2>8, <2>9, <3>1, <4>1
    <3>2. CASE /\ strokes # << >> /\ stroke[Len(stroke)].isCompleted
               /\ \E y \in Links : Opened = <<y>> /\ y.kind = "tail"
      <4>1. PICK y \in Links : Opened = <<y>> /\ y.kind = "tail"
        BY <3>2
      <4>2. Fit(<<y>> \o (<<x>> \o Coming'), calm, closed)
        BY <1>3, <2>9, <4>1
      <4>3. Fit(<<x>> \o Coming', calm, closed)
        BY <3>0, <4>1, <4>2, FirstDropped
      <4> QED BY <2>4, <2>8, <2>9, <3>2, <4>3
    <3>3. CASE strokes # << >> /\ ~stroke[Len(stroke)].isCompleted
      <4>1. PICK y \in Links : Opened = <<y>> /\ y.kind = "head"
        BY <2>9, <3>3, OpenedKind DEF Lucky
      <4>2. Blocked'
        <5>1. Len(strokes) \in DOMAIN strokes /\ strokes[Len(strokes)] = Len(stroke)
              /\ Len(stroke) \in DOMAIN stroke
          BY <3>3, LastPlace
        <5>2. /\ Len(strokes) \in DOMAIN strokes' /\ Len(strokes) < Len(strokes')
              /\ ~stroke'[strokes'[Len(strokes)]].isCompleted
          BY <2>1, <2>2, <3>3, <5>1
        <5> QED BY <5>2 DEF Blocked
      <4>3. ASSUME calm PROVE FALSE
        <5>1. /\ Chain \in Seq(Links) /\ Chain[1] = y /\ Len(Chain) >= 2 /\ Chain[2] = x
          <6> DEFINE t == <<x>> \o Coming'
          <6>1. /\ t \in Seq(Links) /\ Len(t) = 1 + Len(Coming') /\ Len(Coming') \in Nat
                /\ t[1] = x
            <7>1. <<x>> \in Seq(Links) /\ Len(<<x>>) = 1 /\ <<x>>[1] = x /\ Len(Coming') \in Nat
              BY <1>3
            <7>2. \A k \in 1 .. 1 + Len(Coming') : t[k] = IF k <= 1 THEN <<x>>[k] ELSE Coming'[k - 1]
              BY <1>3, <7>1, Concatenation
            <7>3. Len(t) = 1 + Len(Coming') /\ t \in Seq(Links)
              BY <1>3, <7>1, Concatenation
            <7>4. 1 \in 1 .. 1 + Len(Coming')
              BY <7>1
            <7> HIDE DEF t
            <7> QED BY <7>1, <7>2, <7>3, <7>4
          <6>2. Chain = <<y>> \o t /\ <<y>> \in Seq(Links) /\ Len(<<y>>) = 1 /\ <<y>>[1] = y
            BY <1>3, <4>1
          <6> HIDE DEF t
          <6>3. /\ Chain \in Seq(Links) /\ Len(Chain) = 1 + Len(t)
                /\ \A k \in 1 .. 1 + Len(t) : Chain[k] = IF k <= 1 THEN <<y>>[k] ELSE t[k - 1]
            BY <6>1, <6>2, Concatenation
          <6>4. 1 \in 1 .. 1 + Len(t) /\ 2 \in 1 .. 1 + Len(t) /\ 1 + Len(t) >= 2
            BY <6>1
          <6> QED BY <6>1, <6>2, <6>3, <6>4
        <5>2. Perfect(Chain)
          BY <2>9, <4>3 DEF Fit
        <5> QED BY <2>2, <4>1, <5>1, <5>2, AfterFirst
      <4> QED BY <4>2, <4>3
    <3>4. strokes # << >> /\ stroke[Len(stroke)].isCompleted =>
            Opened = << >> \/ \E y \in Links : Opened = <<y>> /\ y.kind = "tail"
      BY <2>9, OpenedKind DEF Lucky
    <3>5. strokes = << >> => Opened = << >>
      BY OpenedIs DEF OpenedFits
    <3> QED BY <3>1, <3>2, <3>3, <3>4, <3>5
  <2> QED BY <1>2, <2>5, <2>6, <2>7, <2>9, ChainFrom
<1>9. CASE ReceiveCalibration(Flow[1])
  <2>1. UNCHANGED drawing /\ rcv' = NoRcv /\ x.kind = "other"
    BY <1>2, <1>5, <1>9 DEF ReceiveCalibration
  <2> QED BY <1>6, <2>1
<1>10. CASE AddPointLoad(Flow[1]) /\ rcv' = NoRcv
  <2>1. /\ UNCHANGED drawing
        /\ strokes = << >> \/ stroke[Last(strokes)].points = << >>
        /\ ~Flow[1].isHead /\ Flow[1].idx # -1
    <3>1. races' # races + 1
      BY DEF Counts
    <3> QED BY <1>10, <3>1 DEF AddPointLoad, NoRcv
  <2>2. x.kind # "head"
    BY <1>5, <2>1, KindOf
  <2>3. Opened = << >>
    <3>1. CASE strokes = << >>
      BY <3>1, OpenedIs DEF OpenedFits
    <3>2. CASE strokes # << >> /\ stroke[Last(strokes)].points = << >>
      <4>1. Last(strokes) = Len(stroke) /\ Len(stroke) \in DOMAIN stroke
        BY <3>2, LastPlace
      <4>2. stroke[Len(stroke)].isCompleted
        BY <3>2, <4>1 DEF InPlace
      <4> QED BY <3>2, <4>1, <4>2, OpenedIs DEF OpenedFits, OpenedOf
    <3> QED BY <2>1, <3>1, <3>2
  <2>4. /\ UNCHANGED drawing /\ rcv' = NoRcv /\ x.kind # "head"
        /\ Opened = << >> \/ x.kind \in {"point", "other"}
    BY <1>10, <2>1, <2>2, <2>3
  <2> HIDE DEF x, calm, closed
  <2> QED BY <1>6, <2>4
<1> QED BY <1>2, <1>7, <1>8, <1>9, <1>10

LEMMA TwoInFront ==
  ASSUME NEW y \in Links, NEW x \in Links, NEW u \in Seq(Links)
  PROVE  /\ <<y>> \o (<<x>> \o u) \in Seq(Links) /\ <<x>> \o u \in Seq(Links)
         /\ Len(<<y>> \o (<<x>> \o u)) = Len(u) + 2 /\ Len(<<x>> \o u) = Len(u) + 1
         /\ Len(u) \in Nat
         /\ (<<y>> \o (<<x>> \o u))[1] = y /\ (<<y>> \o (<<x>> \o u))[2] = x
         /\ (<<x>> \o u)[1] = x
         /\ \A k \in 1 .. Len(u) : /\ (<<y>> \o (<<x>> \o u))[k + 2] = u[k]
                                   /\ (<<x>> \o u)[k + 1] = u[k]
<1> DEFINE a == <<x>> \o u
           b == <<y>> \o a
<1>1. /\ <<x>> \in Seq(Links) /\ Len(<<x>>) = 1 /\ <<x>>[1] = x /\ Len(u) \in Nat
      /\ <<y>> \in Seq(Links) /\ Len(<<y>>) = 1 /\ <<y>>[1] = y
  OBVIOUS
<1>2. /\ a \in Seq(Links) /\ Len(a) = 1 + Len(u)
      /\ \A k \in 1 .. 1 + Len(u) : a[k] = IF k <= 1 THEN <<x>>[k] ELSE u[k - 1]
  BY <1>1, Concatenation
<1> HIDE DEF a
<1>3. /\ b \in Seq(Links) /\ Len(b) = 1 + Len(a)
      /\ \A k \in 1 .. 1 + Len(a) : b[k] = IF k <= 1 THEN <<y>>[k] ELSE a[k - 1]
  BY <1>1, <1>2, Concatenation
<1> HIDE DEF b
<1>4. a[1] = x /\ b[1] = y /\ b[2] = x
  <2>1. 1 \in 1 .. 1 + Len(u) /\ 1 \in 1 .. 1 + Len(a) /\ 2 \in 1 .. 1 + Len(a)
    BY <1>1, <1>2
  <2>2. a[1] = x /\ b[1] = y
    BY <1>1, <1>2, <1>3, <2>1
  <2>3. b[2] = a[2 - 1]
    BY <1>3, <2>1
  <2> QED BY <2>2, <2>3
<1>5. ASSUME NEW k \in 1 .. Len(u) PROVE b[k + 2] = u[k] /\ a[k + 1] = u[k]
  <2>1. /\ k + 1 \in 1 .. 1 + Len(u) /\ k + 2 \in 1 .. 1 + Len(a) /\ ~(k + 1 <= 1) /\ ~(k + 2 <= 1)
        /\ k + 1 - 1 = k /\ k + 2 - 1 = k + 1
    BY <1>1, <1>2
  <2> QED BY <1>2, <1>3, <2>1
<1>6. /\ b \in Seq(Links) /\ a \in Seq(Links)
      /\ Len(b) = Len(u) + 2 /\ Len(a) = Len(u) + 1
      /\ Len(u) \in Nat
      /\ b[1] = y /\ b[2] = x
      /\ a[1] = x
      /\ \A k \in 1 .. Len(u) : b[k + 2] = u[k] /\ a[k + 1] = u[k]
  BY <1>1, <1>2, <1>3, <1>4, <1>5
<1> QED BY <1>6, Zenon DEF a, b

LEMMA StoreKeepsChain ==
  ASSUME Shape, InPlace, Shape', InPlace', MadeFits, ChainFits, AddPointStore PROVE ChainFits'
<1> DEFINE x == LinkIn(rcv.msg)
           u == Coming
           calm == Lost = 0
           closed == ~Writing
<1>1. /\ UNCHANGED <<Lost, penDown, modeCalibration, modeWritable, contact, events,
                     midStroke, crowded, millis, net, tabletInputData, strokes>>
      /\ rcv # NoRcv /\ rcv' = NoRcv /\ rcv.msg \in Samples
  BY StoreIs DEF AddPointStore, pen, tablet, history, Lost
<1>2. InHandLink = <<x>> /\ InHandLink' = << >> /\ x \in Links
  BY <1>1, LinksOf DEF InHandLink
<1>3. Coming' = u
  <2>1. Flow' = Flow
    BY <1>1, FlowStays
  <2>2. ToCome' = ToCome
    BY <1>1, ToComeStays
  <2> QED BY <2>1, <2>2 DEF Coming, Arriving
<1>4. /\ Opened \in Seq(Links) /\ Len(Opened) \in {0, 1} /\ u \in Seq(Links)
      /\ Opened' \in Seq(Links) /\ Len(Opened') \in {0, 1}
      /\ Chain = Opened \o (<<x>> \o u) /\ Chain' = Opened' \o u
  <2>1. /\ Opened \in Seq(Links) /\ Len(Opened) \in {0, 1} /\ u \in Seq(Links)
        /\ Opened' \in Seq(Links) /\ Len(Opened') \in {0, 1}
        /\ Chain = Opened \o (InHandLink \o Coming)
        /\ Chain' = Opened' \o (InHandLink' \o Coming')
    BY ChainIs, ChainIsNext DEF ChainParts
  <2>2. InHandLink' \o Coming' = u
    BY <1>2, <1>3, <2>1, ConcatEmptySeq
  <2> QED BY <1>2, <2>1, <2>2
<1>5. Blocked' <=> Blocked
  <2>1. /\ rcv.st = Len(stroke) /\ Len(stroke) \in Nat /\ DOMAIN stroke = 1 .. Len(stroke)
        /\ \A id \in DOMAIN stroke : id # rcv.st => stroke'[id] = stroke[id]
    BY <1>1, StoreIs, ListIs DEF InPlace
  <2> QED BY <1>1, <2>1, BlockedStays
<1> HIDE DEF x, u, calm, closed
<1>6. ASSUME Lucky, Fit(Chain, calm, closed)
      PROVE  Fit(Chain', calm, closed) /\ (calm /\ Led /\ Early => Led' /\ Early')
  <2>1. OpensAs(x)
    BY <1>6, StoreOpens DEF Lucky, x
  <2>2. x.kind \in {"point", "tail"} /\ x.kind # "head" /\ x.millis <= millis /\ millis' = millis
    BY <1>1, <2>1 DEF OpensAs, MadeFits
  <2>3. ASSUME Opened' = <<x>> PROVE Led' /\ Early'
    <3>1. Opened' # << >> /\ \A k \in DOMAIN Opened' : Opened'[k] = x
      BY <2>3
    <3> QED BY <2>2, <3>1 DEF Led, Early
  <2>4. ASSUME Opened' = << >>, u # << >> => u[1].kind # "tail" PROVE Led' /\ Early'
    <3>1. Chain' = u
      BY <1>4, <2>4, ConcatEmptySeq
    <3> QED BY <2>4, <3>1 DEF Led, Early
  <2>5. CASE OpensNothing(x)
    <3>1. /\ Opened' = Opened /\ Chain' = Opened \o u
          /\ Opened = << >> \/ x.kind \in {"point", "other"}
      BY <1>4, <2>5 DEF OpensNothing
    <3>2. Fit(Opened \o (<<x>> \o u), calm, closed)
      BY <1>4, <1>6
    <3>3. /\ Fit(Opened \o u, calm, closed)
          /\ calm /\ Opened = << >> /\ Opened \o u # << >> => (Opened \o u)[1].kind # "tail"
      BY <1>2, <1>4, <2>2, <3>1, <3>2, OneDropped
    <3> QED BY <2>2, <3>1, <3>3 DEF Led, Early
  <2>6. CASE OpensTail(x)
    <3>1. Opened = << >> /\ Opened' = <<x>> /\ <<x>> \o u \in Seq(Links)
      BY <1>2, <1>4, <2>6, TwoInFront DEF OpensTail
    <3>2. Chain' = Chain
      BY <1>4, <3>1, ConcatEmptySeq
    <3> QED BY <1>6, <2>3, <3>1, <3>2
  <2>7. CASE ClosesHead(x)
    <3>1. PICK h \in Links : Opened = <<h>> /\ h.kind = "head"
      <4>1. Opened # << >> /\ Opened[1].kind = "head"
        BY <2>7 DEF ClosesHead
      <4>2. Opened = <<Opened[1]>> /\ Opened[1] \in Links
        BY <1>4, <4>1
      <4> QED BY <4>1, <4>2
    <3>2. x.kind = "tail" /\ Opened' \in {<<x>>, << >>}
      BY <2>7 DEF ClosesHead
    <3>3. Fit(<<h>> \o (<<x>> \o u), calm, closed)
      BY <1>4, <1>6, <3>1
    <3>4. Fit(<<x>> \o u, calm, closed)
      BY <1>2, <1>4, <3>1, <3>2, <3>3, HeadClosed
    <3>5. Fit(u, calm, closed) /\ (calm /\ u # << >> => u[1].kind # "tail")
      BY <1>2, <1>4, <2>2, <3>4, FirstDropped
    <3>6. CASE Opened' = <<x>>
      BY <1>4, <2>3, <3>4, <3>6
    <3>7. CASE Opened' = << >>
      <4>1. Chain' = u
        BY <1>4, <3>7, ConcatEmptySeq
      <4> QED BY <2>4, <3>5, <3>7, <4>1
    <3> QED BY <3>2, <3>6, <3>7
  <2>8. CASE FollowsTail(x)
    <3>1. PICK y \in Links : Opened = <<y>> /\ y.kind = "tail"
      <4>1. Opened # << >> /\ Opened[1].kind = "tail"
        BY <2>8 DEF FollowsTail
      <4>2. Opened = <<Opened[1]>> /\ Opened[1] \in Links
        BY <1>4, <4>1
      <4> QED BY <4>1, <4>2
    <3>2. Chain = <<y>> \o (<<x>> \o u)
      BY <1>4, <3>1
    <3> DEFINE a == <<x>> \o u
    <3>3. /\ Chain \in Seq(Links) /\ a \in Seq(Links) /\ Len(Chain) = Len(u) + 2
          /\ Len(a) = Len(u) + 1 /\ Len(u) \in Nat
          /\ Chain[1] = y /\ Chain[2] = x /\ a[1] = x
          /\ \A k \in 1 .. Len(u) : Chain[k + 2] = u[k] /\ a[k + 1] = u[k]
      BY <1>2, <1>4, <3>2, TwoInFront
    <3>4. ~calm
      <4> SUFFICES ASSUME calm PROVE FALSE
        OBVIOUS
      <4>1. Perfect(Chain)
        BY <1>6 DEF Fit
      <4>2. Len(Chain) >= 2
        BY <3>3
      <4> QED BY <2>2, <3>1, <3>3, <4>1, <4>2, AfterFirst DEF Further
    <3>5. ChainHolds(Chain)
      BY <1>6 DEF Fit
    <3>6. Fit(<<y>> \o a, calm, closed)
      BY <1>6, <3>2
    <3>7. Fit(a, calm, closed)
      BY <3>1, <3>3, <3>6, FirstDropped
    <3>8. Fit(u, calm, closed)
      BY <1>2, <1>4, <2>2, <3>7, FirstDropped
    <3>9. CASE Opened' \in {<<x>>, << >>}
      <4>1. Opened' = <<x>> => Chain' = a
        BY <1>4
      <4>2. Opened' = << >> => Chain' = u
        BY <1>4, ConcatEmptySeq
      <4> QED BY <3>4, <3>7, <3>8, <3>9, <4>1, <4>2
    <3>10. ASSUME NEW z \in Links, z.kind = "tail", x.kind = "tail", Opened' = <<z>>,
                  z = y \/ x.millis = y.millis
           PROVE  ChainHolds(Chain')
      <4>1. Chain' = <<z>> \o u
        BY <1>4, <3>10
      <4>2. /\ Chain' \in Seq(Links) /\ Len(Chain') = Len(u) + 1 /\ Chain'[1] = z
            /\ \A k \in 1 .. Len(u) : Chain'[k + 1] = u[k]
        BY <1>4, <4>1, <3>10, TwoInFront
      <4>3. \A k \in 2 .. Len(Chain') : Chain'[k] = Chain[k + 1]
        <5> SUFFICES ASSUME NEW k \in 2 .. Len(Chain') PROVE Chain'[k] = Chain[k + 1]
          OBVIOUS
        <5>1. /\ k - 1 \in 1 .. Len(u) /\ (k - 1) + 1 = k /\ (k - 1) + 2 = k + 1
          BY <3>3, <4>2
        <5>2. Chain'[(k - 1) + 1] = u[k - 1]
          BY <4>2, <5>1
        <5>3. Chain[(k - 1) + 2] = u[k - 1]
          BY <3>3, <5>1
        <5> QED BY <5>1, <5>2, <5>3
      <4>4. CASE x.millis = y.millis
        <5>1. Len(Chain) >= 2 /\ Len(Chain') = Len(Chain) - 1
          BY <3>3, <4>2
        <5> QED BY <3>1, <3>3, <3>5, <3>10, <4>2, <4>3, <4>4, <5>1, ReplacingKeepsChain
      <4>5. CASE z = y
        <5>1. Without(Chain, Chain', 2)
          <6>1. 2 \in DOMAIN Chain /\ Len(Chain') = Len(Chain) - 1
            BY <3>3, <4>2
          <6>2. \A k \in DOMAIN Chain' : Chain'[k] = IF k < 2 THEN Chain[k] ELSE Chain[k + 1]
            <7> SUFFICES ASSUME NEW k \in DOMAIN Chain'
                         PROVE  Chain'[k] = IF k < 2 THEN Chain[k] ELSE Chain[k + 1]
              OBVIOUS
            <7>1. k = 1 \/ k \in 2 .. Len(Chain')
              BY <4>2
            <7>2. CASE k = 1
              BY <3>3, <4>2, <4>5, <7>2
            <7>3. CASE k \in 2 .. Len(Chain')
              BY <4>3, <7>3
            <7> QED BY <7>1, <7>2, <7>3
          <6> QED BY <4>2, <6>1, <6>2 DEF Without
        <5>2. \A k \in DOMAIN Chain : k < 2 => Chain[k].kind # "head"
          <6>1. \A k \in DOMAIN Chain : k < 2 => k = 1
            BY <3>3
          <6> QED BY <3>1, <3>3, <6>1
        <5>3. Chain[2].kind # "head"
          BY <2>2, <3>3
        <5> QED BY <3>3, <3>5, <5>1, <5>2, <5>3, WithoutKeepsChain
      <4> QED BY <3>10, <4>4, <4>5
    <3>11. CASE x.kind = "tail" /\ Opened' = Opened
      <4>1. ChainHolds(Chain')
        BY <3>1, <3>10, <3>11
      <4> QED BY <3>4, <4>1 DEF Fit
    <3>12. CASE /\ x.kind = "tail" /\ x.millis = Opened[1].millis
                /\ \E z \in Links : z.kind = "tail" /\ Opened' = <<z>>
      <4>1. x.millis = y.millis
        BY <3>1, <3>12
      <4>2. ChainHolds(Chain')
        BY <3>10, <3>12, <4>1
      <4> QED BY <3>4, <4>2 DEF Fit
    <3> QED BY <2>8, <3>9, <3>11, <3>12 DEF FollowsTail
  <2> QED BY <2>1, <2>5, <2>6, <2>7, <2>8 DEF OpensAs
<1>7. Fit(Chain, Lost = 0, ~Writing) /\ Lucky =>
        /\ Fit(Chain', Lost = 0, ~Writing)
        /\ Lost = 0 /\ Led /\ Early => Led' /\ Early'
  BY <1>6 DEF calm, closed
<1> QED BY <1>1, <1>5, <1>7, ChainFrom

(* The interpreter may take the tail of the last stroke off the list, and with
   it what the chain begins with. *)
LEMMA FrontKeepsChain ==
  ASSUME Shape, InPlace, Shape', InPlace', ChainFits, Flow' = Flow,
         UNCHANGED <<Lost, penDown, modeCalibration, modeWritable, contact, events,
                     midStroke, crowded, millis, rcv>>,
         Blocked' <=> Blocked,
         \/ Opened' = Opened
         \/ Opened' = << >> /\ \E y \in Links : Opened = <<y>> /\ y.kind = "tail"
  PROVE  ChainFits'
<1> DEFINE u == InHandLink \o Coming
           calm == Lost = 0
           closed == ~Writing
<1>1. InHandLink' = InHandLink /\ Coming' = Coming
  <2>1. ToCome' = ToCome
    BY ToComeStays
  <2> QED BY <2>1 DEF Coming, Arriving, InHandLink
<1>2. /\ InHandLink \in Seq(Links) /\ Coming \in Seq(Links)
      /\ Opened \in Seq(Links) /\ Opened' \in Seq(Links)
      /\ Chain = Opened \o u /\ Chain' = Opened' \o (InHandLink' \o Coming')
  BY ChainIs, ChainIsNext DEF ChainParts
<1>3. u \in Seq(Links) /\ Chain' = Opened' \o u
  BY <1>1, <1>2, Concatenation
<1> HIDE DEF u, calm, closed
<1>4. ASSUME Fit(Chain, calm, closed)
      PROVE  Fit(Chain', calm, closed) /\ (calm /\ Led /\ Early => Led' /\ Early')
  <2>1. CASE Opened' = Opened
    <3>1. Chain' = Chain
      BY <1>2, <1>3, <2>1
    <3> QED BY <1>4, <2>1, <3>1 DEF Led, Early
  <2>2. CASE Opened' = << >> /\ \E y \in Links : Opened = <<y>> /\ y.kind = "tail"
    <3>1. PICK y \in Links : Opened = <<y>> /\ y.kind = "tail"
      BY <2>2
    <3>2. Fit(<<y>> \o u, calm, closed)
      BY <1>2, <1>4, <3>1
    <3>3. Fit(u, calm, closed) /\ (calm /\ u # << >> => u[1].kind # "tail")
      BY <1>3, <3>1, <3>2, FirstDropped
    <3>4. Chain' = u
      BY <1>3, <2>2, ConcatEmptySeq
    <3> QED BY <2>2, <3>3, <3>4 DEF Led, Early
  <2> QED BY <2>1, <2>2
<1>5. Fit(Chain, Lost = 0, ~Writing) =>
        /\ Fit(Chain', Lost = 0, ~Writing)
        /\ Lost = 0 /\ Led /\ Early => Led' /\ Early'
  BY <1>4 DEF calm, closed
<1> QED BY <1>5, ChainFrom

LEMMA CompletedOpens ==
  ASSUME Shape, InPlace, NEW id \in DOMAIN stroke, stroke[id].isCompleted
  PROVE  \/ OpenedOf(stroke[id]) = << >>
         \/ \E y \in Links : OpenedOf(stroke[id]) = <<y>> /\ y.kind = "tail"
<1>1. CASE stroke[id].points # << >> /\ Last(stroke[id].points).isTail
  <2> DEFINE p == Last(stroke[id].points)
  <2>1. p \in Point /\ Len(stroke[id].points) \in DOMAIN stroke[id].points
        /\ p = stroke[id].points[Len(stroke[id].points)]
    BY <1>1, StrokeIs, LastIn
  <2>2. OpenedOf(stroke[id]) = <<LinkOf(p)>>
    BY <1>1 DEF OpenedOf
  <2>3. LinkOf(p) \in Links
    BY <2>1, LinksOf
  <2>4. ~p.isHead
    BY <1>1, <2>1 DEF InPlace
  <2>5. LinkOf(p).kind = "tail"
    BY <1>1, <2>4 DEF LinkOf, Kind
  <2> QED BY <2>2, <2>3, <2>5
<1>2. CASE ~(stroke[id].points # << >> /\ Last(stroke[id].points).isTail)
  BY <1>2 DEF OpenedOf
<1> QED BY <1>1, <1>2

LEMMA TakingKeepsCompleted ==
  ASSUME Shape, InPlace, interp # "idle", NEW q \in Seq(Point),
         stroke' = [stroke EXCEPT ![current].points = q]
  PROVE  /\ stroke'[current].isCompleted /\ stroke[current].isCompleted
         /\ \A id \in DOMAIN stroke : stroke'[id].isCompleted = stroke[id].isCompleted
<1>1. /\ DOMAIN stroke' = DOMAIN stroke /\ Len(stroke') = Len(stroke)
      /\ current \in DOMAIN stroke /\ stroke'[current].points = q
      /\ \A id \in DOMAIN stroke : id # current => stroke'[id] = stroke[id]
  BY TakesOff
<1>2. stroke'[current].isCompleted /\ stroke[current].isCompleted
  <2>1. stroke[current].isCompleted
    BY DEF InPlace
  <2>2. stroke[current] \in Drawn
    BY <1>1, StrokeIs
  <2>3. stroke'[current] = [stroke[current] EXCEPT !.points = q]
    BY <1>1
  <2> QED BY <2>1, <2>2, <2>3 DEF Drawn
<1>3. \A id \in DOMAIN stroke : stroke'[id].isCompleted = stroke[id].isCompleted
  <2> SUFFICES ASSUME NEW id \in DOMAIN stroke
               PROVE  stroke'[id].isCompleted = stroke[id].isCompleted
    OBVIOUS
  <2>1. CASE id = current
    <3>1. stroke'[id].isCompleted \in BOOLEAN /\ stroke[id].isCompleted \in BOOLEAN
      <4>1. stroke[id] \in Drawn /\ stroke'[id] = [stroke[id] EXCEPT !.points = q]
        BY <1>1, <2>1, StrokeIs
      <4> QED BY <4>1 DEF Drawn
    <3> QED BY <1>2, <2>1, <3>1
  <2> QED BY <1>1, <2>1
<1> QED BY <1>2, <1>3

LEMMA TakingKeepsChain ==
  ASSUME Shape, InPlace, Shape', InPlace', ChainFits, interp # "idle", NEW q \in Seq(Point),
         q # << >> => stroke[current].points # << >> /\ Last(q) = Last(stroke[current].points),
         stroke' = [stroke EXCEPT ![current].points = q],
         UNCHANGED <<pen, tablet, net, Lost, rcv, strokes, midStroke, crowded>>
  PROVE  ChainFits'
<1>1. /\ DOMAIN stroke' = DOMAIN stroke /\ Len(stroke') = Len(stroke)
      /\ current \in DOMAIN stroke /\ stroke'[current].points = q
      /\ \A id \in DOMAIN stroke : id # current => stroke'[id] = stroke[id]
  BY TakesOff
<1>2. stroke'[current].isCompleted /\ stroke[current].isCompleted
  BY TakingKeepsCompleted
<1>3. \A id \in DOMAIN stroke : stroke'[id].isCompleted = stroke[id].isCompleted
  BY TakingKeepsCompleted
<1>4. Blocked' <=> Blocked
  <2>1. strokes' = strokes
    OBVIOUS
  <2> QED BY <1>3, <2>1, BlockedStays
<1>5. CASE strokes = << >>
  <2>1. Opened' = Opened
    BY <1>5 DEF Opened
  <2>2. Flow' = Flow
    BY FlowStays DEF tablet
  <2> QED BY <1>4, <2>1, <2>2, FrontKeepsChain DEF pen, tablet
<1>6. CASE strokes # << >>
  <2>1. /\ Opened = OpenedOf(stroke[Len(stroke)]) /\ Opened' = OpenedOf(stroke'[Len(stroke)])
        /\ Len(stroke) \in DOMAIN stroke
    BY <1>1, <1>6, OpenedIs, OpenedIsNext, LastPlace DEF OpenedFits
  <2>2. \/ Opened' = Opened
        \/ Opened' = << >> /\ \E y \in Links : Opened = <<y>> /\ y.kind = "tail"
    <3>1. CASE Len(stroke) # current
      BY <1>1, <2>1, <3>1
    <3>2. CASE Len(stroke) = current /\ q # << >>
      BY <1>1, <1>2, <2>1, <3>2 DEF OpenedOf
    <3>3. CASE Len(stroke) = current /\ q = << >>
      <4>1. Opened' = << >>
        BY <1>1, <1>2, <2>1, <3>3 DEF OpenedOf
      <4>2. Opened = << >> \/ \E y \in Links : Opened = <<y>> /\ y.kind = "tail"
        BY <1>2, <2>1, <3>3, CompletedOpens
      <4> QED BY <4>1, <4>2
    <3> QED BY <3>1, <3>2, <3>3
  <2>3. Flow' = Flow
    BY FlowStays DEF tablet
  <2> QED BY <1>4, <2>2, <2>3, FrontKeepsChain DEF pen, tablet
<1> QED BY <1>5, <1>6

LEMMA InterpretTailKeepsChain ==
  ASSUME Shape, InPlace, Shape', InPlace', ChainFits, InterpretTail PROVE ChainFits'
<1>1. /\ interp = "pair" /\ stroke' = [stroke EXCEPT ![current].points = Tail(stroke[current].points)]
      /\ UNCHANGED <<pen, tablet, net, Lost, rcv, strokes, midStroke, crowded>>
  BY DEF InterpretTail, history, Lost
<1>2. /\ current \in DOMAIN stroke /\ stroke[current].points \in Seq(Point)
      /\ Len(stroke[current].points) >= 2
  <2>1. current = Head(strokes) /\ strokes # << >> /\ Len(stroke[current].points) >= 2
    BY <1>1 DEF Shape, DrawingShape
  <2>2. current \in DOMAIN stroke
    BY <2>1, ListIs
  <2> QED BY <2>1, <2>2, StrokeIs
<1> DEFINE q == Tail(stroke[current].points)
<1>3. q \in Seq(Point) /\ Last(q) = Last(stroke[current].points)
      /\ stroke[current].points # << >>
  BY <1>2, LastOfTail
<1> QED BY <1>1, <1>3, TakingKeepsChain

LEMMA InterpretRestKeepsChain ==
  ASSUME Shape, InPlace, Shape', InPlace', ChainFits, InterpretRest PROVE ChainFits'
<1>1. /\ interp # "idle" /\ stroke' = [stroke EXCEPT ![current].points = << >>]
      /\ UNCHANGED <<pen, tablet, net, Lost, rcv, strokes, midStroke, crowded>>
  BY DEF InterpretRest, history, Lost
<1> QED BY <1>1, NoneTaken, TakingKeepsChain

LEMMA RemoveKeepsChain ==
  ASSUME Shape, InPlace, Shape', InPlace', ChainFits, RemoveStroke PROVE ChainFits'
<1>1. /\ UNCHANGED <<pen, tablet, net, Lost, rcv, stroke, midStroke, crowded>>
      /\ strokes # << >> /\ strokes' = Tail(strokes) /\ current = Head(strokes)
      /\ interp # "idle"
  BY DEF RemoveStroke, history, Lost, Shape, DrawingShape
<1>2. /\ strokes \in Seq(DOMAIN stroke) /\ Head(strokes) = strokes[1]
      /\ Len(strokes) \in Nat /\ Len(strokes) >= 1 /\ Len(strokes') = Len(strokes) - 1
      /\ DOMAIN strokes' = 1 .. Len(strokes) - 1 /\ DOMAIN strokes = 1 .. Len(strokes)
      /\ \A i \in 1 .. Len(strokes) - 1 : strokes'[i] = strokes[i + 1]
  BY <1>1, ListIs, Tails
<1>3. stroke[strokes[1]].isCompleted
  BY <1>1, <1>2 DEF InPlace
<1>4. Blocked => Blocked'
  <2> SUFFICES ASSUME NEW i \in DOMAIN strokes, i < Len(strokes), ~stroke[strokes[i]].isCompleted
               PROVE  Blocked'
    BY DEF Blocked
  <2>1. i # 1
    BY <1>3
  <2>2. /\ i - 1 \in DOMAIN strokes' /\ i - 1 < Len(strokes') /\ strokes'[i - 1] = strokes[i]
    BY <1>2, <2>1
  <2> QED BY <1>1, <2>2 DEF Blocked
<1>5. Blocked' => Blocked
  <2> SUFFICES ASSUME NEW i \in DOMAIN strokes', i < Len(strokes'), ~stroke[strokes'[i]].isCompleted
               PROVE  Blocked
    BY <1>1 DEF Blocked
  <2>1. i + 1 \in DOMAIN strokes /\ i + 1 < Len(strokes) /\ strokes'[i] = strokes[i + 1]
    BY <1>2
  <2> QED BY <2>1 DEF Blocked
<1>6. /\ Opened = OpenedOf(stroke[Len(stroke)]) /\ Len(stroke) \in DOMAIN stroke
      /\ Len(strokes) \in DOMAIN strokes /\ strokes[Len(strokes)] = Len(stroke)
  BY <1>1, OpenedIs, LastPlace DEF OpenedFits
<1>7. \/ Opened' = Opened
      \/ Opened' = << >> /\ \E y \in Links : Opened = <<y>> /\ y.kind = "tail"
  <2>1. CASE strokes' # << >>
    BY <1>1, <1>6, <2>1, OpenedIsNext DEF OpenedFits
  <2>2. CASE strokes' = << >>
    <3>1. Opened' = << >>
      BY <2>2, OpenedIsNext DEF OpenedFits
    <3>2. Len(strokes) = 1
      BY <1>2, <2>2
    <3>3. stroke[Len(stroke)].isCompleted
      BY <1>3, <1>6, <3>2
    <3> QED BY <1>6, <3>1, <3>3, CompletedOpens
  <2> QED BY <2>1, <2>2
<1>8. Flow' = Flow
  BY <1>1, FlowStays DEF tablet
<1> QED BY <1>1, <1>4, <1>5, <1>7, <1>8, FrontKeepsChain DEF pen, tablet

LEMMA ChainStays ==
  ASSUME Shape, InPlace, Shape', InPlace', ChainFits, Flow' = Flow,
         UNCHANGED <<contact, events, penDown, modeCalibration, modeWritable, millis,
                     Lost, midStroke, crowded, rcv, stroke, strokes>>
  PROVE  ChainFits'
<1>1. Opened' = Opened /\ (Blocked' <=> Blocked)
  BY DEF Opened, LastStroke, Blocked
<1> QED BY <1>1, FrontKeepsChain

-----------------------------------------------------------------------------
(* A fault in the middle of the chain. *)
Started == Opened \o InHandLink
ChainAt ==
  /\ Started \in Seq(Links) /\ Len(Started) \in Nat /\ Len(Flow) \in Nat /\ Len(ToCome) \in Nat
  /\ Len(Started) = 0 => Opened = << >>
  /\ Chain \in Seq(Links) /\ Len(Chain) = Len(Started) + Len(Flow) + Len(ToCome)
  /\ \A k \in 1 .. Len(Started) : Chain[k] = Started[k]
  /\ \A k \in 1 .. Len(Flow) : Chain[Len(Started) + k] = LinkIn(Flow[k])
  /\ \A k \in 1 .. Len(ToCome) : Chain[Len(Started) + Len(Flow) + k] = ToCome[k]

LEMMA ChainAtIs == Shape /\ InPlace => ChainAt
<1> SUFFICES ASSUME Shape, InPlace PROVE ChainAt
  OBVIOUS
<1>1. /\ Opened \in Seq(Links) /\ InHandLink \in Seq(Links) /\ Arriving \in Seq(Links)
      /\ Len(Arriving) = Len(Flow) /\ ToCome \in Seq(Links)
  BY ChainIs DEF ChainParts
<1>2. /\ Flow \in Seq(Samples) /\ Len(Flow) \in Nat /\ DOMAIN Flow = 1 .. Len(Flow)
  BY FlowIs
<1>3. \A k \in 1 .. Len(Flow) : Arriving[k] = LinkIn(Flow[k])
  BY <1>2 DEF Arriving
<1>4. Started \in Seq(Links) /\ Len(Started) = Len(Opened) + Len(InHandLink)
  BY <1>1, Concatenation DEF Started
<1>5. Len(Started) = 0 => Opened = << >>
  <2>1. Len(Opened) \in Nat /\ Len(InHandLink) \in Nat
    BY <1>1
  <2>2. Len(Opened) = 0 => Opened = << >>
    BY <1>1, EmptySeq
  <2> QED BY <1>4, <2>1, <2>2
<1>6. Len(Started) \in Nat /\ Len(ToCome) \in Nat
  BY <1>1, <1>4
<1> DEFINE b == Started \o Arriving
<1>7. /\ b \in Seq(Links) /\ Len(b) = Len(Started) + Len(Flow)
      /\ \A k \in 1 .. Len(Started) + Len(Flow) :
           b[k] = IF k <= Len(Started) THEN Started[k] ELSE Arriving[k - Len(Started)]
  <2>1. Arriving \in Seq(Links) /\ Started \in Seq(Links)
    BY <1>1, <1>4
  <2>2. /\ b \in Seq(Links) /\ Len(b) = Len(Started) + Len(Arriving)
        /\ \A k \in 1 .. Len(Started) + Len(Arriving) :
             b[k] = IF k <= Len(Started) THEN Started[k] ELSE Arriving[k - Len(Started)]
    BY <2>1, Concatenation
  <2>3. Len(Arriving) = Len(Flow)
    BY <1>1
  <2> HIDE DEF b
  <2> QED BY <2>2, <2>3
<1>8. Chain = b \o ToCome
  BY DEF Chain, Started
<1> HIDE DEF b
<1>9. /\ Chain \in Seq(Links) /\ Len(Chain) = Len(b) + Len(ToCome)
      /\ \A k \in 1 .. Len(b) + Len(ToCome) :
           Chain[k] = IF k <= Len(b) THEN b[k] ELSE ToCome[k - Len(b)]
  <2>1. b \in Seq(Links) /\ ToCome \in Seq(Links)
    BY <1>1, <1>7
  <2> QED BY <1>8, <2>1, Concatenation
<1>10. ASSUME NEW k \in 1 .. Len(Started) PROVE Chain[k] = Started[k]
  <2>1. k \in 1 .. Len(b) + Len(ToCome) /\ k \in 1 .. Len(Started) + Len(Flow) /\ k <= Len(b)
    BY <1>2, <1>6, <1>7
  <2> QED BY <1>7, <1>9, <2>1
<1>11. ASSUME NEW k \in 1 .. Len(Flow) PROVE Chain[Len(Started) + k] = LinkIn(Flow[k])
  <2>1. /\ Len(Started) + k \in 1 .. Len(b) + Len(ToCome) /\ Len(Started) + k <= Len(b)
        /\ Len(Started) + k \in 1 .. Len(Started) + Len(Flow)
        /\ ~(Len(Started) + k <= Len(Started)) /\ Len(Started) + k - Len(Started) = k
    BY <1>2, <1>6, <1>7
  <2> QED BY <1>3, <1>7, <1>9, <2>1
<1>12. ASSUME NEW k \in 1 .. Len(ToCome)
       PROVE  Chain[Len(Started) + Len(Flow) + k] = ToCome[k]
  <2>1. /\ Len(b) + k \in 1 .. Len(b) + Len(ToCome) /\ ~(Len(b) + k <= Len(b))
        /\ Len(b) + k - Len(b) = k
    BY <1>2, <1>6, <1>7
  <2> QED BY <1>7, <1>9, <2>1
<1> QED BY <1>2, <1>4, <1>5, <1>6, <1>7, <1>9, <1>10, <1>11, <1>12 DEF ChainAt
LEMMA ChainAtIsNext == (Shape /\ InPlace)' => ChainAt'
  BY ChainAtIs, PTL

LEMMA FaultInFlow ==
  ASSUME Shape, Shape', NetFault
  PROVE  \E i \in 1 .. Len(Flow) : LosesAt(i) \/ DoublesAt(i) \/ SwapsAt(i)
<1> DEFINE n == Len(net)
           m == Len(tabletInputData)
<1>1. /\ net \in Seq(Samples) /\ DOMAIN net = 1 .. n /\ UNCHANGED tabletInputData
      /\ \E i \in DOMAIN net :
           \/ net' = RemoveAt(net, i)
           \/ net' = InsertAt(net, i, net[i])
           \/ i < Len(net) /\ net' = [net EXCEPT ![i] = net[i + 1], ![i + 1] = net[i]]
  BY DEF NetFault, Shape, QueueShape, tablet
<1>2. /\ n \in Nat /\ m \in Nat /\ Len(Flow) = n + m
      /\ \A k \in 1 .. n + m : Flow[k] = IF k <= n THEN net[k] ELSE tabletInputData[k - n]
  BY FlowPartsIs DEF FlowParts
<1>3. /\ Len(net') \in Nat /\ Len(Flow') = Len(net') + m
      /\ \A k \in 1 .. Len(net') + m :
           Flow'[k] = IF k <= Len(net') THEN net'[k] ELSE tabletInputData[k - Len(net')]
  BY <1>1, FlowPartsIsNext DEF FlowParts
<1>4. PICK i \in 1 .. n :
         \/ net' = RemoveAt(net, i)
         \/ net' = InsertAt(net, i, net[i])
         \/ i < n /\ net' = [net EXCEPT ![i] = net[i + 1], ![i + 1] = net[i]]
  BY <1>1
<1>5. i \in DOMAIN net /\ i \in 1 .. Len(Flow) /\ i \in Int /\ i <= n
  BY <1>1, <1>2
<1> HIDE DEF n, m
<1>6. CASE net' = RemoveAt(net, i)
  <2>1. Len(net') = n - 1 /\ \A k \in 1 .. n - 1 : net'[k] = IF k < i THEN net[k] ELSE net[k + 1]
    BY <1>1, <1>5, <1>6, FaultMoves DEF n
  <2>2. ASSUME NEW k \in 1 .. Len(Flow) - 1
        PROVE  Flow'[k] = IF k < i THEN Flow[k] ELSE Flow[k + 1]
    <3>1. /\ k \in 1 .. n + m /\ k + 1 \in 1 .. n + m /\ k \in 1 .. Len(net') + m
          /\ Len(net') = n - 1
      BY <1>2, <1>3, <2>1
    <3>2. CASE k <= n - 1
      <4>1. k \in 1 .. n - 1 /\ k <= n /\ k + 1 <= n
        BY <1>2, <3>2
      <4>2. Flow'[k] = net'[k] /\ Flow[k] = net[k] /\ Flow[k + 1] = net[k + 1]
        BY <1>2, <1>3, <3>1, <3>2, <4>1
      <4> QED BY <2>1, <4>1, <4>2
    <3>3. CASE k > n - 1
      <4>1. ~(k < i) /\ ~(k <= Len(net')) /\ ~(k + 1 <= n) /\ (k + 1) - n = k - Len(net')
        <5>1. n \in Nat /\ k \in Int /\ i \in Int /\ i <= n /\ Len(net') = n - 1
          BY <1>2, <1>5, <3>1
        <5> QED BY <3>3, <5>1
      <4> QED BY <1>2, <1>3, <3>1, <4>1
    <3> QED BY <1>2, <3>2, <3>3
  <2>3. Len(Flow') = Len(Flow) - 1
    BY <1>2, <1>3, <2>1
  <2> QED BY <1>5, <2>2, <2>3 DEF LosesAt
<1>7. CASE net' = InsertAt(net, i, net[i])
  <2>1. Len(net') = n + 1 /\ \A k \in 1 .. n + 1 : net'[k] = IF k <= i THEN net[k] ELSE net[k - 1]
    BY <1>1, <1>5, <1>7, FaultMoves DEF n
  <2>2. ASSUME NEW k \in 1 .. Len(Flow) + 1
        PROVE  Flow'[k] = IF k <= i THEN Flow[k] ELSE Flow[k - 1]
    <3>1. /\ k \in 1 .. Len(net') + m /\ Len(net') = n + 1
          /\ k <= i => k \in 1 .. n + m
          /\ ~(k <= i) => k - 1 \in 1 .. n + m
      BY <1>2, <1>3, <1>4, <2>1
    <3>2. CASE k <= n + 1
      <4>1. k \in 1 .. n + 1 /\ (k <= i => k <= n) /\ k - 1 <= n
        BY <1>2, <1>5, <3>2
      <4>2. /\ Flow'[k] = net'[k] /\ (k <= i => Flow[k] = net[k])
            /\ ~(k <= i) => Flow[k - 1] = net[k - 1]
        BY <1>2, <1>3, <3>1, <3>2, <4>1
      <4> QED BY <2>1, <4>1, <4>2
    <3>3. CASE k > n + 1
      <4>1. ~(k <= i) /\ ~(k <= Len(net')) /\ ~(k - 1 <= n) /\ (k - 1) - n = k - Len(net')
        <5>1. n \in Nat /\ k \in Int /\ i \in Int /\ i <= n /\ Len(net') = n + 1
          BY <1>2, <1>5, <3>1
        <5> QED BY <3>3, <5>1
      <4> QED BY <1>2, <1>3, <3>1, <4>1
    <3> QED BY <1>2, <3>2, <3>3
  <2>3. Len(Flow') = Len(Flow) + 1
    BY <1>2, <1>3, <2>1
  <2> QED BY <1>5, <2>2, <2>3 DEF DoublesAt
<1>8. CASE i < n /\ net' = [net EXCEPT ![i] = net[i + 1], ![i + 1] = net[i]]
  <2>1. /\ Len(net') = n
        /\ \A k \in 1 .. n : net'[k] = IF k = i THEN net[i + 1]
                                       ELSE IF k = i + 1 THEN net[i] ELSE net[k]
    BY <1>1, <1>5, <1>8, FaultMoves DEF n
  <2>2. ASSUME NEW k \in 1 .. Len(Flow)
        PROVE  Flow'[k] = IF k = i THEN Flow[i + 1]
                          ELSE IF k = i + 1 THEN Flow[i] ELSE Flow[k]
    <3>1. /\ k \in 1 .. n + m /\ Len(net') = n /\ i + 1 \in 1 .. n + m /\ i \in 1 .. n + m
          /\ i <= n /\ i + 1 <= n
      BY <1>2, <1>4, <1>8, <2>1
    <3>2. CASE k <= n
      <4>1. k \in 1 .. n
        BY <1>2, <3>2
      <4>2. Flow'[k] = net'[k] /\ Flow[k] = net[k] /\ Flow[i] = net[i] /\ Flow[i + 1] = net[i + 1]
        BY <1>2, <1>3, <3>1, <3>2
      <4> QED BY <2>1, <4>1, <4>2
    <3>3. CASE k > n
      <4>1. k # i /\ k # i + 1
        BY <1>2, <3>1, <3>3
      <4> QED BY <1>2, <1>3, <3>1, <3>3, <4>1
    <3> QED BY <1>2, <3>2, <3>3
  <2>3. Len(Flow') = Len(Flow) /\ i < Len(Flow)
    BY <1>2, <1>3, <1>8, <2>1
  <2> QED BY <1>5, <2>2, <2>3 DEF SwapsAt
<1> QED BY <1>4, <1>6, <1>7, <1>8

(* A fault, the first one, spares the chain from getting mixed up. *)
LEMMA FaultKeepsChain ==
  ASSUME Shape, InPlace, Shape', InPlace', ChainFits, Lost \in Nat, Lost' = Lost + 1,
         UNCHANGED <<penDown, modeCalibration, modeWritable, contact, events, millis,
                     midStroke, crowded, rcv, stroke, strokes>>,
         \E i \in 1 .. Len(Flow) : LosesAt(i) \/ DoublesAt(i) \/ SwapsAt(i)
  PROVE  ChainFits'
<1>1. /\ UNCHANGED <<penDown, modeCalibration, modeWritable, contact, events, millis,
                     midStroke, crowded, rcv, stroke, strokes>>
      /\ Lost \in Nat /\ Lost' = Lost + 1
  OBVIOUS
<1> SUFFICES ASSUME Lucky' PROVE Lost' # 0 /\ ChainHolds(Chain')
  BY DEF ChainFits, Fit
<1>2. Lost = 0 /\ Lost' # 0 /\ Lucky
  BY <1>1 DEF Lucky
<1>3. ~Blocked /\ Led /\ Perfect(Chain)
  BY <1>2 DEF ChainFits, Fit
<1>4. Started' = Started /\ ToCome' = ToCome
  <2>1. Opened' = Opened /\ InHandLink' = InHandLink
    BY <1>1 DEF Opened, LastStroke, InHandLink
  <2> QED BY <1>1, <2>1, ToComeStays DEF Started
<1> DEFINE n == Len(Started)
           f == Len(Flow)
           g == Len(Flow')
           c == Len(ToCome)
<1>5. /\ n \in Nat /\ f \in Nat /\ c \in Nat /\ (n = 0 => Opened = << >>)
      /\ Chain \in Seq(Links) /\ Len(Chain) = n + f + c
      /\ \A k \in 1 .. n : Chain[k] = Started[k]
      /\ \A k \in 1 .. f : Chain[n + k] = LinkIn(Flow[k])
      /\ \A k \in 1 .. c : Chain[n + f + k] = ToCome[k]
  BY ChainAtIs DEF ChainAt
<1>6. /\ g \in Nat /\ Chain' \in Seq(Links) /\ Len(Chain') = n + g + c
      /\ \A k \in 1 .. n : Chain'[k] = Started[k]
      /\ \A k \in 1 .. g : Chain'[n + k] = LinkIn(Flow'[k])
      /\ \A k \in 1 .. c : Chain'[n + g + k] = ToCome[k]
  BY <1>4, ChainAtIsNext DEF ChainAt
<1>7. PICK i \in 1 .. f : LosesAt(i) \/ DoublesAt(i) \/ SwapsAt(i)
  OBVIOUS
<1>8. /\ DOMAIN Chain = 1 .. n + f + c /\ DOMAIN Chain' = 1 .. n + g + c
      /\ i \in Int /\ 1 <= i /\ i <= f /\ n + i \in DOMAIN Chain
  BY <1>5, <1>6, <1>7
<1> HIDE DEF n, f, g, c
<1>8a. n \in Nat /\ f \in Nat /\ g \in Nat /\ c \in Nat /\ i \in Int /\ 1 <= i /\ i <= f
  BY <1>5, <1>6, <1>8
<1>9. CASE LosesAt(i)
  <2>1. g = f - 1 /\ \A k \in 1 .. f - 1 : Flow'[k] = IF k < i THEN Flow[k] ELSE Flow[k + 1]
    BY <1>9 DEF LosesAt, f, g
  <2>1a. g = f - 1
    BY <2>1
  <2>2. ASSUME NEW k \in DOMAIN Chain'
        PROVE  Chain'[k] = IF k < n + i THEN Chain[k] ELSE Chain[k + 1]
    <3>0. k \in 1 .. n + g + c
      BY <1>8
    <3>1. CASE k <= n
      <4>1. k \in 1 .. n /\ k < n + i
        BY <1>8a, <3>0, <3>1
      <4> QED BY <1>5, <1>6, <4>1
    <3>2. CASE n < k /\ k <= n + g
      <4> DEFINE l == k - n
      <4>1. /\ l \in 1 .. g /\ l \in 1 .. f - 1 /\ n + l = k /\ n + (l + 1) = k + 1
            /\ l \in 1 .. f /\ l + 1 \in 1 .. f /\ (k < n + i <=> l < i)
        BY <1>8a, <2>1a, <3>0, <3>2
      <4> HIDE DEF l
      <4>2. /\ Chain'[n + l] = LinkIn(Flow'[l]) /\ Chain[n + l] = LinkIn(Flow[l])
            /\ Chain[n + (l + 1)] = LinkIn(Flow[l + 1])
        BY <1>5, <1>6, <4>1
      <4> QED BY <2>1, <4>1, <4>2
    <3>3. CASE n + g < k
      <4> DEFINE l == k - n - g
      <4>1. /\ l \in 1 .. c /\ n + g + l = k /\ n + f + l = k + 1 /\ ~(k < n + i)
        BY <1>8a, <2>1a, <3>0, <3>3
      <4> HIDE DEF l
      <4>2. Chain'[n + g + l] = ToCome[l] /\ Chain[n + f + l] = ToCome[l]
        BY <1>5, <1>6, <4>1
      <4> QED BY <4>1, <4>2
    <3> QED BY <1>8a, <3>0, <3>1, <3>2, <3>3
  <2>3. Len(Chain') = Len(Chain) - 1
    BY <1>5, <1>6, <2>1
  <2>4. Without(Chain, Chain', n + i)
    BY <1>6, <1>8, <2>2, <2>3 DEF Without
  <2> QED BY <1>2, <1>3, <1>5, <2>4, LossKeepsChain
<1>10. CASE DoublesAt(i)
  <2>1. g = f + 1 /\ \A k \in 1 .. f + 1 : Flow'[k] = IF k <= i THEN Flow[k] ELSE Flow[k - 1]
    BY <1>10 DEF DoublesAt, f, g
  <2>1a. g = f + 1
    BY <2>1
  <2>2. ASSUME NEW k \in DOMAIN Chain'
        PROVE  Chain'[k] = IF k <= n + i THEN Chain[k] ELSE Chain[k - 1]
    <3>0. k \in 1 .. n + g + c
      BY <1>8
    <3>1. CASE k <= n
      <4>1. k \in 1 .. n /\ k <= n + i
        BY <1>8a, <3>0, <3>1
      <4> QED BY <1>5, <1>6, <4>1
    <3>2. CASE n < k /\ k <= n + g
      <4> DEFINE l == k - n
      <4>1. /\ l \in 1 .. g /\ l \in 1 .. f + 1 /\ n + l = k /\ n + (l - 1) = k - 1
            /\ (k <= n + i <=> l <= i) /\ (l <= i => l \in 1 .. f)
            /\ ~(l <= i) => l - 1 \in 1 .. f
        BY <1>8a, <2>1a, <3>0, <3>2
      <4> HIDE DEF l
      <4>2. /\ Chain'[n + l] = LinkIn(Flow'[l])
            /\ l <= i => Chain[n + l] = LinkIn(Flow[l])
            /\ ~(l <= i) => Chain[n + (l - 1)] = LinkIn(Flow[l - 1])
        BY <1>5, <1>6, <4>1
      <4> QED BY <2>1, <4>1, <4>2
    <3>3. CASE n + g < k
      <4> DEFINE l == k - n - g
      <4>1. /\ l \in 1 .. c /\ n + g + l = k /\ n + f + l = k - 1 /\ ~(k <= n + i)
        BY <1>8a, <2>1a, <3>0, <3>3
      <4> HIDE DEF l
      <4>2. Chain'[n + g + l] = ToCome[l] /\ Chain[n + f + l] = ToCome[l]
        BY <1>5, <1>6, <4>1
      <4> QED BY <4>1, <4>2
    <3> QED BY <1>8a, <3>0, <3>1, <3>2, <3>3
  <2>3. Len(Chain') = Len(Chain) + 1
    BY <1>5, <1>6, <2>1
  <2>4. Doubled(Chain, Chain', n + i)
    BY <1>6, <1>8, <2>2, <2>3 DEF Doubled
  <2> QED BY <1>2, <1>3, <1>5, <2>4, CopyKeepsChain
<1>11. CASE SwapsAt(i)
  <2>1. /\ i < f /\ g = f
        /\ \A k \in 1 .. f : Flow'[k] = IF k = i THEN Flow[i + 1]
                                        ELSE IF k = i + 1 THEN Flow[i] ELSE Flow[k]
    BY <1>11 DEF SwapsAt, f, g
  <2>1a. g = f /\ i < f
    BY <2>1
  <2>2. ASSUME NEW k \in DOMAIN Chain'
        PROVE  Chain'[k] = IF k = n + i THEN Chain[n + i + 1]
                           ELSE IF k = n + i + 1 THEN Chain[n + i] ELSE Chain[k]
    <3>0. k \in 1 .. n + g + c
      BY <1>8
    <3>1. CASE k <= n
      <4>1. k \in 1 .. n /\ k # n + i /\ k # n + i + 1
        BY <1>8a, <3>0, <3>1
      <4> QED BY <1>5, <1>6, <4>1
    <3>2. CASE n < k /\ k <= n + g
      <4> DEFINE l == k - n
      <4>1. /\ l \in 1 .. g /\ l \in 1 .. f /\ n + l = k /\ n + (i + 1) = n + i + 1
            /\ (k = n + i <=> l = i) /\ (k = n + i + 1 <=> l = i + 1)
            /\ i \in 1 .. f /\ i + 1 \in 1 .. f
        BY <1>8a, <2>1a, <3>0, <3>2
      <4> HIDE DEF l
      <4>2. /\ Chain'[n + l] = LinkIn(Flow'[l]) /\ Chain[n + l] = LinkIn(Flow[l])
            /\ Chain[n + i] = LinkIn(Flow[i]) /\ Chain[n + (i + 1)] = LinkIn(Flow[i + 1])
        BY <1>5, <1>6, <4>1
      <4> QED BY <2>1, <4>1, <4>2
    <3>3. CASE n + g < k
      <4> DEFINE l == k - n - g
      <4>1. /\ l \in 1 .. c /\ n + g + l = k /\ n + f + l = k /\ k # n + i /\ k # n + i + 1
        BY <1>8a, <2>1a, <3>0, <3>3
      <4> HIDE DEF l
      <4>2. Chain'[n + g + l] = ToCome[l] /\ Chain[n + f + l] = ToCome[l]
        BY <1>5, <1>6, <4>1
      <4> QED BY <4>1, <4>2
    <3> QED BY <1>8a, <3>0, <3>1, <3>2, <3>3
  <2>3. Len(Chain') = Len(Chain) /\ n + i + 1 \in DOMAIN Chain
    BY <1>5, <1>6, <1>8, <2>1
  <2>4. Swapped(Chain, Chain', n + i)
    BY <1>6, <1>8, <2>2, <2>3 DEF Swapped
  <2>5. n + i = 1 => Chain[1].kind # "tail"
    <3> SUFFICES ASSUME n + i = 1 PROVE Chain[1].kind # "tail"
      OBVIOUS
    <3>1. n = 0 /\ Chain # << >>
      BY <1>5, <1>8
    <3> QED BY <1>3, <1>5, <3>1 DEF Led
  <2> QED BY <1>2, <1>3, <1>5, <2>4, <2>5, OvertakingKeepsChain
<1> QED BY <1>7, <1>9, <1>10, <1>11

LEMMA AnyFaultKeepsChain ==
  ASSUME Shape, Counts, InPlace, Shape', InPlace', ChainFits, ~mixed',
         NetFault \/ OscRace
  PROVE  ChainFits'
<1>1. UNCHANGED <<penDown, modeCalibration, modeWritable, contact, events, millis,
                  midStroke, crowded, rcv, stroke, strokes>>
  BY DEF NetFault, OscRace, pen, tablet, history, drawing
<1>2. Lost \in Nat /\ Lost' = Lost + 1
  <2>1. faults' = faults + 1 /\ races' = races /\ faults \in Nat /\ races \in Nat
    BY Positive DEF NetFault, OscRace, history, Shape, QueueShape, Counts
  <2> QED BY <2>1 DEF Lost
<1>3. \E i \in 1 .. Len(Flow) : LosesAt(i) \/ DoublesAt(i) \/ SwapsAt(i)
  BY FaultInFlow, OscRaceInFlow
<1> QED BY <1>1, <1>2, <1>3, FaultKeepsChain

(* A point given up is one more datum that is lost. *)
LEMMA GivenUpKeepsChain ==
  ASSUME Shape, Counts, InPlace, Shape', InPlace', ChainFits, Receive, races' # races
  PROVE  ChainFits'
<1>1. AddPointLoad(Head(net))
  BY DEF Receive, ReceiveCalibration, AddStroke
<1>2. UNCHANGED <<penDown, modeCalibration, modeWritable, contact, events, millis,
                  midStroke, crowded, rcv, stroke, strokes>>
      /\ faults' = faults /\ races' = races + 1
  BY <1>1 DEF Receive, AddPointLoad, pen, tablet, drawing
<1>3. Lost \in Nat /\ Lost' = Lost + 1
  <2>1. faults \in Nat /\ races \in Nat
    BY Positive DEF Shape, QueueShape, Counts
  <2> QED BY <1>2, <2>1 DEF Lost
<1>4. /\ Len(Flow) \in Nat /\ DOMAIN Flow' = 1 .. Len(Flow) - 1
      /\ \A k \in DOMAIN Flow' : k + 1 \in DOMAIN Flow /\ Flow'[k] = Flow[k + 1]
  BY ReceiverTakes
<1>5. Len(Flow') = Len(Flow) - 1 /\ 1 \in 1 .. Len(Flow)
  <2>1. /\ Len(Flow) = Len(net) + Len(tabletInputData) /\ Len(net) \in Nat
        /\ Len(Flow') = Len(net') + Len(tabletInputData') /\ Len(tabletInputData) \in Nat
    BY FlowPartsIs, FlowPartsIsNext DEF FlowParts
  <2>2. /\ tabletInputData' = tabletInputData /\ Len(net') = Len(net) - 1 /\ Len(net) >= 1
    BY Tails DEF Receive, tablet, Shape, QueueShape
  <2> QED BY <2>1, <2>2
<1>6. LosesAt(1)
  BY <1>4, <1>5 DEF LosesAt
<1> QED BY <1>2, <1>3, <1>5, <1>6, FaultKeepsChain

-----------------------------------------------------------------------------
(* The end of the chain, where the pen adds to it. *)
(* What the pen adds to a chain. *)
LEMMA FitOther ==
  ASSUME NEW calm, NEW s \in Seq(Links), NEW x \in Links, x.kind = "other",
         Fit(s, calm, TRUE)
  PROVE  Fit(Append(s, x), calm, TRUE)
<1> DEFINE t == Append(s, x)
<1>1. Added(s, x, t)
  BY DEF Added
<1> HIDE DEF t
<1>2. ChainHolds(t)
  BY <1>1, OpeningKeepsChain DEF Fit
<1>3. calm => Perfect(t) /\ Ended(t)
  BY <1>1, OtherKeepsPerfect DEF Fit
<1> QED BY <1>2, <1>3 DEF Fit, t

LEMMA FitPoint ==
  ASSUME NEW calm, NEW s \in Seq(Links), NEW x \in Links, x.kind = "point",
         s # << >>, s[Len(s)].kind \in {"head", "point"}, Contact(x) = Contact(s[Len(s)]),
         \A k \in DOMAIN s : s[k].millis < x.millis /\ s[k].event # x.event,
         Fit(s, calm, FALSE)
  PROVE  Fit(Append(s, x), calm, FALSE)
<1> DEFINE t == Append(s, x)
<1>1. Added(s, x, t)
  BY DEF Added
<1> HIDE DEF t
<1>2. ChainHolds(t)
  BY <1>1, PointKeepsChain DEF Fit
<1>3. calm => Perfect(t)
  BY <1>1, PointKeepsPerfect DEF Fit
<1> QED BY <1>2, <1>3 DEF Fit, t

LEMMA FitHead ==
  ASSUME NEW calm, NEW s \in Seq(Links), NEW x \in Links, x.kind = "head",
         \A k \in DOMAIN s : Contact(s[k]) < Contact(x),
         calm => \A k \in DOMAIN s : s[k].millis < x.millis,
         Fit(s, calm, TRUE)
  PROVE  Fit(Append(s, x), calm, FALSE)
<1> DEFINE t == Append(s, x)
<1>1. Added(s, x, t)
  BY DEF Added
<1> HIDE DEF t
<1>2. ChainHolds(t)
  BY <1>1, OpeningKeepsChain DEF Fit
<1>3. calm => Perfect(t)
  BY <1>1, HeadKeepsPerfect DEF Fit
<1> QED BY <1>2, <1>3 DEF Fit, t

LEMMA FitTail ==
  ASSUME NEW calm, NEW s \in Seq(Links), NEW t \in Seq(Links), Ends(s, t),
         \A k \in DOMAIN s : k < Len(s) => s[k].event # s[Len(s)].event,
         Fit(s, calm, FALSE)
  PROVE  Fit(t, calm, TRUE)
<1>1. ChainHolds(t)
  BY EndingKeepsChain DEF Fit
<1>2. calm => Perfect(t) /\ Ended(t)
  BY EndingKeepsPerfect DEF Fit
<1> QED BY <1>1, <1>2 DEF Fit

(* A perfect chain does not consist of a point alone. *)
LEMMA NoPointFirst ==
  ASSUME NEW s \in Seq(Links), Perfect(s), s # << >>
  PROVE  s[1].kind # "point"
<1> SUFFICES ASSUME s[1].kind = "point" PROVE FALSE
  OBVIOUS
<1>1. 1 \in DOMAIN s /\ DOMAIN s \subseteq Nat \ {0}
  OBVIOUS
<1>2. Further(s, 1)
  BY DEF Further
<1>3. \E i \in DOMAIN s : i < 1
  BY <1>1, <1>2 DEF Perfect
<1> QED BY <1>1, <1>3

(* What there is without what the pen will do. *)
Base == Started \o Arriving
Expected == [event |-> <<contact, events + 1>>, millis |-> millis + 1, kind |-> "point"]
BaseParts ==
  /\ Base \in Seq(Links) /\ Expected \in Links
  /\ Started \in Seq(Links) /\ Arriving \in Seq(Links)
  /\ Writing => Chain = Append(Base, Expected)
  /\ ~Writing => Chain = Base

LEMMA BaseIs == Shape /\ InPlace => BaseParts
<1> SUFFICES ASSUME Shape, InPlace PROVE BaseParts
  OBVIOUS
<1>1. /\ Opened \in Seq(Links) /\ InHandLink \in Seq(Links) /\ Arriving \in Seq(Links)
  BY ChainIs DEF ChainParts
<1>2. Started \in Seq(Links)
  BY <1>1, Concatenation DEF Started
<1>3. Base \in Seq(Links)
  BY <1>1, <1>2, Concatenation DEF Base
<1>4. Expected \in Links
  BY ClockIs DEF Expected, Links, Times
<1>5. Chain = Base \o ToCome
  BY DEF Chain, Base, Started
<1>6. ToCome = IF Writing THEN <<Expected>> ELSE << >>
  BY DEF ToCome, Expected
<1>7. Writing => Chain = Append(Base, Expected)
  <2> SUFFICES ASSUME Writing PROVE Chain = Append(Base, Expected)
    OBVIOUS
  <2>1. Chain = Base \o <<Expected>>
    BY <1>5, <1>6
  <2>2. \A b \in Seq(Links), x \in Links : b \o <<x>> = Append(b, x)
    <3> SUFFICES ASSUME NEW b \in Seq(Links), NEW x \in Links PROVE b \o <<x>> = Append(b, x)
      OBVIOUS
    <3>1. <<x>> \in Seq(Links) /\ Len(<<x>>) = 1 /\ <<x>>[1] = x /\ Len(b) \in Nat
      OBVIOUS
    <3>2. /\ b \o <<x>> \in Seq(Links) /\ Len(b \o <<x>>) = Len(b) + 1
          /\ \A k \in 1 .. Len(b) + 1 : (b \o <<x>>)[k] = IF k <= Len(b) THEN b[k] ELSE <<x>>[k - Len(b)]
      BY <3>1, Concatenation
    <3>3. /\ Append(b, x) \in Seq(Links) /\ Len(Append(b, x)) = Len(b) + 1
          /\ \A k \in 1 .. Len(b) : Append(b, x)[k] = b[k]
          /\ Append(b, x)[Len(b) + 1] = x
      BY Appends
    <3> DEFINE c == b \o <<x>>
               d == Append(b, x)
    <3>4. ASSUME NEW k \in 1 .. Len(c) PROVE c[k] = d[k]
      <4>1. CASE k <= Len(b)
        BY <3>1, <3>2, <3>3, <3>4, <4>1
      <4>2. CASE ~(k <= Len(b))
        <5>1. k = Len(b) + 1 /\ k - Len(b) = 1
          BY <3>1, <3>2, <3>4, <4>2
        <5> QED BY <3>1, <3>2, <3>3, <4>2, <5>1
      <4> QED BY <4>1, <4>2
    <3> HIDE DEF c, d
    <3>5. c \in Seq(Links) /\ d \in Seq(Links) /\ Len(c) = Len(d)
      BY <3>2, <3>3 DEF c, d
    <3>6. c = d
      BY <3>4, <3>5, SeqEqual
    <3> QED BY <3>6 DEF c, d
  <2> QED BY <1>3, <1>4, <2>1, <2>2
<1>8. ~Writing => Chain = Base
  BY <1>3, <1>5, <1>6, ConcatEmptySeq
<1> QED BY <1>1, <1>2, <1>3, <1>4, <1>7, <1>8 DEF BaseParts
LEMMA BaseIsNext == (Shape /\ InPlace)' => BaseParts'
  BY BaseIs, PTL

LEMMA BaseAged ==
  ASSUME Shape, InPlace, MadeFits, NEW k \in DOMAIN Base
  PROVE  /\ Base[k] \in Links /\ Base[k].event \in Events /\ AtOrBefore(Base[k].event, Now)
         /\ Base[k].millis <= millis + 1 /\ (Early => Base[k].millis <= millis)
<1>1. /\ Opened \in Seq(Links) /\ InHandLink \in Seq(Links) /\ Arriving \in Seq(Links)
  BY ChainIs DEF ChainParts
<1>2. \/ \E j \in DOMAIN Opened : Base[k] = Opened[j]
      \/ \E j \in DOMAIN InHandLink : Base[k] = InHandLink[j]
      \/ \E j \in DOMAIN Arriving : Base[k] = Arriving[j]
  <2>1. /\ Started \in Seq(Links) /\ Len(Started) = Len(Opened) + Len(InHandLink)
        /\ \A j \in 1 .. Len(Opened) + Len(InHandLink) :
             Started[j] = IF j <= Len(Opened) THEN Opened[j] ELSE InHandLink[j - Len(Opened)]
    BY <1>1, Concatenation DEF Started
  <2>2. /\ Base \in Seq(Links) /\ Len(Base) = Len(Started) + Len(Arriving)
        /\ \A j \in 1 .. Len(Started) + Len(Arriving) :
             Base[j] = IF j <= Len(Started) THEN Started[j] ELSE Arriving[j - Len(Started)]
    <3>1. Started \in Seq(Links) /\ Arriving \in Seq(Links)
      BY <1>1, <2>1
    <3> QED BY <3>1, Concatenation DEF Base
  <2>3. k \in 1 .. Len(Started) + Len(Arriving) /\ Len(Started) \in Nat /\ Len(Arriving) \in Nat
        /\ Len(Opened) \in Nat /\ Len(InHandLink) \in Nat
    BY <1>1, <2>1, <2>2
  <2>4. CASE k <= Len(Started)
    <3>1. k \in 1 .. Len(Opened) + Len(InHandLink) /\ Base[k] = Started[k]
      BY <2>1, <2>2, <2>3, <2>4
    <3>2. CASE k <= Len(Opened)
      <4>1. k \in DOMAIN Opened
        BY <1>1, <2>3, <3>2
      <4> QED BY <2>1, <3>1, <3>2, <4>1
    <3>3. CASE ~(k <= Len(Opened))
      <4>1. k - Len(Opened) \in DOMAIN InHandLink
        BY <1>1, <2>3, <3>1, <3>3
      <4> QED BY <2>1, <3>1, <3>3, <4>1
    <3> QED BY <3>2, <3>3
  <2>5. CASE ~(k <= Len(Started))
    <3>1. k - Len(Started) \in DOMAIN Arriving
      BY <1>1, <2>3, <2>5
    <3> QED BY <2>2, <2>3, <2>5, <3>1
  <2> QED BY <2>4, <2>5
<1>3. ASSUME NEW x \in Made PROVE x \in Links /\ x.event \in Events /\ AtOrBefore(x.event, Now) /\ x.millis <= millis + 1
  BY <1>3, MadeIs DEF MadeFits, Made
<1>4. ASSUME NEW x \in Timed PROVE x \in Links /\ x.event \in Events /\ AtOrBefore(x.event, Now) /\ x.millis <= millis
                                  /\ x.millis <= millis + 1
  <2>1. x \in Links /\ x.event \in Events /\ AtOrBefore(x.event, Now) /\ x.millis <= millis
    BY <1>4, MadeIs DEF MadeFits, Timed
  <2>2. x.millis \in Nat /\ millis \in Nat
    BY <2>1, ClockIs DEF Links
  <2> QED BY <2>1, <2>2
<1>5. ASSUME NEW j \in DOMAIN Opened, Base[k] = Opened[j] PROVE Base[k] \in Made /\ (Early => Base[k].millis <= millis)
  <2>1. strokes # << >>
    BY OpenedIs DEF OpenedFits
  <2>2. Opened = OpenedOf(stroke[Len(stroke)]) /\ Len(stroke) \in DOMAIN stroke
    BY <2>1, OpenedIs, LastPlace DEF OpenedFits
  <2>3. \E l \in DOMAIN stroke[Len(stroke)].points : Opened = <<LinkOf(stroke[Len(stroke)].points[l])>>
    <3>1. stroke[Len(stroke)].points \in Seq(Point)
      BY <2>2, StrokeIs
    <3>2. CASE ~stroke[Len(stroke)].isCompleted
      <4>1. stroke[Len(stroke)].points # << >>
        BY <2>2, <3>2 DEF InPlace
      <4>2. 1 \in DOMAIN stroke[Len(stroke)].points
        BY <3>1, <4>1
      <4> QED BY <2>2, <3>2, <4>2 DEF OpenedOf
    <3>3. CASE stroke[Len(stroke)].isCompleted
      <4>1. stroke[Len(stroke)].points # << >>
        BY <2>2, <3>3, <1>5 DEF OpenedOf
      <4>2. /\ Last(stroke[Len(stroke)].points) = stroke[Len(stroke)].points[Len(stroke[Len(stroke)].points)]
            /\ Len(stroke[Len(stroke)].points) \in DOMAIN stroke[Len(stroke)].points
        BY <3>1, <4>1, LastIn
      <4>3. Opened # << >>
        BY <1>5
      <4> QED BY <2>2, <3>3, <4>1, <4>2, <4>3 DEF OpenedOf
    <3> QED BY <3>2, <3>3
  <2>4. Opened[j] \in Made
    <3>1. PICK l \in DOMAIN stroke[Len(stroke)].points : Opened = <<LinkOf(stroke[Len(stroke)].points[l])>>
      BY <2>3
    <3>2. LinkOf(stroke[Len(stroke)].points[l]) \in Made
      BY <2>2, PointIn
    <3> QED BY <3>1, <3>2
  <2> QED BY <1>5, <2>4 DEF Early
<1>6. ASSUME NEW j \in DOMAIN InHandLink, Base[k] = InHandLink[j] PROVE Base[k] \in Timed
  <2>1. rcv # NoRcv /\ InHandLink = <<LinkIn(rcv.msg)>>
    BY <1>6 DEF InHandLink
  <2>2. Base[k] = LinkIn(rcv.msg)
    BY <1>6, <2>1
  <2> QED BY <2>1, <2>2 DEF Timed, InChain
<1>7. ASSUME NEW j \in DOMAIN Arriving, Base[k] = Arriving[j] PROVE Base[k] \in Timed
  BY <1>7 DEF Arriving, Timed, InChain
<1> QED BY <1>2, <1>3, <1>4, <1>5, <1>6, <1>7

LEMMA AppendConcat ==
  ASSUME NEW a \in Seq(Links), NEW b \in Seq(Links), NEW x \in Links
  PROVE  a \o Append(b, x) = Append(a \o b, x)
<1> DEFINE c == Append(b, x)
           d == a \o b
           e == a \o c
           f == Append(d, x)
<1>0. Len(a) \in Nat /\ Len(b) \in Nat
  OBVIOUS
<1>1. /\ c \in Seq(Links) /\ Len(c) = Len(b) + 1 /\ \A k \in 1 .. Len(b) : c[k] = b[k]
      /\ c[Len(b) + 1] = x
  BY Appends
<1>2. /\ d \in Seq(Links) /\ Len(d) = Len(a) + Len(b)
      /\ \A k \in 1 .. Len(a) + Len(b) : d[k] = IF k <= Len(a) THEN a[k] ELSE b[k - Len(a)]
  BY Concatenation
<1> HIDE DEF c, d
<1>3. /\ e \in Seq(Links) /\ Len(e) = Len(a) + Len(c)
      /\ \A k \in 1 .. Len(a) + Len(c) : e[k] = IF k <= Len(a) THEN a[k] ELSE c[k - Len(a)]
  BY <1>1, Concatenation
<1>4. /\ f \in Seq(Links) /\ Len(f) = Len(d) + 1 /\ \A k \in 1 .. Len(d) : f[k] = d[k]
      /\ f[Len(d) + 1] = x
  <2>1. d \in Seq(Links)
    BY <1>2
  <2> QED BY <2>1, Appends
<1> HIDE DEF e, f
<1>5. ASSUME NEW k \in 1 .. Len(e) PROVE e[k] = f[k]
  <2>0. k \in 1 .. Len(a) + Len(b) + 1 /\ k \in 1 .. Len(a) + Len(c)
    BY <1>0, <1>1, <1>3, <1>5
  <2>1. CASE k <= Len(a)
    <3>1. k \in 1 .. Len(d) /\ k \in 1 .. Len(a) + Len(b)
      BY <1>0, <1>2, <2>0, <2>1
    <3> QED BY <1>2, <1>3, <1>4, <2>0, <2>1, <3>1
  <2>2. CASE ~(k <= Len(a)) /\ k <= Len(a) + Len(b)
    <3>1. k \in 1 .. Len(d) /\ k \in 1 .. Len(a) + Len(b) /\ k - Len(a) \in 1 .. Len(b)
      BY <1>0, <1>2, <2>0, <2>2
    <3> QED BY <1>1, <1>2, <1>3, <1>4, <2>0, <2>2, <3>1
  <2>3. CASE ~(k <= Len(a) + Len(b))
    <3>1. k = Len(d) + 1 /\ k - Len(a) = Len(b) + 1 /\ ~(k <= Len(a))
      BY <1>0, <1>2, <2>0, <2>3
    <3> QED BY <1>1, <1>3, <1>4, <2>0, <3>1
  <2> QED BY <2>1, <2>2, <2>3
<1>6. Len(e) = Len(f)
  BY <1>0, <1>1, <1>2, <1>3, <1>4
<1>7. e = f
  BY <1>3, <1>4, <1>5, <1>6, SeqEqual
<1> QED BY <1>7 DEF c, d, e, f

LEMMA BaseGrows ==
  ASSUME Shape, InPlace, Shape', InPlace', UNCHANGED <<rcv, drawing>>,
         NEW d \in Samples, Flow' = Append(Flow, d)
  PROVE  LinkIn(d) \in Links /\ Base' = Append(Base, LinkIn(d))
<1>1. Started' = Started /\ Started \in Seq(Links) /\ Arriving \in Seq(Links) /\ Arriving' \in Seq(Links)
  <2>1. Started' = Started
    BY DEF Started, Opened, LastStroke, InHandLink, drawing
  <2> QED BY <2>1, BaseIs, BaseIsNext DEF BaseParts
<1>2. /\ Flow \in Seq(Samples) /\ Len(Flow) \in Nat /\ DOMAIN Flow = 1 .. Len(Flow)
      /\ DOMAIN Flow' = 1 .. Len(Flow) + 1 /\ Len(Flow') = Len(Flow) + 1
      /\ \A k \in 1 .. Len(Flow) : Flow'[k] = Flow[k]
      /\ Flow'[Len(Flow) + 1] = d
  <2>1. Flow \in Seq(Samples)
    BY FlowIs
  <2> QED BY <2>1, Appends
<1>3. LinkIn(d) \in Links
  BY LinksOf
<1>4. Arriving' = Append(Arriving, LinkIn(d))
  <2> DEFINE a == Arriving'
             b == Append(Arriving, LinkIn(d))
  <2>1. /\ Len(Arriving) = Len(Flow) /\ Len(a) = Len(Flow) + 1
        /\ \A k \in 1 .. Len(Flow) : Arriving[k] = LinkIn(Flow[k])
        /\ \A k \in 1 .. Len(Flow) + 1 : a[k] = LinkIn(Flow'[k])
    <3>1. Len(Arriving) = Len(Flow) /\ Len(Arriving') = Len(Flow')
      BY ChainIs, ChainIsNext DEF ChainParts
    <3>2. \A k \in 1 .. Len(Flow) : Arriving[k] = LinkIn(Flow[k])
      BY <1>2 DEF Arriving
    <3>3. \A k \in 1 .. Len(Flow) + 1 : Arriving'[k] = LinkIn(Flow'[k])
      BY <1>2 DEF Arriving
    <3> QED BY <1>2, <3>1, <3>2, <3>3
  <2>2. /\ b \in Seq(Links) /\ Len(b) = Len(Flow) + 1
        /\ \A k \in 1 .. Len(Flow) : b[k] = Arriving[k]
        /\ b[Len(Flow) + 1] = LinkIn(d)
    <3>1. Len(Arriving) = Len(Flow)
      BY <2>1
    <3> QED BY <1>1, <1>3, <3>1, Appends
  <2> HIDE DEF a, b
  <2>3. ASSUME NEW k \in 1 .. Len(a) PROVE a[k] = b[k]
    <3>1. CASE k \in 1 .. Len(Flow)
      BY <1>2, <2>1, <2>2, <2>3, <3>1
    <3>2. CASE k = Len(Flow) + 1
      BY <1>2, <2>1, <2>2, <2>3, <3>2
    <3> QED BY <1>2, <2>1, <2>3, <3>1, <3>2
  <2>4. a \in Seq(Links) /\ Len(a) = Len(b)
    BY <1>1, <2>1, <2>2 DEF a
  <2>5. a = b
    BY <2>2, <2>3, <2>4, SeqEqual
  <2> QED BY <2>5 DEF a, b
<1> QED BY <1>1, <1>3, <1>4, AppendConcat DEF Base

LEMMA OneLater ==
  \A c, v \in Nat : /\ Before(<<c, v>>, <<c, v + 1>>) /\ <<c, v>> # <<c, v + 1>>
                     /\ <<c, v>>[1] = c /\ <<c, v + 1>>[1] = c
<1> SUFFICES ASSUME NEW c \in Nat, NEW v \in Nat
             PROVE  /\ Before(<<c, v>>, <<c, v + 1>>) /\ <<c, v>> # <<c, v + 1>>
                    /\ <<c, v>>[1] = c /\ <<c, v + 1>>[1] = c
  OBVIOUS
<1>1. /\ <<c, v>>[1] = c /\ <<c, v + 1>>[1] = c /\ <<c, v>>[2] = v /\ <<c, v + 1>>[2] = v + 1
      /\ v < v + 1 /\ v # v + 1
  OBVIOUS
<1> QED BY <1>1 DEF Before

(* How old the links are when the pen moves. *)
Aged(b) ==
  \A k \in DOMAIN b :
    /\ b[k] \in Links /\ Contact(b[k]) \in Nat /\ Contact(b[k]) <= contact
    /\ b[k].event # Now' /\ b[k].event # <<contact', events' + 1>>
    /\ b[k].millis < millis' + 1 /\ (Early => b[k].millis < millis')

LEMMA PenAges ==
  ASSUME Shape, InPlace, Shape', MadeFits, Pen, ~crowded', NEW action, PenMoves(action)
  PROVE  Aged(Base)
<1> SUFFICES ASSUME NEW k \in DOMAIN Base
             PROVE  /\ Base[k] \in Links /\ Contact(Base[k]) \in Nat /\ Contact(Base[k]) <= contact
                    /\ Base[k].event # Now' /\ Base[k].event # <<contact', events' + 1>>
                    /\ Base[k].millis < millis' + 1 /\ (Early => Base[k].millis < millis')
  BY DEF Aged
<1>1. /\ Base[k] \in Links /\ Base[k].event \in Events /\ AtOrBefore(Base[k].event, Now)
      /\ Base[k].millis <= millis + 1 /\ (Early => Base[k].millis <= millis)
  BY BaseAged
<1>2. Now \in Times /\ Now' \in Times /\ Before(Now, Now')
  BY PenAdds, EventsAreTimes
<1>3. /\ contact \in Nat /\ events \in Nat /\ millis \in Nat /\ Now = <<contact, events>>
      /\ contact' \in Nat /\ events' \in Nat /\ Now' = <<contact', events'>>
      /\ millis' \in {millis, millis + 1}
      /\ contact + events > 0 => millis' # millis
  <2>1. contact' \in Nat /\ events' \in Nat
    BY <1>2 DEF Times, Now
  <2> QED BY <2>1, ClockIs DEF PenMoves, Now
<1> DEFINE e == Base[k].event
           n == <<contact', events' + 1>>
<1>4. e \in Times /\ n \in Times /\ e[1] >= 1
  <2>1. e[1] >= 1
    BY <1>1 DEF Events
  <2> QED BY <1>1, <1>3, <2>1, EventsAreTimes DEF Times
<1>5. Before(Now', n)
  <2>1. Before(<<contact', events'>>, <<contact', events' + 1>>)
    BY <1>3, OneLater
  <2>2. Now' = <<contact', events'>>
    BY <1>3
  <2> QED BY <2>1, <2>2
<1> HIDE DEF e, n
<1>6. e # Now' /\ e # n
  <2>1. Before(e, Now') /\ Before(e, n)
    BY <1>1, <1>2, <1>4, <1>5, Precedence DEF e
  <2> QED BY <1>2, <1>4, <2>1, Precedence
<1>7. e[1] \in Nat /\ e[1] <= contact
  <2>1. AtOrBefore(e, Now)
    BY <1>1 DEF e
  <2>2. e[1] \in Nat
    BY <1>4 DEF Times
  <2> QED BY <1>3, <2>1, <2>2 DEF AtOrBefore, Before
<1>8. millis' = millis + 1
  BY <1>3, <1>4, <1>7
<1>9. Base[k].millis \in Nat
  BY <1>1 DEF Links
<1>10. Base[k].millis < millis' + 1 /\ (Early => Base[k].millis < millis')
  BY <1>1, <1>3, <1>8, <1>9
<1> QED BY <1>1, <1>6, <1>7, <1>10 DEF Contact, e, n

LEMMA PressKeepsFit ==
  ASSUME NEW calm, NEW b \in Seq(Links), NEW h \in Links, NEW p \in Links,
         h.kind = "head", p.kind = "point", Contact(h) = Contact(p), h.event # p.event,
         h.millis < p.millis,
         \A k \in DOMAIN b : /\ Contact(b[k]) < Contact(h) /\ b[k].millis < p.millis
                             /\ b[k].event # p.event
                             /\ calm => b[k].millis < h.millis,
         Fit(b, calm, TRUE)
  PROVE  Fit(Append(Append(b, h), p), calm, FALSE)
<1> DEFINE s == Append(b, h)
<1>1. Fit(s, calm, FALSE)
  BY FitHead
<1>2. /\ s \in Seq(Links) /\ s # << >> /\ Len(s) = Len(b) + 1 /\ Len(b) \in Nat
      /\ DOMAIN s = 1 .. Len(b) + 1 /\ DOMAIN b = 1 .. Len(b)
      /\ \A k \in 1 .. Len(b) : s[k] = b[k]
      /\ s[Len(b) + 1] = h
  BY Appends
<1> HIDE DEF s
<1>3. \A k \in DOMAIN s : s[k].millis < p.millis /\ s[k].event # p.event
  <2> SUFFICES ASSUME NEW k \in DOMAIN s PROVE s[k].millis < p.millis /\ s[k].event # p.event
    OBVIOUS
  <2>1. CASE k = Len(b) + 1
    BY <1>2, <2>1
  <2>2. CASE k \in 1 .. Len(b)
    BY <1>2, <2>2
  <2> QED BY <1>2, <2>1, <2>2
<1>4. s[Len(s)] = h
  BY <1>2
<1> QED BY <1>1, <1>2, <1>3, <1>4, FitPoint DEF s

LEMMA PenKeepsChain ==
  ASSUME Shape, InPlace, Shape', InPlace', MadeFits, CalibrationFits, ChainFits, Pen
  PROVE  ChainFits'
<1> DEFINE calm == Lost = 0
<1>1. PICK action \in {"PRESS", "DRAG", "RELEASE"} : PenMoves(action) /\ TabletDoes(action)
  BY PenDoes
<1> SUFFICES ASSUME Lucky'
             PROVE  /\ Lost' = 0 => ~Blocked' /\ Led' /\ Early'
                    /\ Blocked' \/ Fit(Chain', Lost' = 0, ~Writing')
  BY DEF ChainFits
<1>2. /\ UNCHANGED <<Lost, midStroke, rcv, drawing>>
      /\ millis' \in {millis, millis + 1}
      /\ Lucky /\ ~crowded'
  BY <1>1, ClockIs DEF PenMoves, Lucky
<1>3. /\ Opened' = Opened /\ Started' = Started /\ (Blocked' <=> Blocked)
  BY <1>2 DEF Opened, LastStroke, Started, InHandLink, Blocked, drawing
<1>4. /\ Base \in Seq(Links) /\ Expected \in Links
      /\ Writing => Chain = Append(Base, Expected)
      /\ ~Writing => Chain = Base
      /\ Base' \in Seq(Links) /\ Expected' \in Links
      /\ Writing' => Chain' = Append(Base', Expected')
      /\ ~Writing' => Chain' = Base'
  BY BaseIs, BaseIsNext DEF BaseParts
<1>5. Aged(Base)
  BY <1>1, <1>2, PenAges
<1>6. /\ contact \in Nat /\ events \in Nat /\ millis \in Nat /\ millis' \in Nat
      /\ contact' \in Nat /\ events' \in Nat /\ Now' = <<contact', events'>>
  BY <1>2, ClockIs, PenAdds DEF Now, Events
<1>7. Early => Early'
  <2> SUFFICES ASSUME Early, NEW j \in DOMAIN Opened PROVE Opened[j].millis <= millis'
    BY <1>3 DEF Early
  <2>1. Opened \in Seq(Links)
    BY ChainIs DEF ChainParts
  <2>2. Opened[j].millis \in Nat
    <3>1. Opened[j] \in Links
      BY <2>1, Element
    <3> QED BY <3>1 DEF Links
  <2>3. Opened[j].millis <= millis
    BY DEF Early
  <2> QED BY <1>2, <1>6, <2>2, <2>3
<1>8. ASSUME Fit(Chain, calm, ~Writing), calm => Led /\ Early
      PROVE  Fit(Chain', calm, ~Writing') /\ (calm => Led')
  <2>1. ASSUME ~Writing, ~Writing', Flow' = Flow PROVE Fit(Chain', calm, ~Writing') /\ (calm => Led')
    <3>1. Chain' = Chain
      BY <1>3, <1>4, <2>1 DEF Base, Arriving
    <3> QED BY <1>3, <1>8, <2>1, <3>1 DEF Fit, Led
  <2>2. ASSUME ~Writing, ~Writing', Sends("other")
        PROVE  Fit(Chain', calm, ~Writing') /\ (calm => Led')
    <3>1. PICK d \in Samples : Flow' = Append(Flow, d) /\ LinkIn(d).kind = "other"
      BY <2>2 DEF Sends
    <3> DEFINE x == LinkIn(d)
    <3>2. x \in Links /\ Base' = Append(Base, x) /\ x.kind = "other"
      BY <1>2, <3>1, BaseGrows
    <3> HIDE DEF x
    <3>3. Chain = Base /\ Chain' = Append(Base, x)
      BY <1>4, <2>2, <3>2
    <3>4. Fit(Base, calm, TRUE)
      BY <1>8, <2>2, <3>3 DEF Fit
    <3>5. Fit(Append(Base, x), calm, TRUE)
      BY <1>4, <3>2, <3>4, FitOther
    <3>6. calm => Led'
      <4>1. Base # << >> => Append(Base, x)[1] = Base[1]
        BY <1>4, <3>2
      <4>2. Base = << >> => Append(Base, x)[1] = x
        BY <1>4, <3>2
      <4> QED BY <1>3, <1>8, <3>2, <3>3, <4>1, <4>2 DEF Led
    <3> QED BY <2>2, <3>3, <3>5, <3>6 DEF Fit
  <2>3. ASSUME action = "PRESS", ~modeCalibration, ~modeCalibration', modeWritable, Sends("head")
        PROVE  Fit(Chain', calm, ~Writing') /\ (calm => Led')
    <3>0. /\ ~Writing /\ Writing' /\ contact' = contact + 1 /\ events' = 1
      BY <1>1, <2>3 DEF Writing, PenMoves, TabletDoes
    <3>1. PICK d \in Samples : /\ Flow' = Append(Flow, d) /\ LinkIn(d).kind = "head"
                               /\ d.event = Now' /\ d.millis = millis'
      BY <2>3 DEF Sends
    <3> DEFINE h == LinkIn(d)
               p == Expected'
    <3>2. /\ h \in Links /\ Base' = Append(Base, h) /\ h.kind = "head" /\ h.event = Now'
          /\ h.millis = millis'
      BY <1>2, <3>1, BaseGrows, KindOf
    <3>3. /\ p \in Links /\ p.kind = "point" /\ p.event = <<contact', events' + 1>>
          /\ p.millis = millis' + 1
      BY <1>4 DEF Expected
    <3> HIDE DEF h, p
    <3>4. Chain = Base /\ Chain' = Append(Append(Base, h), p)
      BY <1>4, <3>0, <3>2 DEF p
    <3>5. Fit(Base, calm, TRUE)
      BY <1>8, <3>0, <3>4 DEF Fit
    <3>6. Contact(h) = Contact(p) /\ h.event # p.event /\ h.millis < p.millis
          /\ Contact(h) = contact'
      <4>1. h.event = <<contact', events'>> /\ p.event = <<contact', events' + 1>>
        BY <1>6, <3>2, <3>3
      <4>2. h.event[1] = contact' /\ p.event[1] = contact' /\ h.event # p.event
        BY <1>6, <4>1, OneLater
      <4>3. millis' < millis' + 1
        <5>1. \A n \in Nat : n < n + 1
          OBVIOUS
        <5> QED BY <1>6, <5>1
      <4> QED BY <3>2, <3>3, <4>2, <4>3 DEF Contact
    <3>7. \A k \in DOMAIN Base : /\ Contact(Base[k]) < Contact(h) /\ Base[k].millis < p.millis
                                 /\ Base[k].event # p.event
                                 /\ calm => Base[k].millis < h.millis
      BY <1>5, <1>6, <1>8, <3>0, <3>2, <3>3, <3>6 DEF Aged
    <3>8. Fit(Append(Append(Base, h), p), calm, FALSE)
      BY <1>4, <3>2, <3>3, <3>5, <3>6, <3>7, PressKeepsFit
    <3>9. calm => Led'
      <4>1. Base # << >> => Append(Append(Base, h), p)[1] = Base[1]
        BY <1>4, <3>2, <3>3
      <4>2. Base = << >> => Append(Append(Base, h), p)[1] = h
        BY <1>4, <3>2, <3>3
      <4> QED BY <1>3, <1>8, <3>2, <3>4, <4>1, <4>2 DEF Led
    <3> QED BY <3>0, <3>4, <3>8, <3>9 DEF Fit
  <2>4. ASSUME action # "PRESS", ~modeCalibration, ~modeCalibration', modeWritable,
               NEW d \in Samples, Flow' = Append(Flow, d), d.event = Now', d.millis = millis',
               LinkIn(d).kind = PenKind(action)
        PROVE  Fit(Chain', calm, ~Writing') /\ (calm => Led')
    <3>0. /\ Writing /\ contact' = contact /\ events' = events + 1 /\ events >= 1
          /\ Writing' <=> action = "DRAG"
      BY <1>1, <2>4 DEF Writing, PenMoves, TabletDoes
    <3>1. millis' = millis + 1
      <4>1. contact + events > 0 => millis' # millis
        BY <1>1, <1>2 DEF PenMoves
      <4> QED BY <1>2, <1>6, <3>0, <4>1
    <3> DEFINE x == LinkIn(d)
               y == Expected
               p == Expected'
    <3>2. /\ x \in Links /\ Base' = Append(Base, x) /\ x.kind = PenKind(action) /\ x.event = Now'
          /\ x.millis = millis'
      BY <1>2, <2>4, BaseGrows, KindOf
    <3>3. /\ p \in Links /\ p.kind = "point" /\ p.event = <<contact', events' + 1>>
          /\ p.millis = millis' + 1
          /\ y \in Links /\ y.kind = "point" /\ y.event = Now' /\ y.millis = millis'
      BY <1>4, <1>6, <3>0, <3>1 DEF Expected
    <3> HIDE DEF x, y, p
    <3>4. Chain = Append(Base, y)
      BY <1>4, <3>0 DEF y
    <3>5. Fit(Chain, calm, FALSE) /\ (calm => Perfect(Chain))
      BY <1>8, <3>0 DEF Fit
    <3>6. /\ Chain \in Seq(Links) /\ Len(Chain) = Len(Base) + 1 /\ Len(Base) \in Nat
          /\ Chain # << >>
          /\ DOMAIN Chain = 1 .. Len(Base) + 1 /\ DOMAIN Base = 1 .. Len(Base)
          /\ \A k \in 1 .. Len(Base) : Chain[k] = Base[k]
          /\ Chain[Len(Base) + 1] = y
      BY <1>4, <3>3, <3>4, Appends
    <3>7. Base # << >> \/ ~calm
      <4> SUFFICES ASSUME Base = << >>, calm PROVE FALSE
        OBVIOUS
      <4>1. Chain[1] = y
        BY <3>6
      <4> QED BY <3>3, <3>5, <3>6, <4>1, NoPointFirst
    <3>8. CASE action = "DRAG"
      <4>1. x.kind = "point"
        BY <3>2, <3>8 DEF PenKind
      <4>2. x = y
        BY <3>2, <3>3, <4>1 DEF Links
      <4>3. Chain' = Append(Chain, p)
        BY <1>4, <3>0, <3>2, <3>4, <3>8, <4>2 DEF p
      <4>4. Chain[Len(Chain)] = y
        BY <3>6
      <4>5. Contact(p) = Contact(y)
        BY <1>6, <3>3 DEF Contact
      <4>6. \A k \in DOMAIN Chain : Chain[k].millis < p.millis /\ Chain[k].event # p.event
        <5> SUFFICES ASSUME NEW k \in DOMAIN Chain
                     PROVE  Chain[k].millis < p.millis /\ Chain[k].event # p.event
          OBVIOUS
        <5>1. CASE k = Len(Base) + 1
          BY <1>6, <3>3, <3>6, <5>1
        <5>2. CASE k \in 1 .. Len(Base)
          BY <1>5, <3>3, <3>6, <5>2 DEF Aged
        <5> QED BY <3>6, <5>1, <5>2
      <4>7. Fit(Append(Chain, p), calm, FALSE)
        BY <3>3, <3>5, <3>6, <4>4, <4>5, <4>6, FitPoint
      <4>8. calm => Led'
        <5>1. Chain'[1] = Chain[1]
          BY <3>3, <3>6, <4>3
        <5> QED BY <1>3, <1>8, <3>6, <5>1 DEF Led
      <4> QED BY <3>0, <3>8, <4>3, <4>7, <4>8 DEF Fit
    <3>9. CASE action = "RELEASE"
      <4>1. x.kind = "tail"
        BY <3>2, <3>9 DEF PenKind
      <4>2. x = [y EXCEPT !.kind = "tail"]
        BY <3>2, <3>3, <4>1 DEF Links
      <4>3. Chain' = Append(Base, x)
        BY <1>4, <3>0, <3>2, <3>9
      <4>4. /\ Chain' \in Seq(Links) /\ Len(Chain') = Len(Base) + 1
            /\ \A k \in 1 .. Len(Base) : Chain'[k] = Base[k]
            /\ Chain'[Len(Base) + 1] = x
        BY <1>4, <3>2, <4>3, Appends
      <4>5. Ends(Chain, Chain')
        <5>1. Chain[Len(Chain)] = y /\ Chain'[Len(Chain)] = x /\ Len(Chain) - 1 = Len(Base)
          BY <3>6, <4>4
        <5> QED BY <3>3, <3>6, <4>2, <4>4, <5>1 DEF Ends
      <4>6. \A k \in DOMAIN Chain : k < Len(Chain) => Chain[k].event # Chain[Len(Chain)].event
        <5> SUFFICES ASSUME NEW k \in DOMAIN Chain, k < Len(Chain)
                     PROVE  Chain[k].event # Chain[Len(Chain)].event
          OBVIOUS
        <5>1. k \in 1 .. Len(Base) /\ Chain[Len(Chain)] = y
          BY <3>6
        <5> QED BY <1>5, <3>3, <3>6, <5>1 DEF Aged
      <4>7. Fit(Chain', calm, TRUE)
        BY <3>5, <3>6, <4>4, <4>5, <4>6, FitTail
      <4>8. calm => Led'
        <5>1. Base # << >> => Chain'[1] = Chain[1]
          BY <3>6, <4>4
        <5> QED BY <1>3, <1>8, <3>6, <3>7, <5>1 DEF Led
      <4> QED BY <3>0, <3>9, <4>7, <4>8 DEF Fit
    <3> QED BY <2>4, <3>8, <3>9
  <2>5. CASE modeCalibration
    <3>1. ~Writing /\ ~Writing' /\ (Sends("other") \/ Flow' = Flow)
      BY <1>1, <2>5 DEF Writing, TabletDoes, PenMoves
    <3> QED BY <2>1, <2>2, <3>1
  <2>6. CASE ~modeCalibration /\ ~modeCalibration' /\ ~modeWritable /\ Flow' = Flow
    <3>1. ~Writing /\ ~Writing'
      BY <1>1, <2>6 DEF Writing, TabletDoes
    <3> QED BY <2>1, <2>6, <3>1
  <2>7. CASE ~modeCalibration /\ ~modeCalibration' /\ modeWritable /\ Sends(PenKind(action))
    <3>1. CASE action = "PRESS"
      <4>1. PenKind(action) = "head"
        BY <3>1 DEF PenKind
      <4>2. Sends("head")
        BY <2>7, <4>1
      <4> QED BY <2>3, <2>7, <3>1, <4>2
    <3>2. CASE action # "PRESS"
      <4>1. PICK d \in Samples : /\ Flow' = Append(Flow, d) /\ d.event = Now' /\ d.millis = millis'
                                 /\ LinkIn(d).kind = PenKind(action)
        BY <2>7 DEF Sends
      <4> QED BY <2>4, <2>7, <3>2, <4>1
    <3> QED BY <3>1, <3>2
  <2>8. ~(~modeCalibration /\ modeWritable /\ action # "PRESS" /\ strokeIdx = -1)
    BY <1>1, <1>2 DEF PenMoves, CalibrationFits, Lucky
  <2> QED BY <1>1, <2>5, <2>6, <2>7, <2>8 DEF TabletDoes
<1>9. Lucky => /\ Lost = 0 => ~Blocked /\ Led /\ Early
               /\ Blocked \/ Fit(Chain, calm, ~Writing)
  BY DEF ChainFits
<1>10. ~Blocked' => Fit(Chain', calm, ~Writing')
  BY <1>2, <1>3, <1>8, <1>9
<1>11. Lost' = 0 => ~Blocked' /\ Led' /\ Early'
  BY <1>2, <1>3, <1>7, <1>8, <1>9
<1> QED BY <1>2, <1>10, <1>11

LEMMA ToggleKeepsChain ==
  ASSUME Shape, ChainFits, ToggleMode PROVE ChainFits'
<1> SUFFICES ASSUME Lucky' PROVE ChainFits'
  BY DEF ChainFits
<1>1. /\ UNCHANGED <<penDown, contact, events, millis, net, tabletInputData, Lost, rcv,
                     stroke, strokes, crowded>>
      /\ midStroke' = (midStroke \/ penDown)
      /\ penDown \in BOOLEAN /\ midStroke \in BOOLEAN
  BY DEF ToggleMode, Lost, drawing, Shape, FlagShape
<1>2. ~penDown /\ Lucky
  BY <1>1 DEF Lucky
<1>3. ~Writing /\ ~Writing'
  BY <1>1, <1>2 DEF Writing
<1>4. /\ Opened' = Opened /\ (Blocked' <=> Blocked) /\ InHandLink' = InHandLink
      /\ Flow' = Flow
  BY <1>1 DEF Opened, LastStroke, Blocked, InHandLink, Flow
<1>5. Chain' = Chain
  BY <1>3, <1>4 DEF Chain, Arriving, ToCome
<1>6. /\ Lost = 0 => ~Blocked /\ Led /\ Early
      /\ Blocked \/ Fit(Chain, Lost = 0, ~Writing)
  BY <1>2 DEF ChainFits
<1>7. Led /\ Early => Led' /\ Early'
  BY <1>1, <1>4, <1>5 DEF Led, Early
<1>8. Fit(Chain, Lost = 0, ~Writing) => Fit(Chain', Lost' = 0, ~Writing')
  BY <1>1, <1>3, <1>5 DEF Fit
<1> QED BY <1>1, <1>4, <1>6, <1>7, <1>8 DEF ChainFits

LEMMA ChainStep ==
  /\ Shape /\ Shape' /\ Counts /\ InPlace /\ InPlace' /\ MadeFits /\ CalibrationFits
  /\ ChainFits /\ [Next]_vars /\ ~mixed'
  => ChainFits'
<1> SUFFICES ASSUME Shape, Shape', Counts, InPlace, InPlace', MadeFits, CalibrationFits,
                    ChainFits, [Next]_vars, ~mixed'
             PROVE  ChainFits'
  OBVIOUS
<1>1. CASE Pen
  BY <1>1, PenKeepsChain
<1>2. CASE ToggleMode
  BY <1>2, ToggleKeepsChain
<1>3. CASE keyPressed
  <2>1. Flow' = Flow
    BY <1>3, FlowStays DEF keyPressed, tablet
  <2> QED BY <1>3, <2>1, ChainStays DEF keyPressed, tablet, drawing, history, Lost
<1>4. CASE ReserveTyped
  <2>1. Flow' = Flow
    BY <1>4, FlowStays DEF ReserveTyped, tablet
  <2> QED BY <1>4, <2>1, ChainStays DEF ReserveTyped, pen, tablet, drawing, history, Lost
<1>5. CASE OscStreaming
  <2>1. Flow' = Flow
    BY <1>5, StreamingKeepsAll
  <2> QED BY <1>5, <2>1, ChainStays DEF OscStreaming, pen, drawing, history, Lost
<1>6. CASE NetFault \/ OscRace
  BY <1>6, AnyFaultKeepsChain
<1>7. CASE Receive
  BY <1>7, ReceiveKeepsChain, GivenUpKeepsChain
<1>7a. CASE ReadSizes
  <2>1. Flow' = Flow
    BY <1>7a, FlowStays DEF ReadSizes, tablet
  <2> QED BY <1>7a, <2>1, ChainStays DEF ReadSizes, pen, tablet, drawing, history, Lost
<1>8. CASE AddPointStore
  BY <1>8, StoreKeepsChain
<1>9. CASE Interpret
  <2>1. Flow' = Flow
    BY <1>9, FlowStays DEF Interpret, tablet
  <2> QED BY <1>9, <2>1, ChainStays DEF Interpret, pen, tablet, drawing, history, Lost
<1>10. CASE InterpretPair
  <2>1. Flow' = Flow
    BY <1>10, FlowStays DEF InterpretPair, tablet
  <2> QED BY <1>10, <2>1, ChainStays DEF InterpretPair, pen, tablet, drawing, history, Lost
<1>11. CASE Reserve
  <2>1. Flow' = Flow
    BY <1>11, FlowStays DEF Reserve, tablet
  <2> QED BY <1>11, <2>1, ChainStays DEF Reserve, pen, tablet, drawing, history, Lost
<1>12. CASE InterpretTail
  BY <1>12, InterpretTailKeepsChain
<1>13. CASE InterpretRest
  BY <1>13, InterpretRestKeepsChain
<1>14. CASE RemoveStroke
  BY <1>14, RemoveKeepsChain
<1>15. CASE UNCHANGED vars
  <2>1. Flow' = Flow
    BY <1>15, FlowStays DEF vars, tablet
  <2> QED BY <1>15, <2>1, ChainStays DEF vars, pen, tablet, drawing, history, Lost
<1> QED BY <1>1, <1>2, <1>3, <1>4, <1>5, <1>6, <1>7, <1>7a, <1>8, <1>9, <1>10, <1>11,
           <1>12, <1>13, <1>14, <1>15
        DEF Next, Keyboard, Oscp5, Interpreting

-----------------------------------------------------------------------------
(* Strokes that have their tail. *)
LEMMA NotBlocked ==
  ASSUME Shape, strokes # << >>, Reached(Len(strokes)) PROVE ~Blocked
BY ListIs DEF Blocked, Reached

(* The datum in hand follows what the chain begins with. *)
LEMMA HandFollows ==
  ASSUME Shape, InPlace, ChainFits, Lucky, ~Blocked, rcv # NoRcv, NEW y \in Links, Opened = <<y>>
  PROVE  LET x == LinkIn(rcv.msg)
         IN /\ y.kind = "head" /\ x.kind \in {"point", "tail"} => Contact(x) = Contact(y)
            /\ y.kind = "tail" /\ x.kind \in {"point", "tail"} /\ x.millis = y.millis =>
                 x.event = y.event
<1> DEFINE x == LinkIn(rcv.msg)
           s == Chain
<1>1. x \in Links
  BY LinksOf DEF Shape, DrawingShape
<1>2. Chain = <<y>> \o (<<x>> \o Coming) /\ Coming \in Seq(Links)
  BY ChainIs DEF ChainParts, InHandLink
<1>3. /\ s \in Seq(Links) /\ Len(s) = Len(Coming) + 2 /\ Len(Coming) \in Nat
      /\ s[1] = y /\ s[2] = x
  BY <1>1, <1>2, TwoInFront
<1>4. 1 \in DOMAIN s /\ 2 \in DOMAIN s /\ DOMAIN s \subseteq Nat \ {0}
  BY <1>3
<1>5. ChainHolds(s)
  BY DEF ChainFits, Fit
<1> HIDE DEF x, s
<1> SUFFICES ASSUME x.kind \in {"point", "tail"}
             PROVE  /\ y.kind = "head" => Contact(x) = Contact(y)
                    /\ y.kind = "tail" /\ x.millis = y.millis => x.event = y.event
  BY DEF x
<1>6. Behind(s, 1, 2) /\ BeforeTail(s, 1, 2)
  BY <1>3, <1>4 DEF Behind, BeforeTail, Further
<1>7. ASSUME y.kind = "head" PROVE Contact(x) = Contact(y)
  <2>1. Joined(s, 1) \/ \E k \in DOMAIN s : k < 1 /\ Unclosed(s, k)
    BY <1>3, <1>4, <1>5, <1>7 DEF ChainHolds, HeadsFit
  <2>2. Joined(s, 1)
    BY <1>4, <2>1
  <2> QED BY <1>3, <1>4, <1>6, <2>2 DEF Joined
<1>8. ASSUME y.kind = "tail", x.millis = y.millis PROVE x.event = y.event
  BY <1>3, <1>4, <1>5, <1>6, <1>8 DEF ChainHolds, TailsFit
<1> QED BY <1>7, <1>8

(* A point that comes late leaves a tail where it was. *)
LEMMA StoreKeepsTail ==
  ASSUME Shape, InPlace, MadeFits, ChainFits, Lucky, ~Blocked, AddPointStore, strokes # << >>,
         stroke[rcv.st].isCompleted, NEW k, NEW c, Closes(stroke[rcv.st].points, k, c)
  PROVE  Closes(stroke'[rcv.st].points, k, c)
<1> DEFINE s == stroke[rcv.st].points
           w == stroke'[rcv.st].points
           m == rcv.msg
           p == StoredPoint(m, rcv.last)
           x == LinkIn(m)
<1>1. /\ rcv # NoRcv /\ m \in Samples /\ m.idx # -1 /\ rcv.st \in DOMAIN stroke
      /\ m.millis \in Nat /\ rcv.last \in Nat /\ m.isTail \in BOOLEAN
      /\ s \in Seq(Point) /\ w \in Seq(Point)
      /\ \/ w = s
         \/ m.millis = rcv.last /\ s # << >> /\ w = Append(Front(s), p)
         \/ m.millis > rcv.last /\ w = Append(s, p)
  BY StoredIs
<1>2. rcv.st = Len(stroke) /\ ~m.isHead /\ (s # << >> => rcv.last = Last(s).millis)
  BY <1>1 DEF InPlace
<1>3. /\ k \in DOMAIN s /\ s[k].isTail /\ \A j \in 1 .. k : s[j].event[1] = c
      /\ DOMAIN s = 1 .. Len(s) /\ Len(s) \in Nat /\ k \in Nat /\ k >= 1
  BY <1>1 DEF Closes
<1>4. p \in Point /\ x \in Links
  <2>1. x \in Links
    BY <1>1, LinksOf
  <2>2. rcv.last \in Millis /\ s # << >>
    BY <1>1, <1>3 DEF Shape, DrawingShape
  <2> QED BY <1>1, <2>1, <2>2, WithPointFits
<1> HIDE DEF s, w, p, x
<1>5. CASE w = s
  BY <1>5 DEF s, w
<1>6. CASE w = Append(s, p)
  <2>1. DOMAIN w = 1 .. Len(s) + 1 /\ \A j \in 1 .. Len(s) : w[j] = s[j]
    BY <1>1, <1>4, <1>6, Appends
  <2>2. k \in DOMAIN w /\ w[k].isTail /\ \A j \in 1 .. k : w[j].event[1] = c
    BY <1>3, <2>1
  <2> QED BY <2>2 DEF Closes, w
<1>7. CASE m.millis = rcv.last /\ s # << >> /\ w = Append(Front(s), p)
  <2>1. /\ Front(s) \in Seq(Point) /\ Len(Front(s)) = Len(s) - 1
        /\ \A j \in 1 .. Len(s) - 1 : Front(s)[j] = s[j]
    BY <1>1, <1>7, Fronts
  <2>2. /\ DOMAIN w = 1 .. Len(s)
        /\ \A j \in 1 .. Len(s) - 1 : w[j] = s[j]
        /\ w[Len(s)] = p
    <3>1. /\ DOMAIN w = 1 .. Len(Front(s)) + 1 /\ \A j \in 1 .. Len(Front(s)) : w[j] = Front(s)[j]
          /\ w[Len(Front(s)) + 1] = p
      BY <1>4, <1>7, <2>1, Appends
    <3> QED BY <1>3, <2>1, <3>1
  <2>3. CASE k < Len(s)
    <3>1. k \in DOMAIN w /\ w[k].isTail /\ \A j \in 1 .. k : w[j].event[1] = c
      BY <1>3, <2>2, <2>3
    <3> QED BY <3>1 DEF Closes, w
  <2>4. CASE k = Len(s)
    <3>1. Last(s) = s[k] /\ s[k] \in Point /\ s[k].isTail /\ rcv.last = s[k].millis
      <4>1. Last(s) = s[Len(s)] /\ Last(s) \in Point
        BY <1>1, <1>7, LastIn
      <4> QED BY <1>2, <1>3, <1>7, <2>4, <4>1
    <3> DEFINE y == LinkOf(s[k])
    <3>2. y \in Links /\ y.kind = "tail" /\ y.millis = s[k].millis /\ y.event = s[k].event
      <4>1. ~s[k].isHead
        BY <1>1, <1>3, <3>1 DEF InPlace, s
      <4> QED BY <3>1, <4>1, LinksOf, KindOf
    <3>3. Opened = <<y>>
      <4>1. Opened = OpenedOf(stroke[Len(stroke)])
        BY OpenedIs DEF OpenedFits
      <4> QED BY <1>2, <1>7, <3>1, <4>1 DEF OpenedOf, s
    <3>4. x.kind \in {"point", "tail"} /\ x.millis = m.millis /\ x.event = m.event
          /\ (x.kind = "tail" <=> m.isTail) /\ x.kind # "other"
      <4>1. x.kind = Kind(m.isHead, m.isTail) /\ x.millis = m.millis /\ x.event = m.event
        BY <1>1, KindOf DEF x
      <4> QED BY <1>1, <1>2, <4>1 DEF Kind
    <3>5. x.event = y.event
      <4>1. y.kind = "tail" /\ x.kind \in {"point", "tail"} /\ x.millis = y.millis
        BY <1>7, <3>1, <3>2, <3>4
      <4> HIDE DEF y
      <4> QED BY <1>1, <3>2, <3>3, <4>1, HandFollows DEF x
    <3>6. x \in Made /\ y \in Made
      <4>1. y \in Made
        BY <1>1, <1>3, PointIn DEF s
      <4>2. x \in Points \cup InChain
        BY <1>1 DEF x, InChain
      <4> QED BY <3>4, <4>1, <4>2, InMade
    <3>7. x.kind = "tail"
      BY <3>2, <3>5, <3>6 DEF MadeFits
    <3>8. p.isTail /\ p.event = m.event
      BY <1>1, <1>2, <3>4, <3>7, StoredLink DEF p
    <3>9. k \in DOMAIN w /\ w[k] = p /\ \A j \in 1 .. k : j = k \/ j \in 1 .. Len(s) - 1
      BY <1>3, <2>2, <2>4
    <3>10. \A j \in 1 .. k : w[j].event[1] = c
      <4>1. k \in 1 .. k
        BY <1>3
      <4>2. p.event[1] = c
        BY <1>3, <3>2, <3>4, <3>5, <3>8, <4>1
      <4> QED BY <1>3, <2>2, <3>9, <4>2
    <3> QED BY <3>8, <3>9, <3>10 DEF Closes, w
  <2> QED BY <1>3, <2>3, <2>4
<1> QED BY <1>1, <1>5, <1>6, <1>7

LEMMA ClosesWhole ==
  ASSUME NEW ps \in Seq(Point), NEW k, NEW c, Closes(ps, k, c)
  PROVE  Whole(ps) /\ c = ps[1].event[1] /\ 1 \in DOMAIN ps
<1>1. /\ k \in DOMAIN ps /\ DOMAIN ps = 1 .. Len(ps) /\ Len(ps) \in Nat
      /\ ps[k].isTail /\ \A j \in 1 .. k : ps[j].event[1] = c
  BY DEF Closes
<1>2. 1 \in 1 .. k /\ 1 \in DOMAIN ps
  BY <1>1
<1>3. c = ps[1].event[1]
  BY <1>1, <1>2
<1> QED BY <1>1, <1>2, <1>3 DEF Whole

LEMMA StoreKeepsWhole ==
  ASSUME Shape, InPlace, MadeFits, ChainFits, Lucky, ~Blocked, AddPointStore, strokes # << >>,
         stroke[rcv.st].isCompleted, Whole(stroke[rcv.st].points)
  PROVE  Whole(stroke'[rcv.st].points)
<1>1. PICK k \in DOMAIN stroke[rcv.st].points :
        Closes(stroke[rcv.st].points, k, stroke[rcv.st].points[1].event[1])
  BY DEF Whole
<1>2. Closes(stroke'[rcv.st].points, k, stroke[rcv.st].points[1].event[1])
  BY <1>1, StoreKeepsTail
<1>3. stroke'[rcv.st].points \in Seq(Point)
  BY StoredIs
<1> QED BY <1>2, <1>3, ClosesWhole

(* The stroke that is being received is of one contact, and the tail completes
   it. *)
LEMMA Completing ==
  ASSUME Shape, InPlace, MadeFits, ChainFits, StrokesFit, Lucky, ~Blocked, AddPointStore,
         strokes # << >>, ~stroke[rcv.st].isCompleted
  PROVE  LET w == stroke'[rcv.st].points
         IN /\ \A k \in DOMAIN w : w[k].event[1] = w[1].event[1]
            /\ rcv.msg.isTail => Whole(w)
<1> DEFINE s == stroke[rcv.st].points
           w == stroke'[rcv.st].points
           m == rcv.msg
           p == StoredPoint(m, rcv.last)
           x == LinkIn(m)
           c == s[1].event[1]
<1>1. /\ rcv # NoRcv /\ m \in Samples /\ m.idx # -1 /\ rcv.st \in DOMAIN stroke
      /\ m.millis \in Nat /\ rcv.last \in Nat /\ m.isTail \in BOOLEAN
      /\ s \in Seq(Point) /\ w \in Seq(Point)
      /\ \/ w = s /\ (m.millis < rcv.last \/ s = << >>)
         \/ m.millis = rcv.last /\ s # << >> /\ w = Append(Front(s), p)
         \/ m.millis > rcv.last /\ w = Append(s, p)
  BY StoredIs
<1>2. /\ rcv.st = Len(stroke) /\ ~m.isHead /\ s # << >>
      /\ rcv.last = Last(s).millis
      /\ s[1].isHead /\ \A k \in DOMAIN s : ~s[k].isTail
  BY <1>1 DEF InPlace, Lucky
<1>3. LastStroke = stroke[rcv.st]
  BY <1>2, LastPlace DEF LastStroke
<1>4. \A k \in DOMAIN s : s[k].event[1] = c
  BY <1>3 DEF StrokesFit
<1>5. /\ x \in Links /\ p \in Point /\ x.event = m.event /\ x.millis = m.millis /\ p.event = m.event
      /\ p.isTail = m.isTail /\ x.kind \in {"point", "tail"} /\ (x.kind = "tail" <=> m.isTail)
  <2>1. x \in Links
    BY <1>1, LinksOf
  <2>2. rcv.last \in Millis
    BY <1>1 DEF Shape, DrawingShape
  <2>3. p \in Point
    BY <1>1, <1>2, <2>2, WithPointFits
  <2>4. x.kind = Kind(m.isHead, m.isTail) /\ x.millis = m.millis /\ x.event = m.event
    BY <1>1, KindOf
  <2>5. p.event = m.event /\ p.isTail = m.isTail
    BY <1>1, <1>2, StoredLink
  <2> QED BY <1>1, <1>2, <2>1, <2>3, <2>4, <2>5 DEF Kind
<1>6. 1 \in DOMAIN s /\ DOMAIN s = 1 .. Len(s) /\ Len(s) \in Nat /\ s[1] \in Point
  BY <1>1, <1>2
<1>7. m.event[1] = c
  <2> DEFINE y == LinkOf(s[1])
  <2>1. y \in Links /\ y.kind = "head" /\ y.event = s[1].event
    BY <1>2, <1>6, LinksOf, KindOf
  <2>2. Opened = <<y>>
    <3>1. Opened = OpenedOf(stroke[Len(stroke)])
      BY OpenedIs DEF OpenedFits
    <3> QED BY <1>2, <3>1 DEF OpenedOf
  <2> HIDE DEF y
  <2>3. Contact(x) = Contact(y)
    BY <1>1, <1>5, <2>1, <2>2, HandFollows
  <2> QED BY <1>5, <2>1, <2>3 DEF Contact
<1>8. m.isTail => ~(m.millis < rcv.last)
  <2> SUFFICES ASSUME m.isTail, m.millis < rcv.last PROVE FALSE
    OBVIOUS
  <2>1. Last(s) = s[Len(s)] /\ Len(s) \in DOMAIN s
    BY <1>1, <1>2, LastIn
  <2> DEFINE y == LinkOf(s[Len(s)])
  <2>2. y \in Made /\ y \in Timed
    <3>1. ~s[Len(s)].isTail
      BY <1>2, <2>1
    <3> QED BY <1>1, <2>1, <3>1, PointIn
  <2>3. y.event = s[Len(s)].event /\ y.millis = rcv.last
    BY <1>2, <2>1, KindOf
  <2>4. x \in Made /\ x \in Timed
    <3>1. x \in Points \cup InChain /\ x \in Timed
      BY <1>1 DEF InChain, Timed
    <3>2. x.kind # "other"
      BY <1>5
    <3> QED BY <3>1, <3>2, InMade
  <2>5. x.kind = "tail" /\ x.event[1] = y.event[1] /\ x.millis < y.millis
    BY <1>4, <1>5, <1>7, <2>1, <2>3
  <2> HIDE DEF y, x
  <2>6. AtOrBefore(y.event, x.event)
    BY <2>2, <2>4, <2>5 DEF MadeFits
  <2>7. ~crowded
    BY DEF Lucky
  <2>8. /\ Before(y.event, x.event) => y.millis < x.millis
        /\ y.event = x.event => y.millis = x.millis
    BY <2>2, <2>4, <2>7 DEF MadeFits
  <2>9. x.millis \in Nat /\ y.millis \in Nat
    BY <1>1, <1>5, <2>3
  <2> QED BY <2>5, <2>6, <2>8, <2>9 DEF AtOrBefore
<1> HIDE DEF s, w, p, x, c, m
<1>9. ASSUME w = s, m.millis < rcv.last \/ s = << >>
      PROVE  (\A k \in DOMAIN w : w[k].event[1] = w[1].event[1]) /\ ~m.isTail
  <2>1. ~m.isTail
    BY <1>1, <1>2, <1>8, <1>9
  <2>2. w[1].event[1] = c
    BY <1>9 DEF c
  <2> QED BY <1>4, <1>9, <2>1, <2>2
<1>10. ASSUME NEW q \in Seq(Point), \A k \in DOMAIN q : q[k].event[1] = c, w = Append(q, p)
       PROVE  /\ \A k \in DOMAIN w : w[k].event[1] = w[1].event[1]
              /\ m.isTail => Whole(w)
  <2>1. /\ DOMAIN w = 1 .. Len(q) + 1 /\ DOMAIN q = 1 .. Len(q) /\ Len(q) \in Nat
        /\ \A k \in 1 .. Len(q) : w[k] = q[k]
        /\ w[Len(q) + 1] = p
    BY <1>5, <1>10, Appends
  <2>2. \A k \in DOMAIN w : w[k].event[1] = c
    <3> SUFFICES ASSUME NEW k \in DOMAIN w PROVE w[k].event[1] = c
      OBVIOUS
    <3>1. CASE k \in 1 .. Len(q)
      BY <1>10, <2>1, <3>1
    <3>2. CASE k = Len(q) + 1
      BY <1>5, <1>7, <2>1, <3>2
    <3> QED BY <2>1, <3>1, <3>2
  <2>3. w[1].event[1] = c
    <3>1. 1 \in DOMAIN w
      BY <2>1
    <3> QED BY <2>2, <3>1
  <2>4. ASSUME m.isTail PROVE Whole(w)
    <3>0. p.isTail
      BY <1>5, <2>4
    <3>1. Len(q) + 1 \in DOMAIN w /\ w[Len(q) + 1].isTail
      BY <2>1, <3>0
    <3>2. \A j \in 1 .. Len(q) + 1 : w[j].event[1] = w[1].event[1]
      BY <2>1, <2>2, <2>3
    <3> QED BY <3>1, <3>2 DEF Whole, Closes
  <2> QED BY <2>2, <2>3, <2>4
<1>11. CASE w = Append(s, p)
  BY <1>1, <1>4, <1>10, <1>11 DEF w, m
<1>12. CASE w = Append(Front(s), p)
  <2>1. /\ Front(s) \in Seq(Point) /\ Len(Front(s)) = Len(s) - 1
        /\ \A j \in 1 .. Len(s) - 1 : Front(s)[j] = s[j]
    BY <1>1, <1>2, Fronts
  <2>2. \A k \in DOMAIN Front(s) : Front(s)[k].event[1] = c
    <3>1. DOMAIN Front(s) = 1 .. Len(s) - 1
      BY <2>1
    <3> QED BY <1>4, <1>6, <2>1, <3>1
  <2> QED BY <1>10, <1>12, <2>1, <2>2 DEF w, m
<1> QED BY <1>1, <1>9, <1>11, <1>12 DEF w, m

LEMMA StoreKeepsStrokes ==
  ASSUME Shape, Shape', InPlace, InPlace', MadeFits, ChainFits, StrokesFit, AddPointStore
  PROVE  StrokesFit'
<1>1. /\ UNCHANGED <<Lost, midStroke, crowded, strokes, interp>>
      /\ rcv # NoRcv /\ rcv.st = Len(stroke) /\ rcv.st \in DOMAIN stroke
      /\ DOMAIN stroke' = DOMAIN stroke /\ Len(stroke') = Len(stroke)
      /\ \A id \in DOMAIN stroke : id # rcv.st => stroke'[id] = stroke[id]
  BY StoreIs DEF AddPointStore, pen, history, Lost, interpreter, InPlace
<1>2. Blocked' <=> Blocked
  <2>1. Len(stroke) \in Nat /\ DOMAIN stroke = 1 .. Len(stroke)
    BY ListIs
  <2> QED BY <1>1, <2>1, BlockedStays
<1> SUFFICES ASSUME Lucky' PROVE StrokesFit'
  BY DEF StrokesFit
<1>3. Lucky
  BY <1>1 DEF Lucky
<1>4. stroke'[rcv.st].isCompleted <=> (stroke[rcv.st].isCompleted
        \/ (stroke'[rcv.st].isCompleted /\ rcv.msg.isTail))
  BY StoredIs
<1>5. ASSUME NEW i \in DOMAIN strokes'
      PROVE  /\ i \in DOMAIN strokes /\ strokes # << >> /\ strokes'[i] = strokes[i]
             /\ Len(strokes) \in Nat /\ DOMAIN strokes = 1 .. Len(strokes)
             /\ i # Len(strokes) => strokes[i] # rcv.st /\ strokes[i] \in DOMAIN stroke
             /\ strokes[Len(strokes)] = rcv.st
  <2>1. i \in DOMAIN strokes /\ strokes # << >>
    BY <1>1, <1>5
  <2>2. strokes[i] = Len(stroke) - Len(strokes) + i /\ strokes[i] \in DOMAIN stroke
    BY <2>1, ListIs DEF InPlace
  <2>3. Len(strokes) \in Nat /\ Len(stroke) \in Nat /\ DOMAIN strokes = 1 .. Len(strokes)
    BY ListIs
  <2> QED BY <1>1, <2>1, <2>2, <2>3, LastPlace
<1>6. ASSUME NEW i \in DOMAIN strokes', Reached(i)', i >= 2 \/ interp' = "idle"
      PROVE  Whole(stroke'[strokes'[i]].points)
  <2>1. ASSUME NEW j \in 1 .. i PROVE stroke'[strokes[j]].isCompleted /\ j \in DOMAIN strokes'
    <3>1. j \in DOMAIN strokes'
      BY <1>1, <1>5, <1>6
    <3> QED BY <1>1, <1>6, <2>1, <3>1 DEF Reached
  <2>2. CASE i # Len(strokes)
    <3>1. ASSUME NEW j \in 1 .. i PROVE stroke[strokes[j]].isCompleted
      <4>1. j \in DOMAIN strokes' /\ j # Len(strokes)
        BY <1>5, <1>6, <2>1, <2>2
      <4>2. stroke'[strokes[j]] = stroke[strokes[j]]
        BY <1>1, <1>5, <4>1
      <4> QED BY <2>1, <4>2
    <3>2. Reached(i)
      BY <3>1 DEF Reached
    <3>3. Whole(stroke[strokes[i]].points)
      BY <1>1, <1>3, <1>5, <1>6, <3>2 DEF StrokesFit
    <3> QED BY <1>1, <1>5, <2>2, <3>3
  <2>3. CASE i = Len(strokes)
    <3>1. ASSUME NEW j \in DOMAIN strokes, j < Len(strokes) PROVE stroke[strokes[j]].isCompleted
      <4>1. j \in DOMAIN strokes' /\ j # Len(strokes) /\ j \in 1 .. i
        BY <1>1, <1>5, <2>3, <3>1
      <4>2. stroke'[strokes[j]] = stroke[strokes[j]]
        BY <1>1, <1>5, <4>1
      <4> QED BY <2>1, <4>1, <4>2
    <3>2. ~Blocked /\ strokes # << >>
      BY <1>5, <3>1 DEF Blocked
    <3>3. strokes'[i] = rcv.st /\ stroke'[rcv.st].isCompleted
      <4>1. i \in 1 .. i
        BY <1>5
      <4> QED BY <1>5, <2>1, <2>3, <4>1
    <3>4. CASE stroke[rcv.st].isCompleted
      <4>1. ASSUME NEW j \in 1 .. i PROVE stroke[strokes[j]].isCompleted
        BY <1>5, <2>3, <3>1, <3>4
      <4>2. Reached(i)
        BY <4>1 DEF Reached
      <4>3. Whole(stroke[strokes[i]].points)
        BY <1>1, <1>3, <1>5, <1>6, <4>2 DEF StrokesFit
      <4> QED BY <1>3, <1>5, <2>3, <3>2, <3>3, <3>4, <4>3, StoreKeepsWhole
    <3>5. CASE ~stroke[rcv.st].isCompleted
      BY <1>3, <1>4, <3>2, <3>3, <3>5, Completing
    <3> QED BY <3>4, <3>5
  <2> QED BY <2>2, <2>3
<1>7. ASSUME ~Blocked', strokes' # << >>, ~LastStroke'.isCompleted
      PROVE  \A k \in DOMAIN LastStroke'.points :
               LastStroke'.points[k].event[1] = LastStroke'.points[1].event[1]
  <2>1. strokes # << >> /\ Last(strokes') = rcv.st
    BY <1>1, <1>7, LastPlace
  <2>2. LastStroke' = stroke'[rcv.st]
    BY <2>1 DEF LastStroke
  <2>3. ~stroke[rcv.st].isCompleted
    BY <1>4, <1>7, <2>2
  <2> QED BY <1>2, <1>3, <1>7, <2>1, <2>2, <2>3, Completing
<1> QED BY <1>6, <1>7 DEF StrokesFit

LEMMA StrokesStay ==
  ASSUME StrokesFit, UNCHANGED <<stroke, strokes>>, Lucky' => Lucky,
         interp' = "idle" => interp = "idle"
  PROVE  StrokesFit'
<1> SUFFICES ASSUME Lucky' PROVE StrokesFit'
  BY DEF StrokesFit
<1>1. Blocked' <=> Blocked
  BY DEF Blocked
<1>2. LastStroke' = LastStroke
  BY DEF LastStroke
<1>3. ASSUME NEW i \in DOMAIN strokes', Reached(i)', i >= 2 \/ interp' = "idle"
      PROVE  Whole(stroke'[strokes'[i]].points)
  BY <1>3 DEF StrokesFit, Reached
<1> QED BY <1>1, <1>2, <1>3 DEF StrokesFit

LEMMA FaultLoses ==
  ASSUME Shape, Counts, NetFault \/ OscRace PROVE Lucky' => Lucky
<1>1. /\ UNCHANGED <<midStroke, crowded, races>> /\ faults' = faults + 1
  BY DEF NetFault, OscRace, history
<1>2. faults \in Nat /\ races \in Nat
  BY Positive DEF Shape, QueueShape, Counts
<1> QED BY <1>1, <1>2 DEF Lucky, Lost

LEMMA ReceiverLoses ==
  ASSUME Shape, Counts, Receive PROVE Lucky' => Lucky
<1>1. /\ UNCHANGED <<faults, midStroke, crowded>>
      /\ races' = races \/ races' = races + 1
  BY DEF Receive, ReceiveCalibration, AddStroke, AddPointLoad
<1>2. faults \in Nat /\ races \in Nat
  BY Positive DEF Shape, QueueShape, Counts
<1> QED BY <1>1, <1>2 DEF Lucky, Lost

LEMMA ReceiveKeepsStrokes ==
  ASSUME Shape, Shape', Counts, InPlace, StrokesFit, Receive PROVE StrokesFit'
<1>1. /\ Head(net) = Flow[1]
      /\ UNCHANGED <<midStroke, crowded, interp>> /\ (Lucky' => Lucky)
      /\ UNCHANGED drawing \/ AddStroke(Flow[1])
  <2>1. /\ Head(net) = Flow[1]
        /\ UNCHANGED <<midStroke, crowded, interp>>
        /\ UNCHANGED drawing \/ AddStroke(Flow[1])
    BY ReceiverTakes DEF Receive, ReceiveCalibration, AddPointLoad, interpreter
  <2> QED BY <2>1, ReceiverLoses
<1>2. CASE UNCHANGED drawing
  BY <1>1, <1>2, StrokesStay DEF drawing
<1>3. CASE AddStroke(Flow[1])
  <2> SUFFICES ASSUME Lucky' PROVE StrokesFit'
    BY DEF StrokesFit
  <2>0. Lucky
    BY <1>1 DEF Lucky
  <2>1. /\ DOMAIN stroke = 1 .. Len(stroke) /\ Len(stroke) \in Nat
        /\ \A id \in DOMAIN stroke : stroke'[id] = stroke[id]
        /\ DOMAIN strokes' = 1 .. Len(strokes) + 1
        /\ DOMAIN strokes = 1 .. Len(strokes) /\ Len(strokes) \in Nat
        /\ \A i \in DOMAIN strokes : /\ strokes'[i] = strokes[i]
                                      /\ strokes[i] \in DOMAIN stroke
        /\ strokes'[Len(strokes) + 1] = Len(stroke) + 1
        /\ DOMAIN stroke'[Len(stroke) + 1].points = {1}
    BY <1>1, <1>3, AddStrokeIs
  <2>2. strokes' # << >> /\ Last(strokes') = Len(stroke) + 1
    <3>1. strokes' = Append(strokes, Len(stroke')) /\ strokes \in Seq(DOMAIN stroke)
      BY <1>3, ListIs DEF AddStroke
    <3>2. strokes' \in Seq(DOMAIN stroke')
      BY DEF Shape, DrawingShape
    <3>3. strokes' # << >> /\ Len(strokes') = Len(strokes) + 1
      BY <3>1
    <3> QED BY <2>1, <3>2, <3>3, LastIn
  <2>3. ~stroke'[Len(stroke) + 1].isCompleted
    <3>1. stroke \in Seq(Drawn)
      BY ListIs
    <3> QED BY <1>3, <3>1 DEF AddStroke
  <2>4. ASSUME NEW i \in DOMAIN strokes', Reached(i)', i >= 2 \/ interp' = "idle"
        PROVE  Whole(stroke'[strokes'[i]].points)
    <3>0. \A j \in 1 .. i : stroke'[strokes'[j]].isCompleted
      BY <2>4 DEF Reached
    <3>1. i # Len(strokes) + 1
      <4>1. i \in 1 .. i
        BY <2>1
      <4> QED BY <2>1, <2>3, <3>0, <4>1
    <3>2. i \in DOMAIN strokes /\ \A j \in 1 .. i : j \in DOMAIN strokes
      BY <2>1, <3>1
    <3>3. \A j \in 1 .. i : stroke[strokes[j]].isCompleted
      BY <2>1, <3>0, <3>2
    <3>4. Whole(stroke[strokes[i]].points)
      BY <1>1, <2>0, <2>4, <3>2, <3>3 DEF StrokesFit, Reached
    <3> QED BY <2>1, <3>2, <3>4
  <2>5. \A k \in DOMAIN LastStroke'.points :
          LastStroke'.points[k].event[1] = LastStroke'.points[1].event[1]
    <3>1. LastStroke' = stroke'[Len(stroke) + 1]
      BY <2>2 DEF LastStroke
    <3> QED BY <2>1, <3>1
  <2> QED BY <2>4, <2>5 DEF StrokesFit
<1> QED BY <1>1, <1>2, <1>3

LEMMA TakingKeepsStrokes ==
  ASSUME Shape, InPlace, StrokesFit, interp # "idle", interp' # "idle", NEW q \in Seq(Point),
         stroke' = [stroke EXCEPT ![current].points = q],
         UNCHANGED <<strokes, Lost, midStroke, crowded>>
  PROVE  StrokesFit'
<1> SUFFICES ASSUME Lucky' PROVE StrokesFit'
  BY DEF StrokesFit
<1>0. Lucky
  BY DEF Lucky
<1>1. /\ DOMAIN stroke' = DOMAIN stroke /\ current \in DOMAIN stroke
      /\ \A id \in DOMAIN stroke : id # current => stroke'[id] = stroke[id]
  BY TakesOff
<1>2. /\ stroke[current].isCompleted
      /\ \A id \in DOMAIN stroke : stroke'[id].isCompleted = stroke[id].isCompleted
  BY TakingKeepsCompleted
<1>3. Blocked' <=> Blocked
  BY <1>2, BlockedStays
<1>4. /\ strokes # << >> /\ current = strokes[1] /\ 1 \in DOMAIN strokes
      /\ Len(strokes) \in Nat /\ DOMAIN strokes = 1 .. Len(strokes) /\ Len(stroke) \in Nat
      /\ \A i \in DOMAIN strokes : /\ strokes[i] \in DOMAIN stroke
                                   /\ strokes[i] = Len(stroke) - Len(strokes) + i
  <2>1. strokes # << >> /\ current = Head(strokes)
    BY DEF Shape, DrawingShape
  <2>2. strokes \in Seq(DOMAIN stroke) /\ Len(stroke) \in Nat
    BY ListIs
  <2> QED BY <2>1, <2>2 DEF InPlace
<1>5. ASSUME NEW i \in DOMAIN strokes', Reached(i)', i >= 2
      PROVE  Whole(stroke'[strokes'[i]].points)
  <2>1. \A j \in 1 .. i : stroke'[strokes[j]].isCompleted
    BY <1>5 DEF Reached
  <2>2. i \in DOMAIN strokes /\ \A j \in 1 .. i : j \in DOMAIN strokes
    BY <1>4, <1>5
  <2>3. Reached(i)
    BY <1>2, <1>4, <2>1, <2>2 DEF Reached
  <2>4. Whole(stroke[strokes[i]].points)
    BY <1>0, <1>5, <2>2, <2>3 DEF StrokesFit
  <2>5. strokes[i] # current
    BY <1>4, <1>5, <2>2
  <2> QED BY <1>1, <1>4, <2>2, <2>4, <2>5
<1>6. ASSUME ~Blocked', strokes' # << >>, ~LastStroke'.isCompleted
      PROVE  \A k \in DOMAIN LastStroke'.points :
               LastStroke'.points[k].event[1] = LastStroke'.points[1].event[1]
  <2>1. Last(strokes) \in DOMAIN stroke
    BY <1>4, LastPlace
  <2>2. LastStroke' = stroke'[Last(strokes)] /\ LastStroke = stroke[Last(strokes)]
    BY DEF LastStroke
  <2>3. ~LastStroke.isCompleted /\ Last(strokes) # current
    BY <1>2, <1>6, <2>1, <2>2
  <2>4. LastStroke' = LastStroke
    BY <1>1, <2>1, <2>2, <2>3
  <2> QED BY <1>0, <1>3, <1>4, <1>6, <2>3, <2>4 DEF StrokesFit
<1> QED BY <1>5, <1>6 DEF StrokesFit

LEMMA RemoveKeepsStrokes ==
  ASSUME Shape, Shape', InPlace, StrokesFit, RemoveStroke PROVE StrokesFit'
<1> SUFFICES ASSUME Lucky' PROVE StrokesFit'
  BY DEF StrokesFit
<1>1. /\ UNCHANGED <<stroke, Lost, midStroke, crowded>>
      /\ strokes # << >> /\ strokes' = Tail(strokes) /\ current = Head(strokes)
      /\ interp # "idle"
  BY DEF RemoveStroke, history, Lost, Shape, DrawingShape
<1>0. Lucky
  BY <1>1 DEF Lucky
<1>2. /\ strokes \in Seq(DOMAIN stroke) /\ Head(strokes) = strokes[1]
      /\ Len(strokes) \in Nat /\ Len(strokes) >= 1 /\ Len(strokes') = Len(strokes) - 1
      /\ DOMAIN strokes' = 1 .. Len(strokes) - 1 /\ DOMAIN strokes = 1 .. Len(strokes)
      /\ \A i \in 1 .. Len(strokes) - 1 : strokes'[i] = strokes[i + 1]
  BY <1>1, ListIs, Tails
<1>3. stroke[strokes[1]].isCompleted
  BY <1>1, <1>2 DEF InPlace
<1>4. ASSUME NEW i \in DOMAIN strokes', Reached(i)'
      PROVE  Whole(stroke'[strokes'[i]].points)
  <2>1. \A j \in 1 .. i : stroke[strokes'[j]].isCompleted
    BY <1>1, <1>4 DEF Reached
  <2>2. ASSUME NEW j \in 1 .. i + 1 PROVE stroke[strokes[j]].isCompleted
    <3>1. CASE j = 1
      BY <1>3, <3>1
    <3>2. CASE j # 1
      <4>1. j - 1 \in 1 .. i /\ j - 1 \in 1 .. Len(strokes) - 1 /\ (j - 1) + 1 = j
        BY <1>2, <1>4, <2>2, <3>2
      <4>2. strokes'[j - 1] = strokes[j]
        BY <1>2, <4>1
      <4> QED BY <2>1, <4>1, <4>2
    <3> QED BY <3>1, <3>2
  <2>3. Reached(i + 1)
    BY <2>2 DEF Reached
  <2>4. i + 1 \in DOMAIN strokes /\ i + 1 >= 2 /\ strokes'[i] = strokes[i + 1]
    BY <1>2, <1>4
  <2>5. Whole(stroke[strokes[i + 1]].points)
    BY <1>0, <2>3, <2>4 DEF StrokesFit
  <2> QED BY <1>1, <2>4, <2>5
<1>5. ASSUME ~Blocked', strokes' # << >>, ~LastStroke'.isCompleted
      PROVE  \A k \in DOMAIN LastStroke'.points :
               LastStroke'.points[k].event[1] = LastStroke'.points[1].event[1]
  <2>1. Last(strokes') = Last(strokes)
    <3>1. Len(strokes) >= 2
      <4>1. strokes' \in Seq(DOMAIN stroke)
        BY <1>1, <1>2, Tails
      <4>2. Len(strokes') # 0
        BY <1>5, <4>1
      <4> QED BY <1>2, <4>2
    <3> QED BY <1>1, <1>2, <3>1, LastOfTail
  <2>2. LastStroke' = LastStroke
    BY <1>1, <2>1 DEF LastStroke
  <2>3. ~Blocked
    <3> SUFFICES ASSUME NEW i \in DOMAIN strokes, i < Len(strokes)
                 PROVE  stroke[strokes[i]].isCompleted
      BY DEF Blocked
    <3>1. CASE i = 1
      BY <1>3, <3>1
    <3>2. CASE i # 1
      <4>1. /\ i - 1 \in DOMAIN strokes' /\ i - 1 < Len(strokes') /\ strokes'[i - 1] = strokes[i]
        BY <1>2, <3>2
      <4> QED BY <1>1, <1>5, <4>1 DEF Blocked
    <3> QED BY <3>1, <3>2
  <2> QED BY <1>0, <1>1, <1>5, <2>2, <2>3 DEF StrokesFit
<1> QED BY <1>4, <1>5 DEF StrokesFit

LEMMA StrokesStep ==
  /\ Shape /\ Shape' /\ Counts /\ InPlace /\ InPlace' /\ MadeFits /\ ChainFits
  /\ StrokesFit /\ [Next]_vars
  => StrokesFit'
<1> SUFFICES ASSUME Shape, Shape', Counts, InPlace, InPlace', MadeFits, ChainFits,
                    StrokesFit, [Next]_vars
             PROVE  StrokesFit'
  OBVIOUS
<1>1. CASE Pen
  <2>1. PICK action \in {"PRESS", "DRAG", "RELEASE"} : PenMoves(action)
    BY <1>1, PenDoes
  <2>2. Lucky' => Lucky
    BY <2>1, ClockIs DEF PenMoves, Lucky
  <2> QED BY <2>1, <2>2, StrokesStay DEF PenMoves, drawing
<1>2. CASE ToggleMode
  <2>1. Lucky' => Lucky
    BY <1>2 DEF ToggleMode, Lost, Lucky, Shape, FlagShape
  <2> QED BY <1>2, <2>1, StrokesStay DEF ToggleMode, drawing, interpreter
<1>3. CASE keyPressed \/ ReserveTyped \/ OscStreaming \/ ReadSizes \/ UNCHANGED vars
  <2>1. UNCHANGED <<stroke, strokes, interp, Lost, midStroke, crowded>>
    BY <1>3 DEF keyPressed, ReserveTyped, OscStreaming, ReadSizes, vars, drawing,
               interpreter, history, Lost
  <2> QED BY <2>1, StrokesStay DEF Lucky
<1>4. CASE NetFault \/ OscRace
  <2>1. UNCHANGED <<stroke, strokes, interp, midStroke, crowded>>
    BY <1>4 DEF NetFault, OscRace, drawing, interpreter, history
  <2>2. Lucky' => Lucky
    BY <1>4, FaultLoses
  <2> QED BY <2>1, <2>2, StrokesStay
<1>5. CASE Receive
  BY <1>5, ReceiveKeepsStrokes
<1>6. CASE AddPointStore
  BY <1>6, StoreKeepsStrokes
<1>7. CASE Interpret \/ InterpretPair \/ Reserve
  <2>1. UNCHANGED <<stroke, strokes, Lost, midStroke, crowded>> /\ interp' # "idle"
    BY <1>7 DEF Interpret, InterpretPair, Reserve, drawing, history, Lost
  <2> QED BY <2>1, StrokesStay DEF Lucky
<1>8. CASE InterpretTail
  <2>1. /\ interp = "pair" /\ interp' = "points"
        /\ stroke' = [stroke EXCEPT ![current].points = Tail(stroke[current].points)]
        /\ UNCHANGED <<strokes, Lost, midStroke, crowded>>
    BY <1>8 DEF InterpretTail, history, Lost
  <2>2. /\ current \in DOMAIN stroke /\ Len(stroke[current].points) >= 2
    <3>1. current = Head(strokes) /\ strokes # << >> /\ Len(stroke[current].points) >= 2
      BY <2>1 DEF Shape, DrawingShape
    <3> QED BY <3>1, ListIs
  <2>3. Tail(stroke[current].points) \in Seq(Point)
    BY <2>2, StrokeIs, LastOfTail
  <2> QED BY <2>1, <2>3, TakingKeepsStrokes
<1>9. CASE InterpretRest
  <2>1. /\ interp = "points" /\ interp' = "remove"
        /\ stroke' = [stroke EXCEPT ![current].points = << >>]
        /\ UNCHANGED <<strokes, Lost, midStroke, crowded>>
    BY <1>9 DEF InterpretRest, history, Lost
  <2> QED BY <2>1, NoneTaken, TakingKeepsStrokes
<1>10. CASE RemoveStroke
  BY <1>10, RemoveKeepsStrokes
<1> QED BY <1>1, <1>2, <1>3, <1>4, <1>5, <1>6, <1>7, <1>8, <1>9, <1>10
        DEF Next, Keyboard, Oscp5, Interpreting

-----------------------------------------------------------------------------
(* The pen. *)
(* A command more: what becomes of the pen and of the last move. *)
LEMMA CommandAdded ==
  ASSUME NEW s \in Seq(Command), NEW x \in Command, NEW t, t = Append(s, x)
  PROVE  /\ DOMAIN t = 1 .. Len(s) + 1 /\ DOMAIN s = 1 .. Len(s) /\ Len(s) \in Nat
         /\ Len(t) = Len(s) + 1
         /\ \A i \in DOMAIN s : t[i] = s[i]
         /\ t[Len(s) + 1] = x
         /\ \A i \in Moves(t) : \/ i \in Moves(s) /\ i \in DOMAIN s
                                \/ i = Len(s) + 1 /\ IsMove(x)
         /\ \A i \in Moves(s) : i \in Moves(t) /\ i \in DOMAIN s
         /\ IsMove(x) => Len(s) + 1 \in Moves(t)
<1>1. /\ DOMAIN t = 1 .. Len(s) + 1 /\ DOMAIN s = 1 .. Len(s) /\ Len(s) \in Nat
      /\ Len(t) = Len(s) + 1
      /\ \A i \in 1 .. Len(s) : t[i] = s[i]
      /\ t[Len(s) + 1] = x
  BY Appends
<1>2. \A i \in DOMAIN t : i \in DOMAIN s \/ i = Len(s) + 1
  BY <1>1
<1>3. \A i \in DOMAIN s : i \in DOMAIN t /\ t[i] = s[i]
  BY <1>1
<1>4. Len(s) + 1 \in DOMAIN t
  BY <1>1
<1> QED BY <1>1, <1>2, <1>3, <1>4 DEF Moves, IsMove

LEMMA LoweredBefore ==
  ASSUME NEW s \in Seq(Command), NEW x \in Command, NEW t, t = Append(s, x),
         NEW i \in 1 .. Len(s) + 1
  PROVE  Lowered(t, i) <=> Lowered(s, i)
<1>1. /\ DOMAIN t = 1 .. Len(s) + 1 /\ DOMAIN s = 1 .. Len(s) /\ Len(s) \in Nat
      /\ \A k \in DOMAIN s : t[k] = s[k]
  BY CommandAdded
<1>2. \A k \in DOMAIN t : k < i => k \in DOMAIN s
  BY <1>1
<1>3. \A k \in DOMAIN s : k \in DOMAIN t
  BY <1>1
<1> QED BY <1>1, <1>2, <1>3 DEF Lowered

LEMMA PenAfter ==
  ASSUME NEW s \in Seq(Command), NEW x \in Command, NEW t, t = Append(s, x)
  PROVE  /\ x.op = "up" => ~Down(t)
         /\ x.op = "down" => Down(t)
         /\ x.op \notin {"up", "down"} => (Down(t) <=> Down(s))
<1> DEFINE n == Len(s) + 1
<1>1. /\ DOMAIN t = 1 .. n /\ DOMAIN s = 1 .. Len(s) /\ Len(s) \in Nat /\ Len(t) = n
      /\ \A k \in DOMAIN s : t[k] = s[k]
      /\ t[n] = x
  BY CommandAdded
<1>2. /\ n \in DOMAIN t /\ n < Len(t) + 1
      /\ \A k \in DOMAIN s : k \in DOMAIN t /\ k < n /\ k < Len(s) + 1 /\ k < Len(t) + 1
      /\ \A k \in DOMAIN t : k = n \/ k \in DOMAIN s
      /\ \A k \in DOMAIN t : ~(n < k)
  BY <1>1
<1> HIDE DEF n
<1>3. ASSUME x.op = "up" PROVE ~Down(t)
  BY <1>1, <1>2, <1>3 DEF Down, Lowered
<1>4. ASSUME x.op = "down" PROVE Down(t)
  BY <1>1, <1>2, <1>4 DEF Down, Lowered
<1>5. ASSUME x.op \notin {"up", "down"}, Down(t) PROVE Down(s)
  <2>1. PICK j \in DOMAIN t : /\ j < Len(t) + 1 /\ t[j].op = "down"
                              /\ \A k \in DOMAIN t : j < k /\ k < Len(t) + 1 => t[k].op # "up"
    BY <1>5 DEF Down, Lowered
  <2>2. j \in DOMAIN s
    BY <1>1, <1>2, <1>5, <2>1
  <2>3. /\ j < Len(s) + 1 /\ s[j].op = "down"
        /\ \A k \in DOMAIN s : j < k /\ k < Len(s) + 1 => s[k].op # "up"
    BY <1>1, <1>2, <2>1, <2>2
  <2> QED BY <2>2, <2>3 DEF Down, Lowered
<1>6. ASSUME x.op \notin {"up", "down"}, Down(s) PROVE Down(t)
  <2>1. PICK j \in DOMAIN s : /\ j < Len(s) + 1 /\ s[j].op = "down"
                              /\ \A k \in DOMAIN s : j < k /\ k < Len(s) + 1 => s[k].op # "up"
    BY <1>6 DEF Down, Lowered
  <2>2. j \in DOMAIN t /\ j < Len(t) + 1 /\ t[j].op = "down"
    BY <1>1, <1>2, <2>1
  <2>3. ASSUME NEW k \in DOMAIN t, j < k PROVE t[k].op # "up"
    <3>1. CASE k = n
      BY <1>1, <1>6, <3>1
    <3>2. CASE k \in DOMAIN s
      BY <1>1, <1>2, <2>1, <2>3, <3>2
    <3> QED BY <1>2, <3>1, <3>2
  <2> QED BY <2>2, <2>3 DEF Down, Lowered
<1> QED BY <1>3, <1>4, <1>5, <1>6

LEMMA OtherKeepsInk ==
  ASSUME NEW s \in Seq(Command), NEW x \in Command, NEW t, t = Append(s, x), ~IsMove(x)
  PROVE  /\ \A c : LastAt(s, c) => LastAt(t, c)
         /\ Inked(s) => Inked(t)
<1>1. /\ DOMAIN s = 1 .. Len(s) /\ Len(s) \in Nat
      /\ \A i \in DOMAIN s : t[i] = s[i]
      /\ \A i \in Moves(t) : i \in Moves(s) /\ i \in DOMAIN s
      /\ \A i \in Moves(s) : i \in Moves(t) /\ i \in DOMAIN s
  <2>1. /\ DOMAIN s = 1 .. Len(s) /\ Len(s) \in Nat
        /\ \A i \in DOMAIN s : t[i] = s[i]
    BY CommandAdded
  <2>2. ASSUME NEW i \in Moves(t) PROVE i \in Moves(s) /\ i \in DOMAIN s
    BY CommandAdded
  <2>3. ASSUME NEW i \in Moves(s) PROVE i \in Moves(t) /\ i \in DOMAIN s
    BY CommandAdded
  <2> QED BY <2>1, <2>2, <2>3
<1>2. ASSUME NEW c, LastAt(s, c) PROVE LastAt(t, c)
  BY <1>1, <1>2 DEF LastAt
<1>3. \A j \in DOMAIN s : j \in 1 .. Len(s) + 1
  BY <1>1
<1>4. \A j \in Moves(t) : Lowered(t, j) <=> Lowered(s, j)
  BY <1>1, <1>3, LoweredBefore
<1>5. ASSUME Inked(s) PROVE Inked(t)
  <2> SUFFICES ASSUME NEW i \in Moves(t), NEW j \in Moves(t), i < j, Lowered(t, j),
                      \A k \in Moves(t) : ~(i < k /\ k < j)
               PROVE  t[i].to[1] = t[j].to[1]
    BY Zenon DEF Inked
  <2>1. i \in Moves(s) /\ j \in Moves(s) /\ t[i] = s[i] /\ t[j] = s[j] /\ Lowered(s, j)
    BY <1>1, <1>4
  <2>2. \A k \in Moves(s) : ~(i < k /\ k < j)
    BY <1>1
  <2> QED BY <1>5, <2>1, <2>2 DEF Inked
<1> QED BY <1>2, <1>5

LEMMA MoveKeepsInk ==
  ASSUME NEW s \in Seq(Command), NEW x \in Command, NEW t, t = Append(s, x), IsMove(x),
         Inked(s), Down(s) => LastAt(s, x.to[1])
  PROVE  LastAt(t, x.to[1]) /\ Inked(t)
<1> DEFINE n == Len(s) + 1
<1>1. /\ DOMAIN s = 1 .. Len(s) /\ Len(s) \in Nat
      /\ \A i \in DOMAIN s : t[i] = s[i]
      /\ \A i \in Moves(t) : (i \in Moves(s) /\ i \in DOMAIN s) \/ i = n
      /\ \A i \in Moves(s) : i \in Moves(t) /\ i \in DOMAIN s
      /\ n \in Moves(t) /\ t[n] = x
  <2>1. /\ DOMAIN s = 1 .. Len(s) /\ Len(s) \in Nat
        /\ \A i \in DOMAIN s : t[i] = s[i]
    BY CommandAdded
  <2>2. ASSUME NEW i \in Moves(t) PROVE (i \in Moves(s) /\ i \in DOMAIN s) \/ i = n
    BY CommandAdded
  <2>3. ASSUME NEW i \in Moves(s) PROVE i \in Moves(t) /\ i \in DOMAIN s
    BY CommandAdded
  <2>4. n \in Moves(t) /\ t[n] = x
    BY CommandAdded
  <2> QED BY <2>1, <2>2, <2>3, <2>4
<1>2. \A i \in DOMAIN s : i < n /\ ~(n < i) /\ ~(n <= i) /\ i \in 1 .. n /\ i \in Nat
  BY <1>1
<1>3. n \in 1 .. n /\ n \in Nat /\ ~(n < n) /\ Len(s) + 1 = n
  BY <1>1
<1> HIDE DEF n
<1>4. LastAt(t, x.to[1])
  <2> SUFFICES ASSUME NEW i \in Moves(t), \A k \in Moves(t) : k <= i PROVE t[i].to[1] = x.to[1]
    BY DEF LastAt
  <2>1. i = n
    BY <1>1, <1>2
  <2> QED BY <1>1, <2>1
<1>5. \A j \in DOMAIN s : Lowered(t, j) <=> Lowered(s, j)
  BY <1>2, <1>3, LoweredBefore
<1>6. Lowered(t, n) <=> Down(s)
  <2>1. Lowered(t, n) <=> Lowered(s, n)
    BY <1>3, LoweredBefore
  <2> QED BY <1>3, <2>1 DEF Down
<1>7. Inked(t)
  <2> SUFFICES ASSUME NEW i \in Moves(t), NEW j \in Moves(t), i < j, Lowered(t, j),
                      \A k \in Moves(t) : ~(i < k /\ k < j)
               PROVE  t[i].to[1] = t[j].to[1]
    BY Zenon DEF Inked
  <2>0. i \in Moves(s) /\ i \in DOMAIN s /\ t[i] = s[i] /\ i \in Nat
    <3>1. i # n
      BY <1>1, <1>2, <1>3
    <3> QED BY <1>1, <1>2, <3>1
  <2>1. CASE j \in DOMAIN s
    <3>1. j \in Moves(s) /\ t[j] = s[j] /\ Lowered(s, j)
      BY <1>1, <1>2, <1>3, <1>5, <2>1
    <3>2. \A k \in Moves(s) : ~(i < k /\ k < j)
      BY <1>1
    <3> QED BY <2>0, <3>1, <3>2 DEF Inked
  <2>2. CASE j = n
    <3>1. LastAt(s, x.to[1])
      BY <1>6, <2>2
    <3>2. ASSUME NEW k \in Moves(s) PROVE k <= i
      <4>1. k \in Moves(t) /\ k < n /\ k \in Nat
        BY <1>1, <1>2
      <4>2. ~(i < k)
        BY <2>2, <4>1
      <4> QED BY <2>0, <4>1, <4>2
    <3>3. s[i].to[1] = x.to[1]
      BY <2>0, <3>1, <3>2 DEF LastAt
    <3> QED BY <1>1, <2>0, <2>2, <3>3
  <2> QED BY <1>1, <2>1, <2>2
<1> QED BY <1>4, <1>7

LEMMA OtherCommands ==
  /\ \A x \in KeyCommand : x \in Command /\ ~IsMove(x) /\ x.op \notin {"up", "down"}
  /\ \A x \in StrokeCommand : /\ x \in Command /\ x.op \in {"travel", "line", "down", "up"}
                              /\ IsMove(x) <=> x.op \in {"travel", "line"}
BY DEF KeyCommand, StrokeCommand, Command, IsMove

(* What is drawn belongs to a contact there was. *)
LEMMA ContactWas ==
  ASSUME Shape, MadeFits, NEW id \in DOMAIN stroke, NEW k \in DOMAIN stroke[id].points
  PROVE  stroke[id].points[k].event[1] \in 1 .. contact
<1> DEFINE p == stroke[id].points[k]
<1>1. p \in Point
  BY StrokeIs
<1>2. p.event[1] \in Nat \ {0}
  BY <1>1 DEF Point, Events
<1>3. AtOrBefore(p.event, Now)
  BY PointIn, KindOf DEF MadeFits
<1>4. contact \in Nat /\ Now[1] = contact
  BY ClockIs
<1>5. p.event[1] <= contact
  BY <1>2, <1>3, <1>4 DEF AtOrBefore, Before
<1> QED BY <1>2, <1>4, <1>5

(* The pen and what is said for it stay as they are. *)
LEMMA InkKept ==
  ASSUME InkFits, Lucky' => Lucky, UNCHANGED <<interp, said>>,
         1 .. contact \subseteq 1 .. contact',
         Inked(reservedMsg) => Inked(reservedMsg'),
         Down(reservedMsg') <=> Down(reservedMsg),
         \A c : LastAt(reservedMsg, c) => LastAt(reservedMsg', c),
         NEW ps, NEW qs, ps = stroke[current].points, qs = stroke'[current'].points,
         Lucky /\ interp \in {"points", "pair"} =>
           \A c : ClosedLater(ps, c) => ClosedLater(qs, c),
         Lucky /\ interp = "points" =>
           (qs # << >> /\ qs[1].isHead =>
              ps # << >> /\ ps[1].isHead /\ (Whole(ps) => Whole(qs)))
  PROVE  InkFits'
<1> SUFFICES ASSUME Lucky' PROVE InkFits'
  BY DEF InkFits
<1>0. Lucky
  OBVIOUS
<1>1. Inked(reservedMsg')
  BY <1>0 DEF InkFits
<1>2. interp' \notin {"points", "pair"} => ~Down(reservedMsg')
  BY <1>0 DEF InkFits
<1>3. ASSUME interp = "points"
      PROVE  /\ Down(reservedMsg') => \E c \in 1 .. contact' : LastAt(reservedMsg', c) /\ ClosedLater(qs, c)
             /\ qs # << >> /\ qs[1].isHead => ~Down(reservedMsg') /\ Whole(qs)
  <2>1. Down(reservedMsg) => \E c \in 1 .. contact : LastAt(reservedMsg, c) /\ ClosedLater(ps, c)
    BY <1>0, <1>3 DEF InkFits
  <2>2. ps # << >> /\ ps[1].isHead => ~Down(reservedMsg) /\ Whole(ps)
    BY <1>0, <1>3 DEF InkFits
  <2>3. \A c : ClosedLater(ps, c) => ClosedLater(qs, c)
    BY <1>0, <1>3
  <2>4. Down(reservedMsg') => \E c \in 1 .. contact' : LastAt(reservedMsg', c) /\ ClosedLater(qs, c)
    BY <2>1, <2>3
  <2> QED BY <1>0, <1>3, <2>2, <2>4
<1>4. ASSUME interp = "pair" PROVE SaidFits(qs)'
  <2>0. SaidFits(ps)
    BY <1>0, <1>4 DEF InkFits
  <2>1. PICK c \in 1 .. contact :
    \/ /\ said = << >> /\ (Down(reservedMsg) => LastAt(reservedMsg, c) /\ ClosedLater(ps, c))
    \/ /\ Len(said) = 1 /\ said[1].op = "line"
       /\ Down(reservedMsg) =>
            said[1].to[1] = c /\ LastAt(reservedMsg, c) /\ ClosedLater(ps, c)
    \/ /\ Len(said) = 2 /\ said[1].op = "down" /\ said[2].op = "line" /\ said[2].to[1] = c
       /\ LastAt(reservedMsg, c) /\ ClosedLater(ps, c)
    \/ /\ Len(said) = 3 /\ said[1].op = "travel" /\ said[2].op = "down" /\ said[3].op = "line"
       /\ said[1].to[1] = c /\ said[3].to[1] = c
       /\ ~Down(reservedMsg) /\ ClosedLater(ps, c)
    BY <2>0 DEF SaidFits
  <2>2. /\ c \in 1 .. contact' /\ said' = said
        /\ Down(reservedMsg') <=> Down(reservedMsg)
        /\ LastAt(reservedMsg, c) => LastAt(reservedMsg', c)
        /\ ClosedLater(ps, c) => ClosedLater(qs, c)
    BY <1>0, <1>4, <2>1
  <2>3. \/ /\ said' = << >> /\ (Down(reservedMsg') => LastAt(reservedMsg', c) /\ ClosedLater(qs, c))
        \/ /\ Len(said') = 1 /\ said'[1].op = "line"
           /\ Down(reservedMsg') =>
                said'[1].to[1] = c /\ LastAt(reservedMsg', c) /\ ClosedLater(qs, c)
        \/ /\ Len(said') = 2 /\ said'[1].op = "down" /\ said'[2].op = "line" /\ said'[2].to[1] = c
           /\ LastAt(reservedMsg', c) /\ ClosedLater(qs, c)
        \/ /\ Len(said') = 3 /\ said'[1].op = "travel" /\ said'[2].op = "down" /\ said'[3].op = "line"
           /\ said'[1].to[1] = c /\ said'[3].to[1] = c
           /\ ~Down(reservedMsg') /\ ClosedLater(qs, c)
    BY <2>1, <2>2
  <2> QED BY <2>2, <2>3 DEF SaidFits
<1> QED BY <1>1, <1>2, <1>3, <1>4 DEF InkFits

LEMMA InkStays ==
  ASSUME InkFits, Lucky' => Lucky, UNCHANGED <<interp, said, reservedMsg, current>>,
         1 .. contact \subseteq 1 .. contact',
         interp # "idle" => stroke'[current] = stroke[current]
  PROVE  InkFits'
<1> DEFINE ps == stroke[current].points
           qs == stroke'[current'].points
<1>1. interp \in {"points", "pair"} => qs = ps
  OBVIOUS
<1> HIDE DEF ps, qs
<1>2. Lucky /\ interp \in {"points", "pair"} => \A c : ClosedLater(ps, c) => ClosedLater(qs, c)
  BY <1>1
<1>3. Lucky /\ interp = "points" =>
        (qs # << >> /\ qs[1].isHead =>
           ps # << >> /\ ps[1].isHead /\ (Whole(ps) => Whole(qs)))
  BY <1>1
<1> QED BY <1>2, <1>3, InkKept DEF ps, qs

LEMMA TypedKeepsInk ==
  ASSUME Shape, InkFits, ReserveTyped PROVE InkFits'
<1> DEFINE x == Head(typed)
           ps == stroke[current].points
<1>1. /\ UNCHANGED <<interp, said, current, stroke, contact, Lost, midStroke, crowded>>
      /\ typed # << >> /\ reservedMsg' = Append(reservedMsg, x)
  BY DEF ReserveTyped, drawing, pen, history, Lost
<1>2. typed \in Seq(KeyCommand) /\ reservedMsg \in Seq(Command)
  BY DEF Shape, CommandShape
<1>3. x \in KeyCommand
  BY <1>1, <1>2, Tails
<1> HIDE DEF x
<1>4. x \in Command /\ ~IsMove(x) /\ x.op \notin {"up", "down"}
  BY <1>3, OtherCommands
<1>5. Down(reservedMsg') <=> Down(reservedMsg)
  BY <1>1, <1>2, <1>4, PenAfter
<1>6. /\ \A c : LastAt(reservedMsg, c) => LastAt(reservedMsg', c)
      /\ Inked(reservedMsg) => Inked(reservedMsg')
  BY <1>1, <1>2, <1>4, OtherKeepsInk
<1>7. stroke'[current'].points = ps /\ 1 .. contact \subseteq 1 .. contact'
  BY <1>1
<1> HIDE DEF ps
<1>8. Lucky' => Lucky
  BY <1>1 DEF Lucky
<1> QED BY <1>1, <1>5, <1>6, <1>7, <1>8, InkKept DEF ps

(* A point that comes while the interpreter has the last stroke in its hands. *)
LEMMA StoreKeepsInk ==
  ASSUME Shape, InPlace, MadeFits, ChainFits, InkFits, AddPointStore PROVE InkFits'
<1> DEFINE ps == stroke[current].points
           qs == stroke'[current'].points
<1>1. UNCHANGED <<interp, said, current, reservedMsg, strokes, contact, Lost, midStroke, crowded>>
  BY DEF AddPointStore, pen, interpreter, history, Lost
<1>2. /\ rcv # NoRcv /\ rcv.st = Len(stroke) /\ rcv.st \in DOMAIN stroke
      /\ \A id \in DOMAIN stroke : id # rcv.st => stroke'[id] = stroke[id]
  BY StoreIs DEF InPlace
<1>3. Lucky' => Lucky
  BY <1>1 DEF Lucky
<1>4. CASE interp = "idle"
  BY <1>1, <1>3, <1>4, InkStays
<1>5. CASE interp # "idle" /\ current # rcv.st
  <2>1. current \in DOMAIN stroke
    BY <1>5, InHand
  <2> QED BY <1>1, <1>2, <1>3, <1>5, <2>1, InkStays
<1>6. CASE interp # "idle" /\ current = rcv.st
  <2>1. /\ strokes # << >> /\ current = strokes[1] /\ Len(strokes) >= 1 /\ 1 \in DOMAIN strokes
        /\ Len(strokes) \in Nat /\ Len(stroke) \in Nat
    <3>1. strokes # << >> /\ current = Head(strokes) /\ strokes \in Seq(DOMAIN stroke)
          /\ Len(stroke) \in Nat
      BY <1>6, ListIs DEF Shape, DrawingShape
    <3> QED BY <3>1
  <2>2. stroke[current].isCompleted
    BY <1>6 DEF InPlace
  <2>3. Len(strokes) = 1
    <3>1. strokes[1] = Len(stroke) - Len(strokes) + 1
      BY <2>1 DEF InPlace
    <3>2. Len(stroke) = Len(stroke) - Len(strokes) + 1
      BY <1>2, <1>6, <2>1, <3>1
    <3>3. \A a, b \in Nat : a = a - b + 1 => b = 1
      OBVIOUS
    <3> QED BY <2>1, <3>2, <3>3
  <2>4. ~Blocked
    <3>1. Reached(Len(strokes))
      BY <2>1, <2>2, <2>3 DEF Reached
    <3> QED BY <2>1, <3>1, NotBlocked
  <2>5. ps = stroke[rcv.st].points /\ qs = stroke'[rcv.st].points
    BY <1>1, <1>6
  <2>6. ASSUME Lucky, NEW c, ClosedLater(ps, c) PROVE ClosedLater(qs, c)
    <3>1. PICK k \in DOMAIN ps : k >= 2 /\ Closes(ps, k, c)
      BY <2>6 DEF ClosedLater
    <3>2. Closes(stroke'[rcv.st].points, k, c)
      BY <1>6, <2>1, <2>2, <2>4, <2>5, <2>6, <3>1, StoreKeepsTail
    <3>3. k \in DOMAIN qs /\ Closes(qs, k, c)
      BY <2>5, <3>2 DEF Closes
    <3> QED BY <3>1, <3>3 DEF ClosedLater
  <2>7. ASSUME Lucky, Whole(ps) PROVE Whole(qs)
    BY <1>6, <2>1, <2>2, <2>4, <2>5, <2>7, StoreKeepsWhole
  <2>8. ASSUME qs # << >>, qs[1].isHead PROVE ps # << >> /\ ps[1].isHead
    <3> DEFINE p == StoredPoint(rcv.msg, rcv.last)
    <3>1. ~p.isHead
      BY DEF StoredPoint
    <3>2. /\ ps \in Seq(Point) /\ qs \in Seq(Point)
          /\ \/ qs = ps
             \/ ps # << >> /\ qs = Append(Front(ps), p)
             \/ qs = Append(ps, p)
      BY <2>5, StoredIs
    <3>3. p \in Point
      <4>1. rcv.msg \in Samples /\ rcv.msg.idx # -1 /\ rcv.last \in Millis
        BY <1>2 DEF Shape, DrawingShape
      <4> QED BY <1>2, <4>1, Positive DEF StoredPoint, TailMillis, Point, Samples, Data, Millis, InPlace
    <3> HIDE DEF p, ps, qs
    <3>4. ASSUME NEW r \in Seq(Point), qs = Append(r, p)
          PROVE  r # << >> /\ r[1].isHead
      <4>1. /\ \A i \in 1 .. Len(r) : qs[i] = r[i]
            /\ qs[Len(r) + 1] = p /\ Len(r) \in Nat
        BY <3>3, <3>4, Appends
      <4>2. Len(r) # 0
        BY <2>8, <3>1, <4>1
      <4>3. 1 \in 1 .. Len(r)
        BY <4>1, <4>2
      <4>4. r # << >>
        BY <4>2
      <4> QED BY <2>8, <4>1, <4>3, <4>4
    <3>5. CASE qs = ps
      BY <2>8, <3>5
    <3>6. CASE ps # << >> /\ qs = Append(Front(ps), p)
      <4>1. /\ Front(ps) \in Seq(Point) /\ Len(Front(ps)) = Len(ps) - 1
            /\ \A j \in 1 .. Len(ps) - 1 : Front(ps)[j] = ps[j]
        BY <3>2, <3>6, Fronts
      <4>2. Front(ps) # << >> /\ Front(ps)[1].isHead
        BY <3>4, <3>6, <4>1
      <4>3. 1 \in 1 .. Len(ps) - 1
        <5>1. Len(Front(ps)) # 0 /\ Len(Front(ps)) \in Nat
          BY <4>1, <4>2
        <5> QED BY <3>2, <4>1, <5>1
      <4> QED BY <3>6, <4>1, <4>2, <4>3
    <3>7. CASE qs = Append(ps, p)
      BY <3>2, <3>4, <3>7
    <3> QED BY <3>2, <3>5, <3>6, <3>7
  <2> HIDE DEF ps, qs
  <2>9. Lucky /\ interp \in {"points", "pair"} => \A c : ClosedLater(ps, c) => ClosedLater(qs, c)
    BY <2>6
  <2>10. Lucky /\ interp = "points" =>
           (qs # << >> /\ qs[1].isHead =>
              ps # << >> /\ ps[1].isHead /\ (Whole(ps) => Whole(qs)))
    BY <2>7, <2>8
  <2>11. /\ 1 .. contact \subseteq 1 .. contact'
         /\ Inked(reservedMsg) => Inked(reservedMsg')
         /\ Down(reservedMsg') <=> Down(reservedMsg)
         /\ \A c : LastAt(reservedMsg, c) => LastAt(reservedMsg', c)
    BY <1>1
  <2> QED BY <1>1, <1>3, <2>9, <2>10, <2>11, InkKept DEF ps, qs
<1> QED BY <1>4, <1>5, <1>6

LEMMA InterpretKeepsInk ==
  ASSUME Shape, InPlace, StrokesFit, InkFits, Interpret PROVE InkFits'
<1> SUFFICES ASSUME Lucky' PROVE InkFits'
  BY DEF InkFits
<1>1. /\ interp = "idle" /\ interp' = "points" /\ strokes # << >> /\ current' = Head(strokes)
      /\ stroke[Head(strokes)].isCompleted
      /\ UNCHANGED <<stroke, strokes, contact, reservedMsg, Lost, midStroke, crowded>>
  BY DEF Interpret, drawing, pen, history, Lost
<1>2. Lucky
  BY <1>1 DEF Lucky
<1>3. Inked(reservedMsg) /\ ~Down(reservedMsg)
  BY <1>1, <1>2 DEF InkFits
<1>4. 1 \in DOMAIN strokes /\ Head(strokes) = strokes[1]
  <2>1. strokes \in Seq(DOMAIN stroke)
    BY ListIs
  <2> QED BY <1>1, <2>1, Tails
<1>5. Whole(stroke[strokes[1]].points)
  <2>1. Reached(1)
    <3>1. \A j \in 1 .. 1 : j = 1
      OBVIOUS
    <3> QED BY <1>1, <1>4, <3>1 DEF Reached
  <2> QED BY <1>1, <1>2, <1>4, <2>1 DEF StrokesFit
<1>6. Inked(reservedMsg') /\ ~Down(reservedMsg') /\ Whole(stroke'[current'].points)
  BY <1>1, <1>3, <1>4, <1>5
<1> QED BY <1>1, <1>6 DEF InkFits

(* Of a stroke that begins with its head and has its tail, both points of the
   first pair are of one contact. *)
LEMMA PairOfWhole ==
  ASSUME InPlace, NEW id \in DOMAIN stroke, stroke[id].points \in Seq(Point),
         1 \in DOMAIN stroke[id].points, stroke[id].points[1].isHead,
         Whole(stroke[id].points)
  PROVE  LET ps == stroke[id].points
         IN ClosedLater(ps, ps[1].event[1]) /\ ps[2].event[1] = ps[1].event[1]
<1> DEFINE ps == stroke[id].points
           c == ps[1].event[1]
<1>1. PICK k \in DOMAIN ps : Closes(ps, k, c)
  BY DEF Whole
<1>2. ~ps[1].isTail
  BY DEF InPlace
<1>3. ps[k].isTail /\ \A j \in 1 .. k : ps[j].event[1] = c
  BY <1>1 DEF Closes
<1>4. k \in Nat \ {0}
  <2> HIDE DEF ps
  <2>1. ps \in Seq(Point)
    BY DEF ps
  <2> QED BY <1>1, <2>1
<1> HIDE DEF ps, c
<1>5. k >= 2
  <2>1. k # 1
    BY <1>2, <1>3
  <2> QED BY <1>4, <2>1
<1>6. 2 \in 1 .. k
  BY <1>4, <1>5
<1>7. ClosedLater(ps, c) /\ ps[2].event[1] = c
  BY <1>1, <1>3, <1>5, <1>6 DEF ClosedLater
<1> QED BY <1>7 DEF ps, c

LEMMA SecondOfClosed ==
  ASSUME NEW ps \in Seq(Point), NEW c, ClosedLater(ps, c)
  PROVE  /\ 2 \in DOMAIN ps /\ ps[2].event[1] = c
<1>1. PICK k \in DOMAIN ps : k >= 2 /\ Closes(ps, k, c)
  BY DEF ClosedLater
<1>2. 2 \in 1 .. k /\ 2 \in DOMAIN ps
  BY <1>1
<1> QED BY <1>1, <1>2 DEF Closes

LEMMA ThreeJoined ==
  ASSUME NEW T, NEW x \in T, NEW y \in T, NEW z \in T
  PROVE  LET s == <<x, y>> \o <<z>>
         IN Len(s) = 3 /\ s[1] = x /\ s[2] = y /\ s[3] = z
<1> DEFINE a == <<x, y>>
           b == <<z>>
<1>1. a \in Seq(T) /\ b \in Seq(T) /\ Len(a) = 2 /\ Len(b) = 1
  OBVIOUS
<1>2. a[1] = x /\ a[2] = y /\ b[1] = z
  OBVIOUS
<1> HIDE DEF a, b
<1>3. /\ Len(a \o b) = Len(a) + Len(b)
      /\ \A k \in 1 .. Len(a) + Len(b) :
            (a \o b)[k] = IF k <= Len(a) THEN a[k] ELSE b[k - Len(a)]
  BY <1>1, Concatenation
<1>4. Len(a \o b) = 3 /\ (a \o b)[1] = x /\ (a \o b)[2] = y /\ (a \o b)[3] = z
  BY <1>1, <1>2, <1>3
<1> QED BY <1>4 DEF a, b

LEMMA InterpretPairKeepsInk ==
  ASSUME Shape, InPlace, MadeFits, InkFits, InterpretPair PROVE InkFits'
<1> SUFFICES ASSUME Lucky' PROVE InkFits'
  BY DEF InkFits
<1> DEFINE ps == stroke[current].points
<1>1. /\ interp = "points" /\ interp' = "pair" /\ Len(ps) >= 2
      /\ UNCHANGED <<stroke, current, contact, reservedMsg, Lost, midStroke, crowded>>
      /\ said' = HeadCommands(ps[1]) \o <<[op |-> "line", to |-> ps[2].event]>>
  BY DEF InterpretPair, drawing, pen, history, Lost
<1>2. Lucky
  BY <1>1 DEF Lucky
<1>3. current \in DOMAIN stroke /\ ps \in Seq(Point)
  BY <1>1, InHand
<1>4. 1 \in DOMAIN ps /\ 2 \in DOMAIN ps /\ ps # << >>
  <2> HIDE DEF ps
  <2> QED BY <1>1, <1>3
<1>5. ps[1].event[1] \in 1 .. contact /\ ps[2].event[1] \in 1 .. contact
  BY <1>3, <1>4, ContactWas
<1>6. /\ Inked(reservedMsg)
      /\ Down(reservedMsg) => \E c \in 1 .. contact : LastAt(reservedMsg, c) /\ ClosedLater(ps, c)
      /\ ps[1].isHead => ~Down(reservedMsg) /\ Whole(ps)
  BY <1>1, <1>2, <1>4 DEF InkFits
<1>7. ps[1].isHead => ClosedLater(ps, ps[1].event[1]) /\ ps[2].event[1] = ps[1].event[1]
  BY <1>3, <1>4, <1>6, PairOfWhole
<1> HIDE DEF ps
<1>8. ps \in Seq(Point)
  BY <1>3
<1>9. \E c \in 1 .. contact :
        \/ /\ Len(said') = 1 /\ said'[1].op = "line"
           /\ Down(reservedMsg) =>
                said'[1].to[1] = c /\ LastAt(reservedMsg, c) /\ ClosedLater(ps, c)
        \/ /\ Len(said') = 3 /\ said'[1].op = "travel" /\ said'[2].op = "down" /\ said'[3].op = "line"
           /\ said'[1].to[1] = c /\ said'[3].to[1] = c
           /\ ~Down(reservedMsg) /\ ClosedLater(ps, c)
  <2>1. CASE ps[1].isHead
    <3>1. said' = <<[op |-> "travel", to |-> ps[1].event], [op |-> "down"]>>
                  \o <<[op |-> "line", to |-> ps[2].event]>>
      BY <1>1, <2>1 DEF HeadCommands
    <3>2. /\ [op |-> "travel", to |-> ps[1].event] \in StrokeCommand
          /\ [op |-> "line", to |-> ps[2].event] \in StrokeCommand
          /\ [op |-> "down"] \in StrokeCommand
      <4>1. ps[1].event \in Events /\ ps[2].event \in Events
        <5>1. ps[1] \in Point /\ ps[2] \in Point
          BY <1>4, <1>8, Element
        <5> QED BY <5>1 DEF Point
      <4> QED BY <4>1 DEF StrokeCommand
    <3>3. /\ Len(said') = 3 /\ said'[1] = [op |-> "travel", to |-> ps[1].event]
          /\ said'[2] = [op |-> "down"] /\ said'[3] = [op |-> "line", to |-> ps[2].event]
      BY <3>1, <3>2, ThreeJoined
    <3> QED BY <1>5, <1>6, <1>7, <2>1, <3>3
  <2>2. CASE ~ps[1].isHead
    <3>1. said' = << >> \o <<[op |-> "line", to |-> ps[2].event]>>
      BY <1>1, <2>2 DEF HeadCommands
    <3>2. said' = <<[op |-> "line", to |-> ps[2].event]>>
      BY <3>1
    <3>3. Len(said') = 1 /\ said'[1].op = "line" /\ said'[1].to = ps[2].event
      BY <3>2
    <3>4. CASE Down(reservedMsg)
      <4>1. PICK c \in 1 .. contact : LastAt(reservedMsg, c) /\ ClosedLater(ps, c)
        BY <1>6, <3>4
      <4>2. ps[2].event[1] = c
        BY <1>3, <4>1, SecondOfClosed
      <4> QED BY <3>3, <4>1, <4>2
    <3>5. CASE ~Down(reservedMsg)
      BY <1>5, <3>3, <3>5
    <3> QED BY <3>4, <3>5
  <2> QED BY <2>1, <2>2
<1>10. SaidFits(ps)'
  <2>1. ps' = ps /\ contact' = contact /\ reservedMsg' = reservedMsg
    BY <1>1 DEF ps
  <2>2. PICK c \in 1 .. contact :
        \/ /\ Len(said') = 1 /\ said'[1].op = "line"
           /\ Down(reservedMsg) =>
                said'[1].to[1] = c /\ LastAt(reservedMsg, c) /\ ClosedLater(ps, c)
        \/ /\ Len(said') = 3 /\ said'[1].op = "travel" /\ said'[2].op = "down" /\ said'[3].op = "line"
           /\ said'[1].to[1] = c /\ said'[3].to[1] = c
           /\ ~Down(reservedMsg) /\ ClosedLater(ps, c)
    BY <1>9
  <2>3. CASE /\ Len(said') = 1 /\ said'[1].op = "line"
             /\ Down(reservedMsg) =>
                  said'[1].to[1] = c /\ LastAt(reservedMsg, c) /\ ClosedLater(ps, c)
    BY <2>1, <2>2, <2>3 DEF SaidFits
  <2>4. CASE /\ Len(said') = 3 /\ said'[1].op = "travel" /\ said'[2].op = "down" /\ said'[3].op = "line"
             /\ said'[1].to[1] = c /\ said'[3].to[1] = c
             /\ ~Down(reservedMsg) /\ ClosedLater(ps, c)
    BY <2>1, <2>2, <2>4 DEF SaidFits
  <2> QED BY <2>2, <2>3, <2>4
<1>11. Inked(reservedMsg')
  BY <1>1, <1>6
<1> QED BY <1>1, <1>10, <1>11 DEF InkFits, ps

LEMMA ReserveKeepsInk ==
  ASSUME Shape, InkFits, Reserve PROVE InkFits'
<1> SUFFICES ASSUME Lucky' PROVE InkFits'
  BY DEF InkFits
<1> DEFINE ps == stroke[current].points
           x == said[1]
           t == reservedMsg'
           n == said'
<1>1. /\ interp = "pair" /\ interp' = "pair" /\ said # << >> /\ n = Tail(said)
      /\ UNCHANGED <<stroke, current, contact, Lost, midStroke, crowded>>
      /\ t = Append(reservedMsg, Head(said))
  BY DEF Reserve, drawing, pen, history, Lost
<1>2. Inked(reservedMsg) /\ SaidFits(ps)
  <2>1. Lucky
    BY <1>1 DEF Lucky
  <2> QED BY <1>1, <2>1 DEF InkFits
<1>3. /\ reservedMsg \in Seq(Command) /\ said \in Seq(StrokeCommand)
      /\ Head(said) = x /\ x \in StrokeCommand /\ n \in Seq(StrokeCommand)
      /\ Len(said) \in Nat /\ Len(said) >= 1 /\ Len(n) = Len(said) - 1
      /\ \A i \in 1 .. Len(said) - 1 : n[i] = said[i + 1]
  <2>1. reservedMsg \in Seq(Command) /\ said \in Seq(StrokeCommand)
    BY DEF Shape, CommandShape
  <2> QED BY <1>1, <2>1, Tails
<1>4. x \in Command /\ (IsMove(x) <=> x.op \in {"travel", "line"})
  BY <1>3, OtherCommands
<1>5. ps' = ps /\ contact' = contact
  BY <1>1
<1>6. t = Append(reservedMsg, x)
  BY <1>1, <1>3
<1>0. reservedMsg \in Seq(Command)
  BY <1>3
<1> HIDE DEF ps, x, t, n
<1>7. IsMove(x) => (Down(t) <=> Down(reservedMsg))
  <2>1. IsMove(x) => x.op \notin {"up", "down"}
    BY <1>4
  <2>2. x.op \notin {"up", "down"} => (Down(t) <=> Down(reservedMsg))
    BY <1>0, <1>4, <1>6, PenAfter
  <2> QED BY <2>1, <2>2
<1>8. IsMove(x) /\ (Down(reservedMsg) => LastAt(reservedMsg, x.to[1])) =>
        LastAt(t, x.to[1]) /\ Inked(t)
  BY <1>0, <1>2, <1>4, <1>6, MoveKeepsInk
<1>9. PICK c \in 1 .. contact :
    \/ /\ said = << >> /\ (Down(reservedMsg) => LastAt(reservedMsg, c) /\ ClosedLater(ps, c))
    \/ /\ Len(said) = 1 /\ said[1].op = "line"
       /\ Down(reservedMsg) =>
            said[1].to[1] = c /\ LastAt(reservedMsg, c) /\ ClosedLater(ps, c)
    \/ /\ Len(said) = 2 /\ said[1].op = "down" /\ said[2].op = "line" /\ said[2].to[1] = c
       /\ LastAt(reservedMsg, c) /\ ClosedLater(ps, c)
    \/ /\ Len(said) = 3 /\ said[1].op = "travel" /\ said[2].op = "down" /\ said[3].op = "line"
       /\ said[1].to[1] = c /\ said[3].to[1] = c
       /\ ~Down(reservedMsg) /\ ClosedLater(ps, c)
  BY <1>2 DEF SaidFits
<1>10. ASSUME Len(said) = 1, said[1].op = "line",
              Down(reservedMsg) =>
                said[1].to[1] = c /\ LastAt(reservedMsg, c) /\ ClosedLater(ps, c)
       PROVE  Inked(t) /\ SaidFits(ps)'
  <2>1. IsMove(x) /\ (Down(reservedMsg) => x.to[1] = c)
    BY <1>4, <1>10 DEF x
  <2>2. LastAt(t, x.to[1]) /\ Inked(t) /\ (Down(t) <=> Down(reservedMsg))
    BY <1>7, <1>8, <1>10, <2>1
  <2>3. Down(t) => LastAt(t, c) /\ ClosedLater(ps, c)
    BY <1>10, <2>1, <2>2
  <2>4. n = << >>
    <3>1. Len(n) = 0
      BY <1>3, <1>10
    <3> QED BY <1>3, <3>1
  <2> QED BY <1>5, <2>2, <2>3, <2>4 DEF SaidFits, n, t
<1>11. ASSUME Len(said) = 2, said[1].op = "down", said[2].op = "line", said[2].to[1] = c,
              LastAt(reservedMsg, c), ClosedLater(ps, c)
       PROVE  Inked(t) /\ SaidFits(ps)'
  <2>1. ~IsMove(x) /\ x.op = "down"
    BY <1>4, <1>11 DEF x
  <2>2. Inked(t) /\ LastAt(t, c)
    <3>1. /\ \A v : LastAt(reservedMsg, v) => LastAt(t, v)
          /\ Inked(reservedMsg) => Inked(t)
      BY <1>0, <1>4, <1>6, <2>1, OtherKeepsInk
    <3> QED BY <1>2, <1>11, <3>1
  <2>3. Len(n) = 1 /\ n[1] = said[2]
    BY <1>3, <1>11
  <2> QED BY <1>5, <1>11, <2>2, <2>3 DEF SaidFits, n, t
<1>12. ASSUME Len(said) = 3, said[1].op = "travel", said[2].op = "down", said[3].op = "line",
              said[1].to[1] = c, said[3].to[1] = c, ~Down(reservedMsg), ClosedLater(ps, c)
       PROVE  Inked(t) /\ SaidFits(ps)'
  <2>1. IsMove(x) /\ x.to[1] = c
    BY <1>4, <1>12 DEF x
  <2>2. Inked(t) /\ LastAt(t, c)
    BY <1>8, <1>12, <2>1
  <2>3. Len(n) = 2 /\ n[1] = said[2] /\ n[2] = said[3]
    BY <1>3, <1>12
  <2> QED BY <1>5, <1>12, <2>2, <2>3 DEF SaidFits, n, t
<1>13. Inked(t) /\ SaidFits(ps)'
  BY <1>1, <1>9, <1>10, <1>11, <1>12
<1> QED BY <1>1, <1>13 DEF InkFits, ps, t

(* The first point of the stroke in hand is taken off it. *)
LEMMA TailOfClosed ==
  ASSUME NEW ps \in Seq(Point), NEW c, Len(ps) >= 2, ClosedLater(ps, c), ~ps[2].isTail
  PROVE  ClosedLater(Tail(ps), c)
<1>1. PICK k \in DOMAIN ps : k >= 2 /\ Closes(ps, k, c)
  BY DEF ClosedLater
<1>2. ps[k].isTail /\ \A j \in 1 .. k : ps[j].event[1] = c
  BY <1>1 DEF Closes
<1>3. /\ DOMAIN Tail(ps) = 1 .. Len(ps) - 1 /\ DOMAIN ps = 1 .. Len(ps) /\ Len(ps) \in Nat
      /\ \A i \in 1 .. Len(ps) - 1 : Tail(ps)[i] = ps[i + 1]
  BY Tails
<1>4. k # 2
  BY <1>2
<1>5. k \in Nat /\ k >= 3 /\ k <= Len(ps) /\ k - 1 \in 1 .. Len(ps) - 1 /\ (k - 1) + 1 = k
  BY <1>1, <1>3, <1>4
<1>6. Tail(ps)[k - 1].isTail
  BY <1>2, <1>3, <1>5
<1>7. ASSUME NEW j \in 1 .. k - 1 PROVE Tail(ps)[j].event[1] = c
  <2>1. j \in 1 .. Len(ps) - 1 /\ j + 1 \in 1 .. k
    BY <1>5
  <2> QED BY <1>2, <1>3, <2>1
<1>8. k - 1 \in DOMAIN Tail(ps) /\ k - 1 >= 2
  BY <1>3, <1>5
<1> QED BY <1>6, <1>7, <1>8 DEF ClosedLater, Closes

LEMMA InterpretTailKeepsInk ==
  ASSUME Shape, InPlace, InkFits, InterpretTail PROVE InkFits'
<1> SUFFICES ASSUME Lucky' PROVE InkFits'
  BY DEF InkFits
<1> DEFINE ps == stroke[current].points
           qs == stroke'[current'].points
           t == reservedMsg'
           up == [op |-> "up"]
<1>1. /\ interp = "pair" /\ interp' = "points" /\ said = << >> /\ current' = current
      /\ UNCHANGED <<contact, Lost, midStroke, crowded>>
      /\ stroke' = [stroke EXCEPT ![current].points = Tail(ps)]
      /\ t = reservedMsg \o TailCommands(ps[2])
  BY DEF InterpretTail, pen, history, Lost
<1>2. Lucky
  BY <1>1 DEF Lucky
<1>3. /\ ps \in Seq(Point) /\ Len(ps) >= 2 /\ current \in DOMAIN stroke
      /\ reservedMsg \in Seq(Command)
  BY <1>1, InHand DEF Shape, DrawingShape, CommandShape
<1>4. Tail(ps) \in Seq(Point) /\ ps # << >> /\ 2 \in DOMAIN ps /\ Tail(ps)[1] = ps[2]
  <2> HIDE DEF ps
  <2>1. ps # << >>
    BY <1>3
  <2> QED BY <1>3, <2>1, Tails
<1>5. qs = Tail(ps)
  BY <1>1, <1>4, TakesOff
<1>6. ~ps[2].isHead
  BY <1>3, <1>4 DEF InPlace
<1>7. ~(qs # << >> /\ qs[1].isHead)
  BY <1>4, <1>5, <1>6
<1>8. Inked(reservedMsg) /\ SaidFits(ps)
  BY <1>1, <1>2 DEF InkFits
<1> HIDE DEF ps, qs
<1>9. Down(reservedMsg) => \E c \in 1 .. contact : LastAt(reservedMsg, c) /\ ClosedLater(ps, c)
  <2>1. Len(said) = 0
    BY <1>1
  <2> QED BY <1>8, <2>1 DEF SaidFits
<1>10. /\ Inked(t)
       /\ Down(t) => \E c \in 1 .. contact : LastAt(t, c) /\ ClosedLater(qs, c)
  <2>1. CASE ps[2].isTail
    <3>1. t = Append(reservedMsg, up)
      <4>1. t = reservedMsg \o <<up>>
        BY <1>1, <2>1 DEF TailCommands
      <4> QED BY <1>3, <4>1
    <3>2. up \in StrokeCommand /\ up.op = "up"
      BY DEF StrokeCommand
    <3> HIDE DEF up, t
    <3>3. up \in Command /\ ~IsMove(up)
      BY <3>2, OtherCommands
    <3>4. ~Down(t)
      BY <1>3, <3>1, <3>2, <3>3, PenAfter
    <3>5. Inked(t)
      BY <1>3, <1>8, <3>1, <3>3, OtherKeepsInk
    <3> QED BY <3>4, <3>5
  <2>2. CASE ~ps[2].isTail
    <3>1. t = reservedMsg
      <4>1. t = reservedMsg \o << >>
        BY <1>1, <2>2 DEF TailCommands
      <4> QED BY <1>3, <4>1
    <3>2. \A c : ClosedLater(ps, c) => ClosedLater(qs, c)
      BY <1>3, <1>5, <2>2, TailOfClosed
    <3> QED BY <1>8, <1>9, <3>1, <3>2
  <2> QED BY <2>1, <2>2
<1> QED BY <1>1, <1>7, <1>10 DEF InkFits, qs

LEMMA InterpretRestKeepsInk ==
  ASSUME Shape, InkFits, InterpretRest PROVE InkFits'
<1> SUFFICES ASSUME Lucky' PROVE InkFits'
  BY DEF InkFits
<1> DEFINE ps == stroke[current].points
<1>1. /\ interp = "points" /\ interp' = "remove" /\ Len(ps) < 2
      /\ UNCHANGED <<reservedMsg, Lost, midStroke, crowded>>
  BY DEF InterpretRest, history, Lost
<1>2. Lucky
  BY <1>1 DEF Lucky
<1>3. ps \in Seq(Point)
  BY <1>1, InHand
<1>4. /\ Inked(reservedMsg)
      /\ Down(reservedMsg) => \E c \in 1 .. contact : LastAt(reservedMsg, c) /\ ClosedLater(ps, c)
  BY <1>1, <1>2 DEF InkFits
<1> HIDE DEF ps
<1>5. \A c : ~ClosedLater(ps, c)
  <2>1. ~(2 \in DOMAIN ps)
    BY <1>1, <1>3
  <2> QED BY <1>3, <2>1, SecondOfClosed
<1>6. Inked(reservedMsg') /\ ~Down(reservedMsg')
  BY <1>1, <1>4, <1>5
<1> QED BY <1>1, <1>6 DEF InkFits

LEMMA RemoveKeepsInk ==
  ASSUME InkFits, RemoveStroke PROVE InkFits'
<1> SUFFICES ASSUME Lucky' PROVE InkFits'
  BY DEF InkFits
<1>1. /\ interp = "remove" /\ interp' = "idle"
      /\ UNCHANGED <<reservedMsg, Lost, midStroke, crowded>>
  BY DEF RemoveStroke, history, Lost
<1>2. Lucky
  BY <1>1 DEF Lucky
<1>3. Inked(reservedMsg') /\ ~Down(reservedMsg')
  BY <1>1, <1>2 DEF InkFits
<1> QED BY <1>1, <1>3 DEF InkFits

LEMMA InkStep ==
  /\ Shape /\ Counts /\ InPlace /\ MadeFits /\ ChainFits /\ StrokesFit /\ InkFits
  /\ [Next]_vars
  => InkFits'
<1> SUFFICES ASSUME Shape, Counts, InPlace, MadeFits, ChainFits, StrokesFit, InkFits,
                    [Next]_vars
             PROVE  InkFits'
  OBVIOUS
<1>0. contact \in Nat /\ midStroke \in BOOLEAN
  BY DEF Shape, PenShape, FlagShape
<1>1. CASE Pen
  <2>1. PICK action \in {"PRESS", "DRAG", "RELEASE"} : PenMoves(action)
    BY <1>1, PenDoes
  <2>2. Lucky' => Lucky
    BY <2>1, ClockIs DEF PenMoves, Lucky
  <2>3. contact' = contact \/ contact' = contact + 1
    BY <2>1 DEF PenMoves
  <2>4. 1 .. contact \subseteq 1 .. contact'
    BY <1>0, <2>3
  <2> QED BY <2>1, <2>2, <2>4, InkStays DEF PenMoves, drawing
<1>2. CASE ToggleMode
  <2>1. Lucky' => Lucky
    BY <1>0, <1>2 DEF ToggleMode, Lost, Lucky
  <2> QED BY <1>2, <2>1, InkStays DEF ToggleMode, drawing, interpreter
<1>3. CASE keyPressed \/ OscStreaming \/ ReadSizes \/ UNCHANGED vars
  <2>1. UNCHANGED <<stroke, interp, said, current, reservedMsg, contact, Lost, midStroke, crowded>>
    BY <1>3 DEF keyPressed, OscStreaming, ReadSizes, vars, drawing, interpreter, history,
               pen, Lost
  <2>2. (Lucky' => Lucky) /\ 1 .. contact \subseteq 1 .. contact'
    BY <2>1 DEF Lucky
  <2> QED BY <2>1, <2>2, InkStays
<1>4. CASE NetFault \/ OscRace
  <2>1. UNCHANGED <<stroke, interp, said, current, reservedMsg, contact>>
    BY <1>4 DEF NetFault, OscRace, drawing, interpreter, pen
  <2>2. (Lucky' => Lucky) /\ 1 .. contact \subseteq 1 .. contact'
    BY <1>4, <2>1, FaultLoses
  <2> QED BY <2>1, <2>2, InkStays
<1>5. CASE ReserveTyped
  BY <1>5, TypedKeepsInk
<1>6. CASE Receive
  <2>1. /\ UNCHANGED <<interp, said, current, reservedMsg, contact>>
        /\ UNCHANGED stroke \/ AddStroke(Head(net))
    BY <1>6 DEF Receive, ReceiveCalibration, AddPointLoad, drawing, interpreter, pen
  <2>2. (Lucky' => Lucky) /\ 1 .. contact \subseteq 1 .. contact'
    BY <1>6, <2>1, ReceiverLoses
  <2>3. interp # "idle" => stroke'[current] = stroke[current]
    <3>1. interp # "idle" => current \in DOMAIN stroke
      BY InHand
    <3>2. CASE UNCHANGED stroke
      BY <3>2
    <3>3. CASE AddStroke(Head(net))
      BY <1>6, <3>1, <3>3, AddStrokeIs
    <3> QED BY <2>1, <3>2, <3>3
  <2> QED BY <2>1, <2>2, <2>3, InkStays
<1>7. CASE AddPointStore
  BY <1>7, StoreKeepsInk
<1>8. CASE Interpret
  BY <1>8, InterpretKeepsInk
<1>9. CASE InterpretPair
  BY <1>9, InterpretPairKeepsInk
<1>10. CASE Reserve
  BY <1>10, ReserveKeepsInk
<1>11. CASE InterpretTail
  BY <1>11, InterpretTailKeepsInk
<1>12. CASE InterpretRest
  BY <1>12, InterpretRestKeepsInk
<1>13. CASE RemoveStroke
  BY <1>13, RemoveKeepsInk
<1> QED BY <1>1, <1>2, <1>3, <1>4, <1>5, <1>6, <1>7, <1>8, <1>9, <1>10, <1>11, <1>12, <1>13
        DEF Next, Keyboard, Oscp5, Interpreting

LEMMA InitFits == Init => InPlace /\ MadeFits /\ ChainFits /\ StrokesFit /\ InkFits
<1> SUFFICES ASSUME Init PROVE InPlace /\ MadeFits /\ ChainFits /\ StrokesFit /\ InkFits
  OBVIOUS
<1>1. /\ Flow = << >> /\ stroke = << >> /\ strokes = << >> /\ rcv = NoRcv
      /\ reservedMsg = << >> /\ interp = "idle" /\ penDown = FALSE
  BY DEF Init, Flow
<1>2. \A s : s = << >> => Len(s) = 0 /\ DOMAIN s = {}
  OBVIOUS
<1>3. InPlace
  BY <1>1, <1>2 DEF InPlace
<1>4. MadeFits
  <2>1. Points = {} /\ InChain = {}
    BY <1>1, <1>2 DEF Points, InChain
  <2>2. Made = {} /\ Timed = {}
    BY <2>1 DEF Made, Timed
  <2> QED BY <2>2 DEF MadeFits
<1>5. ~Blocked
  BY <1>1, <1>2 DEF Blocked
<1>6. Chain = << >> /\ Opened = << >>
  <2>1. BaseParts
    BY <1>3, InitShape, BaseIs
  <2>2. Opened = << >> /\ Started = << >>
    <3>1. Opened = << >> /\ InHandLink = << >>
      BY <1>1 DEF Opened, InHandLink
    <3>2. Started = << >> \o << >>
      BY <3>1 DEF Started
    <3> QED BY <3>1, <3>2
  <2>3. Arriving = << >>
    <3>1. DOMAIN Arriving = {}
      BY <1>1, <1>2 DEF Arriving
    <3>2. Arriving \in Seq(Links)
      BY <2>1 DEF BaseParts
    <3> QED BY <3>1, <3>2
  <2>4. ~Writing
    BY <1>1 DEF Writing
  <2>5. Chain = Started \o Arriving
    BY <2>1, <2>4 DEF BaseParts, Base
  <2> QED BY <2>2, <2>3, <2>5
<1>7. ChainFits
  <2>1. DOMAIN Chain = {} /\ DOMAIN Opened = {}
    BY <1>2, <1>6
  <2>2. Led /\ Early
    BY <1>6, <2>1 DEF Led, Early
  <2>3. ChainHolds(Chain)
    BY <2>1 DEF ChainHolds, HeadsFit, TwiceFits, TailsFit
  <2>4. Perfect(Chain) /\ Ended(Chain)
    BY <2>1 DEF Perfect, Ended
  <2> QED BY <1>5, <2>2, <2>3, <2>4 DEF ChainFits, Fit
<1>8. StrokesFit
  BY <1>1, <1>2 DEF StrokesFit
<1>9. InkFits
  <2>1. Inked(reservedMsg) /\ ~Down(reservedMsg)
    BY <1>1, <1>2 DEF Inked, Down, Lowered, Moves
  <2> QED BY <1>1, <2>1 DEF InkFits
<1> QED BY <1>3, <1>4, <1>7, <1>8, <1>9

(* A move with the pen down joins two points of one contact, and between two
   strokes the pen is up, whatever one datum the network or the sender lost or
   doubled, the network swapped with the next or the receiver gave up, at any
   time, for any number of strokes, and however receiver and interpreter take
   turns: from the pen to the list, heads open strokes and tails close them in
   an order that one fault cannot spoil so far that a stroke gets points of
   another before it is closed and nothing blocks the list in front of it.
   (That this holds for a datum with the flags of a mixed message, too, is only
   model-checked.) *)
InkIInv == /\ Shape /\ Counts /\ CalibrationFits
           /\ \/ mixed
              \/ InPlace /\ MadeFits /\ ChainFits /\ StrokesFit /\ InkFits

THEOREM InkAlwaysStaysInStrokes == Spec => [](~mixed => InkStaysInStrokes)
<1>1. InkFits => InkStaysInStrokes
  BY DEF InkFits, InkStaysInStrokes, Lucky, Lost, PenIsUp, Inked, Down
<1>2. InkIInv /\ [Next]_vars => InkIInv'
  <2> SUFFICES ASSUME InkIInv, [Next]_vars PROVE InkIInv'
    OBVIOUS
  <2>1. Shape' /\ Counts' /\ CalibrationFits'
    BY ShapeStep, CountsStep, CalibrationStep DEF InkIInv
  <2>2. CASE mixed'
    BY <2>1, <2>2 DEF InkIInv
  <2>3. CASE ~mixed'
    <3>0. ~mixed
      BY <2>3, NotMixed
    <3>1. InPlace /\ MadeFits /\ ChainFits /\ StrokesFit /\ InkFits
      BY <3>0 DEF InkIInv
    <3>2. InPlace' /\ MadeFits'
      BY <2>1, <2>3, <3>1, PlacesStep, MadeStep DEF InkIInv
    <3>3. ChainFits' /\ StrokesFit' /\ InkFits'
      BY <2>1, <2>3, <3>1, <3>2, ChainStep, StrokesStep, InkStep DEF InkIInv
    <3> QED BY <2>1, <3>2, <3>3 DEF InkIInv
  <2> QED BY <2>2, <2>3
<1>3. Init => InkIInv
  <2>1. Init => CalibrationFits
    BY DEF Init, CalibrationFits
  <2>2. Init => Counts
    <3>1. 0 \in Nat /\ FALSE \in BOOLEAN
      OBVIOUS
    <3> QED BY <3>1, Zenon DEF Init, Counts
  <2> QED BY <2>1, <2>2, InitShape, InitFits DEF InkIInv
<1>4. InkIInv => (~mixed => InkStaysInStrokes)
  BY <1>1 DEF InkIInv
<1> QED BY <1>2, <1>3, <1>4, PTL DEF Spec
==============================================================================

----------------------------- MODULE GrblStream -----------------------------
(***************************************************************************)
(* The host's G-code stream to the plotter: classes Grbl and SerialComm of *)
(* TH_DIS2018, the serial link, and the receive side of the firmware.      *)
(*                                                                         *)
(* Two host threads share Grbl's fields without a lock.  The animation     *)
(* thread runs Grbl.streaming (and SerialComm.connecting) once a frame;    *)
(* the serial event thread runs SerialComm.read for every character and    *)
(* Grbl.read / Grbl.init for every complete message.  Each step below is   *)
(* one access to a shared field, so the read-modify-write updates of       *)
(* bfrSize on the two threads interleave as the byte code does.            *)
(*                                                                         *)
(* A line is its number in the order it is reserved; LineLen gives its     *)
(* length with the closing '\r'.  On the wire it is that many bytes, the   *)
(* last of which ends the line.                                            *)
(***************************************************************************)
EXTENDS Integers, Sequences, FiniteSets, SequencesExt

CONSTANTS bfrSizeMx,        \* the host's budget of unanswered characters
          RX_BUFFER_SIZE,   \* what the firmware's receive ring holds
          LineLen,          \* the length of each line, in reservation order
          SettingLines,     \* the lines that are '$x=val' settings
          MaxOpens,         \* bound: times the host opens the port
          MaxResets         \* bound: times the board restarts by itself

Lines == 1 .. Len(LineLen)

ASSUME StreamAssumption ==
  /\ bfrSizeMx \in Nat /\ RX_BUFFER_SIZE \in Nat
  /\ bfrSizeMx <= RX_BUFFER_SIZE          \* 128 and 128 in the code
  /\ LineLen \in Seq(1 .. bfrSizeMx)      \* no line exceeds the budget
  /\ SettingLines \subseteq Lines
  /\ MaxOpens \in Nat /\ MaxResets \in Nat

VARIABLES
  \* Grbl.java
  bfrSize, grblBfr, reservedMsg,
  \* SerialComm.java
  isConnected,
  opens,          \* ports opened so far; 0 is srlPort = null
  \* the animation thread: place in streaming/connecting, its loaded bfrSize
  anim, animReg,
  \* the serial event thread: place in Grbl.init/read, loaded bfrSize, ack
  srl, srlReg, srlAck,
  \* the link
  toGrbl, toHost,
  \* the firmware: "off" until its start-up flushes the ring, "read" or "exec"
  fw, rx, fwLine, resets,
  \* history
  reserved,       \* number of lines handed to Grbl.reserve
  executed,       \* lines the firmware has executed complete and unmixed
  torn,           \* an update of bfrSize fell inside one by the other thread
  early,          \* Grbl.init met a line on its way, or one was sent before it
  rebooted,       \* the board restarted behind a host that was connected
  overrun,        \* the receive ring dropped a byte
  deafened        \* a byte arrived while an EEPROM write blocked interrupts

grbl == <<bfrSize, grblBfr, reservedMsg>>
animVars == <<anim, animReg>>
srlVars == <<srl, srlReg, srlAck>>
link == <<toGrbl, toHost>>
fwVars == <<fw, rx, fwLine, resets>>
history == <<torn, early, rebooted>>
losses == <<overrun, deafened>>
vars == <<grbl, isConnected, opens, animVars, srlVars, link, fwVars,
          reserved, executed, history, losses>>

Total(lines) == FoldSeq(LAMBDA l, n : LineLen[l] + n, 0, lines)

(* Line l as bytes: <<l, k>> is its k-th character, the last one is '\r'. *)
BytesOf(l) == [k \in 1 .. LineLen[l] |-> <<l, k>>]
IsEol(b) == b[2] = LineLen[b[1]]

Welcome == 0      \* the welcome message; any other message answers that line

TypeOK ==
  /\ bfrSize \in Int
  /\ grblBfr \in Seq(Lines) /\ reservedMsg \in Seq(Lines)
  /\ isConnected \in BOOLEAN /\ opens \in 0 .. MaxOpens
  /\ anim \in {"frame", "load", "store", "add", "write", "remove", "open",
               "dead"}
  /\ animReg \in Int /\ srlReg \in Int
  /\ srl \in {"wait", "clearReserved", "clearBfr", "zero", "load", "store",
              "remove", "disabled"}
  /\ srlAck \in {0} \cup Lines
  /\ toGrbl \in Seq(Lines \X Nat) /\ toHost \in Seq({Welcome} \cup Lines)
  /\ fw \in {"off", "read", "exec"}
  /\ rx \in Seq(Lines \X Nat) /\ Len(rx) <= RX_BUFFER_SIZE
  /\ fwLine \in Seq(Lines \X Nat)
  /\ resets \in 0 .. MaxResets
  /\ reserved \in 0 .. Len(LineLen) /\ executed \subseteq Lines
  /\ {torn, early, rebooted, overrun, deafened} \subseteq BOOLEAN

Init ==
  /\ bfrSize = 0 /\ grblBfr = << >> /\ reservedMsg = << >>
  /\ isConnected = FALSE /\ opens = 0
  /\ anim = "frame" /\ animReg = 0
  /\ srl = "wait" /\ srlReg = 0 /\ srlAck = 0
  /\ toGrbl = << >> /\ toHost = << >>
  /\ fw = "off" /\ rx = << >> /\ fwLine = << >> /\ resets = 0
  /\ reserved = 0 /\ executed = {}
  /\ torn = FALSE /\ early = FALSE /\ rebooted = FALSE
  /\ overrun = FALSE /\ deafened = FALSE

-----------------------------------------------------------------------------
(* Grbl.reserve, from the interpreter thread or a key. *)
Reserve ==
  /\ reserved < Len(LineLen)
  /\ reserved' = reserved + 1
  /\ reservedMsg' = Append(reservedMsg, reserved + 1)
  /\ UNCHANGED <<bfrSize, grblBfr, isConnected, opens, animVars, srlVars,
                 link, fwVars, executed, history, losses>>

Initialising == srl \in {"clearReserved", "clearBfr", "zero"}
SetUp == isConnected /\ ~Initialising

(* Grbl.streaming, one pass of its loop.  A list emptied by Grbl.init under
   its feet makes get(0) or remove(0) throw, which ends the animation
   thread. *)
FitsMutant(size) == size <= bfrSizeMx
FitsStrictMutant(size) == size + LineLen[Head(reservedMsg)] < bfrSizeMx
Fits(size) == size + LineLen[Head(reservedMsg)] <= bfrSizeMx

AnimSame == UNCHANGED <<isConnected, opens, srlVars, link, fwVars, reserved,
                        executed, rebooted, losses>>

StreamCheck ==
  /\ anim = "frame"
  /\ reservedMsg # << >>
  /\ bfrSize <= bfrSizeMx
  /\ Fits(bfrSize)
  /\ anim' = "load"
  /\ UNCHANGED <<grbl, animReg, torn, early>> /\ AnimSame

StreamLoad ==
  /\ anim = "load"
  /\ animReg' = bfrSize
  /\ anim' = IF reservedMsg = << >> THEN "dead" ELSE "store"
  /\ UNCHANGED <<grbl, torn, early>> /\ AnimSame

StreamStore ==
  /\ anim = "store"
  /\ IF reservedMsg = << >>
     THEN anim' = "dead" /\ UNCHANGED <<bfrSize, torn>>
     ELSE /\ bfrSize' = animReg + LineLen[Head(reservedMsg)]
          /\ torn' = (torn \/ bfrSize # animReg)
          /\ anim' = "add"
  /\ UNCHANGED <<grblBfr, reservedMsg, animReg, early>> /\ AnimSame

StreamAdd ==
  /\ anim = "add"
  /\ IF reservedMsg = << >>
     THEN anim' = "dead" /\ UNCHANGED grblBfr
     ELSE /\ grblBfr' = Append(grblBfr, Head(reservedMsg))
          /\ anim' = "write"
  /\ UNCHANGED <<bfrSize, reservedMsg, animReg, torn, early>> /\ AnimSame

(* SerialComm.write: no port has been opened (null) or the bytes go out. *)
StreamWrite ==
  /\ anim = "write"
  /\ IF reservedMsg = << >> \/ opens = 0
     THEN anim' = "dead" /\ UNCHANGED <<toGrbl, early>>
     ELSE /\ toGrbl' = toGrbl \o BytesOf(Head(reservedMsg))
          /\ early' = (early \/ ~SetUp)
          /\ anim' = "remove"
  /\ UNCHANGED <<grbl, animReg, isConnected, opens, srlVars, toHost, fwVars,
                 reserved, executed, torn, rebooted, losses>>

StreamRemove ==
  /\ anim = "remove"
  /\ IF reservedMsg = << >>
     THEN anim' = "dead" /\ UNCHANGED reservedMsg
     ELSE /\ reservedMsg' = Tail(reservedMsg)
          /\ anim' = "frame"
  /\ UNCHANGED <<bfrSize, grblBfr, animReg, torn, early>> /\ AnimSame

(* SerialComm.pre: not connected and three seconds gone; then connect opens
   the next port, which drops what was on the old one and restarts the
   board.  The welcome may arrive between the test and the opening. *)
Connecting ==
  /\ anim = "frame" /\ ~isConnected /\ opens < MaxOpens
  /\ anim' = "open"
  /\ UNCHANGED <<grbl, animReg, torn, early>> /\ AnimSame

Restart == /\ fw' = "off" /\ rx' = << >> /\ fwLine' = << >>
           /\ rebooted' = \/ rebooted \/ isConnected
                          \/ Welcome \in ToSet(toHost)

Connect ==
  /\ anim = "open"
  /\ opens' = opens + 1
  /\ toGrbl' = << >> /\ toHost' = << >>
  /\ Restart
  /\ srl' = IF srl = "disabled" THEN "wait" ELSE srl
  /\ anim' = "frame"
  /\ UNCHANGED <<grbl, isConnected, animReg, srlReg, srlAck, resets, reserved,
                 executed, torn, early, losses>>

-----------------------------------------------------------------------------
(* SerialComm.read of the '\r' that completes a message.  Before the
   connection only the welcome text counts, and leads to Grbl.init; after
   it every message goes to Grbl.read, where anything but an answer is only
   kept in a list nobody reads. *)
IsAnswer(m) == m # Welcome      \* "ok" or a text with "error:" in it

ReadMessage ==
  /\ srl = "wait" /\ toHost # << >>
  /\ toHost' = Tail(toHost)
  /\ LET m == Head(toHost)
     IN \/ /\ ~isConnected /\ m = Welcome
           /\ isConnected' = TRUE /\ srl' = "clearReserved"
           /\ UNCHANGED srlAck
        \/ /\ isConnected /\ IsAnswer(m)
           /\ srl' = "load" /\ srlAck' = m
           /\ UNCHANGED isConnected
        \/ /\ IF isConnected THEN ~IsAnswer(m) ELSE m # Welcome
           /\ UNCHANGED <<isConnected, srl, srlAck>>
  /\ UNCHANGED <<grbl, opens, animVars, srlReg, toGrbl, fwVars, reserved,
                 executed, history, losses>>

SrlSame == UNCHANGED <<isConnected, opens, animVars, link, fwVars, reserved,
                       executed, rebooted, losses>>

InsideStreaming == anim \in {"load", "store", "add", "write", "remove"}

(* Grbl.init: three statements. *)
InitClearReserved ==
  /\ srl = "clearReserved"
  /\ reservedMsg' = << >>
  /\ early' = (early \/ InsideStreaming)
  /\ srl' = "clearBfr"
  /\ UNCHANGED <<bfrSize, grblBfr, srlReg, srlAck, torn>> /\ SrlSame

InitClearBfr ==
  /\ srl = "clearBfr"
  /\ grblBfr' = << >>
  /\ early' = (early \/ InsideStreaming)
  /\ srl' = "zero"
  /\ UNCHANGED <<bfrSize, reservedMsg, srlReg, srlAck, torn>> /\ SrlSame

InitZero ==
  /\ srl = "zero"
  /\ bfrSize' = 0
  /\ early' = (early \/ InsideStreaming)
  /\ srl' = "wait"
  /\ UNCHANGED <<grblBfr, reservedMsg, srlReg, srlAck, torn>> /\ SrlSame

(* Grbl.read of "ok" or "error:".  With no line in grblBfr get(0) throws,
   and Processing's Serial then disables the event for good. *)
ChargeMutant(l) == LineLen[l] - 1
Charge(l) == LineLen[l]

AnsweredMutant(lines) == Front(lines)
Answered(lines) == Tail(lines)

AckLoad ==
  /\ srl = "load"
  /\ srlReg' = bfrSize
  /\ srl' = IF grblBfr = << >> THEN "disabled" ELSE "store"
  /\ UNCHANGED <<grbl, srlAck, torn, early>> /\ SrlSame

AckStore ==
  /\ srl = "store"
  /\ bfrSize' = srlReg - Charge(Head(grblBfr))
  /\ torn' = (torn \/ bfrSize # srlReg)
  /\ srl' = "remove"
  /\ UNCHANGED <<grblBfr, reservedMsg, srlReg, srlAck, early>> /\ SrlSame

AckRemove ==
  /\ srl = "remove"
  /\ grblBfr' = Answered(grblBfr)
  /\ srl' = "wait" /\ srlAck' = 0
  /\ UNCHANGED <<bfrSize, reservedMsg, srlReg, torn, early>> /\ SrlSame

-----------------------------------------------------------------------------
FwSame == UNCHANGED <<grbl, isConnected, opens, animVars, srlVars, reserved,
                      torn, early>>

(* A byte reaches the board: the boot loader eats it, an EEPROM write with
   interrupts off loses it, or ISR(SERIAL_RX) stores it or finds the ring
   full. *)
RingFull == Len(rx) = RX_BUFFER_SIZE

Receive ==
  /\ toGrbl # << >>
  /\ toGrbl' = Tail(toGrbl)
  /\ \/ fw = "off" /\ UNCHANGED <<rx, losses>>
     \/ /\ fw = "exec" /\ fwLine[1][1] \in SettingLines
        /\ deafened' = TRUE
        /\ UNCHANGED <<rx, overrun>>
     \/ /\ fw # "off" /\ ~RingFull
        /\ rx' = Append(rx, Head(toGrbl))
        /\ UNCHANGED losses
     \/ /\ fw # "off" /\ RingFull
        /\ overrun' = TRUE
        /\ UNCHANGED <<rx, deafened>>
  /\ UNCHANGED <<toHost, fw, fwLine, resets, executed, rebooted>> /\ FwSame

(* main(): the ring is flushed, then the welcome message goes out. *)
Boot ==
  /\ fw = "off" /\ opens > 0
  /\ rx' = << >> /\ fwLine' = << >>
  /\ toHost' = Append(toHost, Welcome)
  /\ fw' = "read"
  /\ UNCHANGED <<toGrbl, resets, executed, rebooted, losses>> /\ FwSame

(* protocol_main_loop takes characters until the end of a line ... *)
FwRead ==
  /\ fw = "read" /\ rx # << >>
  /\ rx' = Tail(rx)
  /\ fwLine' = Append(fwLine, Head(rx))
  /\ fw' = IF IsEol(Head(rx)) THEN "exec" ELSE "read"
  /\ UNCHANGED <<link, resets, executed, rebooted, losses>> /\ FwSame

(* ... executes it, waiting for planner space if need be, and answers. *)
FwExecute ==
  /\ fw = "exec"
  /\ LET l == Last(fwLine)[1]
     IN /\ toHost' = Append(toHost, l)
        /\ executed' = IF fwLine = BytesOf(l) THEN executed \cup {l}
                                              ELSE executed
  /\ fwLine' = << >>
  /\ fw' = "read"
  /\ UNCHANGED <<toGrbl, rx, resets, rebooted, losses>> /\ FwSame

(* The reset button, the reset pin or a brown-out. *)
Reset ==
  /\ fw # "off" /\ resets < MaxResets
  /\ resets' = resets + 1
  /\ Restart
  /\ UNCHANGED <<link, executed, losses>> /\ FwSame

-----------------------------------------------------------------------------
Streaming == StreamCheck \/ StreamLoad \/ StreamStore \/ StreamAdd
             \/ StreamWrite \/ StreamRemove
SerialEvent == ReadMessage \/ InitClearReserved \/ InitClearBfr \/ InitZero
               \/ AckLoad \/ AckStore \/ AckRemove

Next == \/ Reserve
        \/ Streaming \/ Connecting \/ Connect
        \/ SerialEvent
        \/ Receive \/ Boot \/ FwRead \/ FwExecute \/ Reset

Spec == Init /\ [][Next]_vars

(* The animation thread draws frames, the serial thread delivers what
   arrives, the link and the firmware run.  Nothing makes a line be
   reserved or a port be opened. *)
Fairness == /\ WF_vars(Streaming) /\ WF_vars(Connect)
            /\ WF_vars(SerialEvent)
            /\ WF_vars(Receive) /\ WF_vars(Boot)
            /\ WF_vars(FwRead) /\ WF_vars(FwExecute)

FairSpec == Spec /\ Fairness

-----------------------------------------------------------------------------
Accident == torn \/ early \/ rebooted \/ deafened

(* As long as no update of bfrSize fell inside one by the other thread, and
   Grbl.init met no line on its way, the count is exactly the length of the
   lines that wait for an answer, at every step of both threads. *)
CountIsExact ==
  ~(torn \/ early) /\ anim # "dead" /\ ~Initialising =>
    bfrSize = Total(grblBfr)
              + (IF anim = "add" THEN LineLen[Head(reservedMsg)] ELSE 0)
              - (IF srl = "remove" THEN LineLen[Head(grblBfr)] ELSE 0)

(* Character counting keeps its promise under every delay of the link, of the
   answers and of the firmware, and across restarts of the board: the receive
   ring never drops a byte, unless the count was torn or a line was written
   before the connection was set up. *)
NoOverrun == overrun => torn \/ early

(* Each answer is charged to the line it answers: grblBfr stays in step with
   the firmware as long as no byte is lost and the board does not restart
   behind the host. *)
AnswerIsForHead ==
  srl \in {"store", "remove"} /\ ~Accident => srlAck = Head(grblBfr)

(* No line waits for ever: a line reserved on a set-up connection is executed
   complete and unmixed with another, unless one of the named accidents
   happens. *)
EveryLineExecuted ==
  \A l \in Lines :
    (SetUp /\ l \in ToSet(reservedMsg)) ~> (l \in executed \/ Accident)

(* Until an accident, the two threads, the link and the firmware together
   implement character counting as CharCounting states it, where no budget
   can overrun the ring. *)
Unless(n) == IF Accident THEN 0 ELSE n
Answers == SelectSeq(toHost, IsAnswer)
Counting == INSTANCE CharCounting WITH
  Budget <- bfrSizeMx, Capacity <- RX_BUFFER_SIZE,
  wire <- Unless(Len(toGrbl)),
  ring <- Unless(Len(rx)),
  held <- Unless(Len(fwLine) + Total(Answers)
                 + IF srl \in {"load", "store"} THEN LineLen[srlAck] ELSE 0),
  overrun <- ~Accident /\ overrun,
  bound <- ~Accident
CountingSpec == Counting!CountingSpec
=============================================================================

-------------------------- MODULE GrblStreamProofs --------------------------
(***************************************************************************)
(* Proofs about module GrblStream: the receive ring never overruns and     *)
(* each answer is charged to its line, for all lines, budgets and rings.   *)
(*                                                                         *)
(* The bytes under way are compared with the place they have in the        *)
(* stream of all lines.  How many characters the first lines have is a     *)
(* sum, and what follows from it by induction is carried along by the      *)
(* invariant instead: there is a function S of these sums, which grows     *)
(* with every line that is reserved.                                       *)
(***************************************************************************)
EXTENDS GrblStream, TLAPS

Byte == Lines \X Nat

-----------------------------------------------------------------------------
(* Sequences. *)

LEMMA Empty == ASSUME NEW T PROVE << >> \in Seq(T) /\ Len(<< >>) = 0
  OBVIOUS

LEMMA Concatenation ==
  ASSUME NEW T, NEW a \in Seq(T), NEW b \in Seq(T)
  PROVE  /\ a \o b \in Seq(T) /\ Len(a \o b) = Len(a) + Len(b)
         /\ \A i \in 1 .. Len(a) : (a \o b)[i] = a[i]
         /\ \A i \in 1 .. Len(b) : (a \o b)[Len(a) + i] = b[i]
  OBVIOUS

LEMMA TakeOne ==
  ASSUME NEW T, NEW a \in Seq(T), NEW b \in Seq(T), b # << >>
  PROVE  /\ Append(a, Head(b)) \in Seq(T) /\ Tail(b) \in Seq(T)
         /\ Append(a, Head(b)) \o Tail(b) = a \o b
  OBVIOUS

LEMMA Tails ==
  ASSUME NEW T, NEW a \in Seq(T), a # << >>
  PROVE  /\ Head(a) \in T /\ Head(a) = a[1]
         /\ Tail(a) \in Seq(T) /\ Len(Tail(a)) = Len(a) - 1
         /\ \A i \in 1 .. Len(a) - 1 : Tail(a)[i] = a[i + 1]
         /\ Len(a) \in Nat \ {0}
  OBVIOUS

LEMMA Appends ==
  ASSUME NEW T, NEW a \in Seq(T), NEW t \in T
  PROVE  /\ Append(a, t) \in Seq(T) /\ Len(Append(a, t)) = Len(a) + 1
         /\ \A i \in 1 .. Len(a) : Append(a, t)[i] = a[i]
         /\ Append(a, t)[Len(a) + 1] = t
         /\ Append(a, t) # << >>
  OBVIOUS

LEMMA Constants ==
  /\ bfrSizeMx \in Nat /\ RX_BUFFER_SIZE \in Nat /\ bfrSizeMx <= RX_BUFFER_SIZE
  /\ Len(LineLen) \in Nat /\ MaxOpens \in Nat /\ MaxResets \in Nat
  /\ \A l \in Lines : LineLen[l] \in Nat \ {0} /\ LineLen[l] <= bfrSizeMx
  BY StreamAssumption DEF Lines

LEMMA Bytes ==
  ASSUME NEW l \in Lines
  PROVE  /\ BytesOf(l) \in Seq(Byte) /\ Len(BytesOf(l)) = LineLen[l]
         /\ \A k \in 1 .. LineLen[l] : BytesOf(l)[k] = <<l, k>>
  BY Constants DEF BytesOf, Byte

-----------------------------------------------------------------------------
(* Types, in two halves, and what each thread knows at its places.          *)

Flags == /\ isConnected \in BOOLEAN
         /\ torn \in BOOLEAN /\ early \in BOOLEAN /\ rebooted \in BOOLEAN
         /\ overrun \in BOOLEAN /\ deafened \in BOOLEAN

Data ==
  /\ bfrSize \in Int
  /\ grblBfr \in Seq(Lines) /\ reservedMsg \in Seq(Lines)
  /\ opens \in 0 .. MaxOpens
  /\ anim \in {"frame", "load", "store", "add", "write", "remove", "open",
               "dead"}
  /\ animReg \in Int /\ srlReg \in Int
  /\ srl \in {"wait", "clearReserved", "clearBfr", "zero", "load", "store",
              "remove", "disabled"}
  /\ srlAck \in {0} \cup Lines
  /\ toGrbl \in Seq(Byte) /\ toHost \in Seq({Welcome} \cup Lines)
  /\ fw \in {"off", "read", "exec"}
  /\ rx \in Seq(Byte) /\ Len(rx) <= RX_BUFFER_SIZE
  /\ fwLine \in Seq(Byte)
  /\ resets \in 0 .. MaxResets
  /\ reserved \in 0 .. Len(LineLen) /\ executed \subseteq Lines

(* The firmware takes characters up to the end of a line and then executes
   it; one that is off holds none. *)
FirmwareFits ==
  /\ fw = "exec" => fwLine # << >> /\ IsEol(fwLine[Len(fwLine)])
  /\ fw = "off" => rx = << >> /\ fwLine = << >>
  /\ \A j \in 1 .. Len(fwLine) :
       IsEol(fwLine[j]) => fw = "exec" /\ j = Len(fwLine)

(* The lines that wait are the last ones that were reserved. *)
ReservedInOrder ==
  /\ Len(reservedMsg) <= reserved
  /\ \A j \in 1 .. Len(reservedMsg) :
       reservedMsg[j] = reserved - Len(reservedMsg) + j

PortFits ==
  /\ opens = 0 =>
       ~isConnected /\ fw = "off" /\ toGrbl = << >> /\ toHost = << >>
  /\ Initialising => isConnected
  /\ ~isConnected => srl = "wait"
  /\ srl \in {"store", "remove"} => grblBfr # << >>
  /\ anim = "open" => opens < MaxOpens

Shape == /\ Data /\ Flags /\ FirmwareFits /\ ReservedInOrder /\ PortFits

LEMMA Types == Shape => TypeOK
BY DEF Shape, Data, Flags, TypeOK, Byte

LEMMA InitShape == Init => Shape
<1> SUFFICES ASSUME Init PROVE Shape
  OBVIOUS
<1>1. /\ << >> \in Seq(Lines) /\ << >> \in Seq(Byte)
      /\ << >> \in Seq({Welcome} \cup Lines) /\ Len(<< >>) = 0
  BY Empty
<1>2. Data
  BY <1>1, Constants DEF Init, Data
<1>3. Flags
  BY Zenon DEF Init, Flags
<1>4. FirmwareFits /\ ReservedInOrder /\ PortFits
  BY <1>1 DEF Init, FirmwareFits, ReservedInOrder, PortFits, Initialising
<1> QED BY <1>2, <1>3, <1>4 DEF Shape

(* These only abbreviate tuples of variables. *)
USE DEF grbl, animVars, srlVars, link, fwVars, history, losses

LEMMA ReserveShape == ASSUME Shape, Reserve PROVE Shape'
<1>. USE DEF Shape, Reserve
<1>1. Data'
  <2>1. reserved + 1 \in Lines
    BY Constants DEF Data, Lines
  <2>2. reservedMsg' \in Seq(Lines)
    BY <2>1, Appends DEF Data
  <2>3. reserved' \in 0 .. Len(LineLen)
    BY Constants DEF Data
  <2>. QED
    BY <2>2, <2>3 DEF Data
<1>2. Flags'
  BY DEF Flags
<1>3. FirmwareFits'
  BY DEF FirmwareFits, Data
<1>4. ReservedInOrder'
  <2>1. /\ Len(reservedMsg') = Len(reservedMsg) + 1
        /\ \A i \in 1 .. Len(reservedMsg) : reservedMsg'[i] = reservedMsg[i]
        /\ reservedMsg'[Len(reservedMsg) + 1] = reserved + 1
        /\ Len(reservedMsg) \in Nat /\ reserved \in Nat
    <3>1. reserved + 1 \in Lines
      BY Constants DEF Data, Lines
    <3>. QED
      BY <3>1, Appends DEF Data
  <2>. QED
    BY <2>1 DEF ReservedInOrder
<1>5. PortFits'
  BY DEF PortFits, Data, Initialising
<1>. QED BY <1>1, <1>2, <1>3, <1>4, <1>5

LEMMA StreamCheckShape == ASSUME Shape, StreamCheck PROVE Shape'
<1>. USE DEF Shape, StreamCheck, AnimSame
<1>1. Data'
  BY Constants DEF Data, Lines
<1>2. Flags'
  BY DEF Flags
<1>3. FirmwareFits'
  BY DEF FirmwareFits, Data
<1>4. ReservedInOrder'
  BY DEF ReservedInOrder, Data
<1>5. PortFits'
  BY DEF PortFits, Data, Initialising
<1>. QED BY <1>1, <1>2, <1>3, <1>4, <1>5

LEMMA StreamLoadShape == ASSUME Shape, StreamLoad PROVE Shape'
<1>. USE DEF Shape, StreamLoad, AnimSame
<1>1. Data'
  BY Constants DEF Data, Lines
<1>2. Flags'
  BY DEF Flags
<1>3. FirmwareFits'
  BY DEF FirmwareFits, Data
<1>4. ReservedInOrder'
  BY DEF ReservedInOrder, Data
<1>5. PortFits'
  BY DEF PortFits, Data, Initialising
<1>. QED BY <1>1, <1>2, <1>3, <1>4, <1>5

LEMMA StreamStoreShape == ASSUME Shape, StreamStore PROVE Shape'
<1>. USE DEF Shape, StreamStore, AnimSame
<1>1. Data'
  <2>1. reservedMsg # << >> => LineLen[Head(reservedMsg)] \in Int
    <3>1. reservedMsg # << >> => Head(reservedMsg) \in Lines
      BY Tails DEF Data
    <3>. QED
      BY <3>1, Constants
  <2>. QED
    BY <2>1 DEF Data
<1>2. Flags'
  BY DEF Flags
<1>3. FirmwareFits'
  BY DEF FirmwareFits, Data
<1>4. ReservedInOrder'
  BY DEF ReservedInOrder, Data
<1>5. PortFits'
  BY DEF PortFits, Data, Initialising
<1>. QED BY <1>1, <1>2, <1>3, <1>4, <1>5

LEMMA StreamAddShape == ASSUME Shape, StreamAdd PROVE Shape'
<1>. USE DEF Shape, StreamAdd, AnimSame
<1>1. Data'
  <2>1. reservedMsg # << >> => Head(reservedMsg) \in Lines
    BY Tails DEF Data
  <2>2. reservedMsg # << >> => Append(grblBfr, Head(reservedMsg)) \in Seq(Lines)
    BY <2>1, Appends DEF Data
  <2>3. grblBfr' \in Seq(Lines)
    BY <2>2 DEF Data
  <2>. QED
    BY <2>3 DEF Data
<1>2. Flags'
  BY DEF Flags
<1>3. FirmwareFits'
  BY DEF FirmwareFits, Data
<1>4. ReservedInOrder'
  BY DEF ReservedInOrder, Data
<1>5. PortFits'
  BY DEF PortFits, Data, Initialising
<1>. QED BY <1>1, <1>2, <1>3, <1>4, <1>5

LEMMA StreamWriteShape == ASSUME Shape, StreamWrite PROVE Shape'
<1>. USE DEF Shape, StreamWrite
<1>1. Data'
  <2>1. reservedMsg # << >> => Head(reservedMsg) \in Lines
    BY Tails DEF Data
  <2>2. reservedMsg # << >> =>
          toGrbl \o BytesOf(Head(reservedMsg)) \in Seq(Byte)
    <3>1. reservedMsg # << >> => BytesOf(Head(reservedMsg)) \in Seq(Byte)
      BY <2>1, Bytes
    <3>2. toGrbl \in Seq(Byte)
      BY DEF Data
    <3>. QED
      BY <3>1, <3>2, Concatenation
  <2>3. toGrbl' \in Seq(Byte)
    BY <2>2 DEF Data
  <2>. QED
    BY <2>3 DEF Data
<1>2. Flags'
  BY DEF Flags
<1>3. FirmwareFits'
  BY DEF FirmwareFits, Data
<1>4. ReservedInOrder'
  BY DEF ReservedInOrder, Data
<1>5. PortFits'
  BY DEF PortFits, Data, Initialising
<1>. QED BY <1>1, <1>2, <1>3, <1>4, <1>5

LEMMA StreamRemoveShape == ASSUME Shape, StreamRemove PROVE Shape'
<1>. USE DEF Shape, StreamRemove, AnimSame
<1>1. Data'
  <2>1. reservedMsg' \in Seq(Lines)
    BY Tails DEF Data
  <2>. QED
    BY <2>1 DEF Data
<1>2. Flags'
  BY DEF Flags
<1>3. FirmwareFits'
  BY DEF FirmwareFits, Data
<1>4. ReservedInOrder'
  <2>1. CASE reservedMsg = << >>
    BY <2>1 DEF ReservedInOrder
  <2>2. CASE reservedMsg # << >>
    <3>1. /\ reservedMsg' = Tail(reservedMsg) /\ reserved' = reserved
          /\ Len(Tail(reservedMsg)) = Len(reservedMsg) - 1
          /\ Len(reservedMsg) \in Nat \ {0} /\ reserved \in Nat
          /\ \A i \in 1 .. Len(reservedMsg) - 1 :
               Tail(reservedMsg)[i] = reservedMsg[i + 1]
      BY <2>2, Tails DEF Data
    <3>. QED
      BY <3>1 DEF ReservedInOrder
  <2>. QED
    BY <2>1, <2>2
<1>5. PortFits'
  BY DEF PortFits, Data, Initialising
<1>. QED BY <1>1, <1>2, <1>3, <1>4, <1>5

LEMMA ConnectingShape == ASSUME Shape, Connecting PROVE Shape'
<1>. USE DEF Shape, Connecting, AnimSame
<1>1. Data'
  BY Constants DEF Data, Lines
<1>2. Flags'
  BY DEF Flags
<1>3. FirmwareFits'
  BY DEF FirmwareFits, Data
<1>4. ReservedInOrder'
  BY DEF ReservedInOrder, Data
<1>5. PortFits'
  BY DEF PortFits, Data, Initialising
<1>. QED BY <1>1, <1>2, <1>3, <1>4, <1>5

LEMMA ConnectShape == ASSUME Shape, Connect PROVE Shape'
<1>. USE DEF Shape, Connect, Restart
<1>1. Data'
  <2>1. << >> \in Seq(Byte) /\ << >> \in Seq({Welcome} \cup Lines)
        /\ Len(<< >>) = 0
    BY Empty
  <2>. QED
    BY <2>1, Constants DEF Data, PortFits, InsideStreaming
<1>2. Flags'
  BY DEF Flags
<1>3. FirmwareFits'
  BY DEF FirmwareFits, Data
<1>4. ReservedInOrder'
  BY DEF ReservedInOrder, Data
<1>5. PortFits'
  BY DEF PortFits, Data, Initialising
<1>. QED BY <1>1, <1>2, <1>3, <1>4, <1>5

LEMMA ReadMessageShape == ASSUME Shape, ReadMessage PROVE Shape'
<1>. USE DEF Shape, ReadMessage, IsAnswer
<1>1. Data'
  BY Constants DEF Data, Lines
<1>2. Flags'
  BY DEF Flags
<1>3. FirmwareFits'
  BY DEF FirmwareFits, Data
<1>4. ReservedInOrder'
  BY DEF ReservedInOrder, Data
<1>5. PortFits'
  BY DEF PortFits, Data, Initialising
<1>. QED BY <1>1, <1>2, <1>3, <1>4, <1>5

LEMMA InitClearReservedShape == ASSUME Shape, InitClearReserved PROVE Shape'
<1>. USE DEF Shape, InitClearReserved, SrlSame
<1>1. Data'
  BY Constants DEF Data, Lines
<1>2. Flags'
  BY DEF Flags
<1>3. FirmwareFits'
  BY DEF FirmwareFits, Data
<1>4. ReservedInOrder'
  BY DEF ReservedInOrder, Data
<1>5. PortFits'
  BY DEF PortFits, Data, Initialising
<1>. QED BY <1>1, <1>2, <1>3, <1>4, <1>5

LEMMA InitClearBfrShape == ASSUME Shape, InitClearBfr PROVE Shape'
<1>. USE DEF Shape, InitClearBfr, SrlSame
<1>1. Data'
  BY Constants DEF Data, Lines
<1>2. Flags'
  BY DEF Flags
<1>3. FirmwareFits'
  BY DEF FirmwareFits, Data
<1>4. ReservedInOrder'
  BY DEF ReservedInOrder, Data
<1>5. PortFits'
  BY DEF PortFits, Data, Initialising
<1>. QED BY <1>1, <1>2, <1>3, <1>4, <1>5

LEMMA InitZeroShape == ASSUME Shape, InitZero PROVE Shape'
<1>. USE DEF Shape, InitZero, SrlSame
<1>1. Data'
  BY Constants DEF Data, Lines
<1>2. Flags'
  BY DEF Flags
<1>3. FirmwareFits'
  BY DEF FirmwareFits, Data
<1>4. ReservedInOrder'
  BY DEF ReservedInOrder, Data
<1>5. PortFits'
  BY DEF PortFits, Data, Initialising
<1>. QED BY <1>1, <1>2, <1>3, <1>4, <1>5

LEMMA AckLoadShape == ASSUME Shape, AckLoad PROVE Shape'
<1>. USE DEF Shape, AckLoad, SrlSame
<1>1. Data'
  BY Constants DEF Data, Lines
<1>2. Flags'
  BY DEF Flags
<1>3. FirmwareFits'
  BY DEF FirmwareFits, Data
<1>4. ReservedInOrder'
  BY DEF ReservedInOrder, Data
<1>5. PortFits'
  BY DEF PortFits, Data, Initialising
<1>. QED BY <1>1, <1>2, <1>3, <1>4, <1>5

LEMMA AckStoreShape == ASSUME Shape, AckStore PROVE Shape'
<1>. USE DEF Shape, AckStore, SrlSame, Charge
<1>1. Data'
  BY SMTT(30), Constants DEF Data, Lines
<1>2. Flags'
  BY DEF Flags
<1>3. FirmwareFits'
  BY DEF FirmwareFits, Data
<1>4. ReservedInOrder'
  BY DEF ReservedInOrder, Data
<1>5. PortFits'
  BY DEF PortFits, Data, Initialising
<1>. QED BY <1>1, <1>2, <1>3, <1>4, <1>5

LEMMA AckRemoveShape == ASSUME Shape, AckRemove PROVE Shape'
<1>. USE DEF Shape, AckRemove, SrlSame, Answered
<1>1. Data'
  <2>1. grblBfr' \in Seq(Lines)
    BY Tails DEF Data, PortFits
  <2>. QED
    BY <2>1 DEF Data
<1>2. Flags'
  BY DEF Flags
<1>3. FirmwareFits'
  BY DEF FirmwareFits, Data
<1>4. ReservedInOrder'
  BY DEF ReservedInOrder, Data
<1>5. PortFits'
  BY DEF PortFits, Data, Initialising
<1>. QED BY <1>1, <1>2, <1>3, <1>4, <1>5

LEMMA ReceiveShape == ASSUME Shape, Receive PROVE Shape'
<1>. USE DEF Shape, Receive, FwSame, RingFull
<1>1. Data'
  <2>1. Head(toGrbl) \in Byte /\ Tail(toGrbl) \in Seq(Byte)
    BY Tails DEF Data
  <2>2. /\ Append(rx, Head(toGrbl)) \in Seq(Byte)
        /\ Len(Append(rx, Head(toGrbl))) = Len(rx) + 1
        /\ Len(rx) \in Nat
    BY <2>1, Appends DEF Data
  <2>3. \/ rx' = rx
        \/ rx' = Append(rx, Head(toGrbl)) /\ Len(rx) # RX_BUFFER_SIZE
    OBVIOUS
  <2>4. rx \in Seq(Byte) /\ Len(rx) <= RX_BUFFER_SIZE
    BY DEF Data
  <2>5. rx' \in Seq(Byte) /\ Len(rx') <= RX_BUFFER_SIZE
    BY SMTT(30), <2>2, <2>3, <2>4, Constants
  <2>. QED
    BY <2>1, <2>5 DEF Data
<1>2. Flags'
  BY DEF Flags
<1>3. FirmwareFits'
  BY DEF FirmwareFits, Data
<1>4. ReservedInOrder'
  BY DEF ReservedInOrder, Data
<1>5. PortFits'
  BY DEF PortFits, Data, Initialising
<1>. QED BY <1>1, <1>2, <1>3, <1>4, <1>5

LEMMA BootShape == ASSUME Shape, Boot PROVE Shape'
<1>. USE DEF Shape, Boot, FwSame
<1>1. Data'
  BY Constants DEF Data, Lines
<1>2. Flags'
  BY DEF Flags
<1>3. FirmwareFits'
  BY DEF FirmwareFits, Data
<1>4. ReservedInOrder'
  BY DEF ReservedInOrder, Data
<1>5. PortFits'
  BY DEF PortFits, Data, Initialising
<1>. QED BY <1>1, <1>2, <1>3, <1>4, <1>5

LEMMA FwReadShape == ASSUME Shape, FwRead PROVE Shape'
<1>. USE DEF Shape, FwRead, FwSame
<1>1. Data'
  BY Constants DEF Data, Lines
<1>2. Flags'
  BY DEF Flags
<1>3. FirmwareFits'
  <2>1. Head(rx) \in Byte
    BY Tails DEF Data
  <2>2. /\ Len(fwLine') = Len(fwLine) + 1 /\ fwLine' # << >>
        /\ \A i \in 1 .. Len(fwLine) : fwLine'[i] = fwLine[i]
        /\ fwLine'[Len(fwLine) + 1] = Head(rx) /\ Len(fwLine) \in Nat
    BY SMTT(30), <2>1, Appends DEF Data
  <2>. QED
    BY <2>2 DEF FirmwareFits
<1>4. ReservedInOrder'
  BY DEF ReservedInOrder, Data
<1>5. PortFits'
  BY DEF PortFits, Data, Initialising
<1>. QED BY <1>1, <1>2, <1>3, <1>4, <1>5

LEMMA FwExecuteShape == ASSUME Shape, FwExecute PROVE Shape'
<1>. USE DEF Shape, FwExecute, FwSame
<1>1. Data'
  <2>1. fwLine # << >> /\ Last(fwLine) \in Byte
    BY DEF Data, FirmwareFits, Last
  <2>2. Last(fwLine)[1] \in Lines
    BY <2>1 DEF Byte
  <2>3. toHost' \in Seq({Welcome} \cup Lines) /\ executed' \subseteq Lines
    BY <2>2, Appends DEF Data
  <2>4. << >> \in Seq(Byte)
    BY Empty
  <2>. QED
    BY <2>3, <2>4 DEF Data
<1>2. Flags'
  BY DEF Flags
<1>3. FirmwareFits'
  BY Empty DEF FirmwareFits
<1>4. ReservedInOrder'
  BY DEF ReservedInOrder, Data
<1>5. PortFits'
  BY DEF PortFits, Data, Initialising
<1>. QED BY <1>1, <1>2, <1>3, <1>4, <1>5

LEMMA ResetShape == ASSUME Shape, Reset PROVE Shape'
<1>. USE DEF Shape, Reset, FwSame, Restart
<1>1. Data'
  BY Constants DEF Data, Lines
<1>2. Flags'
  BY DEF Flags
<1>3. FirmwareFits'
  BY DEF FirmwareFits, Data
<1>4. ReservedInOrder'
  BY DEF ReservedInOrder, Data
<1>5. PortFits'
  BY DEF PortFits, Data, Initialising
<1>. QED BY <1>1, <1>2, <1>3, <1>4, <1>5

LEMMA ShapeStep == Shape /\ [Next]_vars => Shape'
<1> SUFFICES ASSUME Shape, [Next]_vars PROVE Shape'
  OBVIOUS
<1>1. CASE UNCHANGED vars
  BY <1>1 DEF vars, Shape, Data, Flags, FirmwareFits, ReservedInOrder,
     PortFits, Initialising
<1>2. CASE Next
  BY <1>2, ReserveShape, StreamCheckShape, StreamLoadShape, StreamStoreShape, StreamAddShape, StreamWriteShape, StreamRemoveShape, ConnectingShape, ConnectShape, ReadMessageShape, InitClearReservedShape, InitClearBfrShape, InitZeroShape, AckLoadShape, AckStoreShape, AckRemoveShape, ReceiveShape, BootShape, FwReadShape, FwExecuteShape, ResetShape
     DEF Next, Streaming, SerialEvent
<1> QED BY <1>1, <1>2

-----------------------------------------------------------------------------
(* The handshake.  As long as no update of bfrSize was torn and no line met *)
(* the setting up of the connection, nothing is under way before it is set  *)
(* up, and the animation thread finds the lines it has seen.                *)

Sound == ~(torn \/ early)

Quiet == /\ toGrbl = << >> /\ rx = << >> /\ fwLine = << >>
         /\ \A i \in 1 .. Len(toHost) : toHost[i] = Welcome

Handshake ==
  Sound =>
    /\ InsideStreaming => reservedMsg # << >>
    /\ anim = "dead" => opens = 0
    /\ ~SetUp =>
         /\ Quiet
         /\ anim # "remove"
         /\ srl = "zero" /\ ~InsideStreaming => grblBfr = << >>

LEMMA InitHandshake == Init => Handshake
BY Empty DEF Init, Handshake, Quiet, InsideStreaming, SetUp, Initialising

LEMMA SoundBefore == ASSUME [Next]_vars, Sound' PROVE Sound
<1> USE DEF Sound
<1>1. CASE Reserve
  BY <1>1 DEF Reserve
<1>2. CASE StreamCheck
  BY <1>2 DEF StreamCheck, AnimSame
<1>3. CASE StreamLoad
  BY <1>3 DEF StreamLoad, AnimSame
<1>4. CASE StreamStore
  BY <1>4 DEF StreamStore, AnimSame
<1>5. CASE StreamAdd
  BY <1>5 DEF StreamAdd, AnimSame
<1>6. CASE StreamWrite
  BY <1>6 DEF StreamWrite
<1>7. CASE StreamRemove
  BY <1>7 DEF StreamRemove, AnimSame
<1>8. CASE Connecting
  BY <1>8 DEF Connecting, AnimSame
<1>9. CASE Connect
  BY <1>9 DEF Connect, Restart
<1>10. CASE ReadMessage
  BY <1>10 DEF ReadMessage, IsAnswer
<1>11. CASE InitClearReserved
  BY <1>11 DEF InitClearReserved, SrlSame
<1>12. CASE InitClearBfr
  BY <1>12 DEF InitClearBfr, SrlSame
<1>13. CASE InitZero
  BY <1>13 DEF InitZero, SrlSame
<1>14. CASE AckLoad
  BY <1>14 DEF AckLoad, SrlSame
<1>15. CASE AckStore
  BY <1>15 DEF AckStore, SrlSame, Charge
<1>16. CASE AckRemove
  BY <1>16 DEF AckRemove, SrlSame, Answered
<1>17. CASE Receive
  BY <1>17 DEF Receive, FwSame, RingFull
<1>18. CASE Boot
  BY <1>18 DEF Boot, FwSame
<1>19. CASE FwRead
  BY <1>19 DEF FwRead, FwSame
<1>20. CASE FwExecute
  BY <1>20 DEF FwExecute, FwSame
<1>21. CASE Reset
  BY <1>21 DEF Reset, FwSame, Restart
<1>22. CASE UNCHANGED vars
  BY <1>22 DEF vars
<1> QED
  BY <1>1, <1>2, <1>3, <1>4, <1>5, <1>6, <1>7, <1>8, <1>9, <1>10, <1>11, <1>12, <1>13, <1>14, <1>15, <1>16, <1>17, <1>18, <1>19, <1>20, <1>21, <1>22
     DEF Next, Streaming, SerialEvent

LEMMA HandshakeStep == Shape /\ Handshake /\ [Next]_vars => Handshake'
<1> SUFFICES ASSUME Shape, Handshake, [Next]_vars, Sound' PROVE Handshake'
  BY DEF Handshake
<1>0. Sound
  BY SoundBefore
<1> USE <1>0 DEF Shape, Handshake, Sound, SetUp, Initialising, InsideStreaming
<1>1. CASE Reserve
  <2>1. /\ reservedMsg' # << >>
        /\ UNCHANGED <<anim, opens, srl, isConnected, grblBfr, toGrbl, toHost,
                       rx, fwLine>>
    <3>1. reserved + 1 \in Lines /\ reservedMsg \in Seq(Lines)
      BY <1>1, Constants DEF Reserve, Data, Lines
    <3> QED BY <1>1, <3>1, Appends DEF Reserve
  <2> QED BY <2>1 DEF Quiet
<1>2. CASE StreamCheck
  BY <1>2 DEF StreamCheck, AnimSame, Data, PortFits, Quiet
<1>3. CASE StreamLoad
  BY <1>3 DEF StreamLoad, AnimSame, Data, PortFits, Quiet
<1>4. CASE StreamStore
  BY <1>4 DEF StreamStore, AnimSame, Data, PortFits, Quiet
<1>5. CASE StreamAdd
  BY <1>5 DEF StreamAdd, AnimSame, Data, PortFits, Quiet
<1>6. CASE StreamWrite
  BY <1>6 DEF StreamWrite, Data, PortFits, Quiet
<1>7. CASE StreamRemove
  BY <1>7 DEF StreamRemove, AnimSame, Data, PortFits, Quiet
<1>8. CASE Connecting
  BY <1>8 DEF Connecting, AnimSame, Data, PortFits, Quiet
<1>9. CASE Connect
  BY <1>9 DEF Connect, Restart, Data, PortFits, Quiet
<1>10. CASE ReadMessage
  BY <1>10 DEF ReadMessage, IsAnswer, Data, PortFits, Quiet
<1>11. CASE InitClearReserved
  BY <1>11 DEF InitClearReserved, SrlSame, Data, PortFits, Quiet
<1>12. CASE InitClearBfr
  BY <1>12 DEF InitClearBfr, SrlSame, Data, PortFits, Quiet
<1>13. CASE InitZero
  BY <1>13 DEF InitZero, SrlSame, Data, PortFits, Quiet
<1>14. CASE AckLoad
  BY <1>14 DEF AckLoad, SrlSame, Data, PortFits, Quiet
<1>15. CASE AckStore
  BY <1>15 DEF AckStore, SrlSame, Charge, Data, PortFits, Quiet
<1>16. CASE AckRemove
  BY <1>16 DEF AckRemove, SrlSame, Answered, Data, PortFits, Quiet
<1>17. CASE Receive
  BY <1>17 DEF Receive, FwSame, RingFull, Data, PortFits, Quiet
<1>18. CASE Boot
  BY <1>18 DEF Boot, FwSame, Data, PortFits, Quiet
<1>19. CASE FwRead
  BY <1>19 DEF FwRead, FwSame, Data, PortFits, Quiet
<1>20. CASE FwExecute
  BY <1>20 DEF FwExecute, FwSame, FirmwareFits, Quiet
<1>21. CASE Reset
  BY <1>21 DEF Reset, FwSame, Restart, Data, PortFits, Quiet
<1>22. CASE UNCHANGED vars
  BY <1>22 DEF vars, Quiet
<1> QED
  BY <1>1, <1>2, <1>3, <1>4, <1>5, <1>6, <1>7, <1>8, <1>9, <1>10, <1>11, <1>12, <1>13, <1>14, <1>15, <1>16, <1>17, <1>18, <1>19, <1>20, <1>21, <1>22
     DEF Next, Streaming, SerialEvent

-----------------------------------------------------------------------------
(* The stream of all lines.                                                 *)

(* S[n] is the number of characters of the first n lines. *)
Sums(S, n) ==
  /\ S \in [0 .. n -> Nat]
  /\ S[0] = 0
  /\ \A i \in 1 .. n : S[i] = S[i - 1] + LineLen[i]
  /\ \A i, j \in 0 .. n : i < j => S[i] < S[j]

(* The place of a byte in the stream. *)
At(S, b) == S[b[1] - 1] + b[2]

(* Bytes under way, some of them perhaps lost: they belong to lines up to hi,
   each is behind the one before, and the first one behind line lo. *)
InOrder(S, F, lo, hi) ==
  /\ \A j \in 1 .. Len(F) : /\ F[j][1] \in 1 .. hi
                            /\ F[j][2] \in 1 .. LineLen[F[j][1]]
                            /\ S[lo] + j <= At(S, F[j])
  /\ \A i, j \in 1 .. Len(F) : i < j => At(S, F[i]) + (j - i) <= At(S, F[j])

LEMMA MoreSums ==
  ASSUME NEW n \in Nat, n + 1 \in Lines, NEW S, Sums(S, n)
  PROVE  \E T : Sums(T, n + 1) /\ \A i \in 0 .. n : T[i] = S[i]
<1> DEFINE T == [i \in 0 .. n + 1 |-> IF i <= n THEN S[i]
                                      ELSE S[n] + LineLen[n + 1]]
<1>1. /\ S \in [0 .. n -> Nat] /\ S[0] = 0
      /\ \A i \in 1 .. n : S[i] = S[i - 1] + LineLen[i]
      /\ \A i, j \in 0 .. n : i < j => S[i] < S[j]
      /\ LineLen[n + 1] \in Nat \ {0}
  BY Constants DEF Sums
<1>2. /\ \A i \in 0 .. n : T[i] = S[i]
      /\ T[n + 1] = S[n] + LineLen[n + 1]
      /\ T \in [0 .. n + 1 -> Nat]
  BY <1>1
<1> HIDE DEF T
<1>3. T[0] = 0
  BY <1>1, <1>2
<1>4. \A i \in 1 .. n + 1 : T[i] = T[i - 1] + LineLen[i]
  <2> SUFFICES ASSUME NEW i \in 1 .. n + 1 PROVE T[i] = T[i - 1] + LineLen[i]
    OBVIOUS
  <2>1. CASE i = n + 1
    BY <1>2, <2>1
  <2>2. CASE i # n + 1
    <3>1. i \in 1 .. n /\ i \in 0 .. n /\ i - 1 \in 0 .. n
      BY <2>2
    <3> QED BY <1>1, <1>2, <3>1
  <2> QED BY <2>1, <2>2
<1>5. \A i, j \in 0 .. n + 1 : i < j => T[i] < T[j]
  <2> SUFFICES ASSUME NEW i \in 0 .. n + 1, NEW j \in 0 .. n + 1, i < j
               PROVE  T[i] < T[j]
    OBVIOUS
  <2>1. CASE j = n + 1
    <3>1. i \in 0 .. n /\ n \in 0 .. n
      BY <2>1
    <3>2. S[i] <= S[n] /\ S[i] \in Nat /\ S[n] \in Nat
      BY <1>1, <3>1
    <3> QED BY <1>1, <1>2, <2>1, <3>1, <3>2
  <2>2. CASE j # n + 1
    <3>1. i \in 0 .. n /\ j \in 0 .. n
      BY <2>2
    <3> QED BY <1>1, <1>2, <3>1
  <2> QED BY <2>1, <2>2
<1> QED BY <1>2, <1>3, <1>4, <1>5 DEF Sums

(* Where a byte of a line up to hi is. *)
LEMMA Placed ==
  ASSUME NEW n \in Nat, n <= Len(LineLen), NEW S, Sums(S, n),
         NEW hi \in 0 .. n, NEW b,
         b[1] \in 1 .. hi, b[2] \in 1 .. LineLen[b[1]]
  PROVE  /\ At(S, b) \in Nat
         /\ At(S, b) <= S[b[1]] /\ S[b[1]] <= S[hi] /\ S[b[1]] \in Nat
         /\ S[hi] \in Nat
         /\ IsEol(b) => At(S, b) = S[b[1]]
<1> DEFINE m == b[1]
<1>1. m \in 1 .. n /\ m \in Lines /\ m - 1 \in 0 .. n /\ m \in 0 .. n /\ m <= hi
  BY DEF Lines
<1>2. LineLen[m] \in Nat
  BY <1>1, Constants
<1>3. /\ S[m - 1] \in Nat /\ S[m] \in Nat /\ S[hi] \in Nat
      /\ S[m] = S[m - 1] + LineLen[m]
      /\ S[m] <= S[hi]
  <2>1. S \in [0 .. n -> Nat]
    BY DEF Sums
  <2>2. S[m] \in Nat /\ S[m - 1] \in Nat /\ S[hi] \in Nat
    BY <1>1, <2>1
  <2>3. S[m] = S[m - 1] + LineLen[m]
    BY <1>1 DEF Sums
  <2>4. m < hi => S[m] < S[hi]
    BY <1>1 DEF Sums
  <2>5. m = hi => S[m] = S[hi]
    OBVIOUS
  <2> QED BY <1>1, <2>2, <2>3, <2>4, <2>5
<1>4. b[2] \in 1 .. LineLen[m] /\ At(S, b) = S[m - 1] + b[2]
      /\ (IsEol(b) => b[2] = LineLen[m])
  BY DEF At, IsEol
<1> HIDE DEF m
<1>5. /\ At(S, b) \in Nat /\ At(S, b) <= S[m] /\ S[m] <= S[hi]
      /\ S[m] \in Nat /\ S[hi] \in Nat
      /\ IsEol(b) => At(S, b) = S[m]
  BY <1>2, <1>3, <1>4
<1> QED BY <1>5 DEF m

(* Bytes may be lost anywhere. *)
LEMMA Subsequence ==
  ASSUME NEW n \in Nat, n <= Len(LineLen), NEW S, Sums(S, n),
         NEW hi \in 0 .. n, NEW lo \in 0 .. hi, NEW F \in Seq(Byte),
         InOrder(S, F, lo, hi),
         NEW G \in Seq(Byte), NEW h \in [1 .. Len(G) -> 1 .. Len(F)],
         \A j \in 1 .. Len(G) : G[j] = F[h[j]] /\ j <= h[j],
         \A i, j \in 1 .. Len(G) : i < j => j - i <= h[j] - h[i]
  PROVE  InOrder(S, G, lo, hi)
<1>0. S[lo] \in Nat
  BY DEF Sums
<1>1. \A j \in 1 .. Len(F) : At(S, F[j]) \in Nat
  BY Placed DEF InOrder
<1>2. ASSUME NEW j \in 1 .. Len(G)
      PROVE  /\ G[j][1] \in 1 .. hi /\ G[j][2] \in 1 .. LineLen[G[j][1]]
             /\ S[lo] + j <= At(S, G[j])
  <2>1. G[j] = F[h[j]] /\ j <= h[j] /\ h[j] \in 1 .. Len(F)
    OBVIOUS
  <2>2. /\ F[h[j]][1] \in 1 .. hi
        /\ F[h[j]][2] \in 1 .. LineLen[F[h[j]][1]]
        /\ S[lo] + h[j] <= At(S, F[h[j]])
    BY <2>1 DEF InOrder
  <2>3. At(S, F[h[j]]) \in Nat
    BY <2>1, <1>1
  <2> QED BY SMTT(30), <2>1, <2>2, <2>3, <1>0
<1>3. ASSUME NEW i \in 1 .. Len(G), NEW j \in 1 .. Len(G), i < j
      PROVE  At(S, G[i]) + (j - i) <= At(S, G[j])
  <2>1. /\ h[i] \in 1 .. Len(F) /\ h[j] \in 1 .. Len(F)
        /\ G[i] = F[h[i]] /\ G[j] = F[h[j]] /\ j - i <= h[j] - h[i]
    BY <1>3
  <2>2. At(S, F[h[i]]) + (h[j] - h[i]) <= At(S, F[h[j]])
    BY <2>1, <1>3 DEF InOrder
  <2>3. /\ At(S, F[h[i]]) \in Nat /\ At(S, F[h[j]]) \in Nat
        /\ h[i] \in Nat /\ h[j] \in Nat /\ i \in Nat /\ j \in Nat
    <3>1. At(S, F[h[i]]) \in Nat /\ At(S, F[h[j]]) \in Nat
      BY <2>1, <1>1, Zenon
    <3>2. h[i] \in Nat /\ h[j] \in Nat
      BY <2>1
    <3> QED BY <3>1, <3>2
  <2>4. At(S, F[h[i]]) + (j - i) <= At(S, F[h[j]])
    BY <2>1, <2>2, <2>3
  <2> QED BY <2>1, <2>4
<1> QED BY <1>2, <1>3 DEF InOrder

LEMMA DropOne ==
  ASSUME NEW n \in Nat, n <= Len(LineLen), NEW S, Sums(S, n),
         NEW hi \in 0 .. n, NEW lo \in 0 .. hi, NEW F \in Seq(Byte),
         InOrder(S, F, lo, hi),
         NEW G \in Seq(Byte), NEW p \in 1 .. Len(F), Len(G) = Len(F) - 1,
         \A j \in 1 .. Len(G) : G[j] = F[IF j < p THEN j ELSE j + 1]
  PROVE  InOrder(S, G, lo, hi)
<1> DEFINE h == [j \in 1 .. Len(G) |-> IF j < p THEN j ELSE j + 1]
<1>1. h \in [1 .. Len(G) -> 1 .. Len(F)]
  OBVIOUS
<1>2. \A j \in 1 .. Len(G) : G[j] = F[h[j]] /\ j <= h[j]
  OBVIOUS
<1>3. \A i, j \in 1 .. Len(G) : i < j => j - i <= h[j] - h[i]
  OBVIOUS
<1> HIDE DEF h
<1> QED BY <1>1, <1>2, <1>3, Subsequence

LEMMA DropFirst ==
  ASSUME NEW n \in Nat, n <= Len(LineLen), NEW S, Sums(S, n),
         NEW hi \in 0 .. n, NEW lo \in 0 .. hi, NEW F \in Seq(Byte),
         InOrder(S, F, lo, hi),
         NEW G \in Seq(Byte), NEW k \in 0 .. Len(F), Len(G) = Len(F) - k,
         \A j \in 1 .. Len(G) : G[j] = F[k + j]
  PROVE  InOrder(S, G, lo, hi)
<1> DEFINE h == [j \in 1 .. Len(G) |-> k + j]
<1>1. h \in [1 .. Len(G) -> 1 .. Len(F)]
  OBVIOUS
<1>2. \A j \in 1 .. Len(G) : G[j] = F[h[j]] /\ j <= h[j]
  OBVIOUS
<1>3. \A i, j \in 1 .. Len(G) : i < j => j - i <= h[j] - h[i]
  OBVIOUS
<1> HIDE DEF h
<1> QED BY <1>1, <1>2, <1>3, Subsequence

(* The next line is written. *)
LEMMA WriteOne ==
  ASSUME NEW n \in Nat, n <= Len(LineLen), NEW S, Sums(S, n),
         NEW hi \in 0 .. n, hi + 1 \in 1 .. n, NEW lo \in 0 .. hi,
         NEW F \in Seq(Byte), InOrder(S, F, lo, hi)
  PROVE  InOrder(S, F \o BytesOf(hi + 1), lo, hi + 1)
<1> DEFINE l == hi + 1
           G == F \o BytesOf(l)
           f == Len(F)
<1>1. /\ l \in Lines /\ LineLen[l] \in Nat /\ BytesOf(l) \in Seq(Byte)
      /\ Len(BytesOf(l)) = LineLen[l] /\ f \in Nat
      /\ \A k \in 1 .. LineLen[l] : BytesOf(l)[k] = <<l, k>>
  BY Bytes, Constants DEF Lines
<1>2. /\ Len(G) = f + LineLen[l]
      /\ \A j \in 1 .. f : G[j] = F[j]
      /\ \A k \in 1 .. LineLen[l] : G[f + k] = <<l, k>>
  <2>1. /\ Len(G) = f + Len(BytesOf(l))
        /\ \A j \in 1 .. f : G[j] = F[j]
        /\ \A k \in 1 .. Len(BytesOf(l)) : G[f + k] = BytesOf(l)[k]
    BY <1>1, Concatenation
  <2> QED BY <2>1, <1>1
<1>3. /\ S[lo] \in Nat /\ S[hi] \in Nat /\ S[lo] <= S[hi]
      /\ \A k \in 1 .. LineLen[l] : At(S, <<l, k>>) = S[hi] + k
  <2>1. S \in [0 .. n -> Nat]
    BY DEF Sums
  <2>2. S[lo] \in Nat /\ S[hi] \in Nat
    BY <2>1
  <2>3. S[lo] <= S[hi]
    <3>1. lo < hi => S[lo] < S[hi]
      BY DEF Sums
    <3> QED BY <2>2, <3>1
  <2> QED BY <2>2, <2>3 DEF At
<1>4. \A j \in 1 .. f : /\ At(S, F[j]) \in Nat /\ At(S, F[j]) <= S[hi]
                        /\ S[lo] + j <= At(S, F[j])
                        /\ F[j][1] \in 1 .. hi
                        /\ F[j][2] \in 1 .. LineLen[F[j][1]]
  <2> SUFFICES ASSUME NEW j \in 1 .. f
               PROVE  /\ At(S, F[j]) \in Nat /\ At(S, F[j]) <= S[hi]
                      /\ S[lo] + j <= At(S, F[j])
                      /\ F[j][1] \in 1 .. hi
                      /\ F[j][2] \in 1 .. LineLen[F[j][1]]
    OBVIOUS
  <2>1. /\ S[lo] + j <= At(S, F[j])
        /\ F[j][1] \in 1 .. hi /\ F[j][2] \in 1 .. LineLen[F[j][1]]
    BY DEF InOrder
  <2>2. /\ At(S, F[j]) \in Nat /\ At(S, F[j]) <= S[F[j][1]]
        /\ S[F[j][1]] <= S[hi] /\ S[F[j][1]] \in Nat
    BY <2>1, Placed
  <2> QED BY SMTT(30), <2>1, <2>2, <1>3
<1>5. \A i, j \in 1 .. f : i < j => At(S, F[i]) + (j - i) <= At(S, F[j])
  BY DEF InOrder
<1>6. f = 0 \/ (f \in 1 .. f /\ S[lo] + f <= S[hi])
  <2>1. CASE f = 0
    BY <2>1
  <2>2. CASE f # 0
    <3> HIDE DEF f, G, l
    <3>1. f \in 1 .. f
      BY <1>1, <2>2
    <3>2. S[lo] + f <= At(S, F[f]) /\ At(S, F[f]) <= S[hi] /\ At(S, F[f]) \in Nat
      BY <1>4, <3>1
    <3> QED BY <3>1, <3>2, <1>1, <1>3
  <2> QED BY <2>1, <2>2
<1> HIDE DEF G, f, l
<1>7. ASSUME NEW j \in 1 .. Len(G)
      PROVE  /\ G[j][1] \in 1 .. l /\ G[j][2] \in 1 .. LineLen[G[j][1]]
             /\ S[lo] + j <= At(S, G[j])
  <2>1. CASE j \in 1 .. f
    BY SMTT(30), <1>2, <1>4, <2>1 DEF l
  <2>2. CASE j \notin 1 .. f
    <3>1. j - f \in 1 .. LineLen[l] /\ f + (j - f) = j
      BY <1>1, <1>2, <2>2
    <3>2. G[j] = <<l, j - f>> /\ At(S, G[j]) = S[hi] + (j - f)
      BY <1>2, <1>3, <3>1
    <3>3. G[j][1] = l /\ G[j][2] = j - f /\ l \in 1 .. l
      BY <3>2 DEF l
    <3>4. S[lo] + f <= S[hi]
      BY <1>3, <1>6, <1>1
    <3> QED BY SMTT(30), <3>1, <3>2, <3>3, <3>4, <1>1, <1>3
  <2> QED BY <2>1, <2>2
<1>8. ASSUME NEW i \in 1 .. Len(G), NEW j \in 1 .. Len(G), i < j
      PROVE  At(S, G[i]) + (j - i) <= At(S, G[j])
  <2>1. CASE j \in 1 .. f
    <3>1. i \in 1 .. f
      BY <1>1, <1>8, <2>1
    <3> QED BY <1>2, <1>5, <1>8, <2>1, <3>1
  <2>2. CASE j \notin 1 .. f /\ i \in 1 .. f
    <3>1. j - f \in 1 .. LineLen[l] /\ f + (j - f) = j
      BY SMTT(30), <1>1, <1>2, <2>2
    <3>2. At(S, G[j]) = S[hi] + (j - f)
      BY <1>2, <1>3, <3>1
    <3>3. At(S, F[i]) + (f - i) <= S[hi] /\ At(S, F[i]) \in Nat
      <4>1. f \in 1 .. f
        BY <1>6, <2>2
      <4>2. i = f \/ i < f
        BY <1>1, <2>2
      <4>3. At(S, F[f]) <= S[hi] /\ At(S, F[f]) \in Nat /\ At(S, F[i]) \in Nat
        BY <1>4, <2>2, <4>1
      <4>4. i < f => At(S, F[i]) + (f - i) <= At(S, F[f])
        BY <1>5, <2>2, <4>1
      <4> QED BY SMTT(30), <4>2, <4>3, <4>4, <1>1, <1>3
    <3>4. G[i] = F[i]
      BY <1>2, <2>2
    <3> QED BY SMTT(30), <3>1, <3>2, <3>3, <3>4, <1>1, <1>3
  <2>3. CASE j \notin 1 .. f /\ i \notin 1 .. f
    <3>1. /\ j - f \in 1 .. LineLen[l] /\ f + (j - f) = j
          /\ i - f \in 1 .. LineLen[l] /\ f + (i - f) = i
      <4>1. /\ i \in 1 .. f + LineLen[l] /\ j \in 1 .. f + LineLen[l]
            /\ f \in Nat /\ LineLen[l] \in Nat
        BY <1>1, <1>2
      <4>2. i > f /\ j > f
        BY <2>3, <4>1
      <4> QED BY <4>1, <4>2
    <3>2. At(S, G[j]) = S[hi] + (j - f) /\ At(S, G[i]) = S[hi] + (i - f)
      BY <1>2, <1>3, <3>1
    <3> QED BY SMTT(30), <3>1, <3>2, <1>1, <1>3, <1>8
  <2> QED BY <2>1, <2>2, <2>3
<1>9. InOrder(S, G, lo, l)
  BY <1>7, <1>8 DEF InOrder
<1> QED BY <1>9 DEF G, l

(* A line ends: what comes after it belongs to later lines. *)
LEMMA EndOne ==
  ASSUME NEW n \in Nat, n <= Len(LineLen), NEW S, Sums(S, n),
         NEW hi \in 0 .. n, NEW lo \in 0 .. hi, NEW F \in Seq(Byte),
         InOrder(S, F, lo, hi),
         NEW k \in 1 .. Len(F), IsEol(F[k]),
         NEW G \in Seq(Byte), Len(G) = Len(F) - k,
         \A j \in 1 .. Len(G) : G[j] = F[k + j]
  PROVE  lo + 1 \in 0 .. hi /\ InOrder(S, G, lo + 1, hi)
<1> DEFINE m == F[k][1]
<1>1. /\ m \in 1 .. hi /\ S[m] \in Nat /\ S[lo] \in Nat
      /\ At(S, F[k]) = S[m] /\ S[lo] + k <= S[m]
  <2>1. m \in 1 .. hi /\ F[k][2] \in 1 .. LineLen[m] /\ S[lo] + k <= At(S, F[k])
    BY DEF InOrder
  <2>2. At(S, F[k]) = S[m] /\ S[m] \in Nat
    BY <2>1, Placed
  <2>3. S[lo] \in Nat
    BY DEF Sums
  <2> QED BY <2>1, <2>2, <2>3
<1> HIDE DEF m
<1>2. lo < m
  <2>1. m \in 0 .. n /\ lo \in 0 .. n
    BY <1>1
  <2>2. m < lo => S[m] < S[lo]
    BY <2>1 DEF Sums
  <2> QED BY <1>1, <2>1, <2>2
<1>3. S[lo + 1] \in Nat /\ S[lo + 1] <= S[m]
  <2>1. m \in 0 .. n /\ lo + 1 \in 0 .. n /\ (lo + 1 = m \/ lo + 1 < m)
    BY SMTT(30), <1>1, <1>2
  <2>2. S[lo + 1] \in Nat
    BY <2>1 DEF Sums
  <2>3. lo + 1 < m => S[lo + 1] < S[m]
    BY <2>1 DEF Sums
  <2> QED BY <1>1, <2>1, <2>2, <2>3
<1>4. InOrder(S, G, lo, hi)
  <2>1. k \in 0 .. Len(F)
    OBVIOUS
  <2> QED BY <2>1, DropFirst
<1>5. ASSUME NEW j \in 1 .. Len(G)
      PROVE  S[lo + 1] + j <= At(S, G[j])
  <2>1. k + j \in 1 .. Len(F) /\ k < k + j /\ (k + j) - k = j
    OBVIOUS
  <2>2. S[m] + ((k + j) - k) <= At(S, F[k + j])
    BY <1>1, <2>1 DEF InOrder
  <2>3. At(S, F[k + j]) \in Nat
    BY <2>1, Placed DEF InOrder
  <2>4. G[j] = F[k + j]
    OBVIOUS
  <2> QED BY SMTT(30), <1>1, <1>3, <2>1, <2>2, <2>3, <2>4
<1>6. InOrder(S, G, lo + 1, hi)
  BY <1>4, <1>5 DEF InOrder
<1> QED BY <1>1, <1>2, <1>6

(* So many bytes are under way at most. *)
LEMMA AtMost ==
  ASSUME NEW n \in Nat, n <= Len(LineLen), NEW S, Sums(S, n),
         NEW hi \in 0 .. n, NEW lo \in 0 .. hi, NEW F \in Seq(Byte),
         InOrder(S, F, lo, hi)
  PROVE  S[lo] + Len(F) <= S[hi]
<1> DEFINE f == Len(F)
<1>1. S[lo] \in Nat /\ S[hi] \in Nat /\ (lo < hi => S[lo] < S[hi]) /\ f \in Nat
  BY DEF Sums
<1>2. CASE f = 0
  BY <1>1, <1>2
<1>3. CASE f # 0
  <2>1. f \in 1 .. Len(F)
    BY <1>1, <1>3
  <2>2. /\ F[f][1] \in 1 .. hi /\ F[f][2] \in 1 .. LineLen[F[f][1]]
        /\ S[lo] + f <= At(S, F[f])
    BY <2>1 DEF InOrder
  <2>3. /\ At(S, F[f]) \in Nat /\ At(S, F[f]) <= S[F[f][1]]
        /\ S[F[f][1]] <= S[hi] /\ S[F[f][1]] \in Nat
    BY <2>2, Placed
  <2> QED BY SMTT(30), <1>1, <2>2, <2>3
<1> QED BY <1>2, <1>3

LEMMA SameSums ==
  ASSUME NEW hi \in Nat, NEW lo \in 0 .. hi, NEW S, NEW T, NEW F \in Seq(Byte),
         \A i \in 0 .. hi : T[i] = S[i], InOrder(S, F, lo, hi)
  PROVE  InOrder(T, F, lo, hi)
<1>1. \A j \in 1 .. Len(F) : At(T, F[j]) = At(S, F[j])
  <2> SUFFICES ASSUME NEW j \in 1 .. Len(F) PROVE At(T, F[j]) = At(S, F[j])
    OBVIOUS
  <2>1. F[j][1] \in 1 .. hi
    BY DEF InOrder
  <2>2. F[j][1] - 1 \in 0 .. hi
    BY <2>1
  <2> QED BY <2>2 DEF At
<1>2. T[lo] = S[lo]
  OBVIOUS
<1> QED BY <1>1, <1>2 DEF InOrder

-----------------------------------------------------------------------------
(* The messages on their way to the host answer the lines after line "from"
   up to line "to": w[i] is the last line that is answered by the first i. *)
One(p) == IF p THEN 1 ELSE 0

Answering(messages, from, to) ==
  \E w \in [0 .. Len(messages) -> Nat] :
    /\ w[0] = from /\ w[Len(messages)] = to
    /\ \A i \in 1 .. Len(messages) :
         w[i] = w[i - 1] + One(messages[i] # Welcome)
    /\ \A i \in 0 .. Len(messages) : w[i] <= to

Messages == Seq({Welcome} \cup Lines)

LEMMA AnswerNone ==
  ASSUME NEW m \in Messages, NEW a \in Nat,
         \A i \in 1 .. Len(m) : m[i] = Welcome
  PROVE  Answering(m, a, a)
<1> DEFINE w == [i \in 0 .. Len(m) |-> a]
<1>1. w \in [0 .. Len(m) -> Nat] /\ \A i \in 0 .. Len(m) : w[i] = a
  OBVIOUS
<1>2. Len(m) \in Nat
  BY DEF Messages
<1> HIDE DEF w
<1>3. \A i \in 1 .. Len(m) : w[i] = w[i - 1] + One(m[i] # Welcome)
  BY <1>1, <1>2 DEF One
<1> QED BY <1>1, <1>2, <1>3 DEF Answering

LEMMA AnswerUpTo ==
  ASSUME NEW m \in Messages, NEW a, NEW b, Answering(m, a, b)
  PROVE  a \in Nat /\ b \in Nat /\ a <= b
<1>1. Len(m) \in Nat
  BY DEF Messages
<1> QED BY <1>1 DEF Answering

LEMMA AnswerNext ==
  ASSUME NEW m \in Messages, m # << >>, NEW a, NEW b, Answering(m, a, b)
  PROVE  Answering(Tail(m), a + One(Head(m) # Welcome), b)
<1> DEFINE t == Tail(m)
           n == Len(m)
<1>1. /\ n \in Nat \ {0} /\ Len(t) = n - 1 /\ Head(m) = m[1]
      /\ \A i \in 1 .. n - 1 : t[i] = m[i + 1]
  BY Tails DEF Messages
<1>2. PICK w \in [0 .. n -> Nat] :
        /\ w[0] = a /\ w[n] = b
        /\ \A i \in 1 .. n : w[i] = w[i - 1] + One(m[i] # Welcome)
        /\ \A i \in 0 .. n : w[i] <= b
  BY DEF Answering
<1> DEFINE u == [i \in 0 .. n - 1 |-> w[i + 1]]
<1> HIDE DEF t, n
<1>3. /\ u \in [0 .. n - 1 -> Nat]
      /\ \A i \in 0 .. n - 1 : u[i] = w[i + 1]
  BY <1>1, <1>2
<1> HIDE DEF u
<1>4. u[0] = a + One(Head(m) # Welcome) /\ u[n - 1] = b
  BY <1>1, <1>2, <1>3
<1>5. \A i \in 1 .. n - 1 : u[i] = u[i - 1] + One(t[i] # Welcome)
  <2> SUFFICES ASSUME NEW i \in 1 .. n - 1
               PROVE  u[i] = u[i - 1] + One(t[i] # Welcome)
    OBVIOUS
  <2>1. i \in 0 .. n - 1 /\ i - 1 \in 0 .. n - 1 /\ i + 1 \in 1 .. n
        /\ (i - 1) + 1 = i /\ (i + 1) - 1 = i
    BY <1>1
  <2>2. u[i] = w[i + 1] /\ u[i - 1] = w[i] /\ t[i] = m[i + 1]
    BY <1>1, <1>3, <2>1
  <2>3. w[i + 1] = w[i] + One(m[i + 1] # Welcome)
    BY <1>2, <2>1
  <2> QED BY <2>2, <2>3
<1>6. \A i \in 0 .. n - 1 : u[i] <= b
  BY <1>1, <1>2, <1>3
<1>7. Answering(t, a + One(Head(m) # Welcome), b)
  BY <1>1, <1>3, <1>4, <1>5, <1>6 DEF Answering
<1> QED BY <1>7 DEF t

LEMMA AnswerMore ==
  ASSUME NEW m \in Messages, NEW a, NEW b, Answering(m, a, b),
         NEW x \in {Welcome} \cup Lines
  PROVE  Answering(Append(m, x), a, b + One(x # Welcome))
<1> DEFINE t == Append(m, x)
           n == Len(m)
           c == b + One(x # Welcome)
<1>1. /\ n \in Nat /\ Len(t) = n + 1 /\ t[n + 1] = x
      /\ \A i \in 1 .. n : t[i] = m[i]
  BY Appends DEF Messages
<1>2. PICK w \in [0 .. n -> Nat] :
        /\ w[0] = a /\ w[n] = b
        /\ \A i \in 1 .. n : w[i] = w[i - 1] + One(m[i] # Welcome)
        /\ \A i \in 0 .. n : w[i] <= b
  BY DEF Answering
<1> DEFINE u == [i \in 0 .. n + 1 |-> IF i <= n THEN w[i] ELSE c]
<1>3. b \in Nat /\ c \in Nat /\ b <= c
  BY <1>1, <1>2 DEF One
<1> HIDE DEF t, n, c
<1>4. /\ u \in [0 .. n + 1 -> Nat]
      /\ \A i \in 0 .. n : u[i] = w[i]
      /\ u[n + 1] = c
  BY <1>1, <1>2, <1>3
<1> HIDE DEF u
<1>5. u[0] = a
  BY <1>1, <1>2, <1>4
<1>6. \A i \in 1 .. n + 1 : u[i] = u[i - 1] + One(t[i] # Welcome)
  <2> SUFFICES ASSUME NEW i \in 1 .. n + 1
               PROVE  u[i] = u[i - 1] + One(t[i] # Welcome)
    OBVIOUS
  <2>1. CASE i = n + 1
    <3>1. u[i - 1] = b
      BY <1>1, <1>2, <1>4, <2>1
    <3> QED BY <1>1, <1>4, <2>1, <3>1 DEF c
  <2>2. CASE i # n + 1
    <3>1. i \in 1 .. n /\ i \in 0 .. n /\ i - 1 \in 0 .. n
      BY <1>1, <2>2
    <3>2. u[i] = w[i] /\ u[i - 1] = w[i - 1] /\ t[i] = m[i]
      BY <1>1, <1>4, <3>1
    <3>3. w[i] = w[i - 1] + One(m[i] # Welcome)
      BY <1>2, <3>1
    <3> QED BY <3>2, <3>3
  <2> QED BY <2>1, <2>2
<1>7. \A i \in 0 .. n + 1 : u[i] <= c
  <2> SUFFICES ASSUME NEW i \in 0 .. n + 1 PROVE u[i] <= c
    OBVIOUS
  <2>1. CASE i = n + 1
    BY <1>3, <1>4, <2>1
  <2>2. CASE i # n + 1
    <3>1. i \in 0 .. n
      BY <1>1, <2>2
    <3>2. u[i] = w[i] /\ w[i] <= b /\ w[i] \in Nat
      BY <1>2, <1>4, <3>1
    <3> QED BY <3>2, <1>3
  <2> QED BY <2>1, <2>2
<1>8. Answering(t, a, c)
  BY <1>1, <1>4, <1>5, <1>6, <1>7 DEF Answering
<1> QED BY <1>8 DEF t, c

-----------------------------------------------------------------------------
(* The bytes under way, as one sequence. *)

LEMMA JoinThree ==
  ASSUME NEW a \in Seq(Byte), NEW b \in Seq(Byte), NEW c \in Seq(Byte)
  PROVE  /\ (a \o b) \o c \in Seq(Byte)
         /\ Len((a \o b) \o c) = Len(a) + Len(b) + Len(c)
         /\ \A i \in 1 .. Len(a) : ((a \o b) \o c)[i] = a[i]
         /\ \A i \in 1 .. Len(b) : ((a \o b) \o c)[Len(a) + i] = b[i]
         /\ \A i \in 1 .. Len(c) : ((a \o b) \o c)[Len(a) + Len(b) + i] = c[i]
<1> DEFINE d == a \o b
           e == d \o c
<1>1. /\ d \in Seq(Byte) /\ Len(d) = Len(a) + Len(b)
      /\ \A i \in 1 .. Len(a) : d[i] = a[i]
      /\ \A i \in 1 .. Len(b) : d[Len(a) + i] = b[i]
  BY Concatenation
<1> HIDE DEF d
<1>2. /\ e \in Seq(Byte) /\ Len(e) = Len(d) + Len(c)
      /\ \A i \in 1 .. Len(d) : e[i] = d[i]
      /\ \A i \in 1 .. Len(c) : e[Len(d) + i] = c[i]
  <2>1. d \in Seq(Byte)
    BY <1>1
  <2> QED BY <2>1, Concatenation
<1> HIDE DEF e
<1>3. Len(a) \in Nat /\ Len(b) \in Nat /\ Len(c) \in Nat
  OBVIOUS
<1>4. \A i \in 1 .. Len(a) : e[i] = a[i]
  BY <1>1, <1>2, <1>3
<1>5. \A i \in 1 .. Len(b) : e[Len(a) + i] = b[i]
  <2> SUFFICES ASSUME NEW i \in 1 .. Len(b) PROVE e[Len(a) + i] = b[i]
    OBVIOUS
  <2>1. Len(a) + i \in 1 .. Len(d)
    BY <1>1, <1>3
  <2> QED BY <2>1, <1>1, <1>2
<1>6. \A i \in 1 .. Len(c) : e[Len(a) + Len(b) + i] = c[i]
  BY <1>1, <1>2
<1> QED BY <1>1, <1>2, <1>3, <1>4, <1>5, <1>6 DEF d, e

LEMMA ConcatEmpty ==
  ASSUME NEW a \in Seq(Byte) PROVE << >> \o a = a /\ a \o << >> = a
  OBVIOUS

LEMMA Regroup ==
  ASSUME NEW a \in Seq(Byte), NEW b \in Seq(Byte), NEW c \in Seq(Byte)
  PROVE  a \o (b \o c) = (a \o b) \o c
  OBVIOUS

LEMMA AppendLast ==
  ASSUME NEW T, NEW a \in Seq(T), NEW b \in Seq(T), NEW x \in T
  PROVE  a \o Append(b, x) = Append(a \o b, x)
  OBVIOUS
-----------------------------------------------------------------------------
(* The books.  Lines are counted by what has happened to them: written on   *)
(* the wire, listed in grblBfr, answered and removed from it; counted and   *)
(* paid say which ones bfrSize holds; heard is the last one whose answer    *)
(* the serial thread has taken.                                             *)

written == reserved - Len(reservedMsg) + One(anim = "remove")
listed == written + One(anim = "write")
answered == listed - Len(grblBfr)
counted == written + One(anim \in {"add", "write"})
paid == answered + One(srl = "remove")
heard == answered + One(srl \in {"load", "store", "remove"})

Under == (fwLine \o rx) \o toGrbl

Ledger(S) ==
  /\ answered >= 0
  /\ \A i \in 1 .. Len(grblBfr) : grblBfr[i] = answered + i
  /\ srl # "disabled"
  /\ bfrSize = S[counted] - S[paid]
  /\ bfrSize <= bfrSizeMx
  /\ anim \in {"load", "store"} =>
       bfrSize + LineLen[Head(reservedMsg)] <= bfrSizeMx

(* The answers under way are those of the lines up to base; the bytes under
   way belong to the lines behind it. *)
InFlight(S) ==
  \E base \in 0 .. written : /\ Answering(toHost, heard, base)
                             /\ InOrder(S, Under, base, written)

Count == \E S : /\ Sums(S, reserved)
                /\ Sound /\ SetUp => Ledger(S) /\ InFlight(S)

LEMMA Numbers ==
  ASSUME Shape, Handshake, Sound
  PROVE  /\ reserved \in Nat /\ reserved <= Len(LineLen) /\ Len(LineLen) \in Nat
         /\ written \in 0 .. reserved
         /\ listed \in written .. reserved
         /\ counted \in written .. reserved
         /\ answered \in Int /\ answered <= listed
         /\ paid \in answered .. answered + 1
         /\ heard \in paid .. answered + 1
<1>1. /\ reserved \in Nat /\ reserved <= Len(LineLen) /\ Len(LineLen) \in Nat
      /\ Len(reservedMsg) \in Nat /\ Len(reservedMsg) <= reserved
      /\ Len(grblBfr) \in Nat
  BY Constants DEF Shape, Data, ReservedInOrder
<1>2. InsideStreaming => Len(reservedMsg) >= 1
  <2>1. InsideStreaming => reservedMsg # << >>
    BY DEF Handshake
  <2>2. reservedMsg # << >> => Len(reservedMsg) \in Nat \ {0}
    BY Tails DEF Shape, Data
  <2> QED BY <2>1, <2>2
<1>3. /\ written \in 0 .. reserved
      /\ listed \in written .. reserved
      /\ counted \in written .. reserved
  BY <1>1, <1>2 DEF written, listed, counted, One, InsideStreaming
<1>4. answered \in Int /\ answered <= listed
  BY <1>1, <1>3 DEF answered
<1>5. paid \in answered .. answered + 1 /\ heard \in paid .. answered + 1
  BY <1>4 DEF paid, heard, One
<1> HIDE DEF written, listed, counted, answered, paid, heard
<1> QED BY <1>1, <1>3, <1>4, <1>5

(* The line that the animation thread is at. *)
LEMMA NextLine ==
  ASSUME Shape, reservedMsg # << >>, anim # "remove"
  PROVE  /\ Head(reservedMsg) = written + 1
         /\ written + 1 \in 1 .. reserved /\ written + 1 \in Lines
         /\ written \in Nat
<1>1. /\ Head(reservedMsg) = reservedMsg[1] /\ Len(reservedMsg) \in Nat \ {0}
      /\ Head(reservedMsg) \in Lines
  BY Tails DEF Shape, Data
<1>2. /\ reserved \in Nat /\ reserved <= Len(LineLen) /\ Len(LineLen) \in Nat
      /\ Len(reservedMsg) <= reserved
      /\ reservedMsg[1] = reserved - Len(reservedMsg) + 1
  BY <1>1, Constants DEF Shape, Data, ReservedInOrder
<1> QED BY <1>1, <1>2 DEF written, One

LEMMA UnderIs ==
  ASSUME Shape
  PROVE  /\ Under \in Seq(Byte)
         /\ Len(Under) = Len(fwLine) + Len(rx) + Len(toGrbl)
         /\ fwLine \in Seq(Byte) /\ rx \in Seq(Byte) /\ toGrbl \in Seq(Byte)
         /\ Len(fwLine) \in Nat /\ Len(rx) \in Nat /\ Len(toGrbl) \in Nat
         /\ \A i \in 1 .. Len(fwLine) : Under[i] = fwLine[i]
         /\ \A i \in 1 .. Len(rx) : Under[Len(fwLine) + i] = rx[i]
         /\ \A i \in 1 .. Len(toGrbl) :
              Under[Len(fwLine) + Len(rx) + i] = toGrbl[i]
         /\ toHost \in Messages
<1>1. fwLine \in Seq(Byte) /\ rx \in Seq(Byte) /\ toGrbl \in Seq(Byte)
      /\ toHost \in Messages
  BY DEF Shape, Data, Messages
<1>2. Len(fwLine) \in Nat /\ Len(rx) \in Nat /\ Len(toGrbl) \in Nat
  BY <1>1
<1> QED BY <1>1, <1>2, JoinThree DEF Under

(* What a step of the serial thread or of the link leaves alone. *)
LEMMA LedgerSame ==
  ASSUME NEW S, Ledger(S),
         UNCHANGED <<bfrSize, grblBfr, reservedMsg, anim, srl, reserved>>
  PROVE  /\ Ledger(S)'
         /\ written' = written /\ heard' = heard
  BY DEF Ledger, written, listed, answered, counted, paid, heard, One

LEMMA InFlightSame ==
  ASSUME NEW S, InFlight(S), written' = written, heard' = heard,
         toHost' = toHost, Under' = Under
  PROVE  InFlight(S)'
<1>1. PICK base \in 0 .. written : /\ Answering(toHost, heard, base)
                                   /\ InOrder(S, Under, base, written)
  BY DEF InFlight
<1>2. base \in 0 .. written' /\ Answering(toHost', heard', base)
      /\ InOrder(S, Under', base, written')
  BY <1>1
<1> QED BY <1>2 DEF InFlight

LEMMA UnderSame ==
  ASSUME UNCHANGED <<fwLine, rx, toGrbl>> PROVE Under' = Under
  BY DEF Under

(* A value of S between two others. *)
LEMMA SumsOrdered ==
  ASSUME NEW n \in Nat, NEW S, Sums(S, n), NEW i \in 0 .. n, NEW j \in i .. n
  PROVE  S[i] \in Nat /\ S[j] \in Nat /\ S[i] <= S[j]
<1>1. j \in 0 .. n /\ (i = j \/ i < j)
  OBVIOUS
<1>2. S[i] \in Nat /\ S[j] \in Nat
  BY <1>1 DEF Sums
<1>3. i < j => S[i] < S[j]
  BY <1>1 DEF Sums
<1> QED BY <1>1, <1>2, <1>3
-----------------------------------------------------------------------------
(* The books are kept by every step, one lemma for each.                    *)

Running(S) == /\ Shape /\ Handshake /\ Sound /\ SetUp
              /\ Sums(S, reserved) /\ Ledger(S) /\ InFlight(S)

LEMMA RunningNumbers ==
  ASSUME NEW S, Running(S)
  PROVE  /\ reserved \in Nat /\ reserved <= Len(LineLen) /\ Len(LineLen) \in Nat
         /\ written \in 0 .. reserved
         /\ listed \in written .. reserved
         /\ counted \in written .. reserved
         /\ answered \in 0 .. listed
         /\ paid \in answered .. answered + 1
         /\ heard \in paid .. answered + 1
         /\ heard <= written
<1>1. /\ reserved \in Nat /\ reserved <= Len(LineLen) /\ Len(LineLen) \in Nat
      /\ written \in 0 .. reserved
      /\ listed \in written .. reserved
      /\ counted \in written .. reserved
      /\ answered \in Int /\ answered <= listed
      /\ paid \in answered .. answered + 1
      /\ heard \in paid .. answered + 1
  BY Numbers DEF Running
<1>2. answered >= 0
  BY DEF Running, Ledger
<1>3. heard <= written
  <2>1. PICK base \in 0 .. written : Answering(toHost, heard, base)
    BY DEF Running, InFlight
  <2>2. toHost \in Messages
    BY UnderIs DEF Running
  <2>3. heard \in Nat /\ heard <= base
    BY <2>1, <2>2, AnswerUpTo
  <2> QED BY <2>1, <2>3, <1>1
<1> HIDE DEF written, listed, counted, answered, paid, heard
<1> QED BY <1>1, <1>2, <1>3

LEMMA StreamCheckCounts ==
  ASSUME NEW S, Running(S), StreamCheck PROVE Ledger(S)' /\ InFlight(S)'
<1>1. Ledger(S)' /\ written' = written /\ heard' = heard
  BY DEF StreamCheck, AnimSame, Fits, Running, Ledger, written, listed,
         answered, counted, paid, heard, One
<1>2. UNCHANGED <<fwLine, rx, toGrbl, toHost>>
  BY DEF StreamCheck, AnimSame
<1> QED BY <1>1, <1>2, InFlightSame, UnderSame DEF Running

LEMMA StreamLoadCounts ==
  ASSUME NEW S, Running(S), StreamLoad PROVE Ledger(S)' /\ InFlight(S)'
<1>0. reservedMsg # << >>
  BY DEF StreamLoad, Running, Handshake, InsideStreaming
<1>1. Ledger(S)' /\ written' = written /\ heard' = heard
  BY <1>0 DEF StreamLoad, AnimSame, Running, Ledger, written, listed,
         answered, counted, paid, heard, One
<1>2. UNCHANGED <<fwLine, rx, toGrbl, toHost>>
  BY DEF StreamLoad, AnimSame
<1> QED BY <1>1, <1>2, InFlightSame, UnderSame DEF Running

LEMMA StreamStoreCounts ==
  ASSUME NEW S, Running(S), StreamStore, Sound'
  PROVE  Ledger(S)' /\ InFlight(S)'
<1>0. reservedMsg # << >> /\ anim = "store"
  BY DEF StreamStore, Running, Handshake, InsideStreaming
<1>1. /\ bfrSize' = animReg + LineLen[Head(reservedMsg)] /\ anim' = "add"
      /\ bfrSize = animReg
      /\ UNCHANGED <<grblBfr, reservedMsg, srl, reserved>>
  <2>1. torn' = (torn \/ bfrSize # animReg)
    BY <1>0 DEF StreamStore
  <2>2. ~torn'
    BY DEF Sound
  <2>3. bfrSize = animReg
    BY <2>1, <2>2
  <2> QED BY <1>0, <2>3 DEF StreamStore, AnimSame
<1>2. /\ written' = written /\ heard' = heard /\ answered' = answered
      /\ paid' = paid /\ counted' = counted + 1 /\ counted = written
  BY <1>0, <1>1, RunningNumbers
     DEF written, listed, answered, counted, paid, heard, One
<1>3. /\ Head(reservedMsg) = written + 1 /\ written + 1 \in 1 .. reserved
      /\ written \in Nat /\ written + 1 \in Lines
  BY <1>0, NextLine DEF Running
<1>4. /\ S[written + 1] = S[written] + LineLen[written + 1]
      /\ S[written] \in Nat /\ S[paid] \in Nat /\ LineLen[written + 1] \in Nat
  <2>1. paid \in 0 .. reserved /\ written \in 0 .. reserved
    BY RunningNumbers
  <2>2. (written + 1) - 1 = written
    BY <1>3
  <2>3. S[written + 1] = S[written] + LineLen[written + 1]
    BY <1>3, <2>2 DEF Running, Sums
  <2>4. S[written] \in Nat /\ S[paid] \in Nat
    BY <2>1 DEF Running, Sums
  <2> QED BY <2>3, <2>4, <1>3, Constants
<1>5. bfrSize = S[counted] - S[paid]
      /\ bfrSize + LineLen[Head(reservedMsg)] <= bfrSizeMx
      /\ answered >= 0 /\ srl # "disabled"
      /\ \A i \in 1 .. Len(grblBfr) : grblBfr[i] = answered + i
  BY <1>0 DEF Running, Ledger
<1>6. bfrSize' = S[counted'] - S[paid'] /\ bfrSize' <= bfrSizeMx
  BY <1>1, <1>2, <1>3, <1>4, <1>5
<1>7. Ledger(S)'
  <2> HIDE DEF answered, counted, paid
  <2> QED BY <1>1, <1>2, <1>5, <1>6 DEF Ledger
<1>8. UNCHANGED <<fwLine, rx, toGrbl, toHost>>
  BY DEF StreamStore, AnimSame
<1> QED BY <1>2, <1>7, <1>8, InFlightSame, UnderSame DEF Running

LEMMA StreamAddMoves ==
  ASSUME NEW S, Running(S), StreamAdd
  PROVE  /\ reservedMsg # << >> /\ anim = "add"
         /\ grblBfr' = Append(grblBfr, Head(reservedMsg)) /\ anim' = "write"
         /\ UNCHANGED <<bfrSize, reservedMsg, srl, reserved>>
         /\ Len(grblBfr') = Len(grblBfr) + 1 /\ Len(grblBfr) \in Nat
         /\ \A i \in 1 .. Len(grblBfr) : grblBfr'[i] = grblBfr[i]
         /\ grblBfr'[Len(grblBfr) + 1] = written + 1
         /\ written' = written /\ answered' = answered /\ heard' = heard
         /\ paid' = paid /\ counted' = counted
         /\ written + 1 = answered + Len(grblBfr) + 1
<1>0. reservedMsg # << >> /\ anim = "add"
  BY DEF StreamAdd, Running, Handshake, InsideStreaming
<1>1. /\ grblBfr' = Append(grblBfr, Head(reservedMsg)) /\ anim' = "write"
      /\ UNCHANGED <<bfrSize, reservedMsg, srl, reserved>>
  BY <1>0 DEF StreamAdd, AnimSame
<1>2. /\ Head(reservedMsg) = written + 1 /\ written \in Nat
      /\ Head(reservedMsg) \in Lines
  BY <1>0, NextLine DEF Running
<1>3. /\ Len(grblBfr') = Len(grblBfr) + 1 /\ Len(grblBfr) \in Nat
      /\ \A i \in 1 .. Len(grblBfr) : grblBfr'[i] = grblBfr[i]
      /\ grblBfr'[Len(grblBfr) + 1] = written + 1
  <2>1. grblBfr \in Seq(Lines)
    BY DEF Running, Shape, Data
  <2> QED BY <1>1, <1>2, <2>1, Appends
<1>4. /\ written' = written /\ answered' = answered /\ heard' = heard
      /\ paid' = paid /\ counted' = counted
      /\ written + 1 = answered + Len(grblBfr) + 1
  <2>1. written' = written /\ counted' = counted
    BY <1>0, <1>1 DEF written, counted, One
  <2>2. listed = written /\ listed' = written + 1
    BY <1>0, <1>1, <1>2, <2>1 DEF listed, One
  <2>3. answered' = answered /\ written + 1 = answered + Len(grblBfr) + 1
    <3> HIDE DEF written, listed
    <3> QED BY <1>2, <1>3, <2>2 DEF answered
  <2> HIDE DEF answered
  <2> QED BY <1>1, <2>1, <2>3 DEF paid, heard, One
<1> QED BY <1>0, <1>1, <1>3, <1>4

LEMMA StreamAddCounts ==
  ASSUME NEW S, Running(S), StreamAdd PROVE Ledger(S)' /\ InFlight(S)'
<1>1. /\ grblBfr' = Append(grblBfr, Head(reservedMsg)) /\ anim' = "write"
      /\ UNCHANGED <<bfrSize, reservedMsg, srl, reserved>>
  BY StreamAddMoves
<1>3. /\ Len(grblBfr') = Len(grblBfr) + 1 /\ Len(grblBfr) \in Nat
      /\ \A i \in 1 .. Len(grblBfr) : grblBfr'[i] = grblBfr[i]
      /\ grblBfr'[Len(grblBfr) + 1] = written + 1
  BY StreamAddMoves
<1>4. /\ written' = written /\ answered' = answered /\ heard' = heard
      /\ paid' = paid /\ counted' = counted
      /\ written + 1 = answered + Len(grblBfr) + 1
  BY StreamAddMoves
<1>5. \A i \in 1 .. Len(grblBfr') : grblBfr'[i] = answered + i
  <2> SUFFICES ASSUME NEW i \in 1 .. Len(grblBfr')
               PROVE  grblBfr'[i] = answered + i
    OBVIOUS
  <2>1. CASE i = Len(grblBfr) + 1
    <3>1. answered \in Int
      BY RunningNumbers
    <3>2. answered + Len(grblBfr) + 1 = answered + (Len(grblBfr) + 1)
      BY <3>1, <1>3
    <3> QED BY <1>3, <1>4, <2>1, <3>2
  <2>2. CASE i # Len(grblBfr) + 1
    <3>1. i \in 1 .. Len(grblBfr)
      BY <1>3, <2>2
    <3>2. grblBfr[i] = answered + i
      BY <3>1 DEF Running, Ledger
    <3> QED BY <1>3, <3>1, <3>2
  <2> QED BY <2>1, <2>2
<1>6. Ledger(S)'
  <2> HIDE DEF answered, counted, paid
  <2> QED BY <1>1, <1>4, <1>5 DEF Running, Ledger
<1>7. UNCHANGED <<fwLine, rx, toGrbl, toHost>>
  BY DEF StreamAdd, AnimSame
<1> QED BY <1>4, <1>6, <1>7, InFlightSame, UnderSame DEF Running

LEMMA StreamWriteCounts ==
  ASSUME NEW S, Running(S), StreamWrite PROVE Ledger(S)' /\ InFlight(S)'
<1>0. reservedMsg # << >> /\ anim = "write" /\ opens # 0
  BY DEF StreamWrite, Running, Handshake, InsideStreaming, Shape, PortFits,
         SetUp
<1>1. /\ toGrbl' = toGrbl \o BytesOf(Head(reservedMsg)) /\ anim' = "remove"
      /\ UNCHANGED <<bfrSize, grblBfr, reservedMsg, srl, reserved, toHost,
                     fwLine, rx>>
  BY <1>0 DEF StreamWrite
<1>2. /\ Head(reservedMsg) = written + 1 /\ written \in Nat
      /\ written + 1 \in 1 .. reserved /\ written + 1 \in Lines
  BY <1>0, NextLine DEF Running
<1>3. /\ written' = written + 1 /\ answered' = answered /\ heard' = heard
      /\ paid' = paid /\ counted' = counted
  BY SMTT(30), <1>0, <1>1, RunningNumbers
     DEF written, listed, answered, counted, paid, heard, One
<1>4. Ledger(S)'
  <2> HIDE DEF answered, counted, paid
  <2> QED BY <1>1, <1>3 DEF Running, Ledger
<1>5. PICK base \in 0 .. written : /\ Answering(toHost, heard, base)
                                   /\ InOrder(S, Under, base, written)
  BY DEF Running, InFlight
<1>6. Under' = Under \o BytesOf(written + 1)
  <2>1. /\ fwLine \in Seq(Byte) /\ rx \in Seq(Byte) /\ toGrbl \in Seq(Byte)
    BY UnderIs DEF Running
  <2>2. BytesOf(written + 1) \in Seq(Byte)
    BY <1>2, Bytes
  <2>3. fwLine \o rx \in Seq(Byte)
    BY <2>1, Concatenation
  <2>5. (fwLine \o rx) \o (toGrbl \o BytesOf(written + 1))
          = ((fwLine \o rx) \o toGrbl) \o BytesOf(written + 1)
    BY <2>1, <2>2, <2>3, Regroup
  <2> QED BY <1>1, <1>2, <2>5 DEF Under
<1>7. InOrder(S, Under \o BytesOf(written + 1), base, written + 1)
  <2>1. Under \in Seq(Byte)
    BY UnderIs DEF Running
  <2>2. /\ reserved \in Nat /\ reserved <= Len(LineLen)
        /\ written \in 0 .. reserved
    BY RunningNumbers
  <2>3. Sums(S, reserved)
    BY DEF Running
  <2> HIDE DEF written, Under
  <2> QED BY <1>2, <1>5, <2>1, <2>2, <2>3, WriteOne
<1>8. base \in 0 .. written' /\ Answering(toHost', heard', base)
      /\ InOrder(S, Under', base, written')
  <2> HIDE DEF written, Under, heard
  <2> QED BY <1>1, <1>2, <1>3, <1>5, <1>6, <1>7
<1> QED BY <1>4, <1>8 DEF InFlight

LEMMA StreamRemoveMoves ==
  ASSUME NEW S, Running(S), StreamRemove
  PROVE  /\ reservedMsg' = Tail(reservedMsg) /\ anim' = "frame" /\ anim = "remove"
         /\ UNCHANGED <<bfrSize, grblBfr, srl, reserved>>
         /\ written' = written /\ answered' = answered /\ heard' = heard
         /\ paid' = paid /\ counted' = counted
<1>0. reservedMsg # << >> /\ anim = "remove"
  BY DEF StreamRemove, Running, Handshake, InsideStreaming
<1>1. /\ reservedMsg' = Tail(reservedMsg) /\ anim' = "frame" /\ anim = "remove"
      /\ UNCHANGED <<bfrSize, grblBfr, srl, reserved>>
  BY <1>0 DEF StreamRemove, AnimSame
<1>2. Len(reservedMsg') = Len(reservedMsg) - 1 /\ Len(reservedMsg) \in Nat
  BY <1>0, <1>1, Tails DEF Running, Shape, Data
<1>3. /\ written' = written /\ answered' = answered /\ heard' = heard
      /\ paid' = paid /\ counted' = counted
  BY SMTT(30), <1>0, <1>1, <1>2, RunningNumbers
     DEF written, listed, answered, counted, paid, heard, One
<1> QED BY <1>1, <1>3

LEMMA StreamRemoveCounts ==
  ASSUME NEW S, Running(S), StreamRemove PROVE Ledger(S)' /\ InFlight(S)'
<1>1. /\ reservedMsg' = Tail(reservedMsg) /\ anim' = "frame" /\ anim = "remove"
      /\ UNCHANGED <<bfrSize, grblBfr, srl, reserved>>
  BY StreamRemoveMoves
<1>3. /\ written' = written /\ answered' = answered /\ heard' = heard
      /\ paid' = paid /\ counted' = counted
  BY StreamRemoveMoves
<1>4. Ledger(S)'
  <2> HIDE DEF answered, counted, paid
  <2> QED BY <1>1, <1>3 DEF Running, Ledger
<1>5. UNCHANGED <<fwLine, rx, toGrbl, toHost>>
  BY DEF StreamRemove, AnimSame
<1> QED BY <1>3, <1>4, <1>5, InFlightSame, UnderSame DEF Running

LEMMA ConnectingCounts ==
  ASSUME NEW S, Running(S), Connecting PROVE Ledger(S)' /\ InFlight(S)'
BY DEF Connecting, Running, SetUp

LEMMA ConnectCounts ==
  ASSUME NEW S, Running(S), Connect PROVE Ledger(S)' /\ InFlight(S)'
<1>1. srl' = srl /\ anim = "open" /\ anim' = "frame"
      /\ UNCHANGED <<bfrSize, grblBfr, reservedMsg, reserved>>
      /\ toGrbl' = << >> /\ toHost' = << >> /\ rx' = << >> /\ fwLine' = << >>
  BY DEF Connect, Restart, Running, Ledger
<1>2. /\ written' = written /\ answered' = answered /\ heard' = heard
      /\ paid' = paid /\ counted' = counted
  BY <1>1 DEF written, listed, answered, counted, paid, heard, One
<1>3. Ledger(S)'
  <2> HIDE DEF answered, counted, paid
  <2> QED BY <1>1, <1>2 DEF Running, Ledger
<1>4. heard \in 0 .. written
  BY RunningNumbers
<1>5. Answering(toHost', heard, heard)
  <2>1. << >> \in Messages /\ Len(<< >>) = 0
    BY Empty DEF Messages
  <2>2. heard \in Nat
    BY <1>4
  <2>3. Answering(<< >>, heard, heard)
    BY <2>1, <2>2, AnswerNone
  <2> QED BY <2>3, <1>1
<1>6. InOrder(S, Under', heard, written)
  <2>1. Under' = << >>
    BY <1>1, ConcatEmpty, Empty DEF Under
  <2> QED BY <2>1, Empty DEF InOrder
<1>7. heard \in 0 .. written' /\ Answering(toHost', heard', heard)
      /\ InOrder(S, Under', heard, written')
  <2> HIDE DEF written, heard, Under
  <2> QED BY <1>2, <1>4, <1>5, <1>6
<1> QED BY <1>3, <1>7 DEF InFlight

LEMMA ReadMessageCounts ==
  ASSUME NEW S, Running(S), ReadMessage PROVE Ledger(S)' /\ InFlight(S)'
<1>1. /\ toHost # << >> /\ toHost' = Tail(toHost) /\ srl = "wait" /\ isConnected
      /\ UNCHANGED <<bfrSize, grblBfr, reservedMsg, anim, reserved, fwLine, rx,
                     toGrbl>>
  BY DEF ReadMessage, Running, SetUp
<1>2. \/ Head(toHost) # Welcome /\ srl' = "load"
      \/ Head(toHost) = Welcome /\ srl' = "wait"
  BY <1>1 DEF ReadMessage, IsAnswer
<1>3. /\ written' = written /\ answered' = answered /\ paid' = paid
      /\ counted' = counted /\ heard' = heard + One(Head(toHost) # Welcome)
  <2>1. written' = written /\ answered' = answered /\ counted' = counted
    BY <1>1 DEF written, listed, answered, counted, One
  <2>2. answered \in Nat
    BY RunningNumbers
  <2> HIDE DEF answered
  <2> QED BY <1>1, <1>2, <2>1, <2>2 DEF paid, heard, One
<1>4. Ledger(S)'
  <2>1. srl' # "disabled"
    BY <1>2
  <2> HIDE DEF answered, counted, paid
  <2> QED BY <1>1, <1>3, <2>1 DEF Running, Ledger
<1>5. PICK base \in 0 .. written : /\ Answering(toHost, heard, base)
                                   /\ InOrder(S, Under, base, written)
  BY DEF Running, InFlight
<1>6. Answering(toHost', heard', base)
  <2>1. toHost \in Messages
    BY UnderIs DEF Running
  <2> HIDE DEF heard
  <2>2. Answering(Tail(toHost), heard + One(Head(toHost) # Welcome), base)
    BY <1>1, <1>5, <2>1, AnswerNext
  <2> QED BY <2>2, <1>1, <1>3
<1>7. base \in 0 .. written' /\ InOrder(S, Under', base, written')
  BY <1>1, <1>3, <1>5, UnderSame
<1> QED BY <1>4, <1>6, <1>7 DEF InFlight

LEMMA AckLoadCounts ==
  ASSUME NEW S, Running(S), AckLoad
  PROVE  Ledger(S)' /\ InFlight(S)'
<1>1. grblBfr # << >>
  <2>1. heard = answered + 1 /\ answered \in Nat /\ heard <= listed
    <3>1. srl = "load"
      BY DEF AckLoad
    <3>2. heard = answered + 1
      BY <3>1 DEF heard, One
    <3>3. answered \in Nat /\ heard <= written /\ written <= listed
          /\ written \in Nat /\ listed \in Nat
      BY RunningNumbers
    <3> QED BY <3>2, <3>3
  <2>2. listed \in Nat /\ answered = listed - Len(grblBfr)
    BY RunningNumbers DEF answered
  <2> HIDE DEF answered, listed, heard
  <2> QED BY <2>1, <2>2, Empty
<1>2. /\ srl = "load" /\ srl' = "store"
      /\ UNCHANGED <<bfrSize, grblBfr, reservedMsg, anim, reserved, fwLine, rx,
                     toGrbl, toHost>>
  BY <1>1 DEF AckLoad, SrlSame
<1>3. /\ written' = written /\ answered' = answered /\ paid' = paid
      /\ counted' = counted /\ heard' = heard
  BY <1>2 DEF written, listed, answered, counted, paid, heard, One
<1>4. Ledger(S)'
  <2> HIDE DEF answered, counted, paid
  <2> QED BY <1>2, <1>3 DEF Running, Ledger
<1> QED BY <1>2, <1>3, <1>4, InFlightSame, UnderSame DEF Running

LEMMA AckStoreCounts ==
  ASSUME NEW S, Running(S), AckStore, Sound'
  PROVE  Ledger(S)' /\ InFlight(S)'
<1>1. /\ srl = "store" /\ srl' = "remove" /\ grblBfr # << >>
      /\ bfrSize' = bfrSize - LineLen[Head(grblBfr)]
      /\ UNCHANGED <<grblBfr, reservedMsg, anim, reserved, fwLine, rx,
                     toGrbl, toHost>>
  <2>1. /\ srl = "store" /\ srl' = "remove"
        /\ bfrSize' = srlReg - LineLen[Head(grblBfr)]
        /\ torn' = (torn \/ bfrSize # srlReg)
        /\ UNCHANGED <<grblBfr, reservedMsg, anim, reserved, fwLine, rx,
                       toGrbl, toHost>>
    BY DEF AckStore, SrlSame, Charge
  <2>2. ~torn'
    BY DEF Sound
  <2>3. bfrSize = srlReg
    BY <2>1, <2>2
  <2>4. grblBfr # << >>
    BY <2>1 DEF Running, Shape, PortFits
  <2> QED BY <2>1, <2>3, <2>4
<1>2. /\ answered \in Nat /\ listed \in Nat /\ listed <= reserved
      /\ reserved \in Nat /\ reserved <= Len(LineLen) /\ Len(LineLen) \in Nat
      /\ counted \in 0 .. reserved
  BY RunningNumbers
<1>3. /\ written' = written /\ answered' = answered
      /\ counted' = counted /\ heard' = heard
      /\ paid = answered /\ paid' = answered + 1
  <2>1. written' = written /\ answered' = answered /\ counted' = counted
    BY <1>1 DEF written, listed, answered, counted, One
  <2> HIDE DEF answered
  <2> QED BY <1>1, <1>2, <2>1 DEF paid, heard, One
<1>4. /\ Head(grblBfr) = answered + 1 /\ answered + 1 \in 1 .. reserved
      /\ answered + 1 \in Lines
  <2>1. grblBfr[1] = Head(grblBfr) /\ Len(grblBfr) \in Nat \ {0}
    BY <1>1, Tails DEF Running, Shape, Data
  <2>2. Head(grblBfr) = answered + 1
    BY <2>1 DEF Running, Ledger
  <2>3. answered = listed - Len(grblBfr)
    BY DEF answered
  <2> HIDE DEF answered, listed
  <2>4. answered + 1 <= listed
    BY <2>1, <2>3, <1>2
  <2> QED BY <1>2, <2>2, <2>4 DEF Lines
<1>5. /\ S[answered + 1] = S[answered] + LineLen[answered + 1]
      /\ S[answered] \in Nat /\ S[counted] \in Nat
      /\ LineLen[answered + 1] \in Nat
  <2>1. (answered + 1) - 1 = answered /\ answered \in 0 .. reserved
    BY <1>2, <1>4
  <2>2. S[answered + 1] = S[answered] + LineLen[answered + 1]
    BY <1>4, <2>1 DEF Running, Sums
  <2>3. S[answered] \in Nat /\ S[counted] \in Nat
    BY <2>1, <1>2 DEF Running, Sums
  <2> QED BY <2>2, <2>3, <1>4, Constants
<1>6. /\ bfrSize = S[counted] - S[paid] /\ bfrSize <= bfrSizeMx
      /\ anim \in {"load", "store"} =>
           bfrSize + LineLen[Head(reservedMsg)] <= bfrSizeMx
      /\ \A i \in 1 .. Len(grblBfr) : grblBfr[i] = answered + i
  BY DEF Running, Ledger
<1>7. /\ bfrSize' = S[counted] - S[answered + 1]
      /\ bfrSize' <= bfrSize /\ bfrSize \in Int /\ bfrSize' \in Int
  <2> HIDE DEF answered, counted
  <2> QED BY <1>1, <1>3, <1>4, <1>5, <1>6
<1>8. anim \in {"load", "store"} => LineLen[Head(reservedMsg)] \in Nat
  <2>1. anim \in {"load", "store"} => reservedMsg # << >>
    BY DEF Running, Handshake, InsideStreaming
  <2>2. reservedMsg # << >> => Head(reservedMsg) \in Lines
    BY Tails DEF Running, Shape, Data
  <2> QED BY <2>1, <2>2, Constants
<1>9. Ledger(S)'
  <2>1. bfrSize' <= bfrSizeMx
    BY <1>6, <1>7, Constants
  <2>2. anim \in {"load", "store"} =>
           bfrSize' + LineLen[Head(reservedMsg)] <= bfrSizeMx
    BY <1>6, <1>7, <1>8, Constants
  <2> HIDE DEF answered, counted, paid
  <2> QED BY <1>1, <1>2, <1>3, <1>6, <1>7, <2>1, <2>2 DEF Ledger
<1> QED BY <1>1, <1>3, <1>9, InFlightSame, UnderSame DEF Running

LEMMA AckRemoveMoves ==
  ASSUME NEW S, Running(S), AckRemove
  PROVE  /\ srl = "remove" /\ srl' = "wait" /\ grblBfr # << >>
         /\ grblBfr' = Tail(grblBfr)
         /\ UNCHANGED <<bfrSize, reservedMsg, anim, reserved, fwLine, rx,
                        toGrbl, toHost>>
         /\ Len(grblBfr') = Len(grblBfr) - 1 /\ Len(grblBfr) \in Nat \ {0}
         /\ \A i \in 1 .. Len(grblBfr) - 1 : grblBfr'[i] = grblBfr[i + 1]
         /\ written' = written /\ counted' = counted /\ heard' = heard
         /\ paid' = paid /\ answered' = answered + 1 /\ answered \in Nat
         /\ heard' = answered'
<1>1. /\ srl = "remove" /\ srl' = "wait" /\ grblBfr # << >>
      /\ grblBfr' = Tail(grblBfr)
      /\ UNCHANGED <<bfrSize, reservedMsg, anim, reserved, fwLine, rx,
                     toGrbl, toHost>>
  BY DEF AckRemove, SrlSame, Answered, Running, Shape, PortFits
<1>2. /\ Len(grblBfr') = Len(grblBfr) - 1 /\ Len(grblBfr) \in Nat \ {0}
      /\ \A i \in 1 .. Len(grblBfr) - 1 : grblBfr'[i] = grblBfr[i + 1]
  BY <1>1, Tails DEF Running, Shape, Data
<1>3. /\ written' = written /\ counted' = counted /\ heard' = heard
      /\ paid' = paid /\ answered' = answered + 1 /\ answered \in Nat
      /\ heard' = answered'
  <2>1. written' = written /\ listed' = listed /\ counted' = counted
    BY <1>1 DEF written, listed, counted, One
  <2>2. listed \in Nat /\ answered \in Nat
    BY RunningNumbers
  <2>3. answered' = answered + 1
    <3> HIDE DEF listed
    <3> QED BY <2>1, <2>2, <1>2 DEF answered
  <2> HIDE DEF answered
  <2> QED BY <1>1, <2>1, <2>2, <2>3 DEF paid, heard, One
<1> QED BY <1>1, <1>2, <1>3

LEMMA AckRemoveCounts ==
  ASSUME NEW S, Running(S), AckRemove
  PROVE  Ledger(S)' /\ InFlight(S)'
<1>1. /\ srl = "remove" /\ srl' = "wait" /\ grblBfr # << >>
      /\ grblBfr' = Tail(grblBfr)
      /\ UNCHANGED <<bfrSize, reservedMsg, anim, reserved, fwLine, rx,
                     toGrbl, toHost>>
  BY AckRemoveMoves
<1>2. /\ Len(grblBfr') = Len(grblBfr) - 1 /\ Len(grblBfr) \in Nat \ {0}
      /\ \A i \in 1 .. Len(grblBfr) - 1 : grblBfr'[i] = grblBfr[i + 1]
  BY AckRemoveMoves
<1>3. /\ written' = written /\ counted' = counted /\ heard' = heard
      /\ paid' = paid /\ answered' = answered + 1 /\ answered \in Nat
      /\ heard' = answered'
  BY AckRemoveMoves
<1>4. \A i \in 1 .. Len(grblBfr') : grblBfr'[i] = answered' + i
  <2> SUFFICES ASSUME NEW i \in 1 .. Len(grblBfr')
               PROVE  grblBfr'[i] = answered' + i
    OBVIOUS
  <2>1. i \in 1 .. Len(grblBfr) - 1 /\ i + 1 \in 1 .. Len(grblBfr)
    BY <1>2
  <2>2. grblBfr[i + 1] = answered + (i + 1)
    BY <2>1 DEF Running, Ledger
  <2> HIDE DEF answered
  <2> QED BY <1>2, <1>3, <2>1, <2>2
<1>5. Ledger(S)'
  <2> HIDE DEF answered, counted, paid
  <2> QED BY <1>1, <1>3, <1>4 DEF Running, Ledger
<1> QED BY <1>1, <1>3, <1>5, InFlightSame, UnderSame DEF Running

(* The link and the firmware leave the host's books alone. *)
LEMMA FwLeavesLedger ==
  ASSUME NEW S, Running(S), FwSame
  PROVE  /\ Ledger(S)' /\ written' = written /\ heard' = heard
         /\ SetUp'
BY LedgerSame DEF FwSame, Running, SetUp, Initialising

LEMMA ReceiveCounts ==
  ASSUME NEW S, Running(S), Receive, ~overrun
  PROVE  Ledger(S)' /\ InFlight(S)' /\ overrun' = overrun
<1> DEFINE p == Len(fwLine) + Len(rx) + 1
           n == reserved
<1>1. Ledger(S)' /\ written' = written /\ heard' = heard
  BY FwLeavesLedger DEF Receive
<1>2. /\ toGrbl # << >> /\ toGrbl' = Tail(toGrbl)
      /\ UNCHANGED <<fwLine, toHost>>
  BY DEF Receive
<1>3. PICK base \in 0 .. written : /\ Answering(toHost, heard, base)
                                   /\ InOrder(S, Under, base, written)
  BY DEF Running, InFlight
<1>4. /\ Under \in Seq(Byte)
      /\ Len(Under) = Len(fwLine) + Len(rx) + Len(toGrbl)
      /\ fwLine \in Seq(Byte) /\ rx \in Seq(Byte) /\ toGrbl \in Seq(Byte)
      /\ Len(fwLine) \in Nat /\ Len(rx) \in Nat /\ Len(toGrbl) \in Nat
      /\ \A i \in 1 .. Len(fwLine) : Under[i] = fwLine[i]
      /\ \A i \in 1 .. Len(rx) : Under[Len(fwLine) + i] = rx[i]
      /\ \A i \in 1 .. Len(toGrbl) :
           Under[Len(fwLine) + Len(rx) + i] = toGrbl[i]
  BY UnderIs DEF Running
<1>5. /\ Head(toGrbl) \in Byte /\ Tail(toGrbl) \in Seq(Byte)
      /\ Len(Tail(toGrbl)) = Len(toGrbl) - 1 /\ Len(toGrbl) \in Nat \ {0}
      /\ \A i \in 1 .. Len(toGrbl) - 1 : Tail(toGrbl)[i] = toGrbl[i + 1]
  BY <1>2, <1>4, Tails
<1>6. /\ n \in Nat /\ n <= Len(LineLen) /\ Sums(S, n) /\ written \in 0 .. n
      /\ counted \in written .. n /\ paid \in 0 .. heard /\ heard \in Nat
  BY RunningNumbers DEF Running
<1>7. ~(fw # "off" /\ RingFull)
  <2> SUFFICES ASSUME RingFull PROVE FALSE
    OBVIOUS
  <2>1. S[base] + Len(Under) <= S[written]
    <3> HIDE DEF Under, written, n
    <3> QED BY <1>3, <1>4, <1>6, AtMost
  <2>2. heard <= base
    <3>1. toHost \in Messages
      BY UnderIs DEF Running
    <3> HIDE DEF heard, written
    <3> QED BY <1>3, <3>1, AnswerUpTo
  <2> HIDE DEF written, heard, paid, counted, n, Under
  <2>3. S[written] <= S[counted] /\ S[written] \in Nat /\ S[counted] \in Nat
    BY <1>6, SumsOrdered
  <2>4. S[paid] <= S[base] /\ S[paid] \in Nat /\ S[base] \in Nat
    <3>1. paid \in 0 .. n /\ base \in paid .. n
      BY <1>3, <1>6, <2>2
    <3> QED BY <3>1, <1>6, SumsOrdered
  <2>5. bfrSize = S[counted] - S[paid] /\ bfrSize <= bfrSizeMx
    BY DEF Running, Ledger
  <2>6. Len(rx) = RX_BUFFER_SIZE
    BY DEF RingFull
  <2>7. Len(Under) > RX_BUFFER_SIZE /\ Len(Under) \in Nat
    BY <1>4, <1>5, <2>6, Constants
  <2>8. Len(Under) <= bfrSize
    BY <2>1, <2>3, <2>4, <2>5, <2>7
  <2>9. bfrSize \in Int
    BY <2>3, <2>4, <2>5
  <2> QED BY <2>5, <2>7, <2>8, <2>9, Constants
<1>8. \/ rx' = rx /\ overrun' = overrun
      \/ rx' = Append(rx, Head(toGrbl)) /\ overrun' = overrun
  BY <1>7 DEF Receive
<1>9. InOrder(S, Under', base, written)
  <2>1. CASE rx' = Append(rx, Head(toGrbl))
    <3>1. fwLine \o rx \in Seq(Byte)
      BY <1>4, Concatenation
    <3>2. fwLine \o Append(rx, Head(toGrbl))
            = Append(fwLine \o rx, Head(toGrbl))
      BY <1>4, <1>5, AppendLast
    <3>3. Append(fwLine \o rx, Head(toGrbl)) \o Tail(toGrbl)
            = (fwLine \o rx) \o toGrbl
      <4>1. toGrbl \in Seq(Byte) /\ toGrbl # << >>
        BY <1>2, <1>4
      <4>2. \A a \in Seq(Byte) :
              Append(a, Head(toGrbl)) \o Tail(toGrbl) = a \o toGrbl
        BY <4>1, TakeOne
      <4> QED BY <3>1, <4>2
    <3>4. Under' = Under
      BY <1>2, <2>1, <3>2, <3>3 DEF Under
    <3> QED BY <1>3, <3>4
  <2>2. CASE rx' = rx
    <3> DEFINE G == (fwLine \o rx) \o Tail(toGrbl)
    <3>1. Under' = G
      BY <1>2, <2>2 DEF Under
    <3>2. /\ G \in Seq(Byte)
          /\ Len(G) = Len(fwLine) + Len(rx) + Len(Tail(toGrbl))
          /\ \A i \in 1 .. Len(fwLine) : G[i] = fwLine[i]
          /\ \A i \in 1 .. Len(rx) : G[Len(fwLine) + i] = rx[i]
          /\ \A i \in 1 .. Len(Tail(toGrbl)) :
               G[Len(fwLine) + Len(rx) + i] = Tail(toGrbl)[i]
      BY SMTT(30), <1>4, <1>5, JoinThree
    <3> HIDE DEF G
    <3>3. ASSUME NEW j \in 1 .. Len(G)
          PROVE  G[j] = Under[IF j < p THEN j ELSE j + 1]
      <4>1. CASE j \in 1 .. Len(fwLine)
        <5>1. j < p
          BY <1>4, <4>1
        <5> QED BY <1>4, <3>2, <4>1, <5>1
      <4>2. CASE j \in Len(fwLine) + 1 .. Len(fwLine) + Len(rx)
        <5>1. j < p /\ j - Len(fwLine) \in 1 .. Len(rx)
              /\ Len(fwLine) + (j - Len(fwLine)) = j
          BY <1>4, <4>2
        <5>2. G[Len(fwLine) + (j - Len(fwLine))] = rx[j - Len(fwLine)]
          BY <3>2, <5>1
        <5>3. Under[Len(fwLine) + (j - Len(fwLine))] = rx[j - Len(fwLine)]
          BY <1>4, <5>1
        <5> QED BY <5>1, <5>2, <5>3
      <4>3. CASE j > Len(fwLine) + Len(rx)
        <5> DEFINE k == j - (Len(fwLine) + Len(rx))
        <5>1. /\ ~(j < p) /\ k \in 1 .. Len(toGrbl) - 1
              /\ k + 1 \in 1 .. Len(toGrbl) /\ k \in 1 .. Len(Tail(toGrbl))
              /\ Len(fwLine) + Len(rx) + k = j
              /\ Len(fwLine) + Len(rx) + (k + 1) = j + 1
          BY <1>4, <1>5, <3>2, <4>3
        <5> HIDE DEF k
        <5>2. G[Len(fwLine) + Len(rx) + k] = Tail(toGrbl)[k]
          BY <3>2, <5>1
        <5>3. Under[Len(fwLine) + Len(rx) + (k + 1)] = toGrbl[k + 1]
          BY <1>4, <5>1
        <5>4. Tail(toGrbl)[k] = toGrbl[k + 1]
          BY <1>5, <5>1
        <5> QED BY <5>1, <5>2, <5>3, <5>4
      <4> QED BY <4>1, <4>2, <4>3, <1>4, <3>2
    <3>4. Len(G) = Len(Under) - 1 /\ p \in 1 .. Len(Under)
      BY <1>4, <1>5, <3>2
    <3> HIDE DEF p, n, Under, written
    <3>5. InOrder(S, G, base, written)
      BY <1>3, <1>4, <1>6, <3>2, <3>3, <3>4, DropOne
    <3> QED BY <3>1, <3>5
  <2> QED BY <2>1, <2>2, <1>8
<1>10. base \in 0 .. written' /\ Answering(toHost', heard', base)
       /\ InOrder(S, Under', base, written')
  BY <1>1, <1>2, <1>3, <1>9
<1> QED BY <1>1, <1>8, <1>10 DEF InFlight

LEMMA BootCounts ==
  ASSUME NEW S, Running(S), Boot PROVE Ledger(S)' /\ InFlight(S)'
<1>1. Ledger(S)' /\ written' = written /\ heard' = heard
  BY FwLeavesLedger DEF Boot
<1>2. Under' = Under
  <2>1. UNCHANGED <<fwLine, rx, toGrbl>>
    BY DEF Boot, Running, Shape, FirmwareFits
  <2> QED BY <2>1, UnderSame
<1>3. PICK base \in 0 .. written : /\ Answering(toHost, heard, base)
                                   /\ InOrder(S, Under, base, written)
  BY DEF Running, InFlight
<1>4. Answering(toHost', heard, base)
  <2>1. toHost \in Messages /\ toHost' = Append(toHost, Welcome)
    BY UnderIs DEF Running, Boot
  <2>2. base \in Nat /\ base + One(Welcome # Welcome) = base
    BY <1>3, RunningNumbers DEF One
  <2>3. Answering(Append(toHost, Welcome), heard, base + One(Welcome # Welcome))
    BY <1>3, <2>1, AnswerMore
  <2> QED BY <2>1, <2>2, <2>3
<1>5. base \in 0 .. written' /\ Answering(toHost', heard', base)
      /\ InOrder(S, Under', base, written')
  BY <1>1, <1>2, <1>3, <1>4
<1> QED BY <1>1, <1>5 DEF InFlight

LEMMA FwReadCounts ==
  ASSUME NEW S, Running(S), FwRead PROVE Ledger(S)' /\ InFlight(S)'
<1>1. Ledger(S)' /\ written' = written /\ heard' = heard
  BY FwLeavesLedger DEF FwRead
<1>2. /\ fwLine' = Append(fwLine, Head(rx)) /\ rx' = Tail(rx) /\ rx # << >>
      /\ toGrbl' = toGrbl /\ toHost' = toHost
  BY DEF FwRead
<1>3. Under' = Under
  <2>1. fwLine \in Seq(Byte) /\ rx \in Seq(Byte)
    BY UnderIs DEF Running
  <2>2. Append(fwLine, Head(rx)) \o Tail(rx) = fwLine \o rx
    BY <1>2, <2>1, TakeOne
  <2> QED BY <1>2, <2>2 DEF Under
<1> QED BY <1>1, <1>2, <1>3, InFlightSame DEF Running

(* What the firmware holds is gone: the rest keeps its order. *)
LEMMA Behind ==
  ASSUME NEW a \in Seq(Byte), NEW b \in Seq(Byte)
  PROVE  /\ Len(b) = Len(a \o b) - Len(a) /\ Len(a) \in 0 .. Len(a \o b)
         /\ a \o b \in Seq(Byte)
         /\ \A j \in 1 .. Len(b) : b[j] = (a \o b)[Len(a) + j]
<1>1. Len(a) \in Nat /\ Len(b) \in Nat /\ Len(a \o b) = Len(a) + Len(b)
  BY Concatenation
<1> QED BY <1>1, Concatenation

LEMMA FwExecuteCounts ==
  ASSUME NEW S, Running(S), FwExecute PROVE Ledger(S)' /\ InFlight(S)'
<1> DEFINE l == Last(fwLine)[1]
           k == Len(fwLine)
           G == rx \o toGrbl
<1>1. Ledger(S)' /\ written' = written /\ heard' = heard
  BY FwLeavesLedger DEF FwExecute
<1>2. /\ toHost' = Append(toHost, l) /\ fwLine' = << >>
      /\ rx' = rx /\ toGrbl' = toGrbl
  BY DEF FwExecute
<1>3. PICK base \in 0 .. written : /\ Answering(toHost, heard, base)
                                   /\ InOrder(S, Under, base, written)
  BY DEF Running, InFlight
<1>4. /\ fwLine \in Seq(Byte) /\ rx \in Seq(Byte) /\ toGrbl \in Seq(Byte)
      /\ toHost \in Messages /\ Under \in Seq(Byte)
      /\ \A i \in 1 .. Len(fwLine) : Under[i] = fwLine[i]
      /\ G \in Seq(Byte)
  BY UnderIs, Concatenation DEF Running
<1>5. fwLine # << >> /\ IsEol(fwLine[k]) /\ k \in 1 .. k /\ k \in Nat
      /\ Last(fwLine) = fwLine[k] /\ l \in Lines
  <2>1. fwLine # << >> /\ IsEol(fwLine[k])
    BY DEF FwExecute, Running, Shape, FirmwareFits
  <2>2. k \in 1 .. k /\ k \in Nat /\ Last(fwLine) = fwLine[k]
    BY <2>1, <1>4 DEF Last
  <2>3. fwLine[k] \in Byte
    BY <2>2, <1>4
  <2> QED BY <2>1, <2>2, <2>3 DEF Byte
<1>6. Under = fwLine \o G
  <2>1. fwLine \o (rx \o toGrbl) = (fwLine \o rx) \o toGrbl
    <3>1. fwLine \in Seq(Byte) /\ rx \in Seq(Byte) /\ toGrbl \in Seq(Byte)
      BY <1>4
    <3> QED BY <3>1, Regroup, Zenon
  <2> QED BY <2>1 DEF Under
<1>7. Under' = G
  <2>1. << >> \o rx = rx
    BY <1>4, ConcatEmpty
  <2> QED BY <1>2, <2>1 DEF Under
<1>8. /\ Len(G) = Len(Under) - k /\ k \in 1 .. Len(Under) /\ IsEol(Under[k])
      /\ \A j \in 1 .. Len(G) : G[j] = Under[k + j]
  <2> HIDE DEF Under, G
  <2>1. /\ Len(G) = Len(Under) - Len(fwLine) /\ Len(fwLine) \in 0 .. Len(Under)
        /\ \A j \in 1 .. Len(G) : G[j] = Under[Len(fwLine) + j]
    BY SMTT(30), <1>4, <1>6, Behind
  <2>2. Under[k] = fwLine[k]
    BY <1>4, <1>5
  <2>3. IsEol(Under[k])
    BY <1>5, <2>2
  <2>4. k \in 1 .. Len(Under)
    BY <1>5, <2>1
  <2> QED BY <2>1, <2>3, <2>4
<1>9. /\ reserved \in Nat /\ reserved <= Len(LineLen) /\ Sums(S, reserved)
      /\ written \in 0 .. reserved
  BY RunningNumbers DEF Running
<1>10. base + 1 \in 0 .. written /\ InOrder(S, G, base + 1, written)
  <2> HIDE DEF Under, G, k, written
  <2> QED BY <1>3, <1>4, <1>8, <1>9, EndOne
<1>11. Answering(toHost', heard, base + 1)
  <2>1. l \in {Welcome} \cup Lines /\ One(l # Welcome) = 1
    BY <1>5, Constants DEF One, Welcome, Lines
  <2> HIDE DEF l, heard
  <2>2. Answering(Append(toHost, l), heard, base + One(l # Welcome))
    BY <1>3, <1>4, <2>1, AnswerMore
  <2> QED BY <1>2, <2>1, <2>2
<1>12. base + 1 \in 0 .. written' /\ Answering(toHost', heard', base + 1)
       /\ InOrder(S, Under', base + 1, written')
  BY <1>1, <1>7, <1>10, <1>11
<1> QED BY <1>1, <1>12 DEF InFlight

LEMMA ResetCounts ==
  ASSUME NEW S, Running(S), Reset PROVE Ledger(S)' /\ InFlight(S)'
<1> DEFINE a == fwLine \o rx
<1>1. Ledger(S)' /\ written' = written /\ heard' = heard
  BY FwLeavesLedger DEF Reset
<1>2. /\ toHost' = toHost /\ fwLine' = << >> /\ rx' = << >> /\ toGrbl' = toGrbl
  BY DEF Reset, Restart
<1>3. PICK base \in 0 .. written : /\ Answering(toHost, heard, base)
                                   /\ InOrder(S, Under, base, written)
  BY DEF Running, InFlight
<1>4. /\ fwLine \in Seq(Byte) /\ rx \in Seq(Byte) /\ toGrbl \in Seq(Byte)
      /\ a \in Seq(Byte) /\ Under \in Seq(Byte)
  BY UnderIs, Concatenation DEF Running
<1>5. Under' = toGrbl
  BY <1>2, <1>4, ConcatEmpty, Empty DEF Under
<1>6. /\ reserved \in Nat /\ reserved <= Len(LineLen) /\ Sums(S, reserved)
      /\ written \in 0 .. reserved
  BY RunningNumbers DEF Running
<1>7. Under = a \o toGrbl
  BY DEF Under
<1> HIDE DEF a, Under, written
<1>8. /\ Len(toGrbl) = Len(Under) - Len(a) /\ Len(a) \in 0 .. Len(Under)
      /\ \A j \in 1 .. Len(toGrbl) : toGrbl[j] = Under[Len(a) + j]
  BY <1>4, <1>7, Behind
<1>9. InOrder(S, toGrbl, base, written)
  BY <1>3, <1>4, <1>6, <1>8, DropFirst
<1>10. base \in 0 .. written' /\ Answering(toHost', heard', base)
       /\ InOrder(S, Under', base, written')
  BY <1>1, <1>2, <1>3, <1>5, <1>9
<1> QED BY <1>1, <1>10 DEF InFlight

LEMMA ReserveMoves ==
  ASSUME Shape, Reserve
  PROVE  /\ reservedMsg' = Append(reservedMsg, reserved + 1)
         /\ reserved \in Nat /\ reserved' = reserved + 1
         /\ reserved + 1 \in Lines /\ reserved <= Len(LineLen)
         /\ UNCHANGED <<bfrSize, grblBfr, anim, srl, fwLine, rx, toGrbl, toHost>>
         /\ reservedMsg # << >> => Head(reservedMsg') = Head(reservedMsg)
         /\ written' = written /\ answered' = answered /\ heard' = heard
         /\ paid' = paid /\ counted' = counted
<1>1. /\ reserved \in Nat /\ reserved + 1 \in Lines
      /\ reserved <= Len(LineLen) /\ reservedMsg \in Seq(Lines)
  BY Constants DEF Reserve, Shape, Data, Lines
<1>2. /\ reservedMsg' = Append(reservedMsg, reserved + 1)
      /\ reserved' = reserved + 1
      /\ UNCHANGED <<bfrSize, grblBfr, anim, srl, fwLine, rx, toGrbl, toHost>>
  BY DEF Reserve
<1>3. Len(reservedMsg') = Len(reservedMsg) + 1 /\ Len(reservedMsg) \in Nat
  BY <1>1, <1>2, Appends
<1>4. reservedMsg # << >> => Head(reservedMsg') = Head(reservedMsg)
  BY <1>1, <1>2
<1>5. written' = written
  BY <1>1, <1>2, <1>3 DEF written, One
<1>6. /\ answered' = answered /\ heard' = heard
      /\ paid' = paid /\ counted' = counted
  BY <1>2, <1>5 DEF listed, answered, heard, paid, counted
<1> QED BY <1>1, <1>2, <1>4, <1>5, <1>6

LEMMA ReserveCounts ==
  ASSUME Shape, Handshake, Count, Reserve PROVE Count'
<1> DEFINE n == reserved
<1>1. PICK S : /\ Sums(S, n)
               /\ Sound /\ SetUp => Ledger(S) /\ InFlight(S)
  BY DEF Count
<1>2. n \in Nat /\ n + 1 \in Lines /\ n <= Len(LineLen)
  BY ReserveMoves
<1>3. PICK T : Sums(T, n + 1) /\ \A i \in 0 .. n : T[i] = S[i]
  <2> HIDE DEF n
  <2> QED BY <1>1, <1>2, MoreSums
<1>4. reserved' = n + 1
  BY DEF Reserve
<1>5. ASSUME Sound', SetUp' PROVE Ledger(T)' /\ InFlight(T)'
  <2>1. Running(S)
    BY <1>1, <1>5 DEF Reserve, Sound, SetUp, Initialising, Running
  <2>2. /\ UNCHANGED <<bfrSize, grblBfr, anim, srl, fwLine, rx, toGrbl, toHost>>
        /\ reservedMsg # << >> => Head(reservedMsg') = Head(reservedMsg)
    BY ReserveMoves
  <2>4. /\ written' = written /\ answered' = answered /\ heard' = heard
        /\ paid' = paid /\ counted' = counted
    BY ReserveMoves
  <2>5. /\ written \in 0 .. n /\ counted \in 0 .. n /\ paid \in 0 .. n
        /\ answered \in Nat
    <3>1. /\ written \in 0 .. n /\ counted \in written .. n
          /\ paid \in 0 .. heard /\ heard <= written /\ heard \in Nat
          /\ answered \in Nat
      BY <2>1, RunningNumbers
    <3> HIDE DEF n
    <3> QED BY <3>1, <1>2
  <2>6. T[counted] = S[counted] /\ T[paid] = S[paid]
    BY <1>3, <2>5
  <2>7. anim \in {"load", "store"} => reservedMsg # << >>
    BY <2>1 DEF Running, Handshake, InsideStreaming
  <2>8. Ledger(T)'
    <3> HIDE DEF answered, counted, paid
    <3> QED BY <2>1, <2>2, <2>4, <2>6, <2>7 DEF Running, Ledger
  <2>9. PICK base \in 0 .. written : /\ Answering(toHost, heard, base)
                                     /\ InOrder(S, Under, base, written)
    BY <2>1 DEF Running, InFlight
  <2>10. InOrder(T, Under, base, written)
    <3>1. Under \in Seq(Byte) /\ written \in Nat
          /\ \A i \in 0 .. written : T[i] = S[i]
      BY <1>2, <1>3, <2>5, UnderIs
    <3> HIDE DEF Under, written
    <3> QED BY <3>1, <2>9, SameSums
  <2>11. base \in 0 .. written' /\ Answering(toHost', heard', base)
         /\ InOrder(T, Under', base, written')
    BY <2>2, <2>4, <2>9, <2>10, UnderSame
  <2> QED BY <2>8, <2>11 DEF InFlight
<1>6. Sums(T, reserved')
  BY <1>3, <1>4
<1> QED BY <1>5, <1>6 DEF Count

(* Grbl.init is over: nothing is written, listed or under way. *)
LEMMA InitZeroCounts ==
  ASSUME NEW S, Shape, Handshake, Sound, Sums(S, reserved), InitZero, Sound'
  PROVE  Ledger(S)' /\ InFlight(S)'
<1>1. ~SetUp /\ srl = "zero" /\ srl' = "wait"
  BY DEF InitZero, SetUp, Initialising
<1>2. ~InsideStreaming
  BY DEF InitZero, Sound
<1>3. /\ Quiet /\ anim # "remove" /\ grblBfr = << >>
  BY <1>1, <1>2 DEF Handshake
<1>4. /\ bfrSize' = 0
      /\ UNCHANGED <<grblBfr, reservedMsg, anim, reserved, fwLine, rx, toGrbl,
                     toHost>>
  BY DEF InitZero, SrlSame
<1>5. anim \notin {"load", "store", "add", "write", "remove"}
  BY <1>2 DEF InsideStreaming
<1>6. written' = written /\ written \in 0 .. reserved /\ reserved \in Nat
  BY <1>4, Numbers DEF written
<1>7. /\ answered' = written /\ heard' = written
      /\ paid' = written /\ counted' = written
  <2>1. listed' = written /\ counted' = written
    BY <1>4, <1>5, <1>6 DEF listed, counted, One
  <2> HIDE DEF written, listed
  <2>2. answered' = written
    BY <1>3, <1>4, <1>6, <2>1, Empty DEF answered
  <2> HIDE DEF answered
  <2> QED BY <1>1, <1>6, <2>1, <2>2 DEF paid, heard, One
<1>8. Ledger(S)'
  <2>1. S[written] \in Nat
    BY <1>6 DEF Sums
  <2>2. S[counted'] - S[paid'] = 0
    BY <1>7, <2>1
  <2>3. Len(grblBfr') = 0 /\ answered' >= 0 /\ bfrSizeMx \in Nat
    BY <1>3, <1>4, <1>6, <1>7, Empty, Constants
  <2> HIDE DEF answered, counted, paid
  <2> QED BY <1>1, <1>4, <1>5, <2>2, <2>3 DEF Ledger
<1>9. Answering(toHost', heard', written)
  <2>1. toHost \in Messages /\ \A i \in 1 .. Len(toHost) : toHost[i] = Welcome
    BY <1>3, UnderIs DEF Quiet
  <2>2. written \in Nat
    BY <1>6
  <2> HIDE DEF written
  <2>3. Answering(toHost, written, written)
    BY <2>1, <2>2, AnswerNone
  <2> QED BY <2>3, <1>4, <1>7
<1>10. InOrder(S, Under', written, written')
  <2>1. fwLine = << >> /\ rx = << >> /\ toGrbl = << >>
    BY <1>3 DEF Quiet
  <2>2. Under' = << >>
    BY <2>1, <1>4, ConcatEmpty, Empty DEF Under
  <2> QED BY <2>2, Empty DEF InOrder
<1>11. written \in 0 .. written'
  BY <1>6
<1> QED BY <1>8, <1>9, <1>10, <1>11 DEF InFlight

LEMMA CountStep ==
  ASSUME Shape, Handshake, Count, NoOverrun, [Next]_vars
  PROVE  Count' /\ NoOverrun'
<1>1. CASE Reserve
  <2>1. NoOverrun'
    BY <1>1 DEF Reserve, NoOverrun
  <2> QED BY <1>1, <2>1, ReserveCounts
<1>2. CASE ~Reserve
  <2>1. PICK S : /\ Sums(S, reserved)
                 /\ Sound /\ SetUp => Ledger(S) /\ InFlight(S)
    BY DEF Count
  <2>2. reserved' = reserved
    BY <1>2 DEF Next, vars, Streaming, SerialEvent, StreamCheck, StreamLoad,
       StreamStore, StreamAdd, StreamWrite, StreamRemove, AnimSame, Connecting,
       Connect, ReadMessage, InitClearReserved, InitClearBfr, InitZero, AckLoad,
       AckStore, AckRemove, SrlSame, Receive, Boot, FwRead, FwExecute, Reset,
       FwSame
  <2>3. SUFFICES ASSUME Sound'
                 PROVE  ~overrun' /\ (SetUp' => Ledger(S)' /\ InFlight(S)')
    <3>1. Sums(S, reserved')
      BY <2>1, <2>2
    <3> QED BY <3>1 DEF Count, NoOverrun, Sound
  <2>4. Sound /\ ~overrun
    BY <2>3, SoundBefore DEF NoOverrun, Sound
  <2>5. CASE SetUp
    <3>1. Running(S)
      BY <2>1, <2>4, <2>5 DEF Running
    <3>2. CASE Receive
      BY <3>1, <3>2, <2>4, ReceiveCounts
    <3>3. CASE ~Receive
      <4>1. overrun' = overrun
        BY <1>2, <3>3 DEF Next, vars, Streaming, SerialEvent, StreamCheck,
           StreamLoad, StreamStore, StreamAdd, StreamWrite, StreamRemove,
           AnimSame, Connecting, Connect, ReadMessage, InitClearReserved,
           InitClearBfr, InitZero, AckLoad, AckStore, AckRemove, SrlSame, Boot,
           FwRead, FwExecute, Reset, FwSame
      <4> SUFFICES Ledger(S)' /\ InFlight(S)'
        BY <2>4, <4>1
      <4>2. CASE Streaming
        BY <2>3, <3>1, <4>2, StreamCheckCounts, StreamLoadCounts,
           StreamStoreCounts, StreamAddCounts, StreamWriteCounts,
           StreamRemoveCounts DEF Streaming
      <4>3. CASE Connecting
        BY <3>1, <4>3, ConnectingCounts
      <4>4. CASE Connect
        BY <3>1, <4>4, ConnectCounts
      <4>5. CASE SerialEvent
        <5>1. ~(InitClearReserved \/ InitClearBfr \/ InitZero)
          BY <2>5 DEF InitClearReserved, InitClearBfr, InitZero, SetUp,
             Initialising
        <5> QED BY <2>3, <3>1, <4>5, <5>1, ReadMessageCounts, AckLoadCounts,
                   AckStoreCounts, AckRemoveCounts DEF SerialEvent
      <4>6. CASE Boot
        BY <3>1, <4>6, BootCounts
      <4>7. CASE FwRead
        BY <3>1, <4>7, FwReadCounts
      <4>8. CASE FwExecute
        BY <3>1, <4>8, FwExecuteCounts
      <4>9. CASE Reset
        BY <3>1, <4>9, ResetCounts
      <4>10. CASE UNCHANGED vars
        <5>1. UNCHANGED <<bfrSize, grblBfr, reservedMsg, anim, srl, reserved,
                          fwLine, rx, toGrbl, toHost>>
          BY <4>10 DEF vars
        <5>2. Ledger(S)' /\ written' = written /\ heard' = heard
          BY <3>1, <5>1, LedgerSame DEF Running
        <5> QED BY <3>1, <5>1, <5>2, InFlightSame, UnderSame DEF Running
      <4> QED BY <1>2, <3>3, <4>2, <4>3, <4>4, <4>5, <4>6, <4>7, <4>8, <4>9,
                 <4>10 DEF Next
    <3> QED BY <3>2, <3>3
  <2>6. CASE ~SetUp
    <3>1. toGrbl = << >>
      BY <2>4, <2>6 DEF Handshake, Quiet
    <3>2. ~Receive
      BY <3>1 DEF Receive
    <3>3. overrun' = overrun
      BY <1>2, <3>2 DEF Next, vars, Streaming, SerialEvent, StreamCheck,
         StreamLoad, StreamStore, StreamAdd, StreamWrite, StreamRemove,
         AnimSame, Connecting, Connect, ReadMessage, InitClearReserved,
         InitClearBfr, InitZero, AckLoad, AckStore, AckRemove, SrlSame, Boot,
         FwRead, FwExecute, Reset, FwSame
    <3>4. CASE InitZero
      <4>1. Ledger(S)' /\ InFlight(S)'
        BY <2>1, <2>3, <2>4, <3>4, InitZeroCounts
      <4> QED BY <2>4, <3>3, <4>1
    <3>5. CASE ~InitZero
      <4>1. ~SetUp'
        BY <1>2, <2>6, <3>2, <3>5 DEF Next, vars, Streaming, SerialEvent,
           StreamCheck, StreamLoad, StreamStore, StreamAdd, StreamWrite,
           StreamRemove, AnimSame, Connecting, Connect, ReadMessage,
           InitClearReserved, InitClearBfr, AckLoad, AckStore, AckRemove,
           SrlSame, Boot, FwRead, FwExecute, Reset, FwSame, SetUp, Initialising
      <4> QED BY <2>4, <3>3, <4>1
    <3> QED BY <3>4, <3>5
  <2> QED BY <2>5, <2>6
<1> QED BY <1>1, <1>2

LEMMA InitCount == Init => Count /\ NoOverrun
<1> SUFFICES ASSUME Init PROVE Count /\ NoOverrun
  OBVIOUS
<1>1. NoOverrun
  BY DEF Init, NoOverrun
<1>2. ~SetUp /\ reserved = 0
  BY DEF Init, SetUp
<1>3. Sums([i \in 0 .. 0 |-> 0], 0)
  BY DEF Sums
<1> QED BY <1>1, <1>2, <1>3 DEF Count

StreamInv == Shape /\ Handshake /\ Count /\ NoOverrun

(* What both threads, the link and the firmware keep true together: see the
   parts above.  (Grbl.java, SerialComm.java, serial.c) *)
THEOREM StreamInductiveInvariant == Spec => []StreamInv
<1>1. Init => StreamInv
  BY InitShape, InitHandshake, InitCount DEF StreamInv
<1>2. StreamInv /\ [Next]_vars => StreamInv'
  BY ShapeStep, HandshakeStep, CountStep DEF StreamInv
<1> QED BY <1>1, <1>2, PTL DEF Spec

(* Every variable of the stream keeps its type; the receive ring never holds
   more than it has room for. *)
THEOREM StreamTypeCorrect == Spec => []TypeOK
<1>1. StreamInv => TypeOK
  BY Types DEF StreamInv
<1> QED BY <1>1, StreamInductiveInvariant, PTL

(* Character counting keeps its promise for all lines, budgets and rings:
   whatever the delays of the link, of the answers and of the firmware, and
   across restarts of the board, the receive ring drops no byte unless the
   count was torn or a line met the setting up of the connection.
   (Grbl.streaming, Grbl.read, serial.c ISR(SERIAL_RX)) *)
THEOREM RingNeverOverruns == Spec => []NoOverrun
<1>1. StreamInv => NoOverrun
  BY DEF StreamInv
<1> QED BY <1>1, StreamInductiveInvariant, PTL

-----------------------------------------------------------------------------
(* Without an accident the bytes under way are the characters of the lines  *)
(* behind those answered, one after the other, and each answer is for the   *)
(* next line.                                                               *)

Calm == ~Accident /\ ~overrun

NextByte(b) == IF IsEol(b) THEN <<b[1] + 1, 1>> ELSE <<b[1], b[2] + 1>>

(* F is all of the lines from "from" to "to", from their first character. *)
AllOf(F, from, to) ==
  /\ F = << >> => from = to + 1
  /\ F # << >> => F[1] = <<from, 1>> /\ F[Len(F)] = <<to, LineLen[to]>>
  /\ \A j \in 1 .. Len(F) - 1 : F[j + 1] = NextByte(F[j])

replied == heard + Len(toHost)

InStep ==
  /\ \A i \in 1 .. Len(toHost) : toHost[i] = heard + i
  /\ heard # answered => srlAck = heard
  /\ \A j \in 1 .. Len(fwLine) : fwLine[j] = <<replied + 1, j>>
  /\ AllOf(Under, replied + 1, written)

Match ==
  Calm =>
    /\ ~isConnected => \/ fw = "off" /\ toHost = << >>
                       \/ fw # "off" /\ toHost = <<Welcome>>
    /\ isConnected => /\ fw # "off"
                      /\ \A i \in 1 .. Len(toHost) : toHost[i] # Welcome
    /\ SetUp => InStep

LEMMA CalmBefore == ASSUME [Next]_vars, Calm' PROVE Calm
<1>1. Sound'
  BY DEF Calm, Accident, Sound
<1>2. Sound
  BY <1>1, SoundBefore
<1>3. ~rebooted
  <2>1. ~rebooted'
    BY DEF Calm, Accident
  <2>2. CASE Connect \/ Reset
    BY <2>1, <2>2 DEF Connect, Reset, Restart
  <2>3. CASE ~(Connect \/ Reset)
    <3>1. rebooted' = rebooted
      BY <2>3 DEF Next, vars, Streaming, SerialEvent, StreamCheck,
         StreamLoad, StreamStore, StreamAdd, StreamWrite, StreamRemove,
         AnimSame, Connecting, Reserve, ReadMessage, InitClearReserved,
         InitClearBfr, InitZero, AckLoad, AckStore, AckRemove, SrlSame, Receive,
         Boot, FwRead, FwExecute
    <3> QED BY <2>1, <3>1
  <2> QED BY <2>2, <2>3
<1>4. ~overrun /\ ~deafened
  <2>1. ~overrun' /\ ~deafened'
    BY DEF Calm, Accident
  <2>2. CASE Receive
    BY <2>1, <2>2 DEF Receive
  <2>3. CASE ~Receive
    BY <2>1, <2>3 DEF Next, vars, Streaming, SerialEvent, StreamCheck,
       StreamLoad, StreamStore, StreamAdd, StreamWrite, StreamRemove, AnimSame,
       Connecting, Connect, Reserve, ReadMessage, InitClearReserved,
       InitClearBfr, InitZero, AckLoad, AckStore, AckRemove, SrlSame,
       Boot, FwRead, FwExecute, Reset
  <2> QED BY <2>2, <2>3
<1> QED BY <1>2, <1>3, <1>4 DEF Calm, Accident, Sound

LEMMA InitMatch == Init => Match
BY Empty DEF Init, Match, SetUp

(* Many steps do not move a line from one thread or side to the next. *)
LEMMA InStepSame ==
  ASSUME InStep, UNCHANGED <<fwLine, toHost, srlAck>>, Under' = Under,
         written' = written, heard' = heard, answered' = answered
  PROVE  InStep'
<1>1. replied' = replied
  BY DEF replied
<1> QED BY <1>1 DEF InStep

(* The whole of a line is added. *)
LEMMA WriteAll ==
  ASSUME NEW F \in Seq(Byte), NEW from, NEW to \in Nat, to + 1 \in Lines,
         AllOf(F, from, to)
  PROVE  AllOf(F \o BytesOf(to + 1), from, to + 1)
<1> DEFINE l == to + 1
           B == BytesOf(l)
           G == F \o B
           f == Len(F)
<1>1. /\ B \in Seq(Byte) /\ Len(B) = LineLen[l] /\ LineLen[l] \in Nat \ {0}
      /\ \A k \in 1 .. LineLen[l] : B[k] = <<l, k>>
  BY Bytes, Constants
<1> HIDE DEF B
<1>2. /\ G \in Seq(Byte) /\ Len(G) = f + LineLen[l] /\ f \in Nat
      /\ \A i \in 1 .. f : G[i] = F[i]
      /\ \A i \in 1 .. LineLen[l] : G[f + i] = <<l, i>>
  <2>1. /\ G \in Seq(Byte) /\ Len(G) = f + Len(B) /\ f \in Nat
        /\ \A i \in 1 .. f : G[i] = F[i]
        /\ \A i \in 1 .. Len(B) : G[f + i] = B[i]
    BY <1>1, Concatenation
  <2> QED BY <2>1, <1>1
<1>3. G # << >> /\ 1 \in 1 .. LineLen[l] /\ LineLen[l] \in 1 .. LineLen[l]
  BY <1>1, <1>2
<1>4. G[Len(G)] = <<l, LineLen[l]>>
  BY <1>2, <1>3
<1>5. G[1] = <<from, 1>>
  <2>1. CASE F = << >>
    <3>1. f = 0 /\ from = l
      BY <2>1 DEF AllOf
    <3>2. f + 1 = 1
      BY <3>1
    <3> QED BY <3>1, <3>2, <1>2, <1>3
  <2>2. CASE F # << >>
    <3>1. 1 \in 1 .. f /\ F[1] = <<from, 1>>
      BY <2>2, <1>2 DEF AllOf
    <3> QED BY <3>1, <1>2
  <2> QED BY <2>1, <2>2
<1> HIDE DEF G
<1>6. ASSUME NEW j \in 1 .. Len(G) - 1
      PROVE  G[j + 1] = NextByte(G[j])
  <2>1. CASE j < f
    <3>1. j \in 1 .. f - 1 /\ j \in 1 .. f /\ j + 1 \in 1 .. f
      BY <1>2, <2>1
    <3>2. F[j + 1] = NextByte(F[j])
      BY <3>1 DEF AllOf
    <3> QED BY <3>1, <3>2, <1>2
  <2>2. CASE j = f
    <3>1. F # << >> /\ f \in 1 .. f
      BY <1>2, <2>2
    <3>2. F[f] = <<to, LineLen[to]>>
      BY <3>1 DEF AllOf
    <3>3. NextByte(F[f]) = <<l, 1>>
      BY <3>2 DEF NextByte, IsEol
    <3>4. G[f] = F[f] /\ G[f + 1] = <<l, 1>>
      BY <1>2, <1>3, <3>1
    <3> QED BY <2>2, <3>3, <3>4
  <2>3. CASE j > f
    <3> DEFINE k == j - f
    <3>1. k \in 1 .. LineLen[l] /\ k + 1 \in 1 .. LineLen[l] /\ k # LineLen[l]
          /\ f + k = j /\ f + (k + 1) = j + 1
      BY SMTT(30), <1>1, <1>2, <2>3
    <3> HIDE DEF k
    <3>2. G[j] = <<l, k>> /\ G[j + 1] = <<l, k + 1>>
      BY <1>2, <3>1
    <3>3. NextByte(<<l, k>>) = <<l, k + 1>>
      BY <3>1 DEF NextByte, IsEol
    <3> QED BY <3>2, <3>3
  <2> QED BY <2>1, <2>2, <2>3, <1>2
<1>7. AllOf(G, from, l)
  <2> HIDE DEF l, f
  <2> QED BY <1>3, <1>4, <1>5, <1>6, <1>2 DEF AllOf
<1> QED BY <1>7 DEF G, B, l

(* Running, and without an accident. *)
InCalm(S) == Running(S) /\ InStep

LEMMA ReadMessageInStep ==
  ASSUME NEW S, InCalm(S), ReadMessage PROVE InStep'
<1>1. /\ toHost # << >> /\ toHost' = Tail(toHost) /\ srl = "wait" /\ isConnected
      /\ UNCHANGED <<grblBfr, reservedMsg, anim, reserved, fwLine, rx, toGrbl>>
  BY DEF ReadMessage, InCalm, Running, SetUp
<1>2. /\ Head(toHost) = toHost[1] /\ Len(toHost) \in Nat \ {0}
      /\ Len(Tail(toHost)) = Len(toHost) - 1
      /\ \A i \in 1 .. Len(toHost) - 1 : Tail(toHost)[i] = toHost[i + 1]
  <2>1. toHost \in Messages
    BY UnderIs DEF InCalm, Running
  <2> QED BY <1>1, <2>1, Tails DEF Messages
<1>3. heard = answered /\ heard \in Nat
  <2>1. answered \in Nat
    BY RunningNumbers DEF InCalm
  <2> HIDE DEF answered
  <2> QED BY <1>1, <2>1 DEF heard, One
<1>4. Head(toHost) = heard + 1 /\ Head(toHost) # Welcome
  <2>1. toHost[1] = heard + 1
    BY <1>2 DEF InCalm, InStep
  <2> HIDE DEF heard
  <2> QED BY <1>2, <1>3, <2>1 DEF Welcome
<1>5. srl' = "load" /\ srlAck' = heard + 1
  BY <1>1, <1>4 DEF ReadMessage, IsAnswer
<1>6. written' = written /\ answered' = answered /\ heard' = heard + 1
  <2>1. written' = written /\ answered' = answered
    BY <1>1 DEF written, listed, answered, One
  <2> HIDE DEF answered
  <2> QED BY <1>1, <1>3, <1>5, <2>1 DEF heard, One
<1>7. replied' = replied
  <2> HIDE DEF heard
  <2> QED BY <1>1, <1>2, <1>3, <1>6 DEF replied
<1>8. \A i \in 1 .. Len(toHost') : toHost'[i] = heard' + i
  <2> SUFFICES ASSUME NEW i \in 1 .. Len(toHost')
               PROVE  toHost'[i] = heard' + i
    OBVIOUS
  <2>1. i \in 1 .. Len(toHost) - 1 /\ i + 1 \in 1 .. Len(toHost)
    BY <1>1, <1>2
  <2>2. toHost'[i] = toHost[i + 1] /\ toHost[i + 1] = heard + (i + 1)
    BY <1>1, <1>2, <2>1 DEF InCalm, InStep
  <2> HIDE DEF heard
  <2> QED BY <1>3, <1>6, <2>1, <2>2
<1>9. Under' = Under
  BY <1>1, UnderSame
<1>10. srlAck' = heard'
  BY <1>5, <1>6
<1> QED BY <1>1, <1>6, <1>7, <1>8, <1>9, <1>10 DEF InCalm, InStep

LEMMA StreamWriteInStep ==
  ASSUME NEW S, InCalm(S), StreamWrite PROVE InStep'
<1>0. reservedMsg # << >> /\ anim = "write" /\ opens # 0
  BY DEF StreamWrite, InCalm, Running, Handshake, InsideStreaming, Shape,
         PortFits, SetUp
<1>1. /\ toGrbl' = toGrbl \o BytesOf(Head(reservedMsg)) /\ anim' = "remove"
      /\ UNCHANGED <<grblBfr, reservedMsg, srl, srlAck, reserved, toHost,
                     fwLine, rx>>
  BY <1>0 DEF StreamWrite
<1>2. Head(reservedMsg) = written + 1 /\ written \in Nat /\ written + 1 \in Lines
  BY <1>0, NextLine DEF InCalm, Running
<1>3. written' = written + 1 /\ answered' = answered /\ heard' = heard
  <2>1. written' = written + 1
    <3>1. reserved \in Nat /\ Len(reservedMsg) \in Nat
      BY DEF InCalm, Running, Shape, Data
    <3> QED BY <1>0, <1>1, <3>1 DEF written, One
  <2> HIDE DEF written
  <2>2. listed' = listed
    BY <1>0, <1>1, <1>2, <2>1 DEF listed, One
  <2> QED BY <1>1, <2>1, <2>2 DEF answered, heard
<1>4. Under' = Under \o BytesOf(written + 1)
  <2>1. /\ fwLine \in Seq(Byte) /\ rx \in Seq(Byte) /\ toGrbl \in Seq(Byte)
    BY UnderIs DEF InCalm, Running
  <2>2. BytesOf(written + 1) \in Seq(Byte)
    BY <1>2, Bytes
  <2>3. fwLine \o rx \in Seq(Byte)
    BY <2>1, Concatenation
  <2>5. (fwLine \o rx) \o (toGrbl \o BytesOf(written + 1))
          = ((fwLine \o rx) \o toGrbl) \o BytesOf(written + 1)
    BY <2>1, <2>2, <2>3, Regroup
  <2> QED BY <1>1, <1>2, <2>5 DEF Under
<1>5. replied' = replied
  BY <1>1, <1>3 DEF replied
<1>6. AllOf(Under', replied + 1, written + 1)
  <2>1. Under \in Seq(Byte) /\ AllOf(Under, replied + 1, written)
    BY UnderIs DEF InCalm, Running, InStep
  <2> HIDE DEF Under, written, replied
  <2> QED BY <1>2, <1>4, <2>1, WriteAll
<1>7. AllOf(Under', replied' + 1, written')
  BY <1>3, <1>5, <1>6
<1> QED BY <1>1, <1>3, <1>5, <1>7 DEF InCalm, InStep

(* A byte is stored: nothing is lost. *)
LEMMA ReceiveInStep ==
  ASSUME NEW S, InCalm(S), Receive, fw # "off", ~deafened', ~overrun'
  PROVE  InStep'
<1>1. /\ toGrbl # << >> /\ toGrbl' = Tail(toGrbl)
      /\ rx' = Append(rx, Head(toGrbl))
      /\ UNCHANGED <<fwLine, toHost, srlAck, grblBfr, reservedMsg, anim, srl,
                     reserved>>
  BY DEF Receive, FwSame
<1>2. Under' = Under
  <2>1. fwLine \in Seq(Byte) /\ rx \in Seq(Byte) /\ toGrbl \in Seq(Byte)
    BY UnderIs DEF InCalm, Running
  <2>2. fwLine \o rx \in Seq(Byte)
    BY <2>1, Concatenation
  <2>3. fwLine \o Append(rx, Head(toGrbl)) = Append(fwLine \o rx, Head(toGrbl))
    <3>1. Head(toGrbl) \in Byte
      BY <1>1, <2>1, Tails
    <3> QED BY <2>1, <3>1, AppendLast
  <2>4. \A a \in Seq(Byte) :
          Append(a, Head(toGrbl)) \o Tail(toGrbl) = a \o toGrbl
    BY <1>1, <2>1, TakeOne
  <2>5. Append(fwLine \o rx, Head(toGrbl)) \o Tail(toGrbl)
          = (fwLine \o rx) \o toGrbl
    BY <2>2, <2>4
  <2> QED BY <1>1, <2>3, <2>5 DEF Under
<1>3. written' = written /\ heard' = heard /\ answered' = answered
  BY <1>1 DEF written, listed, answered, heard, One
<1> QED BY <1>1, <1>2, <1>3, InStepSame DEF InCalm

LEMMA FwReadInStep ==
  ASSUME NEW S, InCalm(S), FwRead PROVE InStep'
<1> DEFINE k == Len(fwLine)
<1>1. /\ fwLine' = Append(fwLine, Head(rx)) /\ rx' = Tail(rx) /\ rx # << >>
      /\ fw = "read"
      /\ UNCHANGED <<toGrbl, toHost, srlAck, grblBfr, reservedMsg, anim, srl,
                     reserved>>
  BY DEF FwRead, FwSame
<1>2. /\ fwLine \in Seq(Byte) /\ rx \in Seq(Byte) /\ k \in Nat
      /\ Len(Under) = k + Len(rx) + Len(toGrbl) /\ Len(toGrbl) \in Nat
      /\ \A i \in 1 .. k : Under[i] = fwLine[i]
      /\ \A i \in 1 .. Len(rx) : Under[k + i] = rx[i]
      /\ Under \in Seq(Byte)
  BY UnderIs DEF InCalm, Running
<1>3. /\ Head(rx) = rx[1] /\ Len(rx) \in Nat \ {0}
      /\ Len(fwLine') = k + 1 /\ fwLine'[k + 1] = Head(rx)
      /\ \A i \in 1 .. k : fwLine'[i] = fwLine[i]
  <2>1. Head(rx) = rx[1] /\ Len(rx) \in Nat \ {0} /\ Head(rx) \in Byte
    BY <1>1, <1>2, Tails
  <2> QED BY <1>1, <1>2, <2>1, Appends
<1>4. Under' = Under
  <2>1. Append(fwLine, Head(rx)) \o Tail(rx) = fwLine \o rx
    BY <1>1, <1>2, TakeOne
  <2> QED BY <1>1, <2>1 DEF Under
<1>5. written' = written /\ heard' = heard /\ answered' = answered
  BY <1>1 DEF written, listed, answered, heard, One
<1>6. replied' = replied /\ replied \in Int
  <2>1. replied' = replied
    BY <1>1, <1>5 DEF replied
  <2>2. heard \in Nat /\ Len(toHost) \in Nat
    BY RunningNumbers, UnderIs DEF InCalm, Running, Messages
  <2> HIDE DEF heard
  <2> QED BY <2>1, <2>2 DEF replied
<1>7. fwLine'[k + 1] = <<replied + 1, k + 1>>
  <2>1. Under[k + 1] = Head(rx) /\ Under # << >>
    BY <1>2, <1>3, Empty
  <2>2. CASE k = 0
    <3>1. Under[1] = <<replied + 1, 1>>
      BY <2>1 DEF InCalm, InStep, AllOf
    <3>2. k + 1 = 1
      BY <2>2
    <3> QED BY <1>3, <2>1, <3>1, <3>2
  <2>3. CASE k # 0
    <3>1. k \in 1 .. k /\ k \in 1 .. Len(Under) - 1
      BY <1>2, <1>3, <2>3
    <3>2. Under[k + 1] = NextByte(Under[k])
      BY <3>1 DEF InCalm, InStep, AllOf
    <3>3. Under[k] = fwLine[k] /\ fwLine[k] = <<replied + 1, k>>
      BY <1>2, <3>1 DEF InCalm, InStep
    <3>4. ~IsEol(fwLine[k])
      BY <1>1, <3>1 DEF InCalm, Running, Shape, FirmwareFits
    <3>5. NextByte(fwLine[k]) = <<replied + 1, k + 1>>
      BY <3>3, <3>4 DEF NextByte
    <3> QED BY <1>3, <2>1, <3>2, <3>3, <3>5
  <2> QED BY <2>2, <2>3
<1>8. \A j \in 1 .. Len(fwLine') : fwLine'[j] = <<replied' + 1, j>>
  <2> SUFFICES ASSUME NEW j \in 1 .. Len(fwLine')
               PROVE  fwLine'[j] = <<replied + 1, j>>
    BY <1>6
  <2>1. CASE j = k + 1
    BY <1>7, <2>1
  <2>2. CASE j # k + 1
    <3>1. j \in 1 .. k
      BY <1>2, <1>3, <2>2
    <3> QED BY <3>1, <1>3 DEF InCalm, InStep
  <2> QED BY <2>1, <2>2
<1> QED BY <1>1, <1>4, <1>5, <1>6, <1>8 DEF InCalm, InStep

LEMMA FwExecuteInStep ==
  ASSUME NEW S, InCalm(S), FwExecute PROVE InStep'
<1> DEFINE l == Last(fwLine)[1]
           k == Len(fwLine)
           G == rx \o toGrbl
           b == replied
<1>1. /\ toHost' = Append(toHost, l) /\ fwLine' = << >>
      /\ UNCHANGED <<rx, toGrbl, srlAck, grblBfr, reservedMsg, anim, srl,
                     reserved>>
  BY DEF FwExecute, FwSame
<1>2. /\ fwLine \in Seq(Byte) /\ rx \in Seq(Byte) /\ toGrbl \in Seq(Byte)
      /\ toHost \in Messages /\ Under \in Seq(Byte)
      /\ \A i \in 1 .. k : Under[i] = fwLine[i]
      /\ G \in Seq(Byte) /\ k \in Nat
  BY UnderIs, Concatenation DEF InCalm, Running
<1>3. fwLine # << >> /\ IsEol(fwLine[k]) /\ k \in 1 .. k
      /\ Last(fwLine) = fwLine[k] /\ fwLine[k] \in Byte /\ l \in Lines
  <2>1. fwLine # << >> /\ IsEol(fwLine[k])
    BY DEF FwExecute, InCalm, Running, Shape, FirmwareFits
  <2>2. k \in 1 .. k /\ Last(fwLine) = fwLine[k]
    BY <2>1, <1>2 DEF Last
  <2>3. fwLine[k] \in Byte
    BY <2>2, <1>2
  <2> QED BY <2>1, <2>2, <2>3 DEF Byte
<1>4. fwLine[k] = <<b + 1, k>> /\ l = b + 1
  <2>1. fwLine[k] = <<b + 1, k>>
    BY <1>3 DEF InCalm, InStep
  <2> QED BY <2>1, <1>3
<1>5. Under = fwLine \o G
  <2>1. fwLine \o (rx \o toGrbl) = (fwLine \o rx) \o toGrbl
    <3>1. fwLine \in Seq(Byte) /\ rx \in Seq(Byte) /\ toGrbl \in Seq(Byte)
      BY <1>2
    <3> QED BY <3>1, Regroup, Zenon
  <2> QED BY <2>1 DEF Under
<1>6. Under' = G
  <2>1. << >> \o rx = rx
    BY <1>2, ConcatEmpty
  <2> QED BY <1>1, <2>1 DEF Under
<1>7. written' = written /\ heard' = heard /\ answered' = answered
  BY <1>1 DEF written, listed, answered, heard, One
<1>8. /\ Len(toHost') = Len(toHost) + 1 /\ Len(toHost) \in Nat
      /\ \A i \in 1 .. Len(toHost) : toHost'[i] = toHost[i]
      /\ toHost'[Len(toHost) + 1] = b + 1
  <2>1. l \in {Welcome} \cup Lines
    BY <1>3
  <2> HIDE DEF l, b
  <2> QED BY <1>1, <1>2, <1>4, <2>1, Appends DEF Messages
<1>9. heard \in Nat /\ b = heard + Len(toHost) /\ b \in Nat
  <2>1. heard \in Nat
    BY RunningNumbers DEF InCalm
  <2> HIDE DEF heard
  <2> QED BY <2>1, <1>8 DEF replied
<1>10. replied' = b + 1
  <2>1. replied' = heard + (Len(toHost) + 1)
    BY <1>7, <1>8 DEF replied
  <2> HIDE DEF heard, replied
  <2> QED BY <2>1, <1>8, <1>9
<1>11. \A i \in 1 .. Len(toHost') : toHost'[i] = heard' + i
  <2> SUFFICES ASSUME NEW i \in 1 .. Len(toHost')
               PROVE  toHost'[i] = heard + i
    BY <1>7
  <2>1. CASE i = Len(toHost) + 1
    <3>1. heard + i = b + 1
      <4> HIDE DEF heard, replied
      <4> QED BY <1>8, <1>9, <2>1
    <3> QED BY <1>8, <2>1, <3>1
  <2>2. CASE i # Len(toHost) + 1
    <3>1. i \in 1 .. Len(toHost)
      BY <1>8, <2>2
    <3> QED BY <3>1, <1>8 DEF InCalm, InStep
  <2> QED BY <2>1, <2>2
<1>12. AllOf(G, b + 2, written)
  <2>1. /\ Len(G) = Len(Under) - k /\ k \in 0 .. Len(Under)
        /\ \A j \in 1 .. Len(G) : G[j] = Under[k + j]
    <3> HIDE DEF Under, G
    <3> QED BY SMTT(30), <1>2, <1>5, Behind
  <2>2. /\ Len(G) \in Nat /\ Len(Under) \in Nat /\ k \in Nat \ {0}
        /\ Under[k] = <<b + 1, k>> /\ IsEol(Under[k])
    <3>1. Len(G) \in Nat /\ Len(Under) \in Nat
      <4> HIDE DEF G, Under
      <4> QED BY <1>2
    <3>2. k \in Nat \ {0}
      BY <1>2, <1>3
    <3>3. Under[k] = fwLine[k]
      BY <1>2, <1>3
    <3> QED BY <3>1, <3>2, <3>3, <1>3, <1>4
  <2>3. /\ Under # << >> => Under[Len(Under)] = <<written, LineLen[written]>>
        /\ \A j \in 1 .. Len(Under) - 1 : Under[j + 1] = NextByte(Under[j])
    BY DEF InCalm, InStep, AllOf
  <2>4. ASSUME G = << >> PROVE b + 2 = written + 1
    <3>1. Len(Under) = k /\ Under # << >>
      BY <2>1, <2>2, <2>4, Empty
    <3>2. <<written, LineLen[written]>> = <<b + 1, k>>
      BY <2>2, <2>3, <3>1
    <3>3. written = b + 1
      BY <3>2
    <3> HIDE DEF written, b
    <3> QED BY <1>9, <3>3
  <2>5. ASSUME G # << >>
        PROVE  G[1] = <<b + 2, 1>> /\ G[Len(G)] = <<written, LineLen[written]>>
    <3>1. /\ 1 \in 1 .. Len(G) /\ Len(G) \in 1 .. Len(G)
          /\ k \in 1 .. Len(Under) - 1 /\ k + Len(G) = Len(Under)
          /\ Under # << >>
      BY <1>2, <2>1, <2>2, <2>5, Empty
    <3>2. G[1] = Under[k + 1] /\ G[Len(G)] = Under[Len(Under)]
      BY <2>1, <3>1
    <3>3. Under[k + 1] = NextByte(Under[k])
      BY <2>3, <3>1
    <3>4. NextByte(Under[k]) = <<(b + 1) + 1, 1>>
      BY <2>2 DEF NextByte
    <3>5. (b + 1) + 1 = b + 2
      <4> HIDE DEF b
      <4> QED BY <1>9
    <3> QED BY <2>3, <3>1, <3>2, <3>3, <3>4, <3>5
  <2>6. ASSUME NEW j \in 1 .. Len(G) - 1 PROVE G[j + 1] = NextByte(G[j])
    <3>1. /\ j \in 1 .. Len(G) /\ j + 1 \in 1 .. Len(G)
          /\ k + j \in 1 .. Len(Under) - 1 /\ k + (j + 1) = (k + j) + 1
      BY <2>1, <2>2
    <3>2. G[j] = Under[k + j] /\ G[j + 1] = Under[(k + j) + 1]
      BY <2>1, <3>1
    <3> QED BY <2>3, <3>1, <3>2
  <2> HIDE DEF G, b, written
  <2> QED BY <2>4, <2>5, <2>6 DEF AllOf
<1>13. AllOf(Under', replied' + 1, written')
  <2>1. (b + 1) + 1 = b + 2
    <3> HIDE DEF b
    <3> QED BY <1>9
  <2> QED BY <1>6, <1>7, <1>10, <1>12, <2>1
<1>14. \A j \in 1 .. Len(fwLine') : fwLine'[j] = <<replied' + 1, j>>
  BY <1>1, Empty
<1>15. heard' # answered' => srlAck' = heard'
  BY <1>1, <1>7 DEF InCalm, InStep
<1> QED BY <1>11, <1>13, <1>14, <1>15 DEF InStep

(* Steps of the host that write nothing and take no answer. *)
HostStep == \/ Reserve \/ StreamCheck \/ StreamLoad \/ StreamStore \/ StreamAdd
            \/ StreamRemove \/ AckLoad \/ AckStore \/ AckRemove

LEMMA HostStepInStep ==
  ASSUME NEW S, InCalm(S), HostStep PROVE InStep'
<1>0. Running(S)
  BY DEF InCalm
<1>1. UNCHANGED <<fwLine, rx, toGrbl, toHost>>
  BY DEF HostStep, Reserve, StreamCheck, StreamLoad, StreamStore, StreamAdd,
     StreamRemove, AnimSame, AckLoad, AckStore, AckRemove, SrlSame
<1>2. Under' = Under
  BY <1>1, UnderSame
<1>3. CASE AckRemove
  <2>1. written' = written /\ heard' = heard /\ heard' = answered'
    BY <1>0, <1>3, AckRemoveMoves
  <2>2. replied' = replied
    BY <1>1, <2>1 DEF replied
  <2> QED BY <1>1, <1>2, <2>1, <2>2 DEF InCalm, InStep
<1>4. CASE ~AckRemove
  <2>1. srlAck' = srlAck
    BY <1>4 DEF HostStep, Reserve, StreamCheck, StreamLoad, StreamStore,
       StreamAdd, StreamRemove, AnimSame, AckLoad, AckStore, SrlSame
  <2>2. written' = written /\ heard' = heard /\ answered' = answered
    <3>1. CASE Reserve
      BY <1>0, <3>1, ReserveMoves DEF Running
    <3>2. CASE StreamAdd
      BY <1>0, <3>2, StreamAddMoves
    <3>3. CASE StreamRemove
      BY <1>0, <3>3, StreamRemoveMoves
    <3>4. CASE StreamCheck \/ StreamLoad \/ StreamStore
      <4>1. /\ anim \in {"frame", "load", "store"}
            /\ anim' \in {"load", "store", "add", "dead"}
            /\ UNCHANGED <<grblBfr, reservedMsg, srl, reserved>>
        BY <3>4 DEF StreamCheck, StreamLoad, StreamStore, AnimSame
      <4> QED BY <4>1 DEF written, listed, answered, heard, One
    <3>5. CASE AckLoad
      <4>1. /\ srl = "load" /\ srl' \in {"store", "disabled"}
            /\ UNCHANGED <<grblBfr, reservedMsg, anim, reserved>>
        BY <3>5 DEF AckLoad, SrlSame
      <4>2. srl' # "disabled"
        BY <1>0, <3>5, AckLoadCounts DEF Ledger
      <4> QED BY <4>1, <4>2 DEF written, listed, answered, heard, One
    <3>6. CASE AckStore
      <4>1. /\ srl = "store" /\ srl' = "remove"
            /\ UNCHANGED <<grblBfr, reservedMsg, anim, reserved>>
        BY <3>6 DEF AckStore, SrlSame
      <4> QED BY <4>1 DEF written, listed, answered, heard, One
    <3> QED BY <1>4, <3>1, <3>2, <3>3, <3>4, <3>5, <3>6 DEF HostStep
  <2> QED BY <1>1, <1>2, <2>1, <2>2, InStepSame DEF InCalm
<1> QED BY <1>3, <1>4

LEMMA InitZeroInStep ==
  ASSUME Shape, Handshake, Sound, InitZero, Sound', toHost = << >>
  PROVE  InStep'
<1>1. ~SetUp /\ srl = "zero" /\ srl' = "wait"
  BY DEF InitZero, SetUp, Initialising
<1>2. ~InsideStreaming
  BY DEF InitZero, Sound
<1>3. Quiet /\ grblBfr = << >>
  BY <1>1, <1>2 DEF Handshake
<1>4. UNCHANGED <<grblBfr, reservedMsg, anim, reserved, fwLine, rx, toGrbl,
                  toHost>>
  BY DEF InitZero, SrlSame
<1>5. written' = written /\ written \in Nat
  BY <1>4, Numbers DEF written
<1>6. answered' = written /\ heard' = written
  <2>1. listed' = written
    BY <1>2, <1>4, <1>5 DEF listed, One, InsideStreaming
  <2> HIDE DEF written, listed
  <2>2. answered' = written
    BY <1>3, <1>4, <1>5, <2>1, Empty DEF answered
  <2> HIDE DEF answered
  <2> QED BY <1>1, <1>5, <2>2 DEF heard, One
<1>7. replied' = written
  <2> HIDE DEF written, heard
  <2> QED BY <1>4, <1>5, <1>6, Empty DEF replied
<1>8. fwLine' = << >> /\ Under' = << >>
  BY <1>3, <1>4, ConcatEmpty, Empty DEF Quiet, Under
<1> HIDE DEF written, heard, answered, replied, Under
<1> QED BY <1>4, <1>5, <1>6, <1>7, <1>8, Empty DEF InStep, AllOf

LEMMA MatchStep ==
  ASSUME StreamInv, Match, [Next]_vars PROVE Match'
<1> SUFFICES ASSUME Calm'
             PROVE  /\ ~isConnected' => \/ fw' = "off" /\ toHost' = << >>
                                        \/ fw' # "off" /\ toHost' = <<Welcome>>
                    /\ isConnected' =>
                         /\ fw' # "off"
                         /\ \A i \in 1 .. Len(toHost') : toHost'[i] # Welcome
                    /\ SetUp' => InStep'
  BY DEF Match
<1>1. Calm /\ Sound /\ Sound'
  BY CalmBefore DEF Calm, Accident, Sound
<1>2. /\ ~isConnected => \/ fw = "off" /\ toHost = << >>
                         \/ fw # "off" /\ toHost = <<Welcome>>
      /\ isConnected => /\ fw # "off"
                        /\ \A i \in 1 .. Len(toHost) : toHost[i] # Welcome
      /\ SetUp => InStep
  BY <1>1 DEF Match
<1>3. Shape /\ Handshake /\ isConnected \in BOOLEAN
  BY DEF StreamInv, Shape, Flags
<1>4. ASSUME SetUp PROVE \E S : InCalm(S)
  BY <1>1, <1>2, <1>4 DEF StreamInv, Count, Running, InCalm
<1>5. ~SetUp => toGrbl = << >> /\ rx = << >> /\ fwLine = << >>
  BY <1>1, <1>3 DEF Handshake, Quiet
<1>6. CASE UNCHANGED <<isConnected, fw, toHost>>
  <2>1. SUFFICES ASSUME SetUp' PROVE InStep'
    BY <1>2, <1>6
  <2>2. CASE ~SetUp
    <3>1. InitZero
      <4>1. Initialising /\ ~Initialising'
        BY <1>6, <2>1, <2>2 DEF SetUp
      <4> QED BY <4>1 DEF Initialising, Next, vars, Streaming, SerialEvent,
                 Reserve, StreamCheck, StreamLoad, StreamStore, StreamAdd,
                 StreamWrite, StreamRemove, AnimSame, Connecting, Connect,
                 ReadMessage, InitClearReserved, InitClearBfr, AckLoad,
                 AckStore, AckRemove, SrlSame, Receive, Boot, FwRead,
                 FwExecute, Reset, FwSame
    <3>2. toHost = << >>
      <4>1. \A i \in 1 .. Len(toHost) : toHost[i] # Welcome /\ toHost[i] = Welcome
        BY <1>1, <1>2, <1>3, <1>6, <2>1, <2>2 DEF Handshake, Quiet, SetUp
      <4>2. toHost \in Messages
        BY <1>3, UnderIs
      <4>3. ~ \E i \in 1 .. Len(toHost) : TRUE
        BY <4>1
      <4>4. Len(toHost) \in Nat
        BY <4>2 DEF Messages
      <4>5. Len(toHost) = 0
        <5>1. 1 \notin 1 .. Len(toHost)
          BY <4>3
        <5> QED BY <4>4, <5>1
      <4> QED BY <4>2, <4>5, Empty DEF Messages
    <3> QED BY <1>1, <1>3, <3>1, <3>2, InitZeroInStep
  <2>3. CASE SetUp
    <3>1. PICK S : InCalm(S)
      BY <1>4, <2>3
    <3>2. fw # "off"
      BY <1>2, <2>3 DEF SetUp
    <3>3. CASE HostStep
      BY <3>1, <3>3, HostStepInStep
    <3>4. CASE StreamWrite
      BY <3>1, <3>4, StreamWriteInStep
    <3>5. CASE Receive
      <4>1. ~deafened' /\ ~overrun'
        BY DEF Calm, Accident
      <4> QED BY <3>1, <3>2, <3>5, <4>1, ReceiveInStep
    <3>6. CASE FwRead
      BY <3>1, <3>6, FwReadInStep
    <3>7. CASE ReadMessage
      BY <3>1, <3>7, ReadMessageInStep
    <3>8. CASE FwExecute
      BY <3>1, <3>8, FwExecuteInStep
    <3>9. CASE UNCHANGED vars
      <4>1. UNCHANGED <<fwLine, rx, toGrbl, toHost, srlAck, anim, srl,
                        reserved, reservedMsg, grblBfr>>
        BY <3>9 DEF vars
      <4>2. written' = written /\ heard' = heard /\ answered' = answered
        BY <4>1 DEF written, listed, answered, heard, One
      <4> QED BY <3>1, <4>1, <4>2, UnderSame, InStepSame DEF InCalm
    <3>10. ~(InitClearReserved \/ InitClearBfr \/ InitZero \/ Connecting \/ Boot)
      BY <2>3, <3>2 DEF InitClearReserved, InitClearBfr, InitZero, SetUp,
         Initialising, Connecting, Boot
    <3>11. ~(Connect \/ Reset)
      <4>1. ~rebooted' /\ isConnected
        BY <2>3 DEF Calm, Accident, SetUp
      <4> QED BY <4>1 DEF Connect, Reset, Restart
    <3> QED BY <3>3, <3>4, <3>5, <3>6, <3>7, <3>8, <3>9, <3>10, <3>11
               DEF Next, Streaming, SerialEvent, HostStep
  <2> QED BY <2>2, <2>3
<1>7. CASE Connect \/ Reset
  <2>1. ~rebooted' /\ (rebooted' = \/ rebooted \/ isConnected
                                   \/ Welcome \in ToSet(toHost))
    BY <1>7 DEF Calm, Accident, Connect, Reset, Restart
  <2>2. ~isConnected /\ Welcome \notin ToSet(toHost)
    BY <2>1
  <2>3. Welcome \in ToSet(<<Welcome>>)
    BY DEF ToSet
  <2>4. fw = "off" /\ toHost = << >>
    BY <1>2, <2>2, <2>3
  <2>5. Connect
    BY <1>7, <2>4 DEF Reset
  <2> QED BY <2>2, <2>5 DEF Connect, Restart, SetUp
<1>8. CASE Boot
  <2>1. fw = "off" /\ ~isConnected /\ toHost = << >>
    BY <1>2, <1>3, <1>8 DEF Boot
  <2>2. toHost' = <<Welcome>> /\ fw' = "read" /\ isConnected' = isConnected
    BY <1>8, <2>1 DEF Boot, FwSame
  <2> QED BY <2>1, <2>2 DEF SetUp
<1>9. CASE FwExecute
  <2>1. SetUp
    <3>1. fwLine # << >>
      BY <1>3, <1>9 DEF Shape, FirmwareFits, FwExecute
    <3> QED BY <1>5, <3>1
  <2>2. PICK S : InCalm(S)
    BY <1>4, <2>1
  <2>3. InStep' /\ Ledger(S)'
    BY <1>9, <2>2, FwExecuteInStep, FwExecuteCounts DEF InCalm
  <2>4. isConnected /\ isConnected' /\ fw' = "read"
    BY <1>9, <2>1 DEF FwExecute, FwSame, SetUp
  <2>5. ASSUME NEW i \in 1 .. Len(toHost') PROVE toHost'[i] # Welcome
    <3>1. toHost'[i] = heard' + i
      BY <2>3 DEF InStep
    <3>2. heard' = heard
      BY <1>9 DEF FwExecute, FwSame, heard, answered, listed, written, One
    <3>3. heard \in Nat
      BY <2>2, RunningNumbers DEF InCalm
    <3> HIDE DEF heard
    <3> QED BY <3>1, <3>2, <3>3 DEF Welcome
  <2> QED BY <2>3, <2>4, <2>5
<1>10. CASE ReadMessage
  <2>1. srl = "wait" /\ toHost # << >> /\ toHost' = Tail(toHost) /\ fw' = fw
    BY <1>10 DEF ReadMessage
  <2>2. CASE ~isConnected
    <3>1. toHost = <<Welcome>> /\ fw # "off"
      BY <1>2, <2>1, <2>2
    <3>2. toHost' = << >> /\ isConnected' /\ srl' = "clearReserved"
      <4>1. Head(toHost) = Welcome /\ Tail(toHost) = << >>
        BY <3>1
      <4> QED BY <1>10, <2>1, <2>2, <4>1 DEF ReadMessage
    <3> QED BY <2>1, <3>1, <3>2, Empty DEF SetUp, Initialising
  <2>3. CASE isConnected
    <3>1. SetUp /\ isConnected'
      BY <1>10, <2>1, <2>3 DEF SetUp, Initialising, ReadMessage
    <3>2. InStep'
      BY <1>4, <1>10, <3>1, ReadMessageInStep
    <3>3. \A i \in 1 .. Len(toHost') : toHost'[i] # Welcome
      <4>1. toHost \in Seq({Welcome} \cup Lines)
        BY <1>3 DEF Shape, Data
      <4>2. /\ Len(toHost') = Len(toHost) - 1 /\ Len(toHost) \in Nat
            /\ \A i \in 1 .. Len(toHost) - 1 : toHost'[i] = toHost[i + 1]
        BY <2>1, <4>1, Tails
      <4> QED BY <1>2, <2>3, <4>2
    <3> QED BY <1>2, <2>1, <2>3, <3>1, <3>2, <3>3
  <2> QED BY <1>3, <2>2, <2>3
<1>11. CASE ~(Connect \/ Reset \/ Boot \/ FwExecute \/ ReadMessage)
  <2>1. UNCHANGED <<isConnected, fw, toHost>> \/ FwRead
    BY <1>11 DEF Next, vars, Streaming, SerialEvent, Reserve, StreamCheck,
       StreamLoad, StreamStore, StreamAdd, StreamWrite, StreamRemove, AnimSame,
       Connecting, InitClearReserved, InitClearBfr, InitZero, AckLoad,
       AckStore, AckRemove, SrlSame, Receive, FwSame
  <2>2. CASE FwRead
    <3>1. SetUp
      BY <1>5, <2>2 DEF FwRead
    <3>2. PICK S : InCalm(S)
      BY <1>4, <3>1
    <3>3. InStep'
      BY <2>2, <3>2, FwReadInStep
    <3>4. isConnected /\ isConnected' /\ toHost' = toHost /\ fw' # "off"
      BY <2>2, <3>1 DEF FwRead, FwSame, SetUp
    <3> QED BY <1>2, <3>3, <3>4
  <2> QED BY <1>6, <2>1, <2>2
<1> QED BY <1>7, <1>8, <1>9, <1>10, <1>11

(* Each answer is charged to the line it answers, for all lines, budgets and
   rings: grblBfr stays in step with the firmware as long as no byte is lost
   and the board does not restart behind the host.  (Grbl.read) *)
THEOREM AnswersAreForHeads == Spec => []AnswerIsForHead
<1>1. Init => StreamInv /\ Match
  BY InitShape, InitHandshake, InitCount, InitMatch DEF StreamInv
<1>2. StreamInv /\ Match /\ [Next]_vars => StreamInv' /\ Match'
  <2>1. StreamInv /\ [Next]_vars => StreamInv'
    BY ShapeStep, HandshakeStep, CountStep DEF StreamInv
  <2> QED BY <2>1, MatchStep
<1>3. StreamInv /\ Match => AnswerIsForHead
  <2> SUFFICES ASSUME StreamInv, Match, srl \in {"store", "remove"}, ~Accident
               PROVE  srlAck = Head(grblBfr)
    BY DEF AnswerIsForHead
  <2>1. Calm /\ Sound
    BY DEF Calm, StreamInv, NoOverrun, Accident, Sound
  <2>2. SetUp
    BY DEF StreamInv, Shape, Flags, PortFits, SetUp, Initialising
  <2>3. InStep
    BY <2>1, <2>2 DEF Match
  <2>4. PICK S : Running(S)
    BY <2>1, <2>2 DEF StreamInv, Count, Running
  <2>5. answered \in Nat /\ heard = answered + 1
    <3>1. answered \in Nat
      BY <2>4, RunningNumbers
    <3> HIDE DEF answered
    <3> QED BY <3>1 DEF heard, One
  <2>6. srlAck = heard
    <3>1. heard # answered
      <4> HIDE DEF answered, heard
      <4> QED BY <2>5
    <3> QED BY <2>3, <3>1 DEF InStep
  <2>7. Head(grblBfr) = answered + 1
    <3>1. grblBfr # << >> /\ grblBfr \in Seq(Lines)
      BY DEF StreamInv, Shape, PortFits, Data
    <3>2. Head(grblBfr) = grblBfr[1] /\ 1 \in 1 .. Len(grblBfr)
      BY <3>1, Tails
    <3> QED BY <3>2, <2>4 DEF Running, Ledger
  <2> QED BY <2>5, <2>6, <2>7
<1> QED BY <1>1, <1>2, <1>3, PTL DEF Spec
=============================================================================

---------------------------- MODULE LinkProofs ----------------------------
(***************************************************************************)
(* Proofs about the links.  The two rings of serial.c, modules SerialRx    *)
(* and SerialTx: their inductive invariants, and that each implements a    *)
(* bounded queue, for every ring size and byte set.  The connection of the *)
(* two programs, module OscLink: its inductive invariant, and that the two *)
(* sides agree, for any number of presses and faults.  The pins, module    *)
(* Pins: what is derived from the settings follows them, the interrupts of *)
(* the switches are armed when they should be, and a button that stays     *)
(* pressed is heard, for every wiring, every setting typed and every       *)
(* number of inputs, commands and segments.                                *)
(***************************************************************************)
EXTENDS SerialTx, OscLink, Pins, TLAPS

-----------------------------------------------------------------------------
(* The receive ring. *)

(* What the ring keeps true at every access of either side. *)
IInv == TypeOK /\ LocalCopiesValid /\ StoredAreReceived

LEMMA RingSize == /\ RX_BUFFER_SIZE \in Nat /\ RX_BUFFER_SIZE >= 1
                  /\ RX_RING_BUFFER \in Nat
                  /\ RX_RING_BUFFER = RX_BUFFER_SIZE + 1
                  /\ NoData \notin Bytes
BY RxAssumption DEF RX_RING_BUFFER

(* Index arithmetic on the ring. *)
LEMMA SlotArithmetic ==
  ASSUME NEW i \in Slots, NEW j \in Slots
  PROVE  /\ NextSlot(i) \in Slots
         /\ Distance(i, j) \in 0 .. RX_BUFFER_SIZE
         /\ Distance(i, j) = 0 <=> i = j
         /\ NextSlot(i) = SlotAfter(i, 1)
         /\ SlotAfter(i, Distance(i, j)) = j
         /\ i # j => Distance(NextSlot(i), j) = Distance(i, j) - 1
         /\ NextSlot(j) # i => Distance(i, NextSlot(j)) = Distance(i, j) + 1
         /\ NextSlot(j) = i => Distance(i, j) = RX_BUFFER_SIZE
BY RingSize DEF Slots, NextSlot, Distance, SlotAfter

LEMMA SlotAfterFacts ==
  ASSUME NEW i \in Slots, NEW m \in 0 .. RX_BUFFER_SIZE,
         NEW n \in 0 .. RX_BUFFER_SIZE
  PROVE  /\ SlotAfter(i, n) \in Slots
         /\ SlotAfter(i, m) = SlotAfter(i, n) => m = n
         /\ n + 1 <= RX_BUFFER_SIZE
              => SlotAfter(NextSlot(i), n) = SlotAfter(i, n + 1)
BY RingSize DEF Slots, NextSlot, SlotAfter

LEMMA DistanceSplit ==
  ASSUME NEW i \in Slots, NEW j \in Slots, NEW k \in Slots,
         Distance(i, j) <= Distance(i, k)
  PROVE  /\ Distance(j, k) = Distance(i, k) - Distance(i, j)
         /\ \A n \in 0 .. RX_BUFFER_SIZE :
              n < Distance(j, k)
                => SlotAfter(j, n) = SlotAfter(i, n + Distance(i, j))
BY RingSize DEF Slots, Distance, SlotAfter

-----------------------------------------------------------------------------
LEMMA InitIInv == Init => IInv
<1> SUFFICES ASSUME Init PROVE IInv
  OBVIOUS
<1>1. TypeOK
  <2>1. 0 \in Slots
    BY RingSize DEF Slots
  <2>2. overrun \in BOOLEAN
    BY DEF Init
  <2>3. QED
    BY <2>1, <2>2, Zenon DEF Init, TypeOK
<1>2. Used = 0
  BY DEF Init, Used, Distance
<1>3. LocalCopiesValid
  BY DEF Init, LocalCopiesValid
<1>4. StoredAreReceived
  BY <1>2, RingSize DEF StoredAreReceived
<1>5. QED
  BY <1>1, <1>3, <1>4 DEF IInv

(* The interrupt stores a byte: the slot it writes is outside the used part,
   so nothing the main program holds changes under it. *)
LEMMA StoreKeepsIInv ==
  ASSUME IInv, NEW d \in Bytes,
         NextSlot(serial_rx_buffer_head) # serial_rx_buffer_tail,
         serial_rx_buffer' =
           [serial_rx_buffer EXCEPT ![serial_rx_buffer_head] = d],
         serial_rx_buffer_head' = NextSlot(serial_rx_buffer_head),
         UNCHANGED <<main, overrun>>
  PROVE  /\ IInv'
         /\ Used' = Used + 1
         /\ Used < RX_BUFFER_SIZE
         /\ \A n \in 0 .. RX_BUFFER_SIZE : n < Used =>
              serial_rx_buffer'[SlotAfter(serial_rx_buffer_tail, n)]
                = serial_rx_buffer[SlotAfter(serial_rx_buffer_tail, n)]
         /\ serial_rx_buffer'[SlotAfter(serial_rx_buffer_tail, Used)] = d
<1> DEFINE h == serial_rx_buffer_head
           t == serial_rx_buffer_tail
<1>0. /\ TypeOK /\ LocalCopiesValid /\ StoredAreReceived
      /\ h \in Slots /\ t \in Slots /\ t' = t /\ h' = NextSlot(h)
      /\ pc' = pc /\ idx' = idx /\ data' = data /\ result' = result
      /\ overrun' = overrun
  BY DEF IInv, TypeOK, main
<1> HIDE DEF h, t
<1>1. /\ Used = Distance(t, h) /\ Used' = Distance(t, NextSlot(h))
      /\ Used \in 0 .. RX_BUFFER_SIZE /\ Used' = Used + 1
      /\ Used' \in 0 .. RX_BUFFER_SIZE
      /\ SlotAfter(t, Used) = h
  <2>1. Used = Distance(t, h) /\ Used' = Distance(t', h')
    BY DEF Used, h, t, Distance
  <2>2. NextSlot(h) # t
    BY DEF h, t
  <2>3. QED
    BY <1>0, <2>1, <2>2, SlotArithmetic
<1>2. Used < RX_BUFFER_SIZE
  BY <1>1, RingSize
<1>3. /\ serial_rx_buffer' = [serial_rx_buffer EXCEPT ![h] = d]
      /\ serial_rx_buffer \in [Slots -> Bytes \cup {NoData}]
  BY <1>0 DEF h, TypeOK
<1>4. \A n \in 0 .. RX_BUFFER_SIZE : n < Used =>
        /\ SlotAfter(t, n) \in Slots
        /\ SlotAfter(t, n) # h
  BY <1>0, <1>1, SlotAfterFacts
<1>5. \A n \in 0 .. RX_BUFFER_SIZE : n < Used =>
        serial_rx_buffer'[SlotAfter(t, n)] = serial_rx_buffer[SlotAfter(t, n)]
  BY <1>3, <1>4
<1>6. serial_rx_buffer'[SlotAfter(t, Used)] = d
  BY <1>0, <1>1, <1>3
<1>7. TypeOK'
  <2>1. NextSlot(h) \in Slots
    BY <1>0, SlotArithmetic
  <2>2. serial_rx_buffer' \in [Slots -> Bytes \cup {NoData}]
    BY <1>3
  <2>3. QED
    BY <1>0, <2>1, <2>2, Zenon DEF TypeOK, h, t
<1>8. LocalCopiesValid'
  <2>1. CASE pc = "load"
    BY <1>0, <1>1, <2>1 DEF LocalCopiesValid, main
  <2>2. CASE pc = "store"
    <3>1. SlotAfter(t, 0) = t
      BY <1>0, RingSize DEF SlotAfter, Slots
    <3>2. serial_rx_buffer'[t] = serial_rx_buffer[t]
      BY <1>1, <1>5, <2>2, <3>1, <1>0, RingSize DEF LocalCopiesValid
    <3>3. QED
      BY <1>0, <1>1, <2>2, <3>2 DEF LocalCopiesValid, main, t, NextSlot
  <2>3. CASE pc = "flush"
    <3>1. Distance(t, idx) \in Int
      BY <1>0, SlotArithmetic DEF TypeOK
    <3>2. Distance(t, idx) <= Used
      BY <1>0, <2>3 DEF LocalCopiesValid, t
    <3>3. Distance(t, idx) <= Used'
      BY <1>1, <3>1, <3>2
    <3>4. Distance(serial_rx_buffer_tail, idx)' = Distance(t, idx)
      BY <1>0 DEF Distance, main, t
    <3>5. QED
      BY <2>3, <3>3, <3>4 DEF LocalCopiesValid, main
  <2>4. CASE pc = "idle"
    BY <2>4 DEF LocalCopiesValid, main
  <2>5. QED
    BY <1>0, <2>1, <2>2, <2>3, <2>4 DEF TypeOK
<1>9. StoredAreReceived'
  <2> SUFFICES ASSUME NEW n \in 0 .. RX_BUFFER_SIZE, n < Used'
               PROVE  serial_rx_buffer'[SlotAfter(t, n)] \in Bytes
    BY <1>0 DEF StoredAreReceived, SlotAfter, t
  <2>1. CASE n < Used
    BY <1>0, <1>5, <2>1 DEF StoredAreReceived, t
  <2>2. CASE n = Used
    BY <1>6, <2>2
  <2>3. QED
    BY <1>1, <2>1, <2>2
<1>10. QED
  BY <1>0, <1>1, <1>2, <1>5, <1>6, <1>7, <1>8, <1>9 DEF IInv, t
(* The reader's last access frees the slot it has fetched, and only that. *)
LEMMA ReadStoreKeepsIInv ==
  ASSUME IInv, ReadStore
  PROVE  /\ IInv'
         /\ Used > 0
         /\ Used' = Used - 1
         /\ result' = serial_rx_buffer[serial_rx_buffer_tail]
         /\ \A n \in 0 .. RX_BUFFER_SIZE : n < Used' =>
              SlotAfter(serial_rx_buffer_tail', n)
                = SlotAfter(serial_rx_buffer_tail, n + 1)
<1> DEFINE h == serial_rx_buffer_head
           t == serial_rx_buffer_tail
<1>0. /\ TypeOK /\ LocalCopiesValid /\ StoredAreReceived
      /\ h \in Slots /\ t \in Slots /\ h' = h
      /\ t' = NextSlot(t) /\ Used > 0
      /\ result' = serial_rx_buffer[t] /\ result' = data
      /\ data' = data /\ idx' = idx /\ pc' = "idle"
      /\ serial_rx_buffer' = serial_rx_buffer /\ overrun' = overrun
  BY DEF IInv, TypeOK, ReadStore, LocalCopiesValid, ring
<1>1. Used = Distance(t, h) /\ Used' = Distance(t', h')
  BY DEF Used, Distance
<1> HIDE DEF h, t
<1>2. /\ Used \in 0 .. RX_BUFFER_SIZE /\ Used' = Used - 1
      /\ t' \in Slots
  BY <1>0, <1>1, SlotArithmetic, RingSize
<1>3. \A n \in 0 .. RX_BUFFER_SIZE : n < Used' =>
        /\ SlotAfter(t', n) = SlotAfter(t, n + 1)
        /\ n + 1 \in 0 .. RX_BUFFER_SIZE /\ n + 1 < Used
  BY <1>0, <1>2, SlotAfterFacts, RingSize
<1>4. TypeOK'
  BY <1>0, <1>2, Zenon DEF TypeOK, h, t
<1>5. LocalCopiesValid'
  BY <1>0 DEF LocalCopiesValid
<1>6. StoredAreReceived'
  <2> SUFFICES ASSUME NEW n \in 0 .. RX_BUFFER_SIZE, n < Used'
               PROVE  serial_rx_buffer[SlotAfter(t', n)] \in Bytes
    BY <1>0 DEF StoredAreReceived, SlotAfter, t
  <2>1. QED
    BY <1>0, <1>3 DEF StoredAreReceived, t
<1>7. QED
  BY <1>0, <1>2, <1>3, <1>4, <1>5, <1>6 DEF IInv, t

(* The flush frees the bytes stored when it loaded the head; those the
   interrupt has stored since then stay. *)
LEMMA FlushStoreKeepsIInv ==
  ASSUME IInv, FlushStore
  PROVE  /\ IInv'
         /\ Distance(serial_rx_buffer_tail, idx) \in 0 .. RX_BUFFER_SIZE
         /\ Distance(serial_rx_buffer_tail, idx) <= Used
         /\ Used' = Used - Distance(serial_rx_buffer_tail, idx)
         /\ \A n \in 0 .. RX_BUFFER_SIZE : n < Used' =>
              SlotAfter(serial_rx_buffer_tail', n)
                = SlotAfter(serial_rx_buffer_tail,
                            n + Distance(serial_rx_buffer_tail, idx))
<1> DEFINE h == serial_rx_buffer_head
           t == serial_rx_buffer_tail
           k == Distance(t, idx)
<1>0. /\ TypeOK /\ LocalCopiesValid /\ StoredAreReceived
      /\ h \in Slots /\ t \in Slots /\ idx \in Slots
      /\ h' = h /\ t' = idx /\ k <= Used
      /\ result' = result /\ data' = data /\ idx' = idx /\ pc' = "idle"
      /\ serial_rx_buffer' = serial_rx_buffer /\ overrun' = overrun
  BY DEF IInv, TypeOK, FlushStore, LocalCopiesValid, ring
<1>1. Used = Distance(t, h) /\ Used' = Distance(t', h')
  BY DEF Used, Distance
<1> HIDE DEF h, t, k
<1>2. /\ Used \in 0 .. RX_BUFFER_SIZE /\ k \in 0 .. RX_BUFFER_SIZE
      /\ Used' = Used - k
      /\ \A n \in 0 .. RX_BUFFER_SIZE : n < Used' =>
           /\ SlotAfter(t', n) = SlotAfter(t, n + k)
           /\ n + k \in 0 .. RX_BUFFER_SIZE /\ n + k < Used
  <2>1. Used \in 0 .. RX_BUFFER_SIZE /\ k \in 0 .. RX_BUFFER_SIZE
    BY <1>0, <1>1, SlotArithmetic DEF k
  <2>2. Distance(t, idx) <= Distance(t, h)
    BY <1>0, <1>1 DEF k
  <2>3. Used' = Used - k
    BY <1>0, <1>1, <2>2, DistanceSplit DEF k
  <2>4. \A n \in 0 .. RX_BUFFER_SIZE : n < Used' =>
           SlotAfter(t', n) = SlotAfter(t, n + k)
    BY <1>0, <1>1, <2>2, DistanceSplit DEF k
  <2>5. QED
    BY <2>1, <2>3, <2>4, RingSize
<1>4. TypeOK'
  BY <1>0, Zenon DEF TypeOK, h, t
<1>5. LocalCopiesValid'
  BY <1>0 DEF LocalCopiesValid
<1>6. StoredAreReceived'
  <2> SUFFICES ASSUME NEW n \in 0 .. RX_BUFFER_SIZE, n < Used'
               PROVE  serial_rx_buffer[SlotAfter(t', n)] \in Bytes
    BY <1>0 DEF StoredAreReceived, SlotAfter, t
  <2>1. QED
    BY <1>0, <1>2 DEF StoredAreReceived, t
<1>7. QED
  BY <1>0, <1>2, <1>4, <1>5, <1>6 DEF IInv, t, k

LEMMA StepKeepsIInv == IInv /\ [Next]_vars => IInv'
<1> SUFFICES ASSUME IInv, [Next]_vars PROVE IInv'
  OBVIOUS
<1>0. TypeOK /\ LocalCopiesValid /\ StoredAreReceived
  BY DEF IInv
<1>1. ASSUME NEW d \in Bytes, ReceiveISR(d) PROVE IInv'
  <2>1. CASE NextSlot(serial_rx_buffer_head) # serial_rx_buffer_tail
    BY <1>1, <2>1, StoreKeepsIInv DEF ReceiveISR, RingIsFull
  <2>2. CASE NextSlot(serial_rx_buffer_head) = serial_rx_buffer_tail
    <3>1. /\ UNCHANGED <<ring, main>>
          /\ overrun' = TRUE
      BY <1>1, <2>2 DEF ReceiveISR, RingIsFull
    <3>2. overrun' \in BOOLEAN
      BY <3>1
    <3>3. QED
      BY <1>0, <3>1, <3>2
         DEF IInv, TypeOK, LocalCopiesValid, StoredAreReceived, Used,
             Distance, SlotAfter, NextSlot, ring, main
  <2>3. QED
    BY <2>1, <2>2
<1>2. CASE ReadTest
  <2>1. /\ UNCHANGED <<ring, serial_rx_buffer_tail, data, overrun>>
        /\ pc = "idle" /\ idx' = serial_rx_buffer_tail
        /\ \/ pc' = pc /\ result' = NoData
           \/ /\ pc' = "load" /\ result' = result
              /\ serial_rx_buffer_head # serial_rx_buffer_tail
    BY <1>2 DEF ReadTest
  <2>2. overrun' \in BOOLEAN /\ Used' = Used
    BY <1>0, <2>1 DEF TypeOK, Used, Distance, ring
  <2>3. pc' = "load" => Used > 0
    BY <1>0, <2>1, SlotArithmetic, RingSize DEF TypeOK, Used
  <2>4. TypeOK'
    BY <1>0, <2>1, <2>2 DEF TypeOK, ring
  <2>5. LocalCopiesValid'
    BY <1>0, <2>1, <2>2, <2>3 DEF LocalCopiesValid
  <2>6. StoredAreReceived'
    BY <1>0, <2>1, <2>2 DEF StoredAreReceived, ring, SlotAfter
  <2>7. QED
    BY <2>4, <2>5, <2>6 DEF IInv
<1>3. CASE ReadLoad
  <2>1. /\ UNCHANGED <<ring, serial_rx_buffer_tail, result, overrun>>
        /\ pc = "load" /\ pc' = "store"
        /\ idx = serial_rx_buffer_tail /\ idx' = NextSlot(idx) /\ Used > 0
        /\ data' = serial_rx_buffer[serial_rx_buffer_tail]
    BY <1>0, <1>3 DEF ReadLoad, LocalCopiesValid
  <2>2. overrun' \in BOOLEAN /\ Used' = Used
    BY <1>0, <2>1 DEF TypeOK, Used, Distance, ring
  <2>3. idx' \in Slots /\ data' \in Bytes \cup {NoData}
    BY <1>0, <2>1, SlotArithmetic DEF TypeOK
  <2>4. TypeOK'
    BY <1>0, <2>1, <2>2, <2>3 DEF TypeOK, ring
  <2>5. LocalCopiesValid'
    BY <1>0, <2>1, <2>2 DEF LocalCopiesValid, NextSlot, ring
  <2>6. StoredAreReceived'
    BY <1>0, <2>1, <2>2 DEF StoredAreReceived, ring, SlotAfter
  <2>7. QED
    BY <2>4, <2>5, <2>6 DEF IInv
<1>4. CASE ReadStore
  BY <1>4, ReadStoreKeepsIInv
<1>5. CASE FlushLoad
  <2>1. /\ UNCHANGED <<ring, serial_rx_buffer_tail, data, result, overrun>>
        /\ pc' = "flush" /\ idx' = serial_rx_buffer_head
    BY <1>5 DEF FlushLoad, FlushedTail
  <2>2. overrun' \in BOOLEAN /\ Used' = Used
    BY <1>0, <2>1 DEF TypeOK, Used, Distance, ring
  <2>3. Distance(serial_rx_buffer_tail', idx') = Used
    BY <2>1 DEF Used
  <2>4. Used \in Int
    <3>1. Used \in 0 .. RX_BUFFER_SIZE
      BY <1>0, SlotArithmetic DEF TypeOK, Used
    <3>2. QED
      BY <3>1
  <2>5. TypeOK'
    BY <1>0, <2>1, <2>2 DEF TypeOK, ring
  <2>6. LocalCopiesValid'
    BY <2>1, <2>2, <2>3, <2>4 DEF LocalCopiesValid, Distance
  <2>7. StoredAreReceived'
    BY <1>0, <2>1, <2>2 DEF StoredAreReceived, ring, SlotAfter
  <2>8. QED
    BY <2>5, <2>6, <2>7 DEF IInv
<1>6. CASE FlushStore
  BY <1>6, FlushStoreKeepsIInv
<1>7. CASE UNCHANGED vars
  BY <1>0, <1>7
     DEF IInv, TypeOK, LocalCopiesValid, StoredAreReceived, Used, Distance,
         SlotAfter, NextSlot, vars
<1>8. QED
  BY <1>1, <1>2, <1>3, <1>4, <1>5, <1>6, <1>7 DEF Next

(* The types of the ring's state, the validity of the main program's copies
   and the origin of every byte it can read, whatever the size of the ring
   and whenever the interrupt fires. *)
THEOREM InductiveInvariant == Spec => []IInv
<1>1. QED
  BY InitIInv, StepKeepsIInv, PTL DEF Spec

THEOREM TypeCorrect == Spec => []TypeOK
<1>1. IInv => TypeOK
  BY DEF IInv
<1>2. QED
  BY <1>1, InductiveInvariant, PTL

(* The copies of tail, head and byte that serial_read and
   serial_reset_read_buffer hold across interrupts never go stale. *)
THEOREM CopiesStayValid == Spec => []LocalCopiesValid
<1>1. IInv => LocalCopiesValid
  BY DEF IInv
<1>2. QED
  BY <1>1, InductiveInvariant, PTL
(* The free space in the status report is exact in every state. *)
THEOREM AvailableExact == Spec => []AvailableIsExact
<1>1. IInv => AvailableIsExact
  BY RingSize DEF IInv, TypeOK, Slots, AvailableIsExact, Used, Distance,
     serial_get_rx_buffer_available
<1>2. QED
  BY <1>1, InductiveInvariant, PTL

-----------------------------------------------------------------------------
(* The stored bytes as a sequence. *)
LEMMA ContentsIsSeq ==
  ASSUME NEW b, NEW t, NEW n \in 0 .. RX_BUFFER_SIZE,
         \A m \in 0 .. RX_BUFFER_SIZE : m < n => b[SlotAfter(t, m)] \in Bytes
  PROVE  /\ Contents(b, t, n) \in Seq(Bytes)
         /\ Len(Contents(b, t, n)) = n
         /\ \A i \in 1 .. n : Contents(b, t, n)[i] = b[SlotAfter(t, i - 1)]
<1>1. \A i \in 1 .. n : b[SlotAfter(t, i - 1)] \in Bytes
  <2> SUFFICES ASSUME NEW i \in 1 .. n
               PROVE  b[SlotAfter(t, i - 1)] \in Bytes
    OBVIOUS
  <2>1. i - 1 \in 0 .. RX_BUFFER_SIZE /\ i - 1 < n
    BY RingSize
  <2>2. QED
    BY <2>1
<1>2. QED
  BY <1>1, RingSize DEF Contents

LEMMA StoredIsSeq ==
  ASSUME IInv
  PROVE  /\ Used \in 0 .. RX_BUFFER_SIZE
         /\ Stored \in Seq(Bytes)
         /\ Len(Stored) = Used
         /\ \A i \in 1 .. Used :
              Stored[i] = serial_rx_buffer[SlotAfter(serial_rx_buffer_tail,
                                                     i - 1)]
<1>1. Used \in 0 .. RX_BUFFER_SIZE
  BY SlotArithmetic DEF IInv, TypeOK, Used
<1>2. QED
  BY <1>1, ContentsIsSeq DEF IInv, StoredAreReceived, Stored

LEMMA StoredIsSeqNext ==
  ASSUME IInv'
  PROVE  /\ Used' \in 0 .. RX_BUFFER_SIZE
         /\ Stored' \in Seq(Bytes)
         /\ Len(Stored') = Used'
         /\ \A i \in 1 .. Used' :
              Stored'[i] = serial_rx_buffer'[SlotAfter(serial_rx_buffer_tail',
                                                       i - 1)]
<1>1. Used' = Distance(serial_rx_buffer_tail', serial_rx_buffer_head')
  BY DEF Used, Distance
<1>2. /\ serial_rx_buffer_tail' \in Slots
      /\ serial_rx_buffer_head' \in Slots
  BY DEF IInv, TypeOK
<1>3. Used' \in 0 .. RX_BUFFER_SIZE
  BY <1>1, <1>2, SlotArithmetic
<1>4. Stored' = Contents(serial_rx_buffer', serial_rx_buffer_tail', Used')
  BY DEF Stored, Contents, SlotAfter
<1>5. \A n \in 0 .. RX_BUFFER_SIZE : n < Used' =>
        serial_rx_buffer'[SlotAfter(serial_rx_buffer_tail', n)] \in Bytes
  BY DEF IInv, StoredAreReceived, SlotAfter
<1>6. QED
  BY <1>3, <1>4, <1>5, ContentsIsSeq

LEMMA InitRefines == Init => Fifo!Init
<1> SUFFICES ASSUME Init PROVE Fifo!Init
  OBVIOUS
<1>1. Used = 0
  BY DEF Init, Used, Distance
<1>2. Stored = << >>
  BY <1>1 DEF Stored, Contents
<1>3. QED
  BY <1>2 DEF Init, Fifo!Init

LEMMA StoreRefines ==
  ASSUME IInv, IInv', NEW d \in Bytes, ReceiveISR(d),
         NextSlot(serial_rx_buffer_head) # serial_rx_buffer_tail
  PROVE  Fifo!Put(d)
<1>1. /\ serial_rx_buffer' =
           [serial_rx_buffer EXCEPT ![serial_rx_buffer_head] = d]
      /\ serial_rx_buffer_head' = NextSlot(serial_rx_buffer_head)
      /\ UNCHANGED <<main, overrun>>
  BY DEF ReceiveISR, RingIsFull
<1>2. /\ Used' = Used + 1
      /\ Used < RX_BUFFER_SIZE
      /\ \A n \in 0 .. RX_BUFFER_SIZE : n < Used =>
           serial_rx_buffer'[SlotAfter(serial_rx_buffer_tail, n)]
             = serial_rx_buffer[SlotAfter(serial_rx_buffer_tail, n)]
      /\ serial_rx_buffer'[SlotAfter(serial_rx_buffer_tail, Used)] = d
  BY <1>1, StoreKeepsIInv
<1>3. serial_rx_buffer_tail' = serial_rx_buffer_tail /\ result' = result
      /\ overrun' = overrun
  BY <1>1 DEF main
<1>4. /\ Stored' \in Seq(Bytes) /\ Len(Stored') = Used'
      /\ \A i \in 1 .. Used' :
           Stored'[i] = serial_rx_buffer'[SlotAfter(serial_rx_buffer_tail,
                                                    i - 1)]
  BY <1>3, StoredIsSeqNext
<1>5. \A i \in 1 .. Used' : Stored'[i] = Append(Stored, d)[i]
  <2> SUFFICES ASSUME NEW i \in 1 .. Used'
               PROVE  Stored'[i] = Append(Stored, d)[i]
    OBVIOUS
  <2>1. CASE i <= Used
    <3>1. i - 1 \in 0 .. RX_BUFFER_SIZE /\ i - 1 < Used /\ i \in 1 .. Used
      BY <2>1, StoredIsSeq, RingSize
    <3>2. Stored'[i] = Stored[i]
      BY <3>1, <1>2, <1>4, StoredIsSeq
    <3>3. QED
      BY <3>1, <3>2, StoredIsSeq
  <2>2. CASE i = Used + 1
    <3>1. Stored'[i] = d
      BY <2>2, <1>2, <1>4, StoredIsSeq
    <3>2. Append(Stored, d)[i] = d
      BY <2>2, StoredIsSeq
    <3>3. QED
      BY <3>1, <3>2
  <2>3. QED
    BY <1>2, <2>1, <2>2, StoredIsSeq
<1>6. Stored' = Append(Stored, d)
  BY <1>2, <1>4, <1>5, StoredIsSeq
<1>7. QED
  BY <1>2, <1>3, <1>6, StoredIsSeq DEF Fifo!Put

LEMMA ReadRefines ==
  ASSUME IInv, IInv', ReadStore
  PROVE  Fifo!Get
<1>1. /\ Used > 0
      /\ Used' = Used - 1
      /\ result' = serial_rx_buffer[serial_rx_buffer_tail]
      /\ \A n \in 0 .. RX_BUFFER_SIZE : n < Used' =>
           SlotAfter(serial_rx_buffer_tail', n)
             = SlotAfter(serial_rx_buffer_tail, n + 1)
  BY ReadStoreKeepsIInv
<1>2. serial_rx_buffer' = serial_rx_buffer /\ overrun' = overrun
  BY DEF ReadStore, ring
<1>3. /\ Stored' \in Seq(Bytes) /\ Len(Stored') = Used'
      /\ \A i \in 1 .. Used' :
           Stored'[i] = serial_rx_buffer[SlotAfter(serial_rx_buffer_tail',
                                                   i - 1)]
  BY <1>2, StoredIsSeqNext
<1>4. Head(Stored) = result'
  <2>1. SlotAfter(serial_rx_buffer_tail, 0) = serial_rx_buffer_tail
    BY RingSize DEF SlotAfter, Slots, IInv, TypeOK
  <2>2. Head(Stored) = Stored[1] /\ 1 \in 1 .. Used
    BY <1>1, StoredIsSeq
  <2>3. QED
    BY <1>1, <2>1, <2>2, StoredIsSeq
<1>5. \A i \in 1 .. Used' : Stored'[i] = Tail(Stored)[i]
  <2> SUFFICES ASSUME NEW i \in 1 .. Used'
               PROVE  Stored'[i] = Tail(Stored)[i]
    OBVIOUS
  <2>1. /\ i - 1 \in 0 .. RX_BUFFER_SIZE /\ i - 1 < Used'
        /\ i + 1 \in 1 .. Used /\ (i + 1) - 1 = (i - 1) + 1
    BY <1>1, StoredIsSeq, RingSize
  <2>2. Stored'[i] = serial_rx_buffer[SlotAfter(serial_rx_buffer_tail,
                                                (i - 1) + 1)]
    BY <1>1, <1>3, <2>1
  <2>3. Stored'[i] = Stored[i + 1]
    BY <2>1, <2>2, StoredIsSeq
  <2>4. Tail(Stored)[i] = Stored[i + 1]
    BY <1>1, <2>1, StoredIsSeq
  <2>5. QED
    BY <2>3, <2>4
<1>6. Stored' = Tail(Stored)
  BY <1>1, <1>3, <1>5, StoredIsSeq
<1>7. QED
  BY <1>1, <1>2, <1>4, <1>6, StoredIsSeq DEF Fifo!Get

LEMMA FlushRefines ==
  ASSUME IInv, IInv', FlushStore
  PROVE  \E n \in 0 .. RX_BUFFER_SIZE : n <= Len(Stored) /\ Fifo!Flush(n)
<1> DEFINE k == Distance(serial_rx_buffer_tail, idx)
<1>1. /\ k \in 0 .. RX_BUFFER_SIZE /\ k <= Used
      /\ Used' = Used - k
      /\ \A n \in 0 .. RX_BUFFER_SIZE : n < Used' =>
           SlotAfter(serial_rx_buffer_tail', n)
             = SlotAfter(serial_rx_buffer_tail, n + k)
  BY FlushStoreKeepsIInv
<1>2. /\ serial_rx_buffer' = serial_rx_buffer
      /\ result' = result /\ overrun' = overrun
  BY DEF FlushStore, ring
<1> HIDE DEF k
<1>3. /\ Stored' \in Seq(Bytes) /\ Len(Stored') = Used'
      /\ \A i \in 1 .. Used' :
           Stored'[i] = serial_rx_buffer[SlotAfter(serial_rx_buffer_tail',
                                                   i - 1)]
  BY <1>2, StoredIsSeqNext
<1>4. \A i \in 1 .. Used' : Stored'[i] = Stored[i + k]
  <2> SUFFICES ASSUME NEW i \in 1 .. Used'
               PROVE  Stored'[i] = Stored[i + k]
    OBVIOUS
  <2>1. /\ i - 1 \in 0 .. RX_BUFFER_SIZE /\ i - 1 < Used'
        /\ i + k \in 1 .. Used /\ (i + k) - 1 = (i - 1) + k
    BY <1>1, StoredIsSeq, RingSize
  <2>2. Stored'[i] = serial_rx_buffer[SlotAfter(serial_rx_buffer_tail,
                                                (i - 1) + k)]
    BY <1>1, <1>3, <2>1
  <2>3. QED
    BY <2>1, <2>2, StoredIsSeq
<1>5. SubSeq(Stored, k + 1, Len(Stored))
        = [i \in 1 .. Used' |-> Stored[i + k]]
  <2>1. Len(Stored) = Used /\ Used \in Int /\ k \in Int /\ k >= 0
    BY <1>1, StoredIsSeq
  <2>2. SubSeq(Stored, k + 1, Used)
          = [i \in 1 .. (1 + Used - (k + 1)) |-> Stored[i + (k + 1) - 1]]
    <3>1. \A S : \A s \in Seq(S), m \in Int, n \in Int :
            SubSeq(s, m, n) = [i \in 1 .. (1 + n - m) |-> s[i + m - 1]]
      OBVIOUS
    <3>2. Stored \in Seq(Bytes) /\ k + 1 \in Int
      BY <2>1, StoredIsSeq
    <3> QED BY <2>1, <3>1, <3>2
  <2>3. 1 + Used - (k + 1) = Used'
    BY <1>1, <2>1
  <2>4. \A i \in 1 .. Used' : i + (k + 1) - 1 = i + k
    BY <2>1
  <2>5. QED
    BY <2>1, <2>2, <2>3, <2>4
<1>6. Stored' = SubSeq(Stored, k + 1, Len(Stored))
  <2>1. Stored' = [i \in 1 .. Used' |-> Stored'[i]]
    BY <1>1, <1>3, StoredIsSeq
  <2>2. QED
    BY <1>4, <1>5, <2>1
<1>7. Fifo!Flush(k) /\ k <= Len(Stored)
  BY <1>1, <1>2, <1>6, StoredIsSeq DEF Fifo!Flush
<1>8. QED
  BY <1>1, <1>7

LEMMA StepRefines == IInv /\ IInv' /\ [Next]_vars => [Fifo!Next]_(Fifo!vars)
<1> SUFFICES ASSUME IInv, IInv', [Next]_vars
             PROVE  [Fifo!Next]_(Fifo!vars)
  OBVIOUS
<1>1. ASSUME NEW d \in Bytes, ReceiveISR(d) PROVE Fifo!Next
  <2>1. CASE NextSlot(serial_rx_buffer_head) # serial_rx_buffer_tail
    BY <1>1, <2>1, StoreRefines DEF Fifo!Next
  <2>2. CASE NextSlot(serial_rx_buffer_head) = serial_rx_buffer_tail
    <3>1. UNCHANGED <<ring, main>> /\ overrun' = TRUE
      BY <1>1, <2>2 DEF ReceiveISR, RingIsFull
    <3>2. Used = RX_BUFFER_SIZE
      BY <2>2, SlotArithmetic DEF IInv, TypeOK, Used
    <3>3. Len(Stored) = RX_BUFFER_SIZE
      BY <3>2, StoredIsSeq
    <3>4. Stored' = Stored /\ result' = result
      BY <3>1 DEF Stored, Contents, SlotAfter, Used, Distance, ring, main
    <3>5. QED
      BY <3>1, <3>3, <3>4 DEF Fifo!Next, Fifo!Refuse
  <2>3. QED
    BY <2>1, <2>2
<1>2. CASE ReadTest
  <2>1. /\ UNCHANGED <<ring, serial_rx_buffer_tail, data, overrun>>
        /\ \/ /\ serial_rx_buffer_head = serial_rx_buffer_tail
              /\ result' = NoData
           \/ result' = result
    BY <1>2 DEF ReadTest
  <2>2. Stored' = Stored
    BY <2>1 DEF Stored, Contents, SlotAfter, Used, Distance, ring
  <2>3. CASE result' = result
    BY <2>1, <2>2, <2>3 DEF Fifo!vars
  <2>4. CASE /\ serial_rx_buffer_head = serial_rx_buffer_tail
             /\ result' = NoData
    <3>1. Used = 0
      BY <2>4, SlotArithmetic DEF IInv, TypeOK, Used
    <3>2. Stored = << >>
      BY <3>1, StoredIsSeq
    <3>3. QED
      BY <2>1, <2>2, <2>4, <3>2 DEF Fifo!Next, Fifo!GetNothing
  <2>5. QED
    BY <2>1, <2>3, <2>4
<1>3. CASE ReadLoad
  BY <1>3 DEF ReadLoad, ring, Fifo!vars, Stored, Contents, SlotAfter, Used,
              Distance
<1>4. CASE ReadStore
  BY <1>4, ReadRefines DEF Fifo!Next
<1>5. CASE FlushLoad
  BY <1>5 DEF FlushLoad, FlushedTail, ring, Fifo!vars, Stored, Contents, SlotAfter, Used,
              Distance
<1>6. CASE FlushStore
  BY <1>6, FlushRefines DEF Fifo!Next
<1>7. CASE UNCHANGED vars
  BY <1>7 DEF vars, Fifo!vars, Stored, Contents, SlotAfter, Used, Distance
<1>8. QED
  BY <1>1, <1>2, <1>3, <1>4, <1>5, <1>6, <1>7 DEF Next

(* The interrupt-driven ring is a bounded queue: bytes leave it once and in
   order, none is refused while there is room, "no data" means empty, and a
   flush forgets only what was stored when it began. *)
THEOREM RingImplementsFifo == Spec => FifoSpec
<1>1. QED
  BY InitRefines, StepRefines, InductiveInvariant, PTL
     DEF Spec, FifoSpec, Fifo!Spec

-----------------------------------------------------------------------------
(* The transmit ring. *)

(* What serial_write knows at each of its places, while the interrupt empties
   the ring: its copy of the next head is the one after the head, a slot it has
   found free stays free, and its byte is in it before the head moves on. *)
WriterIsRight ==
  /\ tx_pc # "idle" => tx_data \in Bytes
  /\ tx_pc \in {"room", "full", "store", "advance"} =>
       next_head = TxNextSlot(serial_tx_buffer_head)
  /\ tx_pc \in {"store", "advance"} => next_head # serial_tx_buffer_tail
  /\ tx_pc = "advance" => serial_tx_buffer[serial_tx_buffer_head] = tx_data

(* Every slot between tail and head holds a byte that was written. *)
StoredAreWritten ==
  \A n \in 0 .. TX_BUFFER_SIZE :
    n < TxUsed =>
      serial_tx_buffer[TxSlotAfter(serial_tx_buffer_tail, n)] \in Bytes

(* Between moving the head and enabling the interrupt, the ring does not run
   empty: if the interrupt is on, the UART has two bytes of its own to send
   first, and it shifts out only one of them. *)
SomethingIsLeft ==
  tx_pc = "enable" =>
    /\ TxUsed >= 1
    /\ udrie =>
         \/ ~shifted /\ TxUsed >= 2 /\ udr # NoData /\ shift # NoData
         \/ shifted /\ TxUsed >= 2 /\ (udr # NoData \/ shift # NoData)
         \/ shifted /\ udr # NoData /\ shift # NoData

TxIInv == /\ TxTypeOK /\ WriterIsRight /\ StoredAreWritten
          /\ SomethingIsLeft /\ EnabledWhileStored

-----------------------------------------------------------------------------
LEMMA TxRingSize == /\ TX_BUFFER_SIZE \in Nat /\ TX_BUFFER_SIZE >= 1
                    /\ TX_RING_BUFFER \in Nat
                    /\ TX_RING_BUFFER = TX_BUFFER_SIZE + 1
                    /\ NoData \notin Bytes
BY TxAssumption, RxAssumption DEF TX_RING_BUFFER

(* The number of slots from one index forward to another. *)
TxDistance(from, to) == IF to >= from THEN to - from
                                      ELSE TX_RING_BUFFER - (from - to)

LEMMA TxSlotArithmetic ==
  ASSUME NEW i \in TxSlots, NEW j \in TxSlots
  PROVE  /\ TxNextSlot(i) \in TxSlots
         /\ TxDistance(i, j) \in 0 .. TX_BUFFER_SIZE
         /\ TxDistance(i, j) = 0 <=> i = j
         /\ TxSlotAfter(i, TxDistance(i, j)) = j
         /\ TxSlotAfter(i, 0) = i
         /\ i # j => TxDistance(TxNextSlot(i), j) = TxDistance(i, j) - 1
         /\ TxNextSlot(j) # i
              => TxDistance(i, TxNextSlot(j)) = TxDistance(i, j) + 1
BY TxRingSize DEF TxSlots, TxNextSlot, TxDistance, TxSlotAfter

LEMMA TxSlotAfterFacts ==
  ASSUME NEW i \in TxSlots, NEW m \in 0 .. TX_BUFFER_SIZE,
         NEW n \in 0 .. TX_BUFFER_SIZE
  PROVE  /\ TxSlotAfter(i, n) \in TxSlots
         /\ TxSlotAfter(i, m) = TxSlotAfter(i, n) => m = n
         /\ n + 1 <= TX_BUFFER_SIZE
              => TxSlotAfter(TxNextSlot(i), n) = TxSlotAfter(i, n + 1)
BY TxRingSize DEF TxSlots, TxNextSlot, TxSlotAfter

(* How full the ring is, as a distance. *)
LEMMA TxUsedIsDistance ==
  ASSUME TxTypeOK
  PROVE  /\ TxUsed = TxDistance(serial_tx_buffer_tail, serial_tx_buffer_head)
         /\ TxUsed \in 0 .. TX_BUFFER_SIZE
         /\ TxUsed = 0 <=> serial_tx_buffer_head = serial_tx_buffer_tail
         /\ TxSlotAfter(serial_tx_buffer_tail, TxUsed) = serial_tx_buffer_head
<1>1. TxUsed = TxDistance(serial_tx_buffer_tail, serial_tx_buffer_head)
  BY DEF TxUsed, TxDistance
<1>2. serial_tx_buffer_tail \in TxSlots /\ serial_tx_buffer_head \in TxSlots
  BY DEF TxTypeOK
<1>3. QED
  BY <1>1, <1>2, TxSlotArithmetic

-----------------------------------------------------------------------------
LEMMA InitTxIInv == TxInit => TxIInv
<1> SUFFICES ASSUME TxInit PROVE TxIInv
  OBVIOUS
<1>1. TxUsed = 0
  BY DEF TxInit, TxUsed
<1>2. TxTypeOK
  <2>1. 0 \in TxSlots
    BY TxRingSize DEF TxSlots
  <2>2. {udrie, shifted, reset} \subseteq BOOLEAN
    BY Zenon DEF TxInit
  <2>3. QED
    BY <2>1, <2>2, Zenon DEF TxInit, TxTypeOK
<1>3. StoredAreWritten
  BY <1>1, TxRingSize DEF StoredAreWritten
<1>4. WriterIsRight /\ SomethingIsLeft /\ EnabledWhileStored
  BY <1>1 DEF TxInit, WriterIsRight, SomethingIsLeft, EnabledWhileStored
<1>5. QED
  BY <1>2, <1>3, <1>4 DEF TxIInv

(* The steps that leave the ring, the interrupt and the UART alone: they only
   move serial_write on, and leave nothing half stored. *)
LEMMA WriterStepKeepsTxIInv ==
  ASSUME TxIInv, WriterIsRight', tx_pc' # "enable", tx_pc # "enable",
         tx_pc' \in {"idle", "room", "full", "store", "advance"},
         tx_data' \in Bytes \cup {NoData}, next_head' \in TxSlots,
         reset' \in BOOLEAN,
         UNCHANGED <<txRing, serial_tx_buffer_tail, udrie, uart, sent>>
  PROVE  TxIInv'
<1>1. /\ serial_tx_buffer' = serial_tx_buffer
      /\ serial_tx_buffer_head' = serial_tx_buffer_head
      /\ serial_tx_buffer_tail' = serial_tx_buffer_tail
      /\ udrie' = udrie /\ udr' = udr /\ shift' = shift
      /\ shifted' = shifted /\ sent' = sent
  BY DEF txRing, uart
<1>2. TxUsed' = TxUsed
  BY <1>1 DEF TxUsed
<1>3. TxTypeOK'
  BY <1>1, Zenon DEF TxIInv, TxTypeOK
<1>4. StoredAreWritten'
  BY <1>1, <1>2 DEF TxIInv, StoredAreWritten, TxSlotAfter
<1>5. SomethingIsLeft' /\ EnabledWhileStored'
  BY <1>1, <1>2 DEF TxIInv, SomethingIsLeft, EnabledWhileStored
<1>6. QED
  BY <1>3, <1>4, <1>5 DEF TxIInv

(* The byte goes to the slot at the head, which is not in use. *)
LEMMA StoreKeepsTxIInv ==
  ASSUME TxIInv, WriteStore
  PROVE  TxIInv' /\ TxUsed' = TxUsed /\ TxStored' = TxStored
<1> DEFINE h == serial_tx_buffer_head
           t == serial_tx_buffer_tail
<1>0. /\ TxTypeOK /\ WriterIsRight /\ StoredAreWritten /\ EnabledWhileStored
      /\ h \in TxSlots /\ t \in TxSlots /\ tx_pc = "store"
      /\ tx_pc' = "advance"
      /\ serial_tx_buffer' = [serial_tx_buffer EXCEPT ![h] = tx_data]
      /\ serial_tx_buffer \in [TxSlots -> Bytes \cup {NoData}]
      /\ tx_data \in Bytes
      /\ h' = h /\ t' = t /\ tx_data' = tx_data /\ next_head' = next_head
      /\ udrie' = udrie /\ udr' = udr /\ shift' = shift /\ shifted' = shifted
      /\ sent' = sent /\ reset' = reset
  BY DEF TxIInv, TxTypeOK, WriterIsRight, WriteStore, StoredByte, Main, uart
<1>1. TxUsed' = TxUsed
  BY <1>0 DEF TxUsed
<1>2. TxUsed \in 0 .. TX_BUFFER_SIZE /\ TxSlotAfter(t, TxUsed) = h
  BY <1>0, TxUsedIsDistance
<1>3. \A n \in 0 .. TX_BUFFER_SIZE : n < TxUsed =>
        serial_tx_buffer'[TxSlotAfter(t, n)]
          = serial_tx_buffer[TxSlotAfter(t, n)]
  <2> SUFFICES ASSUME NEW n \in 0 .. TX_BUFFER_SIZE, n < TxUsed
               PROVE  serial_tx_buffer'[TxSlotAfter(t, n)]
                        = serial_tx_buffer[TxSlotAfter(t, n)]
    OBVIOUS
  <2>1. TxSlotAfter(t, n) # h
    BY <1>0, <1>2, TxSlotAfterFacts, TxRingSize
  <2>2. TxSlotAfter(t, n) \in TxSlots
    BY <1>0, TxSlotAfterFacts
  <2>3. QED
    BY <1>0, <2>1, <2>2
<1>4. TxTypeOK'
  <2>1. serial_tx_buffer' \in [TxSlots -> Bytes \cup {NoData}]
    BY <1>0
  <2>2. QED
    BY <1>0, <2>1 DEF TxTypeOK
<1>5. WriterIsRight'
  BY <1>0 DEF WriterIsRight, TxNextSlot
<1>6. StoredAreWritten'
  BY <1>0, <1>1, <1>3 DEF StoredAreWritten, TxSlotAfter
<1>7. SomethingIsLeft' /\ EnabledWhileStored'
  BY <1>0, <1>1 DEF SomethingIsLeft, EnabledWhileStored
<1>8. TxStored' = TxStored
  <2>1. \A i \in 1 .. TxUsed :
          serial_tx_buffer'[TxSlotAfter(t, i - 1)]
            = serial_tx_buffer[TxSlotAfter(t, i - 1)]
    <3> SUFFICES ASSUME NEW i \in 1 .. TxUsed
                 PROVE  serial_tx_buffer'[TxSlotAfter(t, i - 1)]
                          = serial_tx_buffer[TxSlotAfter(t, i - 1)]
      OBVIOUS
    <3>1. i - 1 \in 0 .. TX_BUFFER_SIZE /\ i - 1 < TxUsed
      BY <1>2, TxRingSize
    <3>2. QED
      BY <1>3, <3>1
  <2>2. QED
    BY <1>0, <1>1, <2>1 DEF TxStored, TxSlotAfter
<1>9. QED
  BY <1>1, <1>4, <1>5, <1>6, <1>7, <1>8 DEF TxIInv

(* The head moves past the byte: now it is stored.  An enabled interrupt has
   nothing to do at this point only because the UART holds two bytes. *)
LEMMA AdvanceKeepsTxIInv ==
  ASSUME TxIInv, WriteAdvance
  PROVE  /\ TxIInv'
         /\ TxUsed' = TxUsed + 1 /\ TxUsed < TX_BUFFER_SIZE
         /\ serial_tx_buffer[TxSlotAfter(serial_tx_buffer_tail, TxUsed)]
              = tx_data
         /\ tx_data \in Bytes
<1> DEFINE h == serial_tx_buffer_head
           t == serial_tx_buffer_tail
<1>0. /\ TxTypeOK /\ WriterIsRight /\ StoredAreWritten /\ EnabledWhileStored
      /\ h \in TxSlots /\ t \in TxSlots /\ tx_pc = "advance"
      /\ tx_pc' = "enable"
      /\ ~(udrie /\ udr = NoData) /\ ~(shift = NoData /\ udr # NoData)
      /\ tx_data \in Bytes /\ serial_tx_buffer[h] = tx_data
      /\ next_head = TxNextSlot(h) /\ next_head # t
      /\ h' = next_head /\ t' = t /\ serial_tx_buffer' = serial_tx_buffer
      /\ tx_data' = tx_data /\ next_head' = next_head
      /\ udrie' = udrie /\ udr' = udr /\ shift' = shift /\ shifted' = FALSE
      /\ sent' = sent /\ reset' = reset
  BY DEF TxIInv, TxTypeOK, WriterIsRight, WriteAdvance, Main, Due, Shifts
<1>1. /\ TxUsed = TxDistance(t, h)
      /\ TxUsed \in 0 .. TX_BUFFER_SIZE /\ TxSlotAfter(t, TxUsed) = h
  BY <1>0, TxUsedIsDistance
<1>2. TxUsed' = TxDistance(t, next_head)
  BY <1>0 DEF TxUsed, TxDistance
<1>3. /\ TxUsed' = TxUsed + 1 /\ TxUsed' \in 0 .. TX_BUFFER_SIZE
      /\ next_head \in TxSlots
  BY <1>0, <1>1, <1>2, TxSlotArithmetic
<1>4. TxTypeOK'
  BY <1>0, <1>3 DEF TxTypeOK
<1>5. WriterIsRight'
  BY <1>0 DEF WriterIsRight
<1>6. StoredAreWritten'
  <2> SUFFICES ASSUME NEW n \in 0 .. TX_BUFFER_SIZE, n < TxUsed'
               PROVE  serial_tx_buffer[TxSlotAfter(t, n)] \in Bytes
    BY <1>0 DEF StoredAreWritten, TxSlotAfter
  <2>1. CASE n < TxUsed
    BY <1>0, <2>1 DEF StoredAreWritten
  <2>2. CASE n = TxUsed
    BY <1>0, <1>1, <2>2
  <2>3. QED
    BY <1>1, <1>3, <2>1, <2>2
<1>7. SomethingIsLeft'
  <2>1. TxUsed' >= 1
    BY <1>1, <1>3
  <2>2. udrie => TxUsed' >= 2
    BY <1>0, <1>1, <1>3 DEF EnabledWhileStored
  <2>3. udrie => udr # NoData /\ shift # NoData
    BY <1>0
  <2>4. QED
    BY <1>0, <2>1, <2>2, <2>3, Zenon DEF SomethingIsLeft
<1>8. EnabledWhileStored'
  BY <1>0, <1>1, <1>3 DEF EnabledWhileStored
<1>9. TxUsed < TX_BUFFER_SIZE
  BY <1>1, <1>3, TxRingSize
<1>10. QED
  BY <1>0, <1>1, <1>3, <1>4, <1>5, <1>6, <1>7, <1>8, <1>9 DEF TxIInv

LEMMA EnableKeepsTxIInv ==
  ASSUME TxIInv, WriteEnable
  PROVE  TxIInv'
<1>0. /\ TxTypeOK /\ WriterIsRight /\ StoredAreWritten
      /\ tx_pc = "enable" /\ tx_pc' = "idle" /\ udrie' = TRUE
      /\ serial_tx_buffer' = serial_tx_buffer
      /\ serial_tx_buffer_head' = serial_tx_buffer_head
      /\ serial_tx_buffer_tail' = serial_tx_buffer_tail
      /\ tx_data' = tx_data /\ next_head' = next_head
      /\ udr' = udr /\ shift' = shift /\ shifted' = shifted
      /\ sent' = sent /\ reset' = reset /\ TxUsed >= 1
  BY DEF TxIInv, WriteEnable, Enabled, Main, SomethingIsLeft, txRing, uart
<1>1. TxUsed' = TxUsed /\ TxUsed \in 0 .. TX_BUFFER_SIZE
  BY <1>0, TxUsedIsDistance DEF TxUsed
<1>2. TxTypeOK'
  <2>1. udrie' \in BOOLEAN
    BY <1>0, Zenon
  <2>2. QED
    BY <1>0, <2>1 DEF TxTypeOK
<1>3. WriterIsRight' /\ SomethingIsLeft'
  BY <1>0 DEF WriterIsRight, SomethingIsLeft
<1>4. StoredAreWritten'
  BY <1>0, <1>1 DEF StoredAreWritten, TxSlotAfter
<1>5. EnabledWhileStored'
  BY <1>0, <1>1 DEF EnabledWhileStored
<1>6. QED
  BY <1>2, <1>3, <1>4, <1>5 DEF TxIInv

(* The interrupt takes the oldest byte, and turns itself off with the last. *)
LEMMA DataRegisterKeepsTxIInv ==
  ASSUME TxIInv, DataRegisterISR
  PROVE  /\ TxIInv'
         /\ TxUsed > 0 /\ TxUsed' = TxUsed - 1
         /\ sent' = serial_tx_buffer[serial_tx_buffer_tail]
         /\ serial_tx_buffer_tail' = TxNextSlot(serial_tx_buffer_tail)
         /\ serial_tx_buffer' = serial_tx_buffer
<1> DEFINE h == serial_tx_buffer_head
           t == serial_tx_buffer_tail
<1>0. /\ TxTypeOK /\ WriterIsRight /\ StoredAreWritten /\ EnabledWhileStored
      /\ SomethingIsLeft
      /\ h \in TxSlots /\ t \in TxSlots /\ udrie /\ udr = NoData
      /\ udr' = serial_tx_buffer[t] /\ sent' = udr'
      /\ t' = TxNextSlot(t) /\ udrie' = (t' # h)
      /\ h' = h /\ serial_tx_buffer' = serial_tx_buffer
      /\ tx_pc' = tx_pc /\ tx_data' = tx_data /\ next_head' = next_head
      /\ shift' = shift /\ shifted' = shifted /\ reset' = reset
      /\ TxUsed > 0
  BY DEF TxIInv, TxTypeOK, DataRegisterISR, Due, StaysOn, txRing, writer,
         EnabledWhileStored
<1>1. /\ TxUsed = TxDistance(t, h)
      /\ TxUsed \in 0 .. TX_BUFFER_SIZE /\ h # t
  BY <1>0, TxUsedIsDistance
<1>2. TxUsed' = TxDistance(TxNextSlot(t), h)
  BY <1>0 DEF TxUsed, TxDistance
<1>3. /\ TxUsed' = TxUsed - 1 /\ TxNextSlot(t) \in TxSlots
      /\ TxUsed' = 0 <=> TxNextSlot(t) = h
      /\ TxSlotAfter(t, 0) = t
  BY <1>0, <1>1, <1>2, TxSlotArithmetic
<1>4. udr' \in Bytes /\ udr' # NoData
  BY <1>0, <1>3, TxRingSize DEF StoredAreWritten
<1>5. TxTypeOK'
  <2>1. udrie' \in BOOLEAN
    BY <1>0, Zenon
  <2>2. QED
    BY <1>0, <1>3, <1>4, <2>1 DEF TxTypeOK
<1>6. WriterIsRight'
  <2>1. tx_pc \in {"store", "advance"} => next_head # TxNextSlot(t)
    BY <1>0, <1>1 DEF WriterIsRight, TxNextSlot, TxSlots
  <2>2. QED
    BY <1>0, <2>1 DEF WriterIsRight, TxNextSlot
<1>7. StoredAreWritten'
  <2> SUFFICES ASSUME NEW n \in 0 .. TX_BUFFER_SIZE, n < TxUsed'
               PROVE  serial_tx_buffer[TxSlotAfter(TxNextSlot(t), n)] \in Bytes
    BY <1>0 DEF StoredAreWritten, TxSlotAfter
  <2>1. n + 1 \in 0 .. TX_BUFFER_SIZE /\ n + 1 < TxUsed
    BY <1>1, <1>3, TxRingSize
  <2>2. TxSlotAfter(TxNextSlot(t), n) = TxSlotAfter(t, n + 1)
    BY <1>0, <2>1, TxSlotAfterFacts
  <2>3. QED
    BY <1>0, <2>1, <2>2 DEF StoredAreWritten
<1>8. SomethingIsLeft'
  <2> SUFFICES ASSUME tx_pc = "enable"
               PROVE  /\ TxUsed' >= 1
                      /\ shifted /\ udr' # NoData /\ shift # NoData
    BY <1>0, Zenon DEF SomethingIsLeft
  <2>1. shifted /\ TxUsed >= 2 /\ shift # NoData
    BY <1>0 DEF SomethingIsLeft
  <2>2. QED
    BY <1>1, <1>3, <1>4, <2>1
<1>9. EnabledWhileStored'
  <2>1. TxUsed' > 0 <=> TxNextSlot(t) # h
    BY <1>0, <1>1, <1>3
  <2>2. udrie' <=> TxNextSlot(t) # h
    BY <1>0, Zenon
  <2>3. QED
    BY <2>1, <2>2, Zenon DEF EnabledWhileStored
<1>10. QED
  BY <1>0, <1>3, <1>5, <1>6, <1>7, <1>8, <1>9 DEF TxIInv

LEMMA StepKeepsTxIInv == TxIInv /\ [TxNext]_txVars => TxIInv'
<1> SUFFICES ASSUME TxIInv, [TxNext]_txVars PROVE TxIInv'
  OBVIOUS
<1>0. TxTypeOK /\ WriterIsRight
  BY DEF TxIInv
<1>1. ASSUME NEW d \in Bytes, WriteTest(d) PROVE TxIInv'
  <2>1. /\ tx_pc = "idle" /\ tx_pc' = "room" /\ tx_data' = d
        /\ next_head' = TxNextSlot(serial_tx_buffer_head)
        /\ UNCHANGED <<txRing, serial_tx_buffer_tail, udrie, uart, sent>>
        /\ reset' = reset
    BY <1>1 DEF WriteTest, Main
  <2>2. next_head' \in TxSlots /\ reset' \in BOOLEAN
    BY <1>0, <2>1, TxSlotArithmetic DEF TxTypeOK
  <2>3. WriterIsRight'
    BY <2>1 DEF WriterIsRight, TxNextSlot, txRing
  <2>4. QED
    BY <2>1, <2>2, <2>3, WriterStepKeepsTxIInv
<1>2. CASE WriteRoom
  <2>1. /\ tx_pc = "room"
        /\ tx_pc' = IF next_head = serial_tx_buffer_tail
                    THEN "full" ELSE "store"
        /\ UNCHANGED <<txRing, serial_tx_buffer_tail, udrie, uart, sent>>
        /\ tx_data' = tx_data /\ next_head' = next_head /\ reset' = reset
    BY <1>2 DEF WriteRoom, Main
  <2>2. WriterIsRight'
    BY <1>0, <2>1 DEF WriterIsRight, TxNextSlot, txRing
  <2>3. QED
    BY <1>0, <2>1, <2>2, WriterStepKeepsTxIInv DEF TxTypeOK
<1>3. CASE WriteWait
  <2>1. /\ tx_pc = "full" /\ tx_pc' \in {"idle", "room"}
        /\ UNCHANGED <<txRing, serial_tx_buffer_tail, udrie, uart, sent>>
        /\ tx_data' = tx_data /\ next_head' = next_head /\ reset' = reset
    BY <1>3 DEF WriteWait, Main
  <2>2. WriterIsRight'
    BY <1>0, <2>1 DEF WriterIsRight, TxNextSlot, txRing
  <2>3. QED
    BY <1>0, <2>1, <2>2, WriterStepKeepsTxIInv DEF TxTypeOK
<1>4. CASE WriteStore
  BY <1>4, StoreKeepsTxIInv
<1>5. CASE WriteAdvance
  BY <1>5, AdvanceKeepsTxIInv
<1>6. CASE WriteEnable
  BY <1>6, EnableKeepsTxIInv
<1>7. CASE ClearReset \/ SetReset
  <2>1. /\ UNCHANGED <<txRing, serial_tx_buffer_tail, udrie, uart, sent,
                       writer>>
        /\ reset' \in BOOLEAN
    BY <1>7, Zenon DEF ClearReset, SetReset
  <2>2. QED
    BY <2>1 DEF TxIInv, TxTypeOK, WriterIsRight, StoredAreWritten,
                SomethingIsLeft, EnabledWhileStored, TxUsed, TxSlotAfter,
                TxNextSlot, txRing, uart, writer
<1>8. CASE DataRegisterISR
  BY <1>8, DataRegisterKeepsTxIInv
<1>9. CASE Shift \/ Shifted
  <2>1. /\ UNCHANGED <<txRing, serial_tx_buffer_tail, udrie, sent, writer,
                       reset>>
        /\ TxUsed' = TxUsed
    BY <1>9 DEF Shift, Shifted, TxUsed, txRing
  <2>2. /\ udr' \in Bytes \cup {NoData} /\ shift' \in Bytes \cup {NoData}
        /\ shifted' \in BOOLEAN
    BY <1>0, <1>9, Zenon DEF Shift, Shifted, TxTypeOK
  <2>3. TxTypeOK'
    BY <1>0, <2>1, <2>2 DEF TxTypeOK, txRing, writer
  <2>4. WriterIsRight' /\ StoredAreWritten' /\ EnabledWhileStored'
    BY <2>1 DEF TxIInv, WriterIsRight, StoredAreWritten, EnabledWhileStored,
                TxSlotAfter, TxNextSlot, txRing, writer
  <2>5. SomethingIsLeft'
    BY <1>9, <2>1 DEF TxIInv, SomethingIsLeft, Shift, Shifted, Shifts, writer
  <2>6. QED
    BY <2>3, <2>4, <2>5 DEF TxIInv
<1>10. CASE UNCHANGED txVars
  BY <1>10 DEF TxIInv, TxTypeOK, WriterIsRight, StoredAreWritten,
               SomethingIsLeft, EnabledWhileStored, TxUsed, TxSlotAfter,
               TxNextSlot, txRing, uart, writer, txVars
<1>11. QED
  BY <1>1, <1>2, <1>3, <1>4, <1>5, <1>6, <1>7, <1>8, <1>9, <1>10
     DEF TxNext, Writer, WriteOn, Transmitter

-----------------------------------------------------------------------------
(* The safety part of the specification: the theorems need no fairness. *)
LEMMA TxSpecSteps == TxSpec => TxInit /\ [][TxNext]_txVars
BY PTL DEF TxSpec

(* What serial_write and its interrupt keep true at every access of either,
   whatever the size of the ring. *)
THEOREM TxInductiveInvariant == TxSpec => []TxIInv
<1>1. QED
  BY InitTxIInv, StepKeepsTxIInv, TxSpecSteps, PTL

(* Indices, slots, the writer's locals and the UART's bytes stay in range,
   for every ring size and byte set. *)
THEOREM TxTypeCorrect == TxSpec => []TxTypeOK
<1>1. TxIInv => TxTypeOK
  BY DEF TxIInv
<1>2. QED
  BY <1>1, TxInductiveInvariant, PTL

(* ISR(SERIAL_UDRE) is enabled exactly while there is something to send, but
   for the moment before serial_write enables it: no reply gets stuck in the
   ring, and an enabled interrupt never finds it empty. *)
THEOREM InterruptFollowsRing == TxSpec => []EnabledWhileStored
<1>1. TxIInv => EnabledWhileStored
  BY DEF TxIInv
<1>2. QED
  BY <1>1, TxInductiveInvariant, PTL

-----------------------------------------------------------------------------
(* The stored bytes as a sequence. *)
LEMMA TxStoredIsSeq ==
  ASSUME TxIInv
  PROVE  /\ TxUsed \in 0 .. TX_BUFFER_SIZE
         /\ TxStored \in Seq(Bytes)
         /\ Len(TxStored) = TxUsed
         /\ \A i \in 1 .. TxUsed :
              TxStored[i] = serial_tx_buffer[TxSlotAfter(serial_tx_buffer_tail,
                                                         i - 1)]
<1>1. TxUsed \in 0 .. TX_BUFFER_SIZE
  BY TxUsedIsDistance DEF TxIInv
<1>2. \A i \in 1 .. TxUsed :
        serial_tx_buffer[TxSlotAfter(serial_tx_buffer_tail, i - 1)] \in Bytes
  <2> SUFFICES ASSUME NEW i \in 1 .. TxUsed
               PROVE  serial_tx_buffer[TxSlotAfter(serial_tx_buffer_tail,
                                                   i - 1)] \in Bytes
    OBVIOUS
  <2>1. i - 1 \in 0 .. TX_BUFFER_SIZE /\ i - 1 < TxUsed
    BY <1>1, TxRingSize
  <2>2. QED
    BY <2>1 DEF TxIInv, StoredAreWritten
<1>3. QED
  BY <1>1, <1>2, TxRingSize DEF TxStored

LEMMA TxStoredIsSeqNext ==
  ASSUME TxIInv'
  PROVE  /\ TxUsed' \in 0 .. TX_BUFFER_SIZE
         /\ TxStored' \in Seq(Bytes)
         /\ Len(TxStored') = TxUsed'
         /\ \A i \in 1 .. TxUsed' :
              TxStored'[i]
                = serial_tx_buffer'[TxSlotAfter(serial_tx_buffer_tail', i - 1)]
<1> DEFINE t == serial_tx_buffer_tail'
<1>1. /\ TxUsed' = TxDistance(t, serial_tx_buffer_head')
      /\ t \in TxSlots /\ serial_tx_buffer_head' \in TxSlots
  BY DEF TxUsed, TxDistance, TxIInv, TxTypeOK
<1>2. TxUsed' \in 0 .. TX_BUFFER_SIZE
  BY <1>1, TxSlotArithmetic
<1>3. \A i \in 1 .. TxUsed' :
        serial_tx_buffer'[TxSlotAfter(t, i - 1)] \in Bytes
  <2> SUFFICES ASSUME NEW i \in 1 .. TxUsed'
               PROVE  serial_tx_buffer'[TxSlotAfter(t, i - 1)] \in Bytes
    OBVIOUS
  <2>1. i - 1 \in 0 .. TX_BUFFER_SIZE /\ i - 1 < TxUsed'
    BY <1>2, TxRingSize
  <2>2. QED
    BY <2>1 DEF TxIInv, StoredAreWritten, TxSlotAfter
<1>4. TxStored' = [i \in 1 .. TxUsed' |->
                     serial_tx_buffer'[TxSlotAfter(t, i - 1)]]
  BY DEF TxStored, TxSlotAfter
<1>5. QED
  BY <1>2, <1>3, <1>4, TxRingSize

LEMMA TxInitRefines == TxInit => TxFifo!Init
<1> SUFFICES ASSUME TxInit PROVE TxFifo!Init
  OBVIOUS
<1>1. TxUsed = 0
  BY DEF TxInit, TxUsed
<1>2. TxStored = << >>
  BY <1>1 DEF TxStored
<1>3. QED
  BY <1>2 DEF TxInit, TxFifo!Init

(* Moving the head puts the byte in. *)
LEMMA AdvanceRefines ==
  ASSUME TxIInv, TxIInv', WriteAdvance
  PROVE  TxFifo!Put(tx_data) /\ tx_data \in Bytes
<1> DEFINE t == serial_tx_buffer_tail
<1>1. /\ TxUsed' = TxUsed + 1 /\ TxUsed < TX_BUFFER_SIZE
      /\ serial_tx_buffer[TxSlotAfter(t, TxUsed)] = tx_data
      /\ tx_data \in Bytes
  BY AdvanceKeepsTxIInv
<1>2. /\ serial_tx_buffer' = serial_tx_buffer /\ t' = t /\ sent' = sent
  BY DEF WriteAdvance
<1>3. /\ TxStored' \in Seq(Bytes) /\ Len(TxStored') = TxUsed'
      /\ \A i \in 1 .. TxUsed' :
           TxStored'[i] = serial_tx_buffer[TxSlotAfter(t, i - 1)]
  BY <1>2, TxStoredIsSeqNext
<1>4. \A i \in 1 .. TxUsed' : TxStored'[i] = Append(TxStored, tx_data)[i]
  <2> SUFFICES ASSUME NEW i \in 1 .. TxUsed'
               PROVE  TxStored'[i] = Append(TxStored, tx_data)[i]
    OBVIOUS
  <2>1. CASE i <= TxUsed
    <3>1. TxStored'[i] = TxStored[i] /\ i \in 1 .. TxUsed
      BY <1>3, <2>1, TxStoredIsSeq
    <3>2. QED
      BY <3>1, TxStoredIsSeq
  <2>2. CASE i = TxUsed + 1
    <3>1. TxStored'[i] = tx_data
      BY <2>2, <1>1, <1>3, TxStoredIsSeq
    <3>2. Append(TxStored, tx_data)[i] = tx_data
      BY <2>2, TxStoredIsSeq
    <3>3. QED
      BY <3>1, <3>2
  <2>3. QED
    BY <1>1, <2>1, <2>2, TxStoredIsSeq
<1>5. TxStored' = Append(TxStored, tx_data)
  BY <1>1, <1>3, <1>4, TxStoredIsSeq
<1>6. QED
  BY <1>1, <1>2, <1>5, TxStoredIsSeq DEF TxFifo!Put

(* The interrupt takes the oldest byte out. *)
LEMMA DataRegisterRefines ==
  ASSUME TxIInv, TxIInv', DataRegisterISR
  PROVE  TxFifo!Get
<1> DEFINE t == serial_tx_buffer_tail
<1>1. /\ TxUsed > 0 /\ TxUsed' = TxUsed - 1
      /\ sent' = serial_tx_buffer[t]
      /\ t' = TxNextSlot(t) /\ serial_tx_buffer' = serial_tx_buffer
      /\ t \in TxSlots
  BY DataRegisterKeepsTxIInv DEF TxIInv, TxTypeOK
<1>2. /\ TxStored' \in Seq(Bytes) /\ Len(TxStored') = TxUsed'
      /\ \A i \in 1 .. TxUsed' :
           TxStored'[i] = serial_tx_buffer[TxSlotAfter(TxNextSlot(t), i - 1)]
  BY <1>1, TxStoredIsSeqNext
<1>3. Head(TxStored) = sent'
  <2>1. TxSlotAfter(t, 0) = t
    BY <1>1, TxSlotArithmetic
  <2>2. Head(TxStored) = TxStored[1] /\ 1 \in 1 .. TxUsed
    BY <1>1, TxStoredIsSeq
  <2>3. QED
    BY <1>1, <2>1, <2>2, TxStoredIsSeq
<1>4. \A i \in 1 .. TxUsed' : TxStored'[i] = Tail(TxStored)[i]
  <2> SUFFICES ASSUME NEW i \in 1 .. TxUsed'
               PROVE  TxStored'[i] = Tail(TxStored)[i]
    OBVIOUS
  <2>1. /\ i - 1 \in 0 .. TX_BUFFER_SIZE
        /\ (i - 1) + 1 <= TX_BUFFER_SIZE
        /\ i + 1 \in 1 .. TxUsed /\ (i + 1) - 1 = (i - 1) + 1
    BY <1>1, TxStoredIsSeq, TxRingSize
  <2>2. TxSlotAfter(TxNextSlot(t), i - 1) = TxSlotAfter(t, (i - 1) + 1)
    BY <1>1, <2>1, TxSlotAfterFacts
  <2>3. TxStored'[i] = TxStored[i + 1]
    BY <1>2, <2>1, <2>2, TxStoredIsSeq
  <2>4. Tail(TxStored)[i] = TxStored[i + 1]
    BY <1>1, <2>1, TxStoredIsSeq
  <2>5. QED
    BY <2>3, <2>4
<1>5. TxStored' = Tail(TxStored)
  BY <1>1, <1>2, <1>4, TxStoredIsSeq
<1>6. QED
  BY <1>1, <1>3, <1>5, TxStoredIsSeq DEF TxFifo!Get

LEMMA TxStepRefines ==
  TxIInv /\ TxIInv' /\ [TxNext]_txVars => [TxFifo!Next]_(TxFifo!vars)
<1> SUFFICES ASSUME TxIInv, TxIInv', [TxNext]_txVars
             PROVE  [TxFifo!Next]_(TxFifo!vars)
  OBVIOUS
<1>1. CASE WriteAdvance
  BY <1>1, AdvanceRefines DEF TxFifo!Next
<1>2. CASE DataRegisterISR
  BY <1>2, DataRegisterRefines DEF TxFifo!Next
<1>3. CASE WriteStore
  BY <1>3, StoreKeepsTxIInv DEF WriteStore, TxFifo!vars
<1>4. CASE UNCHANGED <<txRing, serial_tx_buffer_tail, sent>>
  BY <1>4 DEF txRing, TxFifo!vars, TxStored, TxUsed, TxSlotAfter
<1>5. QED
  BY <1>1, <1>2, <1>3, <1>4
     DEF TxNext, Writer, WriteOn, Transmitter, WriteTest, WriteRoom, WriteWait,
         WriteEnable, ClearReset, SetReset, Shift, Shifted, txVars

(* The transmit ring is a bounded queue: what the host receives is what
   serial_write was given, once and in order, and nothing is lost in between,
   whatever the interrupt does and whatever the ring's size. *)
THEOREM TxRingImplementsFifo == TxSpec => TxFifoSpec
<1>1. QED
  BY TxInitRefines, TxStepRefines, TxInductiveInvariant, TxSpecSteps, PTL
     DEF TxFifoSpec, TxFifo!Spec

-----------------------------------------------------------------------------
(* The connection of the two programs. *)

Signals == {"request", "reply", "disconnect"}

(* Each reply in a queue is followed by a disconnect or a request; m is the
   last signal in a queue, and the only one that connects. *)
RepliesFollowed(s) ==
  \A i \in 1 .. Len(s) :
    s[i] = "reply" => \E j \in i + 1 .. Len(s) : s[j] \in {"disconnect", "request"}
EndsWith(s, m) ==
  \E i \in 1 .. Len(s) :
    /\ s[i] = m
    /\ \A j \in 1 .. Len(s) : /\ j < i => s[j] \notin {"request", "reply"}
                              /\ j > i => s[j] \notin Signals
NoSignals(s) == \A m \in Signals : ~Contains(s, m)
NothingConnects(s) == ~Contains(s, "request") /\ ~Contains(s, "reply")
Breaks(s) == Contains(s, "disconnect") \/ Contains(s, "request")

(* What a thread has composed and not sent yet is what the object holds. *)
ComposedIsHeld(h) ==
  /\ key[h] \in {"disconnect", "request"} => msg[h] = key[h]
  /\ key[h] = "exit" => msg[h] = "disconnect"
  /\ osc[h] \in {"reply", "disconnect"} => msg[h] = osc[h]
  /\ pen[h] = "tabletInput" => msg[h] = "tabletInput"

(* A disconnect or a request of host o is still to be sent. *)
Announces(o) == \/ key[o] \in {"disconnect", "compose", "request", "exit"}
                \/ osc[o] = "disconnect"

(* A reply does not come alone, if its sender has disconnected since. *)
RepliesHold(h, o) == \/ isConnected[o] \/ osc[o] = "connect" \/ Announces(o)
                     \/ RepliesFollowed(net[h])
AnswersHold(h, o) ==
  osc[h] = "connect" => \/ isConnected[o] \/ Announces(o)
                        \/ Contains(net[o], "reply") \/ Breaks(net[h])

(* A side that holds itself for connected and is alone with that is about to be
   told, or the other one to be connected. *)
Mends(h, o) ==
  \/ Breaks(net[h]) \/ Announces(o) \/ osc[o] \in {"reply", "connect"}
  \/ ~NothingConnects(net[o])
  \/ osc[h] = "reply" \/ key[h] \in {"disconnect", "compose", "request"}
Matched(h, o) ==
  isConnected[h] /\ ~isConnected[o] =>
    IF key[o] = "stopped" THEN Contains(net[h], "disconnect") ELSE Mends(h, o)

(* A program that ends, or has ended, has nothing in flight that connects. *)
Away(o, h) ==
  key[o] \in {"exit", "stopped"} =>
    /\ ~isConnected[o] /\ osc[o] = "idle" /\ pen[o] = "idle"
    /\ osc[h] \notin {"reply", "connect"}
    /\ NothingConnects(net[h]) /\ ~Contains(net[o], "reply")

Side(h, o) ==
  RepliesHold(h, o) /\ AnswersHold(h, o) /\ Matched(h, o) /\ Away(h, o)
SidesFit == \A h \in Hosts : Side(h, Other(h))

(* The way from a press on a quiet link to the connection. *)
NotAnswered(p) ==
  ~isConnected[p] /\ osc[p] = "idle" /\ NothingConnects(net[p])
Asking(p, q) ==
  /\ key[p] \in {"disconnect", "compose", "request"} /\ NotAnswered(p)
  /\ osc[q] \in {"idle", "disconnect"} /\ NothingConnects(net[q])
Asked(p, q) ==
  /\ key[p] = "idle" /\ NotAnswered(p)
  /\ \/ osc[q] \in {"idle", "disconnect"} /\ EndsWith(net[q], "request")
     \/ osc[q] = "reply" /\ NoSignals(net[q])
Answered(p, q) ==
  /\ key[p] = "idle" /\ osc[p] = "idle" /\ NoSignals(net[q])
  /\ osc[q] = "connect" \/ (osc[q] = "idle" /\ isConnected[q])
  /\ \/ ~isConnected[p] /\ EndsWith(net[p], "reply")
     \/ isConnected[p] /\ NoSignals(net[p])

OnTheWay(p, q) ==
  key[q] = "idle" /\ (Asking(p, q) \/ Asked(p, q) \/ Answered(p, q))
Pressed ==
  (\A h \in Hosts : key[h] # "exit") => \E p \in Hosts : OnTheWay(p, Other(p))

(* A program that has ended does nothing. *)
Silent(h) == key[h] = "stopped" => osc[h] = "idle" /\ pen[h] = "idle"

LinkIInv ==
  /\ LinkTypeOK
  /\ \A h \in Hosts : Silent(h)
  /\ ordered \/ lastPress => \A h \in Hosts : ComposedIsHeld(h)
  /\ ordered => SidesFit
  /\ lastPress => Pressed

-----------------------------------------------------------------------------
(* Queues: what a datagram more, or one less, makes of them. *)

(* What is known of the ends of a queue. *)
LEMMA Ends ==
  ASSUME NEW T, NEW s \in Seq(T)
  PROVE  /\ Len(s) \in Nat
         /\ \A x \in T : /\ Append(s, x) \in Seq(T)
                         /\ Len(Append(s, x)) = Len(s) + 1
                         /\ \A i \in 1 .. Len(s) : Append(s, x)[i] = s[i]
                         /\ Append(s, x)[Len(s) + 1] = x
         /\ s # << >> => /\ Tail(s) \in Seq(T) /\ Head(s) \in T
                         /\ Head(s) = s[1] /\ Len(Tail(s)) = Len(s) - 1
                         /\ Len(s) >= 1
                         /\ \A i \in 1 .. Len(s) - 1 : Tail(s)[i] = s[i + 1]
OBVIOUS

(* A queue that grows contains one datagram more ... *)
LEMMA AppendContains ==
  ASSUME NEW T, NEW s \in Seq(T), NEW x \in T
  PROVE  \A m : Contains(Append(s, x), m) <=> Contains(s, m) \/ x = m
BY Ends DEF Contains

(* ... and one whose head is taken, that one less. *)
LEMMA TailContains ==
  ASSUME NEW T, NEW s \in Seq(T), s # << >>
  PROVE  \A m : Contains(s, m) <=> Contains(Tail(s), m) \/ Head(s) = m
<1> SUFFICES ASSUME NEW m
             PROVE  Contains(s, m) <=> Contains(Tail(s), m) \/ Head(s) = m
  OBVIOUS
<1>1. ASSUME Contains(s, m), Head(s) # m PROVE Contains(Tail(s), m)
  <2>1. PICK i \in 1 .. Len(s) : s[i] = m
    BY <1>1 DEF Contains
  <2>2. i - 1 \in 1 .. Len(Tail(s)) /\ Tail(s)[i - 1] = m
    BY <1>1, <2>1, Ends
  <2> QED BY <2>2 DEF Contains
<1>2. ASSUME Contains(Tail(s), m) PROVE Contains(s, m)
  <2>1. PICK i \in 1 .. Len(Tail(s)) : Tail(s)[i] = m
    BY <1>2 DEF Contains
  <2>2. i + 1 \in 1 .. Len(s) /\ s[i + 1] = m
    BY <2>1, Ends
  <2> QED BY <2>2 DEF Contains
<1>3. Head(s) = m => Contains(s, m)
  BY Ends DEF Contains
<1> QED BY <1>1, <1>2, <1>3

(* An empty one contains nothing. *)
LEMMA EmptyContains == \A m : ~Contains(<< >>, m)
BY DEF Contains

(* Replies stay followed unless another reply comes. *)
LEMMA AppendFollowed ==
  ASSUME NEW T, NEW s \in Seq(T), NEW x \in T
  PROVE  /\ RepliesFollowed(s) /\ x # "reply" => RepliesFollowed(Append(s, x))
         /\ x \in {"disconnect", "request"} => RepliesFollowed(Append(s, x))
<1> DEFINE n == Len(s)
           t == Append(s, x)
<1>1. /\ n \in Nat /\ Len(t) = n + 1 /\ t[n + 1] = x
      /\ \A i \in 1 .. n : t[i] = s[i]
  BY Ends
<1> HIDE DEF n, t
<1>2. ASSUME RepliesFollowed(s), x # "reply" PROVE RepliesFollowed(t)
  <2> SUFFICES ASSUME NEW i \in 1 .. Len(t), t[i] = "reply"
               PROVE  \E j \in i + 1 .. Len(t) : t[j] \in {"disconnect", "request"}
    BY DEF RepliesFollowed
  <2>1. i \in 1 .. n /\ s[i] = "reply"
    BY <1>1, <1>2
  <2>2. PICK j \in i + 1 .. n : s[j] \in {"disconnect", "request"}
    BY <1>2, <2>1 DEF RepliesFollowed, n
  <2>3. j \in i + 1 .. Len(t) /\ t[j] = s[j]
    BY <1>1, <2>1, <2>2
  <2> QED BY <2>2, <2>3
<1>3. ASSUME x \in {"disconnect", "request"} PROVE RepliesFollowed(t)
  <2> SUFFICES ASSUME NEW i \in 1 .. Len(t), t[i] = "reply"
               PROVE  \E j \in i + 1 .. Len(t) : t[j] \in {"disconnect", "request"}
    BY DEF RepliesFollowed
  <2>1. n + 1 \in i + 1 .. Len(t)
    BY <1>1, <1>3
  <2> QED BY <1>1, <1>3, <2>1
<1> QED BY <1>2, <1>3 DEF t

(* They do when the head is taken; a reply taken is followed by a break. *)
LEMMA TailFollowed ==
  ASSUME NEW T, NEW s \in Seq(T), s # << >>, RepliesFollowed(s)
  PROVE  /\ RepliesFollowed(Tail(s))
         /\ Head(s) = "reply" => Breaks(Tail(s))
<1> DEFINE n == Len(s)
           t == Tail(s)
<1>1. /\ n \in Nat /\ n >= 1 /\ Len(t) = n - 1 /\ Head(s) = s[1]
      /\ \A i \in 1 .. n - 1 : t[i] = s[i + 1]
  BY Ends
<1> HIDE DEF n, t
<1>2. ASSUME NEW i \in 1 .. n, s[i] = "reply"
      PROVE  \E j \in i .. n - 1 : t[j] \in {"disconnect", "request"}
  <2>1. PICK j \in i + 1 .. n : s[j] \in {"disconnect", "request"}
    BY <1>2 DEF RepliesFollowed, n
  <2>2. j - 1 \in i .. n - 1 /\ t[j - 1] = s[j]
    BY <1>1, <2>1
  <2> QED BY <2>1, <2>2
<1>3. RepliesFollowed(t)
  <2> SUFFICES ASSUME NEW i \in 1 .. Len(t), t[i] = "reply"
               PROVE  \E j \in i + 1 .. Len(t) : t[j] \in {"disconnect", "request"}
    BY DEF RepliesFollowed
  <2>1. i + 1 \in 1 .. n /\ s[i + 1] = "reply"
    BY <1>1
  <2> QED BY <1>1, <1>2, <2>1
<1>4. ASSUME Head(s) = "reply" PROVE Breaks(t)
  <2>1. \E j \in 1 .. n - 1 : t[j] \in {"disconnect", "request"}
    BY <1>1, <1>2, <1>4
  <2> QED BY <1>1, <2>1 DEF Breaks, Contains
<1> QED BY <1>3, <1>4 DEF t

(* Where there is no reply, none is without one. *)
LEMMA NoReplyFollowed ==
  ASSUME NEW s, ~Contains(s, "reply") PROVE RepliesFollowed(s)
BY DEF Contains, RepliesFollowed

(* The last signal stays the last. *)
LEMMA AppendEnds ==
  ASSUME NEW T, NEW s \in Seq(T), NEW x \in T, NEW m \in {"request", "reply"}
  PROVE  /\ NothingConnects(s) /\ x = m => EndsWith(Append(s, x), m)
         /\ EndsWith(s, m) /\ x \notin Signals => EndsWith(Append(s, x), m)
<1> DEFINE n == Len(s)
           t == Append(s, x)
<1>1. /\ n \in Nat /\ Len(t) = n + 1 /\ t[n + 1] = x
      /\ \A i \in 1 .. n : t[i] = s[i]
  BY Ends
<1> HIDE DEF n, t
<1>2. ASSUME NothingConnects(s), x = m PROVE EndsWith(t, m)
  <2>1. \A j \in 1 .. n : s[j] \notin {"request", "reply"}
    BY <1>2 DEF NothingConnects, Contains, n
  <2>2. n + 1 \in 1 .. Len(t) /\ t[n + 1] = m
    BY <1>1, <1>2
  <2>3. \A j \in 1 .. Len(t) : /\ j < n + 1 => t[j] \notin {"request", "reply"}
                               /\ ~(j > n + 1)
    BY <1>1, <2>1
  <2> QED BY <2>2, <2>3 DEF EndsWith
<1>3. ASSUME EndsWith(s, m), x \notin Signals PROVE EndsWith(t, m)
  <2>1. PICK i \in 1 .. n :
          /\ s[i] = m
          /\ \A j \in 1 .. n : /\ j < i => s[j] \notin {"request", "reply"}
                               /\ j > i => s[j] \notin Signals
    BY <1>3 DEF EndsWith, n
  <2>2. i \in 1 .. Len(t) /\ t[i] = m
    BY <1>1, <2>1
  <2>3. \A j \in 1 .. Len(t) : j \in 1 .. n \/ (j = n + 1 /\ ~(j < i))
    BY <1>1, <2>1
  <2>4. \A j \in 1 .. Len(t) : /\ j < i => t[j] \notin {"request", "reply"}
                               /\ j > i => t[j] \notin Signals
    BY <1>1, <1>3, <2>1, <2>3
  <2> QED BY <2>2, <2>4 DEF EndsWith
<1> QED BY <1>2, <1>3 DEF t

(* It is the next to connect when the head is taken, or it was the head. *)
LEMMA TailEnds ==
  ASSUME NEW T, NEW s \in Seq(T), NEW m \in {"request", "reply"}, EndsWith(s, m)
  PROVE  /\ s # << >>
         /\ Head(s) = m => NoSignals(Tail(s))
         /\ Head(s) # m => /\ EndsWith(Tail(s), m)
                           /\ Head(s) \notin {"request", "reply"}
<1> DEFINE n == Len(s)
           t == Tail(s)
<1>1. PICK i \in 1 .. n :
        /\ s[i] = m
        /\ \A j \in 1 .. n : /\ j < i => s[j] \notin {"request", "reply"}
                             /\ j > i => s[j] \notin Signals
  BY DEF EndsWith
<1>2. s # << >>
  BY <1>1
<1>3. /\ n \in Nat /\ n >= 1 /\ Len(t) = n - 1 /\ Head(s) = s[1]
      /\ \A j \in 1 .. n - 1 : t[j] = s[j + 1]
  BY <1>2, Ends
<1> HIDE DEF n, t
<1>4. ASSUME Head(s) = m PROVE NoSignals(t)
  <2>1. i = 1
    BY <1>1, <1>3, <1>4
  <2>2. \A j \in 1 .. Len(t) : t[j] \notin Signals
    BY <1>1, <1>3, <2>1
  <2> QED BY <2>2 DEF NoSignals, Contains
<1>5. ASSUME Head(s) # m PROVE EndsWith(t, m) /\ Head(s) \notin {"request", "reply"}
  <2>1. i > 1 /\ i \in Nat
    BY <1>1, <1>3, <1>5
  <2>2. i - 1 \in 1 .. Len(t) /\ t[i - 1] = m
    BY <1>1, <1>3, <2>1
  <2>3. ASSUME NEW j \in 1 .. Len(t)
        PROVE  /\ j < i - 1 => t[j] \notin {"request", "reply"}
               /\ j > i - 1 => t[j] \notin Signals
    <3>1. j + 1 \in 1 .. n /\ t[j] = s[j + 1]
      BY <1>3
    <3>2. /\ j + 1 < i => s[j + 1] \notin {"request", "reply"}
          /\ j + 1 > i => s[j + 1] \notin Signals
      BY <1>1, <3>1
    <3> QED BY <2>1, <3>1, <3>2
  <2>4. EndsWith(t, m)
    BY <2>2, <2>3 DEF EndsWith
  <2>5. 1 \in 1 .. n /\ 1 < i
    BY <1>3, <2>1
  <2>6. Head(s) \notin {"request", "reply"}
    BY <1>1, <1>3, <2>5
  <2> QED BY <2>4, <2>6
<1> QED BY <1>2, <1>4, <1>5 DEF t

(* These, as the steps need them: a queue that grows, and one
   whose head is taken. *)
Grows(s, x, t) ==
  /\ Contains(t, "request") <=> Contains(s, "request") \/ x = "request"
  /\ Contains(t, "reply") <=> Contains(s, "reply") \/ x = "reply"
  /\ Contains(t, "disconnect") <=> Contains(s, "disconnect") \/ x = "disconnect"
  /\ RepliesFollowed(s) /\ x # "reply" => RepliesFollowed(t)
  /\ x \in {"disconnect", "request"} => RepliesFollowed(t)
  /\ NothingConnects(s) /\ x = "request" => EndsWith(t, "request")
  /\ NothingConnects(s) /\ x = "reply" => EndsWith(t, "reply")
  /\ EndsWith(s, "request") /\ x \notin Signals => EndsWith(t, "request")
  /\ EndsWith(s, "reply") /\ x \notin Signals => EndsWith(t, "reply")

Shrinks(s, x, t) ==
  /\ Contains(s, "request") <=> Contains(t, "request") \/ x = "request"
  /\ Contains(s, "reply") <=> Contains(t, "reply") \/ x = "reply"
  /\ Contains(s, "disconnect") <=> Contains(t, "disconnect") \/ x = "disconnect"
  /\ RepliesFollowed(s) => RepliesFollowed(t) /\ (x = "reply" => Breaks(t))
  /\ EndsWith(s, "request") =>
       IF x = "request" THEN NoSignals(t)
       ELSE EndsWith(t, "request") /\ x # "reply"
  /\ EndsWith(s, "reply") =>
       IF x = "reply" THEN NoSignals(t)
       ELSE EndsWith(t, "reply") /\ x # "request"

(* A message sent makes the queue grow so. *)
LEMMA AppendGrows ==
  ASSUME NEW s \in Seq(Patterns), NEW x \in Patterns
  PROVE  Append(s, x) \in Seq(Patterns) /\ Grows(s, x, Append(s, x))
<1>1. Append(s, x) \in Seq(Patterns)
  OBVIOUS
<1> QED BY <1>1, AppendContains, AppendFollowed, AppendEnds DEF Grows

(* A message received makes it shrink so. *)
LEMMA TailShrinks ==
  ASSUME NEW s \in Seq(Patterns), s # << >>
  PROVE  /\ Tail(s) \in Seq(Patterns) /\ Head(s) \in Patterns
         /\ Shrinks(s, Head(s), Tail(s))
<1>1. Tail(s) \in Seq(Patterns) /\ Head(s) \in Patterns
  OBVIOUS
<1> QED BY <1>1, TailContains, TailFollowed, TailEnds DEF Shrinks

(* A queue with nothing on the way. *)
LEMMA EmptyQueue ==
  /\ ~Contains(<< >>, "request") /\ ~Contains(<< >>, "reply")
  /\ ~Contains(<< >>, "disconnect")
  /\ ~EndsWith(<< >>, "request") /\ ~EndsWith(<< >>, "reply")
BY EmptyContains DEF EndsWith

-----------------------------------------------------------------------------
(* The two sides. *)

TwoSides(h, o) == /\ h \in Hosts /\ o \in Hosts /\ h # o /\ Hosts = {h, o}
                  /\ Other(h) = o /\ Other(o) = h

(* Every host is one of two sides, the other one is the other. *)
LEMMA HostPair == ASSUME NEW h \in Hosts PROVE TwoSides(h, Other(h))
<1>1. PICK a, b \in Hosts : a # b /\ Hosts = {a, b}
  BY TwoHosts
<1>2. Other(a) = b /\ Other(b) = a
  BY <1>1 DEF Other
<1> QED BY <1>1, <1>2 DEF TwoSides

Held(h, o) ==
  ordered \/ lastPress => ComposedIsHeld(h) /\ ComposedIsHeld(o)
Fit(h, o) == ordered => Side(h, o) /\ Side(o, h)
Way(h, o) ==
  lastPress /\ key[h] # "exit" /\ key[o] # "exit" =>
    OnTheWay(h, o) \/ OnTheWay(o, h)
Both(h, o) ==
  LinkTypeOK /\ Silent(h) /\ Silent(o) /\ Held(h, o) /\ Fit(h, o) /\ Way(h, o)

(* The invariant is about the two of them. *)
LEMMA BothSides ==
  ASSUME NEW h, NEW o, TwoSides(h, o)
  PROVE  (LinkIInv <=> Both(h, o)) /\ (LinkIInv' <=> Both(h, o)')
BY DEF TwoSides, LinkIInv, Both, Held, Fit, Way, SidesFit, Pressed

(* Of an object nobody is at work on. *)
LEMMA ComposingEmpty ==
  ASSUME LinkTypeOK, NEW h \in Hosts, Composing(h) = {}
  PROVE  /\ key[h] \notin {"disconnect", "request", "exit"}
         /\ osc[h] \notin {"reply", "disconnect"}
         /\ pen[h] = "idle"
<1> DEFINE busy == {"request", "reply", "disconnect", "tabletInput", "exit"}
           k == <<"key", key[h]>>
           c == <<"osc", osc[h]>>
           e == <<"pen", pen[h]>>
<1>1. Composing(h) = {t \in {k, c, e} : t[2] \in busy}
  BY DEF Composing
<1>2. k[2] = key[h] /\ c[2] = osc[h] /\ e[2] = pen[h]
  OBVIOUS
<1> HIDE DEF k, c, e, busy
<1>3. k[2] \notin busy /\ c[2] \notin busy /\ e[2] \notin busy
  BY <1>1
<1>4. pen[h] \in {"idle", "tabletInput"}
  BY DEF LinkTypeOK
<1> QED BY <1>2, <1>3, <1>4 DEF busy

(* What a composed message says of the threads of its program, unless they
   are in each other's way. *)
LEMMA ComposeFacts ==
  ASSUME NEW h \in Hosts, NEW p \in Patterns, LinkTypeOK, Compose(h, p)
  PROVE  /\ msg' \in [Hosts -> Patterns]
         /\ \A x \in Hosts : x # h => msg'[x] = msg[x]
         /\ lastPress' \in BOOLEAN /\ ordered' \in BOOLEAN
         /\ ordered' => ordered
         /\ lastPress' => lastPress
         /\ ordered' \/ lastPress' =>
              /\ msg'[h] = p /\ pen[h] = "idle"
              /\ key[h] \notin {"disconnect", "request", "exit"}
              /\ osc[h] \notin {"reply", "disconnect"}
<1>1. CASE Composing(h) = {}
  <2>1. /\ key[h] \notin {"disconnect", "request", "exit"}
        /\ osc[h] \notin {"reply", "disconnect"} /\ pen[h] = "idle"
    BY <1>1, ComposingEmpty
  <2>2. msg' = [msg EXCEPT ![h] = p] /\ lastPress' = lastPress /\ ordered' = ordered
    BY <1>1 DEF Compose
  <2> QED BY <2>1, <2>2 DEF LinkTypeOK
<1>2. CASE Composing(h) # {}
  <2>1. PICK m \in {p, msg[h], "garbled"} : msg' = [msg EXCEPT ![h] = m]
    BY <1>2 DEF Compose
  <2>2. lastPress' = FALSE /\ ordered' = FALSE
    BY <1>2 DEF Compose
  <2>3. m \in Patterns
    BY DEF LinkTypeOK, Patterns
  <2> QED BY <2>1, <2>2, <2>3 DEF LinkTypeOK
<1> QED BY <1>1, <1>2

(* The types of one side. *)
LEMMA SideTypes ==
  ASSUME LinkTypeOK, NEW h \in Hosts
  PROVE  /\ isConnected[h] \in BOOLEAN /\ msg[h] \in Patterns
         /\ key[h] \in {"idle", "disconnect", "compose", "request", "exit",
                        "stopped"}
         /\ osc[h] \in {"idle", "reply", "connect", "disconnect"}
         /\ pen[h] \in {"idle", "tabletInput"} /\ net[h] \in Seq(Patterns)
BY DEF LinkTypeOK

(* At the start nobody is connected and nothing is on the way. *)
LEMMA LinkInitHolds == LinkInit => LinkIInv
<1> SUFFICES ASSUME LinkInit PROVE LinkIInv
  OBVIOUS
<1>1. PICK h \in Hosts : TRUE
  BY TwoHosts
<1> DEFINE o == Other(h)
<1>2. TwoSides(h, o)
  BY HostPair
<1> HIDE DEF o
<1>3. LinkTypeOK
  <2>1. << >> \in Seq(Patterns)
    OBVIOUS
  <2> QED BY <2>1 DEF LinkInit, LinkTypeOK, Patterns
<1>4. /\ key[h] = "idle" /\ key[o] = "idle" /\ osc[h] = "idle" /\ osc[o] = "idle"
      /\ pen[h] = "idle" /\ pen[o] = "idle" /\ net[h] = << >> /\ net[o] = << >>
      /\ ~isConnected[h] /\ ~isConnected[o] /\ lastPress = FALSE
  BY <1>2 DEF LinkInit, TwoSides
<1>5. Held(h, o)
  BY <1>4 DEF Held, ComposedIsHeld
<1>6. Fit(h, o)
  <2>1. RepliesFollowed(<< >>)
    BY EmptyQueue, NoReplyFollowed
  <2> QED BY <1>4, <2>1 DEF Fit, Side, RepliesHold, AnswersHold, Matched, Away
<1>7. Way(h, o)
  BY <1>4 DEF Way
<1>8. Both(h, o)
  BY <1>3, <1>4, <1>5, <1>6, <1>7 DEF Both, Silent
<1> QED BY <1>2, <1>8, BothSides

(* Key ~: a press on a quiet link is on the way. *)
LEMMA TryToConnectKeeps ==
  ASSUME NEW h, NEW o, TwoSides(h, o), Both(h, o), TryToConnect(h)
  PROVE  Both(h, o)'
<1> USE DEF TwoSides
<1>1. LinkTypeOK
  BY DEF Both
<1>2. /\ key[h] = "idle" /\ key'[h] = "disconnect" /\ key'[o] = key[o]
      /\ isConnected'[h] = FALSE /\ isConnected'[o] = isConnected[o]
      /\ osc' = osc /\ pen' = pen /\ net' = net /\ faults' = faults
      /\ key' = [key EXCEPT ![h] = "disconnect"]
      /\ isConnected' = [isConnected EXCEPT ![h] = FALSE]
      /\ presses' = presses + 1
  BY <1>1 DEF TryToConnect, LinkTypeOK
<1>3. /\ msg' \in [Hosts -> Patterns] /\ msg'[o] = msg[o]
      /\ lastPress' \in BOOLEAN /\ ordered' \in BOOLEAN
      /\ ordered' => ordered
      /\ lastPress' => Quiet /\ key[o] = "idle"
      /\ ordered' \/ lastPress' =>
           /\ msg'[h] = "disconnect" /\ pen[h] = "idle"
           /\ osc[h] \notin {"reply", "disconnect"}
  <2>1. CASE Composing(h) = {}
    <3>1. /\ lastPress' = (Quiet /\ key[o] = "idle") /\ ordered' = ordered
          /\ msg' = [msg EXCEPT ![h] = "disconnect"]
      BY <2>1 DEF TryToConnect
    <3>3. osc[h] \notin {"reply", "disconnect"} /\ pen[h] = "idle"
      BY <1>1, <2>1, ComposingEmpty
    <3>4. "disconnect" \in Patterns /\ lastPress' \in BOOLEAN
      BY <3>1 DEF Patterns, Quiet
    <3> QED BY <1>1, <3>1, <3>3, <3>4 DEF LinkTypeOK
  <2>2. CASE Composing(h) # {}
    <3>1. Compose(h, "disconnect")
      BY <2>2 DEF TryToConnect
    <3>2. lastPress' = FALSE /\ ordered' = FALSE
      BY <2>2, <3>1 DEF Compose
    <3> QED BY <1>1, <3>1, <3>2, ComposeFacts DEF Patterns
  <2> QED BY <2>1, <2>2
<1>4. LinkTypeOK'
  BY <1>1, <1>2, <1>3 DEF LinkTypeOK
<1>5. Held(h, o)'
  <2>1. SUFFICES ASSUME ordered' \/ lastPress'
                 PROVE  ComposedIsHeld(h)' /\ ComposedIsHeld(o)'
    BY DEF Held
  <2>2. ComposedIsHeld(o) \/ (key[o] = "idle" /\ osc[o] = "idle" /\ pen[o] = "idle")
    BY <1>3, <2>1 DEF Both, Held, Quiet
  <2> QED BY <1>2, <1>3, <2>1, <2>2 DEF ComposedIsHeld
<1>6. Fit(h, o)'
  <2> SUFFICES ASSUME ordered' PROVE Side(h, o)' /\ Side(o, h)'
    BY DEF Fit
  <2>1. Side(h, o) /\ Side(o, h)
    BY <1>3 DEF Both, Fit
  <2> USE DEF Side, RepliesHold, AnswersHold, Matched, Away, Mends, Announces
  <2>2. Side(h, o)'
    BY <1>2, <1>3, <2>1
  <2>3. Side(o, h)'
    BY <1>2, <1>3, <2>1
  <2> QED BY <2>2, <2>3
<1>7. Way(h, o)'
  <2> SUFFICES ASSUME lastPress' PROVE OnTheWay(h, o)'
    BY DEF Way
  <2>1. /\ net[h] = << >> /\ net[o] = << >> /\ osc[h] = "idle" /\ osc[o] = "idle"
        /\ key[o] = "idle"
    BY <1>3 DEF Quiet
  <2> QED BY <1>2, <2>1, EmptyQueue
          DEF OnTheWay, Asking, NotAnswered, NothingConnects
<1>8. Silent(h)' /\ Silent(o)'
  BY <1>2 DEF Both, Silent
<1> QED BY <1>4, <1>5, <1>6, <1>7, <1>8 DEF Both

(* What is sent is appended to the other side's queue. *)
LEMMA SendFacts ==
  ASSUME NEW h, NEW o, TwoSides(h, o), LinkTypeOK, Send(h)
  PROVE  /\ net' \in [Hosts -> Seq(Patterns)] /\ net'[h] = net[h]
         /\ Grows(net[o], msg[h], net'[o])
<1>1. net[o] \in Seq(Patterns) /\ msg[h] \in Patterns
  BY SideTypes DEF TwoSides
<1>2. net' = [net EXCEPT ![o] = Append(net[o], msg[h])]
  BY DEF Send, TwoSides
<1>3. net'[o] = Append(net[o], msg[h]) /\ net'[h] = net[h]
  BY <1>2 DEF LinkTypeOK, TwoSides
<1>4. Append(net[o], msg[h]) \in Seq(Patterns)
  BY <1>1, AppendGrows
<1> QED BY <1>1, <1>2, <1>3, <1>4, AppendGrows DEF LinkTypeOK

(* The request follows its disconnect. *)
LEMMA KeyThreadKeeps ==
  ASSUME NEW h, NEW o, TwoSides(h, o), Both(h, o), KeyThread(h)
  PROVE  Both(h, o)'
<1> USE DEF TwoSides
<1>1. LinkTypeOK
  BY DEF Both
<1>2. /\ UNCHANGED <<isConnected, osc, pen, presses, faults>>
      /\ key' \in [Hosts -> {"compose", "request", "idle", key[o]}]
      /\ key'[o] = key[o]
  BY <1>1 DEF KeyThread, KeyGoesOn, LinkTypeOK
<1>3. CASE key[h] \in {"disconnect", "request"}
  <2>1. /\ Send(h) /\ UNCHANGED <<msg, lastPress, ordered>>
        /\ key' = [key EXCEPT ![h] = IF key[h] = "request" THEN "idle" ELSE "compose"]
    BY <1>3 DEF KeyThread, KeyGoesOn
  <2>2. key'[h] = IF key[h] = "request" THEN "idle" ELSE "compose"
    BY <1>1, <2>1 DEF LinkTypeOK
  <2>3. /\ net' \in [Hosts -> Seq(Patterns)] /\ net'[h] = net[h]
        /\ Grows(net[o], msg[h], net'[o])
    BY <1>1, <2>1, SendFacts
  <2>4. LinkTypeOK'
    BY <1>1, <1>2, <2>1, <2>3 DEF LinkTypeOK
  <2>5. Held(h, o)'
    BY <1>2, <2>1, <2>2 DEF Both, Held, ComposedIsHeld
  <2>6. Fit(h, o)'
    <3> SUFFICES ASSUME ordered' PROVE Side(h, o)' /\ Side(o, h)'
      BY DEF Fit
    <3>1. Side(h, o) /\ Side(o, h) /\ ComposedIsHeld(h)
      BY <2>1 DEF Both, Fit, Held
    <3>2. msg[h] = key[h]
      BY <1>3, <3>1 DEF ComposedIsHeld
    <3> USE DEF Side, RepliesHold, AnswersHold, Matched, Away, Mends, Announces,
                Grows, Breaks, NothingConnects
    <3>3. Side(h, o)'
      BY <1>2, <1>3, <2>2, <2>3, <3>1, <3>2
    <3>4. Side(o, h)'
      BY <1>2, <1>3, <2>2, <2>3, <3>1, <3>2
    <3> QED BY <3>3, <3>4
  <2>7. Way(h, o)'
    <3> SUFFICES ASSUME lastPress', key[o] # "exit"
                 PROVE  OnTheWay(h, o)'
      BY <1>2 DEF Way
    <3>1. OnTheWay(h, o) /\ ComposedIsHeld(h)
      BY <1>3, <2>1 DEF Both, Way, Held, OnTheWay, Asking, Asked, Answered
    <3>2. Asking(h, o) /\ key[o] = "idle" /\ msg[h] = key[h]
      BY <1>3, <3>1 DEF OnTheWay, Asked, Answered, ComposedIsHeld
    <3> QED BY <1>2, <1>3, <2>2, <2>3, <3>2
            DEF OnTheWay, Asking, Asked, NotAnswered, NothingConnects, Grows
  <2>8. Silent(h)' /\ Silent(o)'
    BY <1>2, <2>2 DEF Both, Silent
  <2> QED BY <2>4, <2>5, <2>6, <2>7, <2>8 DEF Both
<1>4. CASE key[h] = "compose"
  <2>1. /\ Compose(h, "request") /\ net' = net
        /\ key' = [key EXCEPT ![h] = "request"]
    BY <1>4 DEF KeyThread, KeyGoesOn
  <2>2. key'[h] = "request"
    BY <1>1, <2>1 DEF LinkTypeOK
  <2>3. /\ msg' \in [Hosts -> Patterns] /\ msg'[o] = msg[o]
        /\ lastPress' \in BOOLEAN /\ ordered' \in BOOLEAN
        /\ ordered' => ordered
        /\ lastPress' => lastPress
        /\ ordered' \/ lastPress' =>
             /\ msg'[h] = "request" /\ pen[h] = "idle"
             /\ osc[h] \notin {"reply", "disconnect"}
    BY <1>1, <2>1, ComposeFacts DEF Patterns
  <2>4. LinkTypeOK'
    BY <1>1, <1>2, <2>1, <2>3 DEF LinkTypeOK
  <2>5. Held(h, o)'
    BY <1>2, <2>2, <2>3 DEF Both, Held, ComposedIsHeld
  <2>6. Fit(h, o)'
    BY <1>2, <1>4, <2>1, <2>2, <2>3
       DEF Both, Fit, Side, RepliesHold, AnswersHold, Matched, Away, Mends, Announces
  <2>7. Way(h, o)'
    BY <1>2, <1>4, <2>1, <2>2, <2>3
       DEF Both, Way, OnTheWay, Asking, Asked, Answered, NotAnswered
  <2>8. Silent(h)' /\ Silent(o)'
    BY <1>2, <2>2 DEF Both, Silent
  <2> QED BY <2>4, <2>5, <2>6, <2>7, <2>8 DEF Both
<1> QED BY <1>3, <1>4 DEF KeyThread, KeyGoesOn

(* What is received is taken from the queue. *)
LEMMA TakeFacts ==
  ASSUME NEW h, NEW o, TwoSides(h, o), LinkTypeOK, net[h] # << >>,
         net' = [net EXCEPT ![h] = Tail(@)]
  PROVE  /\ net' \in [Hosts -> Seq(Patterns)] /\ net'[o] = net[o]
         /\ Shrinks(net[h], Head(net[h]), net'[h]) /\ Head(net[h]) \in Patterns
<1>1. net[h] \in Seq(Patterns)
  BY SideTypes DEF TwoSides
<1>2. net'[h] = Tail(net[h]) /\ net'[o] = net[o]
  BY DEF LinkTypeOK, TwoSides
<1>3. Tail(net[h]) \in Seq(Patterns)
  BY <1>1, TailShrinks
<1> QED BY <1>1, <1>2, <1>3, TailShrinks DEF LinkTypeOK

(* A datagram is received: a request is about to be answered, a reply
   connects, a disconnect is echoed by a connected side. *)
LEMMA ReceiveKeeps ==
  ASSUME NEW h, NEW o, TwoSides(h, o), Both(h, o), Receive(h)
  PROVE  Both(h, o)'
<1> USE DEF TwoSides
<1> DEFINE x == Head(net[h])
<1>1. LinkTypeOK
  BY DEF Both
<1>2. /\ key[h] # "stopped" /\ osc[h] = "idle" /\ net[h] # << >>
      /\ net' = [net EXCEPT ![h] = Tail(@)]
      /\ UNCHANGED <<key, pen, presses, faults>>
  BY DEF Receive
<1>3. /\ net' \in [Hosts -> Seq(Patterns)] /\ net'[o] = net[o]
      /\ Shrinks(net[h], x, net'[h]) /\ x \in Patterns
  BY <1>1, <1>2, TakeFacts
<1>4. CASE x = "request"
  <2>1. /\ Compose(h, "reply") /\ osc' = [osc EXCEPT ![h] = "reply"]
        /\ isConnected' = isConnected
    BY <1>4 DEF Receive
  <2>2. osc'[h] = "reply" /\ osc'[o] = osc[o]
    BY <1>1, <2>1 DEF LinkTypeOK
  <2>3. /\ msg' \in [Hosts -> Patterns] /\ msg'[o] = msg[o]
        /\ lastPress' \in BOOLEAN /\ ordered' \in BOOLEAN
        /\ ordered' => ordered
        /\ lastPress' => lastPress
        /\ ordered' \/ lastPress' =>
             /\ msg'[h] = "reply" /\ pen[h] = "idle"
             /\ key[h] \notin {"disconnect", "request", "exit"}
    BY <1>1, <2>1, ComposeFacts DEF Patterns
  <2>4. LinkTypeOK'
    BY <1>1, <1>2, <1>3, <2>1, <2>3 DEF LinkTypeOK
  <2>5. Held(h, o)'
    BY <1>2, <2>2, <2>3 DEF Both, Held, ComposedIsHeld
  <2>6. Fit(h, o)'
    <3> SUFFICES ASSUME ordered' PROVE Side(h, o)' /\ Side(o, h)'
      BY DEF Fit
    <3>1. Side(h, o) /\ Side(o, h)
      BY <2>3 DEF Both, Fit
    <3> HIDE DEF x
    <3> USE DEF Side, RepliesHold, AnswersHold, Matched, Away, Mends, Announces,
                Shrinks, Breaks, NothingConnects
    <3>2. Side(h, o)'
      BY <1>2, <1>3, <1>4, <2>1, <2>2, <2>3, <3>1
    <3>3. Side(o, h)'
      BY <1>2, <1>3, <1>4, <2>1, <2>2, <2>3, <3>1
    <3> QED BY <3>2, <3>3
  <2>7. Way(h, o)'
    <3> SUFFICES ASSUME lastPress', key[h] # "exit", key[o] # "exit"
                 PROVE  OnTheWay(o, h)'
      BY <1>2 DEF Way
    <3>1. OnTheWay(h, o) \/ OnTheWay(o, h)
      BY <2>3 DEF Both, Way
    <3> HIDE DEF x
    <3> USE DEF OnTheWay, Asking, Asked, Answered, NotAnswered, Shrinks,
                NothingConnects, NoSignals, Signals
    <3>2. ~OnTheWay(h, o)
      BY <1>2, <1>3, <1>4
    <3>3. Asked(o, h)
      BY <1>2, <1>3, <1>4, <3>1, <3>2
    <3> QED BY <1>2, <1>3, <1>4, <2>1, <2>2, <3>1, <3>2, <3>3
  <2>8. Silent(h)' /\ Silent(o)'
    BY <1>2, <2>2 DEF Both, Silent
  <2> QED BY <2>4, <2>5, <2>6, <2>7, <2>8 DEF Both
<1>5. CASE x = "reply"
  <2>1. /\ isConnected' = [isConnected EXCEPT ![h] = TRUE]
        /\ UNCHANGED <<msg, osc, lastPress, ordered>>
    BY <1>5 DEF Receive
  <2>2. isConnected'[h] = TRUE /\ isConnected'[o] = isConnected[o]
    BY <1>1, <2>1 DEF LinkTypeOK
  <2>4. LinkTypeOK'
    BY <1>1, <1>2, <1>3, <2>1 DEF LinkTypeOK
  <2>5. Held(h, o)'
    BY <1>2, <2>1 DEF Both, Held, ComposedIsHeld
  <2>6. Fit(h, o)'
    <3> SUFFICES ASSUME ordered' PROVE Side(h, o)' /\ Side(o, h)'
      BY DEF Fit
    <3>1. Side(h, o) /\ Side(o, h)
      BY <2>1 DEF Both, Fit
    <3> HIDE DEF x
    <3> USE DEF Side, RepliesHold, AnswersHold, Matched, Away, Mends, Announces,
                Shrinks, Breaks, NothingConnects
    <3>2. Side(h, o)'
      BY <1>2, <1>3, <1>5, <2>1, <2>2, <3>1
    <3>3. Side(o, h)'
      BY <1>2, <1>3, <1>5, <2>1, <2>2, <3>1
    <3> QED BY <3>2, <3>3
  <2>7. Way(h, o)'
    <3> SUFFICES ASSUME lastPress', key[h] # "exit", key[o] # "exit"
                 PROVE  OnTheWay(h, o)'
      BY <1>2 DEF Way
    <3>1. OnTheWay(h, o) \/ OnTheWay(o, h)
      BY <2>1 DEF Both, Way
    <3> HIDE DEF x
    <3> USE DEF OnTheWay, Asking, Asked, Answered, NotAnswered, Shrinks,
                NothingConnects, NoSignals, Signals
    <3>2. ~OnTheWay(o, h)
      BY <1>2, <1>3, <1>5
    <3>3. Answered(h, o)
      BY <1>2, <1>3, <1>5, <3>1, <3>2
    <3> QED BY <1>2, <1>3, <1>5, <2>1, <2>2, <3>1, <3>2, <3>3
  <2>8. Silent(h)' /\ Silent(o)'
    BY <1>2, <2>1 DEF Both, Silent
  <2> QED BY <2>4, <2>5, <2>6, <2>7, <2>8 DEF Both
<1>6. CASE x = "disconnect" /\ isConnected[h]
  <2>1. /\ Compose(h, "disconnect") /\ osc' = [osc EXCEPT ![h] = "disconnect"]
        /\ isConnected' = [isConnected EXCEPT ![h] = FALSE]
    BY <1>6 DEF Receive, Echoes
  <2>2. /\ osc'[h] = "disconnect" /\ osc'[o] = osc[o]
        /\ isConnected'[h] = FALSE /\ isConnected'[o] = isConnected[o]
    BY <1>1, <2>1 DEF LinkTypeOK
  <2>3. /\ msg' \in [Hosts -> Patterns] /\ msg'[o] = msg[o]
        /\ lastPress' \in BOOLEAN /\ ordered' \in BOOLEAN
        /\ ordered' => ordered
        /\ lastPress' => lastPress
        /\ ordered' \/ lastPress' =>
             /\ msg'[h] = "disconnect" /\ pen[h] = "idle"
             /\ key[h] \notin {"disconnect", "request", "exit"}
    BY <1>1, <2>1, ComposeFacts DEF Patterns
  <2>4. LinkTypeOK'
    BY <1>1, <1>2, <1>3, <2>1, <2>3 DEF LinkTypeOK
  <2>5. Held(h, o)'
    BY <1>2, <2>2, <2>3 DEF Both, Held, ComposedIsHeld
  <2>6. Fit(h, o)'
    <3> SUFFICES ASSUME ordered' PROVE Side(h, o)' /\ Side(o, h)'
      BY DEF Fit
    <3>1. Side(h, o) /\ Side(o, h)
      BY <2>3 DEF Both, Fit
    <3> HIDE DEF x
    <3> USE DEF Side, RepliesHold, AnswersHold, Matched, Away, Mends, Announces,
                Shrinks, Breaks, NothingConnects
    <3>2. Side(h, o)'
      BY <1>2, <1>3, <1>6, <2>1, <2>2, <2>3, <3>1
    <3>3. Side(o, h)'
      BY <1>2, <1>3, <1>6, <2>1, <2>2, <2>3, <3>1
    <3> QED BY <3>2, <3>3
  <2>7. Way(h, o)'
    <3> SUFFICES ASSUME lastPress', key[h] # "exit", key[o] # "exit"
                 PROVE  OnTheWay(o, h)'
      BY <1>2 DEF Way
    <3>1. OnTheWay(h, o) \/ OnTheWay(o, h)
      BY <2>3 DEF Both, Way
    <3> HIDE DEF x
    <3> USE DEF OnTheWay, Asking, Asked, Answered, NotAnswered, Shrinks,
                NothingConnects, NoSignals, Signals
    <3>2. ~OnTheWay(h, o) /\ ~Answered(o, h)
      BY <1>2, <1>3, <1>6
    <3> QED BY <1>2, <1>3, <1>6, <2>1, <2>2, <3>1, <3>2
  <2>8. Silent(h)' /\ Silent(o)'
    BY <1>2, <2>2 DEF Both, Silent
  <2> QED BY <2>4, <2>5, <2>6, <2>7, <2>8 DEF Both
<1>7. CASE \/ x = "disconnect" /\ ~isConnected[h]
           \/ x \in {"tabletInput", "garbled"}
  <2>1. UNCHANGED <<isConnected, msg, osc, lastPress, ordered>>
    BY <1>7 DEF Receive, Echoes
  <2>4. LinkTypeOK'
    BY <1>1, <1>2, <1>3, <2>1 DEF LinkTypeOK
  <2>5. Held(h, o)'
    BY <1>2, <2>1 DEF Both, Held, ComposedIsHeld
  <2>6. Fit(h, o)'
    <3> SUFFICES ASSUME ordered' PROVE Side(h, o)' /\ Side(o, h)'
      BY DEF Fit
    <3>1. Side(h, o) /\ Side(o, h)
      BY <2>1 DEF Both, Fit
    <3> HIDE DEF x
    <3> USE DEF Side, RepliesHold, AnswersHold, Matched, Away, Mends, Announces,
                Shrinks, Breaks, NothingConnects
    <3>2. Side(h, o)'
      BY <1>2, <1>3, <1>7, <2>1, <3>1
    <3>3. Side(o, h)'
      BY <1>2, <1>3, <1>7, <2>1, <3>1
    <3> QED BY <3>2, <3>3
  <2>7. Way(h, o)'
    <3> HIDE DEF x
    <3> USE DEF OnTheWay, Asking, Asked, Answered, NotAnswered, Shrinks,
                NothingConnects, NoSignals, Signals
    <3>1. OnTheWay(h, o) => OnTheWay(h, o)'
      BY <1>2, <1>3, <1>7, <2>1
    <3>2. OnTheWay(o, h) => OnTheWay(o, h)'
      BY <1>2, <1>3, <1>7, <2>1
    <3> QED BY <1>2, <2>1, <3>1, <3>2 DEF Both, Way
  <2>8. Silent(h)' /\ Silent(o)'
    BY <1>2, <2>1 DEF Both, Silent
  <2> QED BY <2>4, <2>5, <2>6, <2>7, <2>8 DEF Both
<1> QED BY <1>3, <1>4, <1>5, <1>6, <1>7 DEF Patterns

(* The answer is sent; whoever has sent a reply holds itself for connected. *)
LEMMA ReceiveGoesOnKeeps ==
  ASSUME NEW h, NEW o, TwoSides(h, o), Both(h, o), ReceiveGoesOn(h)
  PROVE  Both(h, o)'
<1> USE DEF TwoSides
<1>1. LinkTypeOK
  BY DEF Both
<1>2. UNCHANGED <<msg, key, pen, presses, faults, lastPress, ordered>>
  BY DEF ReceiveGoesOn, history
<1>3. CASE osc[h] \in {"reply", "disconnect"}
  <2>1. /\ Send(h) /\ isConnected' = isConnected
        /\ osc' = [osc EXCEPT ![h] = IF osc[h] = "reply" THEN "connect" ELSE "idle"]
    BY <1>3 DEF ReceiveGoesOn
  <2>2. /\ osc'[h] = IF osc[h] = "reply" THEN "connect" ELSE "idle"
        /\ osc'[o] = osc[o]
    BY <1>1, <2>1 DEF LinkTypeOK
  <2>3. /\ net' \in [Hosts -> Seq(Patterns)] /\ net'[h] = net[h]
        /\ Grows(net[o], msg[h], net'[o])
    BY <1>1, <2>1, SendFacts
  <2>4. LinkTypeOK'
    BY <1>1, <1>2, <2>1, <2>3 DEF LinkTypeOK
  <2>5. Held(h, o)'
    BY <1>2, <2>2 DEF Both, Held, ComposedIsHeld
  <2>6. Fit(h, o)'
    <3> SUFFICES ASSUME ordered' PROVE Side(h, o)' /\ Side(o, h)'
      BY DEF Fit
    <3>1. Side(h, o) /\ Side(o, h) /\ msg[h] = osc[h]
      BY <1>2, <1>3 DEF Both, Fit, Held, ComposedIsHeld
    <3> USE DEF Side, RepliesHold, AnswersHold, Matched, Away, Mends, Announces,
                Grows, Breaks, NothingConnects
    <3>2. Side(h, o)'
      BY <1>2, <1>3, <2>1, <2>2, <2>3, <3>1
    <3>3. Side(o, h)'
      BY <1>2, <1>3, <2>1, <2>2, <2>3, <3>1
    <3> QED BY <3>2, <3>3
  <2>7. Way(h, o)'
    <3> SUFFICES ASSUME lastPress', key[h] # "exit", key[o] # "exit"
                 PROVE  OnTheWay(o, h)'
      BY <1>2 DEF Way
    <3>1. (OnTheWay(h, o) \/ OnTheWay(o, h)) /\ msg[h] = osc[h]
      BY <1>2, <1>3 DEF Both, Way, Held, ComposedIsHeld
    <3> USE DEF OnTheWay, Asking, Asked, Answered, NotAnswered, Grows,
                NothingConnects, NoSignals, Signals
    <3>2. ~OnTheWay(h, o) /\ ~Answered(o, h)
      BY <1>3
    <3> QED BY <1>2, <1>3, <2>1, <2>2, <2>3, <3>1, <3>2
  <2>8. Silent(h)' /\ Silent(o)'
    BY <1>2, <1>3, <2>2 DEF Both, Silent
  <2> QED BY <2>4, <2>5, <2>6, <2>7, <2>8 DEF Both
<1>4. CASE osc[h] = "connect"
  <2>1. /\ net' = net /\ isConnected' = [isConnected EXCEPT ![h] = TRUE]
        /\ osc' = [osc EXCEPT ![h] = "idle"]
    BY <1>4 DEF ReceiveGoesOn, AfterReply
  <2>2. /\ osc'[h] = "idle" /\ osc'[o] = osc[o]
        /\ isConnected'[h] = TRUE /\ isConnected'[o] = isConnected[o]
    BY <1>1, <2>1 DEF LinkTypeOK
  <2>4. LinkTypeOK'
    BY <1>1, <1>2, <2>1 DEF LinkTypeOK
  <2>5. Held(h, o)'
    BY <1>2, <2>2 DEF Both, Held, ComposedIsHeld
  <2>6. Fit(h, o)'
    <3> USE DEF Side, RepliesHold, AnswersHold, Matched, Away, Mends, Announces,
                Breaks, NothingConnects
    <3>1. Side(h, o) /\ Side(o, h) => Side(h, o)'
      BY <1>2, <1>4, <2>1, <2>2
    <3>2. Side(h, o) /\ Side(o, h) => Side(o, h)'
      BY <1>2, <1>4, <2>1, <2>2
    <3> QED BY <1>2, <3>1, <3>2 DEF Both, Fit
  <2>7. Way(h, o)'
    <3> USE DEF OnTheWay, Asking, Asked, Answered, NotAnswered
    <3>1. OnTheWay(h, o) => OnTheWay(h, o)'
      BY <1>2, <1>4, <2>1, <2>2
    <3>2. OnTheWay(o, h) => OnTheWay(o, h)'
      BY <1>2, <1>4, <2>1, <2>2
    <3> QED BY <1>2, <3>1, <3>2 DEF Both, Way
  <2>8. Silent(h)' /\ Silent(o)'
    BY <1>2, <1>4, <2>2 DEF Both, Silent
  <2> QED BY <2>4, <2>5, <2>6, <2>7, <2>8 DEF Both
<1> QED BY <1>3, <1>4 DEF ReceiveGoesOn

(* Points of the pen are no signals. *)
LEMMA StreamingKeeps ==
  ASSUME NEW h, NEW o, TwoSides(h, o), Both(h, o), Streaming(h)
  PROVE  Both(h, o)'
<1> USE DEF TwoSides
<1>1. LinkTypeOK
  BY DEF Both
<1>2. UNCHANGED <<isConnected, key, osc, faults>> /\ key[h] # "stopped"
  BY DEF Streaming
<1>3. CASE pen[h] = "idle"
  <2>1. /\ Compose(h, "tabletInput") /\ net' = net /\ presses' = presses + 1
        /\ pen' = [pen EXCEPT ![h] = "tabletInput"]
    BY <1>3 DEF Streaming
  <2>2. pen'[h] = "tabletInput" /\ pen'[o] = pen[o]
    BY <1>1, <2>1 DEF LinkTypeOK
  <2>3. /\ msg' \in [Hosts -> Patterns] /\ msg'[o] = msg[o]
        /\ lastPress' \in BOOLEAN /\ ordered' \in BOOLEAN
        /\ ordered' => ordered
        /\ lastPress' => lastPress
        /\ ordered' \/ lastPress' =>
             /\ msg'[h] = "tabletInput"
             /\ key[h] \notin {"disconnect", "request", "exit"}
             /\ osc[h] \notin {"reply", "disconnect"}
    BY <1>1, <2>1, ComposeFacts DEF Patterns
  <2>4. LinkTypeOK'
    BY <1>1, <1>2, <2>1, <2>3 DEF LinkTypeOK
  <2>5. Held(h, o)'
    BY <1>2, <2>2, <2>3 DEF Both, Held, ComposedIsHeld
  <2>6. Fit(h, o)'
    BY <1>2, <2>1, <2>2, <2>3
       DEF Both, Fit, Side, RepliesHold, AnswersHold, Matched, Away, Mends, Announces
  <2>7. Way(h, o)'
    BY <1>2, <2>1, <2>3
       DEF Both, Way, OnTheWay, Asking, Asked, Answered, NotAnswered
  <2>8. Silent(h)' /\ Silent(o)'
    BY <1>2, <2>2 DEF Both, Silent
  <2> QED BY <2>4, <2>5, <2>6, <2>7, <2>8 DEF Both
<1>4. CASE pen[h] = "tabletInput"
  <2>1. /\ Send(h) /\ UNCHANGED <<msg, presses, lastPress, ordered>>
        /\ pen' = [pen EXCEPT ![h] = "idle"]
    BY <1>4 DEF Streaming
  <2>2. pen'[h] = "idle" /\ pen'[o] = pen[o]
    BY <1>1, <2>1 DEF LinkTypeOK
  <2>3. /\ net' \in [Hosts -> Seq(Patterns)] /\ net'[h] = net[h]
        /\ Grows(net[o], msg[h], net'[o])
    BY <1>1, <2>1, SendFacts
  <2>4. LinkTypeOK'
    BY <1>1, <1>2, <2>1, <2>3 DEF LinkTypeOK
  <2>5. Held(h, o)'
    BY <1>2, <2>1, <2>2 DEF Both, Held, ComposedIsHeld
  <2>6. Fit(h, o)'
    <3> SUFFICES ASSUME ordered' PROVE Side(h, o)' /\ Side(o, h)'
      BY DEF Fit
    <3>1. Side(h, o) /\ Side(o, h) /\ msg[h] = "tabletInput"
      BY <1>4, <2>1 DEF Both, Fit, Held, ComposedIsHeld
    <3> USE DEF Side, RepliesHold, AnswersHold, Matched, Away, Mends, Announces,
                Grows, Breaks, NothingConnects
    <3>2. Side(h, o)'
      BY <1>2, <2>1, <2>2, <2>3, <3>1
    <3>3. Side(o, h)'
      BY <1>2, <2>1, <2>2, <2>3, <3>1
    <3> QED BY <3>2, <3>3
  <2>7. Way(h, o)'
    <3> SUFFICES ASSUME lastPress' PROVE Way(h, o)'
      BY DEF Way
    <3>1. msg[h] = "tabletInput"
      BY <1>4, <2>1 DEF Both, Held, ComposedIsHeld
    <3> USE DEF OnTheWay, Asking, Asked, Answered, NotAnswered, Grows,
                NothingConnects, NoSignals, Signals
    <3>2. OnTheWay(h, o) => OnTheWay(h, o)'
      BY <1>2, <2>3, <3>1
    <3>3. OnTheWay(o, h) => OnTheWay(o, h)'
      BY <1>2, <2>3, <3>1
    <3> QED BY <1>2, <2>1, <3>2, <3>3 DEF Both, Way
  <2>8. Silent(h)' /\ Silent(o)'
    BY <1>2, <2>2 DEF Both, Silent
  <2> QED BY <2>4, <2>5, <2>6, <2>7, <2>8 DEF Both
<1> QED BY <1>3, <1>4 DEF Streaming

(* The other side of a quiet link agrees with this one. *)
LEMMA QuietFits ==
  ASSUME NEW h, NEW o, TwoSides(h, o), Quiet, Side(h, o)
  PROVE  /\ net[h] = << >> /\ net[o] = << >> /\ osc[h] = "idle" /\ osc[o] = "idle"
         /\ pen[h] = "idle" /\ pen[o] = "idle"
         /\ key[h] \in {"idle", "stopped"} /\ key[o] \in {"idle", "stopped"}
         /\ isConnected[h] => isConnected[o]
<1>1. /\ net[h] = << >> /\ net[o] = << >> /\ osc[h] = "idle" /\ osc[o] = "idle"
      /\ pen[h] = "idle" /\ pen[o] = "idle"
      /\ key[h] \in {"idle", "stopped"} /\ key[o] \in {"idle", "stopped"}
  BY DEF TwoSides, Quiet
<1>2. ~Mends(h, o) /\ ~Contains(net[h], "disconnect")
  BY <1>1, EmptyQueue DEF Mends, Breaks, Announces, NothingConnects
<1> QED BY <1>1, <1>2 DEF Side, Matched

(* The program ends: a connected one says so first. *)
LEMMA DisposeKeeps ==
  ASSUME NEW h, NEW o, TwoSides(h, o), Both(h, o), Dispose(h)
  PROVE  Both(h, o)'
<1> USE DEF TwoSides
<1>1. LinkTypeOK
  BY DEF Both
<1>2. /\ key[h] = "idle" /\ key' = [key EXCEPT ![h] = "exit"]
      /\ isConnected' = [isConnected EXCEPT ![h] = FALSE]
      /\ presses' = presses + 1
      /\ UNCHANGED <<osc, pen, net, faults>>
  BY DEF Dispose
<1>3. /\ key'[h] = "exit" /\ key'[o] = key[o]
      /\ isConnected'[h] = FALSE /\ isConnected'[o] = isConnected[o]
  BY <1>1, <1>2 DEF LinkTypeOK
<1>4. /\ msg' \in [Hosts -> Patterns] /\ msg'[o] = msg[o]
      /\ lastPress' \in BOOLEAN /\ ordered' \in BOOLEAN
      /\ ordered' => ordered
      /\ lastPress' => lastPress
      /\ ordered' \/ lastPress' => Quiet /\ msg'[h] = "disconnect"
  <2>1. CASE Quiet
    <3>1. Compose(h, "disconnect")
      BY <2>1 DEF Dispose
    <3> QED BY <1>1, <2>1, <3>1, ComposeFacts DEF Patterns
  <2>2. CASE ~Quiet
    <3>1. PICK m \in {"disconnect", msg[h], "garbled"} : msg' = [msg EXCEPT ![h] = m]
      BY <2>2 DEF Dispose
    <3>2. m \in Patterns
      BY <1>1 DEF LinkTypeOK, Patterns
    <3>3. lastPress' = FALSE /\ ordered' = FALSE
      BY <2>2 DEF Dispose
    <3> QED BY <1>1, <3>1, <3>2, <3>3 DEF LinkTypeOK
  <2> QED BY <2>1, <2>2
<1>5. LinkTypeOK'
  BY <1>1, <1>2, <1>4 DEF LinkTypeOK
<1>6. Held(h, o)'
  <2> SUFFICES ASSUME ordered' \/ lastPress'
               PROVE  ComposedIsHeld(h)' /\ ComposedIsHeld(o)'
    BY DEF Held
  <2>1. /\ osc[h] = "idle" /\ osc[o] = "idle" /\ pen[h] = "idle" /\ pen[o] = "idle"
        /\ key[o] \in {"idle", "stopped"}
    BY <1>4 DEF Quiet
  <2> QED BY <1>2, <1>3, <1>4, <2>1 DEF ComposedIsHeld
<1>7. Fit(h, o)'
  <2> SUFFICES ASSUME ordered' PROVE Side(h, o)' /\ Side(o, h)'
    BY DEF Fit
  <2>1. Side(h, o) /\ Side(o, h) /\ Quiet
    BY <1>4 DEF Both, Fit
  <2>2. /\ net[h] = << >> /\ net[o] = << >> /\ osc[h] = "idle" /\ osc[o] = "idle"
        /\ pen[h] = "idle" /\ pen[o] = "idle" /\ key[o] \in {"idle", "stopped"}
    BY <2>1, QuietFits
  <2> USE DEF Side, RepliesHold, AnswersHold, Matched, Away, Mends, Announces,
              NothingConnects
  <2>3. Side(h, o)'
    BY <1>2, <1>3, <2>1, <2>2, EmptyQueue
  <2>4. Side(o, h)'
    BY <1>2, <1>3, <2>1, <2>2, EmptyQueue
  <2> QED BY <2>3, <2>4
<1>8. Way(h, o)'
  BY <1>3 DEF Way
<1>9. Silent(h)' /\ Silent(o)'
  BY <1>2, <1>3 DEF Both, Silent
<1> QED BY <1>5, <1>6, <1>7, <1>8, <1>9 DEF Both

(* It is gone: after its disconnect, or at once if it was not connected. *)
LEMMA StopKeeps ==
  ASSUME NEW h, NEW o, TwoSides(h, o), Both(h, o), Stop(h)
  PROVE  Both(h, o)'
<1> USE DEF TwoSides
<1>1. LinkTypeOK
  BY DEF Both
<1>2. /\ key' = [key EXCEPT ![h] = "stopped"] /\ osc' = [osc EXCEPT ![h] = "idle"]
      /\ pen' = [pen EXCEPT ![h] = "idle"]
      /\ lastPress' = FALSE /\ ordered' = (ordered /\ (key[h] = "exit" \/ Quiet))
      /\ UNCHANGED <<isConnected, msg, faults>>
  BY DEF Stop
<1>3. /\ key'[h] = "stopped" /\ key'[o] = key[o]
      /\ osc'[h] = "idle" /\ osc'[o] = osc[o]
      /\ pen'[h] = "idle" /\ pen'[o] = pen[o]
  BY <1>1, <1>2 DEF LinkTypeOK
<1>4. presses' \in Nat
  BY <1>1 DEF Stop, LinkTypeOK
<1>5. ordered' \in BOOLEAN /\ (ordered' => ordered)
  BY <1>1, <1>2 DEF LinkTypeOK
<1>6. Held(h, o)'
  BY <1>2, <1>3, <1>5 DEF Both, Held, ComposedIsHeld
<1>7. Way(h, o)' /\ Silent(h)' /\ Silent(o)'
  BY <1>2, <1>3 DEF Both, Way, Silent
<1>8. CASE key[h] = "exit"
  <2>1. Send(h)
    BY <1>8 DEF Stop
  <2>2. /\ net' \in [Hosts -> Seq(Patterns)] /\ net'[h] = net[h]
        /\ Grows(net[o], msg[h], net'[o])
    BY <1>1, <2>1, SendFacts
  <2>3. LinkTypeOK'
    BY <1>1, <1>2, <1>4, <1>5, <2>2 DEF LinkTypeOK
  <2>4. Fit(h, o)'
    <3> SUFFICES ASSUME ordered' PROVE Side(h, o)' /\ Side(o, h)'
      BY DEF Fit
    <3>1. Side(h, o) /\ Side(o, h) /\ msg[h] = "disconnect"
      BY <1>5, <1>8 DEF Both, Fit, Held, ComposedIsHeld
    <3> USE DEF Side, RepliesHold, AnswersHold, Matched, Away, Mends, Announces,
                Grows, Breaks, NothingConnects
    <3>2. Side(h, o)'
      BY <1>2, <1>3, <1>8, <2>2, <3>1
    <3>3. Side(o, h)'
      BY <1>2, <1>3, <1>8, <2>2, <3>1
    <3> QED BY <3>2, <3>3
  <2> QED BY <1>6, <1>7, <2>3, <2>4 DEF Both
<1>9. CASE key[h] # "exit"
  <2>1. net' = net /\ ~isConnected[h]
    BY <1>9 DEF Stop
  <2>2. LinkTypeOK'
    BY <1>1, <1>2, <1>4, <1>5, <2>1 DEF LinkTypeOK
  <2>3. Fit(h, o)'
    <3> SUFFICES ASSUME ordered' PROVE Side(h, o)' /\ Side(o, h)'
      BY DEF Fit
    <3>1. Side(h, o) /\ Side(o, h) /\ Quiet
      BY <1>2, <1>5, <1>9 DEF Both, Fit
    <3>2. /\ net[h] = << >> /\ net[o] = << >> /\ osc[h] = "idle" /\ osc[o] = "idle"
          /\ pen[h] = "idle" /\ pen[o] = "idle" /\ key[o] \in {"idle", "stopped"}
          /\ ~isConnected[o]
      BY <2>1, <3>1, QuietFits
    <3> USE DEF Side, RepliesHold, AnswersHold, Matched, Away, Mends, Announces,
                NothingConnects
    <3>3. Side(h, o)'
      BY <1>2, <1>3, <2>1, <3>1, <3>2, EmptyQueue
    <3>4. Side(o, h)'
      BY <1>2, <1>3, <2>1, <3>1, <3>2, EmptyQueue
    <3> QED BY <3>3, <3>4
  <2> QED BY <1>6, <1>7, <2>2, <2>3 DEF Both
<1> QED BY <1>8, <1>9

(* It is started again. *)
LEMMA StartKeeps ==
  ASSUME NEW h, NEW o, TwoSides(h, o), Both(h, o), Start(h)
  PROVE  Both(h, o)'
<1> USE DEF TwoSides
<1>1. LinkTypeOK
  BY DEF Both
<1>2. /\ key[h] = "stopped" /\ key' = [key EXCEPT ![h] = "idle"]
      /\ isConnected' = [isConnected EXCEPT ![h] = FALSE]
      /\ msg' = [msg EXCEPT ![h] = "garbled"]
      /\ UNCHANGED <<osc, pen, net, presses, faults, lastPress, ordered>>
  BY DEF Start, history
<1>3. /\ key'[h] = "idle" /\ key'[o] = key[o]
      /\ isConnected'[h] = FALSE /\ isConnected'[o] = isConnected[o]
      /\ msg'[o] = msg[o] /\ osc[h] = "idle" /\ pen[h] = "idle"
  BY <1>1, <1>2 DEF LinkTypeOK, Both, Silent
<1>4. LinkTypeOK'
  BY <1>1, <1>2 DEF LinkTypeOK, Patterns
<1>5. Held(h, o)'
  BY <1>2, <1>3 DEF Both, Held, ComposedIsHeld
<1>6. Fit(h, o)'
  <2> USE DEF Side, RepliesHold, AnswersHold, Matched, Away, Mends, Announces,
              Breaks, NothingConnects
  <2>1. Side(h, o) /\ Side(o, h) => Side(h, o)'
    BY <1>2, <1>3
  <2>2. Side(h, o) /\ Side(o, h) => Side(o, h)'
    BY <1>2, <1>3
  <2> QED BY <1>2, <2>1, <2>2 DEF Both, Fit
<1>7. Way(h, o)'
  BY <1>2, <1>3 DEF Both, Way, OnTheWay, Asking, Asked, Answered
<1>8. Silent(h)' /\ Silent(o)'
  BY <1>2, <1>3 DEF Both, Silent
<1> QED BY <1>4, <1>5, <1>6, <1>7, <1>8 DEF Both

(* What comes while it is away is lost. *)
LEMMA NobodyListensKeeps ==
  ASSUME NEW h, NEW o, TwoSides(h, o), Both(h, o), NobodyListens(h)
  PROVE  Both(h, o)'
<1> USE DEF TwoSides
<1>1. LinkTypeOK
  BY DEF Both
<1>2. /\ key[h] = "stopped" /\ net[h] # << >>
      /\ net' = [net EXCEPT ![h] = Tail(@)]
      /\ UNCHANGED <<isConnected, msg, key, osc, pen, presses, faults, lastPress,
                     ordered>>
  BY DEF NobodyListens, threads, history
<1>3. /\ net' \in [Hosts -> Seq(Patterns)] /\ net'[o] = net[o]
      /\ Shrinks(net[h], Head(net[h]), net'[h])
  BY <1>1, <1>2, TakeFacts
<1>4. LinkTypeOK'
  BY <1>1, <1>2, <1>3 DEF LinkTypeOK
<1>5. Held(h, o)' /\ Silent(h)' /\ Silent(o)'
  BY <1>2 DEF Both, Held, ComposedIsHeld, Silent
<1>6. Fit(h, o)'
  <2> USE DEF Side, RepliesHold, AnswersHold, Matched, Away, Mends, Announces,
              Shrinks, Breaks, NothingConnects
  <2>1. Side(h, o) /\ Side(o, h) => Side(h, o)'
    BY <1>2, <1>3
  <2>2. Side(h, o) /\ Side(o, h) => Side(o, h)'
    BY <1>2, <1>3
  <2> QED BY <1>2, <2>1, <2>2 DEF Both, Fit
<1>7. Way(h, o)'
  BY <1>2 DEF Both, Way, OnTheWay, Asking, Asked, Answered
<1> QED BY <1>4, <1>5, <1>6, <1>7 DEF Both

(* After a fault of the network nothing is claimed but the types. *)
LEMMA FaultKeeps ==
  ASSUME NEW h, NEW o, TwoSides(h, o), Both(h, o), Fault(h)
  PROVE  Both(h, o)'
<1>1. LinkTypeOK
  BY DEF Both
<1>2. /\ lastPress' = FALSE /\ ordered' = FALSE /\ faults' = faults + 1
      /\ UNCHANGED <<isConnected, msg, key, osc, pen, presses>>
  BY DEF Fault, threads
<1>3. net' \in [Hosts -> Seq(Patterns)]
  <2>1. h \in Hosts /\ net[h] \in Seq(Patterns)
    BY <1>1, SideTypes DEF TwoSides
  <2>2. PICK i \in 1 .. Len(net[h]) :
          \/ net' = [net EXCEPT ![h] = RemoveAt(@, i)]
          \/ net' = [net EXCEPT ![h] = Append(@, @[i])]
          \/ i > 1 /\ net' = [net EXCEPT ![h] = <<@[i]>> \o RemoveAt(@, i)]
    BY DEF Fault
  <2> DEFINE s == net[h]
  <2>3. s \in Seq(Patterns) /\ i \in 1 .. Len(s) /\ Len(s) \in Nat /\ s[i] \in Patterns
    BY <2>1, <2>2
  <2>4. RemoveAt(s, i) \in Seq(Patterns)
    <3>1. SubSeq(s, 1, i - 1) \in Seq(Patterns) /\ SubSeq(s, i + 1, Len(s)) \in Seq(Patterns)
      BY <2>3
    <3> QED BY <3>1 DEF RemoveAt
  <2>5. Append(s, s[i]) \in Seq(Patterns) /\ <<s[i]>> \o RemoveAt(s, i) \in Seq(Patterns)
    <3>1. Append(s, s[i]) \in Seq(Patterns) /\ <<s[i]>> \in Seq(Patterns)
      BY <2>3
    <3> QED BY <2>4, <3>1
  <2> QED BY <1>1, <2>2, <2>4, <2>5 DEF LinkTypeOK
<1>4. faults' \in Nat
  BY <1>1, <1>2 DEF LinkTypeOK
<1>5. lastPress' \in BOOLEAN /\ ordered' \in BOOLEAN
  BY <1>2
<1>6. LinkTypeOK'
  BY <1>1, <1>2, <1>3, <1>4, <1>5, Zenon DEF LinkTypeOK
<1> QED BY <1>2, <1>6 DEF Both, Held, Fit, Way, Silent

(* Every step, of either side, keeps the invariant. *)
LEMMA LinkStepKeeps == LinkIInv /\ [LinkNext]_linkVars => LinkIInv'
<1> SUFFICES ASSUME LinkIInv, [LinkNext]_linkVars PROVE LinkIInv'
  OBVIOUS
<1>1. ASSUME NEW h \in Hosts,
             \/ TryToConnect(h) \/ KeyThread(h)
             \/ Receive(h) \/ ReceiveGoesOn(h) \/ Streaming(h)
             \/ Dispose(h) \/ Stop(h) \/ Start(h) \/ NobodyListens(h) \/ Fault(h)
      PROVE  LinkIInv'
  <2> DEFINE o == Other(h)
  <2>1. TwoSides(h, o)
    BY HostPair
  <2> HIDE DEF o
  <2>2. Both(h, o)
    BY <2>1, BothSides
  <2>3. Both(h, o)'
    BY <1>1, <2>1, <2>2, TryToConnectKeeps, KeyThreadKeeps, ReceiveKeeps,
       ReceiveGoesOnKeeps, StreamingKeeps, DisposeKeeps, StopKeeps, StartKeeps,
       NobodyListensKeeps, FaultKeeps
  <2> QED BY <2>1, <2>3, BothSides
<1>2. CASE UNCHANGED linkVars
  <2>1. PICK h \in Hosts : TRUE
    BY TwoHosts
  <2> DEFINE o == Other(h)
  <2>2. TwoSides(h, o)
    BY HostPair
  <2> HIDE DEF o
  <2>3. Both(h, o)
    BY <2>2, BothSides
  <2>4. LinkTypeOK'
    BY <1>2, <2>3 DEF linkVars, threads, history, Both, LinkTypeOK
  <2>5. Held(h, o)' /\ Silent(h)' /\ Silent(o)' /\ Way(h, o)'
    BY <1>2, <2>3 DEF linkVars, threads, history, Both, Held, ComposedIsHeld, Silent,
       Way, OnTheWay, Asking, Asked, Answered, NotAnswered
  <2>6. Fit(h, o)'
    BY <1>2, <2>3 DEF linkVars, threads, history, Both, Fit, Side, RepliesHold,
       AnswersHold, Matched, Away, Mends, Announces
  <2> QED BY <2>2, <2>4, <2>5, <2>6, BothSides DEF Both
<1> QED BY <1>1, <1>2 DEF LinkNext

(* Whatever keys, pens, restarts, races of threads and faults of UDP come,
   the two programs and the datagrams under way stay in these relations. *)
THEOREM LinkInductiveInvariant == LinkSpec => []LinkIInv
BY LinkInitHolds, LinkStepKeeps, PTL DEF LinkSpec

(* One press of ~ on a quiet link connects both sides, whatever state they
   were left in; and without a fault or a race they agree whenever the link
   is quiet, however many presses there were. *)
THEOREM HostsAgree == LinkSpec => []Agreement
<1>1. LinkIInv => Agreement
  <2> SUFFICES ASSUME LinkIInv, Quiet
               PROVE  /\ lastPress => \A h \in Hosts : isConnected[h]
                      /\ ordered /\ (\A h \in Hosts : key[h] # "stopped")
                         => \A h \in Hosts : isConnected[h] = isConnected[Other(h)]
    BY DEF Agreement
  <2>1. ASSUME lastPress, NEW h \in Hosts PROVE isConnected[h]
    <3>1. PICK p \in Hosts : OnTheWay(p, Other(p))
      BY <2>1 DEF LinkIInv, Pressed, Quiet
    <3> DEFINE q == Other(p)
    <3>2. TwoSides(p, q)
      BY HostPair
    <3> HIDE DEF q
    <3>3. /\ net[p] = << >> /\ net[q] = << >> /\ osc[p] = "idle" /\ osc[q] = "idle"
          /\ key[p] \in {"idle", "stopped"}
      BY <3>2 DEF TwoSides, Quiet
    <3>4. isConnected[p] /\ isConnected[q]
      BY <3>1, <3>3, EmptyQueue DEF q, OnTheWay, Asking, Asked, Answered
    <3> QED BY <3>2, <3>4 DEF TwoSides
  <2>2. ASSUME ordered, NEW h \in Hosts
        PROVE  isConnected[h] = isConnected[Other(h)]
    <3> DEFINE o == Other(h)
    <3>1. TwoSides(h, o) /\ TwoSides(o, h)
      BY HostPair DEF TwoSides
    <3> HIDE DEF o
    <3>2. Side(h, o) /\ Side(o, h)
      BY <2>2, <3>1 DEF LinkIInv, SidesFit, TwoSides
    <3>3. (isConnected[h] => isConnected[o]) /\ (isConnected[o] => isConnected[h])
      BY <3>1, <3>2, QuietFits
    <3>4. isConnected[h] \in BOOLEAN /\ isConnected[o] \in BOOLEAN
      BY <3>1 DEF LinkIInv, LinkTypeOK, TwoSides
    <3>5. isConnected[h] = isConnected[o]
      BY <3>3, <3>4
    <3> QED BY <3>5 DEF o
  <2> QED BY <2>1, <2>2
<1> QED BY <1>1, LinkInductiveInvariant, PTL

-----------------------------------------------------------------------------
(* The pins. *)

InputPins == LIMIT_MASK \cup CONTROL_MASK \cup {ProbeBit}

SettingsType == [step : SUBSET Axes, dir : SUBSET Axes, enable : BOOLEAN,
                 limits : BOOLEAN, probe : BOOLEAN, hard : BOOLEAN, rpm : Nat]
DerivedType == [step : SUBSET STEP_MASK, dir : SUBSET DIRECTION_MASK,
                probe : SUBSET {ProbeBit}, gradient : Nat]
ChangeType == [on : SUBSET {"limits", "control"}, mask : SUBSET InputPins,
               due : SUBSET {"limits", "control"}]

TypesFit ==
  /\ settings \in SettingsType
  /\ derived \in DerivedType
  /\ change \in ChangeType
  /\ ground \subseteq InputPins /\ heard \subseteq Buttons

(* The buttons keep their pull-ups and their place in the interrupt's mask:
   nothing else that writes a port or the mask touches them. *)
ButtonsListen == /\ CONTROL_MASK \subseteq latch
                 /\ CONTROL_MASK \subseteq change.mask

PinsIInv == TypesFit /\ ButtonsListen /\ CachesFollow /\ ButtonsHeard

-----------------------------------------------------------------------------
(* No two of these pins are one. *)

LEMMA PinsApart ==
  /\ LIMIT_MASK \cap CONTROL_MASK = {} /\ ProbeBit \notin CONTROL_MASK
  /\ LimitBit["X"] \in LIMIT_MASK
  /\ CONTROL_MASK \cap STEP_MASK = {} /\ CONTROL_MASK \cap DIRECTION_MASK = {}
  /\ StepperDisableBit \notin CONTROL_MASK
  /\ SpindleDirectionBit \notin CONTROL_MASK
  /\ CoolantFloodBit \notin CONTROL_MASK
  BY DEF LIMIT_MASK, CONTROL_MASK, STEP_MASK, DIRECTION_MASK, Mask, Axes,
     Buttons, LimitBit, ControlBit, StepBit, DirectionBit, ProbeBit,
     StepperDisableBit, SpindleDirectionBit, CoolantFloodBit

LEMMA ButtonsApart ==
  /\ Buttons = {"reset", "hold", "start"}
  /\ \A a, b \in Buttons : ControlBit[a] = ControlBit[b] => a = b
  /\ \A b \in Buttons : ControlBit[b] \in CONTROL_MASK
  BY DEF Buttons, ControlBit, CONTROL_MASK, Mask

(* What writes the ports leaves the buttons' pull-ups on. *)
LEMMA PullUpsStay ==
  ASSUME NEW port, CONTROL_MASK \subseteq port
  PROVE  /\ CONTROL_MASK \subseteq coolant_stop(port)
         /\ \A s, on : CONTROL_MASK \subseteq Driven(port, s, on)
         /\ \A s, alarmed, m : CONTROL_MASK \subseteq GoIdle(port, s, alarmed, m)
         /\ \A out : CONTROL_MASK \subseteq Write(port, STEP_MASK, out)
         /\ \A out : CONTROL_MASK \subseteq
                        Write(port, STEP_MASK \cup DIRECTION_MASK, out)
         /\ \A s, d, m : CONTROL_MASK \subseteq StReset(port, s, d, m)
<1>1. CONTROL_MASK \subseteq coolant_stop(port)
  BY PinsApart DEF coolant_stop
<1>2. ASSUME NEW s, NEW on
      PROVE  CONTROL_MASK \subseteq Driven(port, s, on)
  BY PinsApart DEF Driven
<1>3. ASSUME NEW s, NEW alarmed, NEW m
      PROVE  CONTROL_MASK \subseteq GoIdle(port, s, alarmed, m)
  BY <1>2 DEF GoIdle
<1>4. ASSUME NEW p, CONTROL_MASK \subseteq p, NEW out
      PROVE  /\ CONTROL_MASK \subseteq Write(p, STEP_MASK, out)
             /\ CONTROL_MASK \subseteq
                  Write(p, STEP_MASK \cup DIRECTION_MASK, out)
  BY <1>4, PinsApart DEF Write
<1>5. ASSUME NEW s, NEW d, NEW m
      PROVE  CONTROL_MASK \subseteq StReset(port, s, d, m)
  BY <1>3, <1>4 DEF StReset
<1> QED BY <1>1, <1>2, <1>3, <1>4, <1>5

LEMMA ResetKeepsPullUps ==
  ASSUME CONTROL_MASK \subseteq latch, NEW code, mc_reset(code)
  PROVE  CONTROL_MASK \subseteq latch' /\ ~First'
<1>1. CONTROL_MASK \subseteq coolant_stop(latch)
  BY PullUpsStay
<1>2. CONTROL_MASK \subseteq GoIdle(coolant_stop(latch), settings, TRUE, mode)
  BY <1>1, PullUpsStay
<1> QED BY <1>1, <1>2 DEF mc_reset, First

(* The derived values, and the limit pins' interrupt. *)
LEMMA MaskTypes ==
  ASSUME NEW s \in SettingsType
  PROVE  /\ Mask(StepBit, s.step) \subseteq STEP_MASK
         /\ Mask(DirectionBit, s.dir) \subseteq DIRECTION_MASK
         /\ \A away \in BOOLEAN : ProbeMask(s, away) \subseteq {ProbeBit}
  BY DEF SettingsType, Mask, STEP_MASK, DIRECTION_MASK, ProbeMask

LEMMA LimitsInitIs ==
  ASSUME NEW c \in ChangeType, NEW s \in SettingsType,
         CONTROL_MASK \subseteq c.mask
  PROVE  LET n == LimitsInit(c, s)
         IN /\ n \in ChangeType /\ CONTROL_MASK \subseteq n.mask
            /\ n.due = c.due
            /\ ("limits" \in n.on) = s.hard
            /\ (LIMIT_MASK \subseteq n.mask) = s.hard
<1>1. CASE s.hard
  BY <1>1 DEF ChangeType, SettingsType, LimitsInit, Armed, InputPins
<1>2. CASE ~s.hard
  <2> DEFINE n == LimitsInit(c, s)
  <2>1. n = Disarmed(c) /\ ~s.hard /\ s.hard \in BOOLEAN
    BY <1>2 DEF LimitsInit, SettingsType
  <2>2. n \in ChangeType /\ n.due = c.due
    BY <2>1 DEF ChangeType, Disarmed
  <2>3. n.on = c.on \ {"limits"} /\ n.mask = c.mask \ LIMIT_MASK
    BY <2>1 DEF ChangeType, Disarmed
  <2>4. "limits" \notin n.on
    BY <2>3
  <2>5. ~(LIMIT_MASK \subseteq n.mask) /\ CONTROL_MASK \subseteq n.mask
    BY <2>3, PinsApart
  <2> HIDE DEF n
  <2>6. ("limits" \in n.on) = s.hard
    BY <2>1, <2>4
  <2>7. (LIMIT_MASK \subseteq n.mask) = s.hard
    BY <2>1, <2>5
  <2> QED BY <2>2, <2>5, <2>6, <2>7 DEF n
<1> QED BY <1>1, <1>2

LEMMA DisarmedIs ==
  ASSUME NEW c \in ChangeType, CONTROL_MASK \subseteq c.mask
  PROVE  /\ Disarmed(c) \in ChangeType /\ Disarmed(c).due = c.due
         /\ CONTROL_MASK \subseteq Disarmed(c).mask
  BY PinsApart DEF ChangeType, Disarmed

-----------------------------------------------------------------------------
(* The first states. *)
LEMMA PinsInitInv == PinsInit => PinsIInv
<1> SUFFICES ASSUME PinsInit PROVE PinsIInv
  OBVIOUS
<1>1. TypesFit
  BY DEF PinsInit, TypesFit, SettingsType, DerivedType, ChangeType, DefaultPins,
     system_init, InputPins
<1>2. ButtonsListen
  <2>1. CONTROL_MASK \subseteq PullUps
    BY DEF PullUps
  <2> QED BY <2>1, PullUpsStay DEF PinsInit, ButtonsListen, system_init
<1>3. CachesFollow
  <2>1. Mask(StepBit, {}) = {} /\ Mask(DirectionBit, {}) = {}
    BY DEF Mask
  <2>2. /\ derived.step = {} /\ derived.dir = {} /\ derived.gradient = 1000
        /\ derived.probe = {ProbeBit} /\ settings = DefaultPins
        /\ change.on = {"control"} /\ change.mask = CONTROL_MASK
    BY DEF PinsInit, system_init
  <2>3. "limits" \notin change.on /\ ~(LIMIT_MASK \subseteq change.mask)
    BY <2>2, PinsApart
  <2>4. /\ ~settings.hard /\ settings.hard \in BOOLEAN
        /\ settings.step = {} /\ settings.dir = {}
        /\ settings.rpm = 1000 /\ settings.probe = FALSE
    BY <2>2 DEF DefaultPins
  <2>5. ("limits" \in change.on) = settings.hard
    BY <2>3, <2>4
  <2>6. (LIMIT_MASK \subseteq change.mask) = settings.hard
    BY <2>3, <2>4
  <2> QED BY <2>1, <2>2, <2>4, <2>5, <2>6 DEF CachesFollow, ProbeMask
<1>4. ButtonsHeard
  BY ButtonsApart DEF PinsInit, ButtonsHeard
<1> QED BY <1>1, <1>2, <1>3, <1>4 DEF PinsIInv

(* What a step cannot break that leaves the settings, what is derived from
   them, the switches and their interrupts alone. *)
PinsQuiet == UNCHANGED <<settings, derived, ground, change, heard>>

SettledPlace == First /\ at \notin {"locked", "abort"}

PlaceIsQuiet ==
  SettledPlace' => /\ SettledPlace
                   /\ at = "home" => at' = "home"
                   /\ at \in {"probe", "probe_fail"} =>
                        at' \in {"probe", "probe_fail"}

LEMMA QuietStep ==
  ASSUME PinsIInv, PinsQuiet, PlaceIsQuiet, CONTROL_MASK \subseteq latch'
  PROVE  PinsIInv'
<1>1. TypesFit'
  BY DEF PinsIInv, TypesFit, PinsQuiet
<1>2. ButtonsListen'
  BY DEF PinsIInv, ButtonsListen, PinsQuiet
<1>3. CachesFollow'
  BY DEF PinsIInv, CachesFollow, PinsQuiet, PlaceIsQuiet, SettledPlace
<1>4. ButtonsHeard'
  BY DEF PinsIInv, ButtonsHeard, PinsQuiet
<1> QED BY <1>1, <1>2, <1>3, <1>4 DEF PinsIInv

(* The interrupts of the stepper driver, and a reset by its character. *)
LEMMA StepperISRQuiet ==
  ASSUME PinsIInv, StepperISR \/ PulseEnds
  PROVE  PinsIInv'
<1>1. CONTROL_MASK \subseteq latch'
  <2>1. CONTROL_MASK \subseteq latch
    BY DEF PinsIInv, ButtonsListen
  <2>2. CASE StepperISR
    BY <2>1, <2>2, PullUpsStay DEF StepperISR
  <2>3. CASE PulseEnds
    BY <2>1, <2>3, PullUpsStay DEF PulseEnds
  <2> QED BY <2>2, <2>3
<1>2. PinsQuiet /\ PlaceIsQuiet
  BY DEF StepperISR, PulseEnds, PinsQuiet, PlaceIsQuiet, SettledPlace, First, exec,
     bounds
<1> QED BY <1>1, <1>2, QuietStep

LEMMA SegmentQuiet ==
  ASSUME PinsIInv, LoadSegment \/ NoSegment
  PROVE  PinsIInv'
<1>1. CONTROL_MASK \subseteq latch'
  <2>1. CONTROL_MASK \subseteq latch
    BY DEF PinsIInv, ButtonsListen
  <2>2. CASE LoadSegment
    BY <2>1, <2>2, PullUpsStay DEF LoadSegment
  <2>3. CASE NoSegment
    BY <2>1, <2>3, PullUpsStay DEF NoSegment
  <2> QED BY <2>2, <2>3
<1>2. First' => First
  BY DEF LoadSegment, NoSegment, probe_state_monitor, First
<1>3. PinsQuiet /\ PlaceIsQuiet
  BY <1>2 DEF LoadSegment, NoSegment, PinsQuiet, PlaceIsQuiet, SettledPlace, bounds
<1> QED BY <1>1, <1>3, QuietStep

LEMMA ResetQuiet ==
  ASSUME PinsIInv, ResetChar \/ HomeFails
  PROVE  PinsIInv'
<1>1. CONTROL_MASK \subseteq latch' /\ ~First'
  BY ResetKeepsPullUps DEF PinsIInv, ButtonsListen, ResetChar, HomeFails
<1>2. PinsQuiet /\ PlaceIsQuiet
  BY <1>1 DEF ResetChar, HomeFails, PinsQuiet, PlaceIsQuiet, SettledPlace, bounds
<1> QED BY <1>1, <1>2, QuietStep

(* The main program's steps that leave the settings and the switches alone. *)
LEMMA OutputQuiet ==
  ASSUME PinsIInv, SetOutput \/ SetSpindle \/ SetCoolant
  PROVE  PinsIInv'
<1>1. CONTROL_MASK \subseteq latch'
  BY PullUpsStay, PinsApart DEF PinsIInv, ButtonsListen, SetOutput, SetSpindle,
     SetCoolant, ports
<1>2. PinsQuiet /\ PlaceIsQuiet
  BY DEF SetOutput, SetSpindle, SetCoolant, Command, MainAt, PinsQuiet,
     PlaceIsQuiet, SettledPlace, First, exec, bounds
<1> QED BY <1>1, <1>2, QuietStep

LEMMA MotionQuiet ==
  ASSUME PinsIInv, StartMotion \/ ProbeReset \/ Unlock
  PROVE  PinsIInv'
<1>1. CONTROL_MASK \subseteq latch'
  <2>1. CONTROL_MASK \subseteq latch
    BY DEF PinsIInv, ButtonsListen
  <2>2. CASE StartMotion
    BY <2>1, <2>2, PullUpsStay DEF StartMotion, WakeUp
  <2>3. CASE ProbeReset
    BY <2>1, <2>3, PullUpsStay DEF ProbeReset, ResetSteppers
  <2>4. CASE Unlock
    BY <2>1, <2>4, PullUpsStay DEF Unlock, ports
  <2> QED BY <2>2, <2>3, <2>4
<1>2. PinsQuiet /\ PlaceIsQuiet
  BY DEF StartMotion, ProbeReset, Unlock, Command, MainAt, PinsQuiet, PlaceIsQuiet,
     SettledPlace, First, exec, bounds
<1> QED BY <1>1, <1>2, QuietStep

LEMMA ExecQuiet ==
  ASSUME PinsIInv, ExecAlarm \/ LeaveLocked \/ ExecAbort \/ ExecFlags
  PROVE  PinsIInv'
<1>1. CONTROL_MASK \subseteq latch'
  BY DEF PinsIInv, ButtonsListen, ExecAlarm, LeaveLocked, ExecAbort, ExecFlags,
     ports
<1>2. PinsQuiet /\ PlaceIsQuiet
  BY DEF ExecAlarm, LeaveLocked, ExecAbort, ExecFlags, MainAt, Executes, PinsQuiet,
     PlaceIsQuiet, SettledPlace, First, exec, bounds
<1> QED BY <1>1, <1>2, QuietStep

-----------------------------------------------------------------------------
(* The steps that change the settings, the derived values or the interrupts
   of the switches. *)

(* A switch: the interrupt of a button is flagged, and others are not about
   the buttons. *)
LEMMA PinChangesKeeps ==
  ASSUME PinsIInv, NEW p \in Wired, PinChanges(p)
  PROVE  PinsIInv'
<1>1. /\ ground' \subseteq ground \cup {p} /\ ground \subseteq ground' \cup {p}
      /\ heard' = {b \in heard : ControlBit[b] # p}
      /\ UNCHANGED <<settings, derived, latch, flags, at>>
  BY DEF PinChanges, ports, exec
<1>2. /\ change' \in ChangeType
      /\ change'.on = change.on /\ change'.mask = change.mask
      /\ change.due \subseteq change'.due
      /\ p \in change.mask => SourceOf(p) \in change'.due
  <2> DEFINE news == {SourceOf(q) : q \in {p} \cap change.mask}
  <2>1. news \subseteq {"limits", "control"}
    BY DEF SourceOf
  <2>2. p \in change.mask => SourceOf(p) \in news
    OBVIOUS
  <2>3. change \in ChangeType
        /\ change' = [change EXCEPT !.due = @ \cup news]
    BY DEF PinChanges, PinsIInv, TypesFit
  <2> HIDE DEF news
  <2> QED BY <2>1, <2>2, <2>3 DEF ChangeType
<1>3. TypesFit'
  BY <1>1, <1>2, PinsAssumption DEF PinsIInv, TypesFit, InputPins
<1>4. ButtonsListen'
  BY <1>1, <1>2 DEF PinsIInv, ButtonsListen
<1>5. CachesFollow'
  BY <1>1, <1>2 DEF PinsIInv, CachesFollow, First
<1>6. ButtonsHeard'
  <2>1. CASE p \in CONTROL_MASK
    BY <2>1, <1>2, PinsApart DEF PinsIInv, ButtonsListen, ButtonsHeard, SourceOf
  <2>2. CASE p \notin CONTROL_MASK
    <3>1. heard' = heard
      BY <2>2, <1>1, ButtonsApart DEF PinsIInv, TypesFit
    <3>2. \A q \in CONTROL_MASK : q \in ground' <=> q \in ground
      BY <2>2, <1>1
    <3> QED BY <1>2, <3>1, <3>2, ButtonsApart DEF PinsIInv, ButtonsHeard, Before
  <2> QED BY <2>1, <2>2
<1> QED BY <1>3, <1>4, <1>5, <1>6 DEF PinsIInv

LEMMA TakenIs ==
  ASSUME NEW source, change \in ChangeType, Taken(source)
  PROVE  /\ change' \in ChangeType
         /\ change'.on = change.on /\ change'.mask = change.mask
         /\ change'.due = change.due \ {source}
  BY DEF Taken, ChangeType

LEMMA LimitISRKeeps ==
  ASSUME PinsIInv, LimitISR
  PROVE  PinsIInv'
<1>1. /\ change' \in ChangeType
      /\ change'.on = change.on /\ change'.mask = change.mask
      /\ change'.due = change.due \ {"limits"}
  BY TakenIs DEF LimitISR, PinsIInv, TypesFit
<1>2. CONTROL_MASK \subseteq latch' /\ (First' => First)
  <2>1. CASE mc_reset("hard")
    BY <2>1, ResetKeepsPullUps DEF PinsIInv, ButtonsListen
  <2>2. CASE UNCHANGED <<exec, ports, timers>>
    BY <2>2 DEF PinsIInv, ButtonsListen, exec, ports, First
  <2> QED BY <2>1, <2>2 DEF LimitISR
<1>3. UNCHANGED <<settings, derived, ground, at, heard>>
  BY DEF LimitISR, bounds
<1>4. TypesFit'
  BY <1>1, <1>3 DEF PinsIInv, TypesFit
<1>5. ButtonsListen'
  BY <1>1, <1>2 DEF PinsIInv, ButtonsListen
<1>6. CachesFollow'
  BY <1>1, <1>2, <1>3 DEF PinsIInv, CachesFollow
<1>7. ButtonsHeard'
  BY <1>1, <1>3 DEF PinsIInv, ButtonsHeard
<1> QED BY <1>4, <1>5, <1>6, <1>7 DEF PinsIInv

(* The buttons' interrupt hears what is pressed. *)
LEMMA PressedAre ==
  ASSUME ButtonsListen
  PROVE  /\ CONTROL_MASK \subseteq ground => system_control_get_state = {}
         /\ ~(CONTROL_MASK \subseteq ground) =>
              system_control_get_state = {b \in Buttons : ControlBit[b] \in ground}
<1>1. High(CONTROL_MASK) = CONTROL_MASK \ ground
  BY DEF ButtonsListen, High
<1> QED BY <1>1, ButtonsApart DEF system_control_get_state

LEMMA ControlISRKeeps ==
  ASSUME PinsIInv, ControlISR
  PROVE  PinsIInv'
<1> DEFINE pressed == system_control_get_state
<1>1. /\ change' \in ChangeType
      /\ change'.on = change.on /\ change'.mask = change.mask
      /\ change'.due = change.due \ {"control"}
  BY TakenIs DEF ControlISR, PinsIInv, TypesFit
<1>2. CONTROL_MASK \subseteq latch' /\ (First' => First)
  <2>1. CASE mc_reset("none")
    BY <2>1, ResetKeepsPullUps DEF PinsIInv, ButtonsListen
  <2>2. CASE UNCHANGED ports /\ flags \subseteq flags'
    BY <2>2 DEF PinsIInv, ButtonsListen, ports, First
  <2> QED BY <2>1, <2>2 DEF ControlISR, exec
<1>3. /\ UNCHANGED <<settings, derived, ground, at>>
      /\ heard \subseteq heard' /\ heard' \subseteq heard \cup Buttons
  BY ButtonsApart DEF ControlISR
<1>4. TypesFit'
  BY <1>1, <1>3 DEF PinsIInv, TypesFit
<1>5. ButtonsListen'
  BY <1>1, <1>2 DEF PinsIInv, ButtonsListen
<1>6. CachesFollow'
  BY <1>1, <1>2, <1>3 DEF PinsIInv, CachesFollow
<1>7. ButtonsHeard'
  <2> SUFFICES ASSUME ~(CONTROL_MASK \subseteq ground),
                      NEW b \in Buttons, ControlBit[b] \in ground,
                      \A other \in Before(b) : ControlBit[other] \notin ground
               PROVE  b \in heard'
    BY <1>3 DEF ButtonsHeard
  <2>1. pressed = {c \in Buttons : ControlBit[c] \in ground}
    BY PressedAre DEF PinsIInv
  <2>2. b \in pressed /\ \A other \in Before(b) : other \notin pressed
    BY <2>1
  <2> HIDE DEF pressed
  <2>3. \/ "reset" \in pressed /\ heard' = heard \cup {"reset"}
        \/ /\ "start" \in pressed /\ "reset" \notin pressed
           /\ heard' = heard \cup {"start"}
        \/ pressed = {"hold"} /\ heard' = heard \cup {"hold"}
        \/ pressed = {}
    BY DEF ControlISR, pressed
  <2>4. CASE b = "reset"
    BY <2>2, <2>3, <2>4
  <2>5. CASE b = "start"
    BY <2>2, <2>3, <2>5 DEF Before
  <2>6. CASE b = "hold"
    BY <2>2, <2>3, <2>6 DEF Before
  <2> QED BY <2>4, <2>5, <2>6, ButtonsApart
<1> QED BY <1>4, <1>5, <1>6, <1>7 DEF PinsIInv

(* What nothing but the settings, the derived values and the limit pins'
   interrupt changes, the buttons do not notice. *)
LEMMA ButtonsUnaware ==
  ASSUME ButtonsListen, ButtonsHeard,
         CONTROL_MASK \subseteq latch', CONTROL_MASK \subseteq change'.mask,
         change'.due = change.due, UNCHANGED <<ground, heard>>
  PROVE  ButtonsListen' /\ ButtonsHeard'
  BY DEF ButtonsListen, ButtonsHeard

(* A setting that is typed: what the code derives from it, it derives anew. *)
LEMMA TypedIs ==
  ASSUME NEW t \in TypedSettings, NEW s \in SettingsType
  PROVE  LET n == [s EXCEPT ![t[1]] = t[2]]
         IN /\ n \in SettingsType
            /\ t[1] \notin {"step", "dir"} => n.step = s.step /\ n.dir = s.dir
            /\ t[1] # "probe" => n.probe = s.probe
            /\ t[1] # "hard" => n.hard = s.hard
            /\ t[1] # "rpm" => n.rpm = s.rpm
<1>1. CASE t \in {"step", "dir"} \X SUBSET Axes
  BY <1>1 DEF SettingsType
<1>2. CASE t \in {"enable", "limits", "probe", "hard"} \X BOOLEAN
  BY <1>2 DEF SettingsType
<1>3. CASE t \in {"rpm"} \X Nat
  BY <1>3 DEF SettingsType
<1> QED BY <1>1, <1>2, <1>3 DEF TypedSettings

LEMMA DerivedAnewIs ==
  ASSUME NEW s \in SettingsType, NEW field, derived \in DerivedType
  PROVE  LET d == DerivedAnew(field, s)
         IN /\ d \in DerivedType
            /\ IF field \in {"step", "dir"}
               THEN d.step = Mask(StepBit, s.step) /\ d.dir = Mask(DirectionBit, s.dir)
               ELSE d.step = derived.step /\ d.dir = derived.dir
            /\ d.probe = IF field = "probe" THEN ProbeMask(s, FALSE)
                         ELSE derived.probe
            /\ d.gradient = IF field = "rpm" THEN s.rpm ELSE derived.gradient
<1>1. CASE field \in {"step", "dir"}
  BY <1>1, MaskTypes DEF DerivedAnew, StepDirMasks, DerivedType
<1>2. CASE field = "probe"
  BY <1>2, MaskTypes DEF DerivedAnew, ConfigureProbe, DerivedType
<1>3. CASE field = "rpm"
  BY <1>3 DEF DerivedAnew, Gradient, DerivedType, SettingsType
<1>4. CASE field \notin {"step", "dir", "probe", "rpm"}
  BY <1>4 DEF DerivedAnew
<1> QED BY <1>1, <1>2, <1>3, <1>4

LEMMA TypeSettingKeeps ==
  ASSUME PinsIInv, NEW t \in Typed, TypeSetting(t)
  PROVE  PinsIInv'
<1>1. t \in TypedSettings
  BY PinsAssumption
<1>2. /\ settings \in SettingsType /\ derived \in DerivedType
      /\ change \in ChangeType /\ CONTROL_MASK \subseteq change.mask
  BY DEF PinsIInv, TypesFit, ButtonsListen
<1>3. /\ settings' = [settings EXCEPT ![t[1]] = t[2]]
      /\ derived' = DerivedAnew(t[1], settings')
      /\ change' = IF t[1] = "hard" THEN LimitsInit(change, settings')
                   ELSE change
      /\ at = "loop" /\ First
      /\ UNCHANGED <<latch, ground, flags, at, heard>>
  BY DEF TypeSetting, Command, MainAt, First, exec
<1>4. /\ settings' \in SettingsType
      /\ t[1] \notin {"step", "dir"} =>
           settings'.step = settings.step /\ settings'.dir = settings.dir
      /\ t[1] # "probe" => settings'.probe = settings.probe
      /\ t[1] # "hard" => settings'.hard = settings.hard
      /\ t[1] # "rpm" => settings'.rpm = settings.rpm
  BY <1>1, <1>2, <1>3, TypedIs
<1>5. /\ derived' \in DerivedType
      /\ IF t[1] \in {"step", "dir"}
         THEN /\ derived'.step = Mask(StepBit, settings'.step)
              /\ derived'.dir = Mask(DirectionBit, settings'.dir)
         ELSE derived'.step = derived.step /\ derived'.dir = derived.dir
      /\ derived'.probe = IF t[1] = "probe" THEN ProbeMask(settings', FALSE)
                          ELSE derived.probe
      /\ derived'.gradient = IF t[1] = "rpm" THEN settings'.rpm
                             ELSE derived.gradient
  <2> DEFINE f == t[1]
             n == settings'
  <2>1. n \in SettingsType /\ derived \in DerivedType
    BY <1>2, <1>4
  <2>2. derived' = DerivedAnew(f, n)
    BY <1>3
  <2> HIDE DEF f, n
  <2>3. LET d == DerivedAnew(f, n)
        IN /\ d \in DerivedType
           /\ IF f \in {"step", "dir"}
              THEN d.step = Mask(StepBit, n.step) /\ d.dir = Mask(DirectionBit, n.dir)
              ELSE d.step = derived.step /\ d.dir = derived.dir
           /\ d.probe = IF f = "probe" THEN ProbeMask(n, FALSE) ELSE derived.probe
           /\ d.gradient = IF f = "rpm" THEN n.rpm ELSE derived.gradient
    BY <2>1, DerivedAnewIs
  <2> QED BY <2>2, <2>3 DEF f, n
<1>6. CASE t[1] = "hard"
  <2>1. LET n == LimitsInit(change, settings')
        IN /\ n \in ChangeType /\ CONTROL_MASK \subseteq n.mask
           /\ n.due = change.due
           /\ ("limits" \in n.on) = settings'.hard
           /\ (LIMIT_MASK \subseteq n.mask) = settings'.hard
    BY <1>2, <1>4, LimitsInitIs
  <2>2. /\ change' \in ChangeType /\ CONTROL_MASK \subseteq change'.mask
        /\ change'.due = change.due
        /\ ("limits" \in change'.on) = settings'.hard
        /\ (LIMIT_MASK \subseteq change'.mask) = settings'.hard
    BY <1>3, <1>6, <2>1
  <2>3. TypesFit'
    BY <1>3, <1>4, <1>5, <2>2 DEF PinsIInv, TypesFit
  <2>4. ButtonsListen' /\ ButtonsHeard'
    BY <1>3, <2>2, ButtonsUnaware DEF PinsIInv, ButtonsListen
  <2>5. CachesFollow'
    BY <1>3, <1>4, <1>5, <1>6, <2>2 DEF PinsIInv, CachesFollow, First, ProbeMask
  <2> QED BY <2>3, <2>4, <2>5 DEF PinsIInv
<1>7. CASE t[1] # "hard"
  <2>1. change' = change
    BY <1>3, <1>7
  <2>2. TypesFit'
    BY <1>3, <1>4, <1>5, <2>1 DEF PinsIInv, TypesFit
  <2>3. ButtonsListen' /\ ButtonsHeard'
    BY <1>3, <2>1, ButtonsUnaware DEF PinsIInv, ButtonsListen
  <2>4. CachesFollow'
    BY <1>3, <1>4, <1>5, <1>7, <2>1 DEF PinsIInv, CachesFollow, First, ProbeMask
  <2> QED BY <2>2, <2>3, <2>4 DEF PinsIInv
<1> QED BY <1>6, <1>7

(* The defaults wait for the reset that comes with them. *)
LEMMA RestoreDefaultsKeeps ==
  ASSUME PinsIInv, RestoreDefaults
  PROVE  PinsIInv'
<1>1. CONTROL_MASK \subseteq latch' /\ ~First'
  BY ResetKeepsPullUps DEF PinsIInv, ButtonsListen, RestoreDefaults
<1>2. settings' = DefaultPins /\ UNCHANGED <<derived, ground, change, heard>>
  BY DEF RestoreDefaults
<1>3. TypesFit'
  BY <1>2 DEF PinsIInv, TypesFit, SettingsType, DefaultPins
<1>4. ButtonsListen' /\ ButtonsHeard'
  BY <1>1, <1>2, ButtonsUnaware DEF PinsIInv, ButtonsListen
<1>5. CachesFollow'
  BY <1>1 DEF CachesFollow
<1> QED BY <1>3, <1>4, <1>5 DEF PinsIInv

(* A homing cycle takes the limit pins' interrupt away and gives it back. *)
LEMMA HomeKeeps ==
  ASSUME PinsIInv, Home
  PROVE  PinsIInv'
<1>1. /\ change' = Disarmed(change) /\ at = "loop" /\ at' = "home"
      /\ latch' = Driven(latch, settings, TRUE)
      /\ UNCHANGED <<settings, derived, ground, flags, heard>>
  BY DEF Home, WakeUp, Command, MainAt, exec
<1>2. /\ change' \in ChangeType /\ change'.due = change.due
      /\ CONTROL_MASK \subseteq change'.mask
  BY <1>1, DisarmedIs DEF PinsIInv, TypesFit, ButtonsListen
<1>3. CONTROL_MASK \subseteq latch'
  BY <1>1, PullUpsStay DEF PinsIInv, ButtonsListen
<1>4. TypesFit'
  BY <1>1, <1>2 DEF PinsIInv, TypesFit
<1>5. ButtonsListen' /\ ButtonsHeard'
  BY <1>1, <1>2, <1>3, ButtonsUnaware DEF PinsIInv
<1>6. CachesFollow'
  BY <1>1 DEF PinsIInv, CachesFollow, First
<1> QED BY <1>4, <1>5, <1>6 DEF PinsIInv

LEMMA HomeEndsKeeps ==
  ASSUME PinsIInv, HomeEnds
  PROVE  PinsIInv'
<1>1. /\ change' = LimitsInit(change, settings) /\ at = "home" /\ at' = "loop"
      /\ latch' = StReset(latch, settings, derived, "IDLE") /\ First
      /\ UNCHANGED <<settings, derived, ground, heard>>
  BY DEF HomeEnds, ArmedAgain, ResetSteppers, MainAt, bounds
<1>2. LET n == LimitsInit(change, settings)
      IN /\ n \in ChangeType /\ CONTROL_MASK \subseteq n.mask
         /\ n.due = change.due
         /\ ("limits" \in n.on) = settings.hard
         /\ (LIMIT_MASK \subseteq n.mask) = settings.hard
  BY LimitsInitIs DEF PinsIInv, TypesFit, ButtonsListen
<1>3. /\ change' \in ChangeType /\ CONTROL_MASK \subseteq change'.mask
      /\ change'.due = change.due
      /\ ("limits" \in change'.on) = settings'.hard
      /\ (LIMIT_MASK \subseteq change'.mask) = settings'.hard
  BY <1>1, <1>2
<1>4. CONTROL_MASK \subseteq latch'
  BY <1>1, PullUpsStay DEF PinsIInv, ButtonsListen
<1>5. TypesFit'
  BY <1>1, <1>3 DEF PinsIInv, TypesFit
<1>6. ButtonsListen' /\ ButtonsHeard'
  BY <1>1, <1>3, <1>4, ButtonsUnaware DEF PinsIInv
<1>7. CachesFollow'
  BY <1>1, <1>3 DEF PinsIInv, CachesFollow
<1> QED BY <1>5, <1>6, <1>7 DEF PinsIInv

(* A probing cycle inverts the probe's reading for its direction, and no path
   out of it forgets to turn it back. *)
LEMMA ProbeIs ==
  ASSUME NEW away \in BOOLEAN,
         settings \in SettingsType, derived \in DerivedType
  PROVE  LET d == ConfigureProbe(derived, settings, away)
         IN /\ d \in DerivedType /\ d.probe = ProbeMask(settings, away)
            /\ d.step = derived.step /\ d.dir = derived.dir
            /\ d.gradient = derived.gradient
  BY MaskTypes DEF ConfigureProbe, DerivedType

LEMMA ProbeStartKeeps ==
  ASSUME PinsIInv, NEW away \in BOOLEAN, ProbeStart(away)
  PROVE  PinsIInv'
<1>1. /\ derived' = ConfigureProbe(derived, settings, away)
      /\ at = "loop" /\ at' \in {"probe", "probe_fail"}
      /\ latch' = latch \/ latch' = Driven(latch, settings, TRUE)
      /\ UNCHANGED <<settings, ground, change, flags, heard>>
  BY DEF ProbeStart, WakeUp, Command, MainAt
<1>2. /\ derived' \in DerivedType
      /\ derived'.step = derived.step /\ derived'.dir = derived.dir
      /\ derived'.gradient = derived.gradient
  BY <1>1, ProbeIs DEF PinsIInv, TypesFit
<1>3. CONTROL_MASK \subseteq latch'
  BY <1>1, PullUpsStay DEF PinsIInv, ButtonsListen
<1>4. TypesFit'
  BY <1>1, <1>2 DEF PinsIInv, TypesFit
<1>5. ButtonsListen' /\ ButtonsHeard'
  BY <1>1, <1>3, ButtonsUnaware DEF PinsIInv, ButtonsListen
<1>6. CachesFollow'
  BY <1>1, <1>2 DEF PinsIInv, CachesFollow, First
<1> QED BY <1>4, <1>5, <1>6 DEF PinsIInv

LEMMA ProbeDone ==
  ASSUME PinsIInv, ProbeFails \/ ProbeEnds
  PROVE  PinsIInv'
<1>1. /\ derived' = ConfigureProbe(derived, settings, FALSE)
      /\ at \in {"probe", "probe_fail"} /\ at' \in {"loop", "probe_end"}
      /\ UNCHANGED <<settings, latch, ground, change, flags, heard>>
  BY DEF ProbeFails, ProbeEnds, MainAt, ports, exec, bounds
<1>2. /\ derived' \in DerivedType
      /\ derived'.probe = ProbeMask(settings, FALSE)
      /\ derived'.step = derived.step /\ derived'.dir = derived.dir
      /\ derived'.gradient = derived.gradient
  BY <1>1, ProbeIs DEF PinsIInv, TypesFit
<1>3. TypesFit'
  BY <1>1, <1>2 DEF PinsIInv, TypesFit
<1>4. ButtonsListen' /\ ButtonsHeard'
  BY <1>1, ButtonsUnaware DEF PinsIInv, ButtonsListen
<1>5. CachesFollow'
  BY <1>1, <1>2 DEF PinsIInv, CachesFollow, First
<1> QED BY <1>3, <1>4, <1>5 DEF PinsIInv

(* After an abort everything is derived from the settings again. *)
LEMMA ReinitKeeps ==
  ASSUME PinsIInv, Reinit
  PROVE  PinsIInv'
<1> DEFINE d == [step |-> Mask(StepBit, settings.step),
                 dir |-> Mask(DirectionBit, settings.dir),
                 probe |-> ProbeMask(settings, FALSE),
                 gradient |-> settings.rpm]
<1>1. /\ derived' = d /\ change' = LimitsInit(change, settings)
      /\ latch' = StReset(coolant_stop(latch), settings, d, mode)
      /\ at' = "loop" /\ UNCHANGED <<settings, ground, heard>>
  BY DEF Reinit, bounds
<1>2. d \in DerivedType
  BY MaskTypes DEF PinsIInv, TypesFit, SettingsType, DerivedType
<1>3. LET n == LimitsInit(change, settings)
      IN /\ n \in ChangeType /\ CONTROL_MASK \subseteq n.mask
         /\ n.due = change.due
         /\ ("limits" \in n.on) = settings.hard
         /\ (LIMIT_MASK \subseteq n.mask) = settings.hard
  BY LimitsInitIs DEF PinsIInv, TypesFit, ButtonsListen
<1>4. /\ change' \in ChangeType /\ CONTROL_MASK \subseteq change'.mask
      /\ change'.due = change.due
      /\ ("limits" \in change'.on) = settings'.hard
      /\ (LIMIT_MASK \subseteq change'.mask) = settings'.hard
  BY <1>1, <1>3
<1>5. CONTROL_MASK \subseteq latch'
  <2>1. CONTROL_MASK \subseteq coolant_stop(latch)
    BY PullUpsStay DEF PinsIInv, ButtonsListen
  <2> HIDE DEF d
  <2> QED BY <1>1, <2>1, PullUpsStay
<1>6. TypesFit'
  <2> HIDE DEF d
  <2> QED BY <1>1, <1>2, <1>4 DEF PinsIInv, TypesFit
<1>7. ButtonsListen' /\ ButtonsHeard'
  BY <1>1, <1>4, <1>5, ButtonsUnaware DEF PinsIInv
<1>8. CachesFollow'
  BY <1>1, <1>4 DEF CachesFollow, ProbeMask
<1> QED BY <1>6, <1>7, <1>8 DEF PinsIInv

-----------------------------------------------------------------------------
(* The theorems. *)

LEMMA PinsStepInv == PinsIInv /\ [PinsNext]_pinsVars => PinsIInv'
<1> SUFFICES ASSUME PinsIInv, [PinsNext]_pinsVars
             PROVE  PinsIInv'
  OBVIOUS
<1>1. ASSUME NEW p \in Wired, PinChanges(p) PROVE PinsIInv'
  BY <1>1, PinChangesKeeps
<1>2. CASE Interrupts
  BY <1>2, LimitISRKeeps, ControlISRKeeps, ResetQuiet, StepperISRQuiet,
     SegmentQuiet DEF Interrupts
<1>3. CASE Commands
  BY <1>3, TypeSettingKeeps, ProbeStartKeeps, RestoreDefaultsKeeps, OutputQuiet,
     MotionQuiet, HomeKeeps DEF Commands
<1>4. CASE MainSteps
  BY <1>4, OutputQuiet, ResetQuiet, HomeEndsKeeps, ProbeDone, MotionQuiet,
     ExecQuiet, ReinitKeeps DEF MainSteps
<1>5. CASE UNCHANGED pinsVars
  <2>1. PinsQuiet /\ PlaceIsQuiet /\ CONTROL_MASK \subseteq latch'
    BY <1>5 DEF pinsVars, ports, exec, bounds, PinsQuiet, PlaceIsQuiet,
       SettledPlace, First, PinsIInv, ButtonsListen
  <2> QED BY <2>1, QuietStep
<1> QED BY <1>1, <1>2, <1>3, <1>4, <1>5 DEF PinsNext

(* In every reachable state the types fit, the buttons keep their pull-ups and
   their interrupt, and the two invariants hold. *)
THEOREM PinsInductiveInvariant == PinsSpec => []PinsIInv
<1>1. PinsInit => PinsIInv
  BY PinsInitInv
<1>2. PinsIInv /\ [PinsNext]_pinsVars => PinsIInv'
  BY PinsStepInv
<1> QED BY <1>1, <1>2, PTL DEF PinsSpec

(* The masks, the slope and the armed interrupt are those of the settings in
   force, whatever is typed, restored, homed, probed or aborted. *)
THEOREM CachesAlwaysFollow == PinsSpec => []CachesFollow
<1>1. PinsIInv => CachesFollow
  BY DEF PinsIInv
<1> QED BY <1>1, PinsInductiveInvariant, PTL

(* No press of a button that stays pressed is lost, but for all of them at
   once. *)
THEOREM ButtonsAlwaysHeard == PinsSpec => []ButtonsHeard
<1>1. PinsIInv => ButtonsHeard
  BY DEF PinsIInv
<1> QED BY <1>1, PinsInductiveInvariant, PTL
=============================================================================

------------------------------ MODULE SerialRx ------------------------------
(***************************************************************************)
(* The receive ring of grbl/serial.c.  ISR(SERIAL_RX) stores bytes at the  *)
(* head; the main program removes them at the tail with serial_read and    *)
(* empties the ring with serial_reset_read_buffer.  The interrupt may fire *)
(* between any two memory accesses of the main program (the functions take *)
(* no lock: they rely on the order of the accesses), and runs to its end   *)
(* before the main program goes on.                                        *)
(*                                                                         *)
(* The realtime characters the interrupt picks off before this point leave *)
(* the ring alone; module Realtime has them.                               *)
(***************************************************************************)
EXTENDS Integers, Sequences

CONSTANTS RX_BUFFER_SIZE,   \* bytes the ring can hold (128 in serial.h)
          Bytes,            \* the characters stored in the ring
          NoData            \* SERIAL_NO_DATA, 0xff: never stored

RX_RING_BUFFER == RX_BUFFER_SIZE + 1

(* The indices are uint8_t and head + 1 must not wrap before the comparison
   with RX_RING_BUFFER. *)
ASSUME RxAssumption == /\ RX_BUFFER_SIZE \in 1..254
                       /\ NoData \notin Bytes

VARIABLES
  serial_rx_buffer,        \* the array
  serial_rx_buffer_head,   \* next slot the interrupt writes
  serial_rx_buffer_tail,   \* next slot the main program reads
  pc,                      \* where the main program is in its access
  idx,                     \* its local copy of an index
  data,                    \* its local copy of a byte
  result,                  \* what its last serial_read returned
  overrun                  \* history: the interrupt has dropped a byte

ring == <<serial_rx_buffer, serial_rx_buffer_head>>
main == <<serial_rx_buffer_tail, pc, idx, data, result>>
vars == <<serial_rx_buffer, serial_rx_buffer_head, serial_rx_buffer_tail,
          pc, idx, data, result, overrun>>

Slots == 0 .. RX_RING_BUFFER - 1

TypeOK == /\ serial_rx_buffer \in [Slots -> Bytes \cup {NoData}]
          /\ serial_rx_buffer_head \in Slots
          /\ serial_rx_buffer_tail \in Slots
          /\ pc \in {"idle", "load", "store", "flush"}
          /\ idx \in Slots
          /\ data \in Bytes \cup {NoData}
          /\ result \in Bytes \cup {NoData}
          /\ overrun \in BOOLEAN

Init == /\ serial_rx_buffer = [i \in Slots |-> NoData]
        /\ serial_rx_buffer_head = 0
        /\ serial_rx_buffer_tail = 0
        /\ pc = "idle"
        /\ idx = 0
        /\ data = NoData
        /\ result = NoData
        /\ overrun = FALSE

NextSlot(i) == IF i + 1 = RX_RING_BUFFER THEN 0 ELSE i + 1

-----------------------------------------------------------------------------
(* ISR(SERIAL_RX), for a character that goes to the ring. *)
RingIsFullMutant(next_head) == FALSE
RingIsFull(next_head) == next_head = serial_rx_buffer_tail

ReceiveISR(d) ==
  LET next_head == NextSlot(serial_rx_buffer_head)
  IN \/ /\ ~RingIsFull(next_head)
        /\ serial_rx_buffer' =
             [serial_rx_buffer EXCEPT ![serial_rx_buffer_head] = d]
        /\ serial_rx_buffer_head' = next_head
        /\ UNCHANGED <<main, overrun>>
     \/ /\ RingIsFull(next_head)
        /\ overrun' = TRUE
        /\ UNCHANGED <<ring, main>>

(* serial_read: copy the tail and compare it with the head ... *)
ReadTest ==
  /\ pc = "idle"
  /\ idx' = serial_rx_buffer_tail
  /\ IF serial_rx_buffer_head = serial_rx_buffer_tail
     THEN result' = NoData /\ UNCHANGED pc
     ELSE pc' = "load" /\ UNCHANGED result
  /\ UNCHANGED <<ring, serial_rx_buffer_tail, data, overrun>>

(* ... fetch the byte and step the local copy past it ... *)
ReadLoad ==
  /\ pc = "load"
  /\ data' = serial_rx_buffer[idx]
  /\ idx' = NextSlot(idx)
  /\ pc' = "store"
  /\ UNCHANGED <<ring, serial_rx_buffer_tail, result, overrun>>

(* ... and only then release the slot to the interrupt. *)
ReadStore ==
  /\ pc = "store"
  /\ serial_rx_buffer_tail' = idx
  /\ result' = data
  /\ pc' = "idle"
  /\ UNCHANGED <<ring, idx, data, overrun>>

(* serial_reset_read_buffer: load the head, store it as the tail. *)
FlushedTail == serial_rx_buffer_head

FlushLoad ==
  /\ pc = "idle"
  /\ idx' = FlushedTail
  /\ pc' = "flush"
  /\ UNCHANGED <<ring, serial_rx_buffer_tail, data, result, overrun>>

FlushStore ==
  /\ pc = "flush"
  /\ serial_rx_buffer_tail' = idx
  /\ pc' = "idle"
  /\ UNCHANGED <<ring, idx, data, result, overrun>>

Next == \/ \E d \in Bytes : ReceiveISR(d)
        \/ ReadTest
        \/ ReadLoad
        \/ ReadStore
        \/ FlushLoad
        \/ FlushStore

Spec == Init /\ [][Next]_vars

-----------------------------------------------------------------------------
(* The number of slots from one index forward to another. *)
Distance(from, to) == IF to >= from THEN to - from
                                    ELSE RX_RING_BUFFER - (from - to)

Used == Distance(serial_rx_buffer_tail, serial_rx_buffer_head)

(* The slot n places after slot i. *)
SlotAfter(i, n) == IF i + n < RX_RING_BUFFER THEN i + n
                                             ELSE i + n - RX_RING_BUFFER

(* The bytes a reader would get from slot t on, if n are stored. *)
Contents(b, t, n) == [i \in 1..n |-> b[SlotAfter(t, i - 1)]]

Stored == Contents(serial_rx_buffer, serial_rx_buffer_tail, Used)

(* The space report. *)
serial_get_rx_buffer_availableMutant ==
  IF serial_rx_buffer_head >= serial_rx_buffer_tail
  THEN RX_BUFFER_SIZE - (serial_rx_buffer_head - serial_rx_buffer_tail)
  ELSE serial_rx_buffer_tail - serial_rx_buffer_head

serial_get_rx_buffer_available ==
  IF serial_rx_buffer_head >= serial_rx_buffer_tail
  THEN RX_BUFFER_SIZE - (serial_rx_buffer_head - serial_rx_buffer_tail)
  ELSE serial_rx_buffer_tail - serial_rx_buffer_head - 1

-----------------------------------------------------------------------------
(* The copies the main program holds between two accesses stay good however
   often the interrupt fires in between: the byte it has fetched is still the
   oldest stored one, and the index it is about to store frees exactly the
   slots it meant to free. *)
LocalCopiesValid ==
  /\ pc = "load" => /\ idx = serial_rx_buffer_tail
                    /\ Used > 0
  /\ pc = "store" => /\ idx = NextSlot(serial_rx_buffer_tail)
                     /\ Used > 0
                     /\ data = serial_rx_buffer[serial_rx_buffer_tail]
  /\ pc = "flush" => Distance(serial_rx_buffer_tail, idx) <= Used

(* Every slot between tail and head holds a received character, never the
   initial content: a reader cannot run into memory the interrupt has not
   written. *)
StoredAreReceived ==
  \A n \in 0 .. RX_BUFFER_SIZE :
     n < Used => serial_rx_buffer[SlotAfter(serial_rx_buffer_tail, n)] \in Bytes

(* The free space reported to the host (status report field Bf:) and the
   bytes stored always add up to the size of the ring, across the wrap. *)
AvailableIsExact == serial_get_rx_buffer_available = RX_BUFFER_SIZE - Used

(* The ring implements a bounded queue of bytes, the promise the line reader
   of protocol.c and the character counting of the host rely on. *)
Fifo == INSTANCE BoundedFifo WITH Capacity <- RX_BUFFER_SIZE,
                                  queue <- Stored, out <- result
FifoSpec == Fifo!Spec
=============================================================================

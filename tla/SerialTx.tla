------------------------------ MODULE SerialTx ------------------------------
(***************************************************************************)
(* The transmit ring of grbl/serial.c.  serial_write stores a byte at the  *)
(* head and enables the data register interrupt, ISR(SERIAL_UDRE), which   *)
(* moves a byte from the tail to the UART and disables itself when it has  *)
(* emptied the ring.  The UART holds one byte in its data register while   *)
(* it shifts another one out (external).                                   *)
(*                                                                         *)
(* Timing the model relies on: what the UART does at once, and an interrupt*)
(* that is due, comes before the main program's next access, and the       *)
(* UART does not shift out two bytes (2 x 87 us) between serial_write's    *)
(* last two accesses, not even when the stepper interrupt, of 25 us, comes *)
(* between them.  Without that, the interrupt could find the ring empty.   *)
(***************************************************************************)
EXTENDS SerialRx

CONSTANTS TX_BUFFER_SIZE    \* bytes the ring can hold (104 in serial.h)

TX_RING_BUFFER == TX_BUFFER_SIZE + 1

ASSUME TxAssumption == TX_BUFFER_SIZE \in 1 .. 254

VARIABLES
  serial_tx_buffer, serial_tx_buffer_head, serial_tx_buffer_tail,
  udrie,      \* the data register interrupt is enabled
  udr, shift, \* the UART: its data register, the byte being shifted out
  sent,       \* the byte the interrupt has sent last
  tx_pc, tx_data, next_head,   \* serial_write: its place and its locals
  shifted,    \* a byte was shifted out since serial_write moved the head
  reset       \* EXEC_RESET in sys_rt_exec_state

txRing == <<serial_tx_buffer, serial_tx_buffer_head>>
uart == <<udr, shift, shifted>>
writer == <<tx_pc, tx_data, next_head>>
txVars == <<txRing, serial_tx_buffer_tail, udrie, uart, sent, writer, reset>>

TxSlots == 0 .. TX_RING_BUFFER - 1

TxInit ==
  /\ serial_tx_buffer = [i \in TxSlots |-> NoData]
  /\ serial_tx_buffer_head = 0 /\ serial_tx_buffer_tail = 0
  /\ udrie = FALSE /\ udr = NoData /\ shift = NoData /\ sent = NoData
  /\ tx_pc = "idle" /\ tx_data = NoData /\ next_head = 0
  /\ shifted = FALSE /\ reset = FALSE

TxNextSlot(i) == IF i + 1 = TX_RING_BUFFER THEN 0 ELSE i + 1

-----------------------------------------------------------------------------
Due == udrie /\ udr = NoData
Shifts == shift = NoData /\ udr # NoData
Main(place) == tx_pc = place /\ ~Due /\ ~Shifts

(* serial_write: is there room for the byte? *)
WriteTest(d) ==
  /\ Main("idle")
  /\ tx_data' = d
  /\ next_head' = TxNextSlot(serial_tx_buffer_head)
  /\ tx_pc' = "room"
  /\ UNCHANGED <<txRing, serial_tx_buffer_tail, udrie, uart, sent, reset>>

(* It waits for it, but not in a reset, which drops the byte. *)
WriteRoom ==
  /\ Main("room")
  /\ tx_pc' = IF next_head = serial_tx_buffer_tail THEN "full" ELSE "store"
  /\ UNCHANGED <<txRing, serial_tx_buffer_tail, udrie, uart, sent, tx_data,
                 next_head, reset>>

WriteWait ==
  /\ Main("full")
  /\ tx_pc' = IF reset THEN "idle" ELSE "room"
  /\ UNCHANGED <<txRing, serial_tx_buffer_tail, udrie, uart, sent, tx_data,
                 next_head, reset>>

StoredByte == [serial_tx_buffer EXCEPT ![serial_tx_buffer_head] = tx_data]

WriteStore ==
  /\ Main("store")
  /\ serial_tx_buffer' = StoredByte
  /\ tx_pc' = "advance"
  /\ UNCHANGED <<serial_tx_buffer_head, serial_tx_buffer_tail, udrie, uart,
                 sent, tx_data, next_head, reset>>

WriteAdvance ==
  /\ Main("advance")
  /\ serial_tx_buffer_head' = next_head
  /\ tx_pc' = "enable"
  /\ shifted' = FALSE
  /\ UNCHANGED <<serial_tx_buffer, serial_tx_buffer_tail, udrie, udr, shift,
                 sent, tx_data, next_head, reset>>

EnabledMutant == udrie
Enabled == TRUE

WriteEnable ==
  /\ Main("enable")
  /\ udrie' = Enabled
  /\ tx_pc' = "idle"
  /\ UNCHANGED <<txRing, serial_tx_buffer_tail, uart, sent, tx_data, next_head,
                 reset>>

(* mc_reset sets the flag; main clears it when it starts over. *)
SetReset == /\ reset' = TRUE
            /\ UNCHANGED <<txRing, serial_tx_buffer_tail, udrie, uart, sent,
                           writer>>

ClearReset == /\ Main("idle") /\ reset
              /\ reset' = FALSE
              /\ UNCHANGED <<txRing, serial_tx_buffer_tail, udrie, uart, sent,
                             writer>>

-----------------------------------------------------------------------------
(* serial_get_tx_buffer_count's value, and the bytes stored, oldest first. *)
TxUsed == IF serial_tx_buffer_head >= serial_tx_buffer_tail
          THEN serial_tx_buffer_head - serial_tx_buffer_tail
          ELSE TX_RING_BUFFER - (serial_tx_buffer_tail - serial_tx_buffer_head)

(* ISR(SERIAL_UDRE): with nothing left, it turns itself off. *)
StaysOnMutant(tail) == TRUE
StaysOn(tail) == tail # serial_tx_buffer_head

DataRegisterISR ==
  /\ Due
  /\ udr' = serial_tx_buffer[serial_tx_buffer_tail]
  /\ sent' = udr'
  /\ serial_tx_buffer_tail' = TxNextSlot(serial_tx_buffer_tail)
  /\ udrie' = StaysOn(serial_tx_buffer_tail')
  /\ UNCHANGED <<txRing, shift, shifted, writer, reset>>

(* The UART takes the byte over, and shifts it out. *)
Shift == /\ Shifts
         /\ shift' = udr /\ udr' = NoData
         /\ UNCHANGED <<txRing, serial_tx_buffer_tail, udrie, shifted, sent,
                        writer, reset>>

Shifted == /\ shift # NoData
           /\ ~(tx_pc = "enable" /\ shifted)
           /\ shift' = NoData /\ shifted' = (tx_pc = "enable")
           /\ UNCHANGED <<txRing, serial_tx_buffer_tail, udrie, udr, sent,
                          writer, reset>>

WriteOn == WriteRoom \/ WriteWait \/ WriteStore \/ WriteAdvance \/ WriteEnable

Writer == (\E d \in Bytes : WriteTest(d)) \/ WriteOn \/ ClearReset

Transmitter == DataRegisterISR \/ Shift \/ Shifted

TxNext == Writer \/ Transmitter \/ SetReset

(* Interrupts that are due fire, the UART shifts, serial_write runs on. *)
TxSpec == /\ TxInit /\ [][TxNext]_txVars
          /\ WF_txVars(Transmitter)
          /\ WF_txVars(WriteOn)

-----------------------------------------------------------------------------
(* The slot n places after slot i. *)
TxSlotAfter(i, n) == IF i + n < TX_RING_BUFFER THEN i + n
                                               ELSE i + n - TX_RING_BUFFER

TxStored == [i \in 1 .. TxUsed |->
               serial_tx_buffer[TxSlotAfter(serial_tx_buffer_tail, i - 1)]]

TxTypeOK ==
  /\ serial_tx_buffer \in [TxSlots -> Bytes \cup {NoData}]
  /\ {serial_tx_buffer_head, serial_tx_buffer_tail, next_head} \subseteq TxSlots
  /\ {udrie, shifted, reset} \subseteq BOOLEAN
  /\ {udr, shift, sent, tx_data} \subseteq Bytes \cup {NoData}
  /\ tx_pc \in {"idle", "room", "full", "store", "advance", "enable"}

(* The interrupt is enabled exactly while it has something to send, but for
   the moment in which serial_write has stored a byte and not yet enabled it:
   replies never get stuck in the ring, and the ring is never sent again from
   its tail, which an enabled interrupt would do with an empty one. *)
EnabledWhileStored ==
  /\ udrie => TxUsed > 0
  /\ TxUsed > 0 => udrie \/ tx_pc = "enable"

(* What is sent is what was written, once and in order. *)
TxFifo == INSTANCE BoundedFifo WITH Capacity <- TX_BUFFER_SIZE,
                                    queue <- TxStored, out <- sent,
                                    overrun <- FALSE
TxFifoSpec == TxFifo!Spec

(* serial_write, which has no time limit, does not wait for ever: neither for
   room nor in a reset. *)
WriterReturns == (tx_pc # "idle") ~> (tx_pc = "idle")
=============================================================================

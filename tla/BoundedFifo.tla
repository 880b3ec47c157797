---------------------------- MODULE BoundedFifo ----------------------------
(***************************************************************************)
(* What a serial byte buffer of the firmware promises to the code on both  *)
(* of its sides: bytes come out once, in the order they were accepted; a   *)
(* byte is refused only when the buffer holds Capacity bytes; the reader   *)
(* is told "no data" only when the buffer is empty; a flush forgets the    *)
(* oldest bytes and nothing else.                                          *)
(***************************************************************************)
EXTENDS Naturals, Sequences

CONSTANTS Capacity,   \* number of bytes the buffer can hold
          Bytes,      \* bytes that travel through the buffer
          NoData      \* what a read of the empty buffer returns

VARIABLES queue,      \* the accepted bytes not yet read, oldest first
          out,        \* the result of the reader's last call
          overrun     \* TRUE once a byte has been refused

vars == <<queue, out, overrun>>

TypeOK == /\ queue \in Seq(Bytes)
          /\ Len(queue) \in 0..Capacity
          /\ out \in Bytes \cup {NoData}
          /\ overrun \in BOOLEAN

Init == queue = << >> /\ out = NoData /\ overrun = FALSE

Put(d) == /\ Len(queue) < Capacity
          /\ queue' = Append(queue, d)
          /\ UNCHANGED <<out, overrun>>

Refuse == /\ Len(queue) = Capacity
          /\ overrun' = TRUE
          /\ UNCHANGED <<queue, out>>

Get == /\ queue # << >>
       /\ out' = Head(queue)
       /\ queue' = Tail(queue)
       /\ UNCHANGED overrun

GetNothing == /\ queue = << >>
              /\ out' = NoData
              /\ UNCHANGED <<queue, overrun>>

Flush(n) == /\ queue' = SubSeq(queue, n + 1, Len(queue))
            /\ UNCHANGED <<out, overrun>>

Next == \/ \E d \in Bytes : Put(d)
        \/ Refuse
        \/ Get
        \/ GetNothing
        \/ \E n \in 0..Capacity : n <= Len(queue) /\ Flush(n)

Spec == Init /\ [][Next]_vars
=============================================================================

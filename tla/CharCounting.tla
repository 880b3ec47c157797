---------------------------- MODULE CharCounting ----------------------------
(***************************************************************************)
(* Character counting, the streaming protocol the host speaks with the     *)
(* firmware, with lines reduced to numbers of characters: the host sends a *)
(* line only if the characters not yet answered for, plus the line, stay   *)
(* within its budget.  A character is on the wire, in the receive ring, or *)
(* held (taken from the ring, its answer not yet charged by the host).     *)
(*                                                                         *)
(* The protocol binds the two sides until an accident outside of it (a     *)
(* restart, a torn counter); after that nothing is promised here.          *)
(***************************************************************************)
EXTENDS Naturals

CONSTANTS Budget,     \* Grbl.bfrSizeMx
          Capacity    \* RX_BUFFER_SIZE

(* The host's budget is not more than the ring holds: 128 and 128. *)
BudgetFits == Budget \in Nat /\ Capacity \in Nat /\ Budget <= Capacity

VARIABLES wire, ring, held, overrun, bound

countingVars == <<wire, ring, held, overrun, bound>>

CountingTypeOK == /\ wire \in Nat /\ ring \in 0 .. Capacity /\ held \in Nat
                  /\ overrun \in BOOLEAN /\ bound \in BOOLEAN

Unanswered == wire + ring + held

CountingInit ==
  wire = 0 /\ ring = 0 /\ held = 0 /\ overrun = FALSE /\ bound = TRUE

Send(n) == /\ bound
           /\ Unanswered + n <= Budget
           /\ wire' = wire + n
           /\ UNCHANGED <<ring, held, overrun, bound>>

Arrive == /\ bound /\ wire > 0 /\ ring < Capacity
          /\ wire' = wire - 1 /\ ring' = ring + 1
          /\ UNCHANGED <<held, overrun, bound>>

Overrun == /\ bound /\ wire > 0 /\ ring = Capacity
           /\ wire' = wire - 1 /\ overrun' = TRUE
           /\ UNCHANGED <<ring, held, bound>>

Take == /\ bound /\ ring > 0
        /\ ring' = ring - 1 /\ held' = held + 1
        /\ UNCHANGED <<wire, overrun, bound>>

Answer(n) == /\ bound /\ n <= held
             /\ held' = held - n
             /\ UNCHANGED <<wire, ring, overrun, bound>>

Breach == /\ bound /\ bound' = FALSE
          /\ wire' = 0 /\ ring' = 0 /\ held' = 0
          /\ UNCHANGED overrun

CountingNext == \/ \E n \in 1 .. Budget : Send(n)
                \/ Arrive \/ Overrun \/ Take
                \/ \E n \in 1 .. Budget : Answer(n)
                \/ Breach

CountingSpec == CountingInit /\ [][CountingNext]_countingVars

(* With a budget that fits the ring, no character ever finds it full. *)
NoOverrun == ~overrun
=============================================================================

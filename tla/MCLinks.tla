------------------------------ MODULE MCLinks ------------------------------
(***************************************************************************)
(* The interfaces, small: both rings of grbl/serial.c, the OSC link between *)
(* two programs, and the pins.  They share no variable, and each is checked *)
(* against every order of its own threads and interrupts; what another      *)
(* part does could only take orders away.  So one part works while the      *)
(* others are as at the start: the sum of the state spaces and not their    *)
(* product.                                                                 *)
(***************************************************************************)
EXTENDS SerialTx, OscLink, MCPins

linksVars == <<vars, txVars, linkVars, pinsVars>>

(* The initial conditions as expressions. *)
RxUnused ==
  <<ring, main, overrun>> =
    <<<<[i \in Slots |-> NoData], 0>>, <<0, "idle", 0, NoData, NoData>>, FALSE>>
TxUnused ==
  txVars = <<<<[i \in TxSlots |-> NoData], 0>>, 0, FALSE,
             <<NoData, NoData, FALSE>>, NoData, <<"idle", NoData, 0>>, FALSE>>
NowIdle(value) == [h \in Hosts |-> value]
LinkUnused ==
  linkVars = <<NowIdle(FALSE), NowIdle("garbled"),
               <<NowIdle("idle"), NowIdle("idle"), NowIdle("idle")>>,
               NowIdle(<< >>), <<0, 0, FALSE, TRUE>>>>

PinsUnused == count = [inputs |-> 0, commands |-> 0]

NotRx == RxUnused /\ UNCHANGED vars
NotTx == TxUnused /\ UNCHANGED txVars
NotLink == LinkUnused /\ UNCHANGED linkVars
NotPins == PinsUnused /\ UNCHANGED pinsVars

LinksInit == Init /\ TxInit /\ LinkInit /\ PinsInit

LinksNext == \/ NotTx /\ NotLink /\ NotPins /\ Next
             \/ NotRx /\ NotLink /\ NotPins /\ TxNext
             \/ NotRx /\ NotTx /\ NotPins /\ LinkNext
             \/ NotRx /\ NotTx /\ NotLink /\ PinsNext

OnlyTx(step) == NotRx /\ NotLink /\ NotPins /\ step
OnlyLink(step) == NotRx /\ NotTx /\ NotPins /\ step

LinksSpec ==
  /\ LinksInit
  /\ [][LinksNext]_linksVars
  /\ WF_linksVars(OnlyTx(Transmitter))
  /\ WF_linksVars(OnlyTx(WriteOn))
  /\ \A h \in Hosts : /\ WF_linksVars(OnlyLink(KeyMoves(h)))
                      /\ WF_linksVars(OnlyLink(OscMoves(h)))
                      /\ WF_linksVars(OnlyLink(PenMoves(h)))
=============================================================================

------------------------------- MODULE MCPins -------------------------------
(* A limit switch, the probe and the three buttons, and a setting of each     *)
(* kind: one with an interrupt behind it, one with a mask, the probe's and   *)
(* the spindle's.                                                            *)
EXTENDS Pins

MCWired == {LimitBit["X"], ProbeBit} \cup CONTROL_MASK
MCTyped == {<<"hard", TRUE>>, <<"step", {"X"}>>, <<"probe", TRUE>>,
            <<"rpm", 500>>}
=============================================================================

---------------------------- MODULE MCSettings ----------------------------
(* A command changes two bytes of the settings, the last one, the flags, or  *)
(* none: 10 is the default of $0.                                            *)
EXTENDS Settings

MCRates == {<<2, 2>>}
MCPulses == {10}
MCLasts == {2}
MCOffsets == {<<3, 4>>}
MCLines == {<<71, 0>>}
=============================================================================

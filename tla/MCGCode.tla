------------------------------ MODULE MCGCode ------------------------------
(***************************************************************************)
(* The two kinds of lines the firmware takes.  The parser gets those that  *)
(* a plotter, a laser and a touch probe need: a few commands of each kind, *)
(* alone and combined on one line.  The commands with a `$` are about the  *)
(* settings, of which the parser's model has none that change.  And what   *)
(* the firmware answers to both, of which only the records it cannot read  *)
(* matter.  So one of the three works while the others are as at the start.*)
(***************************************************************************)
EXTENDS GCode, MCConsole, MCMessages

Line0(cmds) == [jog |-> FALSE, cmds |-> cmds, val |-> <<>>]
LineV(cmds, val) == [jog |-> FALSE, cmds |-> cmds, val |-> val]
JogV(cmds, val) == [jog |-> TRUE, cmds |-> cmds, val |-> val]

MCLines ==
  {LineV({"G0"}, [X |-> 1]),
   LineV({"G1", "M3"}, [X |-> 1, F |-> 1, S |-> 500]),
   LineV({"G1"}, [F |-> 1]),
   LineV({"G91", "G20"}, [X |-> -1, S |-> 1000]),
   LineV({"G3", "G17"}, [X |-> 1, Y |-> 1, J |-> 1, F |-> 1]),
   LineV({"G2", "M4"}, [X |-> 1, Y |-> 1, R |-> 1, F |-> 1]),
   LineV({"G55", "M8"}, <<>>),
   LineV({"G10", "G90"}, [L |-> 20, P |-> 0, X |-> 0, Z |-> 1]),
   LineV({"G10"}, [L |-> 2, P |-> 2, X |-> 1]),
   LineV({"G92"}, [X |-> 0, Z |-> 0]),
   LineV({"G92.1", "M5"}, <<>>),
   LineV({"G43.1"}, [Z |-> 1]),
   LineV({"G28"}, [Z |-> 1]),
   Line0({"G28.1", "G54"}),
   LineV({"G38.2"}, [X |-> 0, F |-> 1]),
   LineV({"G4", "G93"}, [P |-> 1]),
   Line0({"M0"}), Line0({"M30"}), Line0({"G80", "M9"}),
   JogV({"G91"}, [X |-> 1, F |-> 1]),
   JogV({"G91"}, [Y |-> 0, F |-> 1]),
   JogV({}, [F |-> 1])}

GCodeUnused ==
  /\ stored = [r \in Records |-> Zero] /\ gc = InitialModes(stored, Zero)
  /\ handler = <<NoBlock, <<>>, <<>>, 0>>
  /\ <<queue, pos, state, abort>> = <<<<>>, Zero, "IDLE", FALSE>>
ConsoleUnused == sysState = "IDLE" /\ values = Default /\ copy = << >>

MessagesUnused == board = Off
linesVars == <<vars, consoleVars, messageVars>>

NotGCode == GCodeUnused /\ UNCHANGED vars
NotConsole == ConsoleUnused /\ UNCHANGED consoleVars
NotMessages == MessagesUnused /\ UNCHANGED messageVars

(* The host may have nothing more to say; the other two never end. *)
AllSent == ~MessagesUnused /\ UNCHANGED linesVars

LinesInit == Init /\ ConsoleInit /\ MessagesInit

LinesNext == \/ NotConsole /\ NotMessages /\ Next
             \/ NotGCode /\ NotMessages /\ ConsoleNext
             \/ NotGCode /\ NotConsole /\ MessagesNext
             \/ AllSent

LinesSpec == LinesInit /\ [][LinesNext]_linesVars
=============================================================================

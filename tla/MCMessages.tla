----------------------------- MODULE MCMessages -----------------------------
(* Every command of system.c that prints, a line that gives the parser a     *)
(* feed rate, one that needs it, one that it refuses, one that is too long   *)
(* and an empty one.                                                         *)
EXTENDS Messages

MCSent ==
  {<<"gcode", "G1F1">>, <<"gcode", "G1X1">>, <<"gcode", "G99">>,
   <<"$N0=", "G1X1">>, <<"$N0=", "G99">>, <<"$I=", "error:">>}
  \cup ({"", "long", "$", "$$", "$G", "$X", "$C", "$#", "$N", "$I", "$RST=*",
         "$H"} \X {""})
MCStoredLines == {"", "G1X1"}
MCStoredInfos == {"ERROR:"}
=============================================================================

---------------------------- MODULE MCGrblStream ----------------------------
(***************************************************************************)
(* Three lines: a setting of one character, a line of two, and one that    *)
(* takes the whole budget of three.  Lines 1 and 2 fit together, so the    *)
(* third has to wait for both answers.                                     *)
(***************************************************************************)
EXTENDS GrblStream

MCLineLen == <<1, 2, 3>>
MCSettingLines == {1}
=============================================================================

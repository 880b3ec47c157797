---------------------------- MODULE MCOverrides ----------------------------
(* Two decrements of the spindle's percentage, which together may wrap       *)
(* around, one of the feed's, and the coolant: with the defaults at the      *)
(* minimum, the first two and the last have something to change.             *)
EXTENDS Overrides

MCRequests == {<<"spindle", "--">>, <<"spindle", "-">>, <<"feed", "-">>,
               <<"flood", "toggle">>}
=============================================================================

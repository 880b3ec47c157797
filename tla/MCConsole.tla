----------------------------- MODULE MCConsole -----------------------------
(* Homing and soft limits on and off; 300, more than $1 can hold; .0015 mm,   *)
(* which $11 keeps and `$$` rounds; 123456.789 mm/min, a digit too long for   *)
(* $110; a number that is none, and one that is cut to 22.                    *)
EXTENDS Console

MCTyped == {<< <<22, 0>>, <<1, 0>> >>, << <<225, 1>>, <<0, 0>> >>,
            << <<20, 0>>, <<1, 0>> >>, << <<1, 0>>, <<300, 0>> >>,
            << <<11, 0>>, <<15, 4>> >>, << <<110, 0>>, <<123456789, 3>> >>,
            << <<103, 0>>, <<1, 0>> >>}
=============================================================================

---------------------------- MODULE MCMainLoop ----------------------------
(* A line of two characters: a blank text that fits, one that scrolls,   *)
(* and one that is cut at MaxLen.  Two voltages crossed over: one drifts   *)
(* by less than the coarser hysteresis from just below the range, the      *)
(* other jumps to just above it.                                           *)
EXTENDS MainLoop

NoText == <<" ">>
Three == {NoText, <<"c", "d", "e">>, <<"h", "i", "j", "k", "l">>}
Crossed == [i \in Channels |-> 1 - i]
Voltages == [i \in Channels |-> IF i = 0 THEN {-1, 60, 120} ELSE {60, 4096}]
Lowest == [i \in Channels |-> IF i = 0 THEN -1 ELSE 60]
=============================================================================

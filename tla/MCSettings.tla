----------------------------- MODULE MCSettings -----------------------------
(* Three options: the sample period, which is bounded and stepped by 2, the *)
(* hysteresis, rounded to 2 as well, and the note-thru switch; records in   *)
(* range, out of it on both sides, off the step, and missing.               *)
EXTENDS Settings

MCOptions == {"period", "hysteresis", "thru"}
MCLeast   == [o \in MCOptions |-> IF o = "thru" THEN 0 ELSE 2]
MCMost    == [o \in MCOptions |-> IF o = "thru" THEN 1 ELSE 6]
MCStep    == [o \in MCOptions |-> IF o = "thru" THEN 1 ELSE 2]
MCDefault == [o \in MCOptions |-> IF o = "thru" THEN 0 ELSE 4]
MCRecords == [o \in MCOptions |-> IF o = "thru" THEN {NoValue, 1, 2} ELSE {NoValue, 1, 2, 3, 7}]
=============================================================================

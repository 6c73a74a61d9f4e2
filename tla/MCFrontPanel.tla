---------------------------- MODULE MCFrontPanel ----------------------------
(* A small panel: an option that is fixed and one of two values, three cues *)
(* and a fourth that only a record out of range can hold, a detent of two   *)
(* half steps, delays of two or three ticks.                                *)
EXTENDS FrontPanel

FixedAndTwo == [i \in Items |-> i]
FirstValue == [i \in Items |-> 0]
=============================================================================

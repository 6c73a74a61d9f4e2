----------------------------- MODULE MCUserInput -----------------------------
(* Ticks of 10 ms: a window of 30 ms, a loop that may stall for 80 ms.     *)
(* Three turns of the encoder's contacts either way; its count saturates   *)
(* early.                                                                  *)
EXTENDS UserInput

Around == -7..7
=============================================================================

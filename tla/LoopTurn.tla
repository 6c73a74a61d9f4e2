------------------------------ MODULE LoopTurn ------------------------------
(***************************************************************************)
(* The turn of the loop in main() of app/src/main.c that its components    *)
(* share: pc is the place the loop has come to.                            *)
(***************************************************************************)
VARIABLE pc

Goto(from, to) == pc = from /\ pc' = to
=============================================================================

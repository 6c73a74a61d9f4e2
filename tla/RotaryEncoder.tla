---------------------------- MODULE RotaryEncoder ----------------------------
(***************************************************************************)
(* The rotary encoder of app/src/asynth_ui.c: a shaft that closes contacts *)
(* A and B in quadrature, the interrupt on every edge of B that counts a   *)
(* half step (rotary_encoder_irq_update), and the main loop that takes the *)
(* count (asynth_ui_input_pop_rotary_delta).                               *)
(*                                                                         *)
(*   pos    the shaft's quarter step                                       *)
(*   irq    an edge of B is waiting for its interrupt                      *)
(*   delta  s_rot_encoder_delta, saturating at +-DeltaMax                  *)
(*   prevB  the B bit of s_rot_encoder_prev_state (the A bit is not read)  *)
(*   clipped  history: the saturation has dropped a half step              *)
(*   taken  history: the sum of the deltas the main loop has taken, until  *)
(*          the count is clipped                                           *)
(*                                                                         *)
(* The shaft does not reach the next quarter step before the interrupt of  *)
(* the last edge has read A and B.                                         *)
(***************************************************************************)
EXTENDS Integers

CONSTANTS
  DeltaMax,     \* 32: the bound of s_rot_encoder_delta
  Positions,    \* the quarter steps the shaft visits (bound: a set around 0)
  Start         \* the quarter step at power-up

ASSUME EncoderAssumption ==
  /\ DeltaMax \in Nat \ {0}
  /\ Positions \subseteq Int
  /\ Start \in Positions

VARIABLES pos, irq, delta, prevB, taken, clipped

vars == <<pos, irq, delta, prevB, taken, clipped>>

\* The contacts at a quarter step: A leads B by one.
ContactA(p) == p % 4 \in {1, 2}
ContactB(p) == p % 4 \in {2, 3}

\* Edges of B between a position and position 0, negative below it.
HalfSteps(p) == p \div 2

Init ==
  /\ pos = Start
  /\ irq = FALSE
  /\ delta = 0
  /\ prevB = ContactB(Start)
  /\ taken = 0
  /\ clipped = FALSE

Turn(p) ==
  /\ ~irq
  /\ p \in {pos - 1, pos + 1}
  /\ pos' = p
  /\ irq' = (ContactB(p) # ContactB(pos))
  /\ UNCHANGED <<delta, prevB, taken, clipped>>

\* The contact chatters at its edge: B comes back to the level it had before
\* the interrupt runs, which then finds nothing changed.
Chatter ==
  /\ irq
  /\ \E p \in {pos - 1, pos + 1} : ContactB(p) = prevB /\ p \in Positions /\ pos' = p
  /\ UNCHANGED <<irq, delta, prevB, taken, clipped>>

Clamp(n) == CASE n > DeltaMax -> DeltaMax
              [] n < -DeltaMax -> -DeltaMax
              [] OTHER -> n

\* A slip: the direction is told from the levels before the edge.
IrqOldLevel ==
  /\ irq
  /\ LET b == ContactB(pos)
         step == IF ContactA(pos) = prevB THEN -1 ELSE 1
         next == IF b # prevB THEN Clamp(delta + step) ELSE delta
     IN /\ delta' = next
        /\ clipped' = (clipped \/ (b # prevB /\ next # delta + step))
        /\ prevB' = b
  /\ irq' = FALSE
  /\ UNCHANGED <<pos, taken>>

\* rotary_encoder_irq_update: the levels are read when the interrupt runs.
Irq ==
  /\ irq
  /\ LET b == ContactB(pos)
         step == IF ContactA(pos) = b THEN -1 ELSE 1
         next == IF b # prevB THEN Clamp(delta + step) ELSE delta
     IN /\ delta' = next
        /\ clipped' = (clipped \/ (b # prevB /\ next # delta + step))
        /\ prevB' = b
  /\ irq' = FALSE
  /\ UNCHANGED <<pos, taken>>

\* asynth_ui_input_pop_rotary_delta, under irq_lock.
Pop ==
  /\ taken' = IF clipped THEN taken ELSE taken + delta
  /\ delta' = 0
  /\ UNCHANGED <<pos, irq, prevB, clipped>>

Next ==
  \/ \E p \in Positions : Turn(p)
  \/ Chatter
  \/ Irq
  \/ Pop

Spec == Init /\ [][Next]_vars

-----------------------------------------------------------------------------
TypeOK ==
  /\ pos \in Positions
  /\ irq \in BOOLEAN
  /\ delta \in -DeltaMax..DeltaMax
  /\ prevB \in BOOLEAN
  /\ taken \in Int
  /\ clipped \in BOOLEAN

\* What the main loop has taken and has still to take is exactly how far the
\* shaft has turned, in half steps and with its sign: turning back and forth
\* across an edge, or a chattering contact, leaves no drift.  Only the
\* saturation of the count may lose half steps (rotary_encoder_irq_update).
FollowsShaft ==
  ~irq /\ ~clipped => taken + delta = HalfSteps(Start) - HalfSteps(pos)
=============================================================================

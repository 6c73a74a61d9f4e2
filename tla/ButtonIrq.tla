------------------------------ MODULE ButtonIrq ------------------------------
(***************************************************************************)
(* One interrupt-driven button of app/src/asynth_ui.c (left or right): the *)
(* edge interrupt button_irq_update with its debounce window, and the main *)
(* loop's asynth_ui_input_pop_button_event, which acts on releases.        *)
(*                                                                         *)
(*   closed   the contact is closed (gpio_pin_get_raw, decoded)            *)
(*   edge     an edge interrupt is pending                                 *)
(*   pressed, changed   s_*_button_pressed, s_*_button_changed             *)
(*   sinceIrq now - s_*_button_last_irq_ms, followed up to Debounce        *)
(*                                                                         *)
(* The hand on the button: it makes a move (press or release), the contact *)
(* bounces for at most Bounce, and then rests for at least Rest before the *)
(* next move.  pollAge is the time since the main loop last polled.        *)
(* History: moves, releases (the moves that were), clicks (the releases    *)
(* that the main loop popped), and late (a time between two polls has been *)
(* as long as a rest).                                                     *)
(*                                                                         *)
(* Reading an on-chip GPIO does not fail, so the early return for a        *)
(* negative level is left out.  An interrupt is served before time passes. *)
(***************************************************************************)
EXTENDS Integers

CONSTANTS
  Debounce,     \* BUTTON_DEBOUNCE_MS, in ticks
  Bounce,       \* the longest the contact bounces
  Rest,         \* the shortest the contact rests between two moves
  PollPeriod,   \* the longest the main loop takes between two polls
  MaxMoves      \* bound: moves of the hand per behaviour

VARIABLES closed, edge, pressed, changed, sinceIrq,
          moving, target, phaseAge, pollAge, late, releases, moves, clicks

handVars  == <<moving, target, phaseAge>>
driverVars == <<pressed, changed, sinceIrq>>
vars == <<closed, edge, driverVars, handVars, pollAge, late, releases, moves, clicks>>

AtMost(n, bound) == IF n < bound THEN n ELSE bound

\* asynth_ui_input_init reads the contact once; at boot the last interrupt is
\* long past (last_irq_ms is 0 and the boot takes longer than the window).
Init ==
  /\ closed \in BOOLEAN
  /\ edge = FALSE
  /\ pressed = closed
  /\ changed = FALSE
  /\ sinceIrq = Debounce
  /\ moving = FALSE /\ target = closed /\ phaseAge = Rest
  /\ pollAge = 0 /\ late = FALSE
  /\ releases = 0 /\ moves = 0 /\ clicks = 0

\* The hand begins a move: the first edge of its bounce.
Move ==
  /\ ~moving /\ phaseAge >= Rest
  /\ moves < MaxMoves
  /\ target' = ~closed
  /\ closed' = ~closed
  /\ edge' = TRUE
  /\ moving' = TRUE /\ phaseAge' = 0
  /\ moves' = moves + 1
  /\ releases' = IF target' THEN releases ELSE releases + 1
  /\ UNCHANGED <<driverVars, pollAge, late, clicks>>

ContactBounces ==
  /\ moving
  /\ closed' = ~closed
  /\ edge' = TRUE
  /\ UNCHANGED <<driverVars, handVars, pollAge, late, releases, moves, clicks>>

Settle ==
  /\ moving /\ closed = target
  /\ moving' = FALSE /\ phaseAge' = 0
  /\ UNCHANGED <<closed, edge, driverVars, target, pollAge, late, releases, moves, clicks>>

Tick ==
  /\ ~edge
  /\ moving => phaseAge < Bounce
  /\ pollAge < PollPeriod
  /\ sinceIrq' = AtMost(sinceIrq + 1, Debounce)
  /\ phaseAge' = AtMost(phaseAge + 1, IF moving THEN Bounce ELSE Rest)
  /\ pollAge' = pollAge + 1
  /\ late' = (late \/ pollAge' >= Rest)
  /\ UNCHANGED <<closed, edge, pressed, changed, moving, target, releases, moves, clicks>>

\* A slip: the window is restarted by every edge, accepted or not.
IrqRestartsWindow ==
  /\ edge
  /\ edge' = FALSE
  /\ sinceIrq' = 0
  /\ IF sinceIrq >= Debounce /\ closed # pressed
       THEN pressed' = closed /\ changed' = TRUE
       ELSE UNCHANGED <<pressed, changed>>
  /\ UNCHANGED <<closed, handVars, pollAge, late, releases, moves, clicks>>

\* A slip: no debounce window.
IrqWithoutWindow ==
  /\ edge
  /\ edge' = FALSE
  /\ IF closed # pressed
       THEN pressed' = closed /\ changed' = TRUE /\ sinceIrq' = 0
       ELSE UNCHANGED driverVars
  /\ UNCHANGED <<closed, handVars, pollAge, late, releases, moves, clicks>>

\* button_irq_update: the contact is read when the interrupt runs; an edge that
\* comes inside the window, or that finds the contact as it was, is ignored.
Irq ==
  /\ edge
  /\ edge' = FALSE
  /\ IF sinceIrq >= Debounce /\ closed # pressed
       THEN pressed' = closed /\ changed' = TRUE /\ sinceIrq' = 0
       ELSE UNCHANGED driverVars
  /\ UNCHANGED <<closed, handVars, pollAge, late, releases, moves, clicks>>

\* asynth_ui_input_pop_button_event: one event at most, with the state the
\* button has now; presses and releases since the last poll are merged.
Pop ==
  /\ changed' = FALSE
  /\ clicks' = IF changed /\ ~pressed THEN clicks + 1 ELSE clicks
  /\ pollAge' = 0
  /\ UNCHANGED <<closed, edge, pressed, sinceIrq, handVars, late, releases, moves>>

Next == Move \/ ContactBounces \/ Settle \/ Tick \/ Irq \/ Pop

Spec == Init /\ [][Next]_vars

-----------------------------------------------------------------------------
AtRest == ~moving /\ ~edge

\* A contact that has come to rest is reported as it is.  The window ignores
\* edges and nothing reads the level again later, so this needs a contact that
\* bounces for less than the window and a hand that rests for at least as long
\* (button_irq_update).
RestingLevelReported ==
  AtRest => pressed = closed

\* A click was a release, whatever the bounce and the timing of the loop; and
\* every release is one click, unless two polls were once further apart than two
\* moves of the hand, which merges their events
\* (asynth_ui_input_pop_button_event).
EveryReleaseClicksOnce ==
  /\ clicks <= releases
  /\ AtRest /\ ~late => clicks + (IF changed /\ ~pressed THEN 1 ELSE 0) = releases
=============================================================================

------------------------------ MODULE UserInput ------------------------------
(***************************************************************************)
(* The controls of app/src/asynth_ui.c together: an interrupt-driven       *)
(* button (ButtonIrq; left and right are alike), the encoder's push button *)
(* (RotButton) and the encoder's shaft (RotaryEncoder), under one clock    *)
(* and one main loop, whose process_button_events polls them all in turn.  *)
(*                                                                         *)
(* The controls share no state.  Their polls are one step here: what an    *)
(* interrupt between two of them does, it could have done before or after  *)
(* them all.  The hand is on one control at a time, the same for a whole   *)
(* behaviour (a bound): the others rest, but are polled.                   *)
(***************************************************************************)
EXTENDS RotaryEncoder

CONSTANTS
  Debounce, Bounce, Rest,   \* as in ButtonIrq and RotButton, in ticks
  PollPeriod,
  MaxMoves

ASSUME TimingAssumption ==
  /\ {Debounce, Bounce, Rest, PollPeriod, MaxMoves} \subseteq Nat
  /\ PollPeriod > 0

\* What button_irq_update relies on: a contact that bounces for less than the
\* window, and a hand that rests for at least as long as the window.
ASSUME HandAssumption == Bounce < Debounce /\ Debounce <= Rest

VARIABLES
  hand,         \* the control the hand is on
  pollAge,      \* the time since the last polls
  closed, edge, pressed, changed, sinceIrq, moving, target, phaseAge,
  late, releases, moves, clicks,
  level, debounced, rawPrev, sinceRaw, initialized, steadyFor, sinceShown

Button == INSTANCE ButtonIrq
Push   == INSTANCE RotButton

\* What is of one control only.
buttonVars == <<closed, edge, pressed, changed, sinceIrq, moving, target, phaseAge,
                late, releases, moves, clicks>>
pushVars == <<level, debounced, rawPrev, sinceRaw, initialized, steadyFor, sinceShown>>
inputVars == <<hand, pollAge, vars, buttonVars, pushVars>>

InputInit ==
  /\ hand \in {"button", "push", "shaft"}
  /\ Init /\ Button!Init /\ Push!Init

-----------------------------------------------------------------------------
(* The hand.                                                               *)

OnButton ==
  /\ hand = "button"
  /\ Button!Move \/ Button!ContactBounces \/ Button!Settle
  /\ UNCHANGED <<hand, vars, pushVars>>

OnPush ==
  /\ hand = "push"
  /\ Push!ContactMoves
  /\ UNCHANGED <<hand, vars, buttonVars>>

OnShaft ==
  /\ hand = "shaft"
  /\ (\E p \in Positions : Turn(p)) \/ Chatter
  /\ UNCHANGED <<hand, pollAge, buttonVars, pushVars>>

-----------------------------------------------------------------------------
(* The interrupts, time, and the main loop.                                *)

ButtonInterrupt ==
  /\ Button!Irq
  /\ UNCHANGED <<hand, vars, pushVars>>

ShaftInterrupt ==
  /\ Irq
  /\ UNCHANGED <<hand, pollAge, buttonVars, pushVars>>

TimePasses ==
  /\ Button!Tick /\ Push!Tick
  /\ UNCHANGED <<hand, vars>>

\* process_button_events, as far as the controls are concerned.
PollControls ==
  /\ Button!Pop
  /\ Push!FirstPoll \/ Push!Poll
  /\ Pop
  /\ UNCHANGED hand

InputNext ==
  \/ OnButton \/ OnPush \/ OnShaft
  \/ ButtonInterrupt \/ ShaftInterrupt
  \/ TimePasses
  \/ PollControls

InputSpec == InputInit /\ [][InputNext]_inputVars

-----------------------------------------------------------------------------
(* The properties of each control, stated in its module.                   *)

\* A contact of a button that has come to rest is reported as it is
\* (button_irq_update).
RestingLevelReported == Button!RestingLevelReported

\* Every release of a button is one click, and every click was a release
\* (asynth_ui_input_pop_button_event).
EveryReleaseClicksOnce == Button!EveryReleaseClicksOnce

\* The push button is never stale for longer than its window and two polls
\* (asynth_ui_input_get_rot_button_debounced).
SteadyContactShows == Push!SteadyContactShows

\* The push button moves at most once in a window, whatever its bounce and the
\* spacing of the polls (asynth_ui_input_get_rot_button_debounced).
MovesOncePerWindow == Push!MovesOncePerWindow
=============================================================================

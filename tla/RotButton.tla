------------------------------ MODULE RotButton ------------------------------
(***************************************************************************)
(* The encoder's push button, which app/src/asynth_ui.c debounces by       *)
(* polling (asynth_ui_input_get_rot_button_debounced) instead of by        *)
(* interrupt.                                                              *)
(*                                                                         *)
(*   level      the contact                                                *)
(*   debounced  s_rot_button_debounced_pressed                             *)
(*   rawPrev    s_rot_button_raw_pressed_prev                              *)
(*   sinceRaw   now - s_rot_button_last_raw_change_ms, up to Debounce      *)
(*                                                                         *)
(* History: steadyFor, how long the contact has not moved, sinceShown, how *)
(* long ago the debounced state last moved, and pollAge, how long ago the  *)
(* main loop last polled.                                                  *)
(***************************************************************************)
EXTENDS Integers

CONSTANTS
  Debounce,     \* BUTTON_DEBOUNCE_MS, in ticks
  PollPeriod    \* the longest the main loop takes between two polls

VARIABLES level, debounced, rawPrev, sinceRaw, initialized, steadyFor, sinceShown, pollAge

vars == <<level, debounced, rawPrev, sinceRaw, initialized, steadyFor, sinceShown, pollAge>>

\* How long a steady contact may take to show: it is seen at the next poll,
\* the window begins there, and the poll that ends it may come a period late.
ShowsWithin == Debounce + 2 * PollPeriod

AtMost(n, bound) == IF n < bound THEN n ELSE bound

\* asynth_ui_input_init: the state starts from the level, unless the read of
\* the pin failed, which leaves it to the first poll.
Init ==
  /\ level \in BOOLEAN
  /\ initialized \in BOOLEAN
  /\ rawPrev = (initialized /\ level)
  /\ debounced = rawPrev
  /\ sinceRaw = 0
  /\ steadyFor = 0 /\ sinceShown = 0 /\ pollAge = 0

ContactMoves ==
  /\ level' = ~level
  /\ steadyFor' = 0
  /\ UNCHANGED <<debounced, rawPrev, sinceRaw, initialized, sinceShown, pollAge>>

Tick ==
  /\ pollAge < PollPeriod
  /\ pollAge' = pollAge + 1
  /\ sinceRaw' = AtMost(sinceRaw + 1, Debounce)
  /\ steadyFor' = AtMost(steadyFor + 1, ShowsWithin)
  /\ sinceShown' = AtMost(sinceShown + 1, Debounce)
  /\ UNCHANGED <<level, debounced, rawPrev, initialized>>

FirstPoll ==
  /\ ~initialized
  /\ initialized' = TRUE
  /\ rawPrev' = level
  /\ debounced' = level
  /\ sinceRaw' = 0
  /\ sinceShown' = 0
  /\ pollAge' = 0
  /\ UNCHANGED <<level, steadyFor>>

\* A poll whose last level change was since ago: the state follows the level
\* once the window has passed.
Show(since) ==
  LET moved == debounced # level /\ since >= Debounce
  IN /\ debounced' = IF moved THEN level ELSE debounced
     /\ sinceShown' = IF moved THEN 0 ELSE sinceShown

\* A slip: the window is restarted by every poll that still differs.
PollRestartsWindow ==
  /\ initialized
  /\ LET since == IF level # debounced THEN 0 ELSE sinceRaw
     IN sinceRaw' = since /\ Show(since)
  /\ rawPrev' = level
  /\ pollAge' = 0
  /\ UNCHANGED <<level, initialized, steadyFor>>

\* A slip: the time of the last change is not noted.
PollWithoutWindow ==
  /\ initialized
  /\ Show(sinceRaw)
  /\ rawPrev' = level
  /\ pollAge' = 0
  /\ UNCHANGED <<level, sinceRaw, initialized, steadyFor>>

\* A poll that sees the level change restarts the window.
Poll ==
  /\ initialized
  /\ LET since == IF level # rawPrev THEN 0 ELSE sinceRaw
     IN sinceRaw' = since /\ Show(since)
  /\ rawPrev' = level
  /\ pollAge' = 0
  /\ UNCHANGED <<level, initialized, steadyFor>>

Next == ContactMoves \/ Tick \/ FirstPoll \/ Poll

Spec == Init /\ [][Next]_vars

-----------------------------------------------------------------------------
\* A contact that stays put shows in the debounced state within the window and
\* two polls, whatever it did before: no bounce leaves the state stale.
SteadyContactShows ==
  steadyFor >= ShowsWithin => debounced = level

\* However the contact bounces and whenever the loop polls, the debounced state
\* moves at most once in any window: a bounce is never taken for a second press
\* or a release.
MovesOncePerWindow ==
  [][initialized /\ debounced' # debounced => sinceShown >= Debounce]_vars
=============================================================================

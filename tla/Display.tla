------------------------------- MODULE Display -------------------------------
(***************************************************************************)
(* The parts of app/src/asynth_display.c that live in time: the scrolling  *)
(* status line and an activity indicator (trigger 1 or 2, MIDI; the code   *)
(* has a copy for each).  One turn of the main loop is                     *)
(*                                                                         *)
(*   buttons   process_button_events prints labels; then now_ms is read    *)
(*   work      messages printed and activity shown, in any order           *)
(*             then asynth_display_tick_status_message_scroll              *)
(*   blink     asynth_display_tick_activity(now_ms)                        *)
(*   cv        the rest of the turn: here one step, in MainLoop several    *)
(*                                                                         *)
(* and time passes anywhere.  Only the indicators' tick is given now_ms;   *)
(* everything else here reads the clock itself.                            *)
(*                                                                         *)
(*   stale    the clock minus the last now_ms                              *)
(*   lit      the indicator's area of the frame buffer is inverted         *)
(*   active   the indicator's *_active flag                                *)
(*   left     *_blink_end_ms minus the clock                               *)
(*   msg      ui_status_msg, at most MaxLen characters of what was printed *)
(*   offset   ui_status_msg_offset                                         *)
(*   due      ui_status_msg_next_scroll_ms minus the clock, down to 0      *)
(*   window   the Visible characters last rendered                         *)
(*                                                                         *)
(* History: sinceAct, how long ago the last activation was; sinceNew, how  *)
(* long ago the message last changed.                                      *)
(*                                                                         *)
(* Differences of clock readings stand for the readings: the wrap of the   *)
(* 32-bit clock, after 49 days, is left out.                               *)
(***************************************************************************)
EXTENDS LoopTurn, Integers, Sequences

CONSTANTS
  Duration,     \* TRIGGER_BLINK_DURATION_MS, in ticks
  MaxTurn,      \* bound: the longest time between two readings of now_ms, in ticks
  Texts,        \* what is printed: sequences of characters
  Blanks,       \* what ui_write_status_line prints in normal mode
  Visible, Gap, MaxLen, \* UI_STATUS_MSG_VISIBLE_CHARS, _SCROLL_GAP, _MAX_LEN
  Interval,     \* UI_STATUS_MSG_SCROLL_INTERVAL_MS, in ticks
  Space         \* the blank character

ASSUME DisplayAssumption ==
  /\ Duration \in Nat \ {0} /\ MaxTurn \in Nat \ {0}
  /\ Visible \in Nat \ {0} /\ Gap \in Nat /\ MaxLen \in Nat /\ Interval \in Nat \ {0}
  /\ Blanks \in Texts /\ Len(Blanks) <= Visible /\ Visible <= MaxLen

VARIABLES stale, lit, active, left, sinceAct,
          msg, offset, due, window, sinceNew

blinkVars == <<lit, active, left, sinceAct>>
lineVars  == <<msg, offset, due, window, sinceNew>>
screenVars == <<stale, blinkVars, lineVars>>
displayVars == <<pc, screenVars>>

AtMost(n, bound) == IF n < bound THEN n ELSE bound

\* The longest an indicator may stay active: its duration, then up to a turn
\* before now_ms is read again, and up to a turn before the tick is given it.
Longest == Duration + 2 * MaxTurn

Bounded(t) == IF Len(t) <= MaxLen THEN t ELSE SubSeq(t, 1, MaxLen)

Scrolls(m) == Len(m) > Visible
Cycle(m) == Len(m) + Gap

CharAt(m, i) == IF i < Len(m) THEN m[i + 1] ELSE Space

\* asynth_display_render_msg_window.
Render(m, o) ==
  [k \in 1..Visible |-> CharAt(m, IF Scrolls(m) THEN (o + k - 1) % Cycle(m) ELSE k - 1)]

\* asynth_display_init, asynth_display_reset_activity, and the blank line that
\* boot prints some time before the loop begins.
DisplayInit ==
  /\ pc = "buttons" /\ stale = 0
  /\ lit = FALSE /\ active = FALSE /\ left = 0
  /\ sinceAct = Longest
  /\ msg = Blanks /\ offset = 0 /\ due \in 0..Interval
  /\ window = Render(Blanks, 0)
  /\ sinceNew = Interval - due

\* A tick of the clock, as the differences see it.
Aged ==
  /\ stale < MaxTurn
  /\ stale' = stale + 1
  /\ left' = IF active THEN left - 1 ELSE left
  /\ sinceAct' = AtMost(sinceAct + 1, Longest)
  /\ due' = IF due > 0 THEN due - 1 ELSE 0
  /\ sinceNew' = AtMost(sinceNew + 1, Interval)
  /\ UNCHANGED <<lit, active, msg, offset, window>>

DisplayTime == Aged /\ UNCHANGED pc

-----------------------------------------------------------------------------
(* The indicator.                                                          *)

\* A slip: the end of the blink keeps the time of the first activation.
ActivateKeepsEnd ==
  /\ pc = "work"
  /\ lit' = ~lit
  /\ active' = TRUE
  /\ left' = IF active THEN left ELSE Duration
  /\ sinceAct' = 0
  /\ UNCHANGED <<pc, stale, lineVars>>

\* A MIDI byte processed, or an edge of a trigger: asynth_display_act_*.
Activate ==
  /\ pc = "work"
  /\ lit' = ~lit
  /\ active' = TRUE
  /\ left' = Duration
  /\ sinceAct' = 0
  /\ UNCHANGED <<pc, stale, lineVars>>

\* The comparison now_ms >= *_blink_end_ms.
Over == left <= -stale

\* A slip: the end must be met exactly.
BlinkTickExactly ==
  /\ Goto("blink", "cv")
  /\ LET over == active /\ left = -stale
     IN /\ active' = (active /\ ~over)
        /\ lit' = IF over THEN ~lit ELSE lit
        /\ left' = IF over THEN 0 ELSE left
  /\ UNCHANGED <<stale, sinceAct, lineVars>>

\* asynth_display_tick_activity.
BlinkTick ==
  /\ Goto("blink", "cv")
  /\ active' = (active /\ ~Over)
  /\ lit' = IF active /\ Over THEN ~lit ELSE lit
  /\ left' = IF active /\ Over THEN 0 ELSE left
  /\ UNCHANGED <<stale, sinceAct, lineVars>>

-----------------------------------------------------------------------------
(* The status line.                                                        *)

\* A slip: printing what is already shown starts the scroll again.
PrintMsgRestarts(t) ==
  /\ pc \in {"buttons", "work"}
  /\ msg' = Bounded(t)
  /\ offset' = 0 /\ due' = Interval /\ sinceNew' = 0
  /\ window' = Render(msg', offset')
  /\ UNCHANGED <<pc, stale, blinkVars>>

\* A slip: the first scroll step is not put off.
PrintMsgScrollsAtOnce(t) ==
  /\ pc \in {"buttons", "work"}
  /\ msg' = Bounded(t)
  /\ IF Bounded(t) = msg
       THEN UNCHANGED <<offset, due, sinceNew>>
       ELSE offset' = 0 /\ sinceNew' = 0 /\ UNCHANGED due
  /\ window' = Render(msg', offset')
  /\ UNCHANGED <<pc, stale, blinkVars>>

\* asynth_display_print_msg: only a new text starts from its beginning.
PrintMsg(t) ==
  /\ pc \in {"buttons", "work"}
  /\ msg' = Bounded(t)
  /\ IF Bounded(t) = msg
       THEN UNCHANGED <<offset, due, sinceNew>>
       ELSE offset' = 0 /\ due' = Interval /\ sinceNew' = 0
  /\ window' = Render(msg', offset')
  /\ UNCHANGED <<pc, stale, blinkVars>>

\* asynth_display_tick_status_message_scroll: its two early returns...
ScrollNotYet ==
  /\ Goto("work", "blink")
  /\ ~Scrolls(msg) \/ due > 0
  /\ UNCHANGED <<stale, blinkVars, lineVars>>

\* ...and a step of the scroll.
Scroll ==
  /\ Goto("work", "blink")
  /\ Scrolls(msg) /\ due = 0
  /\ offset' = (offset + 1) % Cycle(msg)
  /\ due' = Interval
  /\ window' = Render(msg, offset')
  /\ UNCHANGED <<stale, blinkVars, msg, sinceNew>>

-----------------------------------------------------------------------------
\* now_ms = k_uptime_get_32().
ReadNow ==
  /\ Goto("buttons", "work")
  /\ stale' = 0
  /\ UNCHANGED <<blinkVars, lineVars>>

\* The rest of the turn, which nothing here takes part in.
AfterDisplay ==
  /\ Goto("cv", "buttons")
  /\ UNCHANGED <<stale, blinkVars, lineVars>>

DisplayTurn == ReadNow \/ ScrollNotYet \/ Scroll \/ BlinkTick \/ AfterDisplay

DisplayNext == (\E t \in Texts : PrintMsg(t)) \/ Activate \/ DisplayTurn \/ DisplayTime

\* Time passes and the main loop keeps turning.
DisplaySpec == DisplayInit /\ [][DisplayNext]_displayVars /\ WF_displayVars(DisplayTime) /\ WF_displayVars(DisplayTurn)

-----------------------------------------------------------------------------
\* A blink ends: even compared with the reading of the clock made before the
\* activation, an end is noticed within the duration and two turns of the loop
\* (asynth_display_tick_activity).
BlinkEnds ==
  active => sinceAct < Longest

\* And not early: activity keeps its indicator for the whole duration after the
\* last activation.
BlinkLastsDuration ==
  [][active /\ ~active' => sinceAct >= Duration]_displayVars

\* The indicators are for monitoring MIDI and the triggers (main.c, "Draw text
\* for MIDI and TRIGGERS monitoring"): an indicator at rest looks at rest.
RestsUnlit ==
  ~active => ~lit

\* A new message can be read from its beginning for a whole interval before it
\* moves (asynth_display_print_msg).
StartsStill ==
  [][offset = 0 /\ offset' # 0 /\ msg' = msg => sinceNew >= Interval]_displayVars

\* A long message that stays is shown whole, again and again, with a blank
\* window border between its end and its beginning, even if the panel keeps
\* printing it (ui_write_status_line prints the label at every edit).
WholeMessageShown ==
  \A t \in Texts :
    \A k \in 0..(Cycle(Bounded(t)) - 1) :
      Scrolls(Bounded(t)) /\ <>[](msg = Bounded(t))
        => []<>(window = Render(Bounded(t), k))
=============================================================================

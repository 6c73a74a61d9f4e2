------------------------------ MODULE MainLoop ------------------------------
(***************************************************************************)
(* The loop of main() in app/src/main.c over the two components that draw  *)
(* by halves, Display and CvInput, with the flag ui_dirty that decides     *)
(* whether the frame buffer goes to the glass at the end of a turn:        *)
(*                                                                         *)
(*   buttons -> work -> blink            as in Display                     *)
(*           -> cv -> bars               as in CvInput, when a sample is   *)
(*                                       due by next_cv_sample_ms          *)
(*           -> flush                    cfb_framebuffer_finalize if dirty *)
(*           -> sleep                    k_sleep, then the next turn       *)
(*                                                                         *)
(* The components share the program counter, the frame buffer and the      *)
(* clock.  Other drawing (cue number, mode hint) marks the frame in the    *)
(* same way and is the subject of FrontPanel.                              *)
(*                                                                         *)
(*   nextSample  next_cv_sample_ms minus the clock, down to 0              *)
(*   dirty       ui_dirty                                                  *)
(*   behind      history: the frame has changed since the display          *)
(*               controller last took it                                   *)
(*   failures    transfers to the controller that failed, at most          *)
(*               MaxFailures (a bound); main does not look at the result   *)
(*                                                                         *)
(* In one behaviour either the messages and the activity vary or the       *)
(* control voltages do (stimulus, a bound): the two draw in places of      *)
(* their own and meet only in dirty and in the length of a turn.  While    *)
(* messages vary the voltages are those of Still and every report is       *)
(* taken.  Time passes in the loop's sleep and, while messages vary, where *)
(* it makes a difference: between the reading of now_ms and its use.       *)
(* A sleep is one tick, the rest of a turn up to MaxTurn - 1.              *)
(***************************************************************************)
EXTENDS Display, CvInput

CONSTANTS
  Periods,      \* the sample periods of the menu, in ticks
  Still,        \* a function on Channels, the voltages while messages vary
  MaxFailures

ASSUME LoopAssumption ==
  /\ Periods \subseteq Nat \ {0} /\ Periods # {}
  /\ \A i \in Channels : Still[i] \in Inputs[i]
  /\ MaxFailures \in Nat

VARIABLES stimulus, nextSample, dirty, behind, failures

vars == <<pc, stimulus, screenVars, voltVars, nextSample, dirty, behind, failures>>

\* The frame buffer, as far as the two components draw in it.
Frame == [indicator |-> lit, line |-> window, bars |-> rows]

\* What a step draws is not on the glass yet.
Noted == behind' = (behind \/ Frame' # Frame)

\* Boot has flushed the screen it drew; the first sample is due at once.
Init ==
  /\ stimulus \in {"messages", "voltages"}
  /\ DisplayInit /\ CvBoot
  /\ IF stimulus = "messages" THEN input = Still /\ \A h \in Hysts : hyst <= h
                             ELSE due = 0
  /\ nextSample = 0 /\ dirty = FALSE
  /\ behind = FALSE /\ failures = 0

-----------------------------------------------------------------------------
(* What may come at any turn, and time.                                    *)

\* asynth_display_print_msg, from ui_write_status_line and from a datagram: all
\* callers report the display changed.
ShowMessage(t) ==
  /\ stimulus = "messages"
  /\ PrintMsg(t)
  /\ dirty' = TRUE
  /\ UNCHANGED <<stimulus, voltVars, nextSample, failures>> /\ Noted

\* asynth_midi_process_events, process_trigger_events.
ShowActivity ==
  /\ stimulus = "messages"
  /\ Activate
  /\ dirty' = TRUE
  /\ UNCHANGED <<stimulus, voltVars, nextSample, failures>> /\ Noted

VoltageMoves ==
  /\ stimulus = "voltages"
  /\ \/ \E i \in Channels : \E v \in Inputs[i] : InputMoves(i, v)
     \/ MenuSetsHysteresis
  /\ UNCHANGED <<stimulus, screenVars, nextSample, dirty, failures>> /\ Noted

\* A tick of the clock.
Tick ==
  /\ Aged
  /\ nextSample' = IF nextSample > 0 THEN nextSample - 1 ELSE 0
  /\ UNCHANGED <<stimulus, voltVars, dirty, failures>> /\ Noted

\* Work takes time; what is left of MaxTurn is the sleep's.
WorkTakesTime ==
  /\ stimulus = "messages"
  /\ pc \in {"work", "blink"} /\ pc' = pc
  /\ stale < MaxTurn - 1
  /\ Tick

-----------------------------------------------------------------------------
(* The steps of a turn.                                                    *)

ReadClock ==
  /\ ReadNow
  /\ UNCHANGED <<stimulus, voltVars, nextSample, dirty, failures>> /\ Noted

ScrollTick ==
  /\ \/ Scroll /\ dirty' = TRUE
     \/ ScrollNotYet /\ UNCHANGED dirty
  /\ UNCHANGED <<stimulus, voltVars, nextSample, failures>> /\ Noted

\* A slip: the end of a blink is drawn and not reported.
ActivityTickSilent ==
  /\ BlinkTick
  /\ UNCHANGED <<stimulus, voltVars, nextSample, dirty, failures>> /\ Noted

ActivityTick ==
  /\ BlinkTick
  /\ dirty' = (dirty \/ (active /\ ~active'))
  /\ UNCHANGED <<stimulus, voltVars, nextSample, failures>> /\ Noted

SampleNotDue ==
  /\ nextSample > 0
  /\ NoSample
  /\ UNCHANGED <<stimulus, screenVars, nextSample, dirty, failures>> /\ Noted

\* A slip: the frame is marked only when a bar has changed.
SampleAgainLaterIfChanged ==
  /\ dirty' = (dirty \/ rows' # rows)
  /\ nextSample' \in Periods

\* The period counts from the end of the sampling.
SampleAgainLater ==
  /\ dirty' = TRUE
  /\ nextSample' \in Periods

SampleFails ==
  /\ nextSample = 0
  /\ NoSample
  /\ SampleAgainLater
  /\ UNCHANGED <<stimulus, screenVars, failures>> /\ Noted

TakeSample ==
  /\ nextSample = 0
  /\ Sample
  /\ stimulus = "messages" => missed' = missed
  /\ UNCHANGED <<stimulus, screenVars, nextSample, dirty, failures>> /\ Noted

RedrawBars ==
  /\ RefreshBars
  /\ SampleAgainLater
  /\ UNCHANGED <<stimulus, screenVars, failures>> /\ Noted

\* cfb_framebuffer_finalize.  ui_dirty is a new variable in each turn.
Flush ==
  /\ Goto("flush", "sleep")
  /\ dirty /\ dirty' = FALSE
  /\ behind' = FALSE
  /\ UNCHANGED <<stimulus, screenVars, voltVars, nextSample, failures>>

\* The transfer to the controller fails, which main does not notice.
FlushFails ==
  /\ Goto("flush", "sleep")
  /\ dirty /\ dirty' = FALSE
  /\ failures < MaxFailures /\ failures' = failures + 1
  /\ UNCHANGED <<stimulus, screenVars, voltVars, nextSample, behind>>

NothingToFlush ==
  /\ Goto("flush", "sleep")
  /\ ~dirty
  /\ UNCHANGED <<stimulus, screenVars, voltVars, nextSample, dirty, failures>> /\ Noted

\* k_sleep.
Sleep ==
  /\ Goto("sleep", "buttons")
  /\ Tick

Turn ==
  \/ ReadClock \/ ScrollTick \/ ActivityTick
  \/ SampleNotDue \/ SampleFails \/ TakeSample \/ RedrawBars
  \/ Flush \/ FlushFails \/ NothingToFlush
  \/ Sleep

Next ==
  \/ \E t \in Texts : ShowMessage(t)
  \/ ShowActivity
  \/ VoltageMoves
  \/ WorkTakesTime
  \/ Turn

\* The main loop keeps turning, and each turn takes time; neither a sample nor a
\* transfer is promised to succeed.
Spec == Init /\ [][Next]_vars /\ WF_vars(Turn)

-----------------------------------------------------------------------------
\* Whatever was drawn in a turn, by whichever component and however often, is on
\* the glass when the loop sleeps, as long as the display takes what it is sent:
\* no drawing forgets to report itself in ui_dirty.
FlushedEachTurn ==
  pc = "sleep" /\ failures = 0 => ~behind

\* A transfer that failed is made up for although nothing more is drawn and
\* nobody looked at its result: every sample marks the frame, also one that
\* failed or changed no bar.
GlassRecovers ==
  []<>~behind
=============================================================================

---------------------------- MODULE MainLoopProofs ----------------------------
(***************************************************************************)
(* The main loop for any texts, voltages, sample periods and lengths of a  *)
(* turn: what is drawn is flushed, the bars show the samples, the receiver *)
(* is within the hysteresis, blinks last and end, and messages can be read *)
(* from their beginning.                                                   *)
(***************************************************************************)
EXTENDS MainLoop, TLAPS

-----------------------------------------------------------------------------
(* Flushing.                                                               *)

\* What is not on the glass has been reported, unless a transfer has failed; and
\* nothing reported is left when the loop sleeps.
FlushInv ==
  /\ failures \in Nat
  /\ behind => dirty \/ failures > 0
  /\ pc = "sleep" => ~dirty

\* A step that leaves the frame alone, or reports that it has drawn.
LEMMA DrawingReported ==
  ASSUME FlushInv, Noted, failures' = failures,
         UNCHANGED <<lit, window, rows>> \/ dirty',
         dirty => dirty',
         pc' # "sleep"
  PROVE  FlushInv'
<1>1. CASE UNCHANGED <<lit, window, rows>>
  <2>1. Frame' = Frame
    BY <1>1 DEF Frame
  <2> QED
    BY <2>1 DEF FlushInv, Noted
<1>2. CASE dirty'
  BY <1>2 DEF FlushInv, Noted
<1> QED
  BY <1>1, <1>2

\* The indicator's tick draws exactly when a blink ends.
LEMMA BlinkTickReports ==
  ASSUME FlushInv, ActivityTick
  PROVE  FlushInv'
<1>1. /\ active' = (active /\ ~Over)
      /\ lit' = IF active /\ Over THEN ~lit ELSE lit
      /\ dirty' = (dirty \/ (active /\ ~active'))
      /\ pc' = "cv" /\ failures' = failures
      /\ UNCHANGED <<window, rows>> /\ Noted
  BY DEF FlushInv, ActivityTick, BlinkTick, Goto, lineVars, voltVars
<1>2. CASE active /\ Over
  <2>1. dirty' = TRUE
    BY <1>1, <1>2, Zenon
  <2> QED
    BY <1>1, <2>1, DrawingReported
<1>3. CASE ~(active /\ Over)
  <2>1. lit' = lit
    BY <1>1, <1>3
  <2>2. dirty => dirty'
    BY <1>1, Zenon
  <2> QED
    BY <1>1, <2>1, <2>2, DrawingReported
<1> QED
  BY <1>2, <1>3

\* Messages, activity and the scroll.
LEMMA ScreenReports ==
  ASSUME FlushInv, (\E t \in Texts : ShowMessage(t)) \/ ShowActivity \/ ScrollTick
  PROVE  FlushInv'
<1>1. CASE (\E t \in Texts : ShowMessage(t)) \/ ShowActivity
  <2>1. /\ dirty' = TRUE /\ failures' = failures /\ Noted
        /\ pc' = pc /\ pc # "sleep"
    BY <1>1 DEF ShowMessage, ShowActivity, PrintMsg, Activate
  <2> QED
    BY <2>1, DrawingReported
<1>2. CASE ScrollTick
  <2>1. /\ failures' = failures /\ Noted /\ pc' = "blink"
        /\ dirty' = TRUE \/ (dirty' = dirty /\ UNCHANGED <<lit, window, rows>>)
    BY <1>2 DEF ScrollTick, Scroll, ScrollNotYet, Goto, blinkVars, lineVars, voltVars
  <2> QED
    BY <2>1, DrawingReported DEF FlushInv
<1> QED
  BY <1>1, <1>2

\* Voltages, their samples and the bars.
LEMMA VoltageReports ==
  ASSUME FlushInv, VoltageMoves \/ SampleNotDue \/ SampleFails \/ TakeSample \/ RedrawBars
  PROVE  FlushInv'
<1>1. failures' = failures /\ Noted
  BY DEF VoltageMoves, SampleNotDue, SampleFails, TakeSample, RedrawBars
<1>2. pc' # "sleep"
  BY DEF VoltageMoves, InputMoves, MenuSetsHysteresis, SampleNotDue, SampleFails, NoSample,
         TakeSample, Sample, RedrawBars, RefreshBars, Goto
<1>3. dirty' = TRUE \/ (dirty' = dirty /\ UNCHANGED <<lit, window, rows>>)
  BY DEF VoltageMoves, InputMoves, MenuSetsHysteresis, SampleNotDue, SampleFails, NoSample,
         SampleAgainLater, TakeSample, Sample, RedrawBars, screenVars, blinkVars, lineVars,
         voltVars
<1> QED
  BY <1>1, <1>2, <1>3, DrawingReported DEF FlushInv

\* The clock is read, or time passes: nothing is drawn.
LEMMA ClockReports ==
  ASSUME FlushInv, WorkTakesTime \/ ReadClock \/ Sleep
  PROVE  FlushInv'
<1>1. /\ failures' = failures /\ dirty' = dirty /\ Noted
      /\ UNCHANGED <<lit, window, rows>> /\ pc' # "sleep"
  BY DEF WorkTakesTime, ReadClock, Sleep, Tick, Aged, ReadNow, Goto, blinkVars, lineVars,
         voltVars
<1> QED
  BY <1>1, DrawingReported DEF FlushInv

\* The end of the turn.
LEMMA FlushReports ==
  ASSUME FlushInv, Flush \/ FlushFails \/ NothingToFlush
  PROVE  FlushInv'
<1>1. ~dirty'
  BY DEF Flush, FlushFails, NothingToFlush
<1>2. CASE Flush
  BY <1>1, <1>2 DEF Flush, FlushInv
<1>3. CASE FlushFails
  BY <1>1, <1>3 DEF FlushFails, FlushInv
<1>4. CASE NothingToFlush
  <2>1. Frame' = Frame
    BY <1>4 DEF NothingToFlush, screenVars, blinkVars, lineVars, voltVars, Frame
  <2>2. (behind' <=> behind) /\ failures' = failures
    BY <1>4, <2>1 DEF NothingToFlush, Noted, FlushInv
  <2>3. ~dirty
    BY <1>4 DEF NothingToFlush
  <2> QED
    BY <1>1, <2>2, <2>3 DEF FlushInv
<1> QED
  BY <1>2, <1>3, <1>4

\* What a turn has drawn is on the glass when the loop sleeps, whichever part of
\* the loop has drawn it, until a transfer fails.
THEOREM EachTurnFlushed == Spec => []FlushedEachTurn
<1>1. Init => FlushInv
  <2>1. Init => /\ pc = "buttons" /\ behind = FALSE /\ failures = 0
    BY DEF Init, DisplayInit
  <2> QED
    BY <2>1 DEF FlushInv
<1>2. FlushInv /\ [Next]_vars => FlushInv'
  <2> SUFFICES ASSUME FlushInv, [Next]_vars PROVE FlushInv'
    OBVIOUS
  <2>1. CASE UNCHANGED vars
    BY <2>1 DEF vars, FlushInv
  <2> QED
    BY <2>1, BlinkTickReports, ScreenReports, VoltageReports, ClockReports, FlushReports
       DEF Next, Turn
<1>3. FlushInv => FlushedEachTurn
  BY DEF FlushInv, FlushedEachTurn
<1> QED
  BY <1>1, <1>2, <1>3, PTL DEF Spec

-----------------------------------------------------------------------------
(* The control voltages.                                                   *)

\* Each bar is as high as pixels says, and pixels says what the channel's sample
\* calls for except between the sample and the redrawing; what the receiver was
\* last given is what the code compares with, unless a report was refused.
CvInv ==
  /\ RemapIsValid
  /\ input \in [Channels -> Int] /\ raw \in [Channels -> Raws]
  /\ hyst \in Nat \ {0} /\ used \in Nat \ {0}
  /\ DOMAIN pixels = Channels /\ DOMAIN rows = Channels
  /\ prevSent \in [Channels -> Raws \cup {Never}]
  /\ \A i \in Channels :
       /\ pixels[Remap[i]] \in 0..MaxPixels
       /\ rows[Remap[i]] = ((MaxPixels - pixels[Remap[i]]) + 1)..MaxPixels
       /\ pc # "bars" => pixels[Remap[i]] = Pixels(raw[i])
       /\ ~missed[Remap[i]] => heard[Remap[i]] = prevSent[i]
  /\ ReceiverWithinHysteresis

\* Rounding to the nearest pixel never leaves the bar.
LEMMA PixelsInRange ==
  ASSUME NEW r \in Raws
  PROVE  Pixels(r) \in 0..MaxPixels
<1> DEFINE n == 2 * r * MaxPixels + MaxRaw
           d == 2 * MaxRaw
<1>1. MaxRaw \in Nat \ {0} /\ MaxPixels \in Nat /\ r \in Nat /\ r <= MaxRaw
  BY CvAssumption DEF Raws
<1>2. r * MaxPixels \in Nat /\ MaxRaw * MaxPixels \in Nat
  BY <1>1
<1>3. r * MaxPixels <= MaxRaw * MaxPixels
  BY <1>1
<1>4. n \in Nat /\ d \in Nat \ {0} /\ n < d * MaxPixels + d
  <2>1. 2 * r * MaxPixels = 2 * (r * MaxPixels) /\ d * MaxPixels = 2 * (MaxRaw * MaxPixels)
    BY <1>1
  <2> QED
    BY <1>1, <1>2, <1>3, <2>1
<1> DEFINE q == n \div d
<1>5. q \in Nat /\ d * q <= n
  <2> HIDE DEF n, d
  <2> QED
    BY <1>4
<1>6. q <= MaxPixels
  <2> HIDE DEF n, d, q
  <2>1. SUFFICES ASSUME q >= MaxPixels + 1 PROVE FALSE
    BY <1>1, <1>5
  <2>2. d * q >= d * (MaxPixels + 1)
    BY <1>1, <1>4, <1>5, <2>1
  <2>3. d * (MaxPixels + 1) = d * MaxPixels + d
    BY <1>1, <1>4
  <2> QED
    BY <1>1, <1>4, <1>5, <2>2, <2>3
<1> QED
  BY <1>5, <1>6 DEF Pixels

\* A bar that is filled to one height is filled to the other once both areas
\* have been inverted.
LEMMA RedrawnFills ==
  ASSUME NEW p, NEW n \in 0..MaxPixels, pixels[p] \in 0..MaxPixels,
         rows[p] = ((MaxPixels - pixels[p]) + 1)..MaxPixels
  PROVE  Redrawn(p, n) = ((MaxPixels - n) + 1)..MaxPixels
<1>1. MaxPixels \in Nat
  BY CvAssumption
<1>2. CASE n = pixels[p]
  BY <1>2 DEF Redrawn
<1>3. CASE n # pixels[p]
  <2>1. Toggled(rows[p], Area(pixels[p])) = 0..MaxPixels
    BY <1>1 DEF Toggled, Area
  <2>2. Toggled(0..MaxPixels, Area(n)) = ((MaxPixels - n) + 1)..MaxPixels
    BY <1>1 DEF Toggled, Area
  <2> QED
    BY <1>3, <2>1, <2>2 DEF Redrawn
<1> QED
  BY <1>2, <1>3

\* The channel that a place of the display stands for.
LEMMA ChannelOfPlace ==
  ASSUME RemapIsValid, NEW i \in Channels
  PROVE  (CHOOSE j \in Channels : Remap[j] = Remap[i]) = i
  BY DEF RemapIsValid

LEMMA CvInitInv == Init => CvInv /\ pc # "bars"
<1> SUFFICES ASSUME Init PROVE CvInv /\ pc # "bars"
  OBVIOUS
<1>1. pc = "buttons" /\ CvBoot
  BY DEF Init, DisplayInit
<1>2. input \in [Channels -> Int]
  <2>1. \A i \in Channels : input[i] \in Int
    BY <1>1, CvAssumption DEF CvBoot
  <2>2. input \in [Channels -> UNION {Inputs[i] : i \in Channels}]
    BY <1>1 DEF CvBoot
  <2> QED
    BY <2>1, <2>2
<1>3. MaxRaw \in Nat \ {0} /\ MaxPixels \in Nat /\ Remap \in [Channels -> Channels]
  BY CvAssumption
<1>4. Pixels(0) = 0
  <2>1. 2 * 0 * MaxPixels + MaxRaw = MaxRaw
    BY <1>3
  <2>2. MaxRaw \div (2 * MaxRaw) = 0
    <3> DEFINE q == MaxRaw \div (2 * MaxRaw)
    <3>1. 2 * MaxRaw \in Nat \ {0} /\ q \in Nat /\ (2 * MaxRaw) * q <= MaxRaw
      BY <1>3
    <3>2. SUFFICES ASSUME q >= 1 PROVE FALSE
      BY <3>1
    <3> HIDE DEF q
    <3>3. (2 * MaxRaw) * q >= 2 * MaxRaw
      BY <1>3, <3>1, <3>2
    <3> QED
      BY <1>3, <3>1, <3>3
  <2> QED
    BY <2>1, <2>2 DEF Pixels
<1>5. \A i \in Channels :
        /\ pixels[Remap[i]] = 0 /\ rows[Remap[i]] = {} /\ raw[i] = 0
        /\ heard[Remap[i]] = Never /\ prevSent[i] = Never
  BY <1>1, <1>3 DEF CvBoot
<1>6. ((MaxPixels - 0) + 1)..MaxPixels = {} /\ 0 \in 0..MaxPixels /\ 0 \in Raws
  BY <1>3 DEF Raws
<1>7. /\ RemapIsValid /\ hyst \in Nat \ {0} /\ used \in Nat \ {0}
      /\ raw \in [Channels -> Raws] /\ prevSent \in [Channels -> Raws \cup {Never}]
      /\ DOMAIN pixels = Channels /\ DOMAIN rows = Channels
  BY <1>1, <1>6, CvAssumption DEF CvBoot
<1> QED
  BY <1>1, <1>2, <1>4, <1>5, <1>6, <1>7 DEF CvInv, ReceiverWithinHysteresis

\* Steps of the rest of the loop.
LEMMA ElsewhereCvInv ==
  ASSUME CvInv, UNCHANGED voltVars, pc # "bars", pc' # "bars"
  PROVE  CvInv'
  BY DEF voltVars, CvInv, ReceiverWithinHysteresis

LEMMA VoltageMovesCvInv ==
  ASSUME CvInv, VoltageMoves
  PROVE  CvInv'
<1>1. pc = "cv" /\ pc' = "cv" /\ UNCHANGED <<raw, prevSent, pixels, rows, used, heard, missed>>
  BY DEF VoltageMoves, InputMoves, MenuSetsHysteresis
<1>2. input' \in [Channels -> Int] /\ hyst' \in Nat \ {0}
  <2>1. ASSUME NEW i \in Channels, NEW v \in Inputs[i], InputMoves(i, v)
        PROVE  input' \in [Channels -> Int] /\ hyst' = hyst
    <3>1. v \in Int
      BY CvAssumption
    <3> QED
      BY <2>1, <3>1 DEF InputMoves, CvInv
  <2>2. CASE MenuSetsHysteresis
    BY <2>2, CvAssumption DEF MenuSetsHysteresis, CvInv
  <2> QED
    BY <2>1, <2>2 DEF VoltageMoves, CvInv
<1> QED
  BY <1>1, <1>2 DEF CvInv, ReceiverWithinHysteresis

\* A channel that was not reported is within the hysteresis of what was sent
\* last; one that was is sent as it is.
LEMMA SampleCvInv ==
  ASSUME CvInv, Sample
  PROVE  CvInv'
<1> DEFINE now == [i \in Channels |-> Clamp(input[i])]
           places == {Remap[i] : i \in Moved(now)}
<1>1. MaxRaw \in Nat \ {0} /\ MaxPixels \in Nat /\ Remap \in [Channels -> Channels]
  BY CvAssumption
<1>2. now \in [Channels -> Raws]
  <2>1. \A r \in Int : Clamp(r) \in Raws
    BY <1>1, SMT DEF Clamp, Raws
  <2>2. \A i \in Channels : input[i] \in Int
    BY Zenon DEF CvInv
  <2> QED
    BY <2>1, <2>2, Zenon
<1> HIDE DEF now
<1>3. PICK taken \in SUBSET places :
        /\ heard' = [p \in Channels |->
                       IF p \in taken THEN now[CHOOSE i \in Channels : Remap[i] = p] ELSE heard[p]]
        /\ missed' = [p \in Channels |-> IF p \in places THEN p \notin taken ELSE missed[p]]
  BY DEF Sample, now
<1>4. /\ raw' = now /\ used' = hyst /\ hyst' = hyst /\ input' = input
      /\ prevSent' = [i \in Channels |-> IF i \in Moved(now) THEN now[i] ELSE prevSent[i]]
      /\ UNCHANGED <<pixels, rows>> /\ pc' = "bars"
  BY DEF Sample, Goto, now
<1>5. \A i \in Channels : Remap[i] \in places <=> i \in Moved(now)
  BY DEF CvInv, RemapIsValid, Moved
<1>6. prevSent' \in [Channels -> Raws \cup {Never}]
  BY <1>2, <1>4 DEF CvInv
<1>7. ASSUME NEW i \in Channels, ~missed'[Remap[i]]
      PROVE  heard'[Remap[i]] = prevSent'[i]
  <2>1. Remap[i] \in Channels
    BY <1>1
  <2>2. CASE i \in Moved(now)
    <3>1. Remap[i] \in taken
      BY <1>3, <1>5, <1>7, <2>1, <2>2
    <3>2. heard'[Remap[i]] = now[i]
      BY <1>3, <2>1, <3>1, ChannelOfPlace DEF CvInv
    <3> QED
      BY <1>4, <2>2, <3>2
  <2>3. CASE i \notin Moved(now)
    <3>1. Remap[i] \notin places
      BY <1>5, <2>3
    <3>2. heard'[Remap[i]] = heard[Remap[i]] /\ ~missed[Remap[i]]
      BY <1>3, <1>7, <2>1, <3>1
    <3> QED
      BY <1>4, <2>3, <3>2 DEF CvInv
  <2> QED
    BY <2>2, <2>3
<1>8. ASSUME NEW i \in Channels
      PROVE  prevSent'[i] # Never /\ Distance(prevSent'[i], raw'[i]) * 1000 < used' * MaxRaw
  <2>1. hyst * MaxRaw \in Nat \ {0} /\ now[i] \in Nat /\ prevSent[i] \in Nat \cup {Never}
    BY <1>1, <1>2 DEF CvInv, Raws
  <2>2. CASE i \in Moved(now)
    BY <1>4, <2>1, <2>2 DEF Distance, Never
  <2>3. CASE i \notin Moved(now)
    <3>1. prevSent[i] # Never /\ ~(Distance(now[i], prevSent[i]) * 1000 >= hyst * MaxRaw)
      BY <2>3 DEF Moved
    <3>2. prevSent'[i] = prevSent[i] /\ raw'[i] = now[i] /\ used' = hyst
      BY <1>4, <2>3
    <3>3. Distance(prevSent[i], now[i]) = Distance(now[i], prevSent[i])
          /\ Distance(now[i], prevSent[i]) \in Nat
      BY <2>1, <3>1 DEF Distance
    <3> QED
      BY <2>1, <3>1, <3>2, <3>3
  <2> QED
    BY <2>2, <2>3
<1>9. ReceiverWithinHysteresis'
  BY <1>7, <1>8 DEF ReceiverWithinHysteresis
<1> QED
  BY <1>2, <1>4, <1>6, <1>7, <1>9 DEF CvInv, RemapIsValid

\* The bars catch up with the samples.
LEMMA RefreshCvInv ==
  ASSUME CvInv, RefreshBars
  PROVE  CvInv'
<1> DEFINE new == [p \in Channels |-> Pixels(raw[CHOOSE i \in Channels : Remap[i] = p])]
<1>1. /\ rows' = [p \in Channels |-> Redrawn(p, new[p])]
      /\ pixels' = new
      /\ UNCHANGED <<input, raw, prevSent, hyst, used, heard, missed>> /\ pc' = "flush"
  BY DEF RefreshBars, Goto
<1>2. ASSUME NEW i \in Channels
      PROVE  Remap[i] \in Channels /\ new[Remap[i]] = Pixels(raw[i]) /\ raw[i] \in Raws
  BY CvAssumption, ChannelOfPlace DEF CvInv
<1> HIDE DEF new
<1>3. ASSUME NEW i \in Channels
      PROVE  /\ pixels'[Remap[i]] = Pixels(raw'[i]) /\ pixels'[Remap[i]] \in 0..MaxPixels
             /\ rows'[Remap[i]] = ((MaxPixels - pixels'[Remap[i]]) + 1)..MaxPixels
  <2>1. new[Remap[i]] \in 0..MaxPixels
    BY <1>2, PixelsInRange
  <2>2. Redrawn(Remap[i], new[Remap[i]]) = ((MaxPixels - new[Remap[i]]) + 1)..MaxPixels
    BY <2>1, RedrawnFills DEF CvInv
  <2> QED
    BY <1>1, <1>2, <2>1, <2>2
<1>4. DOMAIN pixels' = Channels /\ DOMAIN rows' = Channels
  BY <1>1 DEF new
<1>5. /\ RemapIsValid' /\ input' \in [Channels -> Int] /\ raw' \in [Channels -> Raws]
      /\ hyst' \in Nat \ {0} /\ used' \in Nat \ {0}
      /\ prevSent' \in [Channels -> Raws \cup {Never}]
  BY <1>1, Zenon DEF CvInv, RemapIsValid
<1>6. \A i \in Channels : ~missed'[Remap[i]] => heard'[Remap[i]] = prevSent'[i]
  BY <1>1, Zenon DEF CvInv
<1>7. ReceiverWithinHysteresis'
  <2>1. pc' # "bars"
    BY <1>1
  <2> QED
    BY <2>1, Zenon DEF ReceiverWithinHysteresis
<1> QED
  BY <1>3, <1>4, <1>5, <1>6, <1>7, Zenon DEF CvInv

LEMMA CvStepInv == CvInv /\ [Next]_vars => CvInv'
<1> SUFFICES ASSUME CvInv, [Next]_vars PROVE CvInv'
  OBVIOUS
<1>1. CASE VoltageMoves
  BY <1>1, VoltageMovesCvInv
<1>2. CASE TakeSample
  BY <1>2, SampleCvInv DEF TakeSample
<1>3. CASE RedrawBars
  BY <1>3, RefreshCvInv DEF RedrawBars
<1>4. CASE (\E t \in Texts : ShowMessage(t)) \/ ShowActivity \/ WorkTakesTime
  BY <1>4, ElsewhereCvInv DEF ShowMessage, PrintMsg, ShowActivity, Activate, WorkTakesTime, Tick
<1>5. CASE ReadClock \/ ScrollTick \/ ActivityTick \/ SampleNotDue \/ SampleFails
  BY <1>5, ElsewhereCvInv DEF ReadClock, ReadNow, ScrollTick, Scroll, ScrollNotYet, ActivityTick,
     BlinkTick, SampleNotDue, SampleFails, NoSample, Goto
<1>6. CASE Flush \/ FlushFails \/ NothingToFlush \/ Sleep
  BY <1>6, ElsewhereCvInv DEF Flush, FlushFails, NothingToFlush, Sleep, Tick, Goto
<1>7. CASE UNCHANGED vars
  BY <1>7 DEF vars, voltVars, CvInv, ReceiverWithinHysteresis
<1> QED
  BY <1>1, <1>2, <1>3, <1>4, <1>5, <1>6, <1>7 DEF Next, Turn

\* However the inputs drift and whatever the menu does to the hysteresis, a
\* receiver given every report is within the hysteresis of each sample.
THEOREM ReceiverStaysWithinHysteresis == Spec => []ReceiverWithinHysteresis
<1>1. CvInv => ReceiverWithinHysteresis
  BY DEF CvInv
<1> QED
  BY <1>1, CvInitInv, CvStepInv, PTL DEF Spec

\* The bars show the samples though they are only ever inverted, for every height
\* of a bar and every range of the ADC.
THEOREM BarsAlwaysShowSamples == Spec => []BarsShowSamples
<1>1. CvInv => BarsShowSamples
  BY DEF CvInv, BarsShowSamples
<1> QED
  BY <1>1, CvInitInv, CvStepInv, PTL DEF Spec

-----------------------------------------------------------------------------
(* Time on the display.                                                    *)

\* Between its tick and the next reading of the clock a blink that goes on is no
\* older than its duration and the age of the last reading; the next reading may
\* come a turn later.  A message that has not moved is as old as the time that
\* has gone from its interval.
TimeInv ==
  /\ stale \in 0..MaxTurn /\ left \in Int /\ sinceAct \in Nat
  /\ active =>
       /\ left = Duration - sinceAct
       /\ sinceAct < Duration + stale + (IF pc \in {"work", "blink"} THEN MaxTurn ELSE 0)
  /\ due \in 0..Interval /\ sinceNew \in Nat
  /\ due + sinceNew >= Interval

LEMMA TimeInitInv == Init => TimeInv
  BY DisplayAssumption DEF Init, DisplayInit, TimeInv, Longest

\* The clock ticks: all ages grow together.
LEMMA TickTimeInv ==
  ASSUME TimeInv, Tick, pc' \in {"work", "blink"} <=> pc \in {"work", "blink"}
  PROVE  TimeInv'
<1>1. /\ stale < MaxTurn /\ stale' = stale + 1 /\ (active' <=> active)
      /\ left' = IF active THEN left - 1 ELSE left
      /\ sinceAct' = AtMost(sinceAct + 1, Longest)
      /\ due' = IF due > 0 THEN due - 1 ELSE 0
      /\ sinceNew' = AtMost(sinceNew + 1, Interval)
  BY DEF Tick, Aged
<1>2. stale' \in 0..MaxTurn /\ left' \in Int /\ sinceAct' \in Nat
  BY <1>1, DisplayAssumption DEF TimeInv, AtMost, Longest
<1>3. ASSUME active'
      PROVE  /\ left' = Duration - sinceAct'
             /\ sinceAct' < Duration + stale' + (IF pc' \in {"work", "blink"} THEN MaxTurn ELSE 0)
  <2>1. sinceAct + 1 <= Longest
    BY <1>1, <1>3, DisplayAssumption DEF TimeInv, Longest
  <2>2. sinceAct' = sinceAct + 1
    BY <1>1, <2>1, DisplayAssumption DEF TimeInv, AtMost, Longest
  <2> QED
    BY <1>1, <1>3, <2>2, DisplayAssumption DEF TimeInv
<1>4. due' \in 0..Interval /\ sinceNew' \in Nat /\ due' + sinceNew' >= Interval
  BY <1>1, DisplayAssumption DEF TimeInv, AtMost
<1> QED
  BY <1>2, <1>3, <1>4 DEF TimeInv

\* The indicator's tick lets a blink go on that is younger than its duration and
\* the age of the clock's reading.
LEMMA BlinkTickTimeInv ==
  ASSUME TimeInv, ActivityTick
  PROVE  TimeInv'
<1>1. /\ pc = "blink" /\ pc' = "cv"
      /\ active' => active /\ ~Over
      /\ left' = IF active /\ Over THEN 0 ELSE left
      /\ UNCHANGED <<stale, sinceAct, due, sinceNew>>
  <2>1. active' = (active /\ ~Over)
    BY DEF ActivityTick, BlinkTick
  <2>2. active' => active /\ ~Over
    BY <2>1, Zenon
  <2> QED
    BY <2>2 DEF ActivityTick, BlinkTick, Goto, lineVars
<1>2. ASSUME active'
      PROVE  left' = Duration - sinceAct' /\ sinceAct' < Duration + stale'
  BY <1>1, <1>2, DisplayAssumption DEF TimeInv, Over
<1>3. left' \in Int /\ pc' \notin {"work", "blink"}
  BY <1>1 DEF TimeInv
<1>4. ASSUME active'
      PROVE  sinceAct' < Duration + stale' + (IF pc' \in {"work", "blink"} THEN MaxTurn ELSE 0)
  BY <1>1, <1>2, <1>3, <1>4, DisplayAssumption DEF TimeInv
<1>5. /\ stale' \in 0..MaxTurn /\ sinceAct' \in Nat /\ due' \in 0..Interval
      /\ sinceNew' \in Nat /\ due' + sinceNew' >= Interval
  BY <1>1 DEF TimeInv
<1> QED
  BY <1>2, <1>3, <1>4, <1>5 DEF TimeInv

\* The steps of the screen that take no time.
LEMMA ScreenTimeInv ==
  ASSUME TimeInv, (\E t \in Texts : ShowMessage(t)) \/ ShowActivity \/ ScrollTick
  PROVE  TimeInv'
<1>1. CASE \E t \in Texts : ShowMessage(t)
  <2>1. /\ pc' = pc /\ UNCHANGED <<stale, active, left, sinceAct>>
        /\ UNCHANGED <<due, sinceNew>> \/ (due' = Interval /\ sinceNew' = 0)
    BY <1>1 DEF ShowMessage, PrintMsg, blinkVars
  <2> QED
    BY <2>1, DisplayAssumption DEF TimeInv
<1>2. CASE ShowActivity
  BY <1>2, DisplayAssumption DEF ShowActivity, Activate, lineVars, TimeInv
<1>3. CASE ScrollTick
  <2>1. /\ pc = "work" /\ pc' = "blink" /\ UNCHANGED <<stale, active, left, sinceAct, sinceNew>>
        /\ due' = due \/ due' = Interval
    BY <1>3 DEF ScrollTick, Scroll, ScrollNotYet, Goto, blinkVars, lineVars
  <2> QED
    BY <2>1, DisplayAssumption DEF TimeInv
<1> QED
  BY <1>1, <1>2, <1>3

\* Steps that touch neither the clock nor the screen, and the reading of the clock.
LEMMA ElsewhereTimeInv ==
  ASSUME TimeInv, UNCHANGED <<blinkVars, lineVars>>,
         \/ stale' = stale /\ (pc' \in {"work", "blink"} <=> pc \in {"work", "blink"})
         \/ pc = "buttons" /\ stale' = 0 /\ pc' = "work"
  PROVE  TimeInv'
  BY DisplayAssumption DEF blinkVars, lineVars, TimeInv

LEMMA TimeStepInv == TimeInv /\ [Next]_vars => TimeInv'
<1> SUFFICES ASSUME TimeInv, [Next]_vars PROVE TimeInv'
  OBVIOUS
<1>1. CASE (\E t \in Texts : ShowMessage(t)) \/ ShowActivity \/ ScrollTick
  BY <1>1, ScreenTimeInv
<1>2. CASE WorkTakesTime \/ Sleep
  BY <1>2, TickTimeInv DEF WorkTakesTime, Sleep, Goto
<1>3. CASE ActivityTick
  BY <1>3, BlinkTickTimeInv
<1>4. CASE ReadClock
  BY <1>4, ElsewhereTimeInv DEF ReadClock, ReadNow, Goto
<1>5. CASE VoltageMoves \/ SampleNotDue \/ SampleFails \/ TakeSample \/ RedrawBars
  <2>1. UNCHANGED screenVars
    BY <1>5 DEF VoltageMoves, SampleNotDue, SampleFails, TakeSample, RedrawBars
  <2>2. pc \notin {"work", "blink"} /\ pc' \notin {"work", "blink"}
    BY <1>5 DEF VoltageMoves, InputMoves, MenuSetsHysteresis, SampleNotDue, SampleFails, NoSample,
       TakeSample, Sample, RedrawBars, RefreshBars, Goto
  <2> QED
    BY <2>1, <2>2, ElsewhereTimeInv DEF screenVars
<1>6. CASE Flush \/ FlushFails \/ NothingToFlush
  BY <1>6, ElsewhereTimeInv DEF Flush, FlushFails, NothingToFlush, Goto, screenVars
<1>7. CASE UNCHANGED vars
  BY <1>7, ElsewhereTimeInv DEF vars, screenVars
<1> QED
  BY <1>1, <1>2, <1>3, <1>4, <1>5, <1>6, <1>7 DEF Next, Turn

LEMMA TimeAlways == Spec => []TimeInv
  BY TimeInitInv, TimeStepInv, PTL DEF Spec

\* No indicator stays active for longer than its duration and two turns, though
\* its end may be compared with a reading of the clock older than itself.
THEOREM BlinkAlwaysEnds == Spec => []BlinkEnds
<1>1. TimeInv => BlinkEnds
  BY DisplayAssumption DEF TimeInv, BlinkEnds, Longest
<1> QED
  BY <1>1, TimeAlways, PTL

\* None goes out before its duration is over.
THEOREM BlinkAlwaysLasts == Spec => BlinkLastsDuration
<1>1. ASSUME TimeInv, [Next]_vars
      PROVE  [active /\ ~active' => sinceAct >= Duration]_displayVars
  <2>1. CASE ActivityTick
    <3>1. ASSUME active, ~active' PROVE sinceAct >= Duration
      <4>1. active' = (active /\ ~Over)
        BY <2>1 DEF ActivityTick, BlinkTick
      <4>2. Over
        BY <3>1, <4>1, Zenon
      <4> QED
        BY <1>1, <3>1, <4>2, DisplayAssumption DEF TimeInv, Over
    <3> QED
      BY <3>1
  <2>2. CASE ShowActivity
    BY <2>2 DEF ShowActivity, Activate
  <2>3. CASE ~ActivityTick /\ ~ShowActivity
    <3>1. active' = active
      BY <1>1, <2>3 DEF Next, Turn, ShowMessage, PrintMsg, VoltageMoves, WorkTakesTime, Tick, Aged,
         ReadClock, ReadNow, ScrollTick, Scroll, ScrollNotYet, SampleNotDue, SampleFails,
         TakeSample, RedrawBars, Flush, FlushFails, NothingToFlush, Sleep, screenVars, blinkVars,
         vars
    <3> QED
      BY <3>1
  <2> QED
    BY <2>1, <2>2, <2>3
<1> QED
  BY <1>1, TimeAlways, PTL DEF Spec, BlinkLastsDuration

\* A new message is readable from its beginning for a whole interval.
THEOREM MessageAlwaysStartsStill == Spec => StartsStill
<1>1. ASSUME TimeInv, [Next]_vars
      PROVE  [offset = 0 /\ offset' # 0 /\ msg' = msg => sinceNew >= Interval]_displayVars
  <2>1. CASE ScrollTick
    <3>1. CASE Scroll
      BY <1>1, <3>1, DisplayAssumption DEF TimeInv, Scroll
    <3>2. CASE ScrollNotYet
      BY <3>2 DEF ScrollNotYet, lineVars
    <3> QED
      BY <2>1, <3>1, <3>2 DEF ScrollTick
  <2>2. CASE \E t \in Texts : ShowMessage(t)
    BY <2>2 DEF ShowMessage, PrintMsg
  <2>3. CASE ~ScrollTick /\ ~(\E t \in Texts : ShowMessage(t))
    <3>1. offset' = offset
      BY <1>1, <2>3 DEF Next, Turn, ShowActivity, Activate, VoltageMoves, WorkTakesTime, Tick, Aged,
         ReadClock, ReadNow, ActivityTick, BlinkTick, SampleNotDue, SampleFails,
         TakeSample, RedrawBars, Flush, FlushFails, NothingToFlush, Sleep, screenVars, lineVars,
         vars
    <3> QED
      BY <3>1
  <2> QED
    BY <2>1, <2>2, <2>3
<1> QED
  BY <1>1, TimeAlways, PTL DEF Spec, StartsStill
=============================================================================

------------------------------- MODULE CvInput -------------------------------
(***************************************************************************)
(* The control-voltage inputs of app/src/asynth_cv.c: every sample period  *)
(* the channels are read, the ones that moved by the hysteresis since they *)
(* were last sent are sent over OSC, and the bars of the display follow    *)
(* (asynth_cv_sample_and_process, asynth_cv_refresh_bars).                 *)
(*                                                                         *)
(* Channels are counted from 0 in the order of cv_raw_samples; remap gives *)
(* each its place among the bars and its OSC index.  A value is the ADC's  *)
(* raw one: the code's floats are its multiples by 1/MaxRaw, and the two   *)
(* tests made of them, against the hysteresis in thousandths and for the   *)
(* rounding of a bar, are made here in integers.  No multiple of the       *)
(* code's steps meets a rounding of the floats: see README.md.             *)
(*                                                                         *)
(* One turn of the main loop is                                            *)
(*                                                                         *)
(*   cv     a sample if one is due, then                                   *)
(*   bars   the bars redrawn if the sample was taken                       *)
(*   flush  the rest of the turn: here one step, in MainLoop several       *)
(*                                                                         *)
(*   input     the voltage at each channel                                 *)
(*   raw       cv_norm_values                                              *)
(*   prevSent  cv_prev_sent_values, Never before the first                 *)
(*   pixels    cv_pixels                                                   *)
(*   rows      the rows of each bar that are inverted on the display       *)
(*   hyst      cv_hysteresis_norm, in thousandths; the menu changes it     *)
(*                                                                         *)
(* Of the receiver: heard, the last value it was given for each OSC index. *)
(* History: missed, the last report of that index was not taken by the     *)
(* transport; used, the hysteresis of the last sample.                     *)
(***************************************************************************)
EXTENDS LoopTurn, Integers

CONSTANTS
  Channels,     \* 0..3
  Remap,        \* cv_display_remap, a function on Channels
  MaxRaw,       \* CV_ADC_MAX_RAW, 4095
  MaxPixels,    \* CV_BAR_MAX_PIXELS, 28
  Inputs,       \* the raw values each input takes, a function on Channels
  Hysts         \* the hysteresis settings, in thousandths

ASSUME CvAssumption ==
  /\ Remap \in [Channels -> Channels]
  /\ MaxRaw \in Nat \ {0} /\ MaxPixels \in Nat
  /\ Inputs \in [Channels -> SUBSET Int]
  /\ Hysts \subseteq Nat \ {0}

VARIABLES input, raw, prevSent, pixels, rows, hyst, used, heard, missed

voltVars == <<input, raw, prevSent, pixels, rows, hyst, used, heard, missed>>
cvVars == <<pc, voltVars>>

Never == -1

\* cv_validate_remap, without which asynth_cv_init stops the boot.
RemapIsValid ==
  \A i, j \in Channels : Remap[i] = Remap[j] => i = j

\* The ADC can return a value just out of range; cv_raw_to_voltage clamps it.
Clamp(r) == CASE r < 0 -> 0 [] r > MaxRaw -> MaxRaw [] OTHER -> r

\* cv_normalized_to_pixels, rounding to the nearest.
Pixels(r) == (2 * r * MaxPixels + MaxRaw) \div (2 * MaxRaw)

Distance(a, b) == IF a > b THEN a - b ELSE b - a

\* The rows, counted down from the top of the bar, that asynth_cv_refresh_bars
\* inverts for a bar of p pixels: from the top down to the bar.
Area(p) == 0..(MaxPixels - p)

\* Inverting an area twice undoes it.
Toggled(a, b) == (a \ b) \cup (b \ a)

\* The statics, once asynth_cv_init has succeeded.
CvBoot ==
  /\ RemapIsValid
  /\ input \in {v \in [Channels -> UNION {Inputs[i] : i \in Channels}] :
                 \A i \in Channels : v[i] \in Inputs[i]}
  /\ raw = [i \in Channels |-> 0]
  /\ prevSent = [i \in Channels |-> Never]
  /\ pixels = [p \in Channels |-> 0]
  /\ rows = [p \in Channels |-> {}]
  /\ hyst \in Hysts /\ used = hyst
  /\ heard = [p \in Channels |-> Never] /\ missed = [p \in Channels |-> FALSE]

CvInit == pc = "cv" /\ CvBoot

-----------------------------------------------------------------------------
InputMoves(i, v) ==
  /\ pc = "cv"
  /\ input' = [input EXCEPT ![i] = v]
  /\ UNCHANGED <<pc, raw, prevSent, pixels, rows, hyst, used, heard, missed>>

MenuSetsHysteresis ==
  /\ pc = "cv"
  /\ hyst' \in Hysts
  /\ UNCHANGED <<pc, input, raw, prevSent, pixels, rows, used, heard, missed>>

\* The channels whose sample now is far enough from what was last sent.
Moved(now) ==
  {i \in Channels : \/ prevSent[i] = Never
                    \/ Distance(now[i], prevSent[i]) * 1000 >= hyst * MaxRaw}

\* No sample is due, or adc_read failed: the bars are not refreshed either.
NoSample ==
  /\ Goto("cv", "flush")
  /\ UNCHANGED voltVars

\* A slip: what was last sampled is remembered, not what was last sent.
SampleComparesLast ==
  /\ Goto("cv", "bars")
  /\ LET now == [i \in Channels |-> Clamp(input[i])]
     IN /\ raw' = now
        /\ prevSent' = now
        /\ \E taken \in SUBSET {Remap[i] : i \in Moved(now)} :
             /\ heard' = [p \in Channels |->
                            IF p \in taken THEN now[CHOOSE i \in Channels : Remap[i] = p] ELSE heard[p]]
             /\ missed' = [p \in Channels |->
                             IF p \in {Remap[i] : i \in Moved(now)} THEN p \notin taken ELSE missed[p]]
  /\ used' = hyst
  /\ UNCHANGED <<input, pixels, rows, hyst>>

\* asynth_cv_sample_and_process: what is sent counts as sent whether or not
\* the transport takes it.
Sample ==
  /\ Goto("cv", "bars")
  /\ LET now == [i \in Channels |-> Clamp(input[i])]
     IN /\ raw' = now
        /\ prevSent' = [i \in Channels |-> IF i \in Moved(now) THEN now[i] ELSE prevSent[i]]
        /\ \E taken \in SUBSET {Remap[i] : i \in Moved(now)} :
             /\ heard' = [p \in Channels |->
                            IF p \in taken THEN now[CHOOSE i \in Channels : Remap[i] = p] ELSE heard[p]]
             /\ missed' = [p \in Channels |->
                             IF p \in {Remap[i] : i \in Moved(now)} THEN p \notin taken ELSE missed[p]]
  /\ used' = hyst
  /\ UNCHANGED <<input, pixels, rows, hyst>>

\* A slip: the bar is erased with its new height.
RedrawnNewTwice(p, n) ==
  IF n = pixels[p] THEN rows[p]
  ELSE Toggled(rows[p], Area(n))

\* The bar that shows a place now has n pixels; one that does not change is
\* left alone, and so is never drawn at 0.
Redrawn(p, n) ==
  IF n = pixels[p] THEN rows[p]
  ELSE Toggled(Toggled(rows[p], Area(pixels[p])), Area(n))

\* asynth_cv_refresh_bars.
RefreshBars ==
  /\ Goto("bars", "flush")
  /\ LET new == [p \in Channels |-> Pixels(raw[CHOOSE i \in Channels : Remap[i] = p])]
     IN /\ rows' = [p \in Channels |-> Redrawn(p, new[p])]
        /\ pixels' = new
  /\ UNCHANGED <<input, raw, prevSent, hyst, used, heard, missed>>

\* The rest of the turn, which nothing here takes part in.
AfterCv ==
  /\ Goto("flush", "cv")
  /\ UNCHANGED voltVars

CvNext ==
  \/ \E i \in Channels : \E v \in Inputs[i] : InputMoves(i, v)
  \/ MenuSetsHysteresis
  \/ NoSample \/ Sample
  \/ RefreshBars
  \/ AfterCv

CvSpec == CvInit /\ [][CvNext]_cvVars

-----------------------------------------------------------------------------
Raws == 0..MaxRaw

CvTypeOK ==
  /\ pc \in {"cv", "bars", "flush"}
  /\ input \in [Channels -> Int] /\ \A i \in Channels : input[i] \in Inputs[i]
  /\ raw \in [Channels -> Raws]
  /\ prevSent \in [Channels -> Raws \cup {Never}]
  /\ pixels \in [Channels -> 0..MaxPixels]
  /\ rows \in [Channels -> SUBSET (0..MaxPixels)]
  /\ {hyst, used} \subseteq Hysts
  /\ heard \in [Channels -> Raws \cup {Never}]
  /\ missed \in [Channels -> BOOLEAN]

\* The receiver's picture of a control voltage is never off by the hysteresis
\* or more from the last sample, however slowly the input drifts and whatever
\* the menu does to the hysteresis, unless its last report was not taken.
ReceiverWithinHysteresis ==
  pc = "bars" =>
    \A i \in Channels :
      ~missed[Remap[i]] =>
        /\ heard[Remap[i]] # Never
        /\ Distance(heard[Remap[i]], raw[i]) * 1000 < used * MaxRaw

\* Each bar is filled from the bottom to the height of the channel it stands
\* for, although it is only ever drawn by inverting parts of what is there.
BarsShowSamples ==
  pc # "bars" =>
    \A i \in Channels : rows[Remap[i]] = ((MaxPixels - Pixels(raw[i])) + 1)..MaxPixels
=============================================================================

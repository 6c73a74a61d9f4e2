-------------------------- MODULE FrontPanelProofs --------------------------
(***************************************************************************)
(* The panel for every menu, every range of cues, every set of delays and  *)
(* every length of a turn: what its invariants say of it, and that it      *)
(* implements the cue sheet.                                               *)
(***************************************************************************)
EXTENDS FrontPanel, TLAPS

\* A press that is still followed has done nothing yet: every action that has
\* an effect stops following it.
PressInv ==
  /\ effects \in {0, 1}
  /\ tracking => wasPressed /\ effects = 0

\* What is not marked unsaved is in the store.
SavedInv == ~unsaved => cue = stored

\* The stamp that cue_pending_tick compares with the timeout tells when the operator
\* last edited the cue: nothing else renews it.
StampInv == sinceEdit = sinceChange

\* MenuHasNoPending holds up PendingExpires and the display: it is why the
\* timeout of cue_pending_tick may ignore the menu.
PanelInv ==
  /\ TypeOK
  /\ MenuHasNoPending
  /\ PressInv
  /\ SavedInv
  /\ DisplayIsCurrent
  /\ StampInv
  /\ PendingExpires
  /\ ReceiverHasCue

-----------------------------------------------------------------------------
(* The arithmetic stays in its ranges.                                     *)

LEMMA ItemStepInRange ==
  ASSUME NEW i \in Items, NEW n \in {-1, 1}
  PROVE  (i + n) % ItemCount \in Items
  BY PanelAssumption DEF Items

LEMMA OptStepInRange ==
  ASSUME NEW i \in Items, NEW v \in Int, NEW n \in Int
  PROVE  OptStep(i, v, n) \in 0..OptMax[i]
<1>1. OptMax[i] \in Nat /\ OptMax[i] + 1 \in Nat \ {0} /\ v + n \in Int
  BY PanelAssumption
<1> QED
  BY <1>1 DEF OptStep

LEMMA CueStepInRange ==
  ASSUME NEW c \in Cues, NEW n \in Int
  PROVE  CueStep(c, n) \in Cues
<1>1. /\ CueMax \in Nat /\ CueMax + 1 \in Nat \ {0} /\ CueTop \in Nat /\ CueMax <= CueTop
      /\ c \in 0..CueTop /\ c + n \in Int /\ n - 1 \in Int
  BY PanelAssumption DEF Cues
<1>2. \A m \in Int : m % (CueMax + 1) \in 0..CueTop
  BY <1>1
<1>3. c + n > CueMax /\ n <= 0 => c + n \in 0..CueTop
  BY <1>1
<1> QED
  BY <1>1, <1>2, <1>3 DEF CueStep, Cues

\* Less than a detent is left over, whichever way the shaft was turned.
LEMMA LeftOverInRange ==
  ASSUME NEW n \in Int
  PROVE  /\ Detents(n) \in Int
         /\ LeftOver(n) \in (1 - Detent)..(Detent - 1)
<1>1. Detent \in Nat \ {0}
  BY PanelAssumption
<1>2. \A m \in Nat : m \div Detent \in Nat /\ m - Detent * (m \div Detent) \in 0..(Detent - 1)
  BY <1>1
<1>3. CASE n >= 0
  BY <1>1, <1>2, <1>3 DEF Detents, LeftOver
<1>4. CASE n < 0
  <2>1. -n \in Nat
    BY <1>4
  <2> DEFINE q == (-n) \div Detent
  <2>2. q \in Nat /\ -n - Detent * q \in 0..(Detent - 1)
    BY <1>2, <2>1
  <2>3. Detents(n) = -q
    BY <1>4 DEF Detents
  <2> HIDE DEF q
  <2>4. n - Detent * (-q) = -(-n - Detent * q)
    BY <1>1, <2>2
  <2> QED
    BY <1>1, <2>2, <2>3, <2>4 DEF LeftOver
<1> QED
  BY <1>3, <1>4

\* An option put back or set within its range leaves all of them in theirs.
LEMMA OptionsExcept ==
  ASSUME NEW o \in Options, NEW i \in Items, NEW v \in 0..OptMax[i]
  PROVE  [o EXCEPT ![i] = v] \in Options
  BY PanelAssumption DEF Options

\* An option in its range is a number that the display can show.
LEMMA OptionIsNat ==
  ASSUME NEW o \in Options, NEW i \in Items
  PROVE  o[i] \in Nat
  BY PanelAssumption DEF Options

LEMMA AtMostInRange ==
  ASSUME NEW b \in Nat, NEW n \in 0..b, NEW d \in Nat
  PROVE  AtMost(n + d, b) \in 0..b
  BY DEF AtMost

\* A save either puts the cue in the store or leaves it marked unsaved.
LEMMA SaveKeeps ==
  ASSUME NEW c \in Cues, SaveCue(c), stored \in Cues, ready \in BOOLEAN
  PROVE  /\ stored' \in Cues /\ ready' \in BOOLEAN /\ unsaved' \in BOOLEAN
         /\ ~unsaved' => c = stored'
<1>1. PICK ok \in BOOLEAN : /\ stored' = IF ready /\ ok THEN c ELSE stored
                           /\ unsaved' = ~(ready /\ ok)
                           /\ ready' = ready
  BY DEF SaveCue
<1>2. CASE ready /\ ok
  BY <1>1, <1>2
<1>3. CASE ~(ready /\ ok)
  BY <1>1, <1>3
<1> QED
  BY <1>2, <1>3

-----------------------------------------------------------------------------
(* The inductive step, one lemma per group of actions.                     *)

\* Prev and Next.
LEMMA ButtonsInv ==
  ASSUME PanelInv, Left \/ Right
  PROVE  PanelInv'
<1> USE DEF PanelInv
<1>1. ASSUME NEW here \in Pcs, NEW to \in {"leftRecall", "rightRecall"}, NEW n \in {-1, 1},
             StepCue(here, to, n)
      PROVE  PanelInv'
  <2>1. cue' \in Cues /\ cue \in Cues
    BY <1>1, CueStepInRange DEF StepCue, TypeOK, Cues
  <2>2. /\ stored' \in Cues /\ ready' \in BOOLEAN /\ unsaved' \in BOOLEAN
        /\ ~unsaved' => cue' = stored'
    BY <1>1, <2>1, SaveKeeps DEF StepCue, TypeOK
  <2>3. pend' = [pend EXCEPT !.active = FALSE, !.visible = TRUE]
    BY <1>1 DEF StepCue, CancelPending
  <2>4. TypeOK'
    <3>1. pend' \in [active : BOOLEAN, visible : BOOLEAN, value : Cues]
      BY <2>3 DEF TypeOK
    <3>2. pc' \in Pcs /\ number' \in Nat
      BY <1>1, <2>1 DEF StepCue, Goto, Pcs, Cues
    <3> QED
      BY <1>1, <2>1, <2>2, <3>1, <3>2 DEF StepCue, pressVars, recallVars, TypeOK
  <2>5. MenuHasNoPending' /\ DisplayIsCurrent'
    BY <1>1, <2>3 DEF StepCue, TypeOK, MenuHasNoPending, DisplayIsCurrent, NumberIsCurrent,
                      StatusLineIsCurrent
  <2>6. PressInv' /\ SavedInv'
    BY <1>1, <2>2 DEF StepCue, pressVars, PressInv, SavedInv
  <2>7. StampInv' /\ PendingExpires' /\ ReceiverHasCue'
    BY <1>1 DEF StepCue, Goto, StampInv, PendingExpires, ReceiverHasCue
  <2> QED
    BY <2>4, <2>5, <2>6, <2>7
<1>2. ASSUME NEW here \in Pcs, NEW to \in {"right", "rot"}, NEW n \in {-1, 1},
             StepItem(here, to, n), here \in {"left", "right"}
      PROVE  PanelInv'
  <2>1. item' \in Items /\ opt[item'] \in Nat
    BY <1>2, ItemStepInRange, OptionIsNat DEF StepItem, TypeOK
  <2>2. TypeOK'
    BY <1>2, <2>1 DEF StepItem, editVars, pressVars, storeVars, recallVars, Goto, TypeOK, Pcs
  <2>3. MenuHasNoPending' /\ DisplayIsCurrent'
    BY <1>2 DEF StepItem, editVars, MenuHasNoPending, DisplayIsCurrent, NumberIsCurrent,
                StatusLineIsCurrent
  <2>4. PressInv' /\ SavedInv'
    BY <1>2 DEF StepItem, pressVars, storeVars, PressInv, SavedInv
  <2>5. StampInv' /\ PendingExpires' /\ ReceiverHasCue'
    BY <1>2 DEF StepItem, editVars, recallVars, Goto, StampInv, PendingExpires, ReceiverHasCue
  <2> QED
    BY <2>2, <2>3, <2>4, <2>5
<1>3. ASSUME NEW here \in {"left", "right"}, NEW to \in {"right", "rot"}, NoRelease(here, to)
      PROVE  PanelInv'
  BY <1>3 DEF NoRelease, editVars, pressVars, storeVars, recallVars, Goto, TypeOK, Pcs,
     MenuHasNoPending, DisplayIsCurrent, NumberIsCurrent, StatusLineIsCurrent, PressInv, SavedInv,
     StampInv, PendingExpires, ReceiverHasCue
<1> QED
  BY <1>1, <1>2, <1>3 DEF Left, Right, Pcs

\* The three recalls: from here on the receiver has the cue.
LEMMA RecallInv ==
  ASSUME PanelInv, NEW here \in Pcs, NEW to \in {"right", "rot", "delta"}, Recall(here, to)
  PROVE  PanelInv'
<1> USE DEF PanelInv
<1>1. TypeOK'
  BY DEF Recall, editVars, pressVars, storeVars, Goto, TypeOK, Pcs
<1>2. MenuHasNoPending' /\ DisplayIsCurrent' /\ PressInv' /\ SavedInv'
  BY DEF Recall, editVars, pressVars, storeVars, MenuHasNoPending, DisplayIsCurrent,
         NumberIsCurrent, StatusLineIsCurrent, PressInv, SavedInv
<1>3. StampInv' /\ PendingExpires' /\ ReceiverHasCue'
  BY DEF Recall, editVars, Goto, StampInv, PendingExpires, ReceiverHasCue
<1> QED
  BY <1>1, <1>2, <1>3

\* The encoder's button, short of a long press.
LEMMA PressesInv ==
  ASSUME PanelInv,
         \/ RotPressed \/ RotReleasedIdle \/ CommitPending \/ RecallAgain \/ ResetItem
         \/ StillUp \/ StillDown
  PROVE  PanelInv'
<1> USE DEF PanelInv
<1>1. CASE RotPressed \/ RotReleasedIdle \/ StillUp \/ StillDown
  <2>1. /\ UNCHANGED <<mode, item, opt, cue, editVars, accum, number, message>>
        /\ UNCHANGED <<storeVars, recallVars>>
        /\ pc = "rot" /\ pc' = "delta"
    BY <1>1 DEF RotPressed, RotReleasedIdle, StillUp, StillDown, Goto
  <2>2. /\ wasPressed' \in BOOLEAN /\ tracking' \in BOOLEAN /\ held' \in 0..LongPress
        /\ PressInv'
    <3>1. CASE RotPressed
      <4>1. 0 \in 0..LongPress
        BY PanelAssumption
      <4> QED
        BY <3>1, <4>1 DEF RotPressed, PressInv
    <3>2. CASE RotReleasedIdle
      BY <3>2 DEF RotReleasedIdle, Released, PressInv, TypeOK
    <3>3. CASE StillUp \/ StillDown
      BY <3>3 DEF StillUp, StillDown, pressVars, PressInv, TypeOK
    <3> QED
      BY <1>1, <3>1, <3>2, <3>3
  <2>3. effects' \in Nat
    BY <2>2 DEF PressInv
  <2>4. TypeOK'
    BY <2>1, <2>2, <2>3 DEF editVars, storeVars, recallVars, TypeOK, Pcs
  <2> QED
    BY <2>1, <2>2, <2>4 DEF editVars, storeVars, recallVars, MenuHasNoPending, DisplayIsCurrent,
       NumberIsCurrent, StatusLineIsCurrent, SavedInv, StampInv, PendingExpires, ReceiverHasCue
<1>2. CASE CommitPending
  <2>1. cue' \in Cues /\ number' = cue' /\ mode' = mode /\ mode = "normal"
    BY <1>2 DEF CommitPending, TypeOK
  <2>2. /\ stored' \in Cues /\ ready' \in BOOLEAN /\ unsaved' \in BOOLEAN
        /\ ~unsaved' => cue' = stored'
    BY <1>2, <2>1, SaveKeeps DEF CommitPending, TypeOK
  <2>3. pend' = [pend EXCEPT !.active = FALSE, !.visible = TRUE]
    BY <1>2 DEF CommitPending, CancelPending
  <2>4. PressInv' /\ wasPressed' = FALSE /\ tracking' = FALSE /\ held' = held
    BY <1>2 DEF CommitPending, Released, PressInv
  <2>5. TypeOK'
    <3>1. pend' \in [active : BOOLEAN, visible : BOOLEAN, value : Cues]
      BY <2>3 DEF TypeOK
    <3>2. pc' \in Pcs /\ number' \in Nat /\ effects' \in Nat
      BY <1>2, <2>1, <2>4 DEF CommitPending, Goto, Pcs, Cues, PressInv
    <3> QED
      BY <1>2, <2>1, <2>2, <2>4, <3>1, <3>2 DEF CommitPending, recallVars, TypeOK
  <2>6. MenuHasNoPending' /\ DisplayIsCurrent'
    BY <1>2, <2>1, <2>3 DEF CommitPending, TypeOK, MenuHasNoPending, DisplayIsCurrent,
                            NumberIsCurrent, StatusLineIsCurrent
  <2>7. SavedInv' /\ StampInv' /\ PendingExpires' /\ ReceiverHasCue'
    BY <1>2, <2>2 DEF CommitPending, Goto, SavedInv, StampInv, PendingExpires, ReceiverHasCue
  <2> QED
    BY <2>4, <2>5, <2>6, <2>7
<1>3. CASE RecallAgain
  <2>1. /\ UNCHANGED <<mode, item, opt, cue, editVars, accum, number, message>>
        /\ UNCHANGED <<storeVars, recallVars>>
        /\ pc' = "rotRecall"
    BY <1>3 DEF RecallAgain, Goto
  <2>2. PressInv' /\ wasPressed' = FALSE /\ tracking' = FALSE /\ held' = held
    BY <1>3 DEF RecallAgain, Released, PressInv
  <2>3. effects' \in Nat
    BY <2>2 DEF PressInv
  <2>4. TypeOK'
    BY <2>1, <2>2, <2>3 DEF editVars, storeVars, recallVars, TypeOK, Pcs
  <2> QED
    BY <2>1, <2>2, <2>4 DEF editVars, storeVars, recallVars, MenuHasNoPending, DisplayIsCurrent,
       NumberIsCurrent, StatusLineIsCurrent, SavedInv, StampInv, PendingExpires, ReceiverHasCue
<1>4. CASE ResetItem
  <2>1. /\ UNCHANGED <<mode, item, cue, editVars, accum, storeVars, recallVars>>
        /\ mode = "menu" /\ pc = "rot" /\ pc' = "delta"
        /\ opt' = [opt EXCEPT ![item] = OptDefault[item]]
        /\ number' = opt'[item] /\ message' = Label(item)
    BY <1>4 DEF ResetItem, Goto
  <2>2. opt' \in Options
    <3>1. OptDefault[item] \in 0..OptMax[item]
      BY PanelAssumption DEF TypeOK
    <3> QED
      BY <2>1, <3>1, OptionsExcept DEF TypeOK
  <2>3. number' \in Nat
    BY <2>1, <2>2, OptionIsNat DEF TypeOK
  <2>4. PressInv' /\ wasPressed' = FALSE /\ tracking' = FALSE /\ held' = held
    BY <1>4 DEF ResetItem, Released, PressInv
  <2>5. effects' \in Nat
    BY <2>4 DEF PressInv
  <2>6. TypeOK'
    BY <2>1, <2>2, <2>3, <2>4, <2>5 DEF editVars, storeVars, recallVars, TypeOK, Pcs
  <2> QED
    BY <2>1, <2>4, <2>6 DEF editVars, storeVars, recallVars, MenuHasNoPending, DisplayIsCurrent,
       NumberIsCurrent, StatusLineIsCurrent, SavedInv, StampInv, PendingExpires, ReceiverHasCue
<1> QED
  BY <1>1, <1>2, <1>3, <1>4

\* A long press switches the mode.  Going in, the pending edit is dropped;
\* coming out, there is none.
LEMMA LongPressInv ==
  ASSUME PanelInv, EnterMenu \/ ExitMenu
  PROVE  PanelInv'
<1> USE DEF PanelInv
<1>1. /\ PressInv' /\ tracking' = FALSE /\ UNCHANGED <<wasPressed, held>>
      /\ accum' = 0 /\ pc' = "rx" /\ pc = "rot"
      /\ UNCHANGED <<opt, cue, sinceChange, sinceBlink, sinceEdit, storeVars, recallVars>>
  BY DEF EnterMenu, ExitMenu, LongHold, Goto, PressInv, editVars
<1>2. effects' \in Nat /\ 0 \in (1 - Detent)..(Detent - 1)
  BY <1>1, PanelAssumption DEF PressInv
<1>3. CASE EnterMenu
  <2>1. /\ mode' = "menu" /\ item' = EntryItem /\ EntryItem \in Items
        /\ number' = opt[EntryItem] /\ message' = Label(EntryItem)
        /\ pend' = [pend EXCEPT !.active = FALSE, !.visible = TRUE]
    BY <1>3, PanelAssumption DEF EnterMenu, CancelPending
  <2>2. pend' \in [active : BOOLEAN, visible : BOOLEAN, value : Cues]
    BY <2>1 DEF TypeOK
  <2>3. number' \in Nat
    BY <2>1, OptionIsNat DEF TypeOK
  <2>4. TypeOK'
    BY <1>1, <1>2, <2>1, <2>2, <2>3 DEF storeVars, recallVars, TypeOK, Pcs
  <2>5. MenuHasNoPending' /\ DisplayIsCurrent'
    BY <1>1, <2>1 DEF TypeOK, MenuHasNoPending, DisplayIsCurrent, NumberIsCurrent,
                      StatusLineIsCurrent
  <2> QED
    BY <1>1, <2>4, <2>5 DEF storeVars, recallVars, SavedInv, StampInv, PendingExpires, ReceiverHasCue
<1>4. CASE ExitMenu
  <2>1. /\ mode = "menu" /\ mode' = "normal" /\ item' = item
        /\ number' = cue /\ message' = Cleared /\ pend' = pend
    BY <1>4 DEF ExitMenu, editVars
  <2>2. TypeOK'
    <3>1. number' \in Nat
      BY <2>1, PanelAssumption DEF TypeOK, Cues
    <3> QED
      BY <1>1, <1>2, <2>1, <3>1 DEF storeVars, recallVars, TypeOK, Pcs
  <2>3. MenuHasNoPending' /\ DisplayIsCurrent'
    BY <1>1, <2>1 DEF MenuHasNoPending, DisplayIsCurrent, NumberIsCurrent, StatusLineIsCurrent
  <2> QED
    BY <1>1, <2>2, <2>3 DEF storeVars, recallVars, SavedInv, StampInv, PendingExpires, ReceiverHasCue
<1> QED
  BY <1>3, <1>4

\* The encoder's turns edit the option or the pending cue, whichever the mode
\* has, and show what they edit.
LEMMA DeltaInv ==
  ASSUME PanelInv, NEW d \in -DeltaMax..DeltaMax,
         GatherOnly(d) \/ EditOption(d) \/ EditPending(d)
  PROVE  PanelInv'
<1> USE DEF PanelInv
<1> DEFINE n == Detents(accum + d)
<1>1. accum + d \in Int
  BY PanelAssumption DEF TypeOK
<1>2. n \in Int /\ LeftOver(accum + d) \in (1 - Detent)..(Detent - 1)
  <2>1. \A k \in Int : Detents(k) \in Int /\ LeftOver(k) \in (1 - Detent)..(Detent - 1)
    BY LeftOverInRange
  <2> QED
    BY <1>1, <2>1, Zenon
<1>3. accum' = LeftOver(accum + d) /\ pc = "delta" /\ pc' = "rx"
  BY DEF GatherOnly, EditOption, EditPending, Gather, Goto
<1>4. accum' \in (1 - Detent)..(Detent - 1)
  BY <1>2, <1>3
<1>5. UNCHANGED <<mode, item, cue, pressVars, storeVars, recallVars>>
  BY DEF GatherOnly, EditOption, EditPending
<1>6. PressInv' /\ SavedInv' /\ StampInv' /\ PendingExpires' /\ ReceiverHasCue'
  <2>1. PressInv' /\ SavedInv' /\ PendingExpires' /\ ReceiverHasCue'
    BY <1>3, <1>5 DEF pressVars, storeVars, recallVars, PressInv, SavedInv, PendingExpires,
                      ReceiverHasCue
  <2>2. StampInv'
    BY DEF GatherOnly, EditOption, EditPending, editVars, StampInv
  <2> QED
    BY <2>1, <2>2
<1> HIDE DEF n
<1>7. CASE GatherOnly(d)
  <2>1. UNCHANGED <<opt, editVars, number, message>>
    BY <1>7 DEF GatherOnly
  <2> QED
    BY <1>3, <1>4, <1>5, <1>6, <2>1 DEF editVars, pressVars, storeVars, recallVars, TypeOK,
       Pcs, MenuHasNoPending, DisplayIsCurrent, NumberIsCurrent, StatusLineIsCurrent
<1>8. CASE EditOption(d)
  <2>1. /\ mode = "menu" /\ UNCHANGED editVars
        /\ opt' = [opt EXCEPT ![item] = OptStep(item, opt[item], n)]
        /\ number' = opt'[item] /\ message' = Label(item)
    BY <1>8 DEF EditOption, n
  <2>2. opt[item] \in Nat
    BY OptionIsNat DEF TypeOK
  <2>3. opt' \in Options
    <3>1. OptStep(item, opt[item], n) \in 0..OptMax[item]
      BY <1>2, <2>2, OptStepInRange DEF TypeOK
    <3> QED
      BY <2>1, <3>1, OptionsExcept DEF TypeOK
  <2>4. number' \in Nat
    BY <2>1, <2>3, OptionIsNat DEF TypeOK
  <2> QED
    BY <1>3, <1>4, <1>5, <1>6, <2>1, <2>3, <2>4 DEF editVars, pressVars, storeVars,
       recallVars, TypeOK, Pcs, MenuHasNoPending, DisplayIsCurrent, NumberIsCurrent,
       StatusLineIsCurrent
<1>9. CASE EditPending(d)
  <2> DEFINE from == IF pend.active THEN pend.value ELSE cue
  <2>1. /\ mode = "normal" /\ UNCHANGED <<opt, message>>
        /\ pend' = [active |-> TRUE, visible |-> TRUE, value |-> CueStep(from, n)]
        /\ number' = pend'.value
        /\ sinceChange' = 0 /\ sinceBlink' = 0 /\ sinceEdit' = 0
    BY <1>9 DEF EditPending, n
  <2>2. from \in Cues
    BY DEF TypeOK
  <2>3. CueStep(from, n) \in Cues
    BY <1>2, <2>2, CueStepInRange
  <2> HIDE DEF from
  <2>4. /\ pend' \in [active : BOOLEAN, visible : BOOLEAN, value : Cues]
        /\ number' \in Nat
    BY <2>1, <2>3, PanelAssumption DEF Cues
  <2>5. 0 \in 0..PendingTimeout /\ 0 \in 0..BlinkInterval
    BY PanelAssumption
  <2>6. MenuHasNoPending' /\ DisplayIsCurrent'
    BY <1>5, <2>1 DEF MenuHasNoPending, DisplayIsCurrent, NumberIsCurrent, StatusLineIsCurrent
  <2>7. TypeOK'
    BY <1>3, <1>4, <1>5, <2>1, <2>4, <2>5 DEF pressVars, storeVars, recallVars, TypeOK, Pcs
  <2> QED
    BY <1>6, <2>6, <2>7
<1> QED
  BY <1>7, <1>8, <1>9

\* A remote message, the tick of the pending edit and the end of the turn.
LEMMA RestOfTurnInv ==
  ASSUME PanelInv, Rx \/ TickIdle \/ TickExpire \/ TickBlink \/ Sleep
  PROVE  PanelInv'
<1> USE DEF PanelInv
<1>1. CASE Rx
  BY <1>1 DEF Rx, editVars, pressVars, storeVars, recallVars, Goto, TypeOK, Pcs,
     MenuHasNoPending, DisplayIsCurrent, NumberIsCurrent, StatusLineIsCurrent, PressInv, SavedInv,
     StampInv, PendingExpires, ReceiverHasCue
<1>2. CASE TickIdle
  <2>1. StampInv' /\ PendingExpires'
    BY <1>2 DEF TickIdle, Idle, editVars, TypeOK, MenuHasNoPending, StampInv, PendingExpires
  <2> QED
    BY <1>2, <2>1 DEF TickIdle, editVars, pressVars, storeVars, recallVars, Goto, TypeOK, Pcs,
       MenuHasNoPending, DisplayIsCurrent, NumberIsCurrent, StatusLineIsCurrent, PressInv, SavedInv,
       ReceiverHasCue
<1>3. CASE TickExpire \/ TickBlink
  <2>1. /\ UNCHANGED <<mode, item, opt, cue, sinceChange, sinceEdit, pressVars, accum, message>>
        /\ UNCHANGED <<storeVars, recallVars>>
        /\ pc = "tick" /\ pc' = "sleep" /\ pend.active /\ mode = "normal"
    BY <1>3 DEF TickExpire, TickBlink, Idle, Goto, TypeOK
  <2>2. CASE TickExpire
    <3>1. /\ pend' = [pend EXCEPT !.active = FALSE, !.visible = TRUE]
          /\ number' = cue /\ sinceBlink' = sinceBlink
      BY <2>2 DEF TickExpire, CancelPending
    <3>2. pend' \in [active : BOOLEAN, visible : BOOLEAN, value : Cues] /\ number' \in Nat
      <4>1. pend' \in [active : BOOLEAN, visible : BOOLEAN, value : Cues]
        BY <3>1 DEF TypeOK
      <4>2. number' \in Nat
        BY <3>1, PanelAssumption DEF TypeOK, Cues
      <4> QED
        BY <4>1, <4>2
    <3>3. MenuHasNoPending' /\ DisplayIsCurrent' /\ StampInv' /\ PendingExpires'
      BY <2>1, <3>1 DEF TypeOK, MenuHasNoPending, DisplayIsCurrent, NumberIsCurrent,
                        StatusLineIsCurrent, StampInv, PendingExpires
    <3> QED
      BY <2>1, <3>1, <3>2, <3>3 DEF pressVars, storeVars, recallVars, TypeOK, Pcs, PressInv,
         SavedInv, ReceiverHasCue
  <2>3. CASE TickBlink
    <3>1. /\ pend' = [pend EXCEPT !.visible = ~pend.visible]
          /\ sinceBlink' = 0 /\ sinceChange < PendingTimeout
          /\ number' = IF pend'.visible THEN pend.value ELSE Blank
      BY <2>3 DEF TickBlink
    <3>2. /\ pend' \in [active : BOOLEAN, visible : BOOLEAN, value : Cues]
          /\ number' \in Nat \cup {Blank}
      <4>1. (~pend.visible) \in BOOLEAN /\ pend.value \in Cues
        BY DEF TypeOK
      <4>2. pend' \in [active : BOOLEAN, visible : BOOLEAN, value : Cues]
        BY <3>1, <4>1 DEF TypeOK
      <4>3. number' \in Nat \cup {Blank}
        BY <3>1, <4>1, PanelAssumption DEF Cues
      <4> QED
        BY <4>2, <4>3
    <3>3. 0 \in 0..BlinkInterval /\ 0 < BlinkInterval
      BY PanelAssumption
    <3>4. pend'.active /\ pend'.value = pend.value
      BY <2>1, <3>1 DEF TypeOK
    <3>5. MenuHasNoPending' /\ DisplayIsCurrent' /\ StampInv' /\ PendingExpires'
      BY <2>1, <3>1, <3>3, <3>4 DEF MenuHasNoPending, DisplayIsCurrent, NumberIsCurrent,
                                    StatusLineIsCurrent, StampInv, PendingExpires
    <3> QED
      BY <2>1, <3>1, <3>2, <3>3, <3>5 DEF pressVars, storeVars, recallVars, TypeOK, Pcs,
         PressInv, SavedInv, ReceiverHasCue
  <2> QED
    BY <1>3, <2>2, <2>3
<1>4. CASE Sleep
  <2>1. PICK d \in 1..MaxSleep :
           /\ sinceChange' = AtMost(sinceChange + d, PendingTimeout)
           /\ sinceBlink' = AtMost(sinceBlink + d, BlinkInterval)
           /\ sinceEdit' = AtMost(sinceEdit + d, PendingTimeout)
           /\ held' = AtMost(held + d, LongPress)
    BY <1>4 DEF Sleep
  <2>2. /\ sinceChange' \in 0..PendingTimeout /\ sinceBlink' \in 0..BlinkInterval
        /\ held' \in 0..LongPress /\ sinceEdit' \in 0..PendingTimeout
        /\ sinceEdit' = sinceChange'
    <3>1. d \in Nat /\ PendingTimeout \in Nat /\ BlinkInterval \in Nat /\ LongPress \in Nat
      BY PanelAssumption
    <3>2. /\ sinceChange \in 0..PendingTimeout /\ sinceBlink \in 0..BlinkInterval
          /\ held \in 0..LongPress /\ sinceEdit = sinceChange
      BY DEF TypeOK, StampInv
    <3> QED
      BY <2>1, <3>1, <3>2, AtMostInRange
  <2> QED
    BY <1>4, <2>2 DEF Sleep, storeVars, recallVars, Goto, TypeOK, Pcs, MenuHasNoPending,
       DisplayIsCurrent, NumberIsCurrent, StatusLineIsCurrent, PressInv, SavedInv, StampInv, PendingExpires,
       ReceiverHasCue
<1> QED
  BY <1>1, <1>2, <1>3, <1>4

-----------------------------------------------------------------------------
\* The state that the panel comes up in, at power-up and after a power cycle.
Booted ==
  /\ pc = "left"
  /\ stored \in Cues /\ ready \in BOOLEAN /\ unsaved = ~ready
  /\ cue \in CueAtBoot(ready, stored)
  /\ mode = "normal" /\ item = 0 /\ opt \in Options
  /\ pend = NoPending /\ sinceChange = 0 /\ sinceBlink = 0 /\ sinceEdit = 0
  /\ held = 0 /\ wasPressed = FALSE /\ tracking = FALSE /\ effects = 0
  /\ accum = 0
  /\ number = cue /\ message = Cleared
  /\ recalled \in Cues \cup {NoCue} /\ synced = FALSE

\* Whatever the store held, the panel comes up consistent.
LEMMA BootInv == Booted => PanelInv
<1> SUFFICES ASSUME Booted PROVE PanelInv
  OBVIOUS
<1> USE DEF Booted
<1>1. cue \in Cues /\ 0 \in Cues /\ number \in Nat /\ 0 \in Items
  BY PanelAssumption DEF CueAtBoot, Cues, Items
<1>2. /\ 0 \in 0..PendingTimeout /\ 0 \in 0..BlinkInterval /\ 0 \in 0..LongPress
      /\ 0 \in (1 - Detent)..(Detent - 1)
  BY PanelAssumption
<1>3. pend \in [active : BOOLEAN, visible : BOOLEAN, value : Cues] /\ ~pend.active
  BY <1>1 DEF NoPending
<1>4. unsaved \in BOOLEAN
  BY Zenon
<1>5. TypeOK
  BY <1>1, <1>2, <1>3, <1>4 DEF TypeOK, Pcs
<1>6. ~unsaved => cue = stored
  BY DEF CueAtBoot
<1> QED
  BY <1>3, <1>5, <1>6 DEF PanelInv, MenuHasNoPending, PressInv, SavedInv, DisplayIsCurrent,
     NumberIsCurrent, StatusLineIsCurrent, StampInv, PendingExpires, ReceiverHasCue

LEMMA PanelInitInv == Init => PanelInv
<1>1. Init => Booted
  BY DEF Init, Booted
<1> QED
  BY <1>1, BootInv

LEMMA PanelStepInv == PanelInv /\ [Next]_vars => PanelInv'
<1> SUFFICES ASSUME PanelInv, [Next]_vars PROVE PanelInv'
  OBVIOUS
<1>1. CASE PowerCycle
  <2>1. Booted'
    BY <1>1 DEF PowerCycle, Booted, PanelInv, TypeOK
  <2> QED
    BY <2>1, BootInv, PTL
<1>2. CASE Rot
  BY <1>2, PressesInv, LongPressInv DEF Rot
<1>3. CASE Delta
  BY <1>3, DeltaInv DEF Delta
<1>4. CASE Recall("leftRecall", "right") \/ Recall("rightRecall", "rot")
           \/ Recall("rotRecall", "delta")
  BY <1>4, RecallInv DEF Pcs
<1>5. CASE UNCHANGED vars
  BY <1>5 DEF vars, editVars, pressVars, storeVars, recallVars, PanelInv, TypeOK,
     MenuHasNoPending, DisplayIsCurrent, NumberIsCurrent, StatusLineIsCurrent, PressInv, SavedInv,
     StampInv, PendingExpires, ReceiverHasCue
<1> QED
  BY <1>1, <1>2, <1>3, <1>4, <1>5, ButtonsInv, RestOfTurnInv DEF Next, Loop

-----------------------------------------------------------------------------
\* The panel's statics keep their ranges; in particular the step accumulator
\* never holds a whole detent.
THEOREM PanelTypeCorrect == Spec => []TypeOK
<1>1. PanelInv => TypeOK
  BY DEF PanelInv
<1> QED
  BY <1>1, PanelInitInv, PanelStepInv, PTL DEF Spec

\* No cue edit is pending in the menu, however the mode is switched.
THEOREM MenuNeverHasPending == Spec => []MenuHasNoPending
<1>1. PanelInv => MenuHasNoPending
  BY DEF PanelInv
<1> QED
  BY <1>1, PanelInitInv, PanelStepInv, PTL DEF Spec

\* What the display shows is what the next turn or press acts on.
THEOREM DisplayAlwaysCurrent == Spec => []DisplayIsCurrent
<1>1. PanelInv => DisplayIsCurrent
  BY DEF PanelInv
<1> QED
  BY <1>1, PanelInitInv, PanelStepInv, PTL DEF Spec

\* One press of the encoder, one effect.
THEOREM PressAlwaysActsOnce == Spec => []PressActsOnce
<1>1. PanelInv => PressActsOnce
  BY DEF PanelInv, PressInv, PressActsOnce
<1> QED
  BY <1>1, PanelInitInv, PanelStepInv, PTL DEF Spec

\* No draft of the cue outlives the operator's last edit of it by more than the
\* timeout, however often it has blinked since.
THEOREM PendingAlwaysExpires == Spec => []PendingExpires
<1>1. PanelInv => PendingExpires
  BY DEF PanelInv
<1> QED
  BY <1>1, PanelInitInv, PanelStepInv, PTL DEF Spec

\* The receiver has the panel's cue from the first recall after boot on.
THEOREM ReceiverAlwaysHasCue == Spec => []ReceiverHasCue
<1>1. PanelInv => ReceiverHasCue
  BY DEF PanelInv
<1> QED
  BY <1>1, PanelInitInv, PanelStepInv, PTL DEF Spec

\* A cue that was saved is recalled only from the store's own value.
THEOREM RecallsSavedCue == Spec => RecallAfterSave
<1>1. ASSUME PanelInv, [Next]_vars
      PROVE  [recalled' # recalled /\ ~unsaved => recalled' = stored]_vars
  <2>1. cue = stored \/ unsaved
    BY <1>1 DEF PanelInv, SavedInv
  <2>2. UNCHANGED recalled \/ recalled' = cue
    <3>1. CASE Left \/ Right
      BY <3>1 DEF Left, Right, StepCue, StepItem, NoRelease, recallVars
    <3>2. CASE Rot
      BY <3>2 DEF Rot, RotPressed, RotReleasedIdle, CommitPending, RecallAgain, ResetItem,
         StillUp, StillDown, EnterMenu, ExitMenu, recallVars
    <3>3. CASE Delta
      BY <3>3 DEF Delta, GatherOnly, EditOption, EditPending, recallVars
    <3>4. CASE Rx \/ TickIdle \/ TickExpire \/ TickBlink \/ Sleep \/ PowerCycle
      BY <3>4 DEF Rx, TickIdle, TickExpire, TickBlink, Sleep, PowerCycle, recallVars
    <3>5. CASE UNCHANGED vars
      BY <3>5 DEF vars, recallVars
    <3> QED
      BY <1>1, <3>1, <3>2, <3>3, <3>4, <3>5 DEF Next, Loop, Recall
  <2> QED
    BY <2>1, <2>2
<1> QED
  BY <1>1, PanelInitInv, PanelStepInv, PTL DEF Spec, RecallAfterSave

-----------------------------------------------------------------------------
(* The panel implements CueSheet: the state it comes up in is one of the   *)
(* sheet's initial states, and each of its steps is a step of the sheet or *)
(* leaves the sheet as it is.                                              *)

\* The values that the refinement mapping gives to the sheet's variables draft,
\* owed and menu.
Draft == IF pend.active THEN pend.value ELSE -1
Owed  == pc \in {"leftRecall", "rightRecall", "rotRecall"}
Menu  == mode = "menu"

\* A draft can always be told from none.
LEMMA DraftOfEdit ==
  ASSUME TypeOK
  PROVE  /\ pend.active <=> Draft # -1
         /\ pend.active => Draft = pend.value /\ Draft \in Cues
  BY PanelAssumption DEF TypeOK, Draft, Cues

\* A save is one of the two outcomes that Adopt knows.
LEMMA SaveIsAdopted ==
  ASSUME NEW c \in Cues, SaveCue(c)
  PROVE  \/ stored' = c /\ ~unsaved'
         \/ stored' = stored /\ unsaved'
<1>1. PICK ok \in BOOLEAN : /\ stored' = IF ready /\ ok THEN c ELSE stored
                            /\ unsaved' = ~(ready /\ ok)
  BY DEF SaveCue
<1>2. CASE ready /\ ok
  BY <1>1, <1>2
<1>3. CASE ~(ready /\ ok)
  BY <1>1, <1>3
<1> QED
  BY <1>2, <1>3

\* A power cycle, and power coming on for the first time.
LEMMA BootedSheet ==
  ASSUME NEW s \in Cues, NEW r \in BOOLEAN, NEW u, NEW c, u = ~r, c \in CueAtBoot(r, s)
  PROVE  u \in BOOLEAN /\ (c = s \/ (u /\ c = 0))
<1>1. CASE r
  BY <1>1 DEF CueAtBoot
<1>2. CASE ~r
  BY <1>2 DEF CueAtBoot
<1> QED
  BY <1>1, <1>2

LEMMA InitRefines == Init => Sheet!SheetInit
<1> SUFFICES ASSUME Init PROVE Sheet!SheetInit
  OBVIOUS
<1>1. stored \in Cues /\ unsaved \in BOOLEAN /\ (cue = stored \/ (unsaved /\ cue = 0))
  BY BootedSheet DEF Init
<1>2. Draft = -1 /\ ~Owed /\ ~Menu /\ recalled = NoCue
  BY DEF Init, NoPending, Draft, Owed, Menu
<1> QED
  BY <1>1, <1>2 DEF Sheet!SheetInit, Sheet!Cues, Cues, Sheet!NoDraft, Draft, Owed, Menu

-----------------------------------------------------------------------------
(* The steps that move the cue or the draft.                               *)

\* One step up or down.
LEMMA OneStep ==
  ASSUME NEW c \in Cues, NEW n \in {-1, 1}
  PROVE  CueStep(c, n) = IF n = 1 THEN IF c >= CueMax THEN 0 ELSE c + 1
                                  ELSE IF c = 0 THEN CueMax ELSE c - 1
<1>1. CueMax \in Nat /\ c \in Nat
  BY PanelAssumption DEF Cues
<1>2. /\ \A m \in 0..CueMax : m % (CueMax + 1) = m
      /\ (CueMax + 1) % (CueMax + 1) = 0 /\ (-1) % (CueMax + 1) = CueMax
  BY <1>1
<1>3. CASE n = 1
  BY <1>1, <1>2, <1>3 DEF CueStep
<1>4. CASE n = -1
  BY <1>1, <1>2, <1>4 DEF CueStep
<1> QED
  BY <1>3, <1>4

\* Prev and Next adopt the cue next to the current one.
LEMMA StepCueAdopts ==
  ASSUME TypeOK, NEW here \in {"left", "right"}, NEW to \in {"leftRecall", "rightRecall"},
         NEW n \in {-1, 1}, StepCue(here, to, n)
  PROVE  Sheet!StepUp \/ Sheet!StepDown
<1>1. cue' = CueStep(cue, n) /\ cue' \in Cues
  <2>1. cue \in Cues /\ n \in Int
    BY DEF TypeOK
  <2>2. CueStep(cue, n) \in Cues
    BY <2>1, CueStepInRange
  <2> QED
    BY <2>2 DEF StepCue
<1>2. \/ stored' = cue' /\ ~unsaved'
      \/ stored' = stored /\ unsaved'
  BY <1>1, SaveIsAdopted DEF StepCue
<1>3. ~Owed /\ Owed' /\ ~Menu /\ ~Menu'
  BY DEF StepCue, Goto, Owed, Menu
<1>4. Draft' = -1
  BY DEF StepCue, CancelPending, TypeOK, Draft
<1>5. recalled' = recalled
  BY DEF StepCue, recallVars
<1>6. \/ CueStep(cue, n) = IF cue >= CueMax THEN 0 ELSE cue + 1
      \/ CueStep(cue, n) = IF cue = 0 THEN CueMax ELSE cue - 1
  BY OneStep DEF TypeOK
<1> QED
  BY <1>1, <1>2, <1>3, <1>4, <1>5, <1>6
     DEF Sheet!StepUp, Sheet!StepDown, Sheet!Adopt, Sheet!NoDraft, Draft, Owed, Menu

\* A short press adopts the pending value.
LEMMA CommitAdopts ==
  ASSUME TypeOK, CommitPending
  PROVE  Sheet!Commit
<1>1. pend.active /\ Draft # -1 /\ cue' = Draft /\ cue' \in Cues
  BY DraftOfEdit DEF CommitPending
<1>2. \/ stored' = cue' /\ ~unsaved'
      \/ stored' = stored /\ unsaved'
  BY <1>1, SaveIsAdopted DEF CommitPending
<1>3. ~Owed /\ Owed' /\ ~Menu /\ ~Menu'
  BY DEF CommitPending, Goto, Owed, Menu
<1>4. Draft' = -1
  BY DEF CommitPending, CancelPending, TypeOK, Draft
<1>5. recalled' = recalled
  BY DEF CommitPending, recallVars
<1> QED
  BY <1>1, <1>2, <1>3, <1>4, <1>5
     DEF Sheet!Commit, Sheet!Adopt, Sheet!NoDraft, Draft, Owed, Menu

\* A short press with nothing pending asks for the cue to be sent again.
LEMMA RecallAgainAsks ==
  ASSUME TypeOK, RecallAgain
  PROVE  Sheet!AskAgain
<1>1. Draft = -1 /\ Draft' = Draft
  BY DraftOfEdit DEF RecallAgain, editVars, Draft
<1>2. ~Owed /\ Owed' /\ ~Menu /\ ~Menu'
  BY DEF RecallAgain, Goto, Owed, Menu
<1>3. UNCHANGED <<cue, stored, unsaved, recalled>>
  BY DEF RecallAgain, storeVars, recallVars
<1> QED
  BY <1>1, <1>2, <1>3 DEF Sheet!AskAgain, Sheet!NoDraft, Draft, Owed, Menu

\* Whole detents in normal mode set up a draft.
LEMMA EditSetsUp ==
  ASSUME TypeOK, NEW d \in -DeltaMax..DeltaMax, EditPending(d)
  PROVE  \E c \in Sheet!Cues : Sheet!SetUp(c)
<1> DEFINE from == IF pend.active THEN pend.value ELSE cue
           n    == Detents(accum + d)
<1>1. n \in Int
  <2>1. accum + d \in Int
    BY PanelAssumption DEF TypeOK
  <2>2. \A k \in Int : Detents(k) \in Int
    BY LeftOverInRange
  <2> QED
    BY <2>1, <2>2, Zenon
<1>2. CueStep(from, n) \in Cues
  <2>1. from \in Cues
    BY DEF TypeOK
  <2> HIDE DEF from, n
  <2> QED
    BY <1>1, <2>1, CueStepInRange
<1>3. Draft' = CueStep(from, n)
  BY DEF EditPending, Draft
<1>4. ~Owed /\ ~Owed' /\ ~Menu /\ ~Menu'
  BY DEF EditPending, Goto, Owed, Menu
<1>5. UNCHANGED <<cue, stored, unsaved, recalled>>
  BY DEF EditPending, storeVars, recallVars
<1> HIDE DEF from, n
<1>6. CueStep(from, n) \in Sheet!Cues
  BY <1>2 DEF Cues, Sheet!Cues
<1>7. Sheet!SetUp(CueStep(from, n))
  BY <1>3, <1>4, <1>5 DEF Sheet!SetUp, Draft, Owed, Menu
<1> QED
  BY <1>6, <1>7

\* The timeout of the edit gives it up.
LEMMA ExpiryGivesUp ==
  ASSUME TypeOK, TickExpire
  PROVE  Sheet!GiveUp
<1>1. Draft' = -1
  BY DEF TickExpire, CancelPending, TypeOK, Draft
<1>2. ~Owed /\ ~Owed' /\ Menu' = Menu
  BY DEF TickExpire, Goto, Owed, Menu
<1>3. UNCHANGED <<cue, stored, unsaved, recalled>>
  BY DEF TickExpire, storeVars, recallVars
<1> QED
  BY <1>1, <1>2, <1>3 DEF Sheet!GiveUp, Sheet!NoDraft, Draft, Owed, Menu

\* The three recalls send what is owed.
LEMMA RecallSends ==
  ASSUME NEW here \in {"leftRecall", "rightRecall", "rotRecall"},
         NEW to \in {"right", "rot", "delta"}, Recall(here, to)
  PROVE  Sheet!Send
<1>1. Owed /\ ~Owed' /\ Menu' = Menu /\ Draft' = Draft
  BY DEF Recall, Goto, editVars, Owed, Menu, Draft
<1>2. recalled' = cue /\ UNCHANGED <<cue, stored, unsaved>>
  BY DEF Recall, storeVars
<1> QED
  BY <1>1, <1>2 DEF Sheet!Send, Draft, Owed, Menu

\* A long press opens or closes the menu.
LEMMA LongPressSwitches ==
  ASSUME TypeOK, EnterMenu \/ ExitMenu
  PROVE  Sheet!OpenMenu \/ Sheet!CloseMenu
<1>1. ~Owed /\ ~Owed' /\ UNCHANGED <<cue, stored, unsaved, recalled>>
  BY DEF EnterMenu, ExitMenu, LongHold, Goto, storeVars, recallVars, Owed
<1>2. CASE EnterMenu
  <2>1. ~Menu /\ Menu' /\ Draft' = -1
    BY <1>2 DEF EnterMenu, CancelPending, TypeOK, Menu, Draft
  <2> QED
    BY <1>1, <2>1 DEF Sheet!OpenMenu, Sheet!NoDraft, Draft, Owed, Menu
<1>3. CASE ExitMenu
  <2>1. Menu /\ ~Menu' /\ Draft' = Draft
    BY <1>3 DEF ExitMenu, editVars, Menu, Draft
  <2> QED
    BY <1>1, <2>1 DEF Sheet!CloseMenu, Draft, Owed, Menu
<1> QED
  BY <1>2, <1>3

LEMMA PowerCycleRestarts ==
  ASSUME TypeOK, PowerCycle
  PROVE  Sheet!Restart
<1>1. unsaved' \in BOOLEAN /\ (cue' = stored \/ (unsaved' /\ cue' = 0))
  BY BootedSheet DEF PowerCycle, TypeOK
<1>2. Draft' = -1 /\ ~Owed' /\ ~Menu' /\ UNCHANGED <<stored, recalled>>
  BY DEF PowerCycle, NoPending, Draft, Owed, Menu
<1> QED
  BY <1>1, <1>2 DEF Sheet!Restart, Sheet!NoDraft, Draft, Owed, Menu

-----------------------------------------------------------------------------
(* All other steps leave the sheet alone.                                  *)

LEMMA OthersStutter ==
  ASSUME TypeOK,
         \/ \E here \in {"left", "right"}, to \in {"right", "rot"}, n \in {-1, 1} :
              StepItem(here, to, n) \/ NoRelease(here, to)
         \/ RotPressed \/ RotReleasedIdle \/ ResetItem \/ StillUp \/ StillDown
         \/ \E d \in -DeltaMax..DeltaMax : GatherOnly(d) \/ EditOption(d)
         \/ Rx \/ TickIdle \/ TickBlink \/ Sleep
         \/ UNCHANGED vars
  PROVE  UNCHANGED Sheet!sheetVars
<1>1. UNCHANGED <<cue, stored, unsaved, recalled, mode>>
  BY DEF StepItem, NoRelease, RotPressed, RotReleasedIdle, ResetItem, StillUp, StillDown,
     GatherOnly, EditOption, Rx, TickIdle, TickBlink, Sleep, vars, storeVars, recallVars
<1>2. Draft' = Draft
  <2>1. CASE TickBlink
    BY <2>1 DEF TickBlink, TypeOK, Draft
  <2>2. CASE ~TickBlink
    BY <2>2 DEF StepItem, NoRelease, RotPressed, RotReleasedIdle, ResetItem, StillUp, StillDown,
       GatherOnly, EditOption, Rx, TickIdle, Sleep, vars, editVars, Draft
  <2> QED
    BY <2>1, <2>2
<1>3. Owed' = Owed
  BY DEF StepItem, NoRelease, RotPressed, RotReleasedIdle, ResetItem, StillUp, StillDown,
     GatherOnly, EditOption, Rx, TickIdle, TickBlink, Sleep, vars, Goto, Owed
<1> QED
  BY <1>1, <1>2, <1>3 DEF Sheet!sheetVars, Draft, Owed

LEMMA NextRefines == PanelInv /\ [Next]_vars => [Sheet!SheetNext]_(Sheet!sheetVars)
<1> SUFFICES ASSUME TypeOK, [Next]_vars PROVE [Sheet!SheetNext]_(Sheet!sheetVars)
  BY DEF PanelInv
<1>1. CASE Left \/ Right
  BY <1>1, StepCueAdopts, OthersStutter DEF Left, Right, Sheet!SheetNext
<1>2. CASE Rot
  BY <1>2, CommitAdopts, RecallAgainAsks, LongPressSwitches, OthersStutter
     DEF Rot, Sheet!SheetNext
<1>3. CASE Delta
  BY <1>3, EditSetsUp, OthersStutter DEF Delta, Sheet!SheetNext
<1>4. CASE Recall("leftRecall", "right") \/ Recall("rightRecall", "rot")
           \/ Recall("rotRecall", "delta")
  BY <1>4, RecallSends DEF Sheet!SheetNext
<1>5. CASE TickExpire \/ PowerCycle
  BY <1>5, ExpiryGivesUp, PowerCycleRestarts DEF Sheet!SheetNext
<1>6. CASE Rx \/ TickIdle \/ TickBlink \/ Sleep \/ UNCHANGED vars
  BY <1>6, OthersStutter
<1> QED
  BY <1>1, <1>2, <1>3, <1>4, <1>5, <1>6 DEF Next, Loop

\* Whatever the operator, time and power do, the panel keeps all that CueSheet
\* promises of the cue, its draft, its record and its receiver
\* (process_button_events, cue_pending_tick).
THEOREM PanelKeepsCueSheet == Spec => KeepsCueSheet
  BY InitRefines, NextRefines, PanelInitInv, PanelStepInv, PTL
     DEF Spec, KeepsCueSheet, Sheet!SheetSpec
=============================================================================

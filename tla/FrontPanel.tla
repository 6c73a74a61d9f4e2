----------------------------- MODULE FrontPanel -----------------------------
(***************************************************************************)
(* The operator's panel of app/src/main.c: Prev and Next buttons, the      *)
(* encoder with its push button, the option menu, the pending cue edit and *)
(* what the display shows of them.  One turn of the main loop is the steps *)
(*                                                                         *)
(*   left -> right -> rot -> delta        process_button_events            *)
(*        -> rx                           a remote display message         *)
(*        -> tick                         cue_pending_tick                 *)
(*        -> sleep                        time passes                      *)
(*                                                                         *)
(* with a step of its own for each recall sent, so that power can be lost  *)
(* after the cue was stored and before it was sent.                        *)
(* The records of the options are the subject of Settings: here an option  *)
(* starts from any legal value.                                            *)
(*                                                                         *)
(*   mode, item    current_mode, current_menu_item                         *)
(*   opt           the menu's twelve options, as positions in their ranges *)
(*   cue, stored   current_cue_value and its copy in the settings store    *)
(*   ready         net_settings_ready                                      *)
(*   pend          cue_pending_active, _visible, _value                    *)
(*   sinceChange, sinceBlink, held   now minus the code's time stamps,     *)
(*                 followed up to the limit each is compared with          *)
(*   wasPressed    rot_button_was_pressed_last_poll                        *)
(*   tracking      rot_press_tracking                                      *)
(*   accum         rot_encoder_step_accum                                  *)
(*   number, message   the display's number area and status line           *)
(*   recalled      the last cue handed to the OSC transport                *)
(*                                                                         *)
(* History: unsaved (a save of the cue has failed or been skipped),        *)
(* synced (a cue has been recalled since boot), effects (what the current  *)
(* press of the encoder has done so far), sinceEdit (the time since the    *)
(* operator last turned the encoder to edit the cue, followed as long as   *)
(* the pending timeout).                                                   *)
(*                                                                         *)
(* The time a handler takes is counted in the sleep that ends its turn.    *)
(***************************************************************************)
EXTENDS Integers

CONSTANTS
  ItemCount,      \* MENU_ITEM_COUNT
  EntryItem,      \* MENU_ITEM_NET_IP_MODE, where the menu opens
  OptMax,         \* [0..ItemCount-1 -> Nat], the last position of each option
  OptTop,         \* the greatest of them
  OptDefault,     \* [0..ItemCount-1 -> Nat], the default position
  CueMax,         \* 999
  CueTop,         \* 65535: the greatest value the record of the cue can hold
  Detent,         \* ROTARY_DETENT_STEPS
  DeltaMax,       \* the encoder's saturation, 32
  PendingTimeout, BlinkInterval, LongPress,   \* the three delays, in ticks
  MaxSleep        \* bound: the longest turn of the loop, in ticks

Items == 0..(ItemCount - 1)

ASSUME PanelAssumption ==
  /\ ItemCount \in Nat \ {0} /\ EntryItem \in Items
  /\ OptTop \in Nat /\ OptMax \in [Items -> 0..OptTop]
  /\ OptDefault \in [Items -> Nat]
  /\ \A i \in Items : OptDefault[i] <= OptMax[i]
  /\ CueMax \in Nat /\ CueTop \in Nat /\ CueMax <= CueTop
  /\ Detent \in Nat \ {0} /\ DeltaMax \in Nat
  /\ PendingTimeout \in Nat \ {0} /\ BlinkInterval \in Nat \ {0}
  /\ LongPress \in Nat \ {0} /\ MaxSleep \in Nat \ {0}

VARIABLES pc, mode, item, opt, cue, stored, ready, pend, sinceChange, sinceBlink,
          sinceEdit, held, wasPressed, tracking, accum, number, message, recalled,
          unsaved, synced, effects

editVars   == <<pend, sinceChange, sinceBlink, sinceEdit>>
pressVars  == <<held, wasPressed, tracking, effects>>
storeVars  == <<stored, ready, unsaved>>
recallVars == <<recalled, synced>>
vars == <<pc, mode, item, opt, cue, accum, number, message,
          editVars, pressVars, storeVars, recallVars>>

-----------------------------------------------------------------------------
Cues    == 0..CueTop
Options == {o \in [Items -> 0..OptTop] :
              \A i \in Items : o[i] <= OptMax[i]}
Blank   == -1                       \* the number area cleared
NoCue   == -1                       \* nothing recalled yet
Label(i) == <<"label", i>>
Cleared  == <<"cleared">>
Remote   == <<"remote">>

NoPending == [active |-> FALSE, visible |-> TRUE, value |-> 0]

Goto(from, to) == pc = from /\ pc' = to

\* n steps up, or -n down, as the code takes them one by one: at CueMax and above,
\* where only a record can have put the cue, a step up leads to 0; a step down from
\* above CueMax leads to the number below.
CueStep(c, n) ==
  IF c <= CueMax \/ c + n <= CueMax THEN (c + n) % (CueMax + 1)
  ELSE IF n <= 0 THEN c + n
  ELSE (n - 1) % (CueMax + 1)

OptStep(i, v, n) == (v + n) % (OptMax[i] + 1)

\* Whole detents in n half steps, towards zero, as the two while loops count.
Detents(n) == IF n >= 0 THEN n \div Detent ELSE -((-n) \div Detent)

\* ...and the half steps left over.
LeftOver(n) == n - Detent * Detents(n)

AtMost(n, bound) == IF n < bound THEN n ELSE bound

\* The cue read at boot, out of range if its record is (net_settings_clamp_all
\* leaves it alone), and an empty status line.  A store that cannot be
\* opened, or whose loading fails part way, is never written, and the cue is 0
\* unless it was read before the failure.
CueAtBoot(usable, c) == IF usable THEN {c} ELSE {0, c}

Init ==
  /\ pc = "left"
  /\ stored \in Cues /\ ready \in BOOLEAN /\ unsaved = ~ready
  /\ cue \in CueAtBoot(ready, stored)
  /\ mode = "normal" /\ item = 0 /\ opt \in Options
  /\ pend = NoPending /\ sinceChange = 0 /\ sinceBlink = 0 /\ sinceEdit = 0
  /\ held = 0 /\ wasPressed = FALSE /\ tracking = FALSE /\ effects = 0
  /\ accum = 0
  /\ number = cue /\ message = Cleared
  /\ recalled = NoCue /\ synced = FALSE

-----------------------------------------------------------------------------
\* settings_save_one of the cue, whose failure is only logged; without a
\* settings store nothing is saved.
SaveCue(c) ==
  \E ok \in BOOLEAN :
    /\ stored' = IF ready /\ ok THEN c ELSE stored
    /\ unsaved' = ~(ready /\ ok)
    /\ UNCHANGED ready

\* cue_pending_cancel.
CancelPending == pend' = [pend EXCEPT !.active = FALSE, !.visible = TRUE]

\* A slip: the pending edit is left running.
StepCueKeepsPending(here, to, n) ==
  /\ Goto(here, to)
  /\ mode = "normal"
  /\ cue' = CueStep(cue, n)
  /\ number' = cue'
  /\ SaveCue(cue')
  /\ UNCHANGED <<mode, item, opt, editVars, pressVars, accum, message, recallVars>>

\* Prev or Next released in normal mode: the pending edit is dropped, the cue
\* moves, is shown and saved; then it is recalled.
StepCue(here, to, n) ==
  /\ Goto(here, to)
  /\ mode = "normal"
  /\ CancelPending
  /\ cue' = CueStep(cue, n)
  /\ number' = cue'
  /\ SaveCue(cue')
  /\ UNCHANGED <<mode, item, opt, sinceChange, sinceBlink, sinceEdit, pressVars, accum, message,
                 recallVars>>

\* The same in the menu: the previous or next item.
StepItem(here, to, n) ==
  /\ Goto(here, to)
  /\ mode = "menu"
  /\ item' = (item + n) % ItemCount
  /\ number' = opt[item'] /\ message' = Label(item')
  /\ UNCHANGED <<mode, opt, cue, editVars, pressVars, accum, storeVars, recallVars>>

\* No event, or a press: only releases act.
NoRelease(here, to) ==
  /\ Goto(here, to)
  /\ UNCHANGED <<mode, item, opt, cue, editVars, pressVars, accum, number, message,
                 storeVars, recallVars>>

Left ==
  \/ StepCue("left", "leftRecall", -1)
  \/ StepItem("left", "right", -1)
  \/ NoRelease("left", "right")

Right ==
  \/ StepCue("right", "rightRecall", 1)
  \/ StepItem("right", "rot", 1)
  \/ NoRelease("right", "rot")

\* A slip: the stored copy is sent.
RecallStored(here, to) ==
  /\ Goto(here, to)
  /\ recalled' = stored
  /\ synced' = TRUE
  /\ UNCHANGED <<mode, item, opt, cue, editVars, pressVars, accum, number, message, storeVars>>

\* cue_send_recall.
Recall(here, to) ==
  /\ Goto(here, to)
  /\ recalled' = cue
  /\ synced' = TRUE
  /\ UNCHANGED <<mode, item, opt, cue, editVars, pressVars, accum, number, message, storeVars>>

-----------------------------------------------------------------------------
(* The encoder's push button: a press is timed from the poll that sees it. *)

RotPressed ==
  /\ Goto("rot", "delta")
  /\ ~wasPressed /\ wasPressed' = TRUE
  /\ tracking' = TRUE /\ held' = 0 /\ effects' = 0
  /\ UNCHANGED <<mode, item, opt, cue, editVars, accum, number, message, storeVars, recallVars>>

\* The poll that finds the button released.
Released == wasPressed /\ wasPressed' = FALSE /\ tracking' = FALSE /\ UNCHANGED held

\* A press that has switched the mode, or was not followed, ends quietly.
RotReleasedIdle ==
  /\ Goto("rot", "delta")
  /\ Released /\ ~tracking
  /\ UNCHANGED <<mode, item, opt, cue, editVars, effects, accum, number, message,
                 storeVars, recallVars>>

\* cue_pending_commit_or_recall: a short press adopts the pending value...
CommitPending ==
  /\ Goto("rot", "rotRecall")
  /\ Released /\ tracking
  /\ mode = "normal" /\ pend.active
  /\ cue' = pend.value
  /\ CancelPending
  /\ number' = cue'
  /\ SaveCue(cue')
  /\ effects' = effects + 1
  /\ UNCHANGED <<mode, item, opt, sinceChange, sinceBlink, sinceEdit, accum, message, recallVars>>

\* ...or just recalls the cue again.
RecallAgain ==
  /\ Goto("rot", "rotRecall")
  /\ Released /\ tracking
  /\ mode = "normal" /\ ~pend.active
  /\ effects' = effects + 1
  /\ UNCHANGED <<mode, item, opt, cue, editVars, accum, number, message, storeVars, recallVars>>

\* menu_reset_current_item_to_default: a short press in the menu.
ResetItem ==
  /\ Goto("rot", "delta")
  /\ Released /\ tracking
  /\ mode = "menu"
  /\ opt' = [opt EXCEPT ![item] = OptDefault[item]]
  /\ number' = opt'[item] /\ message' = Label(item)
  /\ effects' = effects + 1
  /\ UNCHANGED <<mode, item, cue, editVars, accum, storeVars, recallVars>>

StillUp ==
  /\ Goto("rot", "delta")
  /\ ~wasPressed
  /\ UNCHANGED <<mode, item, opt, cue, editVars, pressVars, accum, number, message,
                 storeVars, recallVars>>

StillDown ==
  /\ Goto("rot", "delta")
  /\ wasPressed
  /\ tracking => held < LongPress
  /\ UNCHANGED <<mode, item, opt, cue, editVars, pressVars, accum, number, message,
                 storeVars, recallVars>>

\* A slip: the press goes on being followed.
LongHoldKeepsTracking ==
  /\ Goto("rot", "rx")
  /\ wasPressed /\ tracking /\ held >= LongPress
  /\ accum' = 0
  /\ effects' = effects + 1
  /\ UNCHANGED <<tracking, wasPressed, held>>

\* A press held long enough switches the mode.  The count the encoder has
\* gathered is thrown away, and with it the delta step of this turn.
LongHold ==
  /\ Goto("rot", "rx")
  /\ wasPressed /\ tracking /\ held >= LongPress
  /\ tracking' = FALSE
  /\ accum' = 0
  /\ effects' = effects + 1
  /\ UNCHANGED <<wasPressed, held>>

\* A slip: the pending edit survives into the menu.
EnterMenuKeepsPending ==
  /\ LongHold
  /\ mode = "normal" /\ mode' = "menu"
  /\ item' = EntryItem
  /\ number' = opt[EntryItem] /\ message' = Label(EntryItem)
  /\ UNCHANGED <<opt, cue, editVars, storeVars, recallVars>>

\* ui_enter_menu_mode, after cue_pending_cancel.
EnterMenu ==
  /\ LongHold
  /\ mode = "normal" /\ mode' = "menu"
  /\ CancelPending
  /\ item' = EntryItem
  /\ number' = opt[EntryItem] /\ message' = Label(EntryItem)
  /\ UNCHANGED <<opt, cue, sinceChange, sinceBlink, sinceEdit, storeVars, recallVars>>

\* ui_exit_menu_mode; OscTransport models the target address it renews.
ExitMenu ==
  /\ LongHold
  /\ mode = "menu" /\ mode' = "normal"
  /\ number' = cue /\ message' = Cleared
  /\ UNCHANGED <<item, opt, cue, editVars, storeVars, recallVars>>

Rot ==
  \/ RotPressed \/ RotReleasedIdle
  \/ CommitPending \/ RecallAgain \/ ResetItem
  \/ StillUp \/ StillDown
  \/ EnterMenu \/ ExitMenu

-----------------------------------------------------------------------------
(* The encoder's turns: Detent half steps make one edit.                   *)

\* A slip: the whole count is spent, the part of a detent left over too.
TurnSpendsAll(d) ==
  /\ d \in -DeltaMax..DeltaMax
  /\ accum' = accum + d

\* The delta popped is added to what the last turn left over.
Gather(d) ==
  /\ d \in -DeltaMax..DeltaMax
  /\ accum' = LeftOver(accum + d)

\* Less than a detent gathered: nothing is edited.
GatherOnly(d) ==
  /\ Goto("delta", "rx")
  /\ Detents(accum + d) = 0
  /\ Gather(d)
  /\ UNCHANGED <<mode, item, opt, cue, editVars, pressVars, number, message,
                 storeVars, recallVars>>

\* menu_apply_edit_step, once per detent.
EditOption(d) ==
  /\ Goto("delta", "rx")
  /\ mode = "menu"
  /\ Detents(accum + d) # 0
  /\ Gather(d)
  /\ opt' = [opt EXCEPT ![item] = OptStep(item, @, Detents(accum + d))]
  /\ number' = opt'[item] /\ message' = Label(item)
  /\ UNCHANGED <<mode, item, cue, editVars, pressVars, storeVars, recallVars>>

\* cue_apply_pending_edit_step, once per detent: the first one starts from the
\* current cue.
EditPending(d) ==
  /\ Goto("delta", "rx")
  /\ mode = "normal"
  /\ Detents(accum + d) # 0
  /\ Gather(d)
  /\ LET from == IF pend.active THEN pend.value ELSE cue
     IN pend' = [active |-> TRUE, visible |-> TRUE,
                 value |-> CueStep(from, Detents(accum + d))]
  /\ number' = pend'.value
  /\ sinceChange' = 0 /\ sinceBlink' = 0 /\ sinceEdit' = 0
  /\ UNCHANGED <<mode, item, opt, cue, pressVars, message, storeVars, recallVars>>

Delta == \E d \in -DeltaMax..DeltaMax : GatherOnly(d) \/ EditOption(d) \/ EditPending(d)

-----------------------------------------------------------------------------
\* app_osc_poll_rx: /asynth/msg puts its text on the status line in any mode.
Rx ==
  /\ Goto("rx", "tick")
  /\ message' \in {message, Remote}
  /\ UNCHANGED <<mode, item, opt, cue, editVars, pressVars, accum, number,
                 storeVars, recallVars>>

Idle == ~pend.active \/ mode # "normal"

TickIdle ==
  /\ Goto("tick", "sleep")
  /\ Idle \/ (sinceChange < PendingTimeout /\ sinceBlink < BlinkInterval)
  /\ UNCHANGED <<mode, item, opt, cue, editVars, pressVars, accum, number, message,
                 storeVars, recallVars>>

\* The edit has been left alone too long: the cue stands.
TickExpire ==
  /\ Goto("tick", "sleep")
  /\ ~Idle /\ sinceChange >= PendingTimeout
  /\ CancelPending
  /\ number' = cue
  /\ UNCHANGED <<mode, item, opt, cue, sinceChange, sinceBlink, sinceEdit, pressVars, accum, message,
                 storeVars, recallVars>>

\* A slip: the blink counts as a change of the edit.
TickBlinkExtends ==
  /\ Goto("tick", "sleep")
  /\ ~Idle /\ sinceChange < PendingTimeout /\ sinceBlink >= BlinkInterval
  /\ pend' = [pend EXCEPT !.visible = ~@]
  /\ sinceChange' = 0 /\ sinceBlink' = 0
  /\ number' = IF pend'.visible THEN pend.value ELSE Blank
  /\ UNCHANGED <<mode, item, opt, cue, sinceEdit, pressVars, accum, message,
                 storeVars, recallVars>>

TickBlink ==
  /\ Goto("tick", "sleep")
  /\ ~Idle /\ sinceChange < PendingTimeout /\ sinceBlink >= BlinkInterval
  /\ pend' = [pend EXCEPT !.visible = ~@]
  /\ sinceBlink' = 0
  /\ number' = IF pend'.visible THEN pend.value ELSE Blank
  /\ UNCHANGED <<mode, item, opt, cue, sinceChange, sinceEdit, pressVars, accum, message,
                 storeVars, recallVars>>

Sleep ==
  /\ Goto("sleep", "left")
  /\ \E d \in 1..MaxSleep :
       /\ sinceChange' = AtMost(sinceChange + d, PendingTimeout)
       /\ sinceBlink' = AtMost(sinceBlink + d, BlinkInterval)
       /\ sinceEdit' = AtMost(sinceEdit + d, PendingTimeout)
       /\ held' = AtMost(held + d, LongPress)
  /\ UNCHANGED <<mode, item, opt, cue, pend, wasPressed, tracking, effects, accum,
                 number, message, storeVars, recallVars>>

\* Power is lost and comes back, between any two steps: everything but the
\* store and what the receiver has is as in Init.  What the options read back
\* as is the settings' affair, here any legal value.
PowerCycle ==
  /\ pc' = "left"
  /\ ready' \in BOOLEAN /\ unsaved' = ~ready'
  /\ cue' \in CueAtBoot(ready', stored)
  /\ mode' = "normal" /\ item' = 0 /\ opt' \in Options
  /\ pend' = NoPending /\ sinceChange' = 0 /\ sinceBlink' = 0 /\ sinceEdit' = 0
  /\ held' = 0 /\ wasPressed' = FALSE /\ tracking' = FALSE /\ effects' = 0
  /\ accum' = 0
  /\ number' = cue' /\ message' = Cleared
  /\ synced' = FALSE
  /\ UNCHANGED <<stored, recalled>>

Loop ==
  \/ Left \/ Recall("leftRecall", "right")
  \/ Right \/ Recall("rightRecall", "rot")
  \/ Rot \/ Recall("rotRecall", "delta")
  \/ Delta
  \/ Rx
  \/ TickIdle \/ TickExpire \/ TickBlink
  \/ Sleep

Next == Loop \/ PowerCycle

Spec == Init /\ [][Next]_vars

-----------------------------------------------------------------------------
Pcs == {"left", "leftRecall", "right", "rightRecall", "rot", "rotRecall",
        "delta", "rx", "tick", "sleep"}

\* The statics keep their ranges; in particular less than a detent is ever left
\* in the step accumulator, so the next delta cannot overflow its int8.
TypeOK ==
  /\ pc \in Pcs
  /\ mode \in {"normal", "menu"} /\ item \in Items /\ opt \in Options
  /\ cue \in Cues /\ stored \in Cues /\ ready \in BOOLEAN
  /\ pend \in [active : BOOLEAN, visible : BOOLEAN, value : Cues]
  /\ sinceChange \in 0..PendingTimeout /\ sinceBlink \in 0..BlinkInterval
  /\ sinceEdit \in 0..PendingTimeout
  /\ held \in 0..LongPress /\ wasPressed \in BOOLEAN /\ tracking \in BOOLEAN
  /\ accum \in (1 - Detent)..(Detent - 1)
  /\ number \in Nat \cup {Blank}
  /\ message \in {Cleared, Remote} \cup {Label(i) : i \in Items}
  /\ recalled \in Cues \cup {NoCue}
  /\ unsaved \in BOOLEAN /\ synced \in BOOLEAN /\ effects \in Nat

\* The menu never runs with a cue edit pending: the timeout that would end the
\* edit runs in normal mode only (cue_pending_tick), so such an edit would come
\* back when the menu is left.
MenuHasNoPending ==
  mode = "menu" => ~pend.active

\* The number on the display is the one the next turn or press will act on: the
\* option's value in the menu, the pending value or its blink while a cue is
\* edited, the current cue otherwise.
NumberIsCurrent ==
  number = IF mode = "menu" THEN opt[item]
           ELSE IF ~pend.active THEN cue
           ELSE IF pend.visible THEN pend.value ELSE Blank

\* The status line names the menu item being edited, and no item in normal
\* mode; a remote message may stand in its place until the next redraw.
StatusLineIsCurrent ==
  message # Remote => message = IF mode = "menu" THEN Label(item) ELSE Cleared

\* What the operator sees, number and status line, is what the next turn or press
\* of the encoder acts on: the display is written from many places, and each
\* leaves both as the panel's mode wants them.
DisplayIsCurrent ==
  NumberIsCurrent /\ StatusLineIsCurrent

\* A press of the encoder does one thing: it commits, recalls or resets when
\* released early, or switches the mode when held, never both; the release
\* after a long press is swallowed.
PressActsOnce ==
  effects <= 1

\* A draft of the cue outlives the operator's last turn of the encoder by the
\* timeout and no more, counted to the tick of the turn in which it is up: neither
\* blinking nor anything else that happens meanwhile, presses and messages included,
\* keeps it alive (cue_pending_tick, whose own stamps the blink shares with the
\* edit).
PendingExpires ==
  pc = "sleep" /\ pend.active => sinceEdit < PendingTimeout

\* The receiver is never ahead of the settings store: a cue is recalled only
\* after it has been saved, so that a power cycle cannot bring back an older
\* cue than the one last recalled, unless the save itself failed.
RecallAfterSave ==
  [][recalled' # recalled /\ ~unsaved => recalled' = stored]_vars

\* From the first recall on, every way of changing the cue is followed by its
\* recall: between the steps that change and send it, the receiver has the cue
\* that the panel holds.
ReceiverHasCue ==
  synced /\ pc \notin {"leftRecall", "rightRecall", "rotRecall"} => recalled = cue

\* The panel keeps every promise that CueSheet makes of the cue: it moves by one or
\* to the draft the operator has set up, is sent after it was stored and before
\* anything else moves it, and no draft outlives the step that makes it void.  The
\* draft is the pending edit; the cue is owed between a handler's save and its recall.
Sheet == INSTANCE CueSheet WITH
  heard <- recalled,
  draft <- IF pend.active THEN pend.value ELSE -1,
  owed  <- pc \in {"leftRecall", "rightRecall", "rotRecall"},
  menu  <- mode = "menu"

KeepsCueSheet == Sheet!SheetSpec
=============================================================================

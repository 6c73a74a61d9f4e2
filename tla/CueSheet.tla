------------------------------ MODULE CueSheet ------------------------------
(***************************************************************************)
(* What the panel promises about the cue, whatever buttons, encoder, menu, *)
(* display and time do to bring it about (process_button_events and        *)
(* cue_pending_tick of app/src/main.c); FrontPanel implements it.          *)
(*                                                                         *)
(* The cue moves by one, or to a draft that was set up beforehand; the     *)
(* draft is then gone.  Whatever moves it stores it first and then owes it *)
(* to the receiver, and nothing else happens to the sheet until it has     *)
(* been sent.  A draft may be given up at any time, and is when the menu   *)
(* opens; none comes up while it is open.                                  *)
(*                                                                         *)
(*   cue      the current cue                                              *)
(*   stored   its record, which survives a loss of power                   *)
(*   heard    the last cue sent to the receiver, which survives too        *)
(*   draft    the cue being set up, NoDraft if there is none               *)
(*   owed     the cue must still be sent                                   *)
(*   unsaved  saving the cue has failed: a restart may bring back another  *)
(*   menu     the menu is open                                             *)
(***************************************************************************)
EXTENDS Integers

CONSTANTS
  CueMax,       \* 999
  CueTop,       \* 65535: what a record can hold
  NoCue         \* nothing sent yet

Cues    == 0..CueTop
NoDraft == -1

VARIABLES cue, stored, heard, draft, owed, unsaved, menu

sheetVars == <<cue, stored, heard, draft, owed, unsaved, menu>>

-----------------------------------------------------------------------------
SheetInit ==
  /\ stored \in Cues /\ unsaved \in BOOLEAN
  /\ cue = stored \/ (unsaved /\ cue = 0)
  /\ heard = NoCue
  /\ draft = NoDraft /\ owed = FALSE /\ menu = FALSE

\* The cue becomes c, is saved, or that fails and is known to have, and is owed.
Adopt(c) ==
  /\ ~owed /\ ~menu
  /\ cue' = c
  /\ \/ stored' = c /\ ~unsaved'
     \/ stored' = stored /\ unsaved'
  /\ draft' = NoDraft
  /\ owed' = TRUE
  /\ UNCHANGED <<heard, menu>>

\* Next and Prev.
StepUp   == Adopt(IF cue >= CueMax THEN 0 ELSE cue + 1)
StepDown == Adopt(IF cue = 0 THEN CueMax ELSE cue - 1)

\* A short press of the encoder with a draft...
Commit == draft # NoDraft /\ Adopt(draft)

\* ...and without.
AskAgain ==
  /\ ~owed /\ ~menu /\ draft = NoDraft
  /\ owed' = TRUE
  /\ UNCHANGED <<cue, stored, heard, draft, unsaved, menu>>

\* The encoder is turned.
SetUp(c) ==
  /\ ~owed /\ ~menu
  /\ draft' = c
  /\ UNCHANGED <<cue, stored, heard, owed, unsaved, menu>>

\* The draft is left alone for too long.
GiveUp ==
  /\ ~owed
  /\ draft' = NoDraft
  /\ UNCHANGED <<cue, stored, heard, owed, unsaved, menu>>

\* The cue sent is the current one.
Send ==
  /\ owed /\ owed' = FALSE
  /\ heard' = cue
  /\ UNCHANGED <<cue, stored, draft, unsaved, menu>>

\* A long press of the encoder.
OpenMenu ==
  /\ ~owed /\ ~menu /\ menu' = TRUE
  /\ draft' = NoDraft
  /\ UNCHANGED <<cue, stored, heard, owed, unsaved>>

CloseMenu ==
  /\ menu /\ menu' = FALSE
  /\ UNCHANGED <<cue, stored, heard, draft, owed, unsaved>>

\* Power is lost and comes back: what was owed is not sent.
Restart ==
  /\ unsaved' \in BOOLEAN
  /\ cue' = stored \/ (unsaved' /\ cue' = 0)
  /\ draft' = NoDraft /\ owed' = FALSE /\ menu' = FALSE
  /\ UNCHANGED <<stored, heard>>

SheetNext ==
  \/ StepUp \/ StepDown
  \/ Commit \/ AskAgain
  \/ \E c \in Cues : SetUp(c)
  \/ GiveUp
  \/ Send
  \/ OpenMenu \/ CloseMenu
  \/ Restart

SheetSpec == SheetInit /\ [][SheetNext]_sheetVars
=============================================================================

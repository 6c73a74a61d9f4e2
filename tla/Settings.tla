------------------------------ MODULE Settings ------------------------------
(***************************************************************************)
(* The options of the menu and their records in the settings store         *)
(* (app/src/main.c): net_settings_init reads the records at boot, one call *)
(* of asynth_settings_set each, net_settings_clamp_all and                 *)
(* midi_settings_apply bring what was read into range, and every step of   *)
(* the menu changes an option and saves it.  FrontPanel has the menu and   *)
(* the cue, which is stored in the same way.                               *)
(*                                                                         *)
(*   ram      the options: net_cfg, cv_sample_period_ms,                   *)
(*            cv_hysteresis_permille, midi_note_thru                       *)
(*   store    their records, NoValue when missing or unreadable            *)
(*   todo     the records that settings_load has still to hand over        *)
(*   ready    net_settings_ready                                           *)
(*   norm     cv_hysteresis_norm, in thousandths                           *)
(*   forward  midi_note_forward_enabled                                    *)
(*                                                                         *)
(* History: saved, the last value of each option known to have reached the *)
(* store, NoValue if none has; unsaved, the options changed since by an    *)
(* edit whose save failed or was skipped.                                  *)
(*                                                                         *)
(* settings_save_one either writes the record or leaves it, whether it     *)
(* fails or is cut by a loss of power; settings_load may fail at any       *)
(* record, or in the end.                                                  *)
(***************************************************************************)
EXTENDS Integers

CONSTANTS
  Options,
  Least, Most, Step, Default,  \* per option: the range, its step, the default
  Hysteresis,   \* the option whose records are rounded to its step
  NoteThru,     \* the option that falls back to Least when out of range
  Records       \* per option: the values a record may hold at first

NoValue == -1

ASSUME SettingsAssumption ==
  /\ Hysteresis \in Options /\ NoteThru \in Options /\ Hysteresis # NoteThru
  /\ {Least, Most, Step, Default} \subseteq [Options -> Nat]
  /\ \A o \in Options :
       /\ Least[o] <= Default[o] /\ Default[o] <= Most[o] /\ Step[o] > 0
       /\ {Least[o] % Step[o], Most[o] % Step[o], Default[o] % Step[o]} = {0}
       /\ Step[o] = 1 \/ Least[o] >= Step[o]
  /\ Least[NoteThru] = 0
  /\ \A o \in Options : Records[o] \subseteq Nat \cup {NoValue}

VARIABLES pc, ram, store, todo, ready, norm, forward, saved, unsaved

vars == <<pc, ram, store, todo, ready, norm, forward, saved, unsaved>>

-----------------------------------------------------------------------------
InRange(o, v) == Least[o] <= v /\ v <= Most[o]
OnStep(o, v)  == v % Step[o] = 0

\* A value that may be in force: in range and on its step, or, except for the
\* hysteresis, off the step and at most one step below the range.
Legal(o, v) ==
  \/ InRange(o, v) /\ OnStep(o, v)
  \/ /\ o # Hysteresis /\ ~OnStep(o, v)
     /\ Least[o] - Step[o] < v /\ 0 < v /\ v <= Most[o]

Bound(o, v) == IF v > Most[o] THEN Most[o] ELSE IF v < Least[o] THEN Least[o] ELSE v

\* The nearest multiple of the step.
Rounded(o, v) == ((v + Step[o] \div 2) \div Step[o]) * Step[o]

\* What net_settings_clamp_all, or midi_settings_apply, makes of a value; the
\* sample period is bounded and not rounded.
Normal(o, v) ==
  IF o = NoteThru THEN IF v > Most[o] THEN Least[o] ELSE v
  ELSE IF o = Hysteresis /\ ~OnStep(o, Bound(o, v)) THEN Bound(o, Rounded(o, Bound(o, v)))
  ELSE Bound(o, v)

\* A slip: the range is left before it wraps.
UpLate(o, v) == IF v > Most[o] THEN Least[o] ELSE v + Step[o]

\* A detent of the encoder: menu_wrap_u16_step, and the steps of the two
\* options that have their own.
Up(o, v)   == IF v + Step[o] > Most[o] THEN Least[o] ELSE v + Step[o]
Down(o, v) == IF v <= Least[o] THEN Most[o] ELSE v - Step[o]

\* The statics at power-up.
Statics ==
  /\ pc' = "boot"
  /\ ram' = Default
  /\ todo' = Options
  /\ ready' = FALSE
  /\ norm' = Default[Hysteresis]
  /\ forward' = FALSE

Init ==
  /\ pc = "boot"
  /\ ram = Default
  /\ store \in [Options -> UNION {Records[o] : o \in Options}]
  /\ \A o \in Options : store[o] \in Records[o]
  /\ todo = Options
  /\ ready = FALSE
  /\ norm = Default[Hysteresis]
  /\ forward = FALSE
  /\ saved = [o \in Options |->
                IF InRange(o, store[o]) /\ OnStep(o, store[o]) THEN store[o] ELSE NoValue]
  /\ unsaved = {}

-----------------------------------------------------------------------------
\* asynth_settings_set: a record that cannot be read leaves the default.
LoadRecord(o) ==
  /\ pc = "boot" /\ o \in todo
  /\ todo' = todo \ {o}
  /\ ram' = IF store[o] = NoValue THEN ram ELSE [ram EXCEPT ![o] = store[o]]
  /\ UNCHANGED <<pc, store, ready, norm, forward, saved, unsaved>>

\* net_settings_clamp_all and midi_settings_apply.
Normalise ==
  /\ ram' = [o \in Options |-> Normal(o, ram[o])]
  /\ norm' = ram'[Hysteresis]
  /\ forward' = (ram'[NoteThru] = 1)

LoadDone ==
  /\ pc = "boot" /\ pc' = "run"
  /\ todo = {}
  /\ Normalise
  /\ ready' = TRUE
  /\ unsaved' = {}
  /\ UNCHANGED <<store, todo, saved>>

\* net_settings_use_defaults, when net_settings_init fails at any point: what
\* was read before the failure stays.
LoadFails ==
  /\ pc = "boot" /\ pc' = "run"
  /\ Normalise
  /\ ready' = FALSE
  /\ unsaved' = {}
  /\ UNCHANGED <<store, todo, saved>>

\* The *_settings_save_and_report functions: a failure is only logged, and
\* without a settings store nothing is saved.
Save(o, v) ==
  \E ok \in BOOLEAN :
    /\ store' = IF ready /\ ok THEN [store EXCEPT ![o] = v] ELSE store
    /\ saved' = IF ready /\ ok THEN [saved EXCEPT ![o] = v] ELSE saved
    /\ unsaved' = IF ready /\ ok THEN unsaved \ {o} ELSE unsaved \cup {o}

\* A slip: the value saved is the one before the step.
SetSavesOld(o, v) ==
  /\ ram' = [ram EXCEPT ![o] = v]
  /\ norm' = IF o = Hysteresis THEN v ELSE norm
  /\ forward' = IF o = NoteThru THEN v = 1 ELSE forward
  /\ \E ok \in BOOLEAN :
       /\ store' = IF ready /\ ok THEN [store EXCEPT ![o] = ram[o]] ELSE store
       /\ saved' = IF ready /\ ok THEN [saved EXCEPT ![o] = v] ELSE saved
       /\ unsaved' = IF ready /\ ok THEN unsaved \ {o} ELSE unsaved \cup {o}
  /\ UNCHANGED <<pc, todo, ready>>

Set(o, v) ==
  /\ ram' = [ram EXCEPT ![o] = v]
  /\ norm' = IF o = Hysteresis THEN v ELSE norm
  /\ forward' = IF o = NoteThru THEN v = 1 ELSE forward
  /\ Save(o, v)
  /\ UNCHANGED <<pc, todo, ready>>

\* menu_apply_edit_step on the option shown.
Edit(o) ==
  /\ pc = "run"
  /\ Set(o, Up(o, ram[o])) \/ Set(o, Down(o, ram[o]))

\* menu_reset_current_item_to_default.
Reset(o) ==
  /\ pc = "run"
  /\ Set(o, Default[o])

\* Power is lost and comes back.
PowerCycle ==
  /\ Statics
  /\ UNCHANGED <<store, saved, unsaved>>

Next ==
  \/ \E o \in Options : LoadRecord(o) \/ Edit(o) \/ Reset(o)
  \/ LoadDone \/ LoadFails
  \/ PowerCycle

Spec == Init /\ [][Next]_vars

-----------------------------------------------------------------------------
\* Whatever the records held, every option is in its range and a multiple of
\* its step once the panel runs, however it is then edited.  The exception is
\* a sample period read off its step, which clamping lets through and which
\* stays off it; it may be stepped below the range, by less than a step, and
\* never to zero (net_settings_clamp_all, menu_apply_edit_step).
OptionsLegal ==
  pc = "run" => \A o \in Options : Legal(o, ram[o])

\* The two copies the rest of the program reads are those of the options the
\* menu shows: the comparison of the CV samples and the forwarding of notes
\* never run on a value that boot or an edit has replaced.
CopiesAreCurrent ==
  pc = "run" => norm = ram[Hysteresis] /\ forward = (ram[NoteThru] = 1)

\* What is in force is legal and is what the menu shows: from records of any kind,
\* through clamping, rounding, stepping and resetting, neither an option nor a
\* copy of it ends up where the rest of the program cannot use it.
OptionsInForce ==
  OptionsLegal /\ CopiesAreCurrent

\* An option set to a legal value and saved is found again after any number of
\* power cycles, unless it was changed since by an edit that was not saved: no
\* clamping at boot and no save of another option disturbs it.
SavedOptionsReturn ==
  pc = "run" /\ ready =>
    \A o \in Options :
      saved[o] # NoValue /\ OnStep(o, saved[o]) /\ o \notin unsaved => ram[o] = saved[o]
=============================================================================

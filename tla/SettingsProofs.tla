---------------------------- MODULE SettingsProofs ----------------------------
(***************************************************************************)
(* The options for every range, step and default, and for records that     *)
(* hold any number: what boot and the menu make of them is usable, and     *)
(* what was saved comes back.                                              *)
(***************************************************************************)
EXTENDS Settings, TLAPS

-----------------------------------------------------------------------------
(* The arithmetic of a step.                                               *)

\* Division by a step, with its remainder.
LEMMA Division ==
  ASSUME NEW a \in Int, NEW s \in Nat \ {0}
  PROVE  /\ a \div s \in Int /\ a % s \in 0..(s - 1)
         /\ a = s * (a \div s) + (a % s)
  OBVIOUS

\* A number has one remainder.
LEMMA RemainderUnique ==
  ASSUME NEW s \in Nat \ {0}, NEW k \in Int, NEW r \in 0..(s - 1)
  PROVE  (s * k + r) % s = r
<1> DEFINE a == s * k + r
           q == a \div s
           t == a % s
<1>1. a \in Int /\ q \in Int /\ t \in 0..(s - 1) /\ a = s * q + t
  BY Division
<1> HIDE DEF q, t
<1>2. s * k + r = s * q + t
  BY <1>1
<1> HIDE DEF a
<1>3. q = k
  <2>1. CASE q >= k + 1
    <3>1. s * q >= s * (k + 1)
      BY <1>1, <2>1
    <3>2. s * (k + 1) = s * k + s
      OBVIOUS
    <3>3. s * k \in Int /\ s * q \in Int
      BY <1>1
    <3> QED
      BY <1>1, <1>2, <3>1, <3>2, <3>3
  <2>2. CASE k >= q + 1
    <3>1. s * k >= s * (q + 1)
      BY <1>1, <2>2
    <3>2. s * (q + 1) = s * q + s
      BY <1>1
    <3>3. s * k \in Int /\ s * q \in Int
      BY <1>1
    <3> QED
      BY <1>1, <1>2, <3>1, <3>2, <3>3
  <2> QED
    BY <1>1, <2>1, <2>2
<1>4. s * k \in Int /\ t = r
  BY <1>1, <1>2, <1>3
<1> QED
  BY <1>4 DEF a, t

\* A step up or down leaves the remainder.
LEMMA StepKeepsRemainder ==
  ASSUME NEW a \in Int, NEW s \in Nat \ {0}
  PROVE  (a + s) % s = a % s /\ (a - s) % s = a % s
<1> DEFINE q == a \div s
           r == a % s
<1>1. q \in Int /\ r \in 0..(s - 1) /\ a = s * q + r
  BY Division
<1> HIDE DEF q, r
<1>2. a + s = s * (q + 1) + r /\ a - s = s * (q - 1) + r
  <2>1. s * (q + 1) = s * q + s /\ s * (q - 1) = s * q - s /\ s * q \in Int
    BY <1>1
  <2> QED
    BY <1>1, <2>1
<1>3. (s * (q + 1) + r) % s = r /\ (s * (q - 1) + r) % s = r
  BY <1>1, RemainderUnique
<1> QED
  BY <1>2, <1>3 DEF r

\* Two multiples of a step that differ are a step apart at least.
LEMMA MultiplesApart ==
  ASSUME NEW a \in Int, NEW b \in Int, NEW s \in Nat \ {0},
         a % s = 0, b % s = 0, a < b
  PROVE  a + s <= b
<1> DEFINE p == a \div s
           q == b \div s
<1>1. p \in Int /\ q \in Int /\ a = s * p /\ b = s * q
  BY Division
<1> HIDE DEF p, q
<1>2. q >= p + 1
  <2>1. SUFFICES ASSUME q <= p PROVE FALSE
    BY <1>1
  <2>2. s * q <= s * p
    BY <1>1, <2>1
  <2> QED
    BY <1>1, <2>2
<1>3. s * q >= s * (p + 1) /\ s * (p + 1) = s * p + s
  BY <1>1, <1>2
<1> QED
  BY <1>1, <1>3

\* Nothing is off a step of one.
LEMMA StepOfOne ==
  ASSUME NEW a \in Int
  PROVE  a % 1 = 0
  BY Division

-----------------------------------------------------------------------------
(* What boot and the menu make of a value.                                 *)

\* The constants of an option.
LEMMA OptionConstants ==
  ASSUME NEW o \in Options
  PROVE  /\ Least[o] \in Nat /\ Most[o] \in Nat /\ Default[o] \in Nat /\ Step[o] \in Nat \ {0}
         /\ Least[o] <= Default[o] /\ Default[o] <= Most[o]
         /\ OnStep(o, Least[o]) /\ OnStep(o, Most[o]) /\ OnStep(o, Default[o])
         /\ Step[o] = 1 \/ Least[o] >= Step[o]
<1>1. Least[o] % Step[o] \in {0} /\ Most[o] % Step[o] \in {0} /\ Default[o] % Step[o] \in {0}
  BY SettingsAssumption
<1> QED
  BY <1>1, SettingsAssumption DEF OnStep

\* The ends of the range and the default are legal.
LEMMA ConstantsLegal ==
  ASSUME NEW o \in Options
  PROVE  Legal(o, Least[o]) /\ Legal(o, Most[o]) /\ Legal(o, Default[o])
  BY OptionConstants DEF Legal, InRange

\* A value off its step is not zero, and its step is more than one.
LEMMA OffStep ==
  ASSUME NEW o \in Options, NEW v \in Nat, ~OnStep(o, v)
  PROVE  v > 0 /\ Step[o] > 1 /\ Least[o] >= Step[o]
<1>1. v = 0 => OnStep(o, v)
  <2>1. (Step[o] * 0 + 0) % Step[o] = 0
    BY OptionConstants, RemainderUnique
  <2> QED
    BY <2>1, OptionConstants DEF OnStep
<1>2. Step[o] # 1
  BY StepOfOne DEF OnStep
<1> QED
  BY <1>1, <1>2, OptionConstants

LEMMA BoundInRange ==
  ASSUME NEW o \in Options, NEW v \in Nat
  PROVE  Bound(o, v) \in Nat /\ InRange(o, Bound(o, v))
  BY OptionConstants DEF Bound, InRange

\* Rounding ends on the step, and bounding does not take it off again.
LEMMA RoundedOnStep ==
  ASSUME NEW o \in Options, NEW v \in Nat
  PROVE  /\ Rounded(o, v) \in Nat
         /\ OnStep(o, Bound(o, Rounded(o, v)))
<1> DEFINE s == Step[o]
           q == (v + s \div 2) \div s
<1>1. s \in Nat \ {0}
  BY OptionConstants
<1>2. s \div 2 \in Nat
  BY <1>1
<1>3. q \in Nat
  <2> DEFINE n == v + s \div 2
  <2>1. n \in Nat
    BY <1>2
  <2> HIDE DEF n, s
  <2>2. n \div s \in Nat
    BY <1>1, <2>1
  <2> QED
    BY <2>2 DEF n
<1>4. Rounded(o, v) = q * s
  BY DEF Rounded
<1> HIDE DEF s, q
<1>5. q * s \in Nat /\ q * s = s * q + 0
  BY <1>1, <1>3
<1>6. (s * q + 0) % s = 0
  BY <1>1, <1>3, RemainderUnique
<1>7. OnStep(o, Rounded(o, v))
  BY <1>4, <1>5, <1>6 DEF OnStep, s
<1> QED
  BY <1>4, <1>5, <1>7, OptionConstants DEF Bound

\* Whatever was read from a record, boot makes a legal value of it.
LEMMA NormalLegal ==
  ASSUME NEW o \in Options, NEW v \in Nat
  PROVE  Normal(o, v) \in Nat /\ Legal(o, Normal(o, v))
<1>1. CASE o = NoteThru
  <2>1. Least[o] = 0
    BY <1>1, SettingsAssumption
  <2>2. CASE v > Most[o]
    BY <1>1, <2>2, OptionConstants, ConstantsLegal DEF Normal
  <2>3. CASE ~(v > Most[o])
    <3>1. Normal(o, v) = v /\ v <= Most[o]
      BY <1>1, <2>3, OptionConstants DEF Normal
    <3>2. OnStep(o, v)
      BY <2>1, OffStep, OptionConstants
    <3> QED
      BY <2>1, <3>1, <3>2 DEF Legal, InRange
  <2> QED
    BY <2>2, <2>3
<1>2. CASE o # NoteThru /\ o = Hysteresis /\ ~OnStep(o, Bound(o, v))
  <2>1. Normal(o, v) = Bound(o, Rounded(o, Bound(o, v)))
    BY <1>2 DEF Normal
  <2>2. Bound(o, v) \in Nat /\ Rounded(o, Bound(o, v)) \in Nat
    BY BoundInRange, RoundedOnStep
  <2> QED
    BY <2>1, <2>2, BoundInRange, RoundedOnStep DEF Legal
<1>3. CASE o # NoteThru /\ ~(o = Hysteresis /\ ~OnStep(o, Bound(o, v)))
  <2>1. Normal(o, v) = Bound(o, v)
    BY <1>3 DEF Normal
  <2>2. Bound(o, v) \in Nat /\ InRange(o, Bound(o, v))
    BY BoundInRange
  <2>3. CASE OnStep(o, Bound(o, v))
    BY <2>1, <2>2, <2>3 DEF Legal
  <2>4. CASE ~OnStep(o, Bound(o, v))
    <3>1. o # Hysteresis
      BY <1>3, <2>4
    <3>2. Bound(o, v) > 0
      BY <2>2, <2>4, OffStep
    <3> QED
      BY <2>1, <2>2, <2>4, <3>1, <3>2, OptionConstants DEF Legal, InRange
  <2> QED
    BY <2>3, <2>4
<1> QED
  BY <1>1, <1>2, <1>3

\* What is in range and on its step, boot leaves alone.
LEMMA NormalKeeps ==
  ASSUME NEW o \in Options, NEW v \in Nat, InRange(o, v), OnStep(o, v)
  PROVE  Normal(o, v) = v
<1>1. Bound(o, v) = v
  BY OptionConstants DEF Bound, InRange
<1> QED
  BY <1>1, OptionConstants DEF Normal, InRange

\* A detent up leads from a legal value to a legal value.
LEMMA UpLegal ==
  ASSUME NEW o \in Options, NEW v \in Nat, Legal(o, v)
  PROVE  Up(o, v) \in Nat /\ Legal(o, Up(o, v))
<1>1. OnStep(o, v + Step[o]) <=> OnStep(o, v)
  <2>1. v \in Int /\ Step[o] \in Nat \ {0}
    BY OptionConstants
  <2>2. (v + Step[o]) % Step[o] = v % Step[o]
    BY <2>1, StepKeepsRemainder
  <2> QED
    BY <2>2 DEF OnStep
<1>2. CASE v + Step[o] > Most[o]
  BY <1>2, OptionConstants, ConstantsLegal DEF Up
<1>3. CASE ~(v + Step[o] > Most[o])
  <2>1. Up(o, v) = v + Step[o]
    BY <1>3 DEF Up
  <2> QED
    BY <1>1, <1>3, <2>1, OptionConstants DEF Legal, InRange
<1> QED
  BY <1>2, <1>3

\* A detent down too.  On the step a value above the range's end is a whole step
\* above it; off the step it may come to lie below, where the next detent wraps.
LEMMA DownLegal ==
  ASSUME NEW o \in Options, NEW v \in Nat, Legal(o, v)
  PROVE  Down(o, v) \in Nat /\ Legal(o, Down(o, v))
<1>1. OnStep(o, v - Step[o]) <=> OnStep(o, v)
  <2>1. v \in Int /\ Step[o] \in Nat \ {0}
    BY OptionConstants
  <2>2. (v - Step[o]) % Step[o] = v % Step[o]
    BY <2>1, StepKeepsRemainder
  <2> QED
    BY <2>2 DEF OnStep
<1>2. CASE v <= Least[o]
  BY <1>2, OptionConstants, ConstantsLegal DEF Down
<1>3. CASE ~(v <= Least[o])
  <2>1. Down(o, v) = v - Step[o]
    BY <1>3 DEF Down
  <2>2. CASE OnStep(o, v)
    <3>1. Least[o] + Step[o] <= v
      BY <1>3, <2>2, OptionConstants, MultiplesApart DEF OnStep
    <3> QED
      BY <1>1, <2>1, <2>2, <3>1, OptionConstants DEF Legal, InRange
  <2>3. CASE ~OnStep(o, v)
    <3>1. Least[o] >= Step[o]
      BY <2>3, OffStep
    <3> QED
      BY <1>1, <1>3, <2>1, <2>3, <3>1, OptionConstants DEF Legal, InRange
  <2> QED
    BY <2>2, <2>3
<1> QED
  BY <1>2, <1>3

-----------------------------------------------------------------------------
(* The inductive invariant.                                                *)

SettingsTypes ==
  /\ pc \in {"boot", "run"}
  /\ ram \in [Options -> Nat]
  /\ store \in [Options -> Nat \cup {NoValue}]
  /\ saved \in [Options -> Nat \cup {NoValue}]
  /\ todo \subseteq Options

\* A record that boot has read is in its option.
Loaded ==
  pc = "boot" =>
    \A o \in Options \ todo : store[o] # NoValue => ram[o] = store[o]

\* What is known to be saved is legal and still in the store: an option's record
\* is written by its own saves only.
SavedIsStored ==
  \A o \in Options : saved[o] # NoValue => saved[o] = store[o] /\ Legal(o, saved[o])

SettingsInv ==
  /\ SettingsTypes
  /\ OptionsInForce
  /\ Loaded
  /\ SavedIsStored
  /\ SavedOptionsReturn

LEMMA SettingsInitInv == Init => SettingsInv
<1> SUFFICES ASSUME Init PROVE SettingsInv
  OBVIOUS
<1>1. store \in [Options -> Nat \cup {NoValue}]
  <2>1. \A o \in Options : store[o] \in Nat \cup {NoValue}
    BY SettingsAssumption DEF Init
  <2> QED
    BY <2>1 DEF Init
<1>2. ram \in [Options -> Nat]
  BY SettingsAssumption DEF Init
<1>3. SettingsTypes /\ SavedIsStored
  BY <1>1, <1>2 DEF Init, SettingsTypes, SavedIsStored, Legal
<1> QED
  BY <1>3 DEF Init, SettingsInv, OptionsInForce, OptionsLegal, CopiesAreCurrent, Loaded,
     SavedOptionsReturn

\* A record is handed over to its option.
LEMMA LoadRecordInv ==
  ASSUME SettingsInv, NEW o \in Options, LoadRecord(o)
  PROVE  SettingsInv'
<1>1. /\ pc = "boot" /\ pc' = "boot" /\ todo' = todo \ {o}
      /\ UNCHANGED <<store, saved>>
      /\ ram' = IF store[o] = NoValue THEN ram ELSE [ram EXCEPT ![o] = store[o]]
  BY DEF LoadRecord
<1>2. SettingsTypes'
  BY <1>1 DEF SettingsInv, SettingsTypes
<1>3. Loaded'
  BY <1>1 DEF SettingsInv, SettingsTypes, Loaded
<1> QED
  BY <1>1, <1>2, <1>3 DEF SettingsInv, OptionsInForce, OptionsLegal, CopiesAreCurrent,
     SavedIsStored, SavedOptionsReturn

\* Whether all records were read or not, what is normalised is legal.
LEMMA NormaliseInForce ==
  ASSUME SettingsTypes, Normalise
  PROVE  /\ ram' \in [Options -> Nat]
         /\ OptionsInForce'
<1>1. \A o \in Options : ram'[o] = Normal(o, ram[o]) /\ ram[o] \in Nat
  BY DEF Normalise, SettingsTypes
<1>2. \A o \in Options : ram'[o] \in Nat /\ Legal(o, ram'[o])
  BY <1>1, NormalLegal
<1>3. norm' = ram'[Hysteresis] /\ forward' = (ram'[NoteThru] = 1)
  BY DEF Normalise
<1> QED
  BY <1>2, <1>3 DEF Normalise, OptionsInForce, OptionsLegal, CopiesAreCurrent

LEMMA LoadDoneInv ==
  ASSUME SettingsInv, LoadDone
  PROVE  SettingsInv'
<1>1. /\ pc = "boot" /\ pc' = "run" /\ todo = {} /\ UNCHANGED <<store, todo, saved>>
      /\ Normalise
  BY DEF LoadDone
<1>2. ram' \in [Options -> Nat] /\ OptionsInForce'
  BY <1>1, NormaliseInForce DEF SettingsInv
<1>3. ASSUME NEW o \in Options, saved[o] # NoValue, OnStep(o, saved[o])
      PROVE  ram'[o] = saved[o]
  <2>1. saved[o] \in Nat /\ saved[o] = store[o] /\ Legal(o, saved[o])
    BY <1>3 DEF SettingsInv, SettingsTypes, SavedIsStored
  <2>2. ram[o] = saved[o]
    BY <1>1, <1>3, <2>1 DEF SettingsInv, Loaded
  <2>3. InRange(o, saved[o])
    BY <1>3, <2>1 DEF Legal
  <2> QED
    BY <1>1, <1>3, <2>1, <2>2, <2>3, NormalKeeps DEF Normalise
<1> QED
  BY <1>1, <1>2, <1>3 DEF SettingsInv, SettingsTypes, Loaded, SavedIsStored, SavedOptionsReturn

LEMMA LoadFailsInv ==
  ASSUME SettingsInv, LoadFails
  PROVE  SettingsInv'
<1>1. ram' \in [Options -> Nat] /\ OptionsInForce'
  BY NormaliseInForce DEF SettingsInv, LoadFails
<1> QED
  BY <1>1 DEF LoadFails, SettingsInv, SettingsTypes, Loaded, SavedIsStored, SavedOptionsReturn

\* An option is set to a legal value and saved, or not.
LEMMA SetInv ==
  ASSUME SettingsInv, pc = "run", NEW o \in Options, NEW v \in Nat, Legal(o, v), Set(o, v)
  PROVE  SettingsInv'
<1>1. /\ pc' = pc /\ todo' = todo /\ (ready' <=> ready)
      /\ ram' = [ram EXCEPT ![o] = v]
      /\ norm' = IF o = Hysteresis THEN v ELSE norm
  BY DEF Set
<1>2. CopiesAreCurrent'
  <2>1. norm' = ram'[Hysteresis]
    BY <1>1, SettingsAssumption DEF SettingsInv, SettingsTypes, OptionsInForce, CopiesAreCurrent
  <2>2. CASE o = NoteThru
    <3>1. forward' = (v = 1) /\ ram'[NoteThru] = v
      BY <1>1, <2>2 DEF Set, SettingsInv, SettingsTypes
    <3> QED
      BY <2>1, <3>1 DEF CopiesAreCurrent
  <2>3. CASE o # NoteThru
    <3>1. forward' = forward /\ ram'[NoteThru] = ram[NoteThru]
      BY <1>1, <2>3, SettingsAssumption DEF Set, SettingsInv, SettingsTypes
    <3>2. forward = (ram[NoteThru] = 1)
      BY DEF SettingsInv, OptionsInForce, CopiesAreCurrent
    <3> QED
      BY <2>1, <3>1, <3>2 DEF CopiesAreCurrent
  <2> QED
    BY <2>2, <2>3
<1>3. OptionsLegal'
  BY <1>1 DEF SettingsInv, SettingsTypes, OptionsInForce, OptionsLegal
<1>4. PICK ok \in BOOLEAN :
        /\ store' = IF ready /\ ok THEN [store EXCEPT ![o] = v] ELSE store
        /\ saved' = IF ready /\ ok THEN [saved EXCEPT ![o] = v] ELSE saved
        /\ unsaved' = IF ready /\ ok THEN unsaved \ {o} ELSE unsaved \cup {o}
  BY DEF Set, Save
<1>5. SettingsTypes' /\ SavedIsStored'
  BY <1>1, <1>4 DEF SettingsInv, SettingsTypes, SavedIsStored
<1>6. SavedOptionsReturn'
  BY <1>1, <1>4 DEF SettingsInv, SettingsTypes, SavedOptionsReturn
<1>7. Loaded'
  BY <1>1 DEF Loaded
<1> QED
  BY <1>2, <1>3, <1>5, <1>6, <1>7 DEF SettingsInv, OptionsInForce

LEMMA EditInv ==
  ASSUME SettingsInv, NEW o \in Options, Edit(o) \/ Reset(o)
  PROVE  SettingsInv'
<1>1. pc = "run" /\ ram[o] \in Nat /\ Legal(o, ram[o])
  BY DEF Edit, Reset, SettingsInv, SettingsTypes, OptionsInForce, OptionsLegal
<1>2. PICK v \in {Up(o, ram[o]), Down(o, ram[o]), Default[o]} : Set(o, v)
  BY DEF Edit, Reset
<1>3. v \in Nat /\ Legal(o, v)
  BY <1>1, <1>2, UpLegal, DownLegal, ConstantsLegal, OptionConstants
<1> QED
  BY <1>1, <1>2, <1>3, SetInv

\* The statics are lost, the records stay.
LEMMA PowerCycleInv ==
  ASSUME SettingsInv, PowerCycle
  PROVE  SettingsInv'
<1>1. /\ pc' = "boot" /\ ram' = Default /\ todo' = Options /\ UNCHANGED <<store, saved>>
  BY DEF PowerCycle, Statics
<1> QED
  BY <1>1, SettingsAssumption DEF SettingsInv, SettingsTypes, OptionsInForce, OptionsLegal,
     CopiesAreCurrent, Loaded, SavedIsStored, SavedOptionsReturn

LEMMA SettingsStepInv == SettingsInv /\ [Next]_vars => SettingsInv'
<1> SUFFICES ASSUME SettingsInv, [Next]_vars PROVE SettingsInv'
  OBVIOUS
<1>1. CASE UNCHANGED vars
  BY <1>1 DEF vars, SettingsInv, SettingsTypes, OptionsInForce, OptionsLegal, CopiesAreCurrent,
     Loaded, SavedIsStored, SavedOptionsReturn
<1> QED
  BY <1>1, LoadRecordInv, EditInv, LoadDoneInv, LoadFailsInv, PowerCycleInv DEF Next

-----------------------------------------------------------------------------
\* Whatever the records held, however a read of them fails and however the menu
\* then steps, wraps and resets: no option leaves its range, except a value read
\* off its step, and that never reaches zero; and the two copies are the options.
THEOREM OptionsStayInForce == Spec => []OptionsInForce
<1>1. SettingsInv => OptionsInForce
  BY DEF SettingsInv
<1> QED
  BY <1>1, SettingsInitInv, SettingsStepInv, PTL DEF Spec

\* What was saved on the step is found again after any number of power cycles.
THEOREM SavedOptionsAlwaysReturn == Spec => []SavedOptionsReturn
<1>1. SettingsInv => SavedOptionsReturn
  BY DEF SettingsInv
<1> QED
  BY <1>1, SettingsInitInv, SettingsStepInv, PTL DEF Spec
=============================================================================

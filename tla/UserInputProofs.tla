--------------------------- MODULE UserInputProofs ---------------------------
(***************************************************************************)
(* The controls.  The encoder follows its shaft for every bound of the     *)
(* count and every set of positions, not only those near the starting one; *)
(* the two kinds of button keep their promises for every window, rest and  *)
(* spacing of the polls.  What each control does alone it does in          *)
(* UserInput too, for a step of one leaves the others as they are.         *)
(***************************************************************************)
EXTENDS UserInput, TLAPS

-----------------------------------------------------------------------------
(* The encoder's shaft.                                                    *)

\* The half steps of the shaft that the interrupts have seen.  An edge of B
\* that still waits for its interrupt has just been crossed, upwards if the
\* quarter step is even and downwards if it is odd.
Counted ==
  IF prevB = ContactB(pos) THEN HalfSteps(pos)
  ELSE IF pos % 2 = 0 THEN HalfSteps(pos) - 1 ELSE HalfSteps(pos) + 1

EncoderInv ==
  /\ TypeOK
  /\ ~irq => prevB = ContactB(pos)
  /\ ~clipped => taken + delta = HalfSteps(Start) - Counted

-----------------------------------------------------------------------------
(* The geometry of the quadrature.                                         *)

\* From one quarter step to the next up, B has an edge exactly when the number
\* of half steps grows, and that is when the new quarter step is even.
LEMMA QuarterUp ==
  ASSUME NEW p \in Int
  PROVE  IF p % 2 = 0
           THEN ContactB(p + 1) = ContactB(p) /\ HalfSteps(p + 1) = HalfSteps(p)
           ELSE /\ ContactB(p + 1) # ContactB(p)
                /\ HalfSteps(p + 1) = HalfSteps(p) + 1
                /\ (p + 1) % 2 = 0
  BY DEF ContactB, HalfSteps

\* Just after an edge of B, contact A agrees with B when the edge was crossed
\* upwards and differs when it was crossed downwards.
LEMMA LevelsTellDirection ==
  ASSUME NEW p \in Int
  PROVE  (ContactA(p) = ContactB(p)) <=> p % 2 = 0
  BY DEF ContactA, ContactB

LEMMA HalfStepsInt ==
  ASSUME NEW p \in Int
  PROVE  HalfSteps(p) \in Int /\ ContactB(p) \in BOOLEAN
  BY DEF HalfSteps, ContactB

LEMMA ClampBounded ==
  ASSUME NEW n \in Int
  PROVE  Clamp(n) \in -DeltaMax..DeltaMax
  BY EncoderAssumption DEF Clamp

-----------------------------------------------------------------------------
LEMMA EncoderInitInv == Init => EncoderInv
<1> SUFFICES ASSUME Init PROVE EncoderInv
  OBVIOUS
<1>1. Start \in Int /\ pos = Start /\ prevB = ContactB(pos)
  BY EncoderAssumption DEF Init
<1>2. TypeOK
  <2>1. 0 \in Int /\ 0 \in -DeltaMax..DeltaMax
    BY EncoderAssumption
  <2>2. prevB \in BOOLEAN /\ pos \in Positions
    BY <1>1, HalfStepsInt, EncoderAssumption
  <2> QED
    BY <2>1, <2>2, Zenon DEF Init, TypeOK
<1>3. Counted = HalfSteps(Start)
  BY <1>1 DEF Counted
<1> QED
  BY <1>1, <1>2, <1>3, HalfStepsInt DEF Init, EncoderInv

\* The shaft moves by a quarter step when no edge is waiting.
LEMMA TurnInv ==
  ASSUME EncoderInv, NEW p \in Positions, Turn(p)
  PROVE  EncoderInv'
<1>1. /\ ~irq /\ pos \in Int /\ p \in Int
      /\ p = pos + 1 \/ p = pos - 1
      /\ pos' = p /\ prevB' = prevB /\ prevB = ContactB(pos)
  BY EncoderAssumption DEF Turn, EncoderInv, TypeOK
<1>2. TypeOK'
  BY HalfStepsInt, <1>1 DEF Turn, EncoderInv, TypeOK
<1>3. ~irq' => prevB' = ContactB(pos')
  BY <1>1 DEF Turn
<1>4. Counted' = Counted
  <2>1. CASE p = pos + 1
    BY <1>1, <2>1, QuarterUp, HalfStepsInt DEF Counted
  <2>2. CASE p = pos - 1
    <3>1. pos = p + 1
      BY <1>1, <2>2
    <3> QED
      BY <1>1, <3>1, QuarterUp, HalfStepsInt DEF Counted
  <2> QED
    BY <1>1, <2>1, <2>2
<1> QED
  BY <1>2, <1>3, <1>4 DEF Turn, EncoderInv

\* The contact bounces back over its edge, or about it, before the interrupt.
LEMMA ChatterInv ==
  ASSUME EncoderInv, Chatter
  PROVE  EncoderInv'
<1>1. /\ pos \in Int /\ pos' \in Int /\ pos' \in Positions
      /\ pos' = pos + 1 \/ pos' = pos - 1
      /\ ContactB(pos') = prevB /\ prevB' = prevB
  BY EncoderAssumption DEF Chatter, EncoderInv, TypeOK
<1>2. TypeOK'
  BY <1>1 DEF Chatter, EncoderInv, TypeOK
<1>3. Counted' = HalfSteps(pos')
  BY <1>1 DEF Counted
<1>4. Counted = HalfSteps(pos')
  <2>1. CASE pos' = pos + 1
    BY <1>1, <2>1, QuarterUp, HalfStepsInt DEF Counted
  <2>2. CASE pos' = pos - 1
    <3>1. pos = pos' + 1 /\ pos' \in Int
      BY <1>1, <2>2
    <3>2. CASE pos' % 2 = 0
      BY <1>1, <3>1, <3>2, QuarterUp DEF Counted
    <3>3. CASE pos' % 2 # 0
      <4>1. /\ ContactB(pos) # prevB
            /\ HalfSteps(pos) = HalfSteps(pos') + 1
            /\ pos % 2 = 0
        BY <1>1, <3>1, <3>3, QuarterUp
      <4> QED
        BY <1>1, <4>1, HalfStepsInt DEF Counted
    <3> QED
      BY <3>2, <3>3
  <2> QED
    BY <1>1, <2>1, <2>2
<1> QED
  BY <1>1, <1>2, <1>3, <1>4 DEF Chatter, EncoderInv

\* The interrupt counts the edge that it finds, with the sign the levels give.
LEMMA IrqInv ==
  ASSUME EncoderInv, Irq
  PROVE  EncoderInv'
<1> DEFINE b    == ContactB(pos)
           step == IF ContactA(pos) = b THEN -1 ELSE 1
           next == IF b # prevB THEN Clamp(delta + step) ELSE delta
<1>1. /\ pos \in Int /\ pos' = pos /\ taken' = taken /\ irq' = FALSE
      /\ prevB' = ContactB(pos) /\ delta' = next
      /\ clipped' = (clipped \/ (b # prevB /\ next # delta + step))
  BY EncoderAssumption DEF Irq, EncoderInv, TypeOK
<1>2. delta \in Int /\ step \in Int /\ next \in -DeltaMax..DeltaMax
  BY ClampBounded, EncoderAssumption DEF EncoderInv, TypeOK
<1>3. TypeOK'
  <2>1. prevB' \in BOOLEAN /\ delta' \in -DeltaMax..DeltaMax
    BY <1>1, <1>2, HalfStepsInt
  <2>2. clipped' \in BOOLEAN /\ irq' \in BOOLEAN
    BY <1>1, Zenon
  <2> QED
    BY <1>1, <2>1, <2>2 DEF EncoderInv, TypeOK
<1>4. Counted' = HalfSteps(pos)
  BY <1>1 DEF Counted
<1>5. ~clipped' => delta' = delta + (IF b # prevB THEN step ELSE 0)
  <2>1. ~clipped' => ~(b # prevB /\ next # delta + step)
    BY <1>1, Zenon
  <2> QED
    BY <1>1, <1>2, <2>1
<1>6. Counted = HalfSteps(pos) + (IF b # prevB THEN step ELSE 0)
  BY <1>1, LevelsTellDirection, HalfStepsInt DEF Counted
<1>7. ~clipped => taken + delta = HalfSteps(Start) - Counted
  BY DEF EncoderInv
<1>8. ~clipped' => taken' + delta' = HalfSteps(Start) - Counted'
  <2>1. HalfSteps(Start) \in Int /\ HalfSteps(pos) \in Int /\ taken \in Int
    BY <1>1, EncoderAssumption, HalfStepsInt DEF EncoderInv, TypeOK
  <2>2. ~clipped' => ~clipped
    BY <1>1, Zenon
  <2> QED
    BY <1>1, <1>2, <1>4, <1>5, <1>6, <1>7, <2>1, <2>2
<1> QED
  BY <1>1, <1>3, <1>8 DEF EncoderInv

\* The main loop takes the count: what it gains the count loses.
LEMMA PopInv ==
  ASSUME EncoderInv, Pop
  PROVE  EncoderInv'
<1>1. delta \in Int /\ taken \in Int
  BY EncoderAssumption DEF EncoderInv, TypeOK
<1>2. TypeOK'
  BY <1>1, EncoderAssumption DEF Pop, EncoderInv, TypeOK
<1>3. Counted' = Counted
  BY DEF Pop, Counted
<1> QED
  BY <1>1, <1>2, <1>3 DEF Pop, EncoderInv

LEMMA EncoderStepInv ==
  EncoderInv /\ [Next]_vars => EncoderInv'
<1> SUFFICES ASSUME EncoderInv, [Next]_vars PROVE EncoderInv'
  OBVIOUS
<1>1. CASE UNCHANGED vars
  BY <1>1 DEF vars, EncoderInv, TypeOK, Counted
<1> QED
  BY <1>1, TurnInv, ChatterInv, IrqInv, PopInv DEF Next

-----------------------------------------------------------------------------
\* The count stays within its bound and the rest of the state keeps its range.
THEOREM EncoderTypeCorrect == Spec => []TypeOK
<1>1. EncoderInv => TypeOK
  BY DEF EncoderInv
<1> QED
  BY <1>1, EncoderInitInv, EncoderStepInv, PTL DEF Spec

\* Until the count saturates, no turning back and forth, no chatter and no
\* order of interrupts and main loop turns makes the count drift from the
\* shaft.
THEOREM EncoderFollowsShaft == Spec => []FollowsShaft
<1>1. EncoderInv => FollowsShaft
  <2> SUFFICES ASSUME EncoderInv, ~irq, ~clipped
               PROVE  taken + delta = HalfSteps(Start) - HalfSteps(pos)
    BY DEF FollowsShaft
  <2>1. Counted = HalfSteps(pos)
    BY DEF EncoderInv, Counted
  <2> QED
    BY <2>1 DEF EncoderInv
<1> QED
  BY <1>1, EncoderInitInv, EncoderStepInv, PTL DEF Spec

-----------------------------------------------------------------------------
(* The encoder's push button.                                              *)

\* After a poll that follows the last move of the contact the two agree on the
\* level, and the window has run for as long as the contact has been steady,
\* but for one period; after a poll that comes a window and a period after the
\* move the level shows.
PushInv ==
  /\ pollAge \in 0..PollPeriod
  /\ sinceRaw \in 0..Debounce /\ sinceShown \in 0..Debounce /\ steadyFor \in Nat
  /\ ~initialized => rawPrev = debounced
  /\ steadyFor > pollAge =>
       /\ initialized /\ rawPrev = level
       /\ sinceRaw >= Push!AtMost(steadyFor - PollPeriod, Debounce)
  /\ steadyFor - pollAge >= Debounce + PollPeriod => debounced = level
  /\ rawPrev # debounced => sinceShown >= sinceRaw

LEMMA PushInitInv == Push!Init => PushInv
  BY TimingAssumption DEF Push!Init, PushInv

LEMMA PushStepInv == PushInv /\ [Push!Next]_(Push!vars) => PushInv'
<1> SUFFICES ASSUME PushInv, [Push!Next]_(Push!vars) PROVE PushInv'
  OBVIOUS
<1> USE TimingAssumption DEF PushInv, Push!AtMost
<1>1. CASE Push!ContactMoves
  BY <1>1 DEF Push!ContactMoves
<1>2. CASE Push!Tick
  <2>1. /\ pollAge < PollPeriod /\ pollAge' = pollAge + 1
        /\ sinceRaw' = Push!AtMost(sinceRaw + 1, Debounce)
        /\ steadyFor' = Push!AtMost(steadyFor + 1, Debounce + 2 * PollPeriod)
        /\ sinceShown' = Push!AtMost(sinceShown + 1, Debounce)
        /\ UNCHANGED <<level, debounced, rawPrev, initialized>>
    BY <1>2 DEF Push!Tick, Push!ShowsWithin
  <2>2. Debounce \in Nat /\ PollPeriod \in Nat \ {0}
    BY TimingAssumption
  <2>3. steadyFor' \in Nat /\ pollAge' \in Nat /\ (steadyFor' > pollAge' => steadyFor > pollAge)
        /\ steadyFor' - pollAge' <= steadyFor - pollAge
    BY <2>1, <2>2
  <2>4. sinceRaw' >= Push!AtMost(steadyFor' - PollPeriod, Debounce) \/ steadyFor' <= pollAge'
    BY <2>1, <2>2, <2>3
  <2> QED
    BY <2>1, <2>2, <2>3, <2>4
<1>3. CASE Push!FirstPoll
  BY <1>3 DEF Push!FirstPoll
<1>4. CASE Push!Poll
  BY <1>4 DEF Push!Poll, Push!Show
<1>5. CASE UNCHANGED Push!vars
  BY <1>5 DEF Push!vars
<1> QED
  BY <1>1, <1>2, <1>3, <1>4, <1>5 DEF Push!Next

\* The debounced state moves only when the contact was seen to differ for a whole
\* window, which began no earlier than the last move showed.
LEMMA PushMovesOnce ==
  ASSUME PushInv, [Push!Next]_(Push!vars), initialized, debounced' # debounced
  PROVE  sinceShown >= Debounce
<1>1. CASE Push!Poll
  BY <1>1, TimingAssumption DEF PushInv, Push!Poll, Push!Show
<1> QED
  BY <1>1 DEF Push!Next, Push!ContactMoves, Push!Tick, Push!FirstPoll, Push!vars

-----------------------------------------------------------------------------
(* A button on an interrupt.                                               *)

\* A release that is not a click yet: the interrupt has reported it and the main
\* loop has not taken it, or the interrupt has still to report it.  There is
\* never more than one.
Outstanding == (changed /\ ~pressed) \/ (pressed /\ ~target)

\* During a move the window is open until the interrupt has accepted the level
\* the hand is going to, and from then on closed for longer than the contact
\* bounces; when the hand has rested the window is open again.
WindowInv ==
  /\ sinceIrq \in 0..Debounce /\ phaseAge \in Nat
  /\ ~moving =>
       /\ closed = target
       /\ edge => phaseAge = 0
       /\ sinceIrq >= Button!AtMost(phaseAge, Debounce)
       /\ pressed # target => edge /\ sinceIrq = Debounce
  /\ moving =>
       /\ phaseAge <= Bounce
       /\ pressed = target => sinceIrq <= phaseAge
       /\ pressed # target => sinceIrq = Debounce /\ (edge \/ closed = pressed)

\* Every release so far is a click or outstanding; fewer are only if two
\* polls have been as far apart as a rest, which an event overtaken by the next
\* move proves.
ClickInv ==
  /\ pollAge \in Nat /\ clicks \in Nat /\ releases \in Nat
  /\ pollAge >= Rest => late
  /\ ~moving /\ changed /\ ~late => pollAge >= phaseAge
  /\ pressed # target /\ changed => late
  /\ clicks <= releases /\ (Outstanding => clicks < releases)
  /\ ~late /\ Outstanding => releases = clicks + 1
  /\ ~late /\ ~Outstanding => releases = clicks

LevelsBoolean == {closed, pressed, target} \subseteq BOOLEAN

ButtonInv == LevelsBoolean /\ WindowInv /\ ClickInv

LEMMA Timing ==
  /\ Debounce \in Nat /\ Bounce \in Nat /\ Rest \in Nat /\ PollPeriod \in Nat
  /\ Bounce < Debounce /\ Debounce <= Rest
  BY TimingAssumption, HandAssumption

LEMMA ButtonInitInv == Button!Init => ButtonInv
  BY Timing DEF Button!Init, ButtonInv, LevelsBoolean, WindowInv, ClickInv, Outstanding,
     Button!AtMost

\* The hand begins a move: the window is open, for it has rested.
LEMMA MoveInv ==
  ASSUME ButtonInv, Button!Move
  PROVE  ButtonInv'
<1>1. /\ ~moving /\ phaseAge >= Rest /\ target' = ~closed /\ closed' = ~closed
      /\ edge' = TRUE /\ moving' = TRUE /\ phaseAge' = 0
      /\ releases' = IF target' THEN releases ELSE releases + 1
      /\ UNCHANGED <<pressed, changed, sinceIrq, pollAge, late, clicks>>
  BY DEF Button!Move, Button!driverVars
<1>2. LevelsBoolean'
  BY <1>1 DEF ButtonInv, LevelsBoolean
<1>3. closed = target /\ ~edge /\ sinceIrq = Debounce /\ pressed = target /\ pressed # target'
  BY <1>1, Timing DEF ButtonInv, LevelsBoolean, WindowInv, Button!AtMost
<1>4. WindowInv'
  BY <1>1, <1>3, Timing DEF ButtonInv, WindowInv
<1>5. changed => late
  BY <1>1, <1>3, Timing DEF ButtonInv, WindowInv, ClickInv
<1>6. CASE closed
  <2>1. pressed /\ pressed' /\ target /\ ~target' /\ releases' = releases + 1
    BY <1>1, <1>3, <1>6
  <2>2. ~Outstanding /\ Outstanding'
    BY <2>1 DEF Outstanding
  <2>3. /\ releases' = releases + 1 /\ clicks' = clicks /\ pollAge' = pollAge
        /\ (late' <=> late) /\ (changed' <=> changed) /\ moving'
    BY <1>1, <2>1
  <2>4. ClickInv'
    BY <1>5, <2>2, <2>3 DEF ButtonInv, ClickInv
  <2> QED
    BY <1>2, <1>4, <2>4 DEF ButtonInv
<1>7. CASE ~closed
  <2>1. ~pressed /\ ~pressed' /\ ~target /\ target' /\ releases' = releases
    BY <1>1, <1>3, <1>7
  <2>2. ClickInv'
    BY <1>1, <1>5, <2>1 DEF ButtonInv, ClickInv, Outstanding
  <2> QED
    BY <1>2, <1>4, <2>2 DEF ButtonInv
<1> QED
  BY <1>6, <1>7

LEMMA BouncesInv ==
  ASSUME ButtonInv, Button!ContactBounces
  PROVE  ButtonInv'
<1>1. /\ moving /\ closed' = ~closed /\ edge' = TRUE
      /\ UNCHANGED <<pressed, changed, sinceIrq, moving, target, phaseAge, pollAge, late,
                     releases, clicks>>
  BY DEF Button!ContactBounces, Button!driverVars, Button!handVars
<1>2. LevelsBoolean' /\ WindowInv'
  BY <1>1 DEF ButtonInv, LevelsBoolean, WindowInv
<1>3. ClickInv'
  BY <1>1 DEF ButtonInv, ClickInv, Outstanding
<1> QED
  BY <1>2, <1>3 DEF ButtonInv

\* The contact settles where the hand went: if the interrupt has not accepted that
\* level it is still to run, with the window open.
LEMMA SettleInv ==
  ASSUME ButtonInv, Button!Settle
  PROVE  ButtonInv'
<1>1. /\ moving /\ closed = target /\ ~moving' /\ phaseAge' = 0
      /\ UNCHANGED <<closed, edge, pressed, changed, sinceIrq, target, pollAge, late,
                     releases, clicks>>
  BY DEF Button!Settle, Button!driverVars
<1>2. LevelsBoolean' /\ WindowInv'
  BY <1>1, Timing DEF ButtonInv, LevelsBoolean, WindowInv, Button!AtMost
<1>3. ClickInv'
  BY <1>1 DEF ButtonInv, ClickInv, Outstanding
<1> QED
  BY <1>2, <1>3 DEF ButtonInv

LEMMA ButtonTickInv ==
  ASSUME ButtonInv, Button!Tick
  PROVE  ButtonInv'
<1>1. /\ ~edge /\ (moving => phaseAge < Bounce)
      /\ sinceIrq' = Button!AtMost(sinceIrq + 1, Debounce)
      /\ phaseAge' = Button!AtMost(phaseAge + 1, IF moving THEN Bounce ELSE Rest)
      /\ pollAge' = pollAge + 1 /\ late' = (late \/ pollAge' >= Rest)
      /\ UNCHANGED <<closed, edge, pressed, changed, moving, target, releases, clicks>>
  BY DEF Button!Tick
<1>2. LevelsBoolean' /\ WindowInv'
  BY <1>1, Timing DEF ButtonInv, LevelsBoolean, WindowInv, Button!AtMost
<1>3. late' <=> late \/ pollAge + 1 >= Rest
  BY <1>1, Zenon
<1>4. (Outstanding' <=> Outstanding) /\ clicks' = clicks /\ releases' = releases
  BY <1>1 DEF Outstanding
<1>5. /\ pollAge' = pollAge + 1 /\ pollAge \in Nat /\ phaseAge \in Nat
      /\ phaseAge' \in Nat /\ phaseAge' <= phaseAge + 1
  BY <1>1, Timing DEF ButtonInv, ClickInv, WindowInv, Button!AtMost
<1>6. (moving' <=> moving) /\ (changed' <=> changed) /\ pressed' = pressed /\ target' = target
  BY <1>1
<1>7. ClickInv'
  BY <1>3, <1>4, <1>5, <1>6, Timing DEF ButtonInv, ClickInv
<1> QED
  BY <1>2, <1>7 DEF ButtonInv

\* The interrupt accepts a level only if the hand is going to it, once in a move.
LEMMA ButtonIrqInv ==
  ASSUME ButtonInv, Button!Irq
  PROVE  ButtonInv'
<1>1. /\ edge /\ ~edge'
      /\ UNCHANGED <<closed, moving, target, phaseAge, pollAge, late, releases, clicks>>
  BY DEF Button!Irq, Button!handVars
<1>2. CASE sinceIrq >= Debounce /\ closed # pressed
  <2>1. pressed' = closed /\ changed' = TRUE /\ sinceIrq' = 0
    BY <1>2 DEF Button!Irq
  <2>2. closed = target /\ pressed # target
    BY <1>1, <1>2, Timing DEF ButtonInv, LevelsBoolean, WindowInv
  <2>3. LevelsBoolean' /\ WindowInv'
    BY <1>1, <2>1, <2>2, Timing DEF ButtonInv, LevelsBoolean, WindowInv, Button!AtMost
  <2>4. CASE pressed
    <3>1. ~target /\ ~pressed' /\ changed'
      BY <2>1, <2>2, <2>4 DEF ButtonInv, LevelsBoolean
    <3>2. ClickInv'
      BY <1>1, <2>1, <2>2, <2>4, <3>1 DEF ButtonInv, ClickInv, WindowInv, Outstanding
    <3> QED
      BY <2>3, <3>2 DEF ButtonInv
  <2>5. CASE ~pressed
    <3>1. target /\ pressed'
      BY <2>1, <2>2, <2>5 DEF ButtonInv, LevelsBoolean
    <3>2. ~Outstanding' /\ (~late => ~Outstanding)
      BY <1>1, <2>2, <2>5, <3>1 DEF ButtonInv, ClickInv, Outstanding
    <3>3. ~moving' => phaseAge' = 0
      BY <1>1 DEF ButtonInv, WindowInv
    <3>4. ClickInv'
      BY <1>1, <2>1, <2>2, <3>2, <3>3 DEF ButtonInv, ClickInv
    <3> QED
      BY <2>3, <3>4 DEF ButtonInv
  <2> QED
    BY <2>4, <2>5
<1>3. CASE ~(sinceIrq >= Debounce /\ closed # pressed)
  <2>1. UNCHANGED <<pressed, changed, sinceIrq>>
    BY <1>3 DEF Button!Irq, Button!driverVars
  <2>2. LevelsBoolean' /\ WindowInv'
    BY <1>1, <1>3, <2>1, Timing DEF ButtonInv, LevelsBoolean, WindowInv
  <2>3. ClickInv'
    BY <1>1, <2>1 DEF ButtonInv, ClickInv, Outstanding
  <2> QED
    BY <2>2, <2>3 DEF ButtonInv
<1> QED
  BY <1>2, <1>3

\* The main loop takes what is reported.
LEMMA ButtonPopInv ==
  ASSUME ButtonInv, Button!Pop
  PROVE  ButtonInv'
<1>1. /\ changed' = FALSE /\ pollAge' = 0
      /\ clicks' = IF changed /\ ~pressed THEN clicks + 1 ELSE clicks
      /\ UNCHANGED <<closed, edge, pressed, sinceIrq, moving, target, phaseAge, late, releases>>
  BY DEF Button!Pop, Button!handVars
<1>2. LevelsBoolean' /\ WindowInv'
  BY <1>1 DEF ButtonInv, LevelsBoolean, WindowInv
<1>3. ClickInv'
  BY <1>1, Timing DEF ButtonInv, ClickInv, Outstanding
<1> QED
  BY <1>2, <1>3 DEF ButtonInv

LEMMA ButtonStepInv == ButtonInv /\ [Button!Next]_(Button!vars) => ButtonInv'
<1> SUFFICES ASSUME ButtonInv, [Button!Next]_(Button!vars) PROVE ButtonInv'
  OBVIOUS
<1>1. CASE UNCHANGED Button!vars
  BY <1>1 DEF Button!vars, Button!driverVars, Button!handVars, ButtonInv, LevelsBoolean,
     WindowInv, ClickInv, Outstanding
<1> QED
  BY <1>1, MoveInv, BouncesInv, SettleInv, ButtonTickInv, ButtonIrqInv, ButtonPopInv
     DEF Button!Next

-----------------------------------------------------------------------------
(* Together.                                                               *)

\* A step of UserInput is a step of each control or leaves it alone.
LEMMA EachControlSteps ==
  [InputNext]_inputVars =>
    [Next]_vars /\ [Button!Next]_(Button!vars) /\ [Push!Next]_(Push!vars)
<1> SUFFICES ASSUME [InputNext]_inputVars
             PROVE  [Next]_vars /\ [Button!Next]_(Button!vars) /\ [Push!Next]_(Push!vars)
  OBVIOUS
<1> USE DEF buttonVars, pushVars, Button!vars, Button!driverVars, Button!handVars, Push!vars
<1>1. CASE OnButton
  BY <1>1 DEF OnButton, Button!Next, Button!Move, Button!ContactBounces, Button!Settle
<1>2. CASE OnPush
  BY <1>2 DEF OnPush, Push!Next, Push!ContactMoves
<1>3. CASE OnShaft
  BY <1>3 DEF OnShaft, Next
<1>4. CASE ButtonInterrupt
  BY <1>4 DEF ButtonInterrupt, Button!Next, Button!Irq
<1>5. CASE ShaftInterrupt
  BY <1>5 DEF ShaftInterrupt, Next
<1>6. CASE TimePasses
  BY <1>6 DEF TimePasses, Button!Next, Push!Next
<1>7. CASE PollControls
  BY <1>7 DEF PollControls, Next, Button!Next, Push!Next
<1>8. CASE UNCHANGED inputVars
  BY <1>8 DEF inputVars
<1> QED
  BY <1>1, <1>2, <1>3, <1>4, <1>5, <1>6, <1>7, <1>8 DEF InputNext

\* So each control does in UserInput what it does alone.
LEMMA EachControlAlone == InputSpec => Spec /\ Button!Spec /\ Push!Spec
<1>1. InputInit => Init /\ Button!Init /\ Push!Init
  BY DEF InputInit
<1> QED
  BY <1>1, EachControlSteps, PTL DEF InputSpec, Spec, Button!Spec, Push!Spec

LEMMA ButtonAlways == InputSpec => []ButtonInv
  BY EachControlAlone, ButtonInitInv, ButtonStepInv, PTL DEF Button!Spec

LEMMA PushAlways == InputSpec => []PushInv
  BY EachControlAlone, PushInitInv, PushStepInv, PTL DEF Push!Spec

\* The encoder follows its shaft among the other controls, too.
THEOREM ShaftFollowedAmongControls == InputSpec => []FollowsShaft
  BY EachControlAlone, EncoderFollowsShaft, PTL

\* For every window and every hand that rests for as long, a button at rest is
\* reported as it is, however its contact has bounced.
THEOREM RestingLevelAlwaysReported == InputSpec => []RestingLevelReported
<1>1. ButtonInv => RestingLevelReported
  BY DEF ButtonInv, WindowInv, RestingLevelReported, Button!RestingLevelReported, Button!AtRest
<1> QED
  BY <1>1, ButtonAlways, PTL

\* No bounce makes two clicks of a release, and none is missed unless two polls
\* are as far apart as two moves of the hand.
THEOREM ReleasesAlwaysClickOnce == InputSpec => []EveryReleaseClicksOnce
<1>1. ButtonInv => EveryReleaseClicksOnce
  <2> SUFFICES ASSUME ButtonInv PROVE EveryReleaseClicksOnce
    OBVIOUS
  <2>1. clicks <= releases
    BY DEF ButtonInv, ClickInv
  <2>2. ASSUME ~moving, ~edge, ~late
        PROVE  clicks + (IF changed /\ ~pressed THEN 1 ELSE 0) = releases
    <3>1. pressed = target
      BY <2>2 DEF ButtonInv, WindowInv
    <3> QED
      BY <2>2, <3>1 DEF ButtonInv, LevelsBoolean, ClickInv, Outstanding
  <2> QED
    BY <2>1, <2>2 DEF EveryReleaseClicksOnce, Button!EveryReleaseClicksOnce, Button!AtRest
<1> QED
  BY <1>1, ButtonAlways, PTL

\* The push button shows a steady contact within its window and two polls.
THEOREM SteadyContactAlwaysShows == InputSpec => []SteadyContactShows
<1>1. PushInv => SteadyContactShows
  BY TimingAssumption DEF PushInv, SteadyContactShows, Push!SteadyContactShows,
     Push!ShowsWithin
<1> QED
  BY <1>1, PushAlways, PTL

\* And it moves at most once in a window.
THEOREM PushMovesOncePerWindow == InputSpec => MovesOncePerWindow
<1>1. PushInv /\ [Push!Next]_(Push!vars)
        => [initialized /\ debounced' # debounced => sinceShown >= Debounce]_(Push!vars)
  BY PushMovesOnce
<1> QED
  BY <1>1, EachControlAlone, PushAlways, PTL
     DEF Push!Spec, MovesOncePerWindow, Push!MovesOncePerWindow
=============================================================================

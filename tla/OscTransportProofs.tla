------------------------- MODULE OscTransportProofs -------------------------
(***************************************************************************)
(* The transport for every set of targets, ports and triggers, every size  *)
(* of the queues and any number of failures: one socket, one target.       *)
(***************************************************************************)
EXTENDS OscTransport, TLAPS

\* What an action does to the socket and the target.
Touches ==
  \/ UNCHANGED sockVars
  \/ Ensured
  \/ NotEnsured

\* In normal mode the address in use is the configured one: the menu is left
\* only through ui_exit_menu_mode, which renews it, and cfg moves only inside.
\* Before the first use nothing is promised of remote.
TargetInv ==
  /\ mode \in {"normal", "menu"}
  /\ mode = "normal" /\ ready => remote = cfg.target

TransportInv ==
  /\ cfg \in [target : Targets, port : Ports]
  /\ {fd, bound} \subseteq BOOLEAN
  /\ OneSocket
  /\ TargetInv

-----------------------------------------------------------------------------
\* Sending touches the socket and the target in one of the three ways, and
\* what it sends goes to the address in use after it.
LEMMA SendTouches ==
  ASSUME NEW m, Send(m)
  PROVE  /\ Touches
         /\ sent' # sent => Ensured /\ sent'.to = remote'
  BY DEF Send, Handed, NotHanded, Touches

LEMMA HandedTouches ==
  ASSUME NEW m, Handed(m)
  PROVE  Ensured /\ sent'.to = remote'
  BY DEF Handed

LEMMA NotHandedTouches ==
  ASSUME NotHanded
  PROVE  Touches /\ UNCHANGED sent
  BY DEF NotHanded, Touches

\* Only the way out of the menu touches the target otherwise.
LEMMA StepTouches ==
  ASSUME [Next]_vars
  PROVE  \/ ExitMenu
         \/ /\ Touches
            /\ sent' # sent => Ensured /\ sent'.to = remote' /\ UNCHANGED <<cfg, mode>>
<1> DEFINE Goal == /\ Touches
                   /\ sent' # sent =>
                        Ensured /\ sent'.to = remote' /\ UNCHANGED <<cfg, mode>>
<1>1. CASE UiIdle \/ EnterMenu \/ EditNetwork
  BY <1>1 DEF UiIdle, EnterMenu, EditNetwork, Touches
<1>2. CASE SendCue
  BY <1>2, SendTouches DEF SendCue, uiVars
<1>3. CASE PollGivesUp \/ PollBegins
  BY <1>3 DEF PollGivesUp, PollBegins, Touches
<1>4. CASE RecvEnds \/ Recv \/ HandleDone
  BY <1>4 DEF RecvEnds, Recv, HandleDone, Touches
<1>5. CASE HandleMessage
  <2>1. Send("pong") \/ UNCHANGED <<sockVars, sent>>
    BY <1>5 DEF HandleMessage
  <2>2. UNCHANGED <<cfg, mode>>
    BY <1>5 DEF HandleMessage, uiVars
  <2> QED
    BY <2>1, <2>2, SendTouches DEF Touches
<1>6. ASSUME NEW t \in Triggers, ReportEdge(t) PROVE Goal
  <2>1. UNCHANGED <<cfg, mode>> /\ (Handed("trigger") \/ NotHanded)
    BY <1>6 DEF ReportEdge, uiVars
  <2> QED
    BY <2>1, HandedTouches, NotHandedTouches DEF Touches
<1>7. CASE TriggersDone
  BY <1>7 DEF TriggersDone, Touches
<1>8. CASE Environment
  BY <1>8 DEF Environment, LinkMoves, Arrive, TriggerMoves, Touches
<1>9. CASE UNCHANGED vars
  BY <1>9 DEF vars, Touches
<1> QED
  BY <1>1, <1>2, <1>3, <1>4, <1>5, <1>6, <1>7, <1>8, <1>9
     DEF Next, Loop, Ui, Rx

\* Opening, binding and failing keep the books of the stack.
LEMMA TouchesKeepsSocket ==
  ASSUME {fd, bound} \subseteq BOOLEAN, OneSocket,
         cfg \in [target : Targets, port : Ports], Touches
  PROVE  {fd, bound}' \subseteq BOOLEAN /\ OneSocket'
<1>1. cfg.port # NoPort
  BY TransportAssumption
<1>2. CASE UNCHANGED sockVars
  BY <1>2 DEF sockVars, OneSocket
<1>3. CASE Ensured
  <2>1. fd' = TRUE /\ bound' = TRUE
    BY <1>3 DEF Ensured
  <2>2. open' = 1
    BY <1>3 DEF Ensured, OneSocket
  <2>3. port' # NoPort
    BY <1>1, <1>3 DEF Ensured, OneSocket
  <2> QED
    <3>1. bound' = fd' /\ open' = IF fd' THEN 1 ELSE 0
      BY <2>1, <2>2, Zenon
    <3>2. {fd, bound}' \subseteq BOOLEAN
      BY <2>1
    <3> QED
      BY <2>3, <3>1, <3>2, Zenon DEF OneSocket
<1>4. CASE NotEnsured
  <2>1. CASE BindFails
    <3>1. fd = FALSE /\ bound = FALSE /\ open = 0
      BY <2>1 DEF BindFails, OneSocket
    <3>2. fd' = FALSE /\ bound' = FALSE /\ open' = 0
      BY <2>1, <3>1 DEF BindFails
    <3> QED
      BY <3>2 DEF OneSocket
  <2> QED
    BY <1>2, <1>4, <2>1 DEF NotEnsured, SocketFails
<1> QED
  BY <1>2, <1>3, <1>4 DEF Touches

LEMMA TouchesKeepsTarget ==
  ASSUME Touches
  PROVE  \/ UNCHANGED <<ready, remote>>
         \/ Ensured /\ (ready => remote' = remote) /\ (~ready => remote' = cfg.target)
  BY DEF Touches, sockVars, Ensured, NotEnsured, SocketFails, BindFails

\* cfg and mode change inside the menu or on its way in and out.
LEMMA StepKeepsConfig ==
  ASSUME [Next]_vars, cfg \in [target : Targets, port : Ports], mode \in {"normal", "menu"}
  PROVE  /\ cfg' \in [target : Targets, port : Ports]
         /\ mode' \in {"normal", "menu"}
         /\ mode = "normal" => cfg' = cfg
         /\ mode = "menu" /\ mode' = "normal" => ExitMenu
<1>1. CASE Ui
  BY <1>1 DEF Ui, UiIdle, SendCue, EnterMenu, EditNetwork, ExitMenu, uiVars
<1>2. CASE Rx
  BY <1>2 DEF Rx, PollGivesUp, PollBegins, RecvEnds, Recv, HandleMessage, HandleDone, uiVars
<1>3. ASSUME NEW t \in Triggers, ReportEdge(t) PROVE UNCHANGED <<cfg, mode>>
  BY <1>3 DEF ReportEdge, uiVars
<1>4. CASE TriggersDone \/ Environment
  BY <1>4 DEF TriggersDone, Environment, LinkMoves, Arrive, TriggerMoves, uiVars
<1>5. CASE UNCHANGED vars
  BY <1>5 DEF vars, uiVars
<1> QED
  BY <1>1, <1>2, <1>3, <1>4, <1>5 DEF Next, Loop

-----------------------------------------------------------------------------
LEMMA TransportInitInv == Init => TransportInv
<1> SUFFICES ASSUME Init PROVE TransportInv
  OBVIOUS
<1>1. {fd, bound} \subseteq BOOLEAN /\ OneSocket
  BY DEF Init, OneSocket
<1>2. TargetInv
  BY DEF Init, TargetInv
<1> QED
  BY <1>1, <1>2 DEF Init, TransportInv

LEMMA TransportStepInv ==
  TransportInv /\ [Next]_vars => TransportInv'
<1> SUFFICES ASSUME TransportInv, [Next]_vars PROVE TransportInv'
  OBVIOUS
<1>1. /\ cfg' \in [target : Targets, port : Ports]
      /\ mode' \in {"normal", "menu"}
      /\ mode = "normal" => cfg' = cfg
      /\ mode = "menu" /\ mode' = "normal" => ExitMenu
  BY StepKeepsConfig DEF TransportInv, TargetInv
<1>2. CASE ExitMenu
  <2>1. {fd, bound}' \subseteq BOOLEAN /\ OneSocket'
    BY <1>2 DEF ExitMenu, OneSocket, TransportInv
  <2>2. TargetInv'
    BY <1>2 DEF ExitMenu, TargetInv
  <2> QED
    BY <1>1, <2>1, <2>2 DEF TransportInv
<1>3. CASE Touches
  <2>1. {fd, bound}' \subseteq BOOLEAN /\ OneSocket'
    BY <1>3, TouchesKeepsSocket DEF TransportInv
  <2>2. TargetInv'
    <3>1. CASE mode = "normal" /\ mode' = "normal"
      <4>1. cfg' = cfg /\ (ready => remote = cfg.target)
        BY <1>1, <3>1 DEF TargetInv, TransportInv
      <4>2. UNCHANGED <<ready, remote>> \/ remote' = cfg.target
        BY <1>3, <4>1, TouchesKeepsTarget
      <4> QED
        <5>1. ready' => remote' = cfg'.target
          BY <4>1, <4>2
        <5> QED
          BY <1>1, <5>1, Zenon DEF TargetInv
    <3>2. CASE mode' = "menu"
      BY <3>2 DEF TargetInv
    <3>3. CASE mode = "menu" /\ mode' = "normal"
      BY <1>1, <3>3 DEF ExitMenu, TargetInv
    <3> QED
      BY <1>1, <3>1, <3>2, <3>3 DEF TransportInv, TargetInv
  <2> QED
    BY <1>1, <2>1, <2>2 DEF TransportInv
<1> QED
  BY <1>2, <1>3, StepTouches

-----------------------------------------------------------------------------
\* The application never loses a socket and never opens a second one, however
\* often opening, binding and sending fail.
THEOREM OneSocketAlways == Spec => []OneSocket
<1>1. TransportInv => OneSocket
  BY DEF TransportInv
<1> QED
  BY <1>1, TransportInitInv, TransportStepInv, PTL DEF Spec

\* Every datagram of normal mode goes to the configured target, whenever the
\* address was last renewed.
THEOREM SendsReachTarget == Spec => SendsToConfiguredTarget
<1>1. ASSUME TransportInv, [Next]_vars
      PROVE  [sent' # sent /\ mode = "normal" => sent'.to = cfg.target]_vars
  <2> SUFFICES ASSUME sent' # sent, mode = "normal" PROVE sent'.to = cfg.target
    OBVIOUS
  <2>1. ~ExitMenu
    BY DEF ExitMenu
  <2>2. Ensured /\ sent'.to = remote'
    BY <1>1, <2>1, StepTouches
  <2>3. ready => remote = cfg.target
    BY <1>1 DEF TransportInv, TargetInv
  <2> QED
    BY <2>2, <2>3 DEF Ensured
<1> QED
  BY <1>1, TransportInitInv, TransportStepInv, PTL DEF Spec, SendsToConfiguredTarget

\* An address in use is renewed on the way out of the menu and at no other
\* time: a half-edited one is not sent to.
THEOREM TargetHeld == Spec => TargetHeldDuringEdit
<1>1. ASSUME [Next]_vars
      PROVE  [ready /\ remote' # remote => mode = "menu" /\ mode' = "normal"]_vars
  BY <1>1, StepTouches, TouchesKeepsTarget DEF ExitMenu, Ensured
<1> QED
  BY <1>1, PTL DEF Spec, TargetHeldDuringEdit
=============================================================================

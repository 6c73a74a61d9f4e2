---------------------------- MODULE OscTransport ----------------------------
(***************************************************************************)
(* The UDP transport of app/src/main.c: one socket, opened and bound the   *)
(* first time it is needed and again after a failure                       *)
(* (app_osc_ensure_socket_and_target), the target address that the menu    *)
(* edits and that is renewed when the menu is left, the senders            *)
(* (the app_osc_send functions), app_osc_poll_rx, and the trigger          *)
(* inputs that report their edges through it (process_trigger_events).     *)
(* The main loop is ui -> poll -> (recv -> handle)* -> trig -> ui.         *)
(*                                                                         *)
(*   link      app_network_ready_for_tx, moved by the network thread       *)
(*   fd        app_osc_sock_fd >= 0;  bound   app_osc_sock_bound           *)
(*   port      the port the socket was bound to                            *)
(*   cfg       net_cfg: the target, and the device port                    *)
(*   ready, remote   app_osc_remote_addr_ready, app_osc_remote_addr        *)
(*   burst     packets taken in this poll                                  *)
(*   pending   the messages left of the packet in hand                     *)
(*   level     the trigger inputs;  prev   trigger_*_prev_state            *)
(*                                                                         *)
(* Of the network stack: open, the sockets it holds for the application;   *)
(* rxq, datagrams received; sent, the last datagram it took.  Of the       *)
(* receiver: heard, what it was last told of each trigger.                 *)
(*                                                                         *)
(* A packet is its sequence of messages: one, a bundle of several, or none *)
(* (an empty datagram, which the code skips).                              *)
(***************************************************************************)
EXTENDS Integers, Sequences

CONSTANTS
  Targets, Ports,   \* the addresses and device ports the menu can set
  Triggers,         \* the trigger inputs
  Packets,          \* sequences over {"ping", "msg", "other"}
  Burst,            \* 4: packets taken per poll
  RxCap,            \* datagrams the stack queues
  MaxRx, MaxFaults  \* bounds: datagrams received, calls that fail

NoPort == "none"

ASSUME TransportAssumption ==
  /\ Burst \in Nat \ {0} /\ RxCap \in Nat /\ MaxRx \in Nat /\ MaxFaults \in Nat
  /\ NoPort \notin Ports
  /\ Packets \subseteq Seq({"ping", "msg", "other"})

VARIABLES pc, link, open, fd, bound, port, cfg, mode, ready, remote, burst, pending,
          rxq, received, sent, level, prev, heard, faults

sockVars == <<open, fd, bound, port, ready, remote>>
uiVars   == <<cfg, mode>>
rxVars   == <<burst, pending>>
netVars  == <<link, rxq, received>>
trigVars == <<prev, heard>>
vars == <<pc, sockVars, uiVars, rxVars, netVars, sent, level, trigVars, faults>>

Nothing == [to |-> "none", msg |-> "none", n |-> 0]

Goto(from, to) == pc = from /\ pc' = to

\* A call into the network stack fails.
Fault == faults < MaxFaults /\ faults' = faults + 1

\* The state after boot: the target is known and is marked to be renewed
\* (app_osc_transport_configure), and the triggers have been read once.  What the
\* receiver was last told may date from before the boot.
Init ==
  /\ pc = "ui"
  /\ link = FALSE /\ rxq = <<>> /\ received = 0
  /\ open = 0 /\ fd = FALSE /\ bound = FALSE /\ port = NoPort
  /\ cfg \in [target : Targets, port : Ports]
  /\ mode = "normal"
  /\ ready = FALSE /\ remote = cfg.target
  /\ burst = 0 /\ pending = <<>>
  /\ sent = Nothing
  /\ level \in [Triggers -> BOOLEAN] /\ prev = level
  /\ heard \in [Triggers -> BOOLEAN]
  /\ faults = 0

-----------------------------------------------------------------------------
(* The socket and the target.                                              *)

\* app_osc_ensure_socket_and_target, succeeding.
Ensured ==
  /\ open' = IF fd THEN open ELSE open + 1
  /\ fd' = TRUE /\ bound' = TRUE
  /\ port' = IF bound THEN port ELSE cfg.port
  /\ ready' = TRUE
  /\ remote' = IF ready THEN remote ELSE cfg.target

SocketFails == ~fd /\ Fault /\ UNCHANGED sockVars

\* A slip: the socket that could not be bound is forgotten without being closed.
BindFailsLeaks ==
  /\ ~bound /\ Fault
  /\ open' = IF fd THEN open ELSE open + 1
  /\ fd' = FALSE
  /\ UNCHANGED <<bound, port, ready, remote>>

\* The socket that could not be bound is closed, and opened again next time.
BindFails ==
  /\ ~bound /\ Fault
  /\ open' = IF fd THEN open - 1 ELSE open
  /\ fd' = FALSE
  /\ UNCHANGED <<bound, port, ready, remote>>

NotEnsured == SocketFails \/ BindFails

\* Every app_osc_send_*: the datagram is taken by the stack, ...
Handed(m) ==
  /\ link /\ Ensured
  /\ sent' = [to |-> remote', msg |-> m, n |-> 1 - sent.n]
  /\ UNCHANGED faults

\* ... or dropped without an error, for want of a network, or refused.
NotHanded ==
  /\ UNCHANGED sent
  /\ \/ ~link /\ UNCHANGED <<sockVars, faults>>
     \/ link /\ NotEnsured
     \/ link /\ Ensured /\ Fault

Send(m) == Handed(m) \/ NotHanded

-----------------------------------------------------------------------------
(* The panel, as far as the transport knows it: FrontPanel has the rest.   *)

UiIdle ==
  /\ Goto("ui", "poll")
  /\ UNCHANGED <<sockVars, uiVars, rxVars, netVars, sent, level, trigVars, faults>>

SendCue ==
  /\ Goto("ui", "poll")
  /\ Send("cue")
  /\ UNCHANGED <<uiVars, rxVars, netVars, level, trigVars>>

EnterMenu ==
  /\ Goto("ui", "poll")
  /\ mode = "normal" /\ mode' = "menu"
  /\ UNCHANGED <<sockVars, cfg, rxVars, netVars, sent, level, trigVars, faults>>

\* A slip: an edit takes effect at once.
EditAppliesAtOnce ==
  /\ Goto("ui", "poll")
  /\ mode = "menu"
  /\ \E c \in [target : Targets, port : Ports] : cfg' = c
  /\ remote' = cfg'.target
  /\ UNCHANGED <<mode, open, fd, bound, port, ready, rxVars, netVars, sent, level, trigVars, faults>>

\* menu_apply_edit_step and menu_reset_current_item_to_default change net_cfg.
EditNetwork ==
  /\ Goto("ui", "poll")
  /\ mode = "menu"
  /\ \E c \in [target : Targets, port : Ports] : cfg' = c
  /\ UNCHANGED <<mode, sockVars, rxVars, netVars, sent, level, trigVars, faults>>

\* A slip: the target is not renewed.
ExitMenuKeepsTarget ==
  /\ Goto("ui", "poll")
  /\ mode = "menu" /\ mode' = "normal"
  /\ UNCHANGED <<cfg, sockVars, rxVars, netVars, sent, level, trigVars, faults>>

\* ui_exit_menu_mode; the transport is always enabled by then, and an address
\* of clamped bytes never fails to convert.
ExitMenu ==
  /\ Goto("ui", "poll")
  /\ mode = "menu" /\ mode' = "normal"
  /\ ready' = TRUE
  /\ remote' = cfg.target
  /\ UNCHANGED <<cfg, open, fd, bound, port, rxVars, netVars, sent, level, trigVars, faults>>

Ui == UiIdle \/ SendCue \/ EnterMenu \/ EditNetwork \/ ExitMenu

-----------------------------------------------------------------------------
(* app_osc_poll_rx.                                                        *)

PollGivesUp ==
  /\ Goto("poll", "trig")
  /\ \/ ~link /\ UNCHANGED <<sockVars, faults>>
     \/ link /\ NotEnsured
  /\ UNCHANGED <<uiVars, rxVars, netVars, sent, level, trigVars>>

\* A slip: the count of the last burst is not cleared.
PollBeginsKeepsBurst ==
  /\ Goto("poll", "recv")
  /\ link /\ Ensured
  /\ UNCHANGED <<uiVars, rxVars, netVars, sent, level, trigVars, faults>>

PollBegins ==
  /\ Goto("poll", "recv")
  /\ link /\ Ensured
  /\ burst' = 0
  /\ UNCHANGED <<uiVars, pending, netVars, sent, level, trigVars, faults>>

\* recvfrom finds nothing (EAGAIN), or fails; or the burst is over.
RecvEnds ==
  /\ Goto("recv", "trig")
  /\ \/ (rxq = <<>> \/ burst = Burst) /\ UNCHANGED faults
     \/ burst < Burst /\ Fault
  /\ UNCHANGED <<sockVars, uiVars, rxVars, netVars, sent, level, trigVars>>

Recv ==
  /\ Goto("recv", "handle")
  /\ burst < Burst /\ rxq # <<>>
  /\ burst' = burst + 1
  /\ pending' = Head(rxq)
  /\ rxq' = Tail(rxq)
  /\ UNCHANGED <<sockVars, uiVars, link, received, sent, level, trigVars, faults>>

\* app_osc_handle_rx_message.  The pong goes to the configured target, not to
\* the sender of the ping; the status line is the panel's.
HandleMessage ==
  /\ pc = "handle"
  /\ pending # <<>>
  /\ pending' = Tail(pending)
  /\ IF Head(pending) = "ping"
       THEN Send("pong")
       ELSE UNCHANGED <<sockVars, sent, faults>>
  /\ UNCHANGED <<pc, uiVars, burst, netVars, level, trigVars>>

HandleDone ==
  /\ Goto("handle", "recv")
  /\ pending = <<>>
  /\ UNCHANGED <<sockVars, uiVars, rxVars, netVars, sent, level, trigVars, faults>>

Rx == PollGivesUp \/ PollBegins \/ RecvEnds \/ Recv \/ HandleMessage \/ HandleDone

-----------------------------------------------------------------------------
(* process_trigger_events.                                                 *)

\* A slip: the edges are noted but not reported while the target is edited.
ReportEdgeNotInMenu(t) ==
  /\ pc = "trig"
  /\ level[t] # prev[t]
  /\ prev' = [prev EXCEPT ![t] = level[t]]
  /\ \/ mode = "normal" /\ Handed("trigger") /\ heard' = [heard EXCEPT ![t] = level[t]]
     \/ mode = "normal" /\ NotHanded /\ UNCHANGED heard
     \/ mode = "menu" /\ UNCHANGED <<sockVars, sent, heard, faults>>
  /\ UNCHANGED <<pc, uiVars, rxVars, netVars, level>>

\* An edge is noted before it is reported, and reported once: a report that is
\* dropped is not made again.
ReportEdge(t) ==
  /\ pc = "trig"
  /\ level[t] # prev[t]
  /\ prev' = [prev EXCEPT ![t] = level[t]]
  /\ \/ Handed("trigger") /\ heard' = [heard EXCEPT ![t] = level[t]]
     \/ NotHanded /\ UNCHANGED heard
  /\ UNCHANGED <<pc, uiVars, rxVars, netVars, level>>

\* An input that cannot be read is looked at again in the next turn.
TriggersDone ==
  /\ Goto("trig", "ui")
  /\ \/ level = prev /\ UNCHANGED faults
     \/ level # prev /\ Fault
  /\ UNCHANGED <<sockVars, uiVars, rxVars, netVars, sent, level, trigVars>>

Loop == Ui \/ Rx \/ (\E t \in Triggers : ReportEdge(t)) \/ TriggersDone

-----------------------------------------------------------------------------
(* The network and the trigger inputs.                                     *)

LinkMoves ==
  /\ link' = ~link
  /\ link => faults < MaxFaults
  /\ faults' = IF link THEN faults + 1 ELSE faults
  /\ UNCHANGED <<pc, sockVars, uiVars, rxVars, rxq, received, sent, level, trigVars>>

Arrive(p) ==
  /\ link /\ bound
  /\ received < MaxRx
  /\ received' = received + 1
  /\ rxq' = IF Len(rxq) < RxCap THEN Append(rxq, p) ELSE rxq
  /\ UNCHANGED <<pc, sockVars, uiVars, rxVars, link, sent, level, trigVars, faults>>

TriggerMoves(t) ==
  /\ pc = "ui"     \* each input is read once a turn: it may as well move here
  /\ level' = [level EXCEPT ![t] = ~@]
  /\ UNCHANGED <<pc, sockVars, uiVars, rxVars, netVars, sent, trigVars, faults>>

Environment ==
  \/ LinkMoves
  \/ \E p \in Packets : Arrive(p)
  \/ \E t \in Triggers : TriggerMoves(t)

Next == Loop \/ Environment

\* The main loop keeps running.
Spec == Init /\ [][Next]_vars /\ WF_vars(Loop)

-----------------------------------------------------------------------------
\* However often opening and binding fail and are tried again, the stack holds
\* one socket for the application when the code holds its descriptor and none
\* otherwise, and a descriptor kept between calls is a bound one.
OneSocket ==
  /\ open = IF fd THEN 1 ELSE 0
  /\ bound = fd
  /\ bound => port # NoPort

\* In normal mode every datagram goes to the target that is configured, whether
\* the address was last renewed at boot, on leaving the menu with or without a
\* network, or by the first send (ui_exit_menu_mode,
\* app_osc_ensure_socket_and_target).
SendsToConfiguredTarget ==
  [][sent' # sent /\ mode = "normal" => sent'.to = cfg.target]_vars

\* Once an address is in use, the edits of the menu do not move it, byte by
\* byte, until the menu is left.
TargetHeldDuringEdit ==
  [][ready /\ remote' # remote => mode = "menu" /\ mode' = "normal"]_vars

\* Whatever failed before, once the network stays up the socket is opened and
\* bound and every datagram that has arrived is read, a burst per turn.
RecoversWithNetwork ==
  <>[]link => <>[](bound /\ rxq = <<>>)

\* An edge whose report was dropped or refused is not reported again, and leaves
\* the receiver with the wrong state of the trigger.  Once the network stays up,
\* a trigger that keeps moving puts it right again, and from then on it is told of
\* every edge, in the menu or out of it and whatever became of the socket before
\* (process_trigger_events).
TriggersCaughtUp ==
  \A t \in Triggers :
    <>[]link /\ []<>(pc = "trig" /\ level[t] # prev[t]) => <>[](heard[t] = prev[t])
=============================================================================

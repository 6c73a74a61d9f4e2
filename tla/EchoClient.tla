----------------------------- MODULE EchoClient -----------------------------
(***************************************************************************)
(* The client of samples/osc_sock_client (echo-client.c, udp.c): it sends  *)
(* an OSC bundle over UDP, waits for its echo, and sends the next; a       *)
(* packet that is not answered in time is sent again.  Four parties share  *)
(* its state: the client's thread (start_client), the sending thread       *)
(* (process_udp_tx), the timer rx_timer, and the network's events          *)
(* (event_handler).  Each step is one call into the kernel.                *)
(*                                                                         *)
(*   client    where start_client is: "take", "asleep" (k_sem_take),       *)
(*             "start", "create", "kick" (start_udp_and_tcp), "check" (the *)
(*             loop), "poll", "recv", "answered", "next" (run_udp_and_tcp),*)
(*             "stop", "close", "kill" (stop_udp), "done"; "undefined"     *)
(*             once it has done what C gives no meaning to                 *)
(*   tx        where process_udp_tx is: "none" (no thread), "poll",        *)
(*             "send", "arm"                                               *)
(*   connected, sem   the flag and the semaphore run_app                   *)
(*   told      the connection manager has reported the network's status    *)
(*   killed, signal   the poll signals udp_kill and tx_signal              *)
(*   timer     rx_timer runs                                               *)
(*   open      the socket is open                                          *)
(*   nfds      the entries of fds, which are never given back              *)
(*   i         the turns of the loop so far                                *)
(*   air       packets and echoes under way                                *)
(*   inbox     what waits at the socket: an echo, something else, or an    *)
(*             empty datagram                                              *)
(*                                                                         *)
(* Every packet holds the same bundle (create_msg), so that one echo is as *)
(* good as another.  As in prj.conf, only IPv4 and UDP are built, and the  *)
(* connection manager is.                                                  *)
(***************************************************************************)
EXTENDS Integers, Sequences

CONSTANTS
  Iterations,   \* CONFIG_NET_SAMPLE_SEND_ITERATIONS
  FdsLen,       \* the length of fds
  MaxAir,       \* bound: packets under way
  MaxInbox      \* bound: datagrams waiting at the socket

ASSUME EchoAssumption ==
  Iterations \in Nat \ {0} /\ FdsLen \in Nat \ {0} /\ MaxAir \in Nat /\ MaxInbox \in Nat

VARIABLES client, tx, connected, told, sem, killed, signal, timer, open, nfds, i, air, inbox

netVars    == <<connected, told, sem>>
socketVars == <<open, air, inbox>>
vars == <<client, tx, killed, signal, timer, nfds, i, netVars, socketVars>>

-----------------------------------------------------------------------------
Init ==
  /\ client = "take" /\ tx = "none"
  /\ connected = FALSE /\ told = FALSE /\ sem = 0
  /\ killed = FALSE /\ signal = FALSE /\ timer = FALSE
  /\ open = FALSE /\ nfds = 0 /\ i = 0
  /\ air = 0 /\ inbox = <<>>

Goto(from, to) == client = from /\ client' = to

-----------------------------------------------------------------------------
(* The network: its events, its losses, and the peer.                      *)

\* A client asleep on the semaphore is woken by whatever happens to it.
WakeClient(count) ==
  IF client = "asleep" THEN client' = "start" /\ UNCHANGED sem
  ELSE sem' = count /\ UNCHANGED client

\* k_sem_give.
Connect ==
  /\ ~connected /\ connected' = TRUE /\ told' = TRUE
  /\ WakeClient(1)
  /\ UNCHANGED <<tx, killed, signal, timer, nfds, i, socketVars>>

\* k_sem_reset, which ends the waiting too; start_client does not look at what
\* k_sem_take returns.  The status that init_app asks for may be this one.
Disconnect ==
  /\ connected \/ ~told
  /\ connected' = FALSE /\ told' = TRUE
  /\ WakeClient(0)
  /\ UNCHANGED <<tx, killed, signal, timer, nfds, i, socketVars>>

Lose ==
  /\ air > 0 /\ air' = air - 1
  /\ UNCHANGED <<client, tx, killed, signal, timer, nfds, i, netVars, open, inbox>>

\* An echo arrives, perhaps not for the last time, or what else the peer may send.
Arrive ==
  /\ connected /\ open
  /\ Len(inbox) < MaxInbox
  /\ \/ air > 0 /\ air' \in {air - 1, air} /\ inbox' = Append(inbox, "echo")
     \/ inbox' \in {Append(inbox, "other"), Append(inbox, "empty")} /\ UNCHANGED air
  /\ UNCHANGED <<client, tx, killed, signal, timer, nfds, i, netVars, open>>

-----------------------------------------------------------------------------
(* The client's thread.                                                    *)

\* k_sem_take.
Take ==
  /\ client = "take"
  /\ IF sem = 1 THEN client' = "start" ELSE client' = "asleep"
  /\ sem' = 0
  /\ UNCHANGED <<tx, connected, told, killed, signal, timer, nfds, i, socketVars>>

\* start_udp_proto: socket may fail, and connect after it.
OpenSocket ==
  /\ client = "start"
  /\ \/ client' = "stop" /\ open' \in BOOLEAN
     \/ client' = "create" /\ open' = TRUE
  /\ UNCHANGED <<tx, killed, signal, timer, nfds, i, netVars, air, inbox>>

\* k_thread_create, which must not be given a thread that lives.
CreateThread ==
  /\ IF tx = "none" THEN Goto("create", "kick") /\ tx' = "poll"
     ELSE Goto("create", "undefined") /\ UNCHANGED tx
  /\ UNCHANGED <<killed, signal, timer, nfds, i, netVars, socketVars>>

\* The first packet is asked for, and prepare_fds adds the socket to fds.
Kick ==
  /\ signal' = TRUE
  /\ IF nfds < FdsLen THEN Goto("kick", "check") /\ nfds' = nfds + 1
     ELSE Goto("kick", "undefined") /\ UNCHANGED nfds
  /\ UNCHANGED <<tx, killed, timer, i, netVars, socketVars>>

\* The condition of start_client's inner loop.
Check ==
  /\ client = "check"
  /\ client' = IF connected THEN "poll" ELSE "stop"
  /\ UNCHANGED <<tx, killed, signal, timer, nfds, i, netVars, socketVars>>

\* wait: poll has no timeout, so that a loss of the network does not end it.
Wait ==
  /\ Goto("poll", "recv")
  /\ inbox # <<>>
  /\ UNCHANGED <<tx, killed, signal, timer, nfds, i, netVars, socketVars>>

\* poll fails, which is only logged, or it finds the closed socket of an earlier
\* session, which fds still holds.
WaitInVain ==
  /\ Goto("poll", "recv")
  /\ UNCHANGED <<tx, killed, signal, timer, nfds, i, netVars, socketVars>>

\* A turn of the loop is over, without error or with one.
EndTurn(to) ==
  /\ i' = i + 1
  /\ client' = IF i' >= Iterations THEN "stop" ELSE to

\* process_udp_proto, which does not wait (MSG_DONTWAIT): finding nothing is no
\* error, and what else recv may fail for is one.  An echo is answered with the
\* next packet, something else is ignored, and an empty datagram is an error.
ReceiveFails ==
  /\ client = "recv"
  /\ \/ inbox = <<>> /\ EndTurn("check")
     \/ EndTurn("stop")
  /\ UNCHANGED <<tx, killed, signal, timer, nfds, netVars, socketVars>>

Receive ==
  /\ client = "recv" /\ inbox # <<>>
  /\ inbox' = Tail(inbox)
  /\ \/ inbox[1] = "echo"  /\ client' = "answered" /\ UNCHANGED i
     \/ inbox[1] = "other" /\ EndTurn("check")
     \/ inbox[1] = "empty" /\ EndTurn("stop")
  /\ UNCHANGED <<tx, killed, signal, timer, nfds, netVars, open, air>>

\* The timer of the packet that was answered is stopped...
StopTimer ==
  /\ Goto("answered", "next")
  /\ timer' = FALSE
  /\ UNCHANGED <<tx, killed, signal, nfds, i, netVars, socketVars>>

\* A slip: the next packet is left to the timer.
AskNextByTimer ==
  /\ client = "next"
  /\ EndTurn("check")
  /\ UNCHANGED <<tx, killed, signal, timer, nfds, netVars, socketVars>>

\* ...and the next one is asked for.
AskNext ==
  /\ client = "next"
  /\ signal' = TRUE
  /\ EndTurn("check")
  /\ UNCHANGED <<tx, killed, timer, nfds, netVars, socketVars>>

\* stop_udp.
StopTimers ==
  /\ Goto("stop", "close")
  /\ timer' = FALSE
  /\ UNCHANGED <<tx, killed, signal, nfds, i, netVars, socketVars>>

CloseSocket ==
  /\ Goto("close", "kill")
  /\ open' = FALSE /\ air' = 0 /\ inbox' = <<>>
  /\ UNCHANGED <<tx, killed, signal, timer, nfds, i, netVars>>

\* A slip: a client that is done leaves its sender alone.
KillIfMore ==
  /\ client = "kill"
  /\ killed' = (killed \/ i < Iterations)
  /\ client' = IF i < Iterations THEN "take" ELSE "done"
  /\ UNCHANGED <<tx, signal, timer, nfds, i, netVars, socketVars>>

Kill ==
  /\ client = "kill"
  /\ killed' = TRUE
  /\ client' = IF i < Iterations THEN "take" ELSE "done"
  /\ UNCHANGED <<tx, signal, timer, nfds, i, netVars, socketVars>>

Client ==
  \/ Take \/ OpenSocket \/ CreateThread \/ Kick
  \/ Check \/ Wait \/ ReceiveFails \/ Receive \/ StopTimer \/ AskNext
  \/ StopTimers \/ CloseSocket \/ Kill

-----------------------------------------------------------------------------
(* The sending thread and the timer.                                       *)

\* k_poll: the kill is looked at first, and leaves a packet asked for behind.
Wake ==
  /\ tx = "poll"
  /\ \/ killed /\ killed' = FALSE /\ tx' = "none" /\ UNCHANGED signal
     \/ ~killed /\ signal /\ signal' = FALSE /\ tx' = "send" /\ UNCHANGED killed
  /\ UNCHANGED <<client, timer, nfds, i, netVars, socketVars>>

\* send_udp_data: a packet that cannot be sent is like one that is lost.
Send ==
  /\ tx = "send" /\ tx' = "arm"
  /\ air' = IF open /\ connected /\ air < MaxAir THEN air + 1 ELSE air
  /\ UNCHANGED <<client, killed, signal, timer, nfds, i, netVars, open, inbox>>

\* A slip: the timer runs only if the packet is still on its way.
ArmIfWaiting ==
  /\ tx = "arm" /\ tx' = "poll"
  /\ timer' = (timer \/ air > 0)
  /\ UNCHANGED <<client, killed, signal, nfds, i, netVars, socketVars>>

\* k_timer_start, after the send whatever came of it.
Arm ==
  /\ tx = "arm" /\ tx' = "poll"
  /\ timer' = TRUE
  /\ UNCHANGED <<client, killed, signal, nfds, i, netVars, socketVars>>

Sender == Wake \/ Send \/ Arm

\* wait_reply.
Expire ==
  /\ timer /\ timer' = FALSE
  /\ signal' = TRUE
  /\ UNCHANGED <<client, tx, killed, nfds, i, netVars, socketVars>>

-----------------------------------------------------------------------------
Defined == client # "undefined"

Over == client = "undefined" /\ UNCHANGED vars

Next ==
  \/ Defined /\ (Client \/ Sender \/ Expire)
  \/ Defined /\ (WaitInVain \/ Connect \/ Disconnect \/ Lose \/ Arrive)
  \/ Over

\* The kernel runs both threads and every timer runs out; the network and the
\* peer owe nothing, nor does poll when nothing has come.
Spec ==
  /\ Init /\ [][Next]_vars
  /\ WF_vars(Defined /\ Client) /\ WF_vars(Defined /\ Sender) /\ WF_vars(Defined /\ Expire)

-----------------------------------------------------------------------------
\* The client is in its loop and its sender has not been told to end.
Exchanging ==
  /\ client \in {"check", "poll", "recv", "answered", "next"}
  /\ tx # "none" /\ ~killed

\* Whatever is lost, late or wrong, something is always there that will send the
\* next packet: the timer, the signal, the sender on its way, or the client about
\* to ask.  Client and sender, stopping and starting the same timer in any
\* order, never leave each other waiting (process_udp_proto, send_udp_data).
NeverBothWait ==
  Exchanging => timer \/ signal \/ tx \in {"send", "arm"} \/ client = "next"

\* Every exchange goes on: a packet is sent again and again until the client stops.
KeepsSending ==
  [](Exchanging => <>(tx = "send" \/ ~Exchanging))

\* A client that is done leaves no thread behind and no timer that runs, though
\* the sender may start the timer after the client has stopped it (stop_udp).
EndsQuietly ==
  client = "done" ~> [](tx = "none" /\ ~timer)
=============================================================================

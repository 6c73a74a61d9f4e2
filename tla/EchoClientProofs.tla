--------------------------- MODULE EchoClientProofs ---------------------------
(***************************************************************************)
(* The sample's client for any number of iterations, however many packets  *)
(* are under way and whatever the network and the peer do.                 *)
(***************************************************************************)
EXTENDS EchoClient, TLAPS

\* The client's own steps: whichever gives up what would send the next packet
\* has put something in its place, or has left the exchange.
LEMMA ClientKeepsGoing ==
  ASSUME NeverBothWait, Client
  PROVE  NeverBothWait'
<1>1. CASE Take \/ OpenSocket \/ CreateThread \/ StopTimers \/ CloseSocket \/ Kill
  BY <1>1 DEF Take, OpenSocket, CreateThread, StopTimers, CloseSocket, Kill, Goto,
              NeverBothWait, Exchanging
<1>2. CASE Kick
  BY <1>2 DEF Kick, Goto, NeverBothWait, Exchanging
<1>3. CASE Check \/ Wait
  BY <1>3 DEF Check, Wait, Goto, NeverBothWait, Exchanging
<1>4. CASE ReceiveFails \/ Receive
  BY <1>4 DEF ReceiveFails, Receive, EndTurn, NeverBothWait, Exchanging
<1>5. CASE StopTimer
  BY <1>5 DEF StopTimer, Goto, NeverBothWait, Exchanging
<1>6. CASE AskNext
  BY <1>6 DEF AskNext, EndTurn, NeverBothWait, Exchanging
<1> QED
  BY <1>1, <1>2, <1>3, <1>4, <1>5, <1>6 DEF Client

\* The sender hands its packet from the signal to the timer without a gap, and
\* the timer hands it back.
LEMMA SenderKeepsGoing ==
  ASSUME NeverBothWait, Sender \/ Expire
  PROVE  NeverBothWait'
  BY DEF Sender, Wake, Send, Arm, Expire, NeverBothWait, Exchanging

\* The network's events touch none of it, and wake the client from outside the
\* exchange, or to try in vain to receive.
LEMMA NetworkKeepsGoing ==
  ASSUME NeverBothWait, WaitInVain \/ Connect \/ Disconnect \/ Lose \/ Arrive
  PROVE  NeverBothWait'
  BY DEF WaitInVain, Goto, Connect, Disconnect, Lose, Arrive, WakeClient, NeverBothWait, Exchanging

\* Client and sender never leave each other waiting (process_udp_proto,
\* send_udp_data).
THEOREM ClientAndSenderNeverBothWait == Spec => []NeverBothWait
<1>1. Init => NeverBothWait
  BY DEF Init, NeverBothWait, Exchanging
<1>2. NeverBothWait /\ [Next]_vars => NeverBothWait'
  <2> SUFFICES ASSUME NeverBothWait, [Next]_vars PROVE NeverBothWait'
    OBVIOUS
  <2>1. CASE Over \/ UNCHANGED vars
    BY <2>1 DEF Over, vars, NeverBothWait, Exchanging
  <2> QED
    BY <2>1, ClientKeepsGoing, SenderKeepsGoing, NetworkKeepsGoing DEF Next
<1> QED
  BY <1>1, <1>2, PTL DEF Spec
=============================================================================

---------------------------- MODULE MCEchoClient ----------------------------
(* Four turns, room for three sessions in fds, two packets under way and   *)
(* two datagrams waiting.                                                   *)
EXTENDS EchoClient
=============================================================================

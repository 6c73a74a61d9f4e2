--------------------------- MODULE MCOscTransport ---------------------------
(* Two targets, one device port, one trigger, bursts of two packets, a     *)
(* queue of two in the stack, three arrivals and two failures.             *)
EXTENDS OscTransport

SomePackets == {<<"ping", "msg">>, <<>>}
=============================================================================

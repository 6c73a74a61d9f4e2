----------------------------- MODULE MCMidiInput -----------------------------
(* Bounds for checking MidiInput: a queue of two bytes instead of 128, so  *)
(* that it fills and bytes can be overtaken, and a UART that holds one.    *)
(* The wire carries four bytes, or five if they are of Song Positions      *)
(* alone, which is what it takes to get past the two data bytes held, or   *)
(* six if they are all alike: two fill the queue and one is dropped, and   *)
(* all of that again between the read of the drop count and its clearing.  *)
EXTENDS MidiInput

\* Note On, Song Position and a data byte.
WireBytes == {144, 242, 5}
SongBytes == {242, 5}

BoundedWire(s) ==
  \/ Len(s) <= 4
  \/ Len(s) <= 5 /\ \A i \in DOMAIN s : s[i] \in SongBytes
  \/ \A i \in DOMAIN s : s[i] = 144

BoundedNext ==
  \/ \E b \in Bytes : BoundedWire(Append(wire, b)) /\ WireByte(b)
  \/ Isr
  \/ MainLoop

BoundedSpec == Init /\ [][BoundedNext]_vars /\ WF_vars(MainLoop) /\ WF_vars(Isr)
=============================================================================

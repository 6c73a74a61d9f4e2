---------------------------- MODULE MCMidiDecode ----------------------------
(* The decoder and the bridge on three families of streams: bytes of every *)
(* class in any order; one SysEx, long enough for a Full Frame and for a   *)
(* buffer overfull; and channel messages at the edges of their fields.     *)
EXTENDS MidiStream, OscBridge

\* One byte of each class the decoder distinguishes: SysEx start and end, Song
\* Position, real time, Note On, Program Change, and two data bytes.
MixedBytes == {240, 247, 242, 248, 144, 192, 127, 6}

\* What Full Frames and MMC commands are made of.
SysexBytes == {240, 247, 127, 1, 6}

\* Every kind of message on the first and the last channel, quarter frames, and
\* data bytes at the edges of their range.
ChannelBytes == {128, 143, 144, 159, 160, 176, 191, 192, 207, 208, 224, 239, 241} \cup {0, 1, 16, 127}

AllBytes == MixedBytes \cup SysexBytes \cup ChannelBytes

Made(s, bytes) == \A i \in DOMAIN s : s[i] \in bytes

Mixed(s)      == Len(s) <= 6 /\ Made(s, MixedBytes)
OneSysex(s)   ==
  /\ Made(s, SysexBytes)
  /\ \A i \in DOMAIN s : (s[i] = SysexStartByte <=> i = 1) /\ (s[i] = SysexEndByte => i = Len(s))
OneMessage(s) == Len(s) <= 3 /\ Made(s, ChannelBytes)

DecodeNext ==
  \/ \E b \in Bytes :
       LET s == Append(stream, b)
       IN (Mixed(s) \/ OneSysex(s) \/ OneMessage(s)) /\ StreamByte(b)
  \/ \E on \in BOOLEAN : SetNoteForward(on) /\ UNCHANGED stream

DecodeSpec == StreamInit /\ [][DecodeNext]_streamVars
=============================================================================

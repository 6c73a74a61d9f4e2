------------------------------ MODULE OscBridge ------------------------------
(***************************************************************************)
(* What becomes of a decoded MIDI message on its way to the network: the   *)
(* bridge (asynth_osc_bridge.c) checks its fields against the schema and   *)
(* calls the transport's sender (app_osc_send_midi_* of main.c), which     *)
(* makes an OSC address out of some of the fields and an argument out of   *)
(* the rest.  The bridge is enabled and has all its callbacks before the   *)
(* main loop begins and nothing ever disables it, so only the schema can   *)
(* refuse a message.                                                       *)
(*                                                                         *)
(* MidiParser is the sender here: out is the message of the last byte.  An *)
(* OSC address is the sequence of its parts after /asynth/midi, as names   *)
(* and numbers; what the network does with a packet is OscTransport's      *)
(* affair.                                                                 *)
(***************************************************************************)
EXTENDS MidiParser

MidiChannelMax == 15     \* MIDI_CHANNEL_MAX
MidiDataMax    == 127    \* MIDI_DATA_MAX
PitchBendMin   == -8192  \* MIDI_PITCH_BEND_MIN
PitchBendMax   == 8191   \* MIDI_PITCH_BEND_MAX
MtcPieceMax    == 7      \* MIDI_MTC_PIECE_MAX
MtcValueMax    == 15     \* MIDI_MTC_VALUE_MAX

\* The schema of asynth_osc_bridge.c: what asynth_osc_send_midi_* lets through.
Accepts(m) ==
  LET a == m.args
      DataFrom(i) == \A k \in i..Len(a) : a[k] <= MidiDataMax
  IN CASE m.addr \in {"note_on", "note_off", "pc", "cc"} ->
            a[1] <= MidiChannelMax /\ DataFrom(2)
       [] m.addr = "bend" ->
            a[1] <= MidiChannelMax /\ a[2] \in PitchBendMin..PitchBendMax
       [] m.addr = "mtc_qf" -> a[1] <= MtcPieceMax /\ a[2] <= MtcValueMax
       [] m.addr \in {"mmc", "mtc_ff"} -> TRUE

\* midi_dispatch_sysex: the four bytes of a Full Frame as one 32-bit word.
Packed(f) == f[1] * 16777216 + f[2] * 65536 + f[3] * 256 + f[4]

\* Slips: a Control Change keyed by its value, and the seconds of a Full Frame
\* shifted by seven bits.
PacketCcSwapped(m) ==
  LET a == m.args
  IN CASE m.addr = "note_on"  -> [path |-> <<"noteON", a[1] + 1, a[2]>>, arg |-> a[3]]
       [] m.addr = "note_off" -> [path |-> <<"noteOFF", a[1] + 1>>, arg |-> a[2]]
       [] m.addr = "pc"       -> [path |-> <<"PC", a[1] + 1>>, arg |-> a[2]]
       [] m.addr = "cc"       -> [path |-> <<"CC", a[1] + 1, a[3]>>, arg |-> a[2]]
       [] m.addr = "bend"     -> [path |-> <<"pitchBend", a[1] + 1>>, arg |-> a[2]]
       [] m.addr = "mmc"      -> [path |-> <<"MMC", a[1]>>, arg |-> a[2]]
       [] m.addr = "mtc_qf"   -> [path |-> <<"MTC/QF", a[1]>>, arg |-> a[2]]
       [] m.addr = "mtc_ff"   -> [path |-> <<"MTC/fullFrame">>,
                                  arg |-> a[1] * 16777216 + a[2] * 65536 + a[3] * 128 + a[4]]

\* app_osc_send_midi_*: channels are counted from 1 in the address.
Packet(m) ==
  LET a == m.args
  IN CASE m.addr = "note_on"  -> [path |-> <<"noteON", a[1] + 1, a[2]>>, arg |-> a[3]]
       [] m.addr = "note_off" -> [path |-> <<"noteOFF", a[1] + 1>>, arg |-> a[2]]
       [] m.addr = "pc"       -> [path |-> <<"PC", a[1] + 1>>, arg |-> a[2]]
       [] m.addr = "cc"       -> [path |-> <<"CC", a[1] + 1, a[2]>>, arg |-> a[3]]
       [] m.addr = "bend"     -> [path |-> <<"pitchBend", a[1] + 1>>, arg |-> a[2]]
       [] m.addr = "mmc"      -> [path |-> <<"MMC", a[1]>>, arg |-> a[2]]
       [] m.addr = "mtc_qf"   -> [path |-> <<"MTC/QF", a[1]>>, arg |-> a[2]]
       [] m.addr = "mtc_ff"   -> [path |-> <<"MTC/fullFrame">>, arg |-> Packed(a)]

-----------------------------------------------------------------------------
\* What a receiver makes of a packet, knowing only the address scheme.
Understood(p) ==
  LET name == p.path[1]
      Byte(unit) == (p.arg \div unit) % 256
  IN CASE name = "noteON"    -> Osc("note_on", <<p.path[2] - 1, p.path[3], p.arg>>)
       [] name = "noteOFF"   -> Osc("note_off", <<p.path[2] - 1, p.arg>>)
       [] name = "PC"        -> Osc("pc", <<p.path[2] - 1, p.arg>>)
       [] name = "CC"        -> Osc("cc", <<p.path[2] - 1, p.path[3], p.arg>>)
       [] name = "pitchBend" -> Osc("bend", <<p.path[2] - 1, p.arg>>)
       [] name = "MMC"       -> Osc("mmc", <<p.path[2], p.arg>>)
       [] name = "MTC/QF"    -> Osc("mtc_qf", <<p.path[2], p.arg>>)
       [] name = "MTC/fullFrame" -> Osc("mtc_ff", <<Byte(16777216), Byte(65536), Byte(256), Byte(1)>>)

\* A message that the decoder emits reaches the receiver whole, at the edges of
\* every field: the bridge's schema does not refuse it (midi_parse_and_dispatch
\* throws the refusal away), and from the address and the argument the receiver
\* can tell it from every other.
PacketTellsMessage ==
  out # NoMessage => Accepts(out) /\ Understood(Packet(out)) = out
=============================================================================

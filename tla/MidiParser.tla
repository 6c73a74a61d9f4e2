----------------------------- MODULE MidiParser -----------------------------
(***************************************************************************)
(* The byte-at-a-time MIDI decoder of app/src/asynth_midi.c:               *)
(* midi_parse_and_dispatch with its five file-scope statics, and the OSC   *)
(* bridge call it makes for the byte just consumed.                        *)
(*                                                                         *)
(*   running   midi_running_status, 0 when there is none                   *)
(*   data      midi_data_bytes[0 .. midi_data_count-1]                     *)
(*   inSysex   midi_in_sysex                                               *)
(*   sysexBuf  midi_sysex_buf[0 .. midi_sysex_len-1]                       *)
(*   thru      midi_note_forward_enabled                                   *)
(*   out       the OSC message the last byte produced, NoMessage if none   *)
(*                                                                         *)
(*   overran   a byte has been stored past the end of midi_data_bytes      *)
(*                                                                         *)
(* What an out-of-range store does to the neighbouring statics is not      *)
(* followed: overran stays set, and no property speaks of what the decoder *)
(* makes of the bytes that follow.                                         *)
(*                                                                         *)
(* One action per branch of the function.  A byte is its numeric value, so *)
(* that the class tests are the code's own comparisons.                    *)
(***************************************************************************)
EXTENDS Integers, Sequences

CONSTANTS
  Bytes,       \* the byte values the wire carries
  SysexCap     \* MIDI_SYSEX_BUF_LEN

ASSUME BytesAssumption == Bytes \subseteq 0..255
ASSUME CapAssumption   == SysexCap \in Nat \ {0}

VARIABLES running, data, inSysex, sysexBuf, thru, out, overran

parserVars == <<running, data, inSysex, sysexBuf, thru, out, overran>>

-----------------------------------------------------------------------------
\* The status bytes and the high nibbles the code names.
SysexStartByte   == 240   \* 0xF0
QuarterFrameByte == 241   \* 0xF1
SysexEndByte     == 247   \* 0xF7
NoteOff == 128            \* 0x80
NoteOn  == 144            \* 0x90
KeyPressure == 160        \* 0xA0
ControlChange == 176      \* 0xB0
ProgramChange == 192      \* 0xC0
ChannelPressure == 208    \* 0xD0
PitchBend == 224          \* 0xE0

DataBytesLen == 2         \* midi_data_bytes[2]

IsRealTime(b) == b >= 248
IsData(b)     == b < 128
Kind(status)    == status - (status % 16)
Channel(status) == status % 16

\* How many data bytes the code waits for; 0 marks the statuses for which
\* it never clears midi_data_count (the default branch of the switch).
DataNeeded(status) ==
  IF status = QuarterFrameByte \/ Kind(status) \in {ProgramChange, ChannelPressure} THEN 1
  ELSE IF Kind(status) \in {NoteOff, NoteOn, KeyPressure, ControlChange, PitchBend} THEN 2
  ELSE 0

NoMessage == [addr |-> "none", args |-> <<>>]
Osc(addr, args) == [addr |-> addr, args |-> args]

\* The bridge call made when status has all its data d; aftertouch is framed
\* but forwarded to nobody, notes only while thru.
ChannelMessage(status, d) ==
  IF status = QuarterFrameByte THEN Osc("mtc_qf", <<(d[1] \div 16) % 8, d[1] % 16>>)
  ELSE IF Kind(status) = ProgramChange THEN Osc("pc", <<Channel(status), d[1]>>)
  ELSE IF Kind(status) = NoteOn /\ thru THEN Osc("note_on", <<Channel(status), d[1], d[2]>>)
  ELSE IF Kind(status) = NoteOff /\ thru THEN Osc("note_off", <<Channel(status), d[1]>>)
  ELSE IF Kind(status) = ControlChange THEN Osc("cc", <<Channel(status), d[1], d[2]>>)
  ELSE IF Kind(status) = PitchBend
  THEN Osc("bend", <<Channel(status), d[2] * 128 + d[1] - 8192>>)
  ELSE NoMessage

\* midi_dispatch_sysex: MMC commands and MTC full frames only.
SysexMessage(buf) ==
  IF Len(buf) < 4 THEN NoMessage
  ELSE IF buf[1] = 127 /\ buf[3] = 6 THEN Osc("mmc", <<buf[2], buf[4]>>)
  ELSE IF Len(buf) >= 8 /\ buf[1] = 127 /\ buf[3] = 1 /\ buf[4] = 1
  THEN Osc("mtc_ff", <<buf[5], buf[6], buf[7], buf[8]>>)
  ELSE NoMessage

-----------------------------------------------------------------------------
ParserInit ==
  /\ running = 0
  /\ data = <<>>
  /\ inSysex = FALSE
  /\ sysexBuf = <<>>
  /\ thru \in BOOLEAN
  /\ out = NoMessage
  /\ overran = FALSE

RealTimeByte(b) ==
  /\ IsRealTime(b)
  /\ out' = NoMessage
  /\ UNCHANGED <<running, data, inSysex, sysexBuf, thru, overran>>

SysexEnd(b) ==
  /\ inSysex
  /\ b = SysexEndByte
  /\ inSysex' = FALSE
  /\ out' = SysexMessage(sysexBuf)
  /\ UNCHANGED <<running, data, sysexBuf, thru, overran>>

\* A slip: a room check one short.
SysexDataShort(b) ==
  /\ inSysex
  /\ IsData(b)
  /\ sysexBuf' = IF Len(sysexBuf) < SysexCap - 1 THEN Append(sysexBuf, b) ELSE sysexBuf
  /\ out' = NoMessage
  /\ UNCHANGED <<running, data, inSysex, thru, overran>>

\* A byte past the end of the buffer is dropped silently.
SysexData(b) ==
  /\ inSysex
  /\ IsData(b)
  /\ sysexBuf' = IF Len(sysexBuf) < SysexCap THEN Append(sysexBuf, b) ELSE sysexBuf
  /\ out' = NoMessage
  /\ UNCHANGED <<running, data, inSysex, thru, overran>>

\* Any other status ends the SysEx and becomes the running status, 0xF0 too.
SysexAbort(b) ==
  /\ inSysex
  /\ ~IsData(b) /\ ~IsRealTime(b) /\ b # SysexEndByte
  /\ inSysex' = FALSE
  /\ sysexBuf' = <<>>
  /\ running' = b
  /\ data' = <<>>
  /\ out' = NoMessage
  /\ UNCHANGED <<thru, overran>>

SysexStart(b) ==
  /\ ~inSysex
  /\ b = SysexStartByte
  /\ inSysex' = TRUE
  /\ sysexBuf' = <<>>
  /\ running' = 0
  /\ data' = <<>>
  /\ out' = NoMessage
  /\ UNCHANGED <<thru, overran>>

\* A slip: midi_data_count is not cleared.
StatusByteKeepsData(b) ==
  /\ ~inSysex
  /\ ~IsData(b) /\ ~IsRealTime(b) /\ b # SysexStartByte
  /\ running' = b
  /\ out' = NoMessage
  /\ UNCHANGED <<data, inSysex, sysexBuf, thru, overran>>

StatusByte(b) ==
  /\ ~inSysex
  /\ ~IsData(b) /\ ~IsRealTime(b) /\ b # SysexStartByte
  /\ running' = b
  /\ data' = <<>>
  /\ out' = NoMessage
  /\ UNCHANGED <<inSysex, sysexBuf, thru, overran>>

DataWithoutStatus(b) ==
  /\ ~inSysex
  /\ IsData(b)
  /\ running = 0
  /\ out' = NoMessage
  /\ UNCHANGED <<running, data, inSysex, sysexBuf, thru, overran>>

\* A slip: the message is taken for complete one byte late.
DataByteLate(b) ==
  /\ ~inSysex
  /\ IsData(b)
  /\ running # 0
  /\ Len(data) < DataBytesLen
  /\ LET d == Append(data, b)
         need == DataNeeded(running)
         complete == need > 0 /\ Len(d) > need
     IN /\ data' = IF complete THEN <<>> ELSE d
        /\ out' = IF complete THEN ChannelMessage(running, d) ELSE NoMessage
  /\ UNCHANGED <<running, inSysex, sysexBuf, thru, overran>>

\* The byte is stored at index midi_data_count, then the message is sent and
\* the count cleared if it is complete.
DataByte(b) ==
  /\ ~inSysex
  /\ IsData(b)
  /\ running # 0
  /\ Len(data) < DataBytesLen
  /\ LET d == Append(data, b)
         need == DataNeeded(running)
         complete == need > 0 /\ Len(d) >= need
     IN /\ data' = IF complete THEN <<>> ELSE d
        /\ out' = IF complete THEN ChannelMessage(running, d) ELSE NoMessage
  /\ UNCHANGED <<running, inSysex, sysexBuf, thru, overran>>

\* No test keeps midi_data_count inside the array.
DataByteOverrun(b) ==
  /\ ~inSysex
  /\ IsData(b)
  /\ running # 0
  /\ Len(data) = DataBytesLen
  /\ overran' = TRUE
  /\ out' = NoMessage
  /\ UNCHANGED <<running, data, inSysex, sysexBuf, thru>>

Parse(b) ==
  \/ RealTimeByte(b)
  \/ SysexEnd(b)
  \/ SysexData(b)
  \/ SysexAbort(b)
  \/ SysexStart(b)
  \/ StatusByte(b)
  \/ DataWithoutStatus(b)
  \/ DataByte(b)
  \/ DataByteOverrun(b)

\* asynth_midi_set_note_forward_enabled, called when the menu option changes.
SetNoteForward(on) ==
  /\ thru' = on
  /\ out' = NoMessage
  /\ UNCHANGED <<running, data, inSysex, sysexBuf, overran>>

ParserNext ==
  \/ \E b \in Bytes : Parse(b)
  \/ \E on \in BOOLEAN : SetNoteForward(on)

ParserSpec == ParserInit /\ [][ParserNext]_parserVars

-----------------------------------------------------------------------------
OscMessages ==
  { NoMessage }
    \cup [addr : {"note_on", "note_off", "pc", "cc", "bend", "mmc", "mtc_qf", "mtc_ff"},
          args : Seq(Int)]

\* Every static keeps its range: the parser never holds a real-time byte as
\* status, a status byte as data, or more SysEx than its buffer.
ParserTypeOK ==
  /\ running \in {0} \cup {s \in Bytes : ~IsData(s) /\ ~IsRealTime(s)}
  /\ data \in Seq({b \in Bytes : IsData(b)}) /\ Len(data) <= DataBytesLen
  /\ inSysex \in BOOLEAN
  /\ sysexBuf \in Seq({b \in Bytes : IsData(b)}) /\ Len(sysexBuf) <= SysexCap
  /\ thru \in BOOLEAN
  /\ out \in OscMessages
  /\ overran \in BOOLEAN

\* For every message the decoder forwards, the count is cleared as soon as the
\* message is complete, so midi_data_count is a valid index when the next byte
\* comes; a store past midi_data_bytes can only follow a System Common status
\* (the default branch of the switch, which never clears the count).
FramedDataBounded ==
  DataNeeded(running) > 0 => Len(data) < DataNeeded(running)

OverrunOnlyAfterCommon ==
  [][overran' # overran => DataNeeded(running) = 0]_parserVars
=============================================================================

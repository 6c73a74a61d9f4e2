----------------------------- MODULE MidiProofs -----------------------------
(***************************************************************************)
(* MIDI from the UART to the packet, for every alphabet of bytes, every    *)
(* size of the SysEx buffer, of the queue and of the UART:                 *)
(*   - the decoder's statics keep their ranges, and midi_data_count can    *)
(*     leave its array only under a status that the switch does not know;  *)
(*   - every message the decoder emits passes the bridge's schema and can  *)
(*     be told from its packet;                                            *)
(*   - it emits a message exactly where the stream, read as a whole,       *)
(*     completes one, and is right again from the next status byte on;     *)
(*   - no byte between the wire and the decoder is duplicated or lost      *)
(*     uncounted, none is overtaken unless it was polled, and the drop     *)
(*     count never reports more than was dropped.                          *)
(***************************************************************************)
EXTENDS MidiInput, OscBridge, SequenceTheorems, FiniteSetTheorems,
        WellFoundedInduction, TLAPS

DataBytes == {b \in Bytes : IsData(b)}
Statuses  == {0} \cup {s \in Bytes : ~IsData(s) /\ ~IsRealTime(s)}

-----------------------------------------------------------------------------
(* What the operators return.                                              *)

\* Appending to a sequence that has room keeps it within its bound.
LEMMA AppendBounded ==
  ASSUME NEW S, NEW s \in Seq(S), NEW e \in S, NEW n \in Nat, Len(s) < n
  PROVE  /\ Append(s, e) \in Seq(S)
         /\ Len(Append(s, e)) = Len(s) + 1
         /\ Len(Append(s, e)) <= n
  OBVIOUS

\* The empty sequence fits in both buffers.
LEMMA EmptyFits ==
  /\ \A S : <<>> \in Seq(S)
  /\ Len(<<>>) <= DataBytesLen
  /\ Len(<<>>) <= SysexCap
  BY CapAssumption DEF DataBytesLen

\* Bytes are integers, a running status too.
LEMMA BytesAreInts == DataBytes \subseteq Int /\ Statuses \subseteq Int
<1>1. 0 \in Int /\ \A b \in Bytes : b \in Int
  BY BytesAssumption
<1> QED
  BY <1>1, Zenon DEF DataBytes, Statuses

\* An element of a sequence of bytes is an integer.
LEMMA ElementIsInt ==
  ASSUME NEW S \in SUBSET Int, NEW s \in Seq(S), NEW i \in 1..Len(s)
  PROVE  s[i] \in Int
<1>1. s[i] \in S
  OBVIOUS
<1> QED
  BY <1>1

\* No status frames more than the two bytes that midi_data_bytes has.
LEMMA DataNeededBounded ==
  \A status : DataNeeded(status) \in 0..DataBytesLen
  BY DEF DataNeeded, DataBytesLen

\* Two data bytes are all that a channel message is ever told from, and the
\* first is enough for those the decoder frames with one.
LEMMA ChannelMessageType ==
  ASSUME NEW status \in Int, NEW d, d[1] \in Int,
         DataNeeded(status) = 2 => d[2] \in Int
  PROVE  ChannelMessage(status, d) \in OscMessages
<1>1. Channel(status) \in Int
  BY DEF Channel
<1>2. (d[1] \div 16) % 8 \in Int /\ d[1] % 16 \in Int
  OBVIOUS
<1>3. CASE DataNeeded(status) = 2
  <2>1. d[2] \in Int /\ d[2] * 128 + d[1] - 8192 \in Int
    BY <1>3
  <2> QED
    BY <1>1, <1>2, <2>1 DEF ChannelMessage, OscMessages, Osc, NoMessage
<1>4. CASE DataNeeded(status) # 2
  <2>1. \/ status = QuarterFrameByte
        \/ Kind(status) \notin {NoteOff, NoteOn, ControlChange, PitchBend}
    BY <1>4 DEF DataNeeded, NoteOff, NoteOn, ControlChange, PitchBend, KeyPressure,
                ProgramChange, ChannelPressure
  <2> QED
    BY <1>1, <1>2, <2>1 DEF ChannelMessage, OscMessages, Osc, NoMessage
<1> QED
  BY <1>3, <1>4

\* A SysEx that was collected from data bytes dispatches to integers.
LEMMA SysexMessageType ==
  ASSUME NEW S \in SUBSET Int, NEW buf \in Seq(S)
  PROVE  SysexMessage(buf) \in OscMessages
<1>1. CASE Len(buf) < 4
  BY <1>1 DEF SysexMessage, OscMessages
<1>2. CASE Len(buf) >= 4 /\ Len(buf) < 8
  <2>1. 2 \in 1..Len(buf) /\ 4 \in 1..Len(buf)
    BY <1>2
  <2>2. buf[2] \in Int /\ buf[4] \in Int
    BY <2>1, ElementIsInt
  <2> QED
    BY <1>2, <2>2 DEF SysexMessage, OscMessages, Osc
<1>3. CASE Len(buf) >= 8
  <2>1. \A i \in 1..8 : i \in 1..Len(buf)
    BY <1>3
  <2>2. \A i \in 1..8 : buf[i] \in Int
    BY <2>1, ElementIsInt
  <2>3. buf[2] \in Int /\ buf[4] \in Int /\ buf[5] \in Int /\ buf[6] \in Int
        /\ buf[7] \in Int /\ buf[8] \in Int
    BY <2>2
  <2> QED
    BY <1>3, <2>3 DEF SysexMessage, OscMessages, Osc
<1> QED
  BY <1>1, <1>2, <1>3

-----------------------------------------------------------------------------
(* The inductive invariant.                                                *)

\* FramedDataBounded is inductive once the types of the statics are known: a
\* status of the switch clears the count on the byte that completes it, and
\* every branch that changes the status clears the count too.
ParserInv == ParserTypeOK /\ FramedDataBounded

LEMMA ParserInitInv == ParserInit => ParserInv
<1> SUFFICES ASSUME ParserInit PROVE ParserInv
  OBVIOUS
<1>1. DataNeeded(0) = 0
  BY DEF DataNeeded, Kind, QuarterFrameByte, ProgramChange, ChannelPressure, NoteOff,
         NoteOn, KeyPressure, ControlChange, PitchBend
<1>2. ParserTypeOK
  BY EmptyFits DEF ParserInit, ParserTypeOK, OscMessages
<1>3. FramedDataBounded
  BY <1>1 DEF ParserInit, FramedDataBounded
<1> QED
  BY <1>2, <1>3 DEF ParserInv

\* A byte that is stored: the only branch in which the count grows.
LEMMA DataByteInv ==
  ASSUME ParserInv, NEW b \in Bytes, DataByte(b)
  PROVE  ParserInv'
<1> DEFINE d    == Append(data, b)
           need == DataNeeded(running)
<1>1. /\ d \in Seq(DataBytes)
      /\ Len(d) = Len(data) + 1
      /\ Len(d) <= DataBytesLen
  BY AppendBounded DEF ParserInv, ParserTypeOK, DataByte, DataBytes, DataBytesLen
<1>2. need \in 0..2
  BY DataNeededBounded DEF DataBytesLen
<1>3. data' = IF need > 0 /\ Len(d) >= need THEN <<>> ELSE d
  BY DEF DataByte
<1>4. data' \in Seq(DataBytes) /\ Len(data') <= DataBytesLen
  BY <1>1, <1>3 DEF DataBytesLen
<1>5. need > 0 => Len(data') < need
  BY <1>1, <1>2, <1>3
<1>6. out' \in OscMessages
  <2>1. CASE need > 0 /\ Len(d) >= need
    <3>1. running \in Int
      BY BytesAreInts DEF Statuses, ParserInv, ParserTypeOK
    <3>2. Len(d) >= 1 /\ (need = 2 => Len(d) >= 2)
      BY <1>1, <1>2, <2>1
    <3>3. \A i \in 1..Len(d) : d[i] \in Int
      BY <1>1, BytesAreInts, ElementIsInt
    <3>4. d[1] \in Int /\ (need = 2 => d[2] \in Int)
      <4> HIDE DEF d
      <4> QED BY <1>1, <3>2, <3>3
    <3>5. ChannelMessage(running, d) \in OscMessages
      BY <3>1, <3>4, ChannelMessageType
    <3> QED
      BY <2>1, <3>5 DEF DataByte
  <2>2. CASE ~(need > 0 /\ Len(d) >= need)
    BY <2>2 DEF DataByte, OscMessages
  <2> QED
    BY <2>1, <2>2
<1>7. UNCHANGED <<running, inSysex, sysexBuf, thru, overran>>
  BY DEF DataByte
<1> QED
  BY <1>4, <1>5, <1>6, <1>7 DEF ParserInv, ParserTypeOK, FramedDataBounded, DataBytes

LEMMA ParserStepInv ==
  ParserInv /\ [ParserNext]_parserVars => ParserInv'
<1> SUFFICES ASSUME ParserInv, [ParserNext]_parserVars PROVE ParserInv'
  OBVIOUS
<1> USE DEF ParserInv, ParserTypeOK, FramedDataBounded
<1>0. NoMessage \in OscMessages
  BY DEF OscMessages
<1>1. ASSUME NEW b \in Bytes, RealTimeByte(b) PROVE ParserInv'
  BY <1>0, <1>1 DEF RealTimeByte
<1>2. ASSUME NEW b \in Bytes, SysexEnd(b) PROVE ParserInv'
  <2>1. sysexBuf \in Seq(DataBytes)
    BY DEF DataBytes
  <2>2. SysexMessage(sysexBuf) \in OscMessages
    BY <2>1, BytesAreInts, SysexMessageType
  <2> QED
    BY <1>2, <2>2 DEF SysexEnd
<1>3. ASSUME NEW b \in Bytes, SysexData(b) PROVE ParserInv'
  <2>1. b \in DataBytes /\ sysexBuf \in Seq(DataBytes)
    BY <1>3 DEF SysexData, DataBytes
  <2>2. CASE Len(sysexBuf) < SysexCap
    <3>1. /\ Append(sysexBuf, b) \in Seq(DataBytes)
          /\ Len(Append(sysexBuf, b)) <= SysexCap
      BY <2>1, <2>2, AppendBounded, CapAssumption
    <3> QED
      BY <1>0, <1>3, <2>2, <3>1 DEF SysexData, DataBytes
  <2>3. CASE ~(Len(sysexBuf) < SysexCap)
    BY <1>0, <1>3, <2>3 DEF SysexData
  <2> QED
    BY <2>2, <2>3
<1>4. ASSUME NEW b \in Bytes, SysexAbort(b) PROVE ParserInv'
  <2>1. DataNeeded(b) \in 0..2
    BY DataNeededBounded DEF DataBytesLen
  <2>2. ParserTypeOK'
    BY <1>0, <1>4, EmptyFits DEF SysexAbort
  <2>3. FramedDataBounded'
    BY <1>4, <2>1 DEF SysexAbort
  <2> QED
    BY <2>2, <2>3
<1>5. ASSUME NEW b \in Bytes, SysexStart(b) PROVE ParserInv'
  BY <1>0, <1>5, DataNeededBounded, CapAssumption DEF SysexStart, DataBytesLen
<1>6. ASSUME NEW b \in Bytes, StatusByte(b) PROVE ParserInv'
  BY <1>0, <1>6, DataNeededBounded DEF StatusByte, DataBytesLen
<1>7. ASSUME NEW b \in Bytes, DataWithoutStatus(b) PROVE ParserInv'
  BY <1>0, <1>7 DEF DataWithoutStatus
<1>8. ASSUME NEW b \in Bytes, DataByte(b) PROVE ParserInv'
  BY <1>8, DataByteInv
<1>9. ASSUME NEW b \in Bytes, DataByteOverrun(b) PROVE ParserInv'
  BY <1>0, <1>9 DEF DataByteOverrun
<1>10. ASSUME NEW on \in BOOLEAN, SetNoteForward(on) PROVE ParserInv'
  BY <1>0, <1>10 DEF SetNoteForward
<1>11. CASE UNCHANGED parserVars
  BY <1>11 DEF parserVars
<1> QED
  BY <1>1, <1>2, <1>3, <1>4, <1>5, <1>6, <1>7, <1>8, <1>9, <1>10, <1>11
     DEF ParserNext, Parse

-----------------------------------------------------------------------------
\* Whatever bytes arrive, the decoder's statics keep their ranges: no SysEx
\* grows past its buffer and no real-time byte becomes a running status.
THEOREM ParserTypeCorrect == ParserSpec => []ParserTypeOK
<1>1. ParserInv => ParserTypeOK
  BY DEF ParserInv
<1> QED
  BY <1>1, ParserInitInv, ParserStepInv, PTL DEF ParserSpec

\* midi_data_count is a valid index of midi_data_bytes whenever the running
\* status is one that midi_parse_and_dispatch frames.
THEOREM FramedDataStaysBounded == ParserSpec => []FramedDataBounded
<1>1. ParserInv => FramedDataBounded
  BY DEF ParserInv
<1> QED
  BY <1>1, ParserInitInv, ParserStepInv, PTL DEF ParserSpec

\* So the store past midi_data_bytes needs a System Common status, 0xF1 aside:
\* one that the default branch of the switch leaves uncounted.
THEOREM OverrunNeedsCommonStatus == ParserSpec => OverrunOnlyAfterCommon
<1>1. ASSUME ParserInv, [ParserNext]_parserVars
      PROVE  [overran' # overran => DataNeeded(running) = 0]_parserVars
  <2>1. ASSUME NEW b \in Bytes, DataByteOverrun(b) PROVE DataNeeded(running) = 0
    <3>1. DataNeeded(running) \in 0..2 /\ Len(data) = 2
      BY <2>1, DataNeededBounded DEF DataByteOverrun, DataBytesLen
    <3>2. DataNeeded(running) > 0 => Len(data) < DataNeeded(running)
      BY <1>1 DEF ParserInv, FramedDataBounded
    <3> QED
      BY <3>1, <3>2
  <2> QED
    BY <1>1, <2>1 DEF ParserNext, Parse, RealTimeByte, SysexEnd, SysexData, SysexAbort,
       SysexStart, StatusByte, DataWithoutStatus, DataByte, SetNoteForward, parserVars
<1> QED
  BY <1>1, ParserInitInv, ParserStepInv, PTL DEF ParserSpec, OverrunOnlyAfterCommon

-----------------------------------------------------------------------------
(* The bridge: from a decoded message to its packet and back.              *)

\* The messages the decoder can make, each field within the seven bits of a
\* data byte, the four of a channel or the fourteen of a pitch bend.
SevenBit == 0..127
Nibble   == 0..15
BendRange == -8192..8191

IsDecoded(m) ==
  \/ \E c \in Nibble, k \in SevenBit, v \in SevenBit : m = Osc("note_on", <<c, k, v>>)
  \/ \E c \in Nibble, k \in SevenBit : m = Osc("note_off", <<c, k>>)
  \/ \E c \in Nibble, k \in SevenBit : m = Osc("pc", <<c, k>>)
  \/ \E c \in Nibble, k \in SevenBit, v \in SevenBit : m = Osc("cc", <<c, k, v>>)
  \/ \E c \in Nibble, x \in BendRange : m = Osc("bend", <<c, x>>)
  \/ \E x \in SevenBit, y \in SevenBit : m = Osc("mmc", <<x, y>>)
  \/ \E x \in 0..7, y \in Nibble : m = Osc("mtc_qf", <<x, y>>)
  \/ \E w \in SevenBit, x \in SevenBit, y \in SevenBit, z \in SevenBit :
        m = Osc("mtc_ff", <<w, x, y, z>>)

\* The 32-bit word of a Full Frame gives its four bytes back.
LEMMA FullFrameUnpacks ==
  ASSUME NEW w \in SevenBit, NEW x \in SevenBit, NEW y \in SevenBit, NEW z \in SevenBit,
         NEW p, p = w * 16777216 + x * 65536 + y * 256 + z
  PROVE  /\ (p \div 16777216) % 256 = w
         /\ (p \div 65536) % 256 = x
         /\ (p \div 256) % 256 = y
         /\ (p \div 1) % 256 = z
<1>1. p \div 16777216 = w
  BY SMT DEF SevenBit
<1>2. p \div 65536 = w * 256 + x
  BY SMT DEF SevenBit
<1>3. p \div 256 = (w * 256 + x) * 256 + y
  BY SMT DEF SevenBit
<1>4. p \div 1 = ((w * 256 + x) * 256 + y) * 256 + z
  BY SMT DEF SevenBit
<1> QED
  BY <1>1, <1>2, <1>3, <1>4, SMT DEF SevenBit

\* What PacketTellsMessage asks of one message.
Told(m) == Accepts(m) /\ Understood(Packet(m)) = m

\* The schema lets every decoded message through, and its packet gives it back.
LEMMA DecodedIsTold ==
  ASSUME NEW m, IsDecoded(m)
  PROVE  Told(m)
<1>1. ASSUME NEW c \in Nibble, NEW k \in SevenBit, NEW v \in SevenBit,
             m = Osc("note_on", <<c, k, v>>)
      PROVE  Told(m)
  <2>1. Accepts(m)
    BY <1>1, SMT DEF Accepts, Osc, SevenBit, Nibble, MidiChannelMax, MidiDataMax
  <2>2. Packet(m) = [path |-> <<"noteON", c + 1, k>>, arg |-> v]
    BY <1>1, SMT DEF Packet, Osc
  <2>3. Understood([path |-> <<"noteON", c + 1, k>>, arg |-> v]) = Osc("note_on", <<c, k, v>>)
    BY SMT DEF Understood, Osc, SevenBit, Nibble
  <2> QED
    BY <1>1, <2>1, <2>2, <2>3 DEF Told
<1>2. ASSUME NEW c \in Nibble, NEW k \in SevenBit,
             m = Osc("note_off", <<c, k>>)
      PROVE  Told(m)
  <2>1. Accepts(m)
    BY <1>2, SMT DEF Accepts, Osc, SevenBit, Nibble, MidiChannelMax, MidiDataMax
  <2>2. Packet(m) = [path |-> <<"noteOFF", c + 1>>, arg |-> k]
    BY <1>2, SMT DEF Packet, Osc
  <2>3. Understood([path |-> <<"noteOFF", c + 1>>, arg |-> k]) = Osc("note_off", <<c, k>>)
    BY SMT DEF Understood, Osc, SevenBit, Nibble
  <2> QED
    BY <1>2, <2>1, <2>2, <2>3 DEF Told
<1>3. ASSUME NEW c \in Nibble, NEW k \in SevenBit,
             m = Osc("pc", <<c, k>>)
      PROVE  Told(m)
  <2>1. Accepts(m)
    BY <1>3, SMT DEF Accepts, Osc, SevenBit, Nibble, MidiChannelMax, MidiDataMax
  <2>2. Packet(m) = [path |-> <<"PC", c + 1>>, arg |-> k]
    BY <1>3, SMT DEF Packet, Osc
  <2>3. Understood([path |-> <<"PC", c + 1>>, arg |-> k]) = Osc("pc", <<c, k>>)
    BY SMT DEF Understood, Osc, SevenBit, Nibble
  <2> QED
    BY <1>3, <2>1, <2>2, <2>3 DEF Told
<1>4. ASSUME NEW c \in Nibble, NEW k \in SevenBit, NEW v \in SevenBit,
             m = Osc("cc", <<c, k, v>>)
      PROVE  Told(m)
  <2>1. Accepts(m)
    BY <1>4, SMT DEF Accepts, Osc, SevenBit, Nibble, MidiChannelMax, MidiDataMax
  <2>2. Packet(m) = [path |-> <<"CC", c + 1, k>>, arg |-> v]
    BY <1>4, SMT DEF Packet, Osc
  <2>3. Understood([path |-> <<"CC", c + 1, k>>, arg |-> v]) = Osc("cc", <<c, k, v>>)
    BY SMT DEF Understood, Osc, SevenBit, Nibble
  <2> QED
    BY <1>4, <2>1, <2>2, <2>3 DEF Told
<1>5. ASSUME NEW c \in Nibble, NEW x \in BendRange,
             m = Osc("bend", <<c, x>>)
      PROVE  Told(m)
  <2>1. Accepts(m)
    BY <1>5, SMTT(20) DEF Accepts, Osc, SevenBit, Nibble, BendRange, PitchBendMin, PitchBendMax, MidiChannelMax
  <2>2. Packet(m) = [path |-> <<"pitchBend", c + 1>>, arg |-> x]
    BY <1>5, SMT DEF Packet, Osc
  <2>3. Understood([path |-> <<"pitchBend", c + 1>>, arg |-> x]) = Osc("bend", <<c, x>>)
    BY SMT DEF Understood, Osc, SevenBit, Nibble, BendRange
  <2> QED
    BY <1>5, <2>1, <2>2, <2>3 DEF Told
<1>6. ASSUME NEW x \in SevenBit, NEW y \in SevenBit,
             m = Osc("mmc", <<x, y>>)
      PROVE  Told(m)
  <2>1. Accepts(m)
    BY <1>6, SMT DEF Accepts, Osc, SevenBit, Nibble
  <2>2. Packet(m) = [path |-> <<"MMC", x>>, arg |-> y]
    BY <1>6, SMT DEF Packet, Osc
  <2>3. Understood([path |-> <<"MMC", x>>, arg |-> y]) = Osc("mmc", <<x, y>>)
    BY SMT DEF Understood, Osc, SevenBit, Nibble
  <2> QED
    BY <1>6, <2>1, <2>2, <2>3 DEF Told
<1>7. ASSUME NEW x \in 0..7, NEW y \in Nibble,
             m = Osc("mtc_qf", <<x, y>>)
      PROVE  Told(m)
  <2>1. Accepts(m)
    BY <1>7, SMT DEF Accepts, Osc, SevenBit, Nibble, MtcPieceMax, MtcValueMax
  <2>2. Packet(m) = [path |-> <<"MTC/QF", x>>, arg |-> y]
    BY <1>7, SMT DEF Packet, Osc
  <2>3. Understood([path |-> <<"MTC/QF", x>>, arg |-> y]) = Osc("mtc_qf", <<x, y>>)
    BY SMT DEF Understood, Osc, SevenBit, Nibble
  <2> QED
    BY <1>7, <2>1, <2>2, <2>3 DEF Told
<1>8. ASSUME NEW w \in SevenBit, NEW x \in SevenBit, NEW y \in SevenBit, NEW z \in SevenBit,
             m = Osc("mtc_ff", <<w, x, y, z>>)
      PROVE  Told(m)
  <2> DEFINE p == w * 16777216 + x * 65536 + y * 256 + z
  <2>1. Accepts(m)
    BY <1>8, SMT DEF Accepts, Osc
  <2>2. Packet(m) = [path |-> <<"MTC/fullFrame">>, arg |-> p]
    BY <1>8, SMT DEF Packet, Packed, Osc
  <2>3. /\ (p \div 16777216) % 256 = w
        /\ (p \div 65536) % 256 = x
        /\ (p \div 256) % 256 = y
        /\ (p \div 1) % 256 = z
    BY FullFrameUnpacks, SMT
  <2>4. Understood([path |-> <<"MTC/fullFrame">>, arg |-> p]) = Osc("mtc_ff", <<w, x, y, z>>)
    <3> HIDE DEF p
    <3> QED BY <2>3, SMT DEF Understood
  <2> QED
    <3> HIDE DEF p
    <3> QED BY <1>8, <2>1, <2>2, <2>4 DEF Told
<1> QED
  BY <1>1, <1>2, <1>3, <1>4, <1>5, <1>6, <1>7, <1>8, Zenon DEF IsDecoded

\* Data bytes have seven bits.
LEMMA DataBytesSevenBit == DataBytes \subseteq SevenBit
<1>1. ASSUME NEW b \in 0..255, b < 128 PROVE b \in SevenBit
  BY <1>1 DEF SevenBit
<1>2. ASSUME NEW b \in Bytes, IsData(b) PROVE b \in SevenBit
  BY <1>1, <1>2, BytesAssumption, Zenon DEF IsData
<1> QED
  BY <1>2, Zenon DEF DataBytes

\* Two data bytes make a pitch bend of fourteen bits about zero.
LEMMA BendBounded ==
  ASSUME NEW lsb \in SevenBit, NEW msb \in SevenBit
  PROVE  msb * 128 + lsb - 8192 \in BendRange
  BY SMTT(20) DEF SevenBit, BendRange

\* A channel message with the data bytes it needs is decoded within its fields.
LEMMA ChannelMessageDecoded ==
  ASSUME NEW status \in Int, NEW d, d[1] \in SevenBit,
         DataNeeded(status) = 2 => d[2] \in SevenBit
  PROVE  ChannelMessage(status, d) = NoMessage \/ IsDecoded(ChannelMessage(status, d))
<1> DEFINE m == ChannelMessage(status, d)
<1>1. Channel(status) \in Nibble
  BY SMT DEF Channel, Nibble
<1>2. /\ (d[1] \div 16) % 8 \in 0..7
      /\ d[1] % 16 \in Nibble
  BY SMT DEF Nibble, SevenBit
<1>3. CASE status = QuarterFrameByte
  <2>1. m = Osc("mtc_qf", <<(d[1] \div 16) % 8, d[1] % 16>>)
    BY <1>3, SMT DEF ChannelMessage
  <2> QED
    BY <1>2, <2>1, Zenon DEF IsDecoded
<1>4. CASE status # QuarterFrameByte /\ Kind(status) = ProgramChange
  <2>1. m = Osc("pc", <<Channel(status), d[1]>>)
    BY <1>4, SMT DEF ChannelMessage
  <2> QED
    BY <1>1, <2>1, Zenon DEF IsDecoded
<1>5. CASE status # QuarterFrameByte /\ Kind(status) \in {NoteOff, NoteOn, ControlChange, PitchBend}
  <2>1. d[2] \in SevenBit
    BY <1>5, SMT DEF DataNeeded, NoteOff, NoteOn, ControlChange, PitchBend, KeyPressure,
                     ProgramChange, ChannelPressure
  <2>2. d[2] * 128 + d[1] - 8192 \in BendRange
    BY <2>1, BendBounded
  <2>3. \/ m = NoMessage
        \/ m = Osc("note_on", <<Channel(status), d[1], d[2]>>)
        \/ m = Osc("note_off", <<Channel(status), d[1]>>)
        \/ m = Osc("cc", <<Channel(status), d[1], d[2]>>)
        \/ m = Osc("bend", <<Channel(status), d[2] * 128 + d[1] - 8192>>)
    BY <1>5, SMT DEF ChannelMessage, NoteOff, NoteOn, ControlChange, PitchBend, ProgramChange
  <2> DEFINE x == d[2] * 128 + d[1] - 8192
  <2>4. x \in BendRange
    BY <2>2
  <2>5. \/ m = NoMessage
        \/ m = Osc("note_on", <<Channel(status), d[1], d[2]>>)
        \/ m = Osc("note_off", <<Channel(status), d[1]>>)
        \/ m = Osc("cc", <<Channel(status), d[1], d[2]>>)
        \/ m = Osc("bend", <<Channel(status), x>>)
    BY <2>3
  <2> HIDE DEF m, x
  <2>6. m = NoMessage \/ IsDecoded(m)
    BY <1>1, <2>1, <2>4, <2>5, Zenon DEF IsDecoded
  <2> QED
    BY <2>6 DEF m
<1>6. CASE /\ status # QuarterFrameByte
           /\ Kind(status) \notin {ProgramChange, NoteOff, NoteOn, ControlChange, PitchBend}
  BY <1>6, SMT DEF ChannelMessage
<1> QED
  BY <1>3, <1>4, <1>5, <1>6, Zenon

\* So is a SysEx collected from data bytes.
LEMMA SysexMessageDecoded ==
  ASSUME NEW buf \in Seq(SevenBit)
  PROVE  SysexMessage(buf) = NoMessage \/ IsDecoded(SysexMessage(buf))
<1>1. CASE Len(buf) < 4
  BY <1>1 DEF SysexMessage
<1>2. CASE Len(buf) >= 4
  <2>1. \A i \in 1..Len(buf) : buf[i] \in SevenBit
    BY ElementOfSeq, Zenon
  <2>2. buf[2] \in SevenBit /\ buf[4] \in SevenBit
    <3>1. 2 \in 1..Len(buf) /\ 4 \in 1..Len(buf)
      BY <1>2, SMT
    <3> QED BY <2>1, <3>1, Zenon
  <2>3. Len(buf) >= 8 => buf[5] \in SevenBit /\ buf[6] \in SevenBit
                         /\ buf[7] \in SevenBit /\ buf[8] \in SevenBit
    <3>1. Len(buf) >= 8 => 5 \in 1..Len(buf) /\ 6 \in 1..Len(buf)
                           /\ 7 \in 1..Len(buf) /\ 8 \in 1..Len(buf)
      BY SMT
    <3> QED BY <2>1, <3>1, Zenon
  <2>4. \/ SysexMessage(buf) = NoMessage
        \/ SysexMessage(buf) = Osc("mmc", <<buf[2], buf[4]>>)
        \/ /\ Len(buf) >= 8
           /\ SysexMessage(buf) = Osc("mtc_ff", <<buf[5], buf[6], buf[7], buf[8]>>)
    BY <1>2, SMT DEF SysexMessage
  <2> QED
    BY <2>2, <2>3, <2>4, Zenon DEF IsDecoded
<1> QED
  BY <1>1, <1>2, SMT

\* What the decoder has just emitted is nothing or a decoded message.
Emitted == out = NoMessage \/ IsDecoded(out)

LEMMA EmittedInit == ParserInit => Emitted
  BY DEF ParserInit, Emitted

LEMMA EmittedStep ==
  ParserInv /\ Emitted /\ [ParserNext]_parserVars => Emitted'
<1> SUFFICES ASSUME ParserInv, Emitted, [ParserNext]_parserVars PROVE Emitted'
  OBVIOUS
<1>1. ASSUME NEW b \in Bytes, SysexEnd(b) PROVE Emitted'
  <2>1. sysexBuf \in Seq(DataBytes)
    BY DEF ParserInv, ParserTypeOK, DataBytes
  <2>2. sysexBuf \in Seq(SevenBit)
    BY <2>1, DataBytesSevenBit, SeqMonotonic
  <2>3. out' = SysexMessage(sysexBuf)
    BY <1>1 DEF SysexEnd
  <2> QED
    BY <2>2, <2>3, SysexMessageDecoded, Zenon DEF Emitted
<1>2. ASSUME NEW b \in Bytes, DataByte(b) PROVE Emitted'
  <2> DEFINE d == Append(data, b)
             need == DataNeeded(running)
  <2>1. d \in Seq(DataBytes)
    BY <1>2, AppendBounded DEF ParserInv, ParserTypeOK, DataByte, DataBytes, DataBytesLen
  <2>2. d \in Seq(SevenBit)
    BY <2>1, DataBytesSevenBit, SeqMonotonic
  <2>3. \A i \in 1..Len(d) : d[i] \in SevenBit
    <3> HIDE DEF d
    <3> QED BY <2>2, ElementOfSeq, Zenon
  <2>4. CASE need > 0 /\ Len(d) >= need
    <3>1. out' = ChannelMessage(running, d)
      BY <1>2, <2>4 DEF DataByte
    <3>2. running \in Int
      BY BytesAreInts DEF Statuses, ParserInv, ParserTypeOK
    <3>3. need \in 0..2
      BY DataNeededBounded DEF DataBytesLen
    <3>4. Len(d) \in Nat
      BY <2>1
    <3>5. 1 \in 1..Len(d) /\ (need = 2 => 2 \in 1..Len(d))
      <4> HIDE DEF d, need
      <4> QED BY <2>4, <3>3, <3>4, SMT
    <3>6. d[1] \in SevenBit /\ (need = 2 => d[2] \in SevenBit)
      <4> HIDE DEF d, need
      <4> QED BY <2>3, <3>5, Zenon
    <3> QED
      <4> HIDE DEF d
      <4> QED BY <3>1, <3>2, <3>6, ChannelMessageDecoded, Zenon DEF Emitted
  <2>5. CASE ~(need > 0 /\ Len(d) >= need)
    BY <1>2, <2>5 DEF DataByte, Emitted
  <2> QED
    BY <2>4, <2>5
<1>3. ASSUME NEW b \in Bytes,
             \/ RealTimeByte(b) \/ SysexData(b) \/ SysexAbort(b) \/ SysexStart(b)
             \/ StatusByte(b) \/ DataWithoutStatus(b) \/ DataByteOverrun(b)
      PROVE  Emitted'
  BY <1>3 DEF RealTimeByte, SysexData, SysexAbort, SysexStart, StatusByte,
     DataWithoutStatus, DataByteOverrun, Emitted
<1>4. ASSUME NEW on \in BOOLEAN, SetNoteForward(on) PROVE Emitted'
  BY <1>4 DEF SetNoteForward, Emitted
<1>5. CASE UNCHANGED parserVars
  BY <1>5, Zenon DEF parserVars, Emitted
<1> QED
  BY <1>1, <1>2, <1>3, <1>4, <1>5, Zenon DEF ParserNext, Parse

\* Every message the decoder ever emits passes the schema of the bridge, whose
\* refusals midi_parse_and_dispatch ignores, and reaches the receiver whole.
THEOREM PacketsAlwaysTell == ParserSpec => []PacketTellsMessage
<1>1. Emitted => PacketTellsMessage
  BY DecodedIsTold, Zenon DEF Emitted, PacketTellsMessage, Told
<1> QED
  BY <1>1, EmittedInit, EmittedStep, ParserInitInv, ParserStepInv, PTL DEF ParserSpec

-----------------------------------------------------------------------------
(* The path of a byte: what sequences of positions on the wire keep.       *)

\* The smaller of two numbers.
LEMMA MinOfTwo ==
  ASSUME NEW a \in Int, NEW b \in Int
  PROVE  Min({a, b}) = IF a <= b THEN a ELSE b
<1> DEFINE least == IF a <= b THEN a ELSE b
<1>1. least \in {a, b} /\ \A y \in {a, b} : least <= y
  BY SMT
<1>2. \A x \in {a, b} : (\A y \in {a, b} : x <= y) => x = least
  BY SMT
<1> HIDE DEF least
<1>3. Min({a, b}) = least
  BY <1>1, <1>2, Zenon DEF Min
<1> QED
  BY <1>3 DEF least

\* What was polled is the only thing that can be overtaken.
Overtaken(ord, pol) ==
  \A i, j \in DOMAIN ord : i < j /\ ord[i] >= ord[j] => ord[j] \in pol /\ ord[i] \notin pol

\* ord: the positions parsed and queued; rd: those in the UART; pol: those the
\* fallback has taken; n: how far the wire is.  What is still in the UART comes
\* after everything that has left it.
OrderInv(ord, rd, pol, n) ==
  /\ \A i \in DOMAIN ord : ord[i] \in 1..n
  /\ \A k \in DOMAIN rd : rd[k] \in 1..n
  /\ pol \subseteq 1..n
  /\ \A k, l \in DOMAIN rd : k < l => rd[k] < rd[l]
  /\ \A i \in DOMAIN ord, k \in DOMAIN rd : ord[i] < rd[k]
  /\ \A p \in pol, k \in DOMAIN rd : p < rd[k]
  /\ Overtaken(ord, pol)

\* A polled byte h in hand: only bytes the interrupt queued can have passed it.
HandInv(h, ord, rd, pol) ==
  /\ h \in pol
  /\ \A k \in DOMAIN rd : h < rd[k]
  /\ \A i \in DOMAIN ord : ord[i] >= h => ord[i] \notin pol

\* A byte arrives behind all the others.
LEMMA OrderArrives ==
  ASSUME NEW ord \in Seq(Nat), NEW rd \in Seq(Nat), NEW pol, NEW n \in Nat, NEW h,
         OrderInv(ord, rd, pol, n)
  PROVE  /\ OrderInv(ord, Append(rd, n + 1), pol, n + 1)
         /\ OrderInv(ord, rd, pol, n + 1)
         /\ HandInv(h, ord, rd, pol) => HandInv(h, ord, Append(rd, n + 1), pol)
<1> DEFINE new == Append(rd, n + 1)
<1>1. /\ new \in Seq(Nat)
      /\ DOMAIN new = 1..(Len(rd) + 1)
      /\ \A k \in 1..Len(rd) : new[k] = rd[k]
      /\ new[Len(rd) + 1] = n + 1
      /\ DOMAIN rd = 1..Len(rd)
      /\ Len(rd) \in Nat
  OBVIOUS
<1>2. \A k \in DOMAIN new : new[k] = n + 1 \/ (k \in DOMAIN rd /\ new[k] = rd[k])
  BY <1>1, SMT
<1>3. \A k, l \in DOMAIN new : k < l => k \in DOMAIN rd /\ new[k] = rd[k]
  BY <1>1, SMT
<1>4. \A p \in pol : p \in Int /\ p <= n
  BY SMT DEF OrderInv
<1> HIDE DEF new
<1>5. OrderInv(ord, rd, pol, n + 1)
  BY SMT DEF OrderInv
<1>6. \A i \in DOMAIN ord : ord[i] \in Int /\ ord[i] < n + 1
  BY SMT DEF OrderInv
<1>7. \A k \in DOMAIN rd : rd[k] \in Int /\ rd[k] < n + 1
  BY SMT DEF OrderInv
<1>8. \A p \in pol : p < n + 1
  BY <1>4, SMT
<1>9. n + 1 \in 1..(n + 1)
  BY SMT
<1>10. /\ \A k \in DOMAIN new : new[k] \in 1..(n + 1)
       /\ \A i \in DOMAIN ord, k \in DOMAIN new : ord[i] < new[k]
       /\ \A p \in pol, k \in DOMAIN new : p < new[k]
  BY <1>2, <1>5, <1>6, <1>8, <1>9, Zenon DEF OrderInv
<1>11. \A k, l \in DOMAIN new : k < l => new[k] < new[l]
  BY <1>2, <1>3, <1>5, <1>7, Zenon DEF OrderInv
<1>12. OrderInv(ord, new, pol, n + 1)
  BY <1>5, <1>10, <1>11, Zenon DEF OrderInv
<1>13. HandInv(h, ord, rd, pol) => HandInv(h, ord, new, pol)
  BY <1>2, <1>8, Zenon DEF HandInv
<1> QED
  BY <1>5, <1>12, <1>13 DEF new

\* The interrupt appends the first f bytes of the UART and forgets the rest.
LEMMA OrderDrained ==
  ASSUME NEW ord \in Seq(Nat), NEW rd \in Seq(Nat), NEW pol, NEW n \in Nat, NEW h,
         NEW f \in 0..Len(rd), OrderInv(ord, rd, pol, n)
  PROVE  /\ OrderInv(ord \o SubSeq(rd, 1, f), <<>>, pol, n)
         /\ HandInv(h, ord, rd, pol) => HandInv(h, ord \o SubSeq(rd, 1, f), <<>>, pol)
<1> DEFINE part == SubSeq(rd, 1, f)
           new  == ord \o part
<1>1. /\ part \in Seq(Nat)
      /\ Len(part) = f
      /\ \A i \in 1..f : part[i] = rd[i]
  BY SMT
<1> HIDE DEF part
<1>2. /\ new \in Seq(Nat)
      /\ Len(new) = Len(ord) + f
      /\ \A i \in 1..Len(new) : new[i] = IF i <= Len(ord) THEN ord[i]
                                         ELSE part[i - Len(ord)]
  <2>1. /\ new \in Seq(Nat)
        /\ Len(new) = Len(ord) + Len(part)
        /\ \A i \in 1..(Len(ord) + Len(part)) :
             new[i] = IF i <= Len(ord) THEN ord[i] ELSE part[i - Len(ord)]
    BY <1>1, ConcatProperties, Zenon
  <2> HIDE DEF new
  <2> QED
    BY <1>1, <2>1, Zenon
<1>3. /\ DOMAIN new = 1..Len(new) /\ DOMAIN ord = 1..Len(ord) /\ DOMAIN rd = 1..Len(rd)
      /\ Len(ord) \in Nat /\ Len(rd) \in Nat
  BY <1>2, LenProperties
<1>4. \A i \in DOMAIN new : \/ i <= Len(ord) /\ i \in DOMAIN ord /\ new[i] = ord[i]
                            \/ /\ i > Len(ord) /\ i - Len(ord) \in DOMAIN rd
                               /\ new[i] = rd[i - Len(ord)]
  <2> HIDE DEF new
  <2> DEFINE l == Len(ord)
             r == Len(rd)
  <2>0. /\ DOMAIN new = 1..(l + f) /\ DOMAIN ord = 1..l /\ DOMAIN rd = 1..r
        /\ l \in Nat /\ r \in Nat
        /\ \A i \in 1..(l + f) : new[i] = IF i <= l THEN ord[i] ELSE part[i - l]
    BY <1>2, <1>3, Zenon
  <2> HIDE DEF l, r
  <2>1. ASSUME NEW i \in DOMAIN new, i <= l
        PROVE  i \in DOMAIN ord /\ new[i] = ord[i]
    <3>1. i \in 1..(l + f) /\ i \in 1..l
      BY <2>0, <2>1, SMT
    <3> QED
      BY <2>0, <2>1, <3>1, Zenon
  <2>2. ASSUME NEW i \in DOMAIN new, i > l
        PROVE  i - l \in DOMAIN rd /\ new[i] = rd[i - l]
    <3>1. i \in 1..(l + f) /\ i - l \in 1..f /\ i - l \in 1..r /\ ~(i <= l)
      BY <2>0, <2>2, SMT DEF r
    <3> QED
      BY <1>1, <2>0, <3>1, Zenon
  <2>3. \A i \in DOMAIN new : i <= l \/ i > l
    BY <2>0, SMT
  <2> QED
    BY <2>1, <2>2, <2>3, Zenon DEF l
<1> HIDE DEF new
<1>5. \A i \in DOMAIN new : new[i] \in 1..n
  BY <1>4, Zenon DEF OrderInv
<1>6. ASSUME NEW i \in DOMAIN new, NEW j \in DOMAIN new, i < j, new[i] >= new[j]
      PROVE  new[j] \in pol /\ new[i] \notin pol
  <2>1. i \in Int /\ j \in Int /\ Len(ord) \in Int
    BY <1>2, <1>3
  <2>0. \A p, q \in Int : ~(p < q /\ p >= q)
    BY SMT
  <2>2. CASE j <= Len(ord)
    <3>1. /\ i \in DOMAIN ord /\ j \in DOMAIN ord
          /\ new[i] = ord[i] /\ new[j] = ord[j]
      BY <1>4, <1>6, <2>1, <2>2, SMT
    <3> QED
      BY <1>6, <3>1, Zenon DEF OrderInv, Overtaken
  <2>3. CASE i <= Len(ord) /\ j > Len(ord)
    <3>1. /\ i \in DOMAIN ord /\ new[i] = ord[i]
          /\ j - Len(ord) \in DOMAIN rd /\ new[j] = rd[j - Len(ord)]
      BY <1>4, <2>1, <2>3, SMT
    <3>2. ord[i] < rd[j - Len(ord)]
      BY <3>1, Zenon DEF OrderInv
    <3>3. ord[i] \in Int /\ rd[j - Len(ord)] \in Int
      BY <1>3, <3>1
    <3> QED
      BY <1>6, <2>0, <3>1, <3>2, <3>3, Zenon
  <2>4. CASE i > Len(ord)
    <3>1. /\ i - Len(ord) \in DOMAIN rd /\ new[i] = rd[i - Len(ord)]
          /\ j - Len(ord) \in DOMAIN rd /\ new[j] = rd[j - Len(ord)]
          /\ i - Len(ord) < j - Len(ord)
      BY <1>4, <1>6, <2>1, <2>4, SMT
    <3>2. rd[i - Len(ord)] < rd[j - Len(ord)]
      BY <3>1, Zenon DEF OrderInv
    <3>3. rd[i - Len(ord)] \in Int /\ rd[j - Len(ord)] \in Int
      BY <1>3, <3>1
    <3> QED
      BY <1>6, <2>0, <3>1, <3>2, <3>3, Zenon
  <2> QED
    BY <2>1, <2>2, <2>3, <2>4, SMT
<1>7. DOMAIN <<>> = {}
  BY SMT
<1>8. OrderInv(new, <<>>, pol, n)
  BY <1>5, <1>6, <1>7, Zenon DEF OrderInv, Overtaken
<1>9. ASSUME HandInv(h, ord, rd, pol) PROVE HandInv(h, new, <<>>, pol)
  <2>1. ASSUME NEW i \in DOMAIN new, new[i] >= h PROVE new[i] \notin pol
    <3>1. CASE i \in DOMAIN ord /\ new[i] = ord[i]
      BY <1>9, <2>1, <3>1, Zenon DEF HandInv
    <3>2. CASE i - Len(ord) \in DOMAIN rd /\ new[i] = rd[i - Len(ord)]
      <4>1. rd[i - Len(ord)] \in Int
        BY <1>3, <3>2
      <4>2. \A p \in pol : p < rd[i - Len(ord)]
        BY <3>2, Zenon DEF OrderInv
      <4> QED
        BY <3>2, <4>1, <4>2, SMT
    <3> QED
      BY <1>4, <3>1, <3>2, Zenon
  <2> QED
    BY <1>7, <1>9, <2>1, Zenon DEF HandInv
<1> QED
  BY <1>8, <1>9 DEF new, part

\* What has been parsed, what is queued and what comes behind, one after the other.
LEMMA Joined ==
  ASSUME NEW s \in Seq(Nat), NEW t \in Seq(Nat), NEW u \in Seq(Nat)
  PROVE  (s \o t) \o u = s \o (t \o u)
  BY ConcatAssociative, SMTT(30)

\* The fallback takes the first byte of the UART into its hand.
LEMMA OrderPolled ==
  ASSUME NEW ord \in Seq(Nat), NEW rd \in Seq(Nat), NEW pol, NEW n \in Nat,
         rd # <<>>, OrderInv(ord, rd, pol, n)
  PROVE  /\ OrderInv(ord, Tail(rd), pol \cup {Head(rd)}, n)
         /\ HandInv(Head(rd), ord, Tail(rd), pol \cup {Head(rd)})
<1> DEFINE t == Tail(rd)
           h == Head(rd)
<1>1. /\ t \in Seq(Nat) /\ h \in Nat /\ h = rd[1]
      /\ Len(rd) \in Nat /\ Len(rd) >= 1 /\ Len(t) = Len(rd) - 1
      /\ \A k \in 1..Len(t) : t[k] = rd[k + 1]
      /\ DOMAIN rd = 1..Len(rd) /\ DOMAIN t = 1..Len(t) /\ DOMAIN ord = 1..Len(ord)
      /\ Len(ord) \in Nat
  BY SMT
<1> HIDE DEF t, h
<1>2. \A k \in DOMAIN t : /\ k \in Int /\ k + 1 \in DOMAIN rd /\ 1 < k + 1 /\ t[k] = rd[k + 1]
  <2>1. \A q \in Nat : \A k \in 1..(q - 1) : k \in Int /\ k + 1 \in 1..q /\ 1 < k + 1
    BY SMT
  <2> QED
    BY <1>1, <2>1, Zenon
<1>3. 1 \in DOMAIN rd
  BY <1>1, SMT
<1>4. \A k \in DOMAIN t : h < t[k]
  BY <1>1, <1>2, <1>3, Zenon DEF OrderInv
<1>5. \A i \in DOMAIN ord : ord[i] < h
  BY <1>1, <1>3, Zenon DEF OrderInv
<1>6. \A i \in DOMAIN ord : ord[i] \in Nat
  BY <1>1
<1>7. \A i \in DOMAIN ord : ord[i] # h /\ ~(ord[i] >= h)
  BY <1>1, <1>5, <1>6, SMT
<1>8. \A k, l \in DOMAIN t : k < l => t[k] < t[l]
  <2>1. ASSUME NEW k \in DOMAIN t, NEW l \in DOMAIN t, k < l PROVE t[k] < t[l]
    <3>1. k + 1 < l + 1
      BY <1>2, <2>1, SMT
    <3> QED
      BY <1>2, <3>1, Zenon DEF OrderInv
  <2> QED
    BY <2>1, Zenon
<1>9. h \in 1..n
  BY <1>1, <1>3, Zenon DEF OrderInv
<1>10. Overtaken(ord, pol \cup {h})
  BY <1>7, Zenon DEF OrderInv, Overtaken
<1>11. OrderInv(ord, t, pol \cup {h}, n)
  BY <1>2, <1>4, <1>8, <1>9, <1>10, Zenon DEF OrderInv
<1>12. HandInv(h, ord, t, pol \cup {h})
  BY <1>4, <1>7, Zenon DEF HandInv
<1> QED
  BY <1>11, <1>12 DEF t, h

\* The byte in hand is appended: whoever passed it was not polled.
LEMMA OrderPut ==
  ASSUME NEW ord \in Seq(Nat), NEW rd \in Seq(Nat), NEW pol, NEW n \in Nat, NEW h \in Nat,
         OrderInv(ord, rd, pol, n), HandInv(h, ord, rd, pol)
  PROVE  OrderInv(Append(ord, h), rd, pol, n)
<1> DEFINE new == Append(ord, h)
<1>1. /\ Len(ord) \in Nat /\ DOMAIN ord = 1..Len(ord)
      /\ DOMAIN new = 1..(Len(ord) + 1)
      /\ \A i \in 1..Len(ord) : new[i] = ord[i]
      /\ new[Len(ord) + 1] = h
  OBVIOUS
<1> HIDE DEF new
<1>2. \A i \in DOMAIN new : \/ i \in DOMAIN ord /\ new[i] = ord[i]
                            \/ i = Len(ord) + 1 /\ new[i] = h
  BY <1>1, SMT
<1>3. \A i, j \in DOMAIN new : i < j => i \in DOMAIN ord /\ new[i] = ord[i]
  BY <1>1, SMT
<1>4. h \in 1..n
  BY Zenon DEF OrderInv, HandInv
<1>5. Overtaken(new, pol)
  BY <1>2, <1>3, Zenon DEF OrderInv, HandInv, Overtaken
<1> QED
  <2>1. OrderInv(new, rd, pol, n)
    BY <1>2, <1>4, <1>5, Zenon DEF OrderInv, HandInv
  <2> QED
    BY <2>1 DEF new

-----------------------------------------------------------------------------
(* The path of a byte: the inductive invariant.                            *)

PathTypes ==
  /\ stream \in Seq(Bytes)
  /\ rdr \in Seq(Nat) /\ queue \in Seq(Nat) /\ Len(queue) <= QueueCap /\ parsed \in Seq(Nat)
  /\ pc \in {"poll", "put", "drop", "process", "take", "clear"}
  /\ held \in Nat /\ tmp \in Nat
  /\ dropCount \in Nat /\ isrRx \in Nat /\ pollRx \in Nat
  /\ lost \in Nat /\ raced \in Nat /\ overrun \in Nat /\ reported \in Nat

PathOrder == OrderInv(parsed \o queue, rdr, polled, Len(wire))
PathHand  == pc = "put" => HandInv(held, parsed \o queue, rdr, polled)

\* Between the read and the write of a count the main loop holds a copy of it
\* in tmp: writing that copy back, or reporting it, forgets exactly the drops
\* the interrupt has counted meanwhile.
DropInv ==
  /\ pc = "drop" => lost = reported + tmp + 1 + raced
  /\ pc = "clear" => lost = reported + tmp + raced
  /\ ~CountInHand => lost = reported + dropCount + raced
  /\ CountInHand => tmp <= dropCount /\ dropCount <= tmp + raced

PathInv == PathTypes /\ EveryByteAccounted /\ PathOrder /\ PathHand /\ DropInv

LEMMA PathInit == Init => PathInv
<1> SUFFICES ASSUME Init PROVE PathInv
  OBVIOUS
<1> USE DEF Init, StreamInit
<1>1. PathTypes
  BY QueueAssumption DEF PathTypes
<1>2. EveryByteAccounted /\ DropInv
  BY SMT DEF EveryByteAccounted, InHand, DropInv, CountInHand, wire
<1>3. PathOrder
  <2>1. parsed \o queue = <<>> /\ DOMAIN <<>> = {}
    BY SMT
  <2>2. rdr = <<>> /\ polled = {}
    OBVIOUS
  <2> QED
    BY <2>1, <2>2, Zenon DEF PathOrder, OrderInv, Overtaken
<1>4. PathHand
  BY Zenon DEF PathHand
<1> QED
  BY <1>1, <1>2, <1>3, <1>4 DEF PathInv

\* A byte arrives, or the UART has no room for it.
LEMMA WireBytePath ==
  ASSUME PathInv, NEW b \in Bytes, WireByte(b) PROVE PathInv'
<1> USE DEF PathInv
<1>1. /\ stream' = Append(stream, b) /\ Len(stream) \in Nat
      /\ Len(stream') = Len(stream) + 1 /\ stream' \in Seq(Bytes)
  <2>1. stream' = Append(stream, b)
    BY DEF WireByte, wire
  <2>2. stream \in Seq(Bytes)
    BY DEF PathTypes
  <2> QED
    BY <2>1, <2>2, AppendProperties, LenProperties
<1>2. UNCHANGED <<queue, pc, held, tmp, dropCount, isrRx, pollRx, parsed, polled, lost, raced,
                reported>>
  BY DEF WireByte, counterVars, mainVars
<1>3. \/ rdr' = Append(rdr, Len(stream) + 1) /\ overrun' = overrun
      \/ rdr' = rdr /\ overrun' = overrun + 1
  BY DEF WireByte, wire
<1>4. /\ rdr' \in Seq(Nat) /\ overrun' \in Nat
      /\ Len(rdr') + overrun' = Len(rdr) + overrun + 1
  <2>1. /\ rdr \in Seq(Nat) /\ overrun \in Nat /\ Len(rdr) \in Nat
        /\ Len(stream) + 1 \in Nat
    BY <1>1, LenProperties DEF PathTypes
  <2>2. CASE rdr' = Append(rdr, Len(stream) + 1) /\ overrun' = overrun
    BY <2>1, <2>2, AppendProperties
  <2>3. CASE rdr' = rdr /\ overrun' = overrun + 1
    BY <2>1, <2>3
  <2> QED
    BY <1>3, <2>2, <2>3
<1>5. PathTypes'
  BY <1>1, <1>2, <1>4, Zenon DEF PathTypes
<1>6. EveryByteAccounted'
  <2>1. Len(stream) = isrRx + pollRx + Len(rdr) + overrun
    BY Zenon DEF EveryByteAccounted, wire
  <2>2. /\ isrRx \in Nat /\ pollRx \in Nat /\ overrun \in Nat /\ overrun' \in Nat
        /\ Len(rdr) \in Nat /\ Len(rdr') \in Nat
    BY <1>4, LenProperties DEF PathTypes
  <2>3. Len(stream') = Len(stream) + 1 /\ Len(stream) \in Nat
    BY <1>1
  <2>4. Len(rdr') + overrun' = Len(rdr) + overrun + 1
    BY <1>4
  <2>5. Len(stream') = isrRx + pollRx + Len(rdr') + overrun'
    BY <2>1, <2>2, <2>3, <2>4, SMT
  <2> QED
    BY <1>2, <2>5, Zenon DEF EveryByteAccounted, InHand, wire
<1>7. DropInv'
  BY <1>2, Zenon DEF DropInv, CountInHand
<1>8. parsed \o queue \in Seq(Nat)
  BY DEF PathTypes
<1>9. PathOrder'
  <2>1. /\ OrderInv(parsed \o queue, Append(rdr, Len(stream) + 1), polled, Len(stream) + 1)
        /\ OrderInv(parsed \o queue, rdr, polled, Len(stream) + 1)
    BY <1>1, <1>8, OrderArrives, Zenon DEF PathTypes, PathOrder, wire
  <2> QED
    BY <1>1, <1>2, <1>3, <2>1, Zenon DEF PathOrder, wire
<1>10. PathHand'
  <2>1. pc = "put" => HandInv(held, parsed \o queue, Append(rdr, Len(stream) + 1), polled)
    BY <1>1, <1>8, OrderArrives, Zenon DEF PathTypes, PathOrder, PathHand, wire
  <2> QED
    BY <1>2, <1>3, <2>1, Zenon DEF PathHand
<1> QED
  BY <1>5, <1>7, <1>9, <1>10, <1>6

\* The interrupt empties the UART into what room the queue has, and counts the
\* rest as dropped.
LEMMA IsrPath ==
  ASSUME PathInv, Isr PROVE PathInv'
<1> DEFINE room == QueueCap - Len(queue)
           fits == Min({Len(rdr), room})
           part == SubSeq(rdr, 1, fits)
<1>1. /\ queue \in Seq(Nat) /\ Len(queue) \in Nat /\ Len(queue) <= QueueCap /\ QueueCap \in Nat
      /\ rdr \in Seq(Nat) /\ Len(rdr) \in Nat
      /\ parsed \in Seq(Nat) /\ Len(parsed) \in Nat
  BY QueueAssumption, LenProperties DEF PathInv, PathTypes
<1>2. /\ fits \in 0..Len(rdr) /\ fits <= room
  <2>1. room \in Int /\ room >= 0
    BY <1>1, SMT
  <2>2. Len(rdr) \in Int
    BY <1>1, SMT
  <2> HIDE DEF room
  <2>3. fits = IF Len(rdr) <= room THEN Len(rdr) ELSE room
    BY <2>1, <2>2, MinOfTwo, Zenon
  <2> QED
    BY <1>1, <2>1, <2>3, SMT
<1>3. /\ queue' = queue \o part
      /\ dropCount' = dropCount + Len(rdr) - fits
      /\ lost' = lost + Len(rdr) - fits
      /\ raced' = IF CountInHand THEN raced + Len(rdr) - fits ELSE raced
      /\ isrRx' = isrRx + Len(rdr)
      /\ rdr' = <<>>
  BY DEF Isr
<1>4. UNCHANGED <<stream, pollRx, pc, held, tmp, parsed, polled, overrun, reported>>
  BY DEF Isr, mainVars
<1> HIDE DEF fits
<1>5. part \in Seq(Nat) /\ Len(part) = fits
  BY <1>1, <1>2
<1> HIDE DEF part
<1>6. queue' \in Seq(Nat) /\ Len(queue') = Len(queue) + fits
  BY <1>1, <1>3, <1>5, ConcatProperties
<1>7. /\ dropCount \in Nat /\ lost \in Nat /\ isrRx \in Nat /\ pollRx \in Nat
      /\ raced \in Nat /\ overrun \in Nat /\ reported \in Nat
  BY Zenon DEF PathInv, PathTypes
<1>8. /\ dropCount' = dropCount + Len(rdr) - fits
       /\ lost' = lost + Len(rdr) - fits
       /\ isrRx' = isrRx + Len(rdr)
       /\ Len(queue') = Len(queue) + fits
       /\ fits \in Nat /\ Len(rdr) \in Nat /\ Len(queue) \in Nat /\ Len(parsed) \in Nat
  BY <1>1, <1>2, <1>3, <1>6
<1>9. PathTypes'
  <2>1. /\ Len(queue') <= QueueCap
        /\ dropCount' \in Nat /\ lost' \in Nat /\ raced' \in Nat /\ isrRx' \in Nat
    BY <1>1, <1>2, <1>3, <1>6, <1>7, SMT
  <2>2. rdr' \in Seq(Nat)
    BY <1>3
  <2> QED
    BY <1>4, <1>6, <2>1, <2>2, Zenon DEF PathInv, PathTypes
<1>10. EveryByteAccounted'
  <2>1. /\ Len(stream) = isrRx + pollRx + Len(rdr) + overrun
        /\ isrRx + pollRx = Len(parsed) + Len(queue) + InHand + lost
    BY Zenon DEF PathInv, EveryByteAccounted, wire
  <2>2. InHand \in Nat /\ InHand' = InHand
    BY <1>4 DEF InHand
  <2>3. Len(rdr') = 0
    BY <1>3
  <2>4. Len(stream) = isrRx' + pollRx + Len(rdr') + overrun
    BY <1>1, <1>3, <1>7, <2>1, <2>3, SMT
  <2>5. isrRx' + pollRx = Len(parsed) + Len(queue') + InHand + lost'
    <3> DEFINE p == Len(parsed)
               q == Len(queue)
               r == Len(rdr)
               c == Len(queue')
    <3>1. /\ isrRx + pollRx = p + q + InHand + lost /\ c = q + fits
          /\ lost' = lost + r - fits /\ isrRx' = isrRx + r
          /\ p \in Nat /\ q \in Nat /\ r \in Nat /\ fits \in Nat
          /\ isrRx \in Nat /\ pollRx \in Nat /\ lost \in Nat /\ InHand \in Nat
      BY <1>7, <1>8, <2>1, <2>2, Zenon
    <3> HIDE DEF p, q, r, c
    <3>2. isrRx' + pollRx = p + c + InHand + lost'
      BY <3>1, SMT
    <3> QED
      BY <2>2, <3>2, Zenon DEF p, c
  <2> QED
    BY <1>4, <2>2, <2>4, <2>5, Zenon DEF EveryByteAccounted, wire
<1>11. /\ parsed' \o queue' = (parsed \o queue) \o part
       /\ parsed \o queue \in Seq(Nat)
  <2>1. (parsed \o queue) \o part = parsed \o (queue \o part)
    BY <1>1, <1>5, Joined, Zenon
  <2>2. parsed \o queue \in Seq(Nat)
    BY <1>1, ConcatProperties, Zenon
  <2>3. parsed' \o queue' = parsed \o (queue \o part)
    BY <1>3, <1>4, Zenon
  <2> QED
    BY <2>1, <2>2, <2>3, Zenon
<1>12. /\ OrderInv((parsed \o queue) \o part, <<>>, polled, Len(stream))
       /\ \A h : HandInv(h, parsed \o queue, rdr, polled)
                   => HandInv(h, (parsed \o queue) \o part, <<>>, polled)
  <2>1. OrderInv(parsed \o queue, rdr, polled, Len(stream)) /\ Len(stream) \in Nat
    BY LenProperties DEF PathInv, PathOrder, PathTypes, wire
  <2> QED
    BY <1>1, <1>2, <1>11, <2>1, OrderDrained, Zenon DEF part
<1>13. PathOrder'
  BY <1>3, <1>4, <1>11, <1>12, Zenon DEF PathOrder, wire
<1>14. PathHand'
  BY <1>3, <1>4, <1>11, <1>12, Zenon DEF PathInv, PathHand
<1>15. DropInv'
  <2> DEFINE d == Len(rdr) - fits
  <2>1. /\ d \in Nat /\ dropCount' = dropCount + d /\ lost' = lost + d
        /\ raced' = IF CountInHand THEN raced + d ELSE raced
    BY <1>2, <1>3, <1>7, <1>8, SMT
  <2> HIDE DEF d
  <2>2. tmp \in Nat /\ CountInHand' = CountInHand
    BY <1>4, Zenon DEF PathInv, PathTypes, CountInHand
  <2>3. DropInv
    BY DEF PathInv
  <2>4. CASE CountInHand
    <3>1. raced' = raced + d
      BY <2>1, <2>4
    <3>2. tmp <= dropCount' /\ dropCount' <= tmp + raced'
      BY <1>7, <2>1, <2>2, <2>3, <2>4, <3>1, SMT DEF DropInv
    <3>3. /\ pc = "drop" => lost' = reported + tmp + 1 + raced'
          /\ pc = "clear" => lost' = reported + tmp + raced'
      BY <1>7, <2>1, <2>2, <2>3, <3>1, SMT DEF DropInv
    <3> QED
      BY <1>4, <2>2, <2>4, <3>2, <3>3, Zenon DEF DropInv
  <2>5. CASE ~CountInHand
    <3>1. lost' = reported + dropCount' + raced' /\ pc # "drop" /\ pc # "clear"
      BY <1>7, <2>1, <2>3, <2>5, SMT DEF DropInv, CountInHand
    <3> QED
      BY <1>4, <2>2, <2>5, <3>1, Zenon DEF DropInv
  <2> QED
    BY <2>4, <2>5
<1> QED
  BY <1>9, <1>10, <1>13, <1>14, <1>15 DEF PathInv

\* The fallback takes a byte.
LEMMA PollInPath ==
  ASSUME PathInv, PollIn PROVE PathInv'
<1>1. /\ rdr \in Seq(Nat) /\ Len(rdr) \in Nat /\ rdr # <<>>
      /\ parsed \o queue \in Seq(Nat)
      /\ Len(stream) \in Nat
  BY ConcatProperties, LenProperties DEF PathInv, PathTypes, PollIn
<1>2. /\ held' = Head(rdr) /\ rdr' = Tail(rdr) /\ polled' = polled \cup {Head(rdr)}
      /\ pc = "poll" /\ pc' = "put" /\ pollRx' = pollRx + 1
      /\ UNCHANGED <<stream, queue, dropCount, isrRx, tmp, parsed, lost, raced, overrun,
                     reported>>
  BY Zenon DEF PollIn, Goto
<1>3. Head(rdr) \in Nat /\ Tail(rdr) \in Seq(Nat) /\ Len(Tail(rdr)) = Len(rdr) - 1
  BY <1>1, HeadTailProperties, Zenon
<1>4. PathTypes'
  <2>1. pollRx' \in Nat
    BY <1>2 DEF PathInv, PathTypes
  <2> QED
    BY <1>2, <1>3, <2>1, Zenon DEF PathInv, PathTypes
<1>5. EveryByteAccounted'
  <2>1. /\ Len(stream) = isrRx + pollRx + Len(rdr) + overrun
        /\ isrRx + pollRx = Len(parsed) + Len(queue) + 0 + lost
    BY <1>2 DEF PathInv, EveryByteAccounted, InHand, wire
  <2>2. /\ isrRx \in Nat /\ pollRx \in Nat /\ overrun \in Nat /\ lost \in Nat
        /\ Len(parsed) \in Nat /\ Len(queue) \in Nat
    BY LenProperties DEF PathInv, PathTypes
  <2>3. pollRx' = pollRx + 1 /\ Len(rdr') = Len(rdr) - 1 /\ Len(rdr) \in Nat
    BY <1>1, <1>2, <1>3
  <2>4. /\ Len(stream) = isrRx + pollRx' + Len(rdr') + overrun
        /\ isrRx + pollRx' = Len(parsed) + Len(queue) + 1 + lost
    BY <2>1, <2>2, <2>3, SMT
  <2> QED
    BY <1>2, <2>4 DEF EveryByteAccounted, InHand, wire
<1>6. /\ OrderInv(parsed \o queue, Tail(rdr), polled \cup {Head(rdr)}, Len(stream))
      /\ HandInv(Head(rdr), parsed \o queue, Tail(rdr), polled \cup {Head(rdr)})
  BY <1>1, OrderPolled, Zenon DEF PathInv, PathOrder, wire
<1>7. PathOrder' /\ PathHand'
  BY <1>2, <1>6, Zenon DEF PathOrder, PathHand, wire
<1>8. DropInv'
  <2>1. /\ lost = reported + dropCount + raced
        /\ pc' # "drop" /\ pc' # "clear"
    BY <1>2, SMT DEF PathInv, DropInv, CountInHand
  <2> QED
    BY <1>2, <2>1, Zenon DEF DropInv, CountInHand
<1> QED
  BY <1>4, <1>5, <1>7, <1>8 DEF PathInv

\* The fallback queues the byte in hand.
LEMMA PollPutPath ==
  ASSUME PathInv, PollPut PROVE PathInv'
<1>1. /\ queue \in Seq(Nat) /\ Len(queue) \in Nat /\ parsed \in Seq(Nat) /\ Len(parsed) \in Nat
      /\ rdr \in Seq(Nat) /\ held \in Nat /\ Len(stream) \in Nat
  BY LenProperties DEF PathInv, PathTypes
<1>2. /\ pc = "put" /\ pc' = "poll" /\ queue' = Append(queue, held) /\ held' = 0
      /\ UNCHANGED <<stream, rdr, dropCount, isrRx, pollRx, tmp, parsed, polled, lost,
                     raced, overrun, reported>>
  BY Zenon DEF PollPut, Goto, counterVars, historyVars
<1>3. queue' \in Seq(Nat) /\ Len(queue') = Len(queue) + 1
  BY <1>1, <1>2, AppendProperties
<1>4. PathTypes'
  <2>1. Len(queue') <= QueueCap
    BY <1>1, <1>3, QueueAssumption DEF PollPut
  <2>2. held' \in Nat
    BY <1>2
  <2> QED
    BY <1>2, <1>3, <2>1, <2>2, Zenon DEF PathInv, PathTypes
<1>5. EveryByteAccounted'
  <2>1. /\ Len(stream) = isrRx + pollRx + Len(rdr) + overrun
        /\ isrRx + pollRx = Len(parsed) + Len(queue) + 1 + lost
    BY <1>2 DEF PathInv, EveryByteAccounted, InHand, wire
  <2>2. lost \in Nat /\ isrRx \in Nat /\ pollRx \in Nat
    BY Zenon DEF PathInv, PathTypes
  <2>3. Len(queue') = Len(queue) + 1 /\ Len(queue) \in Nat /\ Len(parsed) \in Nat
    BY <1>1, <1>3
  <2>4. isrRx + pollRx = Len(parsed) + Len(queue') + 0 + lost
    BY <2>1, <2>2, <2>3, SMT
  <2> QED
    BY <1>2, <2>1, <2>4 DEF EveryByteAccounted, InHand, wire
<1>6. parsed' \o queue' = Append(parsed \o queue, held) /\ parsed \o queue \in Seq(Nat)
  <2>1. /\ Append(queue, held) = queue \o <<held>>
        /\ <<held>> \in Seq(Nat)
    BY <1>1, AppendIsConcat
  <2>2. parsed \o queue \in Seq(Nat)
    BY <1>1, ConcatProperties, Zenon
  <2>3. (parsed \o queue) \o <<held>> = parsed \o (queue \o <<held>>)
    BY <1>1, <2>1, Joined, Zenon
  <2>4. Append(parsed \o queue, held) = (parsed \o queue) \o <<held>>
    BY <1>1, <2>2, AppendIsConcat, Zenon
  <2> QED
    BY <1>2, <2>1, <2>2, <2>3, <2>4, Zenon
<1>7. OrderInv(Append(parsed \o queue, held), rdr, polled, Len(stream))
  BY <1>1, <1>2, <1>6, OrderPut, Zenon DEF PathInv, PathOrder, PathHand, wire
<1>8. PathOrder'
  BY <1>2, <1>6, <1>7, Zenon DEF PathOrder, wire
<1>9. PathHand' /\ DropInv'
  <2>1. /\ lost = reported + dropCount + raced
        /\ pc' # "put" /\ pc' # "drop" /\ pc' # "clear"
    BY <1>2, SMT DEF PathInv, DropInv, CountInHand
  <2> QED
    BY <1>2, <2>1, Zenon DEF PathHand, DropInv, CountInHand
<1> QED
  BY <1>4, <1>5, <1>8, <1>9 DEF PathInv

\* The decoder takes the head of the queue: the order is the same sequence.
LEMMA ParseBytePath ==
  ASSUME PathInv, ParseByte PROVE PathInv'
<1>1. /\ queue \in Seq(Nat) /\ Len(queue) \in Nat /\ parsed \in Seq(Nat) /\ Len(parsed) \in Nat
      /\ queue # <<>>
  BY LenProperties DEF PathInv, PathTypes, ParseByte
<1>2. /\ pc = "process" /\ queue' = Tail(queue) /\ parsed' = Append(parsed, Head(queue))
      /\ UNCHANGED <<stream, rdr, dropCount, isrRx, pollRx, pc, held, tmp, polled, lost,
                     raced, overrun, reported>>
  BY Zenon DEF ParseByte, counterVars, mainVars
<1>3. Head(queue) \in Nat /\ Tail(queue) \in Seq(Nat) /\ Len(Tail(queue)) = Len(queue) - 1
  BY <1>1, HeadTailProperties, Zenon
<1>4. parsed' \in Seq(Nat) /\ Len(parsed') = Len(parsed) + 1
  BY <1>1, <1>2, <1>3, AppendProperties
<1>5. PathTypes'
  <2>1. Len(queue') <= QueueCap
    BY <1>1, <1>2, <1>3, QueueAssumption DEF PathInv, PathTypes
  <2> QED
    BY <1>2, <1>3, <1>4, <2>1, Zenon DEF PathInv, PathTypes
<1>6. EveryByteAccounted'
  <2>1. /\ Len(stream) = isrRx + pollRx + Len(rdr) + overrun
        /\ isrRx + pollRx = Len(parsed) + Len(queue) + 0 + lost
    BY <1>2 DEF PathInv, EveryByteAccounted, InHand, wire
  <2>2. lost \in Nat /\ isrRx \in Nat /\ pollRx \in Nat
    BY Zenon DEF PathInv, PathTypes
  <2>3. /\ Len(parsed') = Len(parsed) + 1 /\ Len(queue') = Len(queue) - 1
        /\ Len(parsed) \in Nat /\ Len(queue) \in Nat
    BY <1>1, <1>2, <1>3, <1>4
  <2>4. isrRx + pollRx = Len(parsed') + Len(queue') + 0 + lost
    BY <2>1, <2>2, <2>3, SMT
  <2> QED
    BY <1>2, <2>1, <2>4 DEF EveryByteAccounted, InHand, wire
<1>7. parsed' \o queue' = parsed \o queue
  <2>1. queue = <<Head(queue)>> \o Tail(queue) /\ <<Head(queue)>> \in Seq(Nat)
    BY <1>1, SMT
  <2>2. Append(parsed, Head(queue)) = parsed \o <<Head(queue)>>
    BY <1>1, <1>3, AppendIsConcat, Zenon
  <2>3. (parsed \o <<Head(queue)>>) \o Tail(queue) = parsed \o (<<Head(queue)>> \o Tail(queue))
    BY <1>1, <1>3, <2>1, Joined, Zenon
  <2> QED
    BY <1>2, <2>1, <2>2, <2>3, Zenon
<1>8. PathOrder'
  BY <1>2, <1>7, Zenon DEF PathInv, PathOrder, wire
<1>9. PathHand' /\ DropInv'
  BY <1>2, Zenon DEF PathInv, PathHand, DropInv, CountInHand
<1> QED
  BY <1>5, <1>6, <1>8, <1>9 DEF PathInv

\* The steps of the main loop that move no byte: only the counts change.
LEMMA CountPath ==
  ASSUME PathInv,
         PollEmpty \/ PollDropRead \/ PollDropWrite \/ ProcessDone \/ TakeRead \/ TakeClear
  PROVE  PathInv'
<1>1. UNCHANGED <<stream, rdr, queue, parsed, polled, isrRx, pollRx, raced, overrun>>
  BY Zenon DEF PollEmpty, PollDropRead, PollDropWrite, ProcessDone, TakeRead, TakeClear,
     busVars, counterVars, historyVars
<1>2. pc' \in {"poll", "drop", "process", "take", "clear"}
  BY SMT DEF PollEmpty, PollDropRead, PollDropWrite, ProcessDone, TakeRead, TakeClear, Goto
<1>3. PathOrder' /\ PathHand'
  BY <1>1, <1>2, Zenon DEF PathInv, PathOrder, PathHand, wire
<1>4. /\ held \in Nat /\ tmp \in Nat /\ dropCount \in Nat /\ lost \in Nat /\ reported \in Nat
      /\ raced \in Nat
      /\ pc = "drop" => lost = reported + tmp + 1 + raced
      /\ pc = "clear" => lost = reported + tmp + raced
      /\ pc \notin {"drop", "clear"} => lost = reported + dropCount + raced
  BY Zenon DEF PathInv, PathTypes, DropInv, CountInHand
<1>5. /\ held' \in Nat /\ tmp' \in Nat /\ dropCount' \in Nat /\ lost' \in Nat /\ reported' \in Nat
      /\ pc' = "drop" => lost' = reported' + tmp' + 1 + raced
      /\ pc' = "clear" => lost' = reported' + tmp' + raced
      /\ pc' \notin {"drop", "clear"} => lost' = reported' + dropCount' + raced
      /\ pc' \in {"drop", "clear"} => tmp' = dropCount'
  <2>1. CASE PollEmpty \/ ProcessDone
    <3>1. /\ UNCHANGED <<held, tmp, dropCount, lost, reported>>
          /\ pc \notin {"drop", "clear"} /\ pc' \notin {"drop", "clear"}
      BY <2>1, SMT DEF PollEmpty, ProcessDone, Goto, counterVars, historyVars
    <3> QED
      BY <1>4, <3>1, SMT
  <2>2. CASE PollDropRead
    <3>1. /\ tmp' = dropCount /\ lost' = lost + 1 /\ held' = 0 /\ pc = "put" /\ pc' = "drop"
          /\ UNCHANGED <<dropCount, reported>>
      BY <2>2, SMT DEF PollDropRead, Goto, counterVars
    <3> QED
      BY <1>4, <3>1, SMT
  <2>3. CASE PollDropWrite
    <3>1. /\ dropCount' = tmp + 1 /\ tmp' = 0 /\ pc = "drop" /\ pc' = "poll"
          /\ UNCHANGED <<held, lost, reported>>
      BY <2>3, SMT DEF PollDropWrite, Goto, historyVars
    <3> QED
      BY <1>4, <3>1, SMT
  <2>4. CASE TakeRead
    <3>1. /\ tmp' = dropCount /\ pc = "take" /\ pc' \in {"clear", "poll"}
          /\ UNCHANGED <<held, dropCount, lost, reported>>
      BY <2>4, SMT DEF TakeRead, counterVars, historyVars
    <3> QED
      BY <1>4, <3>1, SMT
  <2>5. CASE TakeClear
    <3>1. /\ dropCount' = 0 /\ reported' = reported + tmp /\ tmp' = 0
          /\ pc = "clear" /\ pc' = "poll"
          /\ UNCHANGED <<held, lost>>
      BY <2>5, SMT DEF TakeClear, Goto
    <3> QED
      BY <1>4, <3>1, SMT
  <2> QED
    BY <2>1, <2>2, <2>3, <2>4, <2>5
<1>6. PathTypes'
  BY <1>1, <1>2, <1>5, Zenon DEF PathInv, PathTypes
<1>7. DropInv'
  <2>1. CountInHand' => tmp' <= dropCount' /\ dropCount' <= tmp' + raced
    <3>1. CountInHand' => tmp' = dropCount'
      BY <1>5 DEF CountInHand
    <3>2. tmp' \in Nat /\ raced \in Nat
      BY <1>4, <1>5, Zenon
    <3>3. \A m, n \in Nat : m <= m /\ m <= m + n
      BY SMT
    <3> QED
      BY <3>1, <3>2, <3>3, Zenon
  <2> QED
    BY <1>1, <1>5, <2>1, Zenon DEF DropInv, CountInHand
<1>8. EveryByteAccounted'
  <2>1. CASE PollDropRead
    <3>1. pc = "put" /\ pc' = "drop" /\ lost' = lost + 1
      BY <2>1, SMT DEF PollDropRead, Goto
    <3>2. /\ Len(stream) = isrRx + pollRx + Len(rdr) + overrun
          /\ isrRx + pollRx = Len(parsed) + Len(queue) + 1 + lost
      BY <3>1 DEF PathInv, EveryByteAccounted, InHand, wire
    <3>3. /\ Len(parsed) \in Nat /\ Len(queue) \in Nat
          /\ isrRx \in Nat /\ pollRx \in Nat /\ lost \in Nat
      BY LenProperties DEF PathInv, PathTypes
    <3>4. isrRx + pollRx = Len(parsed) + Len(queue) + 0 + lost'
      BY <3>1, <3>2, <3>3, SMT
    <3> QED
      BY <1>1, <3>1, <3>2, <3>4 DEF EveryByteAccounted, InHand, wire
  <2>2. CASE PollEmpty \/ PollDropWrite \/ ProcessDone \/ TakeRead \/ TakeClear
    <3>1. pc # "put" /\ lost' = lost
      BY <2>2, SMT DEF PollEmpty, PollDropWrite, ProcessDone, TakeRead, TakeClear, Goto,
         historyVars
    <3>2. InHand' = InHand
      BY <1>2, <3>1 DEF InHand
    <3> QED
      BY <1>1, <3>1, <3>2, Zenon DEF PathInv, EveryByteAccounted, wire
  <2> QED
    BY <2>1, <2>2
<1> QED
  BY <1>3, <1>6, <1>7, <1>8 DEF PathInv

LEMMA PathStep == PathInv /\ [Next]_vars => PathInv'
<1> SUFFICES ASSUME PathInv, [Next]_vars PROVE PathInv'
  OBVIOUS
<1>1. CASE UNCHANGED vars
  <2>1. UNCHANGED <<stream, rdr, queue, pc, held, tmp, dropCount, isrRx, pollRx,
                    parsed, polled, lost, raced, overrun, reported>>
    BY <1>1, Zenon DEF vars, busVars, counterVars, mainVars, historyVars
  <2> QED
    BY <2>1, Zenon DEF PathInv, PathTypes, PathOrder, PathHand, DropInv,
       CountInHand, EveryByteAccounted, InHand, wire
<1> QED
  BY <1>1, WireBytePath, IsrPath, PollInPath, PollPutPath, ParseBytePath, CountPath, Zenon
     DEF Next, MainLoop

LEMMA PathAlways == Spec => []PathInv
  BY PathInit, PathStep, PTL DEF Spec

\* Whatever the interrupt does between the steps of the fallback and of the
\* drain, every byte received is parsed, queued, in hand or counted as lost.
THEOREM BytesAlwaysAccounted == Spec => []EveryByteAccounted
<1>1. PathInv => EveryByteAccounted
  BY DEF PathInv
<1> QED
  BY <1>1, PathAlways, PTL

\* However the two writers of midi_in_drop_count undo each other's increments,
\* no refused byte is reported twice, and none goes unreported but one that the
\* interrupt refused between the main loop's read of the count and its write.
THEOREM DropsAlwaysReportedOnce == Spec => []DropsReportedOnce
<1>1. ASSUME PathInv PROVE DropsReportedOnce
  <2>1. /\ tmp \in Nat /\ dropCount \in Nat /\ lost \in Nat /\ raced \in Nat /\ reported \in Nat
        /\ DropInv
    BY <1>1, Zenon DEF PathInv, PathTypes
  <2>2. CASE pc = "drop"
    BY <2>1, <2>2, SMT DEF DropInv, DropsReportedOnce, Uncounted, CountInHand
  <2>3. CASE pc = "clear"
    BY <2>1, <2>3, SMT DEF DropInv, DropsReportedOnce, Uncounted, CountInHand
  <2>4. CASE ~CountInHand
    BY <2>1, <2>4, SMT DEF DropInv, DropsReportedOnce, Uncounted, CountInHand
  <2> QED
    BY <2>2, <2>3, <2>4 DEF CountInHand
<1> QED
  BY <1>1, PathAlways, PTL

\* No byte reaches the decoder twice, and none out of order but a polled one.
THEOREM OrderKeptButForPolled == Spec => []OnlyPolledOvertaken
<1>1. PathInv => OnlyPolledOvertaken
  BY Zenon DEF PathInv, PathOrder, OrderInv, Overtaken, OnlyPolledOvertaken
<1> QED
  BY <1>1, PathAlways, PTL

\* The decoder behind the queue is the decoder: it is only ever given bytes
\* that the wire carried, so what is proved of it holds of the whole path.
LEMMA PathRunsParser == Spec => ParserSpec
<1>1. Init => ParserInit
  BY DEF Init, StreamInit
<1>2. ASSUME PathInv, [Next]_vars PROVE [ParserNext]_parserVars
  <2>1. CASE ParseByte
    <3>1. /\ parsed \in Seq(Nat) /\ queue \in Seq(Nat) /\ queue # <<>> /\ stream \in Seq(Bytes)
          /\ Len(parsed) \in Nat /\ Len(queue) \in Nat
      BY <1>2, <2>1, LenProperties DEF PathInv, PathTypes, ParseByte
    <3>2. /\ Len(parsed) + 1 \in DOMAIN (parsed \o queue)
          /\ (parsed \o queue)[Len(parsed) + 1] = Head(queue)
      BY <3>1, SMT
    <3>3. Head(queue) \in 1..Len(stream)
      BY <1>2, <3>2, Zenon DEF PathInv, PathOrder, OrderInv, wire
    <3>4. wire[Head(queue)] \in Bytes
      BY <3>1, <3>3, ElementOfSeq, Zenon DEF wire
    <3>5. Parse(wire[Head(queue)])
      BY <2>1, Zenon DEF ParseByte
    <3> QED
      BY <3>4, <3>5, Zenon DEF ParserNext
  <2>2. CASE Next /\ ~ParseByte
    <3>1. UNCHANGED parserVars
      BY <2>2, Zenon DEF Next, MainLoop, WireByte, Isr, PollIn, PollEmpty, PollPut,
         PollDropRead, PollDropWrite, ProcessDone, TakeRead, TakeClear
    <3> QED
      BY <3>1
  <2>3. CASE UNCHANGED vars
    BY <2>3, Zenon DEF vars
  <2> QED
    BY <1>2, <2>1, <2>2, <2>3
<1> QED
  BY <1>1, <1>2, PathAlways, PTL DEF Spec, ParserSpec

\* So behind the interrupt, the queue and the fallback too, every message
\* emitted can be told from its packet and the count stays a valid index.
THEOREM PathKeepsDecoder == Spec => [](ParserTypeOK /\ FramedDataBounded /\ PacketTellsMessage)
  BY PathRunsParser, ParserTypeCorrect, FramedDataStaysBounded, PacketsAlwaysTell, PTL

-----------------------------------------------------------------------------
(* The reference for the decoder: how it changes with a byte more.         *)

\* A greatest element is the maximum.
LEMMA MaxIs ==
  ASSUME NEW S \in SUBSET Int, NEW m \in S, \A x \in S : x <= m
  PROVE  Max(S) = m
<1>1. \A y \in S : m >= y
  BY SMT
<1>2. \A z \in S : (\A y \in S : z >= y) => z = m
  BY SMT
<1> QED
  BY <1>1, <1>2, Zenon DEF Max

\* Less-than is well founded on the naturals, as a relation: the induction of this
\* module goes through the least element of the set where a claim fails.
LEMMA LessWellFounded == IsWellFoundedOn({ss \in Nat \X Nat : ss[1] < ss[2]}, Nat)
  BY NatLessThanWellFounded DEF OpToRel

\* A set of naturals has a least element.
LEMMA LeastOne ==
  ASSUME NEW T \in SUBSET Nat, T # {}
  PROVE  \E x \in T : \A y \in T : x <= y
<1> DEFINE R == {ss \in Nat \X Nat : ss[1] < ss[2]}
<1>1. IsWellFoundedOn(R, Nat)
  BY LessWellFounded
<1>2. PICK x \in T : \A y \in T : ~ (<<y, x>> \in R)
  <2> HIDE DEF R
  <2> QED BY <1>1, WFMin
<1>3. ASSUME NEW y \in T PROVE x <= y
  <2>1. <<y, x>> \in Nat \X Nat => ~(y < x)
    BY <1>2
  <2>2. x \in Nat /\ y \in Nat
    OBVIOUS
  <2> QED
    BY <2>1, <2>2, SMT
<1> QED
  BY <1>3

\* A set of positions has a last one.
LEMMA MaxInSet ==
  ASSUME NEW n \in Nat, NEW S \in SUBSET (0..n), S # {}
  PROVE  Max(S) \in S
<1> DEFINE T == {n - x : x \in S}
<1>1. T \in SUBSET Nat
  BY SMT
<1>2. T # {}
  BY Zenon
<1>3. PICK t \in T : \A y \in T : t <= y
  <2> HIDE DEF T
  <2> QED BY <1>1, <1>2, LeastOne
<1>4. PICK m \in S : t = n - m
  BY Zenon
<1>5. ASSUME NEW x \in S PROVE x <= m
  <2>1. t <= n - x
    BY <1>3, Zenon
  <2> QED
    BY <1>4, <2>1, SMT
<1>6. S \in SUBSET Int
  BY SMT
<1> QED
  BY <1>5, <1>6, MaxIs

\* The position of the last status byte, before and after a byte is appended.
LEMMA StatusBeforeGrows ==
  ASSUME NEW s \in Seq(Bytes), NEW b \in Bytes
  PROVE  /\ StatusBefore(Append(s, b), Len(s) + 1) = StatusBefore(s, Len(s) + 1)
         /\ StatusBefore(Append(s, b), Len(s) + 1 + 1) =
              IF IsStatus(b) THEN Len(s) + 1 ELSE StatusBefore(s, Len(s) + 1)
<1> DEFINE t == Append(s, b)
           n == Len(s)
           Old == {j \in 1..n : IsStatus(s[j])}
           New == {j \in 1..(n + 1) : IsStatus(t[j])}
<1>1. /\ n \in Nat /\ t[n + 1] = b
      /\ \A j \in 1..n : t[j] = s[j]
      /\ n + 1 - 1 = n /\ n + 1 + 1 - 1 = n + 1
  BY AppendProperties, LenProperties
<1>2. 1..(n + 1) = (1..n) \cup {n + 1}
  BY <1>1, SMT
<1> HIDE DEF t, n
<1>3. {j \in 1..n : IsStatus(t[j])} = Old
  BY <1>1, Zenon
<1>4. New = IF IsStatus(b) THEN Old \cup {n + 1} ELSE Old
  BY <1>1, <1>2, Zenon
<1>5. \A u, i : i - 1 = n => StatusBefore(u, i) = Max({0} \cup {j \in 1..n : IsStatus(u[j])})
  BY DEF StatusBefore
<1>6. StatusBefore(t, n + 1 + 1) = Max({0} \cup New)
  <2>1. \A i : i - 1 = n + 1 => StatusBefore(t, i) = Max({0} \cup New)
    BY DEF StatusBefore
  <2> QED
    BY <1>1, <2>1
<1>7. StatusBefore(s, n + 1) = Max({0} \cup Old)
  BY <1>1, <1>5
<1>8. StatusBefore(t, n + 1) = StatusBefore(s, n + 1)
  <2>1. StatusBefore(t, n + 1) = Max({0} \cup {j \in 1..n : IsStatus(t[j])})
    BY <1>1, <1>5
  <2> QED
    BY <1>3, <1>7, <2>1, Zenon
<1>9. CASE IsStatus(b)
  <2>1. {0} \cup New \in SUBSET Int /\ n + 1 \in {0} \cup New
    BY <1>1, <1>4, <1>9, SMT
  <2>2. \A x \in {0} \cup New : x <= n + 1
    BY <1>1, SMT
  <2> HIDE DEF New
  <2>3. Max({0} \cup New) = n + 1
    BY <2>1, <2>2, MaxIs, Zenon
  <2> QED
    BY <1>6, <1>9, <1>8, <2>3, Zenon DEF t, n
<1>10. CASE ~IsStatus(b)
  BY <1>4, <1>6, <1>7, <1>10, <1>8, Zenon DEF t, n
<1> QED
  BY <1>9, <1>10

\* A position behind all the others is the last, and moves none of them.
LEMMA NthGrows ==
  ASSUME NEW n \in Nat, NEW D \in SUBSET (1..n), NEW m \in Nat, m > n
  PROVE  /\ IsFiniteSet(D) /\ Cardinality(D) \in Nat
         /\ Cardinality(D \cup {m}) = Cardinality(D) + 1
         /\ \A k \in 1..Cardinality(D) : Nth(D \cup {m}, k) = Nth(D, k)
         /\ Nth(D \cup {m}, Cardinality(D) + 1) = m
<1> DEFINE E == D \cup {m}
           Upto(F, j) == {x \in F : x <= j}
<1>1. IsFiniteSet(D) /\ Cardinality(D) \in Nat
  <2>1. IsFiniteSet(1..n)
    BY FS_Interval
  <2> QED
    BY <2>1, FS_Subset, FS_CardinalityType
<1>2. m \notin D
  BY SMT
<1>3. Cardinality(E) = Cardinality(D) + 1
  BY <1>1, <1>2, FS_AddElement, Zenon
<1>4. \A j \in D : Upto(E, j) = Upto(D, j)
  BY SMT
<1>5. Upto(E, m) = E
  <2>1. \A x \in E : x <= m
    BY SMT
  <2> HIDE DEF E
  <2> QED
    BY <2>1, Zenon
<1>6. ASSUME NEW k \in 1..Cardinality(D) PROVE Nth(E, k) = Nth(D, k)
  <2>1. ~(Cardinality(E) <= k)
    BY <1>1, <1>3, <1>6, SMT
  <2>2. {j \in E : Cardinality(Upto(E, j)) <= k} = {j \in D : Cardinality(Upto(D, j)) <= k}
    <3> HIDE DEF Upto
    <3> QED BY <1>2, <1>4, <1>5, <2>1, Zenon
  <2> QED
    BY <2>2, Zenon DEF Nth
<1>7. Nth(E, Cardinality(D) + 1) = m
  <2> DEFINE Last == {j \in E : Cardinality(Upto(E, j)) <= Cardinality(D) + 1}
  <2>1. Cardinality(Upto(E, m)) <= Cardinality(D) + 1
    <3>1. Cardinality(Upto(E, m)) = Cardinality(D) + 1
      BY <1>3, <1>5, Zenon
    <3> HIDE DEF Upto, E
    <3> QED BY <1>1, <3>1, SMT
  <2>2. m \in Last
    BY <2>1, Zenon
  <2>3. Last \in SUBSET Int /\ \A x \in Last : x <= m
    <3>1. E \in SUBSET Int /\ \A x \in E : x <= m
      BY SMT
    <3> HIDE DEF E
    <3> QED BY <3>1, Zenon
  <2>4. Max(Last) = m
    <3> HIDE DEF Last
    <3> QED BY <2>2, <2>3, MaxIs, Zenon
  <2> QED
    BY <2>4, Zenon DEF Nth
<1> QED
  BY <1>1, <1>3, <1>6, <1>7

\* Every rank of a set of positions is taken: there is a k-th of them.
Ranked(D) == \A k \in 1..Cardinality(D) : Nth(D, k) \in D

\* What lies between positions of data bytes is a sequence of data bytes.
LEMMA DataIsSeq ==
  ASSUME NEW s \in Seq(Bytes), NEW p \in 0..Len(s), Ranked(DataPositions(s, p, Len(s)))
  PROVE  /\ DataBetween(s, p, Len(s)) \in Seq(DataBytes)
         /\ Len(DataBetween(s, p, Len(s))) = Cardinality(DataPositions(s, p, Len(s)))
         /\ Cardinality(DataPositions(s, p, Len(s))) \in Nat
<1> DEFINE D == DataPositions(s, p, Len(s))
           c == Cardinality(D)
           e == DataBetween(s, p, Len(s))
<1>1. Len(s) \in Nat /\ D \in SUBSET (1..Len(s))
  BY SMT, LenProperties DEF DataPositions
<1>2. c \in Nat
  <2>1. IsFiniteSet(1..Len(s))
    BY <1>1, FS_Interval
  <2> HIDE DEF D
  <2> QED
    BY <1>1, <2>1, FS_Subset, FS_CardinalityType
<1>3. \A j \in D : s[j] \in DataBytes
  <2>1. \A j \in D : IsData(s[j])
    BY Zenon DEF DataPositions
  <2>2. \A j \in D : s[j] \in Bytes
    <3> HIDE DEF D
    <3> QED BY <1>1, ElementOfSeq, Zenon
  <2> QED
    BY <2>1, <2>2, Zenon DEF DataBytes
<1>4. e = [k \in 1..c |-> s[Nth(D, k)]]
  BY Zenon DEF DataBetween
<1> HIDE DEF D, c, e
<1>5. e \in [1..c -> DataBytes]
  <2>1. \A k \in 1..c : s[Nth(D, k)] \in DataBytes
    BY <1>3, Zenon DEF Ranked, c, D
  <2> QED
    BY <1>4, <2>1, Zenon
<1>6. e \in Seq(DataBytes)
  BY <1>2, <1>5, SeqDef, Zenon
<1>7. DOMAIN e = 1..c /\ DOMAIN e = 1..Len(e) /\ Len(e) \in Nat
  BY <1>4, <1>6, LenProperties, Zenon
<1>8. Len(e) = c
  <2>1. 1..c = 1..Len(e)
    BY <1>7
  <2> QED
    BY <1>2, <1>7, <2>1, SMT
<1> QED
  BY <1>2, <1>6, <1>8 DEF c, D, e

\* No data byte comes after the last position.
LEMMA DataOfNone ==
  ASSUME NEW s \in Seq(Bytes), NEW n \in Nat
  PROVE  DataPositions(s, n, n) = {} /\ DataBetween(s, n, n) = <<>> /\ Ranked({})
<1>1. DataPositions(s, n, n) = {}
  BY SMT DEF DataPositions
<1>2. Cardinality({}) = 0
  BY FS_EmptySet
<1>3. DataBetween(s, n, n) = [k \in 1..0 |-> s[Nth({}, k)]]
  BY <1>1, <1>2, Zenon DEF DataBetween
<1>4. [k \in 1..0 |-> s[Nth({}, k)]] = <<>>
  BY SMT
<1>5. Ranked({})
  <2>1. 1..0 = {}
    BY SMT
  <2> QED
    BY <1>2, <2>1, Zenon DEF Ranked
<1> QED
  BY <1>1, <1>3, <1>4, <1>5, Zenon

\* The data since a position, when a byte is appended.
LEMMA DataGrows ==
  ASSUME NEW s \in Seq(Bytes), NEW b \in Bytes, NEW p \in 0..Len(s),
         Ranked(DataPositions(s, p, Len(s)))
  PROVE  /\ Ranked(DataPositions(Append(s, b), p, Len(s) + 1))
         /\ DataBetween(Append(s, b), p, Len(s) + 1) =
              IF IsData(b) THEN Append(DataBetween(s, p, Len(s)), b)
              ELSE DataBetween(s, p, Len(s))
<1> DEFINE t == Append(s, b)
           n == Len(s)
           D == DataPositions(s, p, n)
           E == DataPositions(t, p, n + 1)
           c == Cardinality(D)
           e == DataBetween(s, p, n)
           f == DataBetween(t, p, n + 1)
<1>1. /\ n \in Nat /\ t[n + 1] = b /\ t \in Seq(Bytes) /\ Len(t) = n + 1
      /\ \A j \in 1..n : t[j] = s[j]
      /\ p \in 0..n
  BY AppendProperties, LenProperties
<1>2. /\ D \in SUBSET (1..n)
      /\ E = IF IsData(b) THEN D \cup {n + 1} ELSE D
  <2> HIDE DEF t, n
  <2>1. /\ (p + 1)..(n + 1) = ((p + 1)..n) \cup {n + 1}
        /\ (p + 1)..n \subseteq 1..n
    BY <1>1, SMT
  <2> QED
    BY <1>1, <2>1, Zenon DEF DataPositions
<1>3. Ranked(D) /\ e \in Seq(DataBytes) /\ Len(e) = c /\ c \in Nat
  BY DataIsSeq, Zenon
<1>4. CASE ~IsData(b)
  <2>1. E = D
    BY <1>2, <1>4, Zenon
  <2>2. \A k \in 1..c : t[Nth(D, k)] = s[Nth(D, k)]
    <3> HIDE DEF t, n, D
    <3> QED BY <1>1, <1>2, <1>3, Zenon DEF Ranked, c
  <2>3. f = [k \in 1..c |-> t[Nth(D, k)]] /\ e = [k \in 1..c |-> s[Nth(D, k)]]
    <3> HIDE DEF t, n
    <3> QED BY <2>1, Zenon DEF DataBetween
  <2>4. f = e
    <3> HIDE DEF t, n, D, c, e, f
    <3> QED BY <2>2, <2>3, Zenon
  <2> QED
    BY <1>3, <1>4, <2>1, <2>4, Zenon
<1>5. CASE IsData(b)
  <2>1. E = D \cup {n + 1}
    BY <1>2, <1>5, Zenon
  <2>2. /\ Cardinality(E) = c + 1
        /\ \A k \in 1..c : Nth(E, k) = Nth(D, k)
        /\ Nth(E, c + 1) = n + 1
    <3> HIDE DEF D, n, E
    <3>1. n + 1 \in Nat /\ n + 1 > n
      BY <1>1, SMT
    <3>2. /\ Cardinality(D \cup {n + 1}) = Cardinality(D) + 1
          /\ \A k \in 1..Cardinality(D) : Nth(D \cup {n + 1}, k) = Nth(D, k)
          /\ Nth(D \cup {n + 1}, Cardinality(D) + 1) = n + 1
      <4>1. n \in Nat /\ D \in SUBSET (1..n)
        BY <1>1, <1>2, Zenon
      <4> DEFINE q == n + 1
      <4>2. q \in Nat /\ q > n
        BY <3>1, Zenon
      <4> HIDE DEF q
      <4>3. /\ Cardinality(D \cup {q}) = Cardinality(D) + 1
            /\ \A k \in 1..Cardinality(D) : Nth(D \cup {q}, k) = Nth(D, k)
            /\ Nth(D \cup {q}, Cardinality(D) + 1) = q
        BY <4>1, <4>2, NthGrows, ZenonT(60)
      <4> QED
        BY <4>3, Zenon DEF q
    <3> QED BY <2>1, <3>2, Zenon DEF c
  <2>3. \A k \in 1..(c + 1) : k \in 1..c \/ k = c + 1
    BY <1>3, SMT
  <2>4. Ranked(E)
    <3> HIDE DEF D, E, n, c
    <3>1. \A k \in 1..c : Nth(D, k) \in D
      BY <1>3, Zenon DEF Ranked, c
    <3> QED BY <2>1, <2>2, <2>3, <3>1, Zenon DEF Ranked
  <2>5. f \in Seq(DataBytes) /\ Len(f) = c + 1
    <3>1. n + 1 = Len(t) /\ p \in 0..Len(t)
      BY <1>1, SMT
    <3> HIDE DEF t, c
    <3>2. Ranked(DataPositions(t, p, Len(t)))
      BY <2>4, <3>1, Zenon
    <3>3. /\ DataBetween(t, p, Len(t)) \in Seq(DataBytes)
          /\ Len(DataBetween(t, p, Len(t))) = Cardinality(DataPositions(t, p, Len(t)))
      BY <1>1, <3>1, <3>2, DataIsSeq, Zenon
    <3> QED
      BY <2>2, <3>1, <3>3, Zenon
  <2>6. b \in DataBytes
    BY <1>5, Zenon DEF DataBytes
  <2>7. Append(e, b) \in Seq(DataBytes) /\ Len(Append(e, b)) = c + 1
        /\ (\A k \in 1..c : Append(e, b)[k] = e[k]) /\ Append(e, b)[c + 1] = b
    <3> HIDE DEF e, c
    <3> QED BY <1>3, <2>6, AppendProperties
  <2>8. /\ \A k \in 1..(c + 1) : f[k] = t[Nth(E, k)]
        /\ \A k \in 1..c : e[k] = s[Nth(D, k)]
    <3>1. f = [k \in 1..Cardinality(E) |-> t[Nth(E, k)]] /\ e = [k \in 1..c |-> s[Nth(D, k)]]
      <4> HIDE DEF t, n
      <4> QED BY Zenon DEF DataBetween
    <3> HIDE DEF t, n, D, E, c, e, f
    <3> QED BY <2>2, <3>1, Zenon
  <2>9. \A k \in 1..(c + 1) : f[k] = Append(e, b)[k]
    <3>1. \A k \in 1..c : f[k] = e[k] /\ k \in 1..(c + 1)
      <4> HIDE DEF t, n, D, E, e, f
      <4>1. \A k \in 1..c : Nth(D, k) \in 1..n
        BY <1>2, <1>3, Zenon DEF Ranked, c
      <4>2. \A k \in 1..c : k \in 1..(c + 1)
        BY <1>3, SMT
      <4> HIDE DEF c
      <4> QED BY <1>1, <2>2, <2>8, <4>1, <4>2, Zenon
    <3>2. f[c + 1] = b
      <4>1. c + 1 \in 1..(c + 1)
        BY <1>3, SMT
      <4> HIDE DEF t, n, D, E, c, e, f
      <4>2. f[c + 1] = t[Nth(E, c + 1)]
        BY <2>8, <4>1, Zenon
      <4>3. t[Nth(E, c + 1)] = t[n + 1]
        BY <2>2, Zenon
      <4> QED BY <1>1, <4>2, <4>3, Zenon
    <3> HIDE DEF c, e, f
    <3> QED BY <2>3, <2>7, <3>1, <3>2, Zenon
  <2>10. f = Append(e, b)
    <3> HIDE DEF c, e, f
    <3> QED BY <2>5, <2>7, <2>9, SeqEqual, Zenon
  <2> QED
    BY <1>5, <2>4, <2>10, Zenon
<1> QED
  BY <1>4, <1>5

-----------------------------------------------------------------------------
(* What a byte does to the stream, without the positions: the last status  *)
(* st, 0 if there is none, and the data e after it.                        *)

StatusOf(s) ==
  LET p == StatusBefore(s, Len(s) + 1) IN IF p = 0 THEN 0 ELSE s[p]

DataOf(s) == DataBetween(s, StatusBefore(s, Len(s) + 1), Len(s))

FirstOf(e)   == SubSeq(e, 1, Min({Len(e), SysexCap}))
LastOf(e, k) == SubSeq(e, Len(e) - k + 1, Len(e))

NextStatus(st, b) == IF IsStatus(b) THEN b ELSE st

NextData(e, b) == IF IsStatus(b) THEN <<>> ELSE IF IsData(b) THEN Append(e, b) ELSE e

Completed(st, e, b) ==
  IF b = SysexEndByte /\ st = SysexStartByte THEN SysexMessage(FirstOf(e))
  ELSE IF IsData(b) /\ DataNeeded(st) > 0 /\ Len(Append(e, b)) % DataNeeded(st) = 0
  THEN ChannelMessage(st, LastOf(Append(e, b), DataNeeded(st)))
  ELSE NoMessage

\* The positions are where they should be.
Placed(s) ==
  LET p == StatusBefore(s, Len(s) + 1)
  IN /\ p \in 0..Len(s)
     /\ p > 0 => IsStatus(s[p])
     /\ Ranked(DataPositions(s, p, Len(s)))

\* The counts of MIDI 1.0 are the ones that the code waits for.
LEMMA LengthsAgree ==
  ASSUME NEW st \in 128..247
  PROVE  MessageLength(st) = DataNeeded(st)
<1> USE DEF QuarterFrameByte, ProgramChange, ChannelPressure, NoteOff, NoteOn, KeyPressure,
        ControlChange, PitchBend
<1>1. Kind(st) = 16 * (st \div 16)
  BY SMT DEF Kind
<1>2. CASE st \in 128..191
  BY <1>1, <1>2, SMT DEF MessageLength, DataNeeded
<1>3. CASE st \in 192..223
  BY <1>1, <1>3, SMT DEF MessageLength, DataNeeded
<1>4. CASE st \in 224..239
  BY <1>1, <1>4, SMT DEF MessageLength, DataNeeded
<1>5. CASE st \in 240..247
  BY <1>1, <1>5, SMT DEF MessageLength, DataNeeded
<1> QED
  BY <1>2, <1>3, <1>4, <1>5, SMT

\* Without a status nothing is waited for, nor in a SysEx nor after its end.
LEMMA NoneNeeded ==
  DataNeeded(0) = 0 /\ DataNeeded(SysexStartByte) = 0 /\ DataNeeded(SysexEndByte) = 0
  BY SMT DEF DataNeeded, Kind, QuarterFrameByte, ProgramChange, ChannelPressure, NoteOff,
     NoteOn, KeyPressure, ControlChange, PitchBend, SysexStartByte, SysexEndByte

\* A status byte is one of 128 to 247.
LEMMA StatusRange ==
  ASSUME NEW b \in Bytes, IsStatus(b)
  PROVE  b \in 128..247 /\ b \in Statuses /\ b # 0
<1>1. b \in 0..255
  BY BytesAssumption
<1>2. b \in 128..247 /\ b # 0
  BY <1>1, SMT DEF IsStatus, IsData, IsRealTime
<1> QED
  BY <1>2, Zenon DEF IsStatus, Statuses

\* A stream with a byte more.
LEMMA StreamGrows ==
  ASSUME NEW s \in Seq(Bytes), NEW b \in Bytes, Placed(s)
  PROVE  /\ StatusOf(s) \in Statuses /\ DataOf(s) \in Seq(DataBytes)
         /\ Placed(Append(s, b))
         /\ StatusOf(Append(s, b)) = NextStatus(StatusOf(s), b)
         /\ DataOf(Append(s, b)) = NextData(DataOf(s), b)
         /\ Decoded(Append(s, b)) = Completed(StatusOf(s), DataOf(s), b)
<1> DEFINE t  == Append(s, b)
           n  == Len(s)
           p  == StatusBefore(s, n + 1)
           e  == DataBetween(s, p, n)
           f  == DataBetween(t, p, n + 1)
           st == StatusOf(s)
<1>1. /\ n \in Nat /\ t[n + 1] = b /\ t \in Seq(Bytes) /\ Len(t) = n + 1
      /\ \A j \in 1..n : t[j] = s[j]
  BY AppendProperties, LenProperties
<1>2. p \in 0..n /\ (p > 0 => IsStatus(s[p])) /\ Ranked(DataPositions(s, p, n))
  BY Zenon DEF Placed
<1>3. /\ StatusBefore(t, n + 1) = p
      /\ StatusBefore(t, n + 1 + 1) = IF IsStatus(b) THEN n + 1 ELSE p
  BY StatusBeforeGrows, Zenon
<1>4. /\ Ranked(DataPositions(t, p, n + 1))
      /\ f = IF IsData(b) THEN Append(e, b) ELSE e
  BY <1>2, DataGrows, Zenon
<1>5. e \in Seq(DataBytes)
  BY <1>2, DataIsSeq, Zenon
<1>6. (p = 0 /\ ~(p > 0)) \/ (p # 0 /\ p > 0 /\ p \in 1..n /\ p \in 1..(n + 1))
  BY <1>1, <1>2, SMT
<1>7. st = IF p = 0 THEN 0 ELSE s[p]
  BY Zenon DEF StatusOf
<1>8. e = DataOf(s)
  BY Zenon DEF DataOf
<1>9. /\ StatusOf(t) = IF StatusBefore(t, n + 1 + 1) = 0 THEN 0 ELSE t[StatusBefore(t, n + 1 + 1)]
      /\ DataOf(t) = DataBetween(t, StatusBefore(t, n + 1 + 1), n + 1)
      /\ Placed(t) <=>
           /\ StatusBefore(t, n + 1 + 1) \in 0..(n + 1)
           /\ StatusBefore(t, n + 1 + 1) > 0 => IsStatus(t[StatusBefore(t, n + 1 + 1)])
           /\ Ranked(DataPositions(t, StatusBefore(t, n + 1 + 1), n + 1))
  <2> HIDE DEF t, n
  <2> QED BY <1>1, Zenon DEF StatusOf, DataOf, Placed
<1>10. n + 1 \in 0..(n + 1) /\ n + 1 # 0 /\ n + 1 \in Nat /\ p \in 0..(n + 1)
  BY <1>1, <1>2, SMT
<1>11. p # 0 => t[p] = s[p] /\ s[p] \in Bytes /\ IsStatus(s[p])
  <2> HIDE DEF t, n, p
  <2> QED BY <1>1, <1>2, <1>6, ElementOfSeq, Zenon
<1>12. st \in Statuses
  BY <1>7, <1>11, StatusRange, Zenon DEF Statuses
<1>13. /\ DataPositions(t, n + 1, n + 1) = {} /\ DataBetween(t, n + 1, n + 1) = <<>>
       /\ Ranked({})
  <2> HIDE DEF t, n
  <2> QED BY <1>1, <1>10, DataOfNone, Zenon
<1>14. IsStatus(b) => ~IsData(b)
  BY Zenon DEF IsStatus
<1> HIDE DEF t, n, p, e, f, st
<1>15. Placed(t) /\ StatusOf(t) = NextStatus(st, b) /\ DataOf(t) = NextData(e, b)
  <2>1. CASE IsStatus(b)
    <3>1. Placed(t)
      BY <1>1, <1>3, <1>9, <1>10, <1>13, <2>1, Zenon
    <3>2. StatusOf(t) = b /\ DataOf(t) = <<>>
      BY <1>1, <1>3, <1>9, <1>10, <1>13, <2>1, Zenon
    <3> QED
      BY <2>1, <3>1, <3>2, Zenon DEF NextStatus, NextData
  <2>2. CASE ~IsStatus(b)
    <3>1. Placed(t)
      BY <1>2, <1>3, <1>4, <1>6, <1>9, <1>10, <1>11, <2>2, Zenon
    <3>2. StatusOf(t) = st /\ DataOf(t) = f
      BY <1>3, <1>7, <1>9, <1>11, <2>2, Zenon DEF f
    <3> QED
      BY <1>4, <2>2, <3>1, <3>2, Zenon DEF NextStatus, NextData
  <2> QED
    BY <2>1, <2>2
<1>16. Decoded(t) = Completed(st, e, b)
  <2> DEFINE m == IF p = 0 THEN 0 ELSE MessageLength(t[p])
  <2>1. m = DataNeeded(st)
    <3>1. CASE p = 0
      BY <1>7, <3>1, NoneNeeded, Zenon
    <3>2. CASE p # 0
      <4>1. st = s[p] /\ t[p] = s[p] /\ s[p] \in 128..247
        BY <1>7, <1>11, <3>2, StatusRange, Zenon
      <4> QED
        BY <3>2, <4>1, LengthsAgree, Zenon
    <3> QED
      BY <3>1, <3>2
  <2> HIDE DEF m
  <2>2. Decoded(t) =
          CASE b = SysexEndByte /\ p > 0 /\ t[p] = SysexStartByte ->
                 SysexMessage(SubSeq(f, 1, Min({Len(f), SysexCap})))
            [] IsData(b) /\ m > 0 /\ Len(f) % m = 0 ->
                 ChannelMessage(t[p], SubSeq(f, Len(f) - m + 1, Len(f)))
            [] OTHER -> NoMessage
    BY <1>1, <1>3, Zenon DEF Decoded, f, m
  <2>3. (p > 0 /\ t[p] = SysexStartByte) <=> st = SysexStartByte
    <3>1. SysexStartByte # 0
      BY SMT DEF SysexStartByte
    <3>2. CASE p = 0
      <4>1. ~(p > 0)
        BY <3>2, SMT
      <4> QED
        BY <1>7, <3>1, <3>2, <4>1, Zenon
    <3> QED
      BY <1>6, <1>7, <1>11, <3>2, Zenon
  <2>4. CASE b = SysexEndByte /\ st = SysexStartByte
    <3>1. ~IsData(b)
      BY <2>4, SMT DEF IsData, SysexEndByte
    <3>2. f = e
      BY <1>4, <3>1, Zenon
    <3>3. Decoded(t) = SysexMessage(SubSeq(f, 1, Min({Len(f), SysexCap})))
      BY <2>2, <2>3, <2>4, <3>1, Zenon
    <3> QED
      BY <2>4, <3>2, <3>3, Zenon DEF Completed, FirstOf
  <2>5. CASE /\ ~(b = SysexEndByte /\ st = SysexStartByte)
             /\ IsData(b) /\ m > 0 /\ Len(f) % m = 0
    <3>1. f = Append(e, b)
      BY <1>4, <2>5, Zenon
    <3>2. p # 0
      <4>1. ASSUME p = 0 PROVE FALSE
        <5>1. m = 0
          BY <4>1, Zenon DEF m
        <5> QED
          BY <2>5, <5>1, SMT
      <4> QED
        BY <4>1, Zenon
    <3>3. t[p] = st
      BY <1>7, <1>11, <3>2, Zenon
    <3>4. Decoded(t) = ChannelMessage(t[p], SubSeq(f, Len(f) - m + 1, Len(f)))
      BY <2>2, <2>3, <2>5, Zenon
    <3> QED
      BY <2>1, <2>5, <3>1, <3>3, <3>4, Zenon DEF Completed, LastOf
  <2>6. CASE /\ ~(b = SysexEndByte /\ st = SysexStartByte)
             /\ ~(IsData(b) /\ m > 0 /\ Len(f) % m = 0)
    <3>1. Decoded(t) = NoMessage
      BY <2>2, <2>3, <2>6, Zenon
    <3>2. IsData(b) => f = Append(e, b)
      BY <1>4, Zenon
    <3> QED
      BY <2>1, <2>6, <3>1, <3>2, Zenon DEF Completed
  <2> QED
    BY <2>4, <2>5, <2>6, Zenon
<1> QED
  BY <1>5, <1>8, <1>12, <1>15, <1>16, Zenon DEF st, t

-----------------------------------------------------------------------------
(* The parser state that a stream leaves behind.                           *)

\* A buffer that is not full takes the next byte; a full one is the beginning.
LEMMA FirstGrows ==
  ASSUME NEW e \in Seq(DataBytes), NEW b \in DataBytes
  PROVE  /\ FirstOf(e) \in Seq(DataBytes)
         /\ FirstOf(Append(e, b)) =
              IF Len(FirstOf(e)) < SysexCap THEN Append(FirstOf(e), b) ELSE FirstOf(e)
<1> DEFINE g == Append(e, b)
           n == Len(e)
<1>1. /\ n \in Nat /\ g \in Seq(DataBytes) /\ Len(g) = n + 1 /\ g[n + 1] = b
      /\ \A k \in 1..n : g[k] = e[k]
      /\ SysexCap \in Nat /\ n \in Int /\ n + 1 \in Int /\ SysexCap \in Int
  BY AppendProperties, LenProperties, CapAssumption
<1>2. CASE n < SysexCap
  <2>1. Min({n, SysexCap}) = n /\ Min({n + 1, SysexCap}) = n + 1
    <3> HIDE DEF n
    <3>1. Min({n, SysexCap}) = IF n <= SysexCap THEN n ELSE SysexCap
      BY <1>1, MinOfTwo, Zenon
    <3>2. Min({n + 1, SysexCap}) = IF n + 1 <= SysexCap THEN n + 1 ELSE SysexCap
      BY <1>1, MinOfTwo, Zenon
    <3> QED
      BY <1>1, <1>2, <3>1, <3>2, SMT
  <2>2. FirstOf(e) = SubSeq(e, 1, n) /\ FirstOf(g) = SubSeq(g, 1, n + 1)
    <3> HIDE DEF g
    <3> QED BY <1>1, <2>1, Zenon DEF FirstOf
  <2>3. FirstOf(e) = e
    BY <2>2, SubSeqFull, Zenon
  <2>4. FirstOf(g) = g
    <3> HIDE DEF g
    <3> QED BY <1>1, <2>2, SubSeqFull, Zenon
  <2> QED
    BY <1>2, <2>3, <2>4, Zenon
<1>3. CASE ~(n < SysexCap)
  <2>1. Min({n, SysexCap}) = SysexCap /\ Min({n + 1, SysexCap}) = SysexCap
    <3> HIDE DEF n
    <3>1. Min({n, SysexCap}) = IF n <= SysexCap THEN n ELSE SysexCap
      BY <1>1, MinOfTwo, Zenon
    <3>2. Min({n + 1, SysexCap}) = IF n + 1 <= SysexCap THEN n + 1 ELSE SysexCap
      BY <1>1, MinOfTwo, Zenon
    <3> QED
      BY <1>1, <1>3, <3>1, <3>2, SMT
  <2>2. FirstOf(e) = SubSeq(e, 1, SysexCap) /\ FirstOf(g) = SubSeq(g, 1, SysexCap)
    <3> HIDE DEF g
    <3> QED BY <1>1, <2>1, Zenon DEF FirstOf
  <2>3. /\ SubSeq(e, 1, SysexCap) \in Seq(DataBytes) /\ Len(SubSeq(e, 1, SysexCap)) = SysexCap
        /\ SubSeq(g, 1, SysexCap) \in Seq(DataBytes) /\ Len(SubSeq(g, 1, SysexCap)) = SysexCap
        /\ \A k \in 1..SysexCap : SubSeq(e, 1, SysexCap)[k] = e[k]
        /\ \A k \in 1..SysexCap : SubSeq(g, 1, SysexCap)[k] = g[k]
    <3> HIDE DEF g
    <3> QED BY <1>1, <1>3, SMT
  <2>4. \A k \in 1..SysexCap : g[k] = e[k]
    <3>1. 1..SysexCap \subseteq 1..n
      BY <1>1, <1>3, SMT
    <3> QED
      BY <1>1, <3>1, Zenon
  <2>5. SubSeq(g, 1, SysexCap) = SubSeq(e, 1, SysexCap)
    <3> HIDE DEF g
    <3> QED BY <2>3, <2>4, SeqEqual
  <2>6. ~(Len(FirstOf(e)) < SysexCap)
    BY <1>1, <2>2, <2>3
  <2> QED
    BY <2>2, <2>3, <2>5, <2>6, Zenon
<1> QED
  BY <1>2, <1>3

\* The last bytes, when one is appended.
LEMMA LastGrows ==
  ASSUME NEW S, NEW e \in Seq(S), NEW b \in S, NEW k \in 0..Len(e)
  PROVE  /\ LastOf(e, k) \in Seq(S) /\ Len(LastOf(e, k)) = k
         /\ Append(LastOf(e, k), b) = LastOf(Append(e, b), k + 1)
<1> DEFINE g == Append(e, b)
           n == Len(e)
           x == LastOf(e, k)
           y == LastOf(g, k + 1)
<1>1. /\ n \in Nat /\ g \in Seq(S) /\ Len(g) = n + 1 /\ g[n + 1] = b
      /\ \A j \in 1..n : g[j] = e[j]
      /\ k \in Nat /\ k <= n
  BY AppendProperties, LenProperties
<1>2. /\ x \in Seq(S) /\ Len(x) = k
      /\ \A j \in 1..k : x[j] = e[n - k + j]
  BY <1>1, SMT DEF LastOf
<1>3. /\ y \in Seq(S) /\ Len(y) = k + 1
      /\ \A j \in 1..(k + 1) : y[j] = g[n - k + j]
  <2> HIDE DEF g
  <2> QED BY <1>1, SMT DEF LastOf
<1> HIDE DEF x, y
<1>4. /\ Append(x, b) \in Seq(S) /\ Len(Append(x, b)) = k + 1
      /\ (\A j \in 1..k : Append(x, b)[j] = x[j]) /\ Append(x, b)[k + 1] = b
  BY <1>2, AppendProperties
<1>5. \A j \in 1..(k + 1) : Append(x, b)[j] = y[j]
  <2>1. ASSUME NEW j \in 1..k PROVE Append(x, b)[j] = y[j]
    <3>1. n - k + j \in 1..n /\ j \in 1..(k + 1)
      BY <1>1, SMT
    <3> HIDE DEF g, n
    <3> QED BY <1>1, <1>2, <1>3, <1>4, <3>1, Zenon
  <2>2. Append(x, b)[k + 1] = y[k + 1]
    <3>1. n - k + (k + 1) = n + 1 /\ k + 1 \in 1..(k + 1)
      BY <1>1, SMT
    <3>2. y[k + 1] = g[n - k + (k + 1)]
      <4> HIDE DEF g, n
      <4> QED BY <1>3, <3>1, Zenon
    <3> HIDE DEF g, n
    <3> QED BY <1>1, <1>4, <3>1, <3>2, Zenon
  <2>3. \A j \in 1..(k + 1) : j \in 1..k \/ j = k + 1
    BY <1>1, SMT
  <2> QED
    BY <2>1, <2>2, <2>3, Zenon
<1>6. Append(x, b) = y
  BY <1>3, <1>4, <1>5, SeqEqual
<1> QED
  BY <1>2, <1>6 DEF x, y

\* The statics after a stream whose last status is st and whose data since is e.
Follows(st, e, r, d, x, buf) ==
  /\ x <=> st = SysexStartByte
  /\ st = SysexStartByte => r = 0 /\ buf = FirstOf(e)
  /\ st = SysexEndByte => r \in {0, SysexEndByte}
  /\ st \notin {SysexStartByte, SysexEndByte} => r = st
  /\ DataNeeded(r) > 0 => d = LastOf(e, Len(e) % DataNeeded(r))

\* One data byte more, one remainder more, until the message is complete.
LEMMA RemainderGrows ==
  ASSUME NEW l \in Nat, NEW n \in 1..2
  PROVE  /\ l % n \in 0..(n - 1) /\ l % n <= l
         /\ (l % n) + 1 >= n <=> (l + 1) % n = 0
         /\ (l % n) + 1 >= n => (l % n) + 1 = n
         /\ ~((l % n) + 1 >= n) => (l + 1) % n = (l % n) + 1
<1>1. CASE n = 1
  BY <1>1, SMT
<1>2. CASE n = 2
  BY <1>2, SMT
<1> QED
  BY <1>1, <1>2, SMT

\* Nothing at all is the beginning and the end of nothing.
LEMMA NothingYet ==
  /\ FirstOf(<<>>) = <<>>
  /\ LastOf(<<>>, 0) = <<>>
  /\ \A n \in 1..2 : Len(<<>>) % n = 0
  /\ \A e \in Seq(DataBytes) : LastOf(e, 0) = <<>>
<1>1. Len(<<>>) = 0 /\ SysexCap \in Int /\ 0 <= SysexCap
  BY CapAssumption
<1>2. Min({0, SysexCap}) = 0
  BY <1>1, MinOfTwo
<1>3. FirstOf(<<>>) = SubSeq(<<>>, 1, 0)
  BY <1>1, <1>2, Zenon DEF FirstOf
<1>4. \A e \in Seq(DataBytes) : LastOf(e, 0) = SubSeq(e, Len(e) + 1, Len(e))
  BY SMT DEF LastOf
<1>5. LastOf(<<>>, 0) = SubSeq(<<>>, 1, 0)
  BY <1>1, SMT DEF LastOf
<1>6. \A n \in 1..2 : Len(<<>>) % n = 0
  BY <1>1, SMT
<1>7. SubSeq(<<>>, 1, 0) = <<>>
  BY SMT
<1>8. \A e \in Seq(DataBytes) : SubSeq(e, Len(e) + 1, Len(e)) = <<>>
  BY SMT
<1> QED
  BY <1>3, <1>4, <1>5, <1>6, <1>7, <1>8, Zenon

\* A status just consumed leaves no data behind.
LEMMA FollowsStatus ==
  ASSUME NEW st \in Statuses, NEW r \in Statuses, NEW x, NEW buf,
         x <=> st = SysexStartByte,
         st = SysexStartByte => r = 0 /\ buf = <<>>,
         st = SysexEndByte => r \in {0, SysexEndByte},
         st \notin {SysexStartByte, SysexEndByte} => r = st,
         NEW d, r # 0 => d = <<>>
  PROVE  Follows(st, <<>>, r, d, x, buf)
<1>1. DataNeeded(r) \in 0..2
  BY DataNeededBounded DEF DataBytesLen
<1>2. ASSUME DataNeeded(r) > 0 PROVE d = LastOf(<<>>, Len(<<>>) % DataNeeded(r))
  <2>1. DataNeeded(r) \in 1..2
    BY <1>1, <1>2, SMT
  <2>2. r # 0
    <3>1. ~(0 > 0)
      OBVIOUS
    <3> QED
      BY <1>2, <3>1, NoneNeeded, Zenon
  <2> QED
    BY <2>1, <2>2, NothingYet, Zenon
<1> QED
  BY <1>2, NothingYet, Zenon DEF Follows

\* A data byte under a status that the decoder frames.
LEMMA DataByteFollows ==
  ASSUME NEW st \in Statuses, NEW e \in Seq(DataBytes), ParserInv,
         Follows(st, e, running, data, inSysex, sysexBuf),
         NEW b \in Bytes, DataByte(b)
  PROVE  /\ Follows(st, Append(e, b), running', data', inSysex', sysexBuf')
         /\ out' = Completed(st, e, b)
<1> DEFINE g == Append(e, b)
           l == Len(e)
           n == DataNeeded(running)
           m == l % n
<1>1. /\ ~inSysex /\ IsData(b) /\ running # 0 /\ b \in DataBytes
      /\ UNCHANGED <<running, inSysex, sysexBuf>>
  BY Zenon DEF DataByte, DataBytes
<1>2. /\ data' = IF n > 0 /\ Len(Append(data, b)) >= n THEN <<>> ELSE Append(data, b)
      /\ out' = IF n > 0 /\ Len(Append(data, b)) >= n
                THEN ChannelMessage(running, Append(data, b)) ELSE NoMessage
  BY Zenon DEF DataByte
<1>3. st = running /\ st # SysexStartByte
  BY <1>1, Zenon DEF Follows
<1>4. b # SysexEndByte
  BY <1>1, SMT DEF IsData, SysexEndByte
<1>5. n \in 0..2
  BY DataNeededBounded DEF DataBytesLen
<1>6. /\ g \in Seq(DataBytes) /\ Len(g) = l + 1 /\ l \in Nat
  BY <1>1, AppendProperties, LenProperties
<1>7. CASE ~(n > 0)
  <2>1. out' = NoMessage
    BY <1>2, <1>7, Zenon
  <2>2. Completed(st, e, b) = NoMessage
    BY <1>3, <1>4, <1>7, Zenon DEF Completed
  <2>3. Follows(st, g, running, data', inSysex, sysexBuf)
    BY <1>1, <1>3, <1>7, Zenon DEF Follows
  <2> QED
    BY <1>1, <2>1, <2>2, <2>3, Zenon
<1>8. CASE n > 0
  <2>1. n \in 1..2
    BY <1>5, <1>8, SMT
  <2>2. /\ m \in 0..(n - 1) /\ m <= l
        /\ m + 1 >= n <=> (l + 1) % n = 0
        /\ m + 1 >= n => m + 1 = n
        /\ ~(m + 1 >= n) => (l + 1) % n = m + 1
    <3> HIDE DEF n, l
    <3> QED BY <1>6, <2>1, RemainderGrows, Zenon
  <2>3. data = LastOf(e, m)
    BY <1>8, Zenon DEF Follows
  <2>4. m \in 0..l
    <3> HIDE DEF n, l, m
    <3> QED BY <1>6, <2>1, <2>2, SMT
  <2>5. /\ Len(data) = m
        /\ data \in Seq(DataBytes)
        /\ Append(data, b) = LastOf(g, m + 1)
    <3> HIDE DEF n, m
    <3> QED BY <1>1, <2>3, <2>4, LastGrows
  <2>6. Len(Append(data, b)) = m + 1
    <3> HIDE DEF n, m
    <3> QED BY <1>1, <2>5, AppendProperties
  <2>7. CASE m + 1 >= n
    <3>1. data' = <<>> /\ out' = ChannelMessage(st, LastOf(g, n))
      <4> HIDE DEF n, m, g
      <4> QED BY <1>2, <1>3, <1>8, <2>2, <2>5, <2>6, <2>7, Zenon
    <3>2. Completed(st, e, b) = ChannelMessage(st, LastOf(g, n))
      <4>1. Len(g) % n = 0 /\ n = DataNeeded(st)
        <5> HIDE DEF m, g, l
        <5> QED BY <1>3, <1>6, <2>2, <2>7, Zenon
      <4> QED
        BY <1>1, <1>4, <1>8, <4>1, Zenon DEF Completed
    <3>3. <<>> = LastOf(g, Len(g) % n)
      <4> HIDE DEF n, m, g, l
      <4> QED BY <1>6, <2>2, <2>7, NothingYet, Zenon
    <3>4. Follows(st, g, running, data', inSysex, sysexBuf)
      BY <1>1, <1>3, <3>1, <3>3, Zenon DEF Follows
    <3> QED
      BY <1>1, <3>1, <3>2, <3>4, Zenon
  <2>8. CASE ~(m + 1 >= n)
    <3>1. data' = Append(data, b) /\ out' = NoMessage
      <4> HIDE DEF n, m, g
      <4> QED BY <1>2, <2>6, <2>8, Zenon
    <3>2. Completed(st, e, b) = NoMessage
      <4>1. Len(g) % n # 0 /\ n = DataNeeded(st)
        <5> HIDE DEF m, g, l
        <5> QED BY <1>3, <1>6, <2>2, <2>8, Zenon
      <4> QED
        BY <1>4, <4>1, Zenon DEF Completed
    <3>3. data' = LastOf(g, Len(g) % n)
      <4> HIDE DEF n, m, g, l
      <4> QED BY <1>6, <2>2, <2>5, <2>8, <3>1, Zenon
    <3>4. Follows(st, g, running, data', inSysex, sysexBuf)
      BY <1>1, <1>3, <3>3, Zenon DEF Follows
    <3> QED
      BY <1>1, <3>1, <3>2, <3>4, Zenon
  <2> QED
    BY <2>7, <2>8
<1> QED
  BY <1>7, <1>8

\* A byte takes the decoder from the state that one stream leaves behind to the
\* state that the longer one leaves, and the message it emits on the way is the
\* one that the longer stream calls for.
LEMMA ParserFollows ==
  ASSUME NEW st \in Statuses, NEW e \in Seq(DataBytes), ParserInv,
         Follows(st, e, running, data, inSysex, sysexBuf),
         NEW b \in Bytes, Parse(b), ~overran',
         ~(st = SysexStartByte /\ b = SysexStartByte)
  PROVE  /\ Follows(NextStatus(st, b), NextData(e, b), running', data', inSysex', sysexBuf')
         /\ out' = Completed(st, e, b)
<1>1. /\ SysexStartByte # 0 /\ SysexEndByte # 0 /\ SysexStartByte # SysexEndByte
      /\ IsStatus(SysexStartByte) /\ IsStatus(SysexEndByte)
      /\ ~(0 > 0)
  BY SMT DEF SysexStartByte, SysexEndByte, IsStatus, IsData, IsRealTime
<1>2. /\ IsData(b) => ~IsStatus(b) /\ ~IsRealTime(b) /\ b \in DataBytes
      /\ IsRealTime(b) => ~IsStatus(b) /\ ~IsData(b)
      /\ IsStatus(b) => ~IsData(b)
  <2>1. b \in Int
    BY BytesAssumption
  <2>2. ~(IsData(b) /\ IsRealTime(b))
    BY <2>1, SMT DEF IsData, IsRealTime
  <2> QED
    BY <2>2, Zenon DEF IsStatus, DataBytes
<1>3. ASSUME ~IsData(b), st # SysexStartByte \/ b # SysexEndByte
      PROVE  Completed(st, e, b) = NoMessage
  BY <1>3, Zenon DEF Completed
<1>4. ASSUME b \in Statuses, IsStatus(b), running' = b, data' = <<>>,
             inSysex' = FALSE, b # SysexStartByte
      PROVE  Follows(NextStatus(st, b), NextData(e, b), running', data', inSysex', sysexBuf')
  <2>1. NextStatus(st, b) = b /\ NextData(e, b) = <<>>
    BY <1>4, Zenon DEF NextStatus, NextData
  <2>2. Follows(b, <<>>, b, <<>>, FALSE, sysexBuf')
    BY <1>4, FollowsStatus, Zenon
  <2> QED
    BY <1>4, <2>1, <2>2, Zenon
<1>5. CASE RealTimeByte(b)
  <2>1. IsRealTime(b) /\ out' = NoMessage /\ UNCHANGED <<running, data, inSysex, sysexBuf>>
    BY <1>5, Zenon DEF RealTimeByte
  <2>2. NextStatus(st, b) = st /\ NextData(e, b) = e
    BY <1>2, <2>1, Zenon DEF NextStatus, NextData
  <2>3. b # SysexEndByte
    BY <1>1, <1>2, <2>1, Zenon
  <2> QED
    BY <1>2, <1>3, <2>1, <2>2, <2>3, Zenon
<1>6. CASE SysexEnd(b)
  <2>1. /\ inSysex /\ b = SysexEndByte /\ inSysex' = FALSE
        /\ out' = SysexMessage(sysexBuf) /\ UNCHANGED <<running, data, sysexBuf>>
    BY <1>6, Zenon DEF SysexEnd
  <2>2. st = SysexStartByte /\ running = 0 /\ sysexBuf = FirstOf(e)
    BY <2>1, Zenon DEF Follows
  <2>3. out' = Completed(st, e, b)
    BY <2>1, <2>2, Zenon DEF Completed
  <2>4. NextStatus(st, b) = SysexEndByte /\ NextData(e, b) = <<>>
    BY <1>1, <2>1, Zenon DEF NextStatus, NextData
  <2>5. SysexEndByte \in Statuses /\ 0 \in Statuses
    BY <1>1, <2>1, StatusRange, Zenon DEF Statuses
  <2>6. Follows(SysexEndByte, <<>>, 0, data, FALSE, sysexBuf)
    BY <1>1, <2>5, FollowsStatus, Zenon
  <2> QED
    BY <2>1, <2>2, <2>3, <2>4, <2>6, Zenon
<1>7. CASE SysexData(b)
  <2>1. /\ inSysex /\ IsData(b)
        /\ sysexBuf' = IF Len(sysexBuf) < SysexCap THEN Append(sysexBuf, b) ELSE sysexBuf
        /\ out' = NoMessage /\ UNCHANGED <<running, data, inSysex>>
    BY <1>7, Zenon DEF SysexData
  <2>2. st = SysexStartByte /\ running = 0 /\ sysexBuf = FirstOf(e)
    BY <2>1, Zenon DEF Follows
  <2>3. NextStatus(st, b) = st /\ NextData(e, b) = Append(e, b)
    BY <1>2, <2>1, Zenon DEF NextStatus, NextData
  <2>4. FirstOf(Append(e, b)) = sysexBuf'
    BY <1>2, <2>1, <2>2, FirstGrows, Zenon
  <2>5. b # SysexEndByte
    BY <1>1, <1>2, <2>1, Zenon
  <2>6. Completed(st, e, b) = NoMessage
    BY <1>1, <2>2, <2>5, NoneNeeded, Zenon DEF Completed
  <2>7. Follows(SysexStartByte, Append(e, b), 0, data, TRUE, sysexBuf')
    BY <1>1, <2>4, NoneNeeded, Zenon DEF Follows
  <2> QED
    BY <2>1, <2>2, <2>3, <2>6, <2>7, Zenon
<1>8. CASE SysexAbort(b)
  <2>1. /\ inSysex /\ IsStatus(b) /\ b # SysexEndByte
        /\ running' = b /\ data' = <<>> /\ inSysex' = FALSE /\ out' = NoMessage
    BY <1>8, Zenon DEF SysexAbort, IsStatus
  <2>2. st = SysexStartByte
    BY <2>1, Zenon DEF Follows
  <2> QED
    BY <1>2, <1>3, <1>4, <2>1, <2>2, StatusRange, Zenon
<1>9. CASE SysexStart(b)
  <2>1. /\ ~inSysex /\ b = SysexStartByte /\ inSysex' = TRUE /\ sysexBuf' = <<>>
        /\ running' = 0 /\ data' = <<>> /\ out' = NoMessage
    BY <1>9, Zenon DEF SysexStart
  <2>2. NextStatus(st, b) = SysexStartByte /\ NextData(e, b) = <<>>
    BY <1>1, <2>1, Zenon DEF NextStatus, NextData
  <2>3. SysexStartByte \in Statuses /\ 0 \in Statuses
    BY <1>1, <2>1, StatusRange, Zenon DEF Statuses
  <2>4. Follows(SysexStartByte, <<>>, 0, <<>>, TRUE, <<>>)
    BY <1>1, <2>3, FollowsStatus, Zenon
  <2>5. ~IsData(b) /\ b # SysexEndByte
    BY <1>1, <1>2, <2>1, Zenon
  <2> QED
    BY <1>3, <2>1, <2>2, <2>4, <2>5, Zenon
<1>10. CASE StatusByte(b)
  <2>1. /\ ~inSysex /\ IsStatus(b) /\ b # SysexStartByte
        /\ running' = b /\ data' = <<>> /\ inSysex' = inSysex /\ out' = NoMessage
    BY <1>10, Zenon DEF StatusByte, IsStatus
  <2>2. st # SysexStartByte
    BY <2>1, Zenon DEF Follows
  <2>3. inSysex' = FALSE
    BY <2>1 DEF ParserInv, ParserTypeOK
  <2> QED
    BY <1>2, <1>3, <1>4, <2>1, <2>2, <2>3, StatusRange, Zenon
<1>11. CASE DataWithoutStatus(b)
  <2>1. /\ ~inSysex /\ IsData(b) /\ running = 0
        /\ out' = NoMessage /\ UNCHANGED <<running, data, inSysex, sysexBuf>>
    BY <1>11, Zenon DEF DataWithoutStatus
  <2>2. st \in {0, SysexEndByte} /\ st # SysexStartByte
    BY <2>1, Zenon DEF Follows
  <2>3. NextStatus(st, b) = st /\ NextData(e, b) = Append(e, b)
    BY <1>2, <2>1, Zenon DEF NextStatus, NextData
  <2>4. Completed(st, e, b) = NoMessage
    BY <1>1, <2>2, NoneNeeded, Zenon DEF Completed
  <2>5. Follows(st, Append(e, b), running, data, inSysex, sysexBuf)
    BY <1>1, <2>1, <2>2, NoneNeeded, Zenon DEF Follows
  <2> QED
    BY <2>1, <2>3, <2>4, <2>5, Zenon
<1>12. CASE DataByte(b)
  <2>1. IsData(b)
    BY <1>12, Zenon DEF DataByte
  <2>2. NextStatus(st, b) = st /\ NextData(e, b) = Append(e, b)
    BY <1>2, <2>1, Zenon DEF NextStatus, NextData
  <2> QED
    BY <1>12, <2>2, DataByteFollows, Zenon
<1>13. CASE DataByteOverrun(b)
  BY <1>13, Zenon DEF DataByteOverrun
<1> QED
  BY <1>5, <1>6, <1>7, <1>8, <1>9, <1>10, <1>11, <1>12, <1>13, Zenon DEF Parse

-----------------------------------------------------------------------------
(* The decoder emits the messages of the stream.                           *)

\* An 0xF0 that comes while the last status is an 0xF0 restarts a SysEx, and a
\* restart is never forgotten.
LEMMA RestartGrows ==
  ASSUME NEW s \in Seq(Bytes), NEW b \in Bytes, Placed(s)
  PROVE  /\ StatusOf(s) = SysexStartByte /\ b = SysexStartByte => SysexRestarted(Append(s, b))
         /\ SysexRestarted(s) => SysexRestarted(Append(s, b))
<1> DEFINE t == Append(s, b)
           n == Len(s)
           p == StatusBefore(s, n + 1)
<1>1. /\ n \in Nat /\ t[n + 1] = b /\ Len(t) = n + 1 /\ t \in Seq(Bytes)
      /\ \A j \in 1..n : t[j] = s[j]
      /\ n + 1 \in 1..(n + 1)
      /\ \A i \in 1..n : i \in 1..(n + 1)
  BY AppendProperties, LenProperties
<1>2. p \in 0..n /\ (p = 0 \/ (p \in 1..n /\ p > 0)) /\ ~(0 > 0)
  BY <1>1, SMT DEF Placed
<1>3. StatusBefore(t, n + 1) = p
  BY StatusBeforeGrows, Zenon
<1>4. ASSUME StatusOf(s) = SysexStartByte, b = SysexStartByte
      PROVE  SysexRestarted(t)
  <2>1. SysexStartByte # 0
    BY SMT DEF SysexStartByte
  <2>2. p # 0 /\ s[p] = SysexStartByte
    BY <1>4, <2>1, Zenon DEF StatusOf
  <2>3. t[n + 1] = SysexStartByte /\ p > 0 /\ t[p] = SysexStartByte
    <3> HIDE DEF t, n, p
    <3> QED BY <1>1, <1>2, <1>4, <2>2, Zenon
  <2> QED
    BY <1>1, <1>3, <2>3, Zenon DEF SysexRestarted
<1>5. ASSUME SysexRestarted(s) PROVE SysexRestarted(t)
  <2>1. PICK i \in 1..n : /\ s[i] = SysexStartByte /\ StatusBefore(s, i) > 0
                          /\ s[StatusBefore(s, i)] = SysexStartByte
    BY <1>5, Zenon DEF SysexRestarted
  <2>2. {j \in 1..(i - 1) : IsStatus(t[j])} = {j \in 1..(i - 1) : IsStatus(s[j])}
    <3>1. \A j \in 1..(i - 1) : j \in 1..n
      BY <1>1, <2>1, SMT
    <3> HIDE DEF t, n
    <3> QED BY <1>1, <3>1, Zenon
  <2>3. StatusBefore(t, i) = StatusBefore(s, i)
    BY <2>2, Zenon DEF StatusBefore
  <2>4. StatusBefore(s, i) \in 1..n
    <3>1. StatusBefore(s, i) \in 0..(i - 1)
      <4> DEFINE S == {0} \cup {j \in 1..(i - 1) : IsStatus(s[j])}
      <4>1. i - 1 \in Nat /\ S \in SUBSET (0..(i - 1)) /\ S # {}
        BY <1>1, SMT
      <4>2. Max(S) \in S
        <5> HIDE DEF S
        <5> QED BY <4>1, MaxInSet
      <4> QED
        BY <4>1, <4>2, Zenon DEF StatusBefore
    <3> QED
      BY <1>1, <2>1, <3>1, SMT
  <2>5. t[i] = SysexStartByte /\ t[StatusBefore(s, i)] = SysexStartByte
    <3> HIDE DEF t, n
    <3> QED BY <1>1, <2>1, <2>4, Zenon
  <2> QED
    <3> HIDE DEF t, n
    <3> QED BY <1>1, <2>1, <2>3, <2>5, Zenon DEF SysexRestarted
<1> QED
  BY <1>4, <1>5

\* Once a byte has been stored past the array it stays stored there.
LEMMA OverrunStays ==
  ASSUME NEW b, Parse(b), ~overran'
  PROVE  ~overran
  BY Zenon DEF Parse, RealTimeByte, SysexEnd, SysexData, SysexAbort, SysexStart, StatusByte,
     DataWithoutStatus, DataByte, DataByteOverrun

\* As long as nothing has been stored past the array and no SysEx restarted, the
\* statics are the ones that the bytes s leave behind.
Consumed(s, r, d, x, buf, o) ==
  /\ s \in Seq(Bytes) /\ Placed(s)
  /\ ~o /\ ~SysexRestarted(s) => Follows(StatusOf(s), DataOf(s), r, d, x, buf)

\* Before the first byte.
LEMMA NothingPlaced ==
  /\ <<>> \in Seq(Bytes) /\ Placed(<<>>) /\ StatusOf(<<>>) = 0 /\ DataOf(<<>>) = <<>>
  /\ Follows(0, <<>>, 0, <<>>, FALSE, <<>>)
<1>1. Len(<<>>) = 0 /\ <<>> \in Seq(Bytes) /\ 0 \in 0..0 /\ 0 \in Nat /\ ~(0 > 0)
  OBVIOUS
<1>2. StatusBefore(<<>>, 0 + 1) = 0
  <2>1. {0} \cup {j \in 1..((0 + 1) - 1) : IsStatus(<<>>[j])} = {0}
    <3>1. 1..((0 + 1) - 1) = {}
      BY SMT
    <3> QED
      BY <3>1, Zenon
  <2>2. {0} \in SUBSET Int /\ 0 \in {0} /\ \A x \in {0} : x <= 0
    BY SMT
  <2>3. Max({0}) = 0
    BY <2>2, MaxIs
  <2> QED
    BY <2>1, <2>3, Zenon DEF StatusBefore
<1>3. StatusBefore(<<>>, Len(<<>>) + 1) = 0
  BY <1>1, <1>2, Zenon
<1>4. /\ DataPositions(<<>>, 0, 0) = {} /\ DataBetween(<<>>, 0, 0) = <<>>
      /\ Ranked({})
  BY <1>1, DataOfNone, Zenon
<1>5. Placed(<<>>) /\ StatusOf(<<>>) = 0 /\ DataOf(<<>>) = <<>>
  BY <1>1, <1>3, <1>4, Zenon DEF Placed, StatusOf, DataOf
<1>6. SysexStartByte # 0 /\ SysexEndByte # 0
  BY SMT DEF SysexStartByte, SysexEndByte
<1>7. Follows(0, <<>>, 0, <<>>, FALSE, <<>>)
  BY <1>6, FollowsStatus, Zenon DEF Statuses
<1> QED
  BY <1>1, <1>5, <1>7, Zenon

\* A byte more.
LEMMA ConsumedGrows ==
  ASSUME ParserInv, NEW s, Consumed(s, running, data, inSysex, sysexBuf, overran),
         NEW b \in Bytes, Parse(b)
  PROVE  /\ Consumed(Append(s, b), running', data', inSysex', sysexBuf', overran')
         /\ ~overran' /\ ~SysexRestarted(Append(s, b)) => out' = Decoded(Append(s, b))
<1> DEFINE t  == Append(s, b)
           st == StatusOf(s)
           e  == DataOf(s)
<1>1. s \in Seq(Bytes) /\ Placed(s)
  BY DEF Consumed
<1>2. /\ st \in Statuses /\ e \in Seq(DataBytes) /\ Placed(t)
      /\ StatusOf(t) = NextStatus(st, b)
      /\ DataOf(t) = NextData(e, b)
      /\ Decoded(t) = Completed(st, e, b)
  BY <1>1, StreamGrows
<1>3. t \in Seq(Bytes)
  BY <1>1
<1>4. ASSUME ~overran', ~SysexRestarted(t)
      PROVE  /\ Follows(NextStatus(st, b), NextData(e, b), running', data', inSysex', sysexBuf')
             /\ out' = Completed(st, e, b)
  <2>1. ~overran
    BY <1>4, OverrunStays
  <2>2. ~SysexRestarted(s) /\ ~(st = SysexStartByte /\ b = SysexStartByte)
    BY <1>1, <1>4, RestartGrows
  <2>3. Follows(st, e, running, data, inSysex, sysexBuf)
    BY <2>1, <2>2 DEF Consumed
  <2> HIDE DEF st, e
  <2> QED
    BY <1>2, <1>4, <2>2, <2>3, ParserFollows
<1> QED
  BY <1>2, <1>3, <1>4 DEF Consumed

\* The inductive invariant of the decoder beside its stream.
StreamInv ==
  ParserInv /\ Consumed(stream, running, data, inSysex, sysexBuf, overran)

LEMMA StreamInitInv == StreamInit => StreamInv
<1> SUFFICES ASSUME StreamInit PROVE StreamInv
  OBVIOUS
<1>1. ParserInv
  BY ParserInitInv DEF StreamInit
<1>2. running = 0 /\ data = <<>> /\ inSysex = FALSE /\ sysexBuf = <<>> /\ stream = <<>>
  BY DEF StreamInit, ParserInit
<1> QED
  BY <1>1, <1>2, NothingPlaced, Zenon DEF StreamInv, Consumed

LEMMA StreamStepInv ==
  ASSUME StreamInv, [StreamNext]_streamVars
  PROVE  /\ StreamInv'
         /\ stream' # stream /\ ~overran' /\ ~SysexRestarted(stream') => out' = Decoded(stream')
<1>1. ASSUME NEW b \in Bytes, StreamByte(b)
      PROVE  /\ StreamInv'
             /\ ~overran' /\ ~SysexRestarted(stream') => out' = Decoded(stream')
  <2>1. Parse(b) /\ stream' = Append(stream, b)
    BY <1>1 DEF StreamByte
  <2>2. ParserInv'
    BY <2>1, ParserStepInv DEF ParserNext, StreamInv
  <2>3. /\ Consumed(Append(stream, b), running', data', inSysex', sysexBuf', overran')
        /\ ~overran' /\ ~SysexRestarted(Append(stream, b)) => out' = Decoded(Append(stream, b))
    BY <2>1, ConsumedGrows DEF StreamInv
  <2> QED
    BY <2>1, <2>2, <2>3 DEF StreamInv
<1>2. ASSUME NEW on \in BOOLEAN, SetNoteForward(on), UNCHANGED stream PROVE StreamInv'
  <2>1. ParserInv'
    BY <1>2, ParserStepInv DEF ParserNext, StreamInv
  <2>2. UNCHANGED <<running, data, inSysex, sysexBuf, overran, stream>>
    BY <1>2 DEF SetNoteForward
  <2> QED
    BY <2>1, <2>2 DEF StreamInv
<1>3. CASE UNCHANGED streamVars
  <2>1. UNCHANGED parserVars /\ UNCHANGED stream
    BY <1>3 DEF streamVars, parserVars
  <2>2. ParserInv'
    BY <2>1, ParserStepInv DEF StreamInv
  <2> QED
    BY <2>1, <2>2 DEF StreamInv, parserVars
<1> QED
  BY <1>1, <1>2, <1>3 DEF StreamNext

\* Whatever bytes a stream is made of, running status, real-time bytes between the
\* others, SysEx cut short and option changes included, each byte makes
\* midi_parse_and_dispatch emit exactly the message that the stream calls for there.
THEOREM DecoderMatchesStream == StreamSpec => EmitsDecodedMessages
<1>1. ASSUME StreamInv, [StreamNext]_streamVars
      PROVE  [stream' # stream /\ ~overran' /\ ~SysexRestarted(stream')
                => out' = Decoded(stream')]_streamVars
  BY <1>1, StreamStepInv
<1>2. StreamInv /\ [StreamNext]_streamVars => StreamInv'
  BY StreamStepInv
<1> QED
  BY <1>1, <1>2, StreamInitInv, PTL DEF StreamSpec, EmitsDecodedMessages

-----------------------------------------------------------------------------
(* Resynchronisation: from a status byte on, what came before is forgotten. *)

\* u leaves behind the status and the data that s does.
LeavesLike(u, s) ==
  u \in Seq(Bytes) /\ Placed(u) /\ StatusOf(u) = StatusOf(s) /\ DataOf(u) = DataOf(s)

\* From any status byte on, s leaves behind what all of it does.
Forgets(s) ==
  \A m \in 1..Len(s) : IsStatus(s[m]) => LeavesLike(SubSeq(s, m, Len(s)), s)

\* That stays so with a byte more, and the message called for is the same.
LEMMA ForgetsGrows ==
  ASSUME NEW s \in Seq(Bytes), NEW b \in Bytes, Placed(s), Forgets(s)
  PROVE  /\ Forgets(Append(s, b))
         /\ \A m \in 1..Len(s) : IsStatus(s[m]) =>
              Decoded(SubSeq(Append(s, b), m, Len(s) + 1)) = Decoded(Append(s, b))
<1> DEFINE t == Append(s, b)
           n == Len(s)
<1>1. /\ n \in Nat /\ t \in Seq(Bytes) /\ Len(t) = n + 1 /\ t[n + 1] = b
      /\ \A j \in 1..n : t[j] = s[j]
  BY AppendProperties, LenProperties
<1>2. /\ StatusOf(t) = NextStatus(StatusOf(s), b)
      /\ DataOf(t) = NextData(DataOf(s), b)
      /\ Decoded(t) = Completed(StatusOf(s), DataOf(s), b)
  BY StreamGrows, Zenon
<1> HIDE DEF t
<1>3. ASSUME NEW m \in 1..n, IsStatus(s[m])
      PROVE  /\ LeavesLike(SubSeq(t, m, n + 1), t)
             /\ Decoded(SubSeq(t, m, n + 1)) = Decoded(t)
  <2> DEFINE v == SubSeq(s, m, n)
             u == SubSeq(t, m, n + 1)
  <2>1. /\ v \in Seq(Bytes) /\ Placed(v)
        /\ StatusOf(v) = StatusOf(s) /\ DataOf(v) = DataOf(s)
    BY <1>3, Zenon DEF Forgets, LeavesLike
  <2>2. u = Append(v, b)
    <3>1. /\ u \in Seq(Bytes) /\ Len(u) = n + 1 - m + 1
          /\ \A k \in 1..(n + 1 - m + 1) : u[k] = t[m + k - 1]
      BY <1>1, <1>3, SMT
    <3>2. /\ Len(v) = n - m + 1
          /\ \A k \in 1..(n - m + 1) : v[k] = s[m + k - 1]
      BY <1>1, <1>3, SMT
    <3> HIDE DEF u, v
    <3>3. /\ Append(v, b) \in Seq(Bytes) /\ Len(Append(v, b)) = n - m + 1 + 1
          /\ \A k \in 1..(n - m + 1) : Append(v, b)[k] = v[k]
          /\ Append(v, b)[n - m + 1 + 1] = b
      BY <2>1, <3>2, AppendProperties
    <3>4. ASSUME NEW k \in 1..(n + 1 - m + 1) PROVE u[k] = Append(v, b)[k]
      <4>1. CASE k \in 1..(n - m + 1)
        <5>1. m + k - 1 \in 1..n
          BY <1>1, <1>3, <4>1, SMT
        <5> QED
          BY <1>1, <3>1, <3>2, <3>3, <4>1, <5>1, Zenon
      <4>2. CASE k = n - m + 1 + 1
        <5>1. m + k - 1 = n + 1
          BY <1>1, <1>3, <4>2, SMT
        <5>2. u[k] = t[n + 1]
          BY <3>1, <5>1, Zenon
        <5> QED
          BY <1>1, <3>3, <4>2, <5>2, Zenon
      <4>3. k \in 1..(n - m + 1) \/ k = n - m + 1 + 1
        BY <1>1, <1>3, SMT
      <4> QED
        BY <4>1, <4>2, <4>3
    <3>5. Len(Append(v, b)) = Len(u) /\ Len(u) = n + 1 - m + 1
      BY <1>1, <3>1, <3>3, SMT
    <3> QED
      BY <3>1, <3>3, <3>4, <3>5, SeqEqual
  <2> HIDE DEF u, v
  <2>3. /\ Placed(u) /\ u \in Seq(Bytes)
        /\ StatusOf(u) = NextStatus(StatusOf(v), b)
        /\ DataOf(u) = NextData(DataOf(v), b)
        /\ Decoded(u) = Completed(StatusOf(v), DataOf(v), b)
    <3>1. Append(v, b) \in Seq(Bytes)
      BY <2>1, AppendProperties
    <3> QED
      BY <2>1, <2>2, <3>1, StreamGrows, Zenon
  <2>4. LeavesLike(u, t) /\ Decoded(u) = Decoded(t)
    BY <1>2, <2>1, <2>3, Zenon DEF LeavesLike
  <2> QED
    BY <2>4 DEF u
<1>4. ASSUME IsStatus(b)
      PROVE  LeavesLike(SubSeq(t, n + 1, n + 1), t)
  <2>1. SubSeq(t, n + 1, n + 1) = Append(<<>>, b)
    <3>1. /\ SubSeq(t, n + 1, n + 1) \in Seq(Bytes) /\ Len(SubSeq(t, n + 1, n + 1)) = 1
          /\ SubSeq(t, n + 1, n + 1)[1] = t[n + 1]
      BY <1>1, SMT
    <3>2. SubSeq(t, n + 1, n + 1)[1] = b
      BY <1>1, <3>1
    <3> DEFINE u == SubSeq(t, n + 1, n + 1)
    <3>3. /\ Append(<<>>, b) \in Seq(Bytes) /\ Len(Append(<<>>, b)) = 1
          /\ Append(<<>>, b)[1] = b
      OBVIOUS
    <3>4. \A k \in 1..1 : k = 1
      BY SMT
    <3> HIDE DEF u
    <3>5. \A k \in 1..Len(u) : u[k] = Append(<<>>, b)[k]
      BY <3>1, <3>2, <3>3, <3>4 DEF u
    <3> QED
      BY <3>1, <3>3, <3>5, SeqEqual DEF u
  <2>2. /\ Append(<<>>, b) \in Seq(Bytes) /\ Placed(Append(<<>>, b))
        /\ StatusOf(Append(<<>>, b)) = NextStatus(0, b)
        /\ DataOf(Append(<<>>, b)) = NextData(<<>>, b)
    <3>1. Append(<<>>, b) \in Seq(Bytes)
      OBVIOUS
    <3> QED
      BY <3>1, NothingPlaced, StreamGrows, Zenon
  <2>3. /\ NextStatus(0, b) = NextStatus(StatusOf(s), b)
        /\ NextData(<<>>, b) = NextData(DataOf(s), b)
    BY <1>4, Zenon DEF NextStatus, NextData
  <2> QED
    BY <1>2, <2>1, <2>2, <2>3, Zenon DEF LeavesLike
<1>5. ASSUME NEW m \in 1..(n + 1), IsStatus(t[m])
      PROVE  LeavesLike(SubSeq(t, m, n + 1), t)
  <2>1. m \in 1..n \/ m = n + 1
    BY <1>1, SMT
  <2>2. CASE m \in 1..n
    <3>1. IsStatus(s[m])
      BY <1>1, <1>5, <2>2, Zenon
    <3> QED
      BY <1>3, <2>2, <3>1, Zenon
  <2>3. CASE m = n + 1
    <3>1. IsStatus(b)
      BY <1>1, <1>5, <2>3, Zenon
    <3> QED
      BY <1>4, <2>3, <3>1, Zenon
  <2> QED
    BY <2>1, <2>2, <2>3
<1>6. Forgets(t)
  <2>1. ASSUME NEW m \in 1..Len(t), IsStatus(t[m])
        PROVE  LeavesLike(SubSeq(t, m, Len(t)), t)
    <3>1. Len(t) = n + 1
      BY <1>1
    <3> HIDE DEF n
    <3>2. m \in 1..(n + 1)
      BY <3>1, Zenon
    <3> QED
      BY <1>5, <2>1, <3>1, <3>2, Zenon
  <2> QED
    BY <2>1, Zenon DEF Forgets
<1>7. \A m \in 1..n : IsStatus(s[m]) => Decoded(SubSeq(t, m, n + 1)) = Decoded(t)
  BY <1>3, Zenon
<1> QED
  BY <1>6, <1>7 DEF t

\* The bytes that have reached the decoder.
Seen == [k \in 1..Len(parsed) |-> wire[parsed[k]]]

\* The inductive invariant: the statics are what the bytes seen leave behind, and
\* those that came before a status byte make no difference after it.
SeenInv ==
  /\ PathInv /\ ParserInv
  /\ Consumed(Seen, running, data, inSysex, sysexBuf, overran)
  /\ Forgets(Seen)

LEMMA SeenInit == Init => SeenInv
<1> SUFFICES ASSUME Init PROVE SeenInv
  OBVIOUS
<1>1. PathInv /\ ParserInv
  BY PathInit, ParserInitInv DEF Init, StreamInit
<1>2. /\ running = 0 /\ data = <<>> /\ inSysex = FALSE /\ sysexBuf = <<>>
      /\ parsed = <<>>
  BY DEF Init, StreamInit, ParserInit
<1>3. Len(<<>>) = 0 /\ 1..0 = {}
  BY SMT
<1>4. Seen = <<>>
  <2>1. [k \in 1..0 |-> wire[parsed[k]]] = <<>>
    BY SMT
  <2> QED
    BY <1>2, <1>3, <2>1, Zenon DEF Seen
<1>5. Forgets(<<>>)
  BY <1>3, Zenon DEF Forgets
<1> QED
  BY <1>1, <1>2, <1>4, <1>5, NothingPlaced, Zenon DEF SeenInv, Consumed

\* A sequence is the function of its elements.
LEMMA SequenceIsFunction ==
  ASSUME NEW S, NEW s \in Seq(S)
  PROVE  s = [k \in 1..Len(s) |-> s[k]]
  OBVIOUS

\* A byte reaches the decoder.
LEMMA ParseByteSeen ==
  ASSUME SeenInv, ParseByte
  PROVE  \E b \in Bytes :
           /\ Parse(b)
           /\ Seen' = Append(Seen, b)
           /\ [k \in 1..Len(parsed') |-> wire[parsed'[k]]] = Append(Seen, b)
           /\ Len(parsed') = Len(Seen) + 1
<1> DEFINE q == Head(queue)
           b == wire[q]
           n == Len(parsed)
<1>1. /\ parsed \in Seq(Nat) /\ queue \in Seq(Nat) /\ queue # <<>> /\ stream \in Seq(Bytes)
      /\ n \in Nat /\ Len(queue) \in Nat
  BY LenProperties DEF SeenInv, PathInv, PathTypes, ParseByte
<1>2. /\ Parse(b) /\ parsed' = Append(parsed, q) /\ wire' = wire
  BY Zenon DEF ParseByte, wire
<1>3. /\ n + 1 \in DOMAIN (parsed \o queue)
      /\ (parsed \o queue)[n + 1] = q
  BY <1>1, SMT
<1>4. q \in 1..Len(stream)
  BY <1>3, Zenon DEF SeenInv, PathInv, PathOrder, OrderInv, wire
<1>5. b \in Bytes
  BY <1>1, <1>4, ElementOfSeq, Zenon DEF wire
<1>6. /\ Append(parsed, q) \in Seq(Nat) /\ Len(Append(parsed, q)) = n + 1
      /\ Append(parsed, q)[n + 1] = q
      /\ \A k \in 1..n : Append(parsed, q)[k] = parsed[k]
  <2>1. q \in Nat
    BY <1>1
  <2> HIDE DEF q
  <2> QED BY <1>1, <2>1, AppendProperties
<1>7. Seen \in Seq(Bytes) /\ Len(Seen) = n /\ \A k \in 1..n : Seen[k] = wire[parsed[k]]
  <2>1. Seen \in Seq(Bytes)
    BY DEF SeenInv, Consumed
  <2>2. DOMAIN Seen = 1..n /\ \A k \in 1..n : Seen[k] = wire[parsed[k]]
    BY Zenon DEF Seen
  <2> QED
    BY <1>1, <2>1, <2>2
<1> HIDE DEF q, b, n
<1> DEFINE t == [k \in 1..(n + 1) |-> wire[Append(parsed, q)[k]]]
<1>8. /\ Append(Seen, b) \in Seq(Bytes) /\ Len(Append(Seen, b)) = n + 1
      /\ Append(Seen, b)[n + 1] = b
      /\ \A k \in 1..n : Append(Seen, b)[k] = Seen[k]
  BY <1>5, <1>7, AppendProperties
<1>9. \A k \in 1..(n + 1) : wire[Append(parsed, q)[k]] = Append(Seen, b)[k]
  <2>1. \A k \in 1..(n + 1) : k \in 1..n \/ k = n + 1
    BY <1>1, SMT
  <2>2. ASSUME NEW k \in 1..n PROVE wire[Append(parsed, q)[k]] = Append(Seen, b)[k]
    BY <1>6, <1>7, <1>8, <2>2, Zenon
  <2>3. wire[Append(parsed, q)[n + 1]] = Append(Seen, b)[n + 1]
    BY <1>6, <1>8, Zenon DEF b
  <2> QED
    BY <2>1, <2>2, <2>3, Zenon
<1>10. t = Append(Seen, b)
  <2>1. Append(Seen, b) = [k \in 1..(n + 1) |-> Append(Seen, b)[k]]
    BY <1>8, SequenceIsFunction, Zenon
  <2> QED
    BY <1>9, <2>1, Zenon
<1>11. [k \in 1..Len(parsed') |-> wire[parsed'[k]]] = t
  BY <1>2, <1>6, Zenon
<1>12. Seen' = [k \in 1..Len(parsed') |-> wire[parsed'[k]]]
  BY <1>2, Zenon DEF Seen
<1>13. Len(parsed') = Len(Seen) + 1
  BY <1>2, <1>6, <1>7, Zenon
<1> QED
  BY <1>2, <1>5, <1>10, <1>11, <1>12, <1>13, Zenon

\* Every other step leaves what has been seen as it was.
LEMMA SeenKept ==
  ASSUME SeenInv, [Next]_vars, ~ParseByte
  PROVE  Seen' = Seen /\ parsed' = parsed /\ UNCHANGED parserVars
<1>1. CASE \E b \in Bytes : WireByte(b)
  <2>1. PICK b \in Bytes : WireByte(b)
    BY <1>1
  <2>2. UNCHANGED parserVars /\ parsed' = parsed /\ stream' = Append(stream, b)
    BY <2>1, Zenon DEF WireByte, wire
  <2>3. stream \in Seq(Bytes) /\ parsed \in Seq(Nat) /\ Len(parsed) \in Nat /\ queue \in Seq(Nat)
    BY LenProperties DEF SeenInv, PathInv, PathTypes
  <2>4. \A k \in 1..Len(parsed) : parsed[k] \in 1..Len(stream)
    <3>1. \A k \in 1..Len(parsed) : /\ k \in DOMAIN (parsed \o queue)
                                    /\ (parsed \o queue)[k] = parsed[k]
      BY <2>3, SMT
    <3> QED
      BY <3>1, Zenon DEF SeenInv, PathInv, PathOrder, OrderInv, wire
  <2>5. \A j \in 1..Len(stream) : Append(stream, b)[j] = stream[j]
    BY <2>3, AppendProperties
  <2>6. \A k \in 1..Len(parsed) : Append(stream, b)[parsed[k]] = stream[parsed[k]]
    BY <2>4, <2>5, Zenon
  <2>7. Seen' = Seen
    BY <2>2, <2>6, Zenon DEF Seen, wire
  <2> QED
    BY <2>2, <2>7
<1>2. CASE (MainLoop \/ Isr) /\ ~ParseByte
  <2>1. UNCHANGED parserVars /\ parsed' = parsed /\ stream' = stream
    BY <1>2, Zenon DEF MainLoop, Isr, PollIn, PollEmpty, PollPut, PollDropRead,
       PollDropWrite, ProcessDone, TakeRead, TakeClear, historyVars
  <2> QED
    BY <2>1, Zenon DEF Seen, wire
<1>3. CASE UNCHANGED vars
  <2>1. UNCHANGED parserVars /\ parsed' = parsed /\ stream' = stream
    BY <1>3, Zenon DEF vars, historyVars
  <2> QED
    BY <2>1, Zenon DEF Seen, wire
<1> QED
  BY <1>1, <1>2, <1>3, Zenon DEF Next

LEMMA SeenStep == SeenInv /\ [Next]_vars => SeenInv'
<1> SUFFICES ASSUME SeenInv, [Next]_vars PROVE SeenInv'
  OBVIOUS
<1>1. PathInv'
  BY PathStep DEF SeenInv
<1>2. CASE ParseByte
  <2>1. PICK b \in Bytes : Parse(b) /\ Seen' = Append(Seen, b)
    BY <1>2, ParseByteSeen
  <2>2. ParserInv'
    BY <2>1, ParserStepInv DEF ParserNext, SeenInv
  <2>3. Seen \in Seq(Bytes) /\ Placed(Seen) /\ Forgets(Seen)
    BY DEF SeenInv, Consumed
  <2>4. Consumed(Append(Seen, b), running', data', inSysex', sysexBuf', overran')
    BY <2>1, ConsumedGrows DEF SeenInv
  <2>5. Forgets(Append(Seen, b))
    BY <2>3, ForgetsGrows
  <2> QED
    BY <1>1, <2>1, <2>2, <2>4, <2>5 DEF SeenInv
<1>3. CASE ~ParseByte
  <2>1. Seen' = Seen /\ UNCHANGED parserVars
    BY <1>3, SeenKept
  <2>2. ParserInv'
    BY <2>1, ParserStepInv DEF SeenInv
  <2>3. UNCHANGED <<running, data, inSysex, sysexBuf, overran>>
    BY <2>1, Zenon DEF parserVars
  <2> QED
    BY <1>1, <2>1, <2>2, <2>3 DEF SeenInv
<1> QED
  BY <1>2, <1>3

\* Whatever was lost or overtaken before it, from a status byte that reaches the
\* decoder on, each byte makes it emit the message that the bytes since then call
\* for.
THEOREM ResynchronisesAlways == Spec => ResynchronisesAtStatus
<1> DEFINE Claim ==
      parsed' # parsed =>
        LET n    == Len(parsed')
            seen == [k \in 1..n |-> wire[parsed'[k]]]
        IN \A m \in 1..(n - 1) :
             /\ IsStatus(seen[m])
             /\ \A k \in m..n : parsed'[k] = parsed'[m] + k - m
             /\ ~overran' /\ ~SysexRestarted(seen)
             => out' = Decoded(SubSeq(seen, m, n))
<1>1. ASSUME SeenInv, [Next]_vars PROVE Claim
  <2>1. CASE ParseByte
    <3>1. PICK b \in Bytes :
             /\ Parse(b)
             /\ [k \in 1..Len(parsed') |-> wire[parsed'[k]]] = Append(Seen, b)
             /\ Len(parsed') = Len(Seen) + 1
      BY <1>1, <2>1, ParseByteSeen
    <3>2. Seen \in Seq(Bytes) /\ Placed(Seen) /\ Forgets(Seen) /\ Len(Seen) \in Nat
      BY <1>1, LenProperties DEF SeenInv, Consumed
    <3>3. ~overran' /\ ~SysexRestarted(Append(Seen, b)) => out' = Decoded(Append(Seen, b))
      BY <1>1, <3>1, ConsumedGrows DEF SeenInv
    <3>4. \A m \in 1..Len(Seen) : IsStatus(Seen[m]) =>
            Decoded(SubSeq(Append(Seen, b), m, Len(Seen) + 1)) = Decoded(Append(Seen, b))
      BY <3>2, ForgetsGrows
    <3>5. \A m \in 1..Len(Seen) : Append(Seen, b)[m] = Seen[m]
      BY <3>2, AppendProperties
    <3>6. Len(Seen) + 1 - 1 = Len(Seen)
      BY <3>2
    <3>7. \A m \in 1..(Len(Seen) + 1 - 1) :
            IsStatus(Append(Seen, b)[m]) /\ ~overran' /\ ~SysexRestarted(Append(Seen, b))
              => out' = Decoded(SubSeq(Append(Seen, b), m, Len(Seen) + 1))
      BY <3>3, <3>4, <3>5, <3>6, Zenon
    <3> DEFINE n    == Len(parsed')
               seen == [k \in 1..n |-> wire[parsed'[k]]]
    <3>8. seen = Append(Seen, b) /\ n = Len(Seen) + 1
      BY <3>1, Zenon
    <3> HIDE DEF n, seen
    <3>9. ASSUME NEW m \in 1..(n - 1), IsStatus(seen[m]), ~overran', ~SysexRestarted(seen)
          PROVE  out' = Decoded(SubSeq(seen, m, n))
      <4>1. m \in 1..(Len(Seen) + 1 - 1)
        BY <3>2, <3>8, SMT
      <4>2. IsStatus(Append(Seen, b)[m]) /\ ~SysexRestarted(Append(Seen, b))
        BY <3>8, <3>9, Zenon
      <4>3. out' = Decoded(SubSeq(Append(Seen, b), m, Len(Seen) + 1))
        BY <3>7, <3>9, <4>1, <4>2, Zenon
      <4> QED
        BY <3>8, <4>3, Zenon
    <3> QED
      BY <3>9, Zenon DEF n, seen
  <2>2. CASE ~ParseByte
    BY <1>1, <2>2, SeenKept
  <2> QED
    BY <2>1, <2>2
<1>2. SeenInv /\ [Next]_vars => [Claim]_vars
  BY <1>1
<1> QED
  BY <1>2, SeenInit, SeenStep, PTL DEF Spec, ResynchronisesAtStatus
=============================================================================

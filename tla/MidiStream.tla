----------------------------- MODULE MidiStream -----------------------------
(***************************************************************************)
(* What the MIDI decoder promises, said of the stream of bytes as a whole: *)
(* a byte completes a message because of the positions of the bytes before *)
(* it, not because of a parser state.  MidiParser is run with the stream   *)
(* it has consumed kept beside it, and every message it emits is compared  *)
(* with the one the stream calls for.                                      *)
(***************************************************************************)
EXTENDS MidiParser, FiniteSetsExt

CONSTANT MaxStream          \* bound: bytes per stream
VARIABLE stream             \* history: the bytes consumed so far

streamVars == <<running, data, inSysex, sysexBuf, thru, out, overran, stream>>

IsStatus(b) == ~IsData(b) /\ ~IsRealTime(b)

\* Position of the last status byte before position i, 0 if there is none.
StatusBefore(s, i) == Max({0} \cup {j \in 1..(i - 1) : IsStatus(s[j])})

\* Where the data bytes after position p are, up to i; real-time bytes may fall
\* between.
DataPositions(s, p, i) == {j \in (p + 1)..i : IsData(s[j])}

\* The k-th smallest of a set of positions: the last with no more than k up to it.
Nth(D, k) == Max({j \in D : Cardinality({x \in D : x <= j}) <= k})

DataBetween(s, p, i) ==
  LET D == DataPositions(s, p, i)
  IN [k \in 1..Cardinality(D) |-> s[Nth(D, k)]]

\* MIDI 1.0 data byte counts of the messages the bridge forwards.
MessageLength(status) ==
  CASE status \in 128..191 -> 2
    [] status \in 192..223 -> 1
    [] status \in 224..239 -> 2
    [] status = QuarterFrameByte -> 1
    [] OTHER -> 0

\* The message the last byte of s completes.
Decoded(s) ==
  LET i == Len(s)
      p == StatusBefore(s, i)
      d == DataBetween(s, p, i)
      n == IF p = 0 THEN 0 ELSE MessageLength(s[p])
  IN CASE s[i] = SysexEndByte /\ p > 0 /\ s[p] = SysexStartByte ->
            SysexMessage(SubSeq(d, 1, Min({Len(d), SysexCap})))
       [] IsData(s[i]) /\ n > 0 /\ Len(d) % n = 0 ->
            ChannelMessage(s[p], SubSeq(d, Len(d) - n + 1, Len(d)))
       [] OTHER -> NoMessage

\* A SysEx is begun again before it is ended: the next status after an 0xF0
\* is another 0xF0.
SysexRestarted(s) ==
  \E i \in 1..Len(s) :
    LET p == StatusBefore(s, i)
    IN s[i] = SysexStartByte /\ p > 0 /\ s[p] = SysexStartByte

StreamInit == ParserInit /\ stream = <<>>

StreamByte(b) ==
  /\ Len(stream) < MaxStream
  /\ Parse(b)
  /\ stream' = Append(stream, b)

StreamNext ==
  \/ \E b \in Bytes : StreamByte(b)
  \/ \E on \in BOOLEAN : SetNoteForward(on) /\ UNCHANGED stream

StreamSpec == StreamInit /\ [][StreamNext]_streamVars

-----------------------------------------------------------------------------
\* Running status, interleaved real-time bytes, aborted SysEx and option
\* changes included, the decoder emits exactly the messages of the stream,
\* each on the byte that completes it (midi_parse_and_dispatch), as long as
\* no SysEx is begun inside another.
EmitsDecodedMessages ==
  [][stream' # stream /\ ~overran' /\ ~SysexRestarted(stream') => out' = Decoded(stream')]_streamVars

\* A status byte that interrupts a SysEx is "treat[ed] as new status" (the
\* comment in midi_parse_and_dispatch): an 0xF0 begins a SysEx there as it does
\* anywhere else.
InterruptingStatusIsNewStatus ==
  [][stream' # stream /\ stream'[Len(stream')] = SysexStartByte => inSysex']_streamVars
=============================================================================

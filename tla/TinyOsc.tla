------------------------------- MODULE TinyOsc -------------------------------
(***************************************************************************)
(* The OSC reader and writer of lib/tinyosc/tinyosc.c on one buffer: a     *)
(* message (tosc_writeMessage, tosc_parseMessage) or a bundle of messages  *)
(* (tosc_writeBundle, tosc_writeNextMessage; tosc_parseBundle,             *)
(* tosc_getNextMessage) is written, handed over, and read argument by      *)
(* argument, with tosc_reset anywhere.                                     *)
(*                                                                         *)
(* A byte is a number; a message is its address, a sequence of bytes, and  *)
(* its arguments, each a type character with the bytes of its value.       *)
(* Offsets count from 0 as in the code; the byte at offset o of the buffer *)
(* is buf[o + 1].                                                          *)
(*                                                                         *)
(*   mode      "message", "bundle": what is written                        *)
(*   bufLen    the length of the buffer that the writer is given           *)
(*   phase     "write" and then "read"; "lost" once a negative length has  *)
(*             been cleared                                                *)
(*   buf       the array that holds the buffer, Size bytes                 *)
(*   length    the bundle's bundleLen, or what tosc_writeMessage returned  *)
(*   next      the bundle's marker, of the writer and then of the reader   *)
(*   msg       the tosc_message of the reader: buffer (at), len, format,   *)
(*             marker                                                      *)
(*   answer    what the last tosc_getNext* gave, Nothing for NULL          *)
(*                                                                         *)
(* History: written, what was accepted, each with whether a text of it was *)
(* cut; refused, the refusal if the last write was one; spilled, the last  *)
(* write has put a byte behind the buffer; got, how many messages have     *)
(* been read; place, how many arguments since the message was parsed or    *)
(* reset; astray, tosc_reset has missed the first one.                     *)
(*                                                                         *)
(* The arrays of the program are 64, 128, 256 and 2048 bytes long, but the *)
(* writer may be given less of one: udp.c gives it 2047 bytes of 2048.     *)
(* Nothing is written or read after a message was refused: what follows on *)
(* a bundle then is said in README.md, and a message written again finds   *)
(* the array like any other.                                               *)
(***************************************************************************)
EXTENDS Integers, Sequences

CONSTANTS
  Size,         \* the length of the array
  Lengths,      \* how much of it the writer may be given
  Messages,     \* what may be written
  Timetag,      \* eight bytes
  MaxWrites     \* bound: messages written to a bundle

Octets     == 0..255
Characters == 1..255          \* what a C string is made of
IntMax     == 2147483647      \* lengths are ints

Words == {102, 105, 109}            \* f i m: four bytes
Longs == {100, 104, 116}            \* d h t: eight bytes
Text  == 115                        \* s
Blob  == 98                         \* b
Bare  == {70, 73, 78, 84}           \* F I N T: nothing but the type

\* The value of an argument is as long as its type says, a text holds no zero, and
\* a blob's length is an int.
Arguments ==
  { a \in [type : Characters, value : Seq(Octets)] :
      /\ a.type \in Words => Len(a.value) = 4
      /\ a.type \in Longs => Len(a.value) = 8
      /\ a.type \in Bare  => a.value = <<>>
      /\ a.type = Text    => a.value \in Seq(Characters)
      /\ a.type = Blob    => Len(a.value) <= IntMax }

ASSUME BufferAssumption ==
  /\ Size \in Nat /\ Size % 4 = 0 /\ Size <= IntMax
  /\ Lengths \subseteq 16..Size
  /\ Timetag \in Seq(Octets) /\ Len(Timetag) = 8
  /\ MaxWrites \in Nat

ASSUME MessagesAssumption ==
  Messages \subseteq [address : Seq(Characters), args : Seq(Arguments)]

VARIABLES mode, bufLen, phase, buf, length, next, msg, answer,
          written, refused, spilled, got, place, astray

writeVars == <<buf, length, written, refused, spilled>>
readVars  == <<msg, answer, got, place, astray>>
vars == <<mode, bufLen, phase, next, writeVars, readVars>>

-----------------------------------------------------------------------------
NUL == 0
Comma == 44
BundleId == <<35, 98, 117, 110, 100, 108, 101, 0>>     \* "#bundle"

Nothing == <<-1>>
NoMsg == [at |-> 0, len |-> 0, format |-> 0, marker |-> 0]

Zeros(n) == [k \in 1..n |-> NUL]

\* n & ~0x3.
Align(n) == n - (n % 4)

\* htonl and ntohl: four bytes, the most significant first, of a number or of
\* the two's complement of a negative one.
Word(n) == <<(n \div 16777216) % 256, (n \div 65536) % 256, (n \div 256) % 256, n % 256>>
Number(w) == (IF w[1] > 127 THEN w[1] - 256 ELSE w[1]) * 16777216
               + w[2] * 65536 + w[3] * 256 + w[4]

Put(b, at, t) == [k \in DOMAIN b |-> IF k - at \in DOMAIN t THEN t[k - at] ELSE b[k]]

\* strncpy: a longer text is cut, the room that a shorter one leaves is zeroed.
CopyText(b, at, t, n) == Put(b, at, [k \in 1..n |-> IF k <= Len(t) THEN t[k] ELSE NUL])

Types(m) == [k \in DOMAIN m.args |-> m.args[k].type]

-----------------------------------------------------------------------------
(* Writing: tosc_vwrite on the room bytes from offset base.  Its index and *)
(* its buffer are carried along; a negative index is the error returned.   *)

Stopped(w, code) == [w EXCEPT !.i = code]

\* A slip: a text that ends with its word gets no zero.
WriteTextUnpadded(w, base, room, t, code) ==
  IF w.i + Len(t) >= room THEN Stopped(w, code)
  ELSE [i     |-> Align(w.i + 3 + Len(t)),
        bytes |-> CopyText(w.bytes, base + w.i, t, room - w.i - Len(t)),
        cut   |-> w.cut \/ Len(t) > room - w.i - Len(t),
        spill |-> w.spill]

WriteText(w, base, room, t, code) ==
  IF w.i + Len(t) >= room THEN Stopped(w, code)
  ELSE [i     |-> Align(w.i + 4 + Len(t)),
        bytes |-> CopyText(w.bytes, base + w.i, t, room - w.i - Len(t)),
        cut   |-> w.cut \/ Len(t) > room - w.i - Len(t),
        spill |-> w.spill]

\* A slip: the last word of the room is not used.
WriteBytesTight(w, base, room, t) ==
  IF w.i + Len(t) >= room THEN Stopped(w, -3)
  ELSE [w EXCEPT !.i = Align(w.i + 3 + Len(t)), !.bytes = Put(@, base + w.i, t)]

WriteBytes(w, base, room, t) ==
  IF w.i + Len(t) > room THEN Stopped(w, -3)
  ELSE [w EXCEPT !.i = Align(w.i + 3 + Len(t)), !.bytes = Put(@, base + w.i, t)]

WriteArgument(w, base, room, a) ==
  CASE w.i < 0                    -> w
    [] w.i >= 0 /\ a.type = Text  -> WriteText(w, base, room, a.value, -3)
    [] w.i >= 0 /\ a.type = Blob  -> WriteBytes(w, base, room, Word(Len(a.value)) \o a.value)
    [] w.i >= 0 /\ a.type \in Words \cup Longs -> WriteBytes(w, base, room, a.value)
    [] w.i >= 0 /\ a.type \in Bare -> w
    [] OTHER                      -> Stopped(w, -4)

\* The address; then the comma, which goes behind the room if the address has
\* filled it or its last word.
WriteAddress(b, base, room, m) ==
  LET cleared == Put(b, base, Zeros(room))
      i       == Align(Len(m.address) + 4)
  IN IF Len(m.address) >= room
       THEN [i |-> -1, bytes |-> cleared, cut |-> FALSE, spill |-> FALSE]
       ELSE [i     |-> i + 1,
             bytes |-> Put(CopyText(cleared, base, m.address, room), base + i, <<Comma>>),
             cut   |-> FALSE,
             spill |-> i >= room]

WriteHeader(b, base, room, m) ==
  LET w == WriteAddress(b, base, room, m)
  IN IF w.i < 0 THEN w ELSE WriteText(w, base, room, Types(m), -2)

\* The states of the loop over the format, from the one before the first argument.
WriteSteps(b, base, room, m) ==
  LET after[k \in 0..Len(m.args)] ==
        IF k = 0 THEN WriteHeader(b, base, room, m)
        ELSE WriteArgument(after[k - 1], base, room, m.args[k])
  IN after

Write(b, base, room, m) == WriteSteps(b, base, room, m)[Len(m.args)]

-----------------------------------------------------------------------------
(* The writer.                                                             *)

\* What the array holds before: anything where the buffer is, as on the stack of
\* main.c; and behind it zeros, as the static array of udp.c starts with.
Found == [k \in 1..Size |-> IF k <= bufLen THEN 255 ELSE NUL]

\* tosc_writeBundle, or a message about to be written.
Init ==
  /\ mode \in {"message", "bundle"} /\ bufLen \in Lengths /\ phase = "write"
  /\ buf = IF mode = "bundle" THEN Put(Found, 0, BundleId \o Timetag) ELSE Found
  /\ length = IF mode = "bundle" THEN 16 ELSE 0
  /\ next = length
  /\ written = <<>> /\ refused = <<>> /\ spilled = FALSE
  /\ msg = NoMsg /\ answer = Nothing /\ got = 0 /\ place = 0 /\ astray = FALSE

\* What a write of m with room bytes left has come to.
Recorded(m, room, w) ==
  /\ written' = IF w.i < 0 THEN written ELSE Append(written, [message |-> m, cut |-> w.cut])
  /\ refused' = IF w.i < 0 THEN <<[message |-> m, room |-> room, code |-> w.i]>> ELSE <<>>
  /\ spilled' = w.spill

\* tosc_writeMessage.
WriteMessage(m) ==
  /\ phase = "write" /\ mode = "message" /\ written = <<>> /\ refused = <<>>
  /\ LET w == Write(buf, 0, bufLen, m)
     IN /\ buf' = w.bytes
        /\ length' = w.i
        /\ Recorded(m, bufLen, w)
  /\ UNCHANGED <<mode, bufLen, phase, next, readVars>>

RoomLeft == bufLen - length - 4

\* tosc_writeNextMessage: the length goes before the message, and the error of a
\* message that was refused is counted like a length.
WriteNextMessage(m) ==
  /\ phase = "write" /\ mode = "bundle" /\ refused = <<>>
  /\ Len(written) < MaxWrites
  /\ length < bufLen /\ RoomLeft >= 0
  /\ LET w == Write(buf, next + 4, RoomLeft, m)
     IN /\ buf' = Put(w.bytes, next, Word(w.i))
        /\ next' = next + 4 + w.i
        /\ length' = length + 4 + w.i
        /\ Recorded(m, RoomLeft, w)
  /\ UNCHANGED <<mode, bufLen, phase, readVars>>

\* Less than a word is left: the length that is cleared is negative, and C
\* gives what follows no meaning.
WriteNextMessageLost ==
  /\ phase = "write" /\ mode = "bundle" /\ refused = <<>>
  /\ Len(written) < MaxWrites
  /\ length < bufLen /\ RoomLeft < 0
  /\ phase' = "lost"
  /\ UNCHANGED <<mode, bufLen, next, writeVars, readVars>>

-----------------------------------------------------------------------------
(* The reader.                                                             *)

\* The first offset from o on that holds c; the searches for the address's end
\* and for the comma have no other limit.
Find(c, o) ==
  CHOOSE p \in o..(Size - 1) :
    buf[p + 1] = c /\ \A q \in o..(p - 1) : buf[q + 1] # c

Slice(o, n) == SubSeq(buf, o + 1, o + n)

\* tosc_parseMessage, of what tosc_vwrite has written.
Parsed(at, len) ==
  LET comma == Find(Comma, Find(NUL, at))
      end   == Find(NUL, comma)
  IN [at |-> at, len |-> len, format |-> comma + 1, marker |-> at + Align(end - at + 4)]

Fresh(m) == msg' = m /\ got' = got + 1 /\ place' = 0 /\ answer' = Nothing /\ astray' = FALSE

\* The packet is handed over: tosc_parseBundle, or tosc_parseMessage.
Receive ==
  /\ phase = "write" /\ phase' = "read"
  /\ refused = <<>>
  /\ \/ mode = "bundle" /\ next' = 16 /\ UNCHANGED readVars
     \/ mode = "message" /\ written # <<>> /\ Fresh(Parsed(0, length)) /\ UNCHANGED next
  /\ UNCHANGED <<mode, bufLen, writeVars>>

\* A slip: the length of the length is forgotten.
GetNextMessageShort ==
  /\ phase = "read" /\ mode = "bundle"
  /\ next < length
  /\ LET len == Number(Slice(next, 4))
     IN Fresh(Parsed(next + 4, len)) /\ next' = next + len
  /\ UNCHANGED <<mode, bufLen, phase, writeVars>>

\* tosc_getNextMessage.
GetNextMessage ==
  /\ phase = "read" /\ mode = "bundle"
  /\ next < length
  /\ LET len == Number(Slice(next, 4))
     IN Fresh(Parsed(next + 4, len)) /\ next' = next + 4 + len
  /\ UNCHANGED <<mode, bufLen, phase, writeVars>>

\* The type of the argument that is next, of which the caller walks along the
\* format string as tosc_printMessage does.
TypeNext == buf[msg.format + place + 1]

Reads(value, advance) ==
  /\ answer' = value
  /\ msg' = [msg EXCEPT !.marker = @ + advance]
  /\ place' = place + 1
  /\ UNCHANGED <<mode, bufLen, phase, next, writeVars, got, astray>>

Reading == phase = "read" /\ got > 0

\* tosc_getNextInt32, Float, Midi; Int64, Timetag, Double.
GetNextNumber ==
  /\ Reading
  /\ \/ TypeNext \in Words /\ Reads(Slice(msg.marker, 4), 4)
     \/ TypeNext \in Longs /\ Reads(Slice(msg.marker, 8), 8)

\* tosc_getNextString.
GetNextString ==
  /\ Reading /\ TypeNext = Text
  /\ LET n == Find(NUL, msg.marker) - msg.marker
     IN IF msg.marker + n >= msg.at + msg.len THEN Reads(Nothing, 0)
        ELSE Reads(Slice(msg.marker, n), Align(n + 4))

\* tosc_getNextBlob.
GetNextBlob ==
  /\ Reading /\ TypeNext = Blob
  /\ LET n == Number(Slice(msg.marker, 4))
     IN IF msg.marker + 4 + n <= msg.at + msg.len
          THEN Reads(Slice(msg.marker + 4, n), Align(n + 7))
          ELSE Reads(Nothing, 0)

\* A type that carries no value.
PassBare ==
  /\ Reading /\ TypeNext \in Bare
  /\ Reads(<<>>, 0)

\* Where tosc_reset puts the read head: the format is padded without its comma.
ResetMarker ==
  msg.format + Align(Find(NUL, msg.format) - msg.format + 4) - 1

\* tosc_reset.
Reset ==
  /\ Reading /\ place > 0
  /\ msg' = [msg EXCEPT !.marker = ResetMarker]
  /\ place' = 0 /\ answer' = Nothing
  /\ astray' = (ResetMarker # Parsed(msg.at, msg.len).marker)
  /\ UNCHANGED <<mode, bufLen, phase, next, writeVars, got>>

\* All has been read that there is.
Done ==
  /\ phase \in {"read", "lost"} \/ refused # <<>>
  /\ UNCHANGED vars

Next ==
  \/ \E m \in Messages : WriteMessage(m) \/ WriteNextMessage(m)
  \/ WriteNextMessageLost
  \/ Receive
  \/ GetNextMessage
  \/ GetNextNumber \/ GetNextString \/ GetNextBlob \/ PassBare
  \/ Reset
  \/ Done

Spec == Init /\ [][Next]_vars

-----------------------------------------------------------------------------
(* The reference: the encoding that OSC 1.0 defines.                       *)

\* At least one zero, up to a multiple of four.
Terminated(t) == t \o Zeros(4 - (Len(t) % 4))

\* No zero if the length is a multiple of four already.
Filled(t) == t \o Zeros((4 - (Len(t) % 4)) % 4)

EncodedArgument(a) ==
  IF a.type = Text THEN Terminated(a.value)
  ELSE IF a.type = Blob THEN Filled(Word(Len(a.value)) \o a.value)
  ELSE a.value

EncodedHeader(m) == Terminated(m.address) \o Terminated(<<Comma>> \o Types(m))

\* The encoding of m up to and with each of its arguments.
Encodings(m) ==
  LET upto[k \in 0..Len(m.args)] ==
        IF k = 0 THEN EncodedHeader(m) ELSE upto[k - 1] \o EncodedArgument(m.args[k])
  IN upto

Encoded(m) == Encodings(m)[Len(m.args)]

Element(m) == Word(Len(Encoded(m))) \o Encoded(m)

\* The bundle up to and with each of the messages ms.
Bundles(ms) ==
  LET upto[k \in 0..Len(ms)] ==
        IF k = 0 THEN BundleId \o Timetag ELSE upto[k - 1] \o Element(ms[k].message)
  IN upto

EncodedBundle == Bundles(written)[Len(written)]

Known(m) == \A k \in DOMAIN m.args : m.args[k].type \in {Text, Blob} \cup Words \cup Longs \cup Bare

\* What is written is the encoding of exactly what was accepted, and the length
\* says so; a text is cut only if it takes more than half of the room that was
\* left for it (tosc_vwrite, tosc_writeNextMessage).
WritesEncoding ==
  refused = <<>> /\ written # <<>> /\ (\A k \in DOMAIN written : ~written[k].cut) =>
    LET whole == IF mode = "bundle" THEN EncodedBundle ELSE Encoded(written[1].message)
    IN length = Len(whole) /\ Slice(0, length) = whole

\* A message is refused only if its encoding is longer than the room left, or has
\* a type that is not known.  What is accepted counts no more than the padding of
\* its last word behind the length that was given, where it leaves every byte as it
\* was; only the comma of a message that is refused is put there.  The room turns
\* negative only if the length given is not of whole words, and what is written
\* fills all the whole words of it (tosc_vwrite, tosc_writeNextMessage).
RefusesWhatDoesNotFit ==
  /\ refused # <<>> =>
       \/ Len(Encoded(refused[1].message)) > refused[1].room
       \/ ~Known(refused[1].message)
  /\ refused = <<>> =>
       /\ length % 4 = 0 /\ length < bufLen + 4 /\ ~spilled
       /\ \A k \in (bufLen + 1)..Size : buf[k] = NUL
  /\ phase = "lost" => bufLen % 4 # 0 /\ length = Align(bufLen)

\* The reader gets every message in the order written and no other, and every
\* argument as it was written, as often as it starts again; but for cut texts, and
\* for tosc_reset when the types of the message are 3, 7, 11... in number.
ReadsBack ==
  /\ phase = "read" /\ mode = "bundle" => (next >= length <=> got = Len(written))
  /\ Reading /\ ~written[got].cut =>
       LET m == written[got].message
       IN /\ Slice(msg.at, Len(m.address) + 1) = Append(m.address, NUL)
          /\ Slice(msg.format, Len(m.args) + 1) = Append(Types(m), NUL)
          /\ place > 0 /\ ~astray => answer = m.args[place].value
          /\ astray => Len(m.args) % 4 = 3

\* tinyosc.h: "Resets the read head to the first element."
ResetToFirst ==
  ~astray
=============================================================================

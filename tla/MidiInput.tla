------------------------------ MODULE MidiInput ------------------------------
(***************************************************************************)
(* The path of a MIDI byte from the UART to the decoder (asynth_midi.c):   *)
(* the receive interrupt and the main loop's polling fallback both move    *)
(* bytes from the UART into midi_in_msgq and count the ones that do not    *)
(* fit; the main loop drains the queue into the decoder and takes the drop *)
(* count.  The interrupt can run between any two steps of the main loop,   *)
(* which is why the loop's reads and writes of shared data are separate    *)
(* steps here; the interrupt itself is one step, nothing preempts it.      *)
(*                                                                         *)
(*   rdr        bytes in the UART's receive register                       *)
(*   queue      midi_in_msgq                                               *)
(*   held, tmp  locals of the main loop: the byte polled, a count read     *)
(*   dropCount, isrRx, pollRx   the module's volatile counters             *)
(*                                                                         *)
(* A byte in transit is its position on the wire, so order can be spoken   *)
(* of.  History: wire (bytes sent), parsed (positions in the order they    *)
(* reached the decoder), polled, lost (bytes the full queue refused),      *)
(* raced (those of them that the interrupt refused while the main loop was *)
(* between reading the drop count and writing it), overrun, reported.      *)
(***************************************************************************)
EXTENDS MidiStream

CONSTANTS
  QueueCap,     \* MIDI_IN_MSGQ_LEN
  UartCap       \* bytes the UART holds before it overruns

ASSUME QueueAssumption == QueueCap \in Nat \ {0} /\ UartCap \in Nat \ {0}

VARIABLES rdr, queue, pc, held, tmp, dropCount, isrRx, pollRx,
          parsed, polled, lost, raced, overrun, reported

\* stream, of MidiStream, is here the bytes the wire has carried.
wire == stream

busVars     == <<rdr, queue>>
counterVars == <<dropCount, isrRx, pollRx>>
mainVars    == <<pc, held, tmp>>
historyVars == <<parsed, polled, lost, raced, overrun, reported>>
vars == <<parserVars, stream, busVars, counterVars, mainVars, historyVars>>

\* A sender follows a System Common status by its own data bytes only.
CommonLength(status) ==
  CASE status = 242 -> 2
    [] status \in {241, 243} -> 1
    [] OTHER -> 0

LegalNextByte(b) ==
  LET p == StatusBefore(wire, Len(wire) + 1)
  IN IsData(b) /\ p > 0 /\ wire[p] > SysexStartByte =>
       \/ wire[p] = QuarterFrameByte
       \/ Len(DataBetween(wire, p, Len(wire))) < CommonLength(wire[p])

Init ==
  /\ StreamInit
  /\ rdr = <<>> /\ queue = <<>>
  /\ pc = "poll" /\ held = 0 /\ tmp = 0
  /\ dropCount = 0 /\ isrRx = 0 /\ pollRx = 0
  /\ parsed = <<>> /\ polled = {} /\ lost = 0 /\ raced = 0 /\ overrun = 0 /\ reported = 0

-----------------------------------------------------------------------------
\* The wire delivers a byte; one that finds the register full is overrun.
WireByte(b) ==
  /\ Len(wire) < MaxStream
  /\ LegalNextByte(b)
  /\ stream' = Append(wire, b)
  /\ IF Len(rdr) < UartCap
       THEN rdr' = Append(rdr, Len(wire) + 1) /\ UNCHANGED overrun
       ELSE overrun' = overrun + 1 /\ UNCHANGED rdr
  /\ UNCHANGED <<parserVars, queue, counterVars, mainVars, parsed, polled, lost, raced, reported>>

\* The main loop has read midi_in_drop_count and not yet written it.
CountInHand == pc \in {"drop", "clear"}

\* A slip: give up at the first byte that does not fit, leaving it uncounted.
IsrNoCount ==
  /\ rdr # <<>>
  /\ LET fits == Min({Len(rdr), QueueCap - Len(queue)})
     IN /\ queue' = queue \o SubSeq(rdr, 1, fits)
        /\ UNCHANGED <<dropCount, lost, raced>>
  /\ isrRx' = isrRx + Len(rdr)
  /\ rdr' = <<>>
  /\ UNCHANGED <<parserVars, stream, pollRx, mainVars, parsed, polled, overrun, reported>>

\* midi_in_uart_cb: empties the UART, counting each byte that does not fit.
Isr ==
  /\ rdr # <<>>
  /\ LET fits == Min({Len(rdr), QueueCap - Len(queue)})
     IN /\ queue' = queue \o SubSeq(rdr, 1, fits)
        /\ dropCount' = dropCount + Len(rdr) - fits
        /\ lost' = lost + Len(rdr) - fits
        /\ raced' = IF CountInHand THEN raced + Len(rdr) - fits ELSE raced
  /\ isrRx' = isrRx + Len(rdr)
  /\ rdr' = <<>>
  /\ UNCHANGED <<parserVars, stream, pollRx, mainVars, parsed, polled, overrun, reported>>

-----------------------------------------------------------------------------
(* The main loop, from the polling fallback to the drop report.            *)

Goto(from, to) == pc = from /\ pc' = to

PollIn ==
  /\ Goto("poll", "put")
  /\ rdr # <<>>
  /\ held' = Head(rdr)
  /\ rdr' = Tail(rdr)
  /\ polled' = polled \cup {Head(rdr)}
  /\ pollRx' = pollRx + 1
  /\ UNCHANGED <<parserVars, stream, queue, dropCount, isrRx, tmp, parsed, lost, raced,
                 overrun, reported>>

PollEmpty ==
  /\ Goto("poll", "process")
  /\ rdr = <<>>
  /\ UNCHANGED <<parserVars, stream, busVars, counterVars, held, tmp, historyVars>>

\* A slip: the byte is put back at the front, room or not.
PollPutFront ==
  /\ Goto("put", "poll")
  /\ queue' = <<held>> \o queue
  /\ held' = 0
  /\ UNCHANGED <<parserVars, stream, rdr, counterVars, tmp, historyVars>>

PollPut ==
  /\ Goto("put", "poll")
  /\ Len(queue) < QueueCap
  /\ queue' = Append(queue, held)
  /\ held' = 0
  /\ UNCHANGED <<parserVars, stream, rdr, counterVars, tmp, historyVars>>

\* The queue is full: midi_in_drop_count++ is a read and a write.
PollDropRead ==
  /\ Goto("put", "drop")
  /\ Len(queue) = QueueCap
  /\ tmp' = dropCount
  /\ lost' = lost + 1
  /\ held' = 0
  /\ UNCHANGED <<parserVars, stream, busVars, counterVars, parsed, polled, raced, overrun, reported>>

PollDropWrite ==
  /\ Goto("drop", "poll")
  /\ dropCount' = tmp + 1
  /\ tmp' = 0
  /\ UNCHANGED <<parserVars, stream, busVars, isrRx, pollRx, held, historyVars>>

\* asynth_midi_process_events: bytes are parsed until the queue is empty.
ParseByte ==
  /\ pc = "process"
  /\ queue # <<>>
  /\ Parse(wire[Head(queue)])
  /\ queue' = Tail(queue)
  /\ parsed' = Append(parsed, Head(queue))
  /\ UNCHANGED <<stream, rdr, counterVars, mainVars, polled, lost, raced, overrun, reported>>

\* A slip: the loop ends with a byte still queued.
ProcessLeavesOne ==
  /\ Goto("process", "take")
  /\ Len(queue) <= 1
  /\ UNCHANGED <<parserVars, stream, busVars, counterVars, held, tmp, historyVars>>

ProcessDone ==
  /\ Goto("process", "take")
  /\ queue = <<>>
  /\ UNCHANGED <<parserVars, stream, busVars, counterVars, held, tmp, historyVars>>

\* A slip: the count is reported but not cleared.
TakeClearForgotten ==
  /\ Goto("clear", "poll")
  /\ reported' = reported + tmp
  /\ tmp' = 0
  /\ UNCHANGED <<parserVars, stream, busVars, counterVars, held, parsed, polled, lost, raced,
                 overrun>>

\* asynth_midi_take_drop_count: read, then clear if it was not zero.
TakeRead ==
  /\ pc = "take"
  /\ tmp' = dropCount
  /\ pc' = IF dropCount # 0 THEN "clear" ELSE "poll"
  /\ UNCHANGED <<parserVars, stream, busVars, counterVars, held, historyVars>>

TakeClear ==
  /\ Goto("clear", "poll")
  /\ dropCount' = 0
  /\ reported' = reported + tmp
  /\ tmp' = 0
  /\ UNCHANGED <<parserVars, stream, busVars, isrRx, pollRx, held, parsed, polled, lost, raced,
                 overrun>>

MainLoop ==
  \/ PollIn \/ PollEmpty \/ PollPut \/ PollDropRead \/ PollDropWrite
  \/ ParseByte \/ ProcessDone
  \/ TakeRead \/ TakeClear

Next ==
  \/ \E b \in Bytes : WireByte(b)
  \/ Isr
  \/ MainLoop

\* The scheduler keeps running the main thread and a pending interrupt.
Spec == Init /\ [][Next]_vars /\ WF_vars(MainLoop) /\ WF_vars(Isr)

-----------------------------------------------------------------------------
\* The polled byte that is in neither the UART nor the queue.
InHand == IF pc = "put" THEN 1 ELSE 0

\* No byte the wire carried is duplicated or disappears uncounted between the
\* interrupt, the fallback and the decoder: what was received is parsed, is
\* queued, is in hand, or was refused by the full queue (midi_in_uart_cb,
\* asynth_midi_poll_fallback, asynth_midi_process_events).
EveryByteAccounted ==
  /\ Len(wire) = isrRx + pollRx + Len(rdr) + overrun
  /\ isrRx + pollRx = Len(parsed) + Len(queue) + InHand + lost

\* A drop the fallback has found and not yet counted.
Uncounted == IF pc = "drop" THEN 1 ELSE 0

\* The two writers of midi_in_drop_count undo each other's increments in one way
\* only: a byte refused by the interrupt while the main loop is between its read of
\* the count and its write, to add one or to clear it, may go unreported; every
\* other drop is printed or still to be printed, and none is twice
\* (asynth_midi_poll_fallback, asynth_midi_take_drop_count).
DropsReportedOnce ==
  /\ reported + dropCount <= lost
  /\ lost <= reported + dropCount + Uncounted + raced

\* Bytes reach the decoder once each and in wire order, except that a byte the
\* fallback has polled can be overtaken, while in hand, by bytes the interrupt
\* queues.
OnlyPolledOvertaken ==
  LET order == parsed \o queue
  IN \A i, j \in DOMAIN order :
       i < j /\ order[i] >= order[j] => order[j] \in polled /\ order[i] \notin polled

\* After any loss or reordering, decoding is right again from the next status
\* byte that gets through: a byte parsed after it, with nothing missing in
\* between, produces the message the wire carried there.
ResynchronisesAtStatus ==
  [][parsed' # parsed =>
       LET n    == Len(parsed')
           seen == [k \in 1..n |-> wire[parsed'[k]]]
       IN \A m \in 1..(n - 1) :
            /\ IsStatus(seen[m])
            /\ \A k \in m..n : parsed'[k] = parsed'[m] + k - m
            /\ ~overran' /\ ~SysexRestarted(seen)
            => out' = Decoded(SubSeq(seen, m, n))]_vars

\* Once the wire is silent every byte received is decoded, and every drop has been
\* reported but for those that the main loop's write of the count has erased: the loop
\* leaves nothing behind in the UART, in the queue or in the counter.
EverythingDrained ==
  <>[](/\ rdr = <<>> /\ queue = <<>> /\ InHand = 0 /\ dropCount = 0
       /\ reported = lost - raced)
=============================================================================

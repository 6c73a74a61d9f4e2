# Verification of the asynthOSC firmware

asynthOSC is a Zephyr application for a stage controller: it turns MIDI input,
control voltages, trigger inputs and an operator's panel into OSC messages over
UDP, and shows the state of all of them on a small display. This directory holds
TLA+ models of the application (`src/app`), of the OSC library it is linked with
(`src/lib/tinyosc`) and of the sample that exercises both over a network
(`src/samples/osc_sock_client`); the configurations that model-check them with
TLC; and proofs of their main invariants that TLAPS checks.

Run a model check with `tlc -config X.cfg M`, a proof with `tlapm M.tla`;
`PROJECT.json` lists the runs, the lines of code each definition stands for, the
hazards that the properties are aimed at, and the theorems.

## 1. The system

One thread, `main`, runs everything but three kinds of interrupt handler and the
network stack's own threads. Each turn of its loop calls the components below in
a fixed order and sleeps for a few milliseconds. Nothing blocks, nothing is
locked except the short `irq_lock` sections of `asynth_ui.c`; the components
share statics, not messages.

| Component (source) | State | Operations | Talks to |
|---|---|---|---|
| MIDI decoder (`asynth_midi.c`) | running status, data bytes and their count, SysEx flag and buffer, note-forward switch | one call per byte; the switch | OSC bridge |
| MIDI input path (`asynth_midi.c`) | `midi_in_msgq`, drop and byte counters | receive interrupt, polling fallback, draining, taking the drop count | UART, decoder, display |
| Buttons (`asynth_ui.c`) | per button: pressed, changed, time of the last accepted edge | edge interrupt, popping of events | front panel |
| Encoder push button (`asynth_ui.c`) | debounced and raw state, time of the last raw change | poll | front panel |
| Encoder shaft (`asynth_ui.c`) | half-step count, previous level of B | edge interrupt, taking of the count | front panel |
| Front panel (`main.c`) | mode, menu item, options, cue, pending edit, press tracking, step accumulator | button and encoder events, pending tick | settings, OSC transport, display |
| Settings (`main.c`) | the options and their records, `net_settings_ready`, two copies of options | loading, clamping, saving | Zephyr settings store |
| Display (`asynth_display.c`) | status line and its scroll, indicators, number area | printing, activation, two ticks | frame buffer |
| OSC bridge (`asynth_osc_bridge.c`) | callbacks | one validated send per kind of message | OSC transport |
| OSC transport (`main.c`) | socket, bound flag, remote address | sends, receive burst, renewal of the address | UDP, display |
| Trigger inputs (`main.c`) | previous state of each trigger | poll for edges | OSC transport, display |
| CV inputs (`asynth_cv.c`) | last values, last sent values, bars | sampling, redrawing of bars | ADC, OSC transport, display |
| Main loop and boot (`main.c`) | clock readings, CV schedule | the order of everything above | all |
| TinyOSC (`lib/tinyosc`) | a buffer; a message's read head; a bundle's marker and length | writing, parsing, reading argument by argument, starting again | OSC transport, sample |
| Sample client (`samples/osc_sock_client`) | socket, `connected`, semaphore, poll signals, timer, iteration count | two threads, a timer handler, a network event handler | UDP, TinyOSC |

Not part of the firmware image: the sample client, the blink and example sensor
drivers, the other samples, board files.

### What is hard in it

* **Interrupts against the loop.** The UART's interrupt and the polling fallback
  of the loop do the same work on the same queue and the same counters. The
  encoder's and buttons' interrupts share their state with the loop's polls.
* **Time stamps.** Debouncing, long presses, pending edits, blinks and scrolling
  all compare readings of the clock taken at different moments of a turn.
* **Byte streams.** Running status, real-time bytes in the middle of messages,
  aborted SysEx, lost bytes.
* **Copies.** The remote address, the hysteresis and the note-forward flag are
  copies of options; the display is drawn by inversion and by partial redraws, so
  that one missed place is visible for good.
* **Failures.** Every call into the network stack, the settings store and the
  display controller may fail, and failures are only logged or not looked at.
  Power may go at any time.
* **One flag for a turn.** A dozen calls must report to the local `ui_dirty` for the
  frame buffer to be flushed at the end of the turn.
* **Padding.** OSC pads every field to four bytes, some with at least one zero and
  some with none; each sum of the library has the chance to be off by one.
* **Threads that stop each other.** In the sample the client stops the timer that
  the sender starts, closes the socket that it sends on, and tells it to end by a
  signal that outlives the session.

### What makes each component correct

* Decoder: it emits exactly the messages that the positions of the bytes on the
  wire call for, and no index leaves its array.
* Input path: no byte disappears uncounted; order is kept but for the one known
  overtaking; decoding is right again from the next status byte; nothing is left
  behind when the wire is silent.
* Controls: what the loop sees is what the contacts did, without bounce, drift or
  staleness.
* Front panel: display, stored cue and receiver agree with the cue that the next
  turn or press acts on; one press has one effect; an edit times out.
* Settings: options are legal, their copies current, and saved values come back.
* Display: a blink lasts its duration and ends; a message can be read; what is
  drawn reaches the glass, in its turn or after a failed transfer later.
* Transport: one socket; datagrams go where the menu says; it recovers.
* CV: the receiver is within the hysteresis of the input; bars show the samples.
* TinyOSC: what is written is the encoding of OSC 1.0 and is read back; what is
  refused does not fit.
* Sample client: client and sender never wait for each other; what stops, stops.

## 2. Modules

| Module | Models | Properties it states |
|---|---|---|
| `MidiParser` | `midi_parse_and_dispatch`, one action per branch | `ParserTypeOK`, `FramedDataBounded`, `OverrunOnlyAfterCommon` |
| `MidiStream` | the decoder beside the stream it has consumed, and a reference decoder made of byte positions | `EmitsDecodedMessages`, `InterruptingStatusIsNewStatus` |
| `MidiInput` (extends `MidiStream`) | UART, interrupt, fallback, queue, drain, drop count | `EveryByteAccounted` and four more |
| `OscBridge` (extends `MidiParser`) | the schema of the bridge and the packets of `app_osc_send_midi_*` | `PacketTellsMessage` |
| `ButtonIrq`, `RotButton`, `RotaryEncoder` | one control each | one or two each |
| `UserInput` (composes the three) | the controls under one clock and one loop | repeats theirs for the runs |
| `CueSheet` | what the panel promises of the cue, without buttons, menu items, display or time | |
| `FrontPanel` | `process_button_events`, `cue_pending_tick` and all they call | `KeepsCueSheet`, the implementation of `CueSheet`, and seven more |
| `Settings` | the options, their records, boot and saving | `OptionsInForce`, `SavedOptionsReturn` |
| `LoopTurn` | the program counter that the parts of the loop share | |
| `Display` | status line and indicator in a turn | four, and `RestsUnlit` |
| `CvInput` | sampling, reports, bars | two |
| `MainLoop` (extends `Display`, `CvInput`) | the loop over the two, `ui_dirty`, the flush, the sampling schedule | `FlushedEachTurn`, `GlassRecovers` |
| `OscTransport` | socket, address, senders, receive burst, triggers | five |
| `TinyOsc` | the library's writer and readers, byte by byte | three, and `ResetToFirst` |
| `EchoClient` | the sample's threads, timer, signals and network | three |
| `*Proofs` | theorems about the module they extend | |
| `MC*` | constants and bounded next-state relations for TLC | |

A definition called a *slip* (its comment begins "A slip:") is a plausible bug
in the definition it stands before; no specification uses it. Replacing
the one by the other is how each property is shown to be able to fail.

### Correspondence of state and actions

**`MidiParser`.** The five file-scope statics are the variables `running`, `data`
(with `midi_data_count` as its length), `inSysex`, `sysexBuf` and `thru`; `out`
is the OSC message that the last byte gave to the bridge. `Parse(b)` is the
disjunction of the function's branches in the code's order. The three handler
hooks are never registered and are left out. The code has no test that keeps
`midi_data_count` within the two bytes of its array; `DataByteOverrun` is the
branch where it would leave it. What the store destroys is not followed: `overran`
stays set, and properties of the decoding are stated for `~overran`.

**`MidiInput`.** A byte is its position on the wire, so that order can be spoken
of. The main loop's reads and writes of what it shares with the interrupt are
separate steps, including the two halves of `midi_in_drop_count++` and of
`asynth_midi_take_drop_count`; the interrupt is one step, since nothing preempts
it. `LegalNextByte` says what a MIDI sender does: after a System Common status it
sends that message's data bytes and no others. The UART error sampling and the
diagnostic log only print.

**`OscBridge`.** `Accepts` is the validation of `asynth_osc_bridge.c`, `Packet` the
address and argument made by the senders. The bridge is configured before the
loop begins and never disabled. The CV and trigger functions of the bridge check
constants and clamped values only.

**Controls.** `ButtonIrq` has a hand that moves, a contact that bounces for at
most `Bounce` and rests for at least `Rest`, an interrupt per edge and a loop
that polls within `PollPeriod`. `RotButton`'s contact moves without restriction.
`RotaryEncoder`'s shaft goes through the quadrature positions one at a time and may
chatter about an edge of B; the interrupt of an edge reads the contacts before
the shaft is at the next quarter step, which at a hand's speed leaves it
milliseconds. Reads of on-chip GPIO pins are taken never to fail. In `UserInput`
the three polls are one step: what an interrupt does between two of them it could
do before or after them, because the controls share nothing.

**`FrontPanel`.** `pc` walks through the turn: left button, right button, push button,
encoder, remote message, tick, sleep. A cue that is saved and then recalled takes two
steps, so that a power cycle can come between. Time stamps are followed as ages up to
the limit the code compares them with; the duration of handlers is counted in `Sleep`.
`sinceEdit` is history: the age of the operator's last edit, which the code does not
keep apart from its own stamps, so that `PendingExpires` can be about the one and not
the other. An option is a position in its range. The cue's record is `stored`; a save
may fail or be skipped (`ready`). The program stores cues up to `CueMax` only, but a
record found at boot may hold any 16-bit number (up to `CueTop`), and nothing clamps it:
such a cue is shown, sent and stepped like any other until a step past `CueMax` wraps
it. The records of the options are in `Settings`, and the remote address that leaving
the menu renews is in `OscTransport`.

**`CueSheet`.** The abstract panel has a cue, its record, a draft, a debt (`owed`)
and a menu that is open or not. Its one rule is that whatever moves the cue stores
it, or is known to have failed to, before it is sent, and that nothing else
happens to the sheet in between. `FrontPanel` implements it under the mapping
`Sheet`: the draft is the pending edit's value, the cue is owed while `pc` is at one of
the three recalls, the receiver's cue is `recalled`; cue, record and `unsaved` are the
same in both. Buttons, detents, the two time stamps, the display, the options
and the order of a turn are steps that the sheet does not see.

**`Settings`.** One `LoadRecord` per call of `asynth_settings_set`, in any order;
a record may be missing, unreadable, out of range or off its step. `LoadFails` can
come at any point. Each step of the menu changes an option, its copy and its
record. A save either writes the record or leaves it, as the settings subsystem
promises.

**`Display`.** The tick of the indicators is given the clock reading made at the
beginning of the turn (`stale` is its age); messages, activations and the scroll
read the clock themselves. One indicator stands for four alike.

**`MainLoop`.** `Display` and `CvInput` each state the steps of their part of the turn,
with one step for the rest of it; `MainLoop` conjoins their actions with what `main`
keeps itself: `dirty` is `ui_dirty`, `nextSample` is `next_cv_sample_ms`, and `Flush` is
`cfb_framebuffer_finalize`, whose result the loop ignores. `behind` is history: it
becomes true in any step that changes the frame (`Noted` compares the frame before and
after), so a drawing that did not report itself would be seen whatever component it came
from; a message and an activation mark it in the step that draws them, as their callers
do at once. The cue number and the mode hint, which mark the frame in the same way, are
in `FrontPanel` and not composed here.

**`OscTransport`.** `Ensured` and `NotEnsured` are the outcomes of
`app_osc_ensure_socket_and_target`, which every send and the receive poll begin with;
`Handed` and `NotHanded` those of a send. `heard` is what the receiver has been told of
each trigger, which differs from `prev`, what the application has seen of it, after a
report that failed. The receive poll takes at most `Burst` datagrams a turn. `link` is
what `app_network_ready_for_tx` finds. Only the build with networking is modelled; the
other consists of stubs.

**`TinyOsc`.** The buffer is a sequence of bytes and the operators follow the code's
index arithmetic, with the loops as recursive functions of the position: `WriteText` and
`WriteBytes` are the arguments of `tosc_vwrite` with their room checks, `Parsed` is
`tosc_parseMessage`, `GetNextNumber`, `GetNextString` and `GetNextBlob` the accessors.
The reference (`Encoded`) is written from the format of OSC 1.0 instead: sequences
joined and padded. The array is a number of whole words, as all of the program's are,
but the writer may be given less of it (`bufLen`): `udp.c` gives 2047 bytes of 2048. The
padding of a last word then reaches behind the length that was given, and the room of
the next message (`RoomLeft`) can turn negative; `tosc_vwrite` would clear a negative
number of bytes, to which C gives no meaning, and the model stops there
(`WriteNextMessageLost`, phase `"lost"`). Before the first write the array holds
anything where the writer will write and zeros behind (`Found`). Nothing is written to a
bundle or read from it once a message was refused (see below), and the reader is given
what the writer has written. The bound that `tosc_vwrite` gives to `strncpy` is the room
left *less the length of the text*, so a text of more than half the room is cut: `cut`
records it and the properties exempt such messages, whose argument is then not what was
given. `spilled` says that the last write has put a byte behind the buffer: the comma of
the format is the one byte that is written before any room is looked for.

**`EchoClient`.** Each step is one kernel call of `start_client`, `process_udp_tx`,
`wait_reply` or `event_handler`, so that the four interleave wherever the scheduler can.
The kernel's objects are external: `k_sem_reset` wakes a thread that sleeps on the
semaphore, with `-EAGAIN`; `k_poll` returns as soon as a signal is raised; a timer is
one-shot. `poll` may fail or find the socket of an earlier session, which `fds` still
holds (`WaitInVain`), and `recv` may then find nothing, which is no error, or fail,
which ends the session (`ReceiveFails`). Two steps lead to `"undefined"`, where C gives
the program no meaning and the model stops: `k_thread_create` on a thread that still
runs, and the fifth entry of `fds`.

**`CvInput`.** The code computes in `float`; the model in integers of the ADC's
resolution. The two differ nowhere that matters: the pixels of a bar for all 4096 raw
values, and the hysteresis test for all pairs of raw values and all settings of the
menu, come out the same when evaluated in binary32 and in the model's integers
(established by enumeration). The bars are sets of inverted rows, toggled as the code
toggles them.

## 3. Runs

| Run | What it shows | Bounds |
|---|---|---|
| `midi_decode` | The messages emitted are those of the reference decoder; data and SysEx indices stay in their arrays; a message passes the bridge and can be read back from its packet. | Six bytes from eight, one of each class: more than the decoder remembers (a status and two data bytes) twice over. One SysEx of eleven bytes with a buffer of eight instead of 32: eight is the last position a command is looked for in, so Full Frames fit and overlong ones are cut. Three bytes from the first and last channel of every message, with data at the edges. |
| `midi_sysex_restart` | *Violation.* A second `0xF0` inside a SysEx does not begin one. | as above |
| `midi_input` | Nothing vanishes uncounted, a drop is reported once unless the loop's write of the count erases it, only a polled byte is overtaken, decoding resynchronises, everything is drained. | Queue of two (of 128), UART of one; four bytes of any kind, five of Song Positions, or six all alike: the queue fills, is overtaken and overflows. |
| `user_input` | Resting levels, clicks, the debounced push button and the step count are true to the contacts. | A tick is 10 ms: window 30 ms, bounce 20 ms, rest 30 ms, a loop that may stall for 80 ms; four moves of the hand; three turns of the encoder's contacts; the count saturates at two instead of 32. The hand stays on one control. |
| `front_panel` | Display, presses, edit timeout and receiver are right, and the panel implements `CueSheet`. | Two menu items, one fixed and one of two values, three cues and one record out of range, a detent of two half steps and deltas of up to three, delays of two and three ticks, turns of up to two: every comparison with a delay is met from both sides and exactly, every wrap happens. |
| `settings` | Options legal and their copies current, saved values return. | A bounded option, the rounded one and the switch; records in and out of range on both sides, off the step, and missing. |
| `main_loop` | What a turn draws is flushed, a failed transfer is made up for; blinks last and end; messages start still and are shown whole; the receiver stays within the hysteresis; the bars show the samples. | Turns of up to two ticks, blink of three, scroll interval of three (100 and 180 ms in the code); a text that fits, one that scrolls and one that is cut. Two channels crossed over, raw values from below zero to above the maximum, hysteresis of 5 and 20 thousandths, a sample every other tick, one failed transfer. In a behaviour either messages vary or voltages do: they draw in places of their own and meet only in `dirty` and in the length of a turn, which is one tick while voltages vary. |
| `indicator_rest` | *Violation.* An indicator activated twice within a blink rests inverted. | as above |
| `osc_transport` | One socket, right target, target held while it is edited, recovery; a trigger that keeps moving is told right again after a report of it was lost. | Two targets, one trigger, bursts of two, three datagrams, two failures of any call or of the link. |
| `tinyosc` | What is written is the encoding of OSC 1.0; what is refused is too long or of an unknown type; what is read is what was written, after resets too. | An array of 64 bytes of which 62, 63 or 64 are given, single messages and bundles of up to two, every sequence of at most two arguments of six (numbers of four and eight bytes, a bare type, texts that end before and at a word, a blob that does not), addresses likewise; by hand three types, addresses that leave no room for the comma in a bundle and in a buffer, a text that is cut, an unknown type. A bundle of two meets a full, an exactly filled and an overfull room, and one with less than a word left. |
| `osc_reset` | *Violation.* After `tosc_reset` a message of three arguments is read from the wrong place. | as above |
| `echo_client` | Client and sender never wait for each other, an exchange goes on until the client stops, a client that is done leaves nothing behind. | Four turns of the loop, three entries of `fds`, two packets under way, two datagrams waiting: three sessions and the start of a fourth that has no entry left, with lost, repeated, late and foreign datagrams and the network going at any moment. |

No run disables the deadlock check.

### What the violations say

1. `indicator_rest` (`asynth_display.c:198`): `asynth_display_act_*` inverts the
   area at every activation, one per MIDI byte, the tick inverts it once. An even
   number of activations in a blink leaves the indicator inverted at rest, and it
   then blinks with the wrong polarity until the next odd number.
2. `midi_sysex_restart` (`asynth_midi.c:227`): the comment says an unexpected status
   is treated as a new status; `0xF0` is not. `EmitsDecodedMessages` has this
   case as its one exception.
3. `osc_reset` (`tinyosc.c:168`): `tosc_reset` rounds up the length of the format
   without the comma before it. With 3, 7, 11... types the read head lands one word
   before the first argument. Neither the firmware nor the sample calls it; `ReadsBack` holds
   wherever the head has not gone astray.

Noticed and not made into runs:

* Drops that the interrupt counts between the two halves of `asynth_midi_take_drop_count`
  (`asynth_midi.c:357`), or of the fallback's own increment (`:117`), are never reported;
  `DropsReportedOnce` says that these are the only ones, and that none is reported twice.
* The cue's record is not clamped at boot as the others are (`main.c:1374`, `:1201`).
* "Using defaults" after a failed load (`main.c:1462`) keeps what was read before
  the failure, clamped.
* The OSC dictionary (`doc/OSC_dictionnary.csv:8`) lists Note On under one
  address with three arguments; the code puts channel and pitch into the address
  (`main.c:788`).
* The device port is logged as changed at once (`main.c:1391`) and used after a
  restart (`main.c:341`).
* A blink's end is compared in a way that the wrap of the clock after 49 days
  breaks (`asynth_display.c:222`).
* TinyOSC: texts of more than half the room are cut (`tinyosc.c:194`); the comma
  is written behind the room when the address fills it, though the message is then refused
  (`:191`); a refused message's error code is counted into the bundle as its
  length (`:273`); a bundle whose length is not of whole words can be filled so far that the next
  message is given a negative room (`:269`), as one of the sample's 2047 bytes could be
  (`udp.c:31`); `tosc_getNextMessage` drops the result of parsing (`:90`).
* The sample: `start_client` ignores the result of `k_sem_take` (`echo-client.c:273`), so a
  disconnect reported while it sleeps (`:199`) starts a session without a network;
  after an error or a failed start it sleeps until the *next* connect event although it is
  connected; a failed start raises the kill signal with no sender to take it, which ends the
  sender of the next session (`udp.c:388`); `nfds` is never set back, so the fifth session
  writes past `fds` (`echo-client.c:80`). `KeepsSending` speaks of sessions whose sender
  was not told to end for this reason.

### Fairness

* `MidiInput`: weak fairness of the main loop's steps and of a pending interrupt.
  The loop never blocks, and the interrupt is enabled all the time.
* `MainLoop`: weak fairness of the turn, which includes the loop's sleep and so makes
  time pass. No transfer and no sample is promised to succeed; `GlassRecovers`
  needs only that failures are bounded.
* `OscTransport`: weak fairness of the main loop. Nothing is assumed of the network:
  recovery is promised only if the link stays up, and failures are bounded. `TriggersCaughtUp`
  is promised for a trigger that keeps moving: a report is never repeated.
* `EchoClient`: weak fairness of the client's thread, of the sender's and of the timer,
  which the kernel's scheduler and clock give. The network and the peer owe nothing, and a
  `poll` that returns in vain (`WaitInVain`) is not promised either.

The other specifications state safety only and assume no fairness. The push
button's promise is a bound in time (`SteadyContactShows`), which needs none.

## 4. Theorems

For every value of the constants that satisfies the named assumptions of the
modules, TLAPS proves:

| Module | Theorems | Inductive invariant and argument |
|---|---|---|
| `MidiProofs` | *Decoder*: `ParserTypeCorrect`, `FramedDataStaysBounded`, `OverrunNeedsCommonStatus` | `ParserInv`: types and `FramedDataBounded` together. The count of held bytes is bounded by the message's length only because the branch that completes a message clears it, and the array's type only because of that bound. |
| | *Bridge*: `PacketsAlwaysTell` | `Emitted`: every message the decoder gives out has the ranges of `IsDecoded`. From those the bridge's schema holds, and the packet gives back the message: the arithmetic of the pitch bend and of the Full Frame's two fields. |
| | *Stream*: `DecoderMatchesStream` | `StreamInv`: the statics follow (`Follows`) from the status and the data bytes that the stream consumed so far leaves behind (`Consumed`); for a message of two bytes what is held is the remainder of the data since the status. One lemma for each class of byte says how the stream's status and data move with a byte more. |
| | *Path*: `BytesAlwaysAccounted`, `DropsAlwaysReportedOnce`, `OrderKeptButForPolled`, `PathKeepsDecoder` | `PathInv`: `PathOrder` (bytes parsed and queued are distinct and in order but for polled ones), `PathHand` (where the byte in each hand belongs among them) and `DropInv` (what a half-done increment or a half-done taking of the drop count may still lose, and how much of it the interrupt has counted in between). The decoder's invariant holds behind it because the queue holds bytes of the wire only. |
| | *Resynchronisation*: `ResynchronisesAlways` | `SeenInv`: `Consumed` again, for the bytes that reached the decoder in the order in which they did, and `Forgets`: from any status byte on, those bytes leave behind what the whole sequence does. |
| `UserInputProofs` | `EncoderTypeCorrect`, `EncoderFollowsShaft`, `ShaftFollowedAmongControls` | `EncoderInv`: the sum of counts equals the half steps up to the last edge *served*, and `prevB` is the level at that edge; a pending interrupt is where `FollowsShaft` itself says nothing. |
| | `RestingLevelAlwaysReported`, `ReleasesAlwaysClickOnce` | `ButtonInv`: `WindowInv` relates the debounce window to the phase of the hand (during a move it is open until the level the hand goes to is accepted, and then closed for longer than the contact bounces); `ClickInv` counts a release that is not yet a click and says when one can be overtaken. |
| | `SteadyContactAlwaysShows`, `PushMovesOncePerWindow` | `PushInv`: after a poll that follows the contact's last move the raw level is the contact's, and the window has run for as long, but for one period. |
| `FrontPanelProofs` | `PanelTypeCorrect`, `MenuNeverHasPending`, `DisplayAlwaysCurrent`, `PressAlwaysActsOnce`, `PendingAlwaysExpires`, `ReceiverAlwaysHasCue`, `RecallsSavedCue` | `PanelInv`: the properties themselves, and two facts none of them says: a press still followed has had no effect yet (`PressInv`), and a cue not marked unsaved is the stored one (`SavedInv`). `StampInv` ties the age of the operator's last edit to the stamp the code compares, which no blink renews. `MenuHasNoPending` carries `PendingExpires`, whose timer does not run in the menu. |
| | `PanelKeepsCueSheet` | None of its own: `PanelInv` gives the types, without which a pending value could not be told from no draft. Initial states map to initial states; each action maps to the sheet's action it is a case of, by a lemma each, and all the others leave the sheet alone. |
| `SettingsProofs` | `OptionsStayInForce`, `SavedOptionsAlwaysReturn` | `SettingsInv`: the properties, with `Loaded` (during boot the records read so far are in the options) and `SavedIsStored` (what is known to be saved is legal and still in its record). The lemmas before it are the arithmetic of rounding, clamping and wrapping: a legal value stays legal, one off its step never reaches zero. |
| `OscTransportProofs` | `OneSocketAlways`, `SendsReachTarget`, `TargetHeld` | `TransportInv`: the address equals the option whenever it is ready and the panel is in normal mode, with `OneSocket`. One lemma says what each step may touch, so that most steps are dealt with together. |
| `MainLoopProofs` | `EachTurnFlushed`, `ReceiverStaysWithinHysteresis`, `BarsAlwaysShowSamples` | `FlushInv`: what is not on the glass is marked in `ui_dirty`, or a transfer has failed. `CvInv`: a bar is as high as `cv_pixels` says at *every* step, and `cv_pixels` fits the sample at all but one; the receiver's value is the one the code compares with unless a report was refused. `PixelsInRange` bounds the rounding, `RedrawnFills` is the inversion of the two areas. |
| | `BlinkAlwaysEnds`, `BlinkAlwaysLasts`, `MessageAlwaysStartsStill` | `TimeInv`: between its tick and the next reading of the clock a blink that goes on is no older than its duration and the age of the last reading; a message that has not moved is as old as the time that has gone from its interval. |
| `TinyOscProofs` | `WritesAlwaysEncoding`, `RefusalsAlwaysJustified` | `WriteInv`: the bytes before the write head are the encoding of what was accepted, padding included (`Holds`, carried through header, text, blob and argument by a lemma each), and a refusal has its reason; the array is clear behind the length given (`Clear`), and what is accepted ends within that length's last word (`Space`). The number of arguments and their lengths are unbounded, and the length given is any. |
| | `ReadsAlwaysBack` | `ReadInv`: `WriteInv`; each element of the bundle stands where the ones before it end, behind its length, which is right even where a text was cut (`Laid`); the reader is between two elements (`Between`); and in a message it has its record (`Telling`) and its head behind the argument answered last, unless it is lost (`Pointing`). The searches for the first zero and for the comma are shown to end where the encoding puts them (`Searches`), and each call is a lemma. |
| `EchoClientProofs` | `ClientAndSenderNeverBothWait` | `NeverBothWait` is inductive as it stands. |

The proofs have one step for each action. `TypeOK` in `FrontPanel` includes the
bound on the step accumulator, which is what keeps the code's `int8_t` sum from
overflowing. `ParserTypeCorrect`, `EncoderTypeCorrect`, `OverrunNeedsCommonStatus`,
`MenuNeverHasPending` and `RecallsSavedCue` state what no run checks any longer:
the first two are proved outright, the others are parts of what the runs check.
`PathKeepsDecoder` states a property of the decoder under the input path's
specification, which has actions the decoder's lacks.

Recursive functions on lengths and positions (`Bundles`, `Encodings`, the writer's loop, the
positions of a stream's status) are unfolded, and invariants carried along them,
by the well-foundedness of `<` on the naturals: of the numbers that break
a claim there would be a least one (`LeastOne`), and it cannot be zero nor
follow one that keeps it (`UpTo`, `Recursion`). The library's induction
theorems take an operator as a parameter and are not used.

### Assumptions

Constants that are sizes and durations are natural numbers, positive where the code
divides by them or cannot work without. Beyond that:

* `BytesAssumption`: the alphabet of MIDI is a set of bytes.
* `HandAssumption`: a contact bounces for less than the debounce window, and a hand
  leaves a button for at least that window. It is what `button_irq_update` relies on; with
  a longer bounce a resting level can be missed.
* `SettingsAssumption`: bounds and default of an option are multiples of its step, and
  its least value is at least a step unless the step is one. In `main.c` the network options
  and the switch step by one, the CV period goes from 10 to 200 and the hysteresis from
  5 to 50, both by 5. Without the last part a value off its step could be led to zero.
* `BufferAssumption`, `MessagesAssumption`: the array is a multiple of four bytes and no longer than
  an `int` can say, as the program's arrays of 64, 128, 256 and 2048 bytes are; the length given of
  it is any that holds at least a bundle's head; letters are not zero; an
  argument's value has the length that its type says.
* `CvAssumption`, `DisplayAssumption`, `LoopAssumption`, `PanelAssumption`,
  `TransportAssumption`, `QueueAssumption`, `EncoderAssumption`, `TimingAssumption`,
  `EchoAssumption`: types and signs, that a message of blanks fits the line, and that the
  menu's defaults are in range.

### Only model-checked

* Liveness, which is beyond the prover's reach: `EverythingDrained`, `WholeMessageShown`,
  `GlassRecovers`, `RecoversWithNetwork`, `TriggersCaughtUp`, `KeepsSending` and `EndsQuietly`.
* The three violations.

## 5. Not modelled

* The boot sequence: each module starts where it leaves its component; the fatal
  stops (`app_fatal_stop`) end the program and have no later behaviour.
* Of TinyOSC: the reading of bytes it has not written (its parser searches for the
  end of the address and for the comma without a limit), the accessors of single
  fields, and printing.
* Of the sample: IPv6, TLS, TCP, user mode and the shell command, which its
  configuration does not build.
* The UART error counters, the diagnostic log, and all other printing.
* The drawing of fonts and of the static screen.
* The interrupt-driven copy of the push button's state, which nothing reads.
* The wrap of the millisecond clock.
* The build without networking, the other samples, and the drivers that the firmware
  does not link.

## 6. Plan

Done: the core (MIDI, controls, panel, settings, display, transport, CV), its
composition in `MainLoop`, the library, the sample client, the abstract specification of
the panel with its refinement, and eight proof modules, which prove every safety
property of the runs.

Next, in order:

1. `MidiInput`: an abstract lossy pipe that it implements, with `PathInv` as the
   invariant under the refinement.
2. The boot sequence with its fatal stops, and the blink driver's timer, if they are worth a
   run.

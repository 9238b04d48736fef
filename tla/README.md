# sonospoof in TLA+

A verification development for `sudarkoff/sonospoof`, a daemon that shows each
Sonos group as an AirPlay target: it receives RAOP audio over UDP, puts it in
order, decodes it into a ring and streams the ring as an endless WAV to the
speaker, which it drives over UPnP. The modules are translated from the Go code
under `src/`; TLC checks them on small instances, and TLAPS proves theorems about
every component, in the `...Proofs` modules, for every size.

## The system

```
 AirPlay sender                                                 Sonos speaker
   | RTSP (TCP)      +----------- raop.Receiver -----------+         ^  ^
   +---------------->| dec, owner, udp, running  [mu]      |  SOAP   |  |
   |                 +--|-------------------|--------------+ Start/  |  |
   | audio, resends     v                   v                Stop    |  |
   +--UDP--> two readers --> AudioDecoder [mu]     bridge.Bridge ----+  |
                             resequencer, AES, ALAC   nonce, playing    |
                                   |                                    |
                                   v  Write           Read, WaitFor     | HTTP
                              audio.Ring [mu, wake] -----> StreamPCM ---+
```

| component | code | state it keeps | operations | what makes it correct |
|---|---|---|---|---|
| resequencer | `internal/raop/reorder.go` | `next`, the map `pending`, the last request, counters | `push`, `reset`, `OnMissing` | packets leave in stream order, once, across the 16-bit wrap; every missing one is counted and asked for |
| ring | `internal/audio/ring.go` | indices, fill level, counters, a one-token channel | `Write`, `Read`, `WaitFor`, `Len`, `Reset`, `Stats` | a drop-oldest queue; nobody sleeps on audio that is there |
| RTSP session | `internal/raop/rtsp.go`, `sdp.go` | decoder, owner, sockets, `running` | ANNOUNCE, SETUP, RECORD, FLUSH, SET_PARAMETER, TEARDOWN, disconnect, `Close` | only a usable announcement makes a session; one start per session, one owner, no socket left behind |
| bridge | `internal/bridge/bridge.go`, `internal/sonos/client.go` | `nonce`, `playing`; the speaker's transport state and volume | `Start`, `Stop`, `SetVolume`, the SOAP calls | a fresh URL per session; the speaker does what the session says, as loud as asked |
| audio path | `rtp.go`, `resend.go`, `readPackets` | decoder lock, batch being decoded | `Packet`, `OnMissing`, `Stats` | both ports feed one decoder in order; no deadlock with the receiver's lock |
| pacing | `internal/audio/wav.go` | a deadline per stream | `StreamPCM` | real-time rate whatever arrives, no burst of audio, few pads |
| zones, startup | `internal/sonos/zones.go`, `client.go`, `cmd/sonospoof/main.go` | players, groups, targets | `Discover`, `DescribeAll`, `Topology`, `Zones`, `main` | one target per group, at its coordinator |
| ALAC decoder | `internal/alac` | predictor, mix buffers and coefficients, which outlive a frame | `Decode` | what was encoded comes out, bit for bit, whatever came before; a damaged frame is never taken for audio |
| RTSP text, challenge, keys, mDNS records | `rtsp.go`, `challenge.go`, `key.go`, `aeskey.go`, `advertise.go` | none that lasts | parsing, cryptography | not modelled |

Calls cross goroutines everywhere: one goroutine per RTSP connection, one per
`Bridge.Start`, two UDP readers per SETUP, one per HTTP stream, and `main`'s
shutdown. They share the receiver, the bridge, the decoder and the ring, each
under its own mutex, and most operations have several critical sections. That,
the network and the speaker's own failures are the hard part; `PROJECT.json`
lists the hazards line by line.

## Modules

| module | what it models |
|---|---|
| `Resequencer` | `reorder.go` call by call: sequence numbers modulo `2 * Half`, the window, requests, counters. A packet is its absolute position in the stream, its wire number is derived. |
| `PlayoutOrder` | What the resequencer promises: positions in order, each once, the rest counted. |
| `Ring` | `ring.go` with the lock, one sample per step, the wake token, timers that may fire whenever they run. |
| `DropOldestQueue` | What the ring promises: a bounded queue that drops its oldest element and counts it. |
| `Session` | The receiver's and the bridge's fields, one step per critical section or SOAP call; connections, shutdown and `Start` goroutines interleave. With the volume, which goes from `setParameter` over `VolumeToSonos` to the speaker. |
| `Sdp` | `ParseSDP`: the body of an ANNOUNCE as its lines, a line as its key and its value; the widths of `Config`. |
| `AlacBits` | The bit reader and the loads of `ag.go`, with the bits a load loses to its shift. |
| `AlacGolomb` | The adaptive Golomb code: one residual, and the run of zeros after it, is `DynStep`. |
| `AlacPredictor` | `unpcBlock` with its adapting coefficients, and `unmix16`. |
| `AlacDecoder` | `Decode` over the frames of a stream: elements, headers, the loop of `dynDecomp`, predictor, output, errors, and the scratch the frames share. |
| `AlacEncoder` | External: the encoder the decoder undoes, from the format (`BitsOf` to `Frame`), and what a sender may send with it (`Fits`, `Proper`, `Sends`). |
| `PositionQueue` | The resequencer as `AudioPath` has it: `push` as one operator on a queue of absolute positions. |
| `AudioPath` | Readers, decoder lock, a `PositionQueue` per decoder, ring and resends, against the requests that swap the decoder, close sockets and flush. |
| `Pacing` | `StreamPCM` against a clock, a sender that is early or late, a speaker whose writes block, and resets. |
| `Zones` | From the search for players to the targets in `main`, with groups that may change at any time; the topology is read once, so a change after that has no effect. |
| `ResequencerProofs`, `RingProofs`, `PacingProofs`, `SessionProofs`, `AudioPathProofs`, `ZonesProofs`, `AlacProofs` | The theorems about each component, with its inductive invariant `IInv`. |
| `ProofLibrary` | Lemmas those proofs share: induction up to a bound, what a function defined by recursion up to a bound is, powers of two and division by them, sequences put together. |
| `MCResequencer`, `MCRing`, `MCSession`, `MCAudioPath`, `MCPacing`, `MCZones`, `MCAlac` | Instances for TLC. |

How they fit: `AudioPath` is the composition of the resequencer, the decoder's
lock, the ring and the session's requests. It has the resequencer on stream
positions (`PositionQueue`), where `Resequencer` is shown to do the same on every call
(`WorksOnPositions`) and to implement `PlayoutOrder`, and the ring as a queue, which
is what `Ring` is shown to provide (it implements `DropOldestQueue`).
`Pacing` uses the ring as its depth. Requests that race each other are left to
`Session`, which uses `Sdp` for what an ANNOUNCE accepts. In `AudioPath` a packet
decodes or does not; which, and to what, is `AlacDecoder`, over
`AlacPredictor`, `AlacGolomb` and `AlacBits`. `MCAlac` composes it with
`AlacEncoder`, which shares only the arithmetic of the tables (`Lead`, `Lg3a`,
`Least`, the constants, `Signed`) with it: mean, code words, predictor and mixing
are written a second time, the predictor in the form of the other direction.

How actions correspond to code: an action's name is the function's or the
request's (`push`, `reset`, `announce`, `FLUSH`, `teardown...`, `StartNonce`,
`Fill`, `Fold`); an operation with several critical sections is an action per
section, with `pc`, `ctl`, `at` or `phase` for the place in between. The `map`
of `PROJECT.json` gives the lines. Definitions named `X_Fault` are seeded
faults: a plausible bug in `X`, with which the property of its mutant must
fail. They are used by nothing else.

What is abstracted: audio is numbers; a packet is its position and its stream;
addresses, names and texts are model values; AES, and in `AudioPath` ALAC, succeed
or fail; the priming wait of `Bridge.Start` is part of the delay before `StartURI`, since
its outcome is only logged; `Bridge.Start`'s ring wait is what `Ring` calls a
`WaitFor`. In `Sdp` a key and an IV are usable or not. Volumes are hundredths of a
dB, and the code's `math.Round` is rounding to the nearest with halves up, which
is the same for what is not negative. In `AlacDecoder` the sums that are `int32`
in the code are integers: no instance takes one past 2^31 (TLC stops at
a larger number). The low-order bits an
element with `bytesShifted` carries are stepped over, as the code reads them into
a buffer that nothing reads. The output is `NumChannels = 2` wide, as `decodeOne`
assumes. In `Zones` the order of addresses, which the code sorts, is any.

## Runs

All bounds are constants of the modules, named in the guards they appear in.

| run | instance | shows |
|---|---|---|
| `reseq_order` | 10 numbers, window 2, thirteen positions, more than a lap, up to five of them out of order and one late, one `reset`, callback set at any time | types; `PendingInWindow`; `InOrder`; `LostAccounting`; requests in stream order; the first hole asked for at once unless the mark of the last request is a lap or a stream old; nothing held is discarded; holes given up only when the window is full; `PlayoutOrder` implemented |
| `ring` | capacity 2, two writers, one thread that reads or waits, lengths 1 and 2, four samples written before and after one reset, fairness | `Contents`, `NoLostWakeup`; `DropOldestQueue` implemented; `PromptWake` under fairness |
| `session` | two connections and a shutdown, SOAP and bind failures, one ANNOUNCE, one SETUP, two Starts | one start per run, a stop for each playback at most, fresh URLs (`newNonce` may fail too) |
| `session_one` | one connection, no faults, two ANNOUNCEs, each with any body of up to three of ten kinds of line or a real sender's, two SETUPs, two Starts, one volume of five, fairness | no leaked socket; the speaker follows the session unless a teardown overtook a Start; a session that lasts ends up playing; a body makes a session exactly when it has all it takes and nothing wrong, and otherwise leaves the session that an earlier one made; the speaker's volume is the one asked for |
| `path` | one stream of five packets, one SETUP with or without a control port, both its readers, window 1, ring of two packets, decode errors, FLUSH and TEARDOWN at any time | ring in stream order, and every position written, an error, or counted |
| `path_takeover` | two streams of a packet each, the second announced at any time, two SETUPs at any time, each with or without a control port and with the reader of its audio port, fairness | the decoder a SETUP finds has its callback before packets come from that SETUP's sockets; every request answered; readers end |
| `pacing` | chunk 2, reserve 5, sender 3 early to 2 late, writes blocked for 8, one reset, 16 ticks | rate kept; no burst of audio, and of silence only what blocked writes held up; no pad within the reserve |
| `zones` | four players, two households, a shared room name, a player with no id, `-hosts` with and without repetitions, one regroup | one target per player and per group; a search never panics |
| `alac` | frames of 30 samples; a first frame that fills the buffers or breaks off in the second channel; then every frame of the families below | what was encoded is decoded, sample for sample; what was cut or does not fit is never passed on as audio; no residual is written past its element, and only an element with no samples or too many channels ends the program |
| `reseq_gap`, `session_stop`, `path_flush` | as small as the case allows | three disagreements between code and comment, below |

Why the bounds are enough: the code's sizes (window 64 of 32768 numbers, ring of
seconds) matter only through their order (window < half the space, reserve <
capacity), which the instances keep, and each instance is large enough for the
case the property is about: a hole of two given up across the wrap, a ring that
wraps and overflows, a `Start` still running when the next session records, a
second sender's decoder in the hand of the first one's reader, a second SETUP
between or behind two ANNOUNCEs, a refused ANNOUNCE after a good one, a stall of three
chunks, a group whose coordinator does not answer. The thirteen positions on ten
numbers let a mark be met again a lap later. Every property of a passing
run fails when a bug of the kind it guards against is seeded (`mutants`).

The frames of `alac`: every stereo signal of four samples from the largest,
smallest, 0 and 1, with the right channel silent, equal or opposite, sent as
partial frames; full frames of up to three samples of -1, 0 and 1 and then
silence, whose run is long enough for the escape of its code; a slope, a square
wave at full scale, and something like music. Each is encoded as a pair and as two
single channels, with and without mixing, with zero, one and two coefficients
(for quiet audio also at the ends of their 16 bits), in both predictor modes, and
escaped. Three of the signals are cut at every byte, one of them in partial frames,
which then may declare no samples; some frames hold or declare more samples than
the stream is configured for, one declares the reserved `bytesShifted`, and one has
four channels. The
suffix reaches its limit `KB`, the mean its clamp, and both kinds of code word
their escape. Not reached are a run of 65535, which no frame of the stream holds,
and a `denShift` of 0, which the encoder does not send. `PB`, `MB` and `KB` are the
ones AirPlay senders announce. The theorems cover any signal and all of these.

`CHECK_DEADLOCK FALSE` wherever the bounds or the environment may really end a
behaviour: all announcements used, the clock at its bound, every connection
closed, the program failed.

Fairness, where a run has it: a goroutine that can run does run (the Go
scheduler), every SOAP call ends (its client has a timeout), and `sync.Mutex`
does not starve a waiting goroutine (its starvation mode), hence strong
fairness on steps that need a lock in `AudioPath`. No sender, no packet and no
timer is assumed to come.

### What the properties turned up

- `reseq_gap`: `requestMissing` compares its mark with `next` only, so a second
  hole behind an open one is not asked for when it appears (`reorder.go:117`
  against `reorder.go:39`).
- `session_stop`: a TEARDOWN during `Bridge.Start` finds `playing` false and
  sends no Stop; the Start goes on and leaves the speaker playing
  (`bridge.go:136` against `rtsp.go:22`).
- `path_flush`: FLUSH resets the ring, not the resequencer; what it holds is
  played after the flush (`rtsp.go:245` against `rtsp.go:243`).

Three properties say less than a comment suggests, because the code does less:

- `CallbackFirst`. The readers of a SETUP run from `bindUDP` on (`rtsp.go:368`),
  before the sockets are published and before the callback is installed; what keeps
  packets away until then is that nobody was told the ports. And the callback is
  installed only if the sender gave a `control_port` and a decoder is there
  (`rtsp.go:320-335`). After a SETUP without one, a SETUP before the ANNOUNCE, or an
  ANNOUNCE after the SETUP, the decoder works without a callback, against
  `rtp.go:62`: what it misses is never asked for. All of these happen in the
  runs, so the property speaks of the decoder that a SETUP with a
  control port finds.
- `NoBurst`. The main loop starts over from now after a write that came back late, so as
  not "to make the time up in a burst the speaker did not ask for"
  (`wav.go:157`). The startup fill has no such check (`wav.go:125-133`): the silence
  that blocked writes held up leaves at once, up to the whole fill, with the ring
  still below the reserve. `burst` counts chunks of the ring's audio, `hush` the
  silence of the fill, and the property bounds both.
- `TypeOK` of `AlacDecoder`. Two kinds of frame make the decoder index out of range,
  which ends the program, as nothing recovers (`Panic`). With no samples declared and
  no coefficients, `unpcBlock` slices from 1 to 0 (`predictor.go:29`); a partial frame
  that is cut within its length reads as such. And nothing compares
  `channelIndex + pairs` with the channels of the output
  (`decoder.go:84-98`): elements beyond them overwrite the samples beside them or
  leave the output (`decoder.go:210-216`). The property says that no other frame
  does, `Lossless` that no whole frame of an encoder does.

Smaller disagreements are hazards with a note in `PROJECT.json`: two waiters
that share a wake token, padding counted in the next session, the check and act
of `closeIfOwner`, a failed `Start` or SETUP, a packet of the old sender that
opens the new stream, a stale topology. Two more are worth a sentence. Members
of a group whose coordinator was not described become targets of their own
(`zones.go:57` and `:84`; the comment at `zones.go:53` suggests they should not).
And the mark of the last request carries no lap and no stream: a hole that opens
at the number the last request was for, 65536 packets earlier, is not asked
for, which is why `HeadGapAsked` has `StaleMark` in it.

`NoPadWithinReserve` needs the sender's lead as well as its delay within the
reserve. With a delay of up to the reserve alone it fails: audio supplied ahead
of time ends the startup fill early, and the later delay finds a ring that is
short by the lead. The comments at `wav.go:69` and `reorder.go:28` compare the
reserve with the reorder window only. The `burst` of `NoBurst` is of chunks sent with no
audio in excess of the reserve; surplus audio does leave in a burst, as soon as
it is there, and is meant to. Its bound is two chunks and one for each reset: a
chunk that is late is followed by one at most, and a reset may empty the ring under a
chunk about to leave ahead of its time.

## Proofs

Every safety property of a passing run is a theorem, with no bound on the
stream, the threads, the packets or the sizes: the constants are arbitrary but for
the named assumptions of the modules. What those say is what the code's constants
and its environment give: a window below half the number space, a chunk and a
reserve that fit in the ring, a ring of at least a sample, threads that are not
both writer and client, volumes that are numbers, lines of a body with values of
their kind, a stream of two channels. The theorems' own hypotheses are listed
below. None of the invariants is inductive by itself; each module has an
`IInv` that is, and says why.

| module | theorems | what the inductive invariant adds |
|---|---|---|
| `ResequencerProofs` | `TypeCorrect`, `WindowKept`, `PlayedInOrder`, `LostExact`, `HeldIsNeverDiscarded`, `GapGivenUpWhenFull`, `RequestsAreOrdered`, `HeadGapsAreAsked`, `ImplementsPlayout`, `WorksOnPositions` | `next` is the wire number of the position that is due; `pending` files each packet under its own number, ahead of it and within half a lap; `out` rises and stays below it; `Lost` is what is missing in between. For the requests (`RequestInv`): the mark is the number of the last request of the stream, and while that is for the hole at hand something is held behind it. |
| `RingProofs` | `TypeCorrect`, `ContentsInOrder`, `WakeupsNotLost`, `ImplementsQueue` | whoever is inside `Write` or `take` holds the lock, and `n` samples from `r` on are the latest ones in order. For wakeups: a client that found too little is followed by a writer that has still to signal, or by a token. |
| `PacingProofs` | `TypeCorrect`, `KeepsRate`, `BoundedBurst`, `ReserveSuffices` | how the deadline relates to what was sent at each place of the loop, how many chunks (`BurstInv`) and how much silence (`HushInv`) may still leave at this instant, and how much audio is in the ring when a chunk falls due if the sender is as late as it can be (`DepthInv`). |
| `SessionProofs` | `TypeCorrect`, `SessionsStartOnce`, `StopsAreOwed`, `FreshUrls`, `SocketsNotLeaked`, `SpeakerIsFollowed`, `VolumeIsFollowed`, `OnlyCompleteAnnounce`, `AcceptsComplete` | what is about to happen counts as done: a launch that is to come has a run of its own, a Stop on its way has used up a play, a URL about to be sent is new. With one connection: which of `playing` and the speaker's state each place of a teardown or a Start goes with (`SpeakerInv`). |
| `AudioPathProofs` | `TypeCorrect`, `RingInOrder`, `EveryPacketAccounted`, `CallbackInstalled` | only the reader that holds a decoder's lock has packets `push` handed over; every position passed is written, an error, lost, or still in its hand; what it has in hand comes after what is in the ring and before what is due. For the callback: what a SETUP found it keeps until it is done, no packet arrives from sockets before their SETUP is answered (`StartInv`), and by then the callback is there (`CallbackInv`, `ViaInv`). |
| `ZonesProofs` | `TypeCorrect`, `PlayersHaveOneTarget`, `GroupsHaveOneTarget`, `NoPanicAfterSearch` | groups are disjoint, each with its coordinator; a search knows no address twice; the zones that were advertised and those that remain are the zones wanted, and after a search none is both. |
| `AlacProofs` | `TypeCorrect`, `EncodedLossless`, `EncodedDamageReported`, `EncodersStream`, `MixUndone`, `PredictorUndone`, `DifferencesUndone`, `SymbolReads`, `ChannelUndone` | for any frame: the element being decoded has at most two channels of at most 17 bits, each with its description; a panic comes only from where `NoSample` or `PastOutput` lead. For an encoder's frame (`SentInv`): for every way `w` it may have been encoded, the decoder is where that encoder was (`FrameInv`) - at the same bit, with the header and descriptions written there, with the residuals, mean and mode the coder had, and with the samples given back so far - or past the end of what arrived. |

Hypotheses of theorems. `WakeupsNotLost` has one client (`OneClient`): two that wait
share one token, which is a listed hazard. `SocketsNotLeaked` has one connection and
binds that succeed, `VolumeIsFollowed` and `SpeakerIsFollowed` one connection and
SOAP calls that are answered, and the latter nobody else closing the receiver: two
connections in SETUP at once do leak, and a failed call leaves the speaker as it
was. These are the settings of the runs `ring` and `session_one`; the other theorems of
those modules have no hypothesis. `EncodedLossless` and `EncodedDamageReported` speak of the
frames an encoder makes and the network may cut (`Encoded`), among whatever other
frames, or of a stream of nothing else (`EncodersStream`). `AlacDecoder` leaves open what
its frames' `bits` have to do with their `audio`, so without that there is nothing to
prove. TLC checks on the run `alac` (`SentAreProper`) that what is sent there
meets it, parameter by parameter. Two frames there do not. One is `Undeclared`, which holds more samples
than the stream is configured for and does not say so. The decoder takes it for a
full frame, and what follows for a tag; that this particular one is reported is
a property of its bits, which only TLC can tell. Nor does `FourChannels`, which no
encoder of two channels makes.

How the arguments go:

- Resequencer. Two positions within half a lap have the same number only if they are
  equal, so `ahead` on numbers is order on positions; a run of held packets is a
  run of consecutive positions; the nearest held number is the smallest held
  position, and `Sub` the distance to it. `Deliver` then preserves `IInv` with
  and without giving up a hole. A `push` that hands nothing over is a stutter of
  `PlayoutOrder`, any other is its `Open` or `Play`. The environment's
  `Deliverable` keeps arrivals within half a lap of the packet that is due,
  without which 16 bits could not tell them apart.
- Resequencer on positions. `QueueOf` forgets the numbers: what is held is the set of
  positions, and the mark is the first position of the last request. A run of
  numbers ends where the run of positions does (`RunEnds`), the nearest number is the
  minimum, and so `Deliver` is `Pushed` (`DeliverIs`, `AcceptIs`). The one difference
  is the request that a mark from another lap or stream silences (`StaleMark`), which
  the statement makes explicit. A mark goes stale only after a lap of numbers or a
  `reset`; `AudioPath` has neither in its runs and no `reset` at all, as every stream has a
  decoder of its own. The queue of `QueueOf` has one stream and counts no
  errors, which the decoder does, not `push`. `Deliverable` is a hypothesis here too:
  `AudioPath` says nothing of a packet that is half a lap late.
- Ring. An index has wrapped at most once (`Wrapped`), so `Write` at a full ring moves
  both indices together. Each step of a call is a stutter or one `Put`, `Get`
  or `Clear` of `DropOldestQueue`.
- Session. Most steps leave most of the invariant alone; what they leave alone is
  said once, by frames (`RunFrame` and its like), and each invariant is then
  shown step by step. `AcceptsComplete` is an induction along the lines of a body.
- Audio path. `PushedIs` says in one lemma what `push` does to a queue. Its run,
  which `Pushed` gives as a concatenation of stretches, is shown to be the held
  positions in order.
- ALAC, any frame. Bits are read with `div` and `%` of powers of two, whose properties
  come from the number of subsets of a set, so that nothing is assumed of `^`;
  the word `Window` loads is 32 bits, a prefix fits in it, a symbol's mean and
  its run are natural numbers. `UnpcBlock` then stays within its block whatever
  the residuals are.
- ALAC, predictor. The decoder's rounds and the encoder's samples are followed in
  lock-step: as long as the block holds the encoder's samples and the coefficients
  agree, the prediction is the same (`ResidualIs`), the residual put back on
  top of it gives the sample (`PutBack`: `Signed` of a sum forgets the wrap), and the
  same residual moves the coefficients the same way (`AdjustedIs`), though the two
  sides store coefficients and differences in different forms and count in
  different directions. The sums are integers here as in the model.
- ALAC, entropy code. A field read at the place where it was written is the number
  that was written, and a field that ends past the end leaves the reader there. A
  code word, prefix, zero and suffix, fits the 25 bits a load is good for, and its
  first bits tell its length, so the bits behind it do not matter (`SymbolReads`): the
  residual, the run of zeros behind it, the mean and the mode come out as the
  encoder had them. Runs up to 65534 and every mean and residual are covered, the
  escapes of both kinds of code word too.
- ALAC, frame. What is written is described by the places where its parts begin
  (`FrameParts`): elements, in each header, mixing, descriptions and channels, and at the
  end the END tag and at most seven bits of padding. The decoder's phases are
  followed along these places. Where the bits end before a part does, the reader is
  past the end from there on (`Lost`), which each phase passes on to the next
  until `exhausted` or the next tag reports it; a whole byte that is missing always takes
  some of the END tag with it, and the zeros read in its stead are no END tag.

Loops. The models write recursion as recursive functions, and tlapm knows nothing of
what such a function is. `ProofLibrary` proves it, from well-founded induction
on the naturals with the induction's hypothesis given as a set and the loop's body as a
function (the library's own theorems take an operator, which the provers here cannot
instantiate). `RunIs`, `DownRunIs`, and the existence they rest on, are then cited for the
lines of `Sdp`, the bits of a field, and the loops of `unpcBlock`; `UpTo` and
`DownFrom` are the inductions along them.

The proofs changed the models where they could not be reasoned about, or said
something no code says. The bounds of `NoBurst` came out of them. `Zones` counts
how often a described player has a zone of its own (`Copies`) instead of folding over
a bag; `AudioPath` has the drained run as a `Stretch` of numbers; the predictor has
`Turn`, `Sample` and `Round` for the bodies of its loops. `Signed` was undefined at a
width of no bits, which a mono element that declares two shifted bytes has. `AlacDecoder`'s type invariant held only for frames its environment had
made, and is now true of any bits; what depends on whole frames went into `Lossless`.

Only model-checked:

- Liveness: `PromptWake`, `RecordedSessionPlays`, `RequestsAnswered`, `ReadersEnd`.
  The prover handles neither fairness nor ENABLED.
- That the loops of `reorder.go` compute `IsRun` and `IsNearest`, which state
  their results, is read off the code.
- The three properties that fail.

## Not modelled

- The texts: splitting RTSP requests and SDP bodies into lines, headers and
  fields. What a request does once it is split is in `Session` and `Sdp`.
- The Apple-Challenge, RSA, AES and the unwrapping of the session key: one
  computation on one message each, without state, and of no use to a checker
  unless the ciphers themselves are modelled.
- The bytes of a packet and of the resend request.
- mDNS beyond the refusal of a target with no id: a library and constants; the
  WAV header and the dump file.
- A volume that is not a number, and several volumes in one SET_PARAMETER.
- In ALAC: `int32` sums past 2^31, streams of one channel, and `peek`, which
  nothing calls.
- Two streams on one ring in `Pacing`: each would take the other's audio, so that
  no property of a single stream holds of either; what the ring itself promises
  to several threads is in `Ring`.
- Writes of the RTSP responses: a failing one is a `disconnect`.

## Plan

Modelled, in this order: resequencer, ring, session, audio path, pacing, zones,
the ALAC decoder, announcements and volume. Proved: of every component its type
correctness and the safety properties its runs check, that the resequencer
and the ring implement their abstract specifications, and that the resequencer does on
numbers what the audio path has it do on positions.

What is left: the sums of the ALAC decoder in 32 bits, with what the format says of
the size of coefficients and samples.

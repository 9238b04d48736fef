------------------------------ MODULE AudioPath -----------------------------
(***************************************************************************)
(* The way of an audio packet through internal/raop: the reader goroutines *)
(* of the UDP sockets (rtsp.go, readPackets), the AudioDecoder they share  *)
(* (rtp.go) with its resequencer (reorder.go), the resend requests         *)
(* (resend.go), and the ring; against the RTSP requests that swap the      *)
(* decoder, close the sockets and reset the ring meanwhile.                *)
(*                                                                         *)
(* Streams are numbered in the order they are announced, and with them     *)
(* their decoders; the sockets in the order of the SETUPs that bind them;  *)
(* the packets of a stream from 0.  Senders announce, set up and record in *)
(* any order, as the code lets them, and send any stream they recorded to  *)
(* any socket they were answered.  The wrap of the sequence numbers is     *)
(* left to Resequencer, the inside of the ring to Ring, RTSP connections   *)
(* that race each other, and binds that fail, to Session: here requests    *)
(* come one at a time, each step of them interleaved with the readers.     *)
(***************************************************************************)
EXTENDS PositionQueue, SequencesExt

CONSTANTS Lengths,      \* of each stream, how many packets it has
          Room,         \* how many packets the ring holds
          Takeover,     \* a sender may announce while another one streams
          DecodeErrors, \* a packet may be undecodable
          MaxSetups,    \* bound on the SETUPs
          Ports,        \* the ports of a SETUP that are read: "audio", "control"
          NoReader      \* nobody holds AudioDecoder.mu

Streams == DOMAIN Lengths
Setups  == 1 .. MaxSetups
Readers == [of : Setups, port : Ports]

ASSUME LengthsAssumption == Lengths \in Seq(Nat \ {0})
ASSUME SizesAssumption == Window \in Nat \ {0} /\ Room \in Nat \ {0} /\ MaxSetups \in Nat
ASSUME ChoicesAssumption ==
    /\ Takeover \in BOOLEAN /\ DecodeErrors \in BOOLEAN
    /\ NoReader \notin Readers

VARIABLES
    \* Receiver: the decoder by its stream and the sockets by their SETUP (0 is
    \* nil), running, and whether a SETUP holds Receiver.mu while it waits for
    \* AudioDecoder.mu
    dec, udp, running, rmu,
    \* the request being handled, the requester of a SETUP by its sockets (0 is
    \* nil), and the decoder a teardown reports on
    ctl, requester, report,
    \* AudioDecoder, per stream: who holds mu, the resequencer under it, and the
    \* sockets onMissing sends its requests from (0 as long as it is nil)
    lock, queue, via,
    \* the reader goroutines: where each is, the packet in its hand, the decoder
    \* it uses, what push handed over and is still to be decoded
    at, hand, use, batch,
    ring,
    \* the senders: how many ANNOUNCEs and SETUPs they sent, the SETUPs that were
    \* answered, the streams recorded, packets sent, and what the sockets of each
    \* SETUP were used to ask for again
    announced, setups, answered, live, sent, asked,
    \* history: the packets each resequencer held when the ring was flushed, and the
    \* decoder a SETUP with a control port found in place
    flushed, found

control == <<ctl, requester, report>>
decoder == <<lock, queue, via>>
readers == <<at, hand, use, batch>>
senders == <<announced, setups, answered, live, sent, asked>>
history == <<flushed, found>>
vars == <<dec, udp, running, rmu, control, decoder, readers, ring, senders, history>>

Nothing == [of |-> 0, no |-> 0]

Init ==
    /\ dec = 0 /\ udp = 0 /\ running = FALSE /\ rmu = FALSE
    /\ ctl = "idle" /\ requester = 0 /\ report = 0
    /\ lock = [d \in Streams |-> NoReader]
    /\ queue = [d \in Streams |-> EmptyQueue]
    /\ via = [d \in Streams |-> 0]
    /\ at = [rd \in Readers |-> "none"]
    /\ hand = [rd \in Readers |-> Nothing]
    /\ use = [rd \in Readers |-> 0]
    /\ batch = [rd \in Readers |-> << >>]
    /\ ring = << >>
    /\ announced = 0 /\ setups = 0
    /\ answered = {} /\ live = {}
    /\ sent = [s \in Streams |-> 0]
    /\ asked = [n \in Setups |-> {}]
    /\ flushed = [d \in Streams |-> {}]
    /\ found = [n \in Setups |-> 0]

-----------------------------------------------------------------------------
(* RTSP requests                                                           *)

\* The callback of the decoder is not set: that is up to a SETUP to come.
announce ==
    /\ ctl = "idle" /\ announced < Len(Lengths)
    /\ Takeover \/ dec = 0
    /\ announced' = announced + 1
    /\ dec' = announced'
    /\ UNCHANGED <<udp, running, rmu, control, decoder, readers, ring,
                   setups, answered, live, sent, asked, history>>

\* SETUP, with or without a control port, and whether or not there is a decoder,
\* first closes the sockets of an earlier one ...
setup(withControl) ==
    /\ ctl = "idle" /\ setups < MaxSetups
    /\ setups' = setups + 1
    /\ udp' = 0
    /\ requester' = IF withControl THEN setups' ELSE 0
    /\ found' = [found EXCEPT ![setups'] = IF withControl THEN dec ELSE 0]
    /\ ctl' = "bind"
    /\ UNCHANGED <<dec, running, rmu, report, decoder, readers, ring,
                   announced, answered, live, sent, asked, flushed>>

\* ... binds its own, whose readers start before anybody knows the sockets ...
bindUDP ==
    /\ ctl = "bind"
    /\ at' = [rd \in Readers |-> IF rd.of = setups THEN "recv" ELSE at[rd]]
    /\ ctl' = "bound"
    /\ UNCHANGED <<dec, udp, running, rmu, requester, report, decoder, hand, use, batch,
                   ring, senders, history>>

\* SETUP unlocks, and the sender learns the ports from the answer.
Answer ==
    /\ answered' = answered \cup {setups}
    /\ rmu' = FALSE /\ requester' = 0
    /\ ctl' = "idle"

\* Seeded fault: SETUP unlocks, and is answered, before the callback is installed.
setupPublish_Answers ==
    /\ ctl = "bound"
    /\ udp' = setups
    /\ answered' = answered \cup {setups}
    /\ ctl' = IF requester # 0 /\ dec # 0 THEN "install" ELSE "idle"
    /\ UNCHANGED <<dec, running, rmu, requester, report, decoder, readers, ring,
                   announced, setups, live, sent, asked, history>>

\* ... publishes them under Receiver.mu, and is done without a requester or a
\* decoder ...
setupPublish ==
    /\ ctl = "bound"
    /\ udp' = setups
    /\ IF requester # 0 /\ dec # 0
       THEN rmu' = TRUE /\ ctl' = "install" /\ UNCHANGED <<requester, answered>>
       ELSE Answer
    /\ UNCHANGED <<dec, running, report, decoder, readers, ring,
                   announced, setups, live, sent, asked, history>>

\* ... or else, still under it, installs the callback under AudioDecoder.mu.
OnMissing ==
    /\ ctl = "install" /\ lock[dec] = NoReader
    /\ queue' = [queue EXCEPT ![dec].onMissing = TRUE]
    /\ via' = [via EXCEPT ![dec] = requester]
    /\ Answer
    /\ UNCHANGED <<dec, udp, running, report, lock, readers, ring,
                   announced, setups, live, sent, asked, history>>

\* RECORD, and the reset of the ring if no session was running.
record ==
    /\ ctl = "idle"
    /\ live' = live \cup ({announced} \ {0})
    /\ running' = TRUE
    /\ ctl' = IF running THEN "idle" ELSE "reset"
    /\ UNCHANGED <<dec, udp, rmu, requester, report, decoder, readers, ring,
                   announced, setups, answered, sent, asked, history>>

FLUSH ==
    /\ ctl = "idle"
    /\ ring' = << >>
    /\ flushed' = [d \in Streams |-> flushed[d] \cup DOMAIN queue[d].held]
    /\ UNCHANGED <<dec, udp, running, rmu, control, decoder, readers, senders, found>>

\* teardown, in its four steps.
teardown ==
    /\ ctl = "idle"
    /\ dec' = 0 /\ running' = FALSE
    /\ report' = IF running THEN dec ELSE 0
    /\ ctl' = "stats"
    /\ UNCHANGED <<udp, rmu, requester, decoder, readers, ring, senders, history>>

Stats ==
    /\ ctl = "stats"
    /\ report # 0 => lock[report] = NoReader
    /\ report' = 0
    /\ ctl' = "close"
    /\ UNCHANGED <<dec, udp, running, rmu, requester, decoder, readers, ring, senders, history>>

closeUDP ==
    /\ ctl = "close"
    /\ udp' = 0
    /\ ctl' = "reset"
    /\ UNCHANGED <<dec, running, rmu, requester, report, decoder, readers, ring, senders, history>>

resetRing ==
    /\ ctl = "reset"
    /\ ring' = << >>
    /\ ctl' = "idle"
    /\ UNCHANGED <<dec, udp, running, rmu, requester, report, decoder, readers, senders, history>>

-----------------------------------------------------------------------------
(* Senders and readers                                                     *)

Send(s) ==
    /\ s \in live /\ sent[s] < Lengths[s]
    /\ sent' = [sent EXCEPT ![s] = @ + 1]
    /\ UNCHANGED <<dec, udp, running, rmu, control, decoder, readers, ring,
                   announced, setups, answered, live, asked, history>>

Goto(rd, l) == at' = [at EXCEPT ![rd] = l]

\* The sockets of a SETUP, from their bind to the close.
Open(n) == n = udp \/ (ctl = "bound" /\ n = setups)

\* ReadFromUDP: any packet sent so far may arrive, again or out of order; on the
\* control port those that were asked for from there.
Receive(rd) ==
    /\ at[rd] = "recv" /\ Open(rd.of) /\ rd.of \in answered
    /\ \E s \in live : \E k \in 0 .. sent[s] - 1 :
          /\ rd.port = "control" => k \in asked[rd.of]
          /\ hand' = [hand EXCEPT ![rd] = [of |-> s, no |-> k]]
    /\ Goto(rd, "load")
    /\ UNCHANGED <<dec, udp, running, rmu, control, decoder, use, batch, ring, senders, history>>

\* Seeded fault: a reader takes a closed socket for a bad packet.
Gone_Retry(rd) == at[rd] = "recv" /\ ~Open(rd.of) /\ UNCHANGED vars

\* ReadFromUDP on a closed socket: the reader returns.
Gone(rd) ==
    /\ at[rd] = "recv" /\ ~Open(rd.of)
    /\ Goto(rd, "gone")
    /\ UNCHANGED <<dec, udp, running, rmu, control, decoder, hand, use, batch, ring,
                   senders, history>>

\* The decoder is read under Receiver.mu, and used after the unlock.
Load(rd) ==
    /\ at[rd] = "load" /\ ~rmu
    /\ use' = [use EXCEPT ![rd] = dec]
    /\ Goto(rd, IF dec = 0 THEN "recv" ELSE "lock")
    /\ IF dec = 0 THEN hand' = [hand EXCEPT ![rd] = Nothing] ELSE UNCHANGED hand
    /\ UNCHANGED <<dec, udp, running, rmu, control, decoder, batch, ring, senders, history>>

\* Seeded fault: Packet does not take the lock.
Holds_Never(d, rd) == lock[d]
Holds(d, rd) == rd

\* AudioDecoder.Packet up to the return of push.  A request for packets is sent from
\* the sockets the callback was made for, and lost if they are closed.
Push(rd) ==
    LET d == use[rd]
        r == Pushed(queue[d], hand[rd])
    IN
    /\ at[rd] = "lock" /\ lock[d] = NoReader
    /\ lock' = [lock EXCEPT ![d] = Holds(d, rd)]
    /\ IF Late(queue[d], hand[rd])
       THEN UNCHANGED <<queue, batch, asked>>
       ELSE /\ queue' = [queue EXCEPT ![d] = r.queue]
            /\ batch' = [batch EXCEPT ![rd] = r.ready]
            /\ asked' = [n \in Setups |-> IF n = via[d] /\ Open(n) THEN asked[n] \cup r.asks
                                                                  ELSE asked[n]]
    /\ Goto(rd, "decode")
    /\ hand' = [hand EXCEPT ![rd] = Nothing]
    /\ UNCHANGED <<dec, udp, running, rmu, control, via, use, ring,
                   announced, setups, answered, live, sent, history>>

\* Seeded fault: a full ring drops nothing.
Written_NoDrop(e) == Append(ring, e)

\* Ring.Write, as the queue that Ring implements.
Written(e) == IF Len(ring) = Room THEN Append(Tail(ring), e) ELSE Append(ring, e)

\* Seeded fault: the rest of what push handed over goes with a bad packet.
AfterError_None(b) == << >>
AfterError(b) == Tail(b)

\* decodeOne: decode the next packet and write it, or count an error.
Decode(rd) ==
    LET d == use[rd]
        p == Head(batch[rd])
    IN
    /\ at[rd] = "decode" /\ batch[rd] # << >>
    /\ \/ /\ ring' = Written([by |-> d, of |-> p.of, no |-> p.no])
          /\ queue' = [queue EXCEPT ![d].wrote = @ + 1]
          /\ batch' = [batch EXCEPT ![rd] = Tail(@)]
       \/ /\ DecodeErrors
          /\ queue' = [queue EXCEPT ![d].errors = @ + 1]
          /\ batch' = [batch EXCEPT ![rd] = AfterError(@)]
          /\ UNCHANGED ring
    /\ UNCHANGED <<dec, udp, running, rmu, control, lock, via, at, hand, use, senders, history>>

\* Seeded fault: the packet is reported while Packet still holds its lock.
MayReturn_Nested == ~rmu
MayReturn == TRUE

\* Packet returns.
Return(rd) ==
    /\ at[rd] = "decode" /\ batch[rd] = << >> /\ MayReturn
    /\ lock' = [lock EXCEPT ![use[rd]] = NoReader]
    /\ use' = [use EXCEPT ![rd] = 0]
    /\ Goto(rd, "recv")
    /\ UNCHANGED <<dec, udp, running, rmu, control, queue, via, hand, batch, ring, senders, history>>

-----------------------------------------------------------------------------
Request ==
    \/ announce \/ \E withControl \in BOOLEAN : setup(withControl)
    \/ record \/ FLUSH \/ teardown
Handling == bindUDP \/ setupPublish \/ OnMissing \/ Stats \/ closeUDP \/ resetRing
Reading(rd) == Gone(rd) \/ Load(rd) \/ Push(rd) \/ Decode(rd) \/ Return(rd)

Next ==
    \/ Request \/ Handling
    \/ \E s \in Streams : Send(s)
    \/ \E rd \in Readers : Receive(rd) \/ Reading(rd)

Spec == Init /\ [][Next]_vars

\* Goroutines that can run do run, and sync.Mutex does not starve who waits for
\* it; no sender is obliged to send, no packet to arrive.
FairSpec ==
    /\ Spec
    /\ SF_vars(Handling)
    /\ \A rd \in Readers : SF_vars(Reading(rd))

-----------------------------------------------------------------------------
(* Properties                                                              *)

\* Type invariant.
TypeOK ==
    /\ dec \in Streams \cup {0} /\ udp \in Setups \cup {0}
    /\ running \in BOOLEAN /\ rmu \in BOOLEAN
    /\ ctl \in {"idle", "bind", "bound", "install", "stats", "close", "reset"}
    /\ requester \in Setups \cup {0} /\ report \in Streams \cup {0}
    /\ lock \in [Streams -> Readers \cup {NoReader}]
    /\ via \in [Streams -> Setups \cup {0}]
    /\ \A d \in Streams : /\ Cardinality(DOMAIN queue[d].held) <= Window
                          /\ \A k \in DOMAIN queue[d].held : k > queue[d].due
                          /\ queue[d].onMissing <=> via[d] # 0
    /\ at \in [Readers -> {"none", "recv", "load", "lock", "decode", "gone"}]
    /\ use \in [Readers -> Streams \cup {0}]
    /\ \A rd \in Readers : at[rd] = "decode" => lock[use[rd]] = rd
    /\ Len(ring) <= Room
    /\ answered \subseteq Setups /\ live \subseteq Streams
    /\ \A s \in Streams : sent[s] \in 0 .. Lengths[s]
    /\ \A n \in Setups : asked[n] \subseteq Nat

\* The audio port and the control port both deliver into one decoder, and yet
\* what one decoder wrote is in the ring in stream order, no packet twice.
RingOrder ==
    \A i, j \in 1 .. Len(ring) :
       i < j /\ ring[i].by = ring[j].by => ring[i].no < ring[j].no

\* "A bad packet is a dropout": between two calls of Packet, every position a
\* decoder has passed was written, was an error, or is counted as lost.
OnlyBadPacketsMissing ==
    \A d \in Streams :
       LET q == queue[d] IN
       lock[d] = NoReader => q.wrote + q.errors + q.lost = q.due - q.base

\* "It must be set before packets start arriving": the readers run before it is, but
\* a packet from the sockets of a SETUP that named a control port meets the
\* decoder that was in place then with the callback set.  (No other decoder is promised
\* one: not without a control port, nor one announced after the SETUP.)
CallbackFirst ==
    [][\A rd \in Readers :
          at[rd] = "lock" /\ at'[rd] = "decode" /\ use[rd] = found[rd.of]
          => queue[use[rd]].onMissing]_vars

\* SETUP waits for a decoder's lock while it holds the receiver's: every
\* request is answered nevertheless.
RequestsAnswered == ctl # "idle" ~> ctl = "idle"

\* No reader outlives its socket.
ReadersEnd ==
    \A rd \in Readers : (at[rd] # "none" /\ ~Open(rd.of)) ~> at[rd] = "gone"

\* "drop what we hold so the speaker does not play stale audio": a packet that
\* was held when the sender flushed is not played afterwards.
FlushDropsHeld ==
    [][\A rd \in Readers :
          at[rd] = "decode" /\ ring' # ring /\ batch'[rd] # batch[rd]
          => Head(batch[rd]).no \notin flushed[use[rd]]]_vars
=============================================================================

----------------------------- MODULE AlacDecoder ----------------------------
(***************************************************************************)
(* internal/alac/decoder.go: one Decoder, which lives as long as its       *)
(* stream, over the frames it is given one after the other.                *)
(*                                                                         *)
(* A frame is what its sender made of some audio: its bits, the audio, and *)
(* whether the decoder was given all of it and is configured for it.  A    *)
(* channel's residuals are decoded one a step, everything else of an       *)
(* element in one step for each of its parts.  Bit depth is 16, the only   *)
(* one Decode takes.  What readCoefs returns for the two channels is prm.  *)
(* The low-order bits an element may carry are read into a buffer nothing  *)
(* uses, and here only stepped over.                                       *)
(***************************************************************************)
EXTENDS AlacGolomb, AlacPredictor

CONSTANTS FrameLength, PB, MB, KB, NumChannels, \* of Config, from the SDP
          Sent,     \* the frames the sender may send first, second, and so on
          Frames    \* bound on the frames of a stream

ASSUME ConfigAssumption ==
    /\ Frames \in Nat /\ FrameLength \in Nat \ {0} /\ NumChannels = 2
    /\ PB \in 0 .. 255 /\ MB \in 0 .. 255 /\ KB \in 1 .. 16
ASSUME SentAssumption ==
    \A k \in 1 .. Frames : \A f \in Sent[k] :
        /\ f.bits \in Seq({0, 1}) /\ Len(f.bits) % 8 = 0
        /\ f.whole \in BOOLEAN

VARIABLES
    \* the frame being decoded, and how many were given to Decode
    frame, given,
    \* where Decode is, the reader's position, channelIndex and numSamples of Decode
    phase, pos, channelIndex, numSamples,
    \* the element: channels, samples, range, mid/side weights and prm of its channels
    el,
    \* the locals of dynDecomp: c, mb and zmode
    ag,
    \* the scratch of the Decoder, which outlives the frame
    predictor, mixBuffer, coefs,
    \* the caller's buffer of samples, and the error of a failed Decode
    out, error

reader  == <<phase, pos>>
scratch == <<predictor, mixBuffer, coefs>>
vars    == <<frame, given, reader, channelIndex, numSamples, el, ag, scratch, out, error>>

bits     == frame.bits
Channels == {0, 1}          \* U and V

Zeros(n) == [i \in 0 .. n - 1 |-> 0]
NoElement == [chans |-> 0, n |-> 0, chanBits |-> 16, mixBits |-> 0, mixRes |-> 0,
              prm |-> <<>>]
NoSymbols == [c |-> 0, mb |-> 0, zmode |-> 0]

\* NewDecoder, and the buffer the caller keeps for its results.
Init ==
    /\ frame = [bits |-> <<>>, audio |-> <<>>, whole |-> FALSE] /\ given = 0
    /\ phase = "idle" /\ pos = 0 /\ channelIndex = 0 /\ numSamples = 0
    /\ el = NoElement /\ ag = NoSymbols
    /\ predictor = Zeros(FrameLength)
    /\ mixBuffer = [ch \in Channels |-> Zeros(FrameLength)]
    /\ coefs = [ch \in Channels |-> Zeros(32)]
    /\ out = Zeros(FrameLength * NumChannels) /\ error = "none"

-----------------------------------------------------------------------------
(* Decode                                                                  *)

Idle == phase \in {"idle", "done", "failed"}

Fail(e) == phase' = "failed" /\ error' = e

\* Decode is called with the next frame.
Decode ==
    /\ Idle /\ given < Frames
    /\ \E f \in Sent[given + 1] : frame' = f
    /\ given' = given + 1
    /\ phase' = "tag" /\ pos' = 0 /\ channelIndex' = 0 /\ numSamples' = 0
    /\ el' = NoElement /\ ag' = NoSymbols /\ error' = "none"
    /\ UNCHANGED <<scratch, out>>

Tag == Read(bits, pos, 3)
ChansOf(tag) == tag + 1     \* of idSCE and idCPE, which are 0 and 1

\* Seeded fault: a fill element ends the frame.
IsEnd_OrFill(tag) == tag \in {6, 7}

IsEnd(tag) == tag = 7       \* idEND

End ==
    /\ phase = "tag" /\ IsEnd(Tag)
    /\ phase' = "done" /\ pos' = ByteAlign(pos + 3)
    /\ UNCHANGED <<frame, given, channelIndex, numSamples, el, ag, scratch, out, error>>

BadElement ==
    /\ phase = "tag" /\ Tag \notin {0, 1} /\ ~IsEnd(Tag)
    /\ Fail("errBadElement") /\ pos' = pos + 3
    /\ UNCHANGED <<frame, given, channelIndex, numSamples, el, ag, scratch, out>>

-----------------------------------------------------------------------------
(* decodeElement: the header                                               *)

HeaderPos == pos + 3 + 4 + 12
Flag      == Read(bits, HeaderPos, 4)
Partial   == Flag \div 8 = 1
Shifted   == (Flag \div 2) % 4
Escape    == Flag % 2 = 1
ChanBits(chans) == 16 - 8 * Shifted + (chans - 1)
Samples   == IF Partial THEN Read(bits, HeaderPos + 4, 16) * 2^16
                             + Read(bits, HeaderPos + 20, 16)
             ELSE FrameLength
BodyPos   == HeaderPos + 4 + (IF Partial THEN 32 ELSE 0)

\* readCoefs at p: what it returns, the coefficients it leaves in old, and its end.
readCoefs(p, old) ==
    LET num == Read(bits, p + 8, 8) % 32
    IN  [mode     |-> Read(bits, p, 8) \div 16,
         denShift |-> Read(bits, p, 8) % 16,
         pbFactor |-> Read(bits, p + 8, 8) \div 32,
         num      |-> num,
         coefs    |-> [i \in 0 .. 31 |-> IF i < num
                                         THEN Signed(Read(bits, p + 16 + 16 * i, 16), 16)
                                         ELSE old[i]],
         end      |-> p + 16 + 16 * num]

Refused == Shifted = 3 \/ Samples > FrameLength

RefuseElement ==
    /\ phase = "tag" /\ Tag \in {0, 1} /\ Refused
    /\ Fail(IF Shifted = 3 THEN "errBadShift" ELSE "errFrameTooLong")
    /\ pos' = IF Shifted = 3 THEN HeaderPos + 4 ELSE BodyPos
    /\ UNCHANGED <<frame, given, channelIndex, numSamples, el, ag, scratch, out>>

\* Both channels' parameters are read before either channel is decoded.
OpenCompressed ==
    /\ phase = "tag" /\ Tag \in {0, 1} /\ ~Refused /\ ~Escape
    /\ LET chans == ChansOf(Tag) IN
       \E u \in {readCoefs(BodyPos + 16, coefs[0])} : \E v \in {readCoefs(u.end, coefs[1])} :
       LET last == IF chans = 2 THEN v ELSE u
       IN  /\ el' = [chans |-> chans, n |-> Samples, chanBits |-> ChanBits(chans),
                     mixBits |-> Read(bits, BodyPos, 8),
                     mixRes  |-> Signed(Read(bits, BodyPos + 8, 8), 8),
                     prm     |-> [ch \in 0 .. chans - 1 |->
                                    LET r == IF ch = 0 THEN u ELSE v
                                    IN  [mode |-> r.mode, denShift |-> r.denShift,
                                         num |-> r.num, pbFactor |-> r.pbFactor]]]
           /\ coefs' = [coefs EXCEPT ![0] = u.coefs,
                                     ![1] = IF chans = 2 THEN v.coefs ELSE @]
           /\ pos' = last.end + Shifted * 8 * chans * Samples
    /\ phase' = "U" /\ ag' = [c |-> 0, mb |-> MB, zmode |-> 0]
    /\ UNCHANGED <<frame, given, channelIndex, numSamples, predictor, mixBuffer, out, error>>

\* An escaped element holds the samples themselves, interleaved.
OpenRaw ==
    /\ phase = "tag" /\ Tag \in {0, 1} /\ ~Refused /\ Escape
    /\ LET chans == ChansOf(Tag)
           raw(i, ch) == Signed(Read(bits, BodyPos + 16 * (chans * i + ch), 16), 16)
       IN  /\ mixBuffer' = [ch \in Channels |-> [i \in 0 .. FrameLength - 1 |->
                              IF i < Samples /\ ch < chans THEN raw(i, ch)
                              ELSE mixBuffer[ch][i]]]
           /\ el' = [NoElement EXCEPT !.chans = chans, !.n = Samples]
           /\ pos' = BodyPos + 16 * chans * Samples
    /\ phase' = "output"
    /\ UNCHANGED <<frame, given, channelIndex, numSamples, ag, predictor, coefs, out, error>>

-----------------------------------------------------------------------------
(* channel: dynDecomp, then unpcBlock                                      *)

Chan == IF phase = "U" THEN 0 ELSE 1
InChannel == phase \in {"U", "V"}

\* setAGParams: the weight of the newest residual in the mean.
pb == (PB * el.prm[Chan].pbFactor) \div 4

Truncated ==
    /\ InChannel /\ ag.c < el.n /\ pos >= Len(bits)
    /\ Fail("errTruncated")
    /\ UNCHANGED <<frame, given, pos, channelIndex, numSamples, el, ag, scratch, out>>

\* Seeded fault: off by one.
Overruns_Late(c) == c > el.n + 1

\* The run would write past the samples of the element.
Overruns(c) == c > el.n

Symbol ==
    /\ InChannel /\ ag.c < el.n /\ pos < Len(bits)
    /\ \E step \in {DynStep(bits, pos, ag, el.n, pb, KB, el.chanBits)} :
        /\ pos' = step.pos
        /\ IF Overruns(step.ag.c)
           THEN /\ predictor' = [predictor EXCEPT ![ag.c] = step.del]
                /\ Fail("errCorruptRun") /\ UNCHANGED ag
           ELSE /\ predictor' = [i \in 0 .. FrameLength - 1 |->
                                    IF i = ag.c THEN step.del
                                    ELSE IF i \in ag.c + 1 .. step.ag.c - 1 THEN 0
                                    ELSE predictor[i]]
                /\ ag' = step.ag /\ UNCHANGED <<phase, error>>
    /\ UNCHANGED <<frame, given, channelIndex, numSamples, el, mixBuffer, coefs, out>>

\* Without coefficients unpcBlock copies from the second sample on: of an element that
\* declares none the slice is out of range.
NoSample == InChannel /\ ag.c = el.n /\ el.n = 0 /\ el.prm[Chan].num = 0

\* The predictor is undone; in a mode other than 0 a plain difference before it.
Predict ==
    /\ InChannel /\ ag.c = el.n /\ ~NoSample
    /\ LET p == el.prm[Chan] IN
       \E plain \in {IF p.mode = 0 THEN predictor
                     ELSE UnpcBlock(predictor, predictor, el.n, coefs[Chan], 31,
                                    el.chanBits, 0).out} :
       \E block \in {UnpcBlock(plain, mixBuffer[Chan], el.n, coefs[Chan], p.num,
                               el.chanBits, p.denShift)} :
          /\ predictor' = plain
          /\ mixBuffer' = [mixBuffer EXCEPT ![Chan] = block.out]
          /\ coefs' = [coefs EXCEPT ![Chan] = block.coefs]
    /\ IF phase = "U" /\ el.chans = 2
       THEN phase' = "V" /\ ag' = [c |-> 0, mb |-> MB, zmode |-> 0]
       ELSE phase' = "output" /\ UNCHANGED ag
    /\ UNCHANGED <<frame, given, pos, channelIndex, numSamples, el, out, error>>

-----------------------------------------------------------------------------
(* The end of an element                                                   *)

\* The element's samples go to out from channelIndex on, a stride apart; nothing keeps
\* those of an element beyond the output's channels from the samples beside them.
Interleaved ==
    [x \in DOMAIN out |->
        LET i == (x - channelIndex) \div NumChannels
            k == (x - channelIndex) % NumChannels
        IN  IF ~(channelIndex <= x /\ i < el.n /\ k < el.chans) THEN out[x]
            ELSE IF el.chans = 1 THEN Signed(mixBuffer[0][i], 16)
            ELSE Unmixed(mixBuffer[0][i], mixBuffer[1][i],
                         el.mixBits, el.mixRes)[k + 1]]

\* The last index written, or the start of a pair's slice, is outside out.
PastOutput ==
    /\ phase = "output"
    /\ \/ el.n > 0 /\ channelIndex + (el.n - 1) * NumChannels + el.chans > FrameLength * NumChannels
       \/ el.chans = 2 /\ channelIndex > FrameLength * NumChannels

\* Decode then refuses a frame whose element ran past its end.
Output ==
    /\ phase = "output" /\ ~PastOutput
    /\ out' = Interleaved
    /\ numSamples' = el.n /\ channelIndex' = channelIndex + el.chans
    /\ IF Exhausted(bits, pos) THEN Fail("errTruncated")
       ELSE phase' = "tag" /\ UNCHANGED error
    /\ UNCHANGED <<frame, given, pos, el, ag, scratch>>

\* An index out of range ends the program: nothing in it recovers.
Panic ==
    /\ NoSample \/ PastOutput
    /\ phase' = "panicked"
    /\ UNCHANGED <<frame, given, pos, channelIndex, numSamples, el, ag, scratch, out, error>>

\* The sender has nothing more to send, or the program has ended.
Finished ==
    /\ \/ Idle /\ given = Frames
       \/ phase = "panicked"
    /\ UNCHANGED vars

Next ==
    \/ Finished
    \/ Decode \/ End \/ BadElement
    \/ RefuseElement \/ OpenCompressed \/ OpenRaw
    \/ Truncated \/ Symbol \/ Predict
    \/ Output \/ Panic

Spec == Init /\ [][Next]_vars

-----------------------------------------------------------------------------
(* Properties                                                              *)

Int16 == -2^15 .. 2^15 - 1

(* Type correctness: no residual is written past the samples of its        *)
(* element, no element has more than the scratch holds, coefficients and   *)
(* output are 16 bits wide, and a frame that ends the program declared no  *)
(* samples or more channels than the output has.                           *)
TypeOK ==
    /\ given \in 0 .. Frames /\ pos \in Nat /\ channelIndex \in Nat
    /\ phase \in {"idle", "tag", "U", "V", "output", "done", "failed", "panicked"}
    /\ phase = "panicked" => el.n = 0 \/ channelIndex + el.chans > NumChannels
    /\ el.n \in 0 .. FrameLength /\ numSamples \in 0 .. FrameLength
    /\ InChannel => ag.c \in 0 .. el.n
    /\ predictor \in [0 .. FrameLength - 1 -> Int]
    /\ mixBuffer \in [Channels -> [0 .. FrameLength - 1 -> Int]]
    /\ coefs \in [Channels -> [0 .. 31 -> Int16]]
    /\ out \in [0 .. FrameLength * NumChannels - 1 -> Int16]

(* A frame that arrives whole decodes to the audio that was encoded,       *)
(* sample for sample in both channels, whatever the frames before it left  *)
(* in the decoder's buffers: no error, no panic, no element beyond the     *)
(* channels of the output, no sample beyond the range of its element, none *)
(* lost, none of an earlier frame (Decoder.Decode against the encoder's    *)
(* half of the same code).                                                 *)
Lossless ==
    frame.whole =>
        /\ phase \notin {"failed", "panicked"}
        /\ phase = "output" =>
              /\ channelIndex + el.chans <= NumChannels
              /\ \A ch \in 0 .. el.chans - 1 : \A i \in 0 .. el.n - 1 :
                    Signed(mixBuffer[ch][i], el.chanBits) = mixBuffer[ch][i]
        /\ phase = "done" =>
              /\ numSamples = Len(frame.audio)
              /\ \A i \in 1 .. numSamples : \A k \in 1 .. 2 :
                    out[2 * (i - 1) + k - 1] = frame.audio[i][k]

(* A frame that was cut short, has more samples than the stream's          *)
(* configuration or the reserved shift, is never passed on as audio: the   *)
(* zeros read past the end are not taken for samples (errTruncated,        *)
(* exhausted, errBadShift, errFrameTooLong, errCorruptRun).                *)
DamageReported == phase = "done" => frame.whole
=============================================================================

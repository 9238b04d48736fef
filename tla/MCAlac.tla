------------------------------- MODULE MCAlac -------------------------------
(* Model checking of AlacDecoder on frames AlacEncoder makes. *)
EXTENDS AlacDecoder, FiniteSets

Enc == INSTANCE AlacEncoder

-----------------------------------------------------------------------------
(* Audio                                                                   *)

\* The right channel against the left one.
Stereo(left) == {[j \in DOMAIN left |-> <<left[j], 0>>],
                 [j \in DOMAIN left |-> <<left[j], left[j]>>],
                 [j \in DOMAIN left |-> <<left[j], -1 - left[j]>>]}

\* Four samples, of every size class: the largest, a run, the smallest residual.
Short == UNION {Stereo(left) : left \in [1 .. 4 -> {-32768, 0, 1, 32767}]}

\* A frame's length: a few samples and then zeros, long enough that the run's code is
\* the escape; a slope; a full-scale square wave; something like music.
Filled(start) == [j \in 1 .. FrameLength |-> IF j <= Len(start) THEN start[j] ELSE 0]
Slope  == [j \in 1 .. FrameLength |-> 9 * j - 100]
Square == [j \in 1 .. FrameLength |-> IF (j \div 3) % 2 = 0 THEN 32767 ELSE -32768]
Music  == [j \in 1 .. FrameLength |-> ((37 * j * j) % 211) - 100]
Fading == UNION {Stereo(Filled(start)) :
                    start \in UNION {[1 .. n -> {-1, 0, 1}] : n \in 1 .. 3}}
Quiet  == Fading \cup Stereo(Slope) \cup Stereo(Music)
Loud   == Short \cup Stereo(Square)

-----------------------------------------------------------------------------
(* Ways of encoding                                                        *)

Plain == [mode |-> 0, denShift |-> 9, pbFactor |-> 4, a |-> <<>>]
One   == [Plain EXCEPT !.a = <<160>>]
Two   == [Plain EXCEPT !.a = <<1216, -928>>, !.pbFactor = 2]
Limit == [Plain EXCEPT !.a = <<-32768, 32767>>, !.denShift = 14]

Way == [layout |-> "CPE", partial |-> FALSE, shifted |-> 0, escape |-> FALSE,
        mixBits |-> 0, mixRes |-> 0, prm |-> <<Plain, Plain>>]
Ways == {Way,
         [Way EXCEPT !.mixBits = 2, !.mixRes = 1, !.prm = <<Two, One>>],
         [Way EXCEPT !.prm = <<[Two EXCEPT !.mode = 1], [Plain EXCEPT !.mode = 1]>>],
         [Way EXCEPT !.escape = TRUE],
         [Way EXCEPT !.layout = "SCE", !.prm = <<Two, Plain>>]}
\* Coefficients at the ends of their 16 bits, for audio that keeps the sums in 32.
QuietWays == Ways \cup {[Way EXCEPT !.mixBits = 2, !.mixRes = -1, !.prm = <<One, Limit>>]}

-----------------------------------------------------------------------------
(* What is sent: audio, encoded one way, whose last lost bytes never came. *)

Sending(audio, way, lost) == [audio |-> audio, way |-> way, lost |-> lost]

\* Whole frames.
Wholes == {Sending(audio, way, 0) : audio \in Quiet, way \in QuietWays}
          \cup {Sending(audio, [way EXCEPT !.partial = Len(audio) < FrameLength], 0) :
                   audio \in Loud, way \in Ways}

\* Whole frames to cut at every byte; a cut that leaves nothing of a length declared
\* leaves an element of no samples.
ToCut == {Sending(audio, way, 0) : audio \in Stereo(Filled(<<1>>)) \cup Stereo(Music),
                                   way \in Ways}
         \cup {Sending(<<<<1, 2>>, <<3, 4>>>>, [way EXCEPT !.partial = TRUE], 0) : way \in Ways}

\* Frames this stream is not configured for: too many samples, declared or not, and
\* the reserved value of bytesShifted.
TooLong == [j \in 1 .. FrameLength + 1 |-> IF j = 1 THEN <<1, 1>> ELSE <<0, 0>>]
Undeclared == Sending(TooLong, Way, 0)
Unfit == {Undeclared, Sending(TooLong, [Way EXCEPT !.partial = TRUE], 0),
          Sending(<<<<1, 2>>, <<3, 4>>>>, [Way EXCEPT !.partial = TRUE, !.shifted = 3], 0)}

\* A frame of four channels, each of a frame's length.
FourChannels ==
    LET pair == Enc!Element([j \in 1 .. FrameLength |-> <<Slope[j], Music[j]>>], 1, 2, Way)
        body == pair \o pair \o Enc!BitsOf(7, 3)
    IN  [audio |-> <<>>, bits |-> body \o Enc!BitsOf(0, (-Len(body)) % 8), whole |-> FALSE]

\* First a frame that fills the buffers, or breaks off in the second channel.
Before == {Sending([j \in 1 .. FrameLength |-> <<Music[j], Square[j]>>], way, 0) :
              way \in {[Way EXCEPT !.prm = <<Two, Two>>], [Way EXCEPT !.escape = TRUE]}}
          \cup {Sending([j \in 1 .. FrameLength |-> <<Slope[j], Music[j]>>],
                        [Way EXCEPT !.prm = <<Limit, Two>>], 20)}

Received(s, sent) ==
    [audio |-> s.audio,
     bits  |-> SubSeq(sent, 1, Len(sent) - 8 * s.lost),
     whole |-> s.lost = 0 /\ s.way.shifted # 3 /\ Len(s.audio) <= FrameLength]
Encoded(S) == {Received(s, Enc!Frame(s.audio, s.way)) : s \in S}
Cuts(f) == {[f EXCEPT !.bits = SubSeq(@, 1, 8 * n), !.whole = FALSE] :
               n \in 0 .. Len(f.bits) \div 8 - 1}

\* These are what the theorems take a sender to send, but for the one frame with more
\* samples than it declares and the one of four channels.
ASSUME SentAreProper ==
    \A s \in Before \cup Wholes \cup ToCut \cup (Unfit \ {Undeclared}) :
        Enc!Sends(Received(s, Enc!Frame(s.audio, s.way)), s.way)

MCSent == <<Encoded(Before),
            Encoded(Wholes \cup Unfit) \cup {FourChannels}
            \cup UNION {Cuts(f) : f \in Encoded(ToCut)}>>
=============================================================================

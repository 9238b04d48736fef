----------------------------- MODULE AlacEncoder ----------------------------
(***************************************************************************)
(* The sender's half of the code: the encoder AlacDecoder undoes.  It is   *)
(* no part of the repository, whose test vectors were made with it: this   *)
(* is Apple's reference encoder, as far as a decoder can tell.  Where the  *)
(* decoder was ported from a general loop, the loop here is the unrolled   *)
(* one of the encoder, in b_k = top - pin[-k].                             *)
(*                                                                         *)
(* A way of encoding is a record: layout "CPE" or "SCE", partial, shifted, *)
(* escape, mixBits, mixRes, and for every channel, in prm, its mode,       *)
(* denShift, pbFactor and the coefficients a the frame starts from.        *)
(***************************************************************************)
EXTENDS AlacGolomb

CONSTANTS FrameLength, PB, MB, KB

\* The n lowest bits of x.
BitsOf(x, n) == [i \in 1 .. n |-> (x \div 2^(n - i)) % 2]

Ones(n) == [i \in 1 .. n |-> 1]

\* f(1), f(2), ... f(n), one after the other.
Joined(f(_), n) ==
    LET upto[i \in 0 .. n] == IF i = 0 THEN <<>> ELSE upto[i - 1] \o f(i)
    IN  upto[n]

-----------------------------------------------------------------------------
(* dyn_comp                                                                *)

\* A number by a prefix of ones and a k-bit suffix; by itself when that is too long.
CodeWord(m, k, n, escapeBits) ==
    IF n \div m >= MaxPrefix THEN Ones(MaxPrefix) \o BitsOf(n, escapeBits)
    ELSE Ones(n \div m) \o <<0>>
         \o (IF n % m = 0 THEN BitsOf(0, k - 1) ELSE BitsOf((n % m) + 1, k))

\* A residual by its size, with the sign as the lowest bit.
Coded(del, zmode) == (IF del < 0 THEN -2 * del - 1 ELSE 2 * del) - zmode

ResidualCode(n, mb, maxbits) ==
    LET k == Least(Lg3a(mb \div 2^QbShift), KB) IN CodeWord(2^k - 1, k, n, maxbits)

RunCode(nz, mb) ==
    LET k == Lead(mb) - 24 + (mb + 16) \div 64
    IN  CodeWord((2^k - 1) % 2^KB, k, nz, RunBits)

Mean(n, s, weight) ==
    IF n > MeanClamp THEN MeanClamp
    ELSE weight * (n + s.zmode) + s.mb - (weight * s.mb) \div 2^QbShift

\* The zeros of res from the i-th on.
ZerosFrom(res, i) ==
    LET more == {j \in i .. Len(res) : res[j] # 0}
    IN  IF more = {} THEN Len(res) + 1 - i
        ELSE (CHOOSE j \in more : \A l \in more : j <= l) - i

\* After the residual n, mean; and after the nz zeros that follow, when the mean is low.
Following(s, n, mean, nz, last, maxbits) ==
    IF 4 * mean < 2^QbShift /\ ~last
    THEN [c |-> s.c + 1 + nz, mb |-> 0, zmode |-> 1,
          bits |-> s.bits \o ResidualCode(n, s.mb, maxbits) \o RunCode(nz, mean)]
    ELSE [c |-> s.c + 1, mb |-> mean, zmode |-> 0,
          bits |-> s.bits \o ResidualCode(n, s.mb, maxbits)]

Compress(res, weight, maxbits) ==
    LET symbol(s, n) == Following(s, n, Mean(n, s, weight), ZerosFrom(res, s.c + 2),
                                  s.c + 1 = Len(res), maxbits)
        next(s) == IF s.c = Len(res) THEN s
                   ELSE symbol(s, Coded(res[s.c + 1], s.zmode))
        after[i \in 0 .. Len(res)] ==
            IF i = 0 THEN [c |-> 0, mb |-> MB, zmode |-> 0, bits |-> <<>>]
            ELSE next(after[i - 1])
    IN  after[Len(res)].bits

-----------------------------------------------------------------------------
(* pc_block, in samples counted from 1                                     *)

sign(n) == IF n > 0 THEN 1 ELSE IF n < 0 THEN -1 ELSE 0

\* From the oldest sample on, until the residual left is used up.
Adjusted(s, b, del, numactive, denshift) ==
    LET turn(t, k, up) ==
            [a    |-> [t.a EXCEPT ![k] = Signed(@ - up, 16)],
             left |-> t.left - (numactive + 1 - k) * ((up * b[k]) \div 2^denshift)]
        next(t, k) == IF sign(del) * t.left <= 0 THEN t
                      ELSE turn(t, k, sign(del) * sign(b[k]))
        after[k \in 1 .. numactive + 1] ==
            IF k = numactive + 1 THEN [a |-> s.a, left |-> del] ELSE next(after[k + 1], k)
    IN  [res |-> Append(s.res, del), a |-> after[1].a]

\* The residual of a sample x above top, from b[k] = top - the k-th sample before it.
ResidualOf(x, top, b, a, numactive, chanbits, denshift) ==
    LET sum[k \in 0 .. numactive] ==
            IF k = 0 THEN IF denshift = 0 THEN 0 ELSE 2^(denshift - 1)
            ELSE sum[k - 1] - a[k] * b[k]
    IN  Signed(x - top - sum[numactive] \div 2^denshift, chanbits)

Predict(x, a, numactive, chanbits, denshift) ==
    LET next(s, j, b) ==
            Adjusted(s, b, ResidualOf(x[j], x[j - numactive - 1], b, s.a,
                                      numactive, chanbits, denshift),
                     numactive, denshift)
        after[j \in 1 .. Len(x)] ==
            IF j = 1 THEN [res |-> <<x[1]>>, a |-> a]
            ELSE IF j <= numactive + 1
            THEN [after[j - 1] EXCEPT !.res = Append(@, Signed(x[j] - x[j - 1], chanbits))]
            ELSE next(after[j - 1], j,
                      [k \in 1 .. numactive |-> x[j - numactive - 1] - x[j - k]])
    IN  IF numactive = 0 THEN x ELSE after[Len(x)].res

Difference(x, chanbits) ==
    [j \in 1 .. Len(x) |-> IF j = 1 THEN x[1] ELSE Signed(x[j] - x[j - 1], chanbits)]

-----------------------------------------------------------------------------
(* A frame                                                                 *)

\* mix16: the mid/side pair of a pair of samples.
Mix(s, mixBits, mixRes) ==
    IF mixRes = 0 THEN s
    ELSE <<(mixRes * s[1] + (2^mixBits - mixRes) * s[2]) \div 2^mixBits, s[1] - s[2]>>

Header(tag, n, w) ==
    BitsOf(tag, 3) \o BitsOf(0, 16)
    \o <<IF w.partial THEN 1 ELSE 0>> \o BitsOf(w.shifted, 2)
    \o <<IF w.escape THEN 1 ELSE 0>>
    \o (IF w.partial THEN BitsOf(0, 16) \o BitsOf(n, 16) ELSE <<>>)

Description(p) ==
    BitsOf(p.mode, 4) \o BitsOf(p.denShift, 4)
    \o BitsOf(p.pbFactor, 3) \o BitsOf(Len(p.a), 5)
    \o Joined(LAMBDA i : BitsOf(p.a[i], 16), Len(p.a))

Channel(x, p, chanBits) ==
    LET coded(res) == Compress(IF p.mode = 0 THEN res ELSE Difference(res, chanBits),
                               (PB * p.pbFactor) \div 4, chanBits)
    IN  coded(Predict(x, p.a, Len(p.a), chanBits, p.denShift))

\* One element over some channels of the audio: its tag is one less than their number.
Element(audio, first, chans, w) ==
    LET mixed(j) == IF chans = 2 THEN Mix(audio[j], w.mixBits, w.mixRes) ELSE audio[j]
        channel(k) == Channel([j \in 1 .. Len(audio) |-> mixed(j)[first + k - 1]],
                              w.prm[k], 15 + chans)
        raw(j) == Joined(LAMBDA k : BitsOf(audio[j][first + k - 1], 16), chans)
    IN  Header(chans - 1, Len(audio), w)
        \o IF w.escape THEN Joined(raw, Len(audio))
           ELSE BitsOf(w.mixBits, 8) \o BitsOf(w.mixRes, 8)
                \o Joined(LAMBDA k : Description(w.prm[k]), chans)
                \o Joined(channel, chans)

\* Its elements, the END tag, and zeros up to a whole byte.
Frame(audio, w) ==
    LET chans == IF w.layout = "CPE" THEN 2 ELSE 1
        padded(body) == body \o BitsOf(0, (-Len(body)) % 8)
    IN  padded(Joined(LAMBDA i : Element(audio, i, chans, w), 3 - chans) \o BitsOf(7, 3))

-----------------------------------------------------------------------------
(* What a sender may send                                                  *)

\* Parameters that fit their fields; at most 30 coefficients, as 31 are plain differences.
Fits(p) ==
    /\ p.mode \in 0 .. 15 /\ p.denShift \in 0 .. 15 /\ p.pbFactor \in 0 .. 7
    /\ p.a \in Seq(-2^15 .. 2^15 - 1) /\ Len(p.a) <= 30

\* A way to encode this audio: a length the stream does not imply is declared, and the
\* mid/side pair of no sample leaves the 17 bits a channel of a pair has.
Proper(audio, w) ==
    /\ audio \in Seq((-2^15 .. 2^15 - 1) \X (-2^15 .. 2^15 - 1)) /\ Len(audio) \in 1 .. 2^16 - 1
    /\ w.layout \in {"CPE", "SCE"} /\ w.escape \in BOOLEAN /\ w.shifted \in {0, 3}
    /\ w.partial \in BOOLEAN /\ (Len(audio) # FrameLength => w.partial)
    /\ w.mixBits \in 0 .. 255 /\ w.mixRes \in -128 .. 127
    /\ \A k \in 1 .. 2 : Fits(w.prm[k])
    /\ w.layout = "CPE" =>
          \A j \in 1 .. Len(audio) : \A k \in 1 .. 2 :
              Mix(audio[j], w.mixBits, w.mixRes)[k] \in -2^16 .. 2^16 - 1

\* f is that frame, or what is left of it when its last bytes got lost.
Sends(f, w) ==
    LET sent == Frame(f.audio, w)
    IN  /\ Proper(f.audio, w)
        /\ Len(f.bits) <= Len(sent) /\ \A i \in 1 .. Len(f.bits) : f.bits[i] = sent[i]
        /\ f.whole <=> /\ Len(f.bits) = Len(sent)
                       /\ w.shifted = 0 /\ Len(f.audio) <= FrameLength
=============================================================================

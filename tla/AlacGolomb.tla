----------------------------- MODULE AlacGolomb -----------------------------
(***************************************************************************)
(* internal/alac/ag.go: the adaptive Golomb code of the residuals.         *)
(*                                                                         *)
(* One residual, and the run of zeros that may follow it, is one step of   *)
(* dynDecomp's loop: DynStep.  The loop itself is in AlacDecoder.  Numbers *)
(* are integers: of the unsigned arithmetic only `result - 1` of dynGet    *)
(* goes below zero, and `result -= v - 1` of the same call takes it back.  *)
(***************************************************************************)
EXTENDS AlacBits

QbShift   == 9
MaxPrefix == 9          \* maxPrefix16 = maxPrefix32
RunBits   == 16         \* maxDatatypeBits16
MeanClamp == 65535      \* nMaxMeanClamp = nMeanClampVal

Least(a, b) == IF a < b THEN a ELSE b

\* The leading zeros of a number below 2^31.
Lead(m) == CHOOSE j \in 1 .. 32 : /\ j < 32 => 2^(31 - j) <= m
                                  /\ j > 1 => m \div 2^(31 - j + 1) = 0

Lg3a(x) == 31 - Lead(x + 3)

\* lead of the complement: the leading ones of a load.
Prefix(w) == CHOOSE j \in 0 .. 32 : /\ \A i \in 0 .. j - 1 : w[i] = 1
                                    /\ j < 32 => w[j] = 0

\* A code word is a prefix of ones, a zero and k bits; v below 2 is one bit shorter.
\* After MaxPrefix ones the number itself follows.
DynGet(buf, pos, m, k) ==
    LET w   == Window(buf, pos, 32)
        pre == Prefix(w)
        v   == Field(w, pre + 1, k)
    IN  IF pre >= MaxPrefix
        THEN [n |-> Field(w, MaxPrefix, RunBits), pos |-> pos + MaxPrefix + RunBits]
        ELSE IF v < 2
        THEN [n |-> pre * m, pos |-> pos + pre + k]
        ELSE [n |-> pre * m + v - 1, pos |-> pos + pre + 1 + k]

\* The same for a residual, where k = 1 has no suffix and the escape is maxbits wide.
DynGet32bit(buf, pos, m, k, maxbits) ==
    LET pre == Prefix(Window(buf, pos, 32))
    IN  IF pre >= MaxPrefix
        THEN [n   |-> StreamBits(buf, pos + MaxPrefix, maxbits),
              pos |-> pos + MaxPrefix + maxbits]
        ELSE IF k = 1 THEN [n |-> pre, pos |-> pos + pre + 1]
        ELSE DynGet(buf, pos, m, k)

\* The sign is the lowest bit.
Residual(ndecode) ==
    IF ndecode % 2 = 1 THEN -((ndecode + 1) \div 2) ELSE (ndecode + 1) \div 2

\* The mean after a residual, coded as n.
NextMean(ag, n, pb) ==
    IF n > MeanClamp THEN MeanClamp
    ELSE pb * (n + ag.zmode) + ag.mb - (pb * ag.mb) \div 2^QbShift

\* Below this mean a run of zeros is coded, in k bits.
RunFollows(mb) == 4 * mb < 2^QbShift
RunWidth(mb) == Lead(mb) - 24 + (mb + 16) \div 64

\* One iteration of dynDecomp from ag = [c, mb, zmode], up to and without the check
\* of the run against numSamples: the residual, the length of the run after it (0
\* when none is coded), and the state the next iteration starts from.
DynStep(buf, pos, ag, numSamples, pb, kb, maxbits) ==
    LET k    == Least(Lg3a(ag.mb \div 2^QbShift), kb)
        r    == DynGet32bit(buf, pos, 2^k - 1, k, maxbits)
        mean == NextMean(ag, r.n, pb)
        kz   == RunWidth(mean)
        mz   == (2^kz - 1) % 2^kb
        z    == DynGet(buf, r.pos, mz, kz)
        run  == RunFollows(mean) /\ ag.c + 1 < numSamples
    IN  [del |-> Residual(r.n + ag.zmode),
         run |-> IF run THEN z.n ELSE 0,
         pos |-> IF run THEN z.pos ELSE r.pos,
         ag  |-> IF run
                 THEN [c     |-> ag.c + 1 + z.n,
                       mb    |-> 0,
                       zmode |-> IF z.n >= 65535 THEN 0 ELSE 1]
                 ELSE [c |-> ag.c + 1, mb |-> mean, zmode |-> 0]]
=============================================================================

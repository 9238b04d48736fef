---------------------------- MODULE AlacPredictor ---------------------------
(***************************************************************************)
(* internal/alac/predictor.go: unpcBlock, which adds to every residual     *)
(* what the samples before it predict; and unmix16 of decoder.go.          *)
(*                                                                         *)
(* The sums are int32 in the code and integers here; no instance takes one *)
(* past 2^31.  x \div 2^n is the arithmetic shift x >> n.                  *)
(***************************************************************************)
EXTENDS AlacBits

signOfInt(x) == IF x > 0 THEN 1 ELSE IF x < 0 THEN -1 ELSE 0

\* 1 << (denshift - 1), which is 0 for a shift of 0: the count wraps past the width.
Denhalf(denshift) == IF denshift = 0 THEN 0 ELSE 2^(denshift - 1)

\* The prediction of sample j from the numactive samples before it, relative to the
\* one before those, top.
Predicted(out, j, coefs, numactive, denshift) ==
    LET top == out[j - numactive - 1]
        sum[k \in 0 .. numactive] ==
            IF k = 0 THEN 0 ELSE sum[k - 1] + coefs[k - 1] * (out[j - k] - top)
    IN  top + (sum[numactive] + Denhalf(denshift)) \div 2^denshift

\* The turn of coefficient k, when left of the residual is left: it moves by one
\* towards what would have predicted better, from a sample that is dd below top.
Turn(t, k, dd, sg, numactive, denshift) ==
    LET up == sg * signOfInt(dd)
    IN  IF sg * t.left <= 0 THEN t
        ELSE [coefs |-> [t.coefs EXCEPT ![k] = Signed(@ - up, 16)],
              left  |-> t.left - (numactive - k) * ((up * dd) \div 2^denshift)]

\* The coefficients after a residual del: from the oldest sample on, until the residual
\* is used up.
Adapted(out, j, coefs, numactive, denshift, del) ==
    LET top == out[j - numactive - 1]
        move[k \in 0 .. numactive] ==
            IF k = numactive THEN [coefs |-> coefs, left |-> del]
            ELSE Turn(move[k + 1], k, top - out[j - 1 - k], signOfInt(del),
                      numactive, denshift)
    IN  move[0].coefs

\* Sample j, from its residual del and the samples before it.
Sample(s, j, del, numactive, chanbits, denshift) ==
    CASE numactive = 0 -> del
      [] numactive = 31 \/ j \in 1 .. numactive -> Signed(del + s.out[j - 1], chanbits)
      [] OTHER -> Signed(del + Predicted(s.out, j, s.coefs, numactive, denshift), chanbits)

\* One round of unpcBlock: the block and the coefficients after sample j.
Round(s, j, del, numactive, chanbits, denshift) ==
    [out   |-> [s.out EXCEPT ![j] = Sample(s, j, del, numactive, chanbits, denshift)],
     coefs |-> IF numactive \in {0, 31} \/ j <= numactive THEN s.coefs
               ELSE Adapted(s.out, j, s.coefs, numactive, denshift, del)]

\* unpcBlock over the num residuals of pc, into out: the block and the coefficients.
UnpcBlock(pc, out, num, coefs, numactive, chanbits, denshift) ==
    LET last == IF num = 0 THEN 0 ELSE num - 1
        step[j \in 0 .. last] ==
            IF j = 0 THEN [out |-> [out EXCEPT ![0] = pc[0]], coefs |-> coefs]
            ELSE Round(step[j - 1], j, pc[j], numactive, chanbits, denshift)
    IN  step[last]

\* unmix16 of one pair: the samples the mid/side pair u, v stands for.
Unmixed(u, v, mixBits, mixRes) ==
    LET l == u + v - (mixRes * v) \div 2^mixBits
    IN  IF mixRes # 0 THEN <<Signed(l, 16), Signed(l - v, 16)>>
        ELSE <<Signed(u, 16), Signed(v, 16)>>
=============================================================================

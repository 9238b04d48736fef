------------------------------ MODULE AlacBits ------------------------------
(***************************************************************************)
(* internal/alac/bits.go and the loads of ag.go: the bit reader.           *)
(*                                                                         *)
(* A frame is the sequence of its bits, a whole number of bytes, first bit *)
(* first; past its end every bit reads as 0.  A load takes whole bytes     *)
(* from the byte that holds the position and shifts them left to it, so    *)
(* that of a load of width bits the last position % 8 are lost: 25 bits at *)
(* least of a load of 32, 17 of a load of 24.                              *)
(***************************************************************************)
EXTENDS Integers, Sequences

Bit(buf, i) == IF i < Len(buf) THEN buf[i + 1] ELSE 0

\* Seeded fault: only three of the bytes are loaded.
Window_Short(buf, pos, width) ==
    [i \in 0 .. width - 1 |-> IF i + (pos % 8) < 24 THEN Bit(buf, pos + i) ELSE 0]

Window(buf, pos, width) ==
    [i \in 0 .. width - 1 |-> IF i + (pos % 8) < width THEN Bit(buf, pos + i) ELSE 0]

\* The number in the n bits of a load from the i-th on.
Field(w, i, n) ==
    LET prefix[k \in 0 .. n] == IF k = 0 THEN 0 ELSE 2 * prefix[k - 1] + w[i + k - 1]
    IN  prefix[n]

\* bitBuffer.read: n <= 16 from one load, more from two.
Read(buf, pos, n) ==
    IF n <= 16
    THEN Field(Window(buf, pos, 24), 0, n)
    ELSE Field(Window(buf, pos, 24), 0, n - 16) * 2^16
         + Field(Window(buf, pos + n - 16, 24), 0, 16)

\* getStreamBits: four bytes, and a fifth for what the shift lost.
StreamBits(buf, pos, n) == Field(Window(buf, pos, 40), 0, n)

ByteAlign(pos) == 8 * ((pos + 7) \div 8)

Exhausted(buf, pos) == pos > Len(buf)

\* A conversion to a signed integer of n bits: (x << (32 - n)) >> (32 - n), int16(x).
\* Of no bits at all it is 0.
Signed(x, n) == LET u == x % 2^n IN IF 2 * u < 2^n THEN u ELSE u - 2^n
=============================================================================

----------------------------- MODULE AlacProofs -----------------------------
(***************************************************************************)
(* Theorems about the ALAC decoder.  No frame, however it is made, takes   *)
(* the decoder past its scratch, and one that ends the program declared no *)
(* samples or too many channels; a frame an encoder makes decodes to the   *)
(* audio it was made of, or to none when the end of it is missing.         *)
(*                                                                         *)
(* In this order: sums of limited width, the mid/side transform and the    *)
(* bits of a field; the scratch and the inductive invariant IInv of any    *)
(* frame; the predictor; code words; symbols and the code of a channel;    *)
(* the header, parameters and samples of an element; the layout of a       *)
(* frame; the inductive invariant SentInv of the frames an encoder makes,  *)
(* and each action on them.                                                *)
(***************************************************************************)
EXTENDS AlacDecoder, FiniteSetTheorems, FunctionTheorems, SequenceTheorems,
        ProofLibrary, TLAPS

Enc == INSTANCE AlacEncoder

-----------------------------------------------------------------------------
(* Conversions to a signed integer                                         *)

\* What n bits hold with a sign.
SignedRange(n) == -(2^(n - 1)) .. 2^(n - 1) - 1

\* A conversion to n bits gives what n bits hold, keeps what they hold already, and
\* may be left to the end of a sum.
LEMMA SignedIs ==
    ASSUME NEW n \in Nat \ {0}, NEW x \in Int
    PROVE  /\ Signed(x, n) \in SignedRange(n)
           /\ Signed(x, n) \in Int
           /\ x \in SignedRange(n) => Signed(x, n) = x
           /\ \A y \in Int : Signed(y + Signed(x, n), n) = Signed(y + x, n)
<1> DEFINE H == 2^(n - 1)
           D == 2^n
<1>1. H \in Nat \ {0} /\ D = 2 * H
  <2>1. n - 1 \in Nat /\ (n - 1) + 1 = n
    OBVIOUS
  <2>2. 2^((n - 1) + 1) = 2 * 2^(n - 1) /\ 2^(n - 1) \in Nat \ {0}
    BY <2>1, PowerOfTwo, NextPower, Zenon
  <2> QED
    BY <2>1, <2>2, Zenon
<1>2. \A z : Signed(z, n) = IF 2 * (z % D) < 2 * H THEN z % D ELSE (z % D) - D
  BY <1>1 DEF Signed
<1>3. SignedRange(n) = -H .. H - 1
  BY DEF SignedRange
<1> HIDE DEF H, D
<1>4. x % D \in 0 .. D - 1 /\ D \in Nat \ {0}
  BY <1>1
<1>5. Signed(x, n) \in -H .. H - 1 /\ Signed(x, n) \in Int
  BY <1>1, <1>2, <1>4
<1>6. x \in -H .. H - 1 => Signed(x, n) = x
  <2>1. CASE x \in 0 .. H - 1
    <3>1. x % D = x
      BY <1>1, <2>1
    <3>2. 2 * x < 2 * H
      BY <1>1, <2>1
    <3> QED
      BY <1>2, <3>1, <3>2
  <2>2. CASE x \in -H .. -1
    <3>1. x % D = x + D
      BY <1>1, <2>2
    <3> QED
      BY <1>1, <1>2, <2>2, <3>1
  <2> QED
    BY <1>1, <2>1, <2>2
<1>7. ASSUME NEW y \in Int PROVE Signed(y + Signed(x, n), n) = Signed(y + x, n)
  <2>1. \E k \in Int : Signed(x, n) = x + D * k
    <3>1. x = D * (x \div D) + (x % D) /\ x \div D \in Int
      BY <1>4, Division
    <3>2. x % D = x + D * (-(x \div D)) /\ (x % D) - D = x + D * (-(x \div D) - 1)
      BY <1>4, <3>1
    <3>3. -(x \div D) \in Int /\ -(x \div D) - 1 \in Int
      BY <3>1
    <3> QED
      BY <1>2, <3>2, <3>3
  <2>2. PICK k \in Int : Signed(x, n) = x + D * k
    BY <2>1
  <2>3. (y + x + D * k) % D = (y + x) % D
    <3>1. y + x \in Int
      OBVIOUS
    <3> QED
      BY <1>4, <3>1, Multiple, Zenon
  <2>4. y + Signed(x, n) = y + x + D * k
    BY <1>4, <2>2
  <2> QED
    BY <1>2, <2>3, <2>4
<1> QED
  BY <1>3, <1>5, <1>6, <1>7

-----------------------------------------------------------------------------
(* The mid/side transform                                                  *)

LEMMA Int16Is ==
    ASSUME NEW x
    PROVE  /\ x \in Int16 <=> x \in Int /\ -32768 <= x /\ x <= 32767
           /\ x \in Int => Signed(x, 16) \in Int16
           /\ x \in Int16 => Signed(x, 16) = x
<1>1. 2^15 = 32768 /\ 16 - 1 = 15 /\ 16 \in Nat \ {0}
  OBVIOUS
<1>2. \A y : y \in Int16 <=> y \in Int /\ -32768 <= y /\ y <= 32767
  BY <1>1 DEF Int16
<1>3. \A y : y \in SignedRange(16) <=> y \in Int /\ -32768 <= y /\ y <= 32767
  BY <1>1 DEF SignedRange
<1>4. \A y : y \in SignedRange(16) <=> y \in Int16
  BY <1>2, <1>3
<1>5. ASSUME x \in Int
      PROVE  Signed(x, 16) \in Int16 /\ (x \in Int16 => Signed(x, 16) = x)
  <2>1. Signed(x, 16) \in SignedRange(16) /\ (x \in SignedRange(16) => Signed(x, 16) = x)
    BY <1>1, <1>5, SignedIs
  <2> QED
    BY <1>4, <2>1
<1> QED
  BY <1>2, <1>5

LEMMA ZeroIs16 == 0 \in Int16
<1>1. 2^15 = 32768
  OBVIOUS
<1> QED
  BY <1>1 DEF Int16

LEMMA Bits17 ==
    ASSUME NEW x \in Int, -65536 <= x, x <= 65535
    PROVE  x \in SignedRange(17)
<1>1. 2^16 = 65536 /\ 17 - 1 = 16
  OBVIOUS
<1> QED
  BY <1>1 DEF SignedRange

\* What lies between two numbers D times over lies between them.
LEMMA Quotient ==
    ASSUME NEW D \in Nat \ {0}, NEW y \in Int, NEW lo \in Int, NEW hi \in Int,
           D * lo <= y, y <= D * hi
    PROVE  lo <= y \div D /\ y \div D <= hi
<1> DEFINE q == y \div D
           m == y % D
<1>1. y = D * q + m /\ m \in 0 .. D - 1 /\ q \in Int
  BY Division
<1> HIDE DEF q, m
<1>2. lo <= q
  <2>1. CASE q + 1 <= lo
    <3>1. D * (q + 1) <= D * lo
      BY <1>1, <2>1
    <3>2. D * (q + 1) = D * q + D
      BY <1>1
    <3> QED
      BY <1>1, <3>1, <3>2
  <2> QED
    BY <1>1, <2>1
<1>3. q <= hi
  <2>1. CASE q >= hi + 1
    <3>1. D * q >= D * (hi + 1)
      BY <1>1, <2>1
    <3>2. D * (hi + 1) = D * hi + D
      BY <1>1
    <3> QED
      BY <1>1, <3>1, <3>2
  <2> QED
    BY <1>1, <2>1
<1> QED
  BY <1>2, <1>3 DEF q

\* A weighted mean of two numbers lies between bounds of both.
LEMMA Mean ==
    ASSUME NEW D \in Nat \ {0}, NEW m \in 0 .. D, NEW lo \in Int, NEW hi \in Int,
           NEW l \in Int, lo <= l, l <= hi, NEW r \in Int, lo <= r, r <= hi
    PROVE  LET u == (m * l + (D - m) * r) \div D IN u \in Int /\ lo <= u /\ u <= hi
<1> DEFINE k == D - m
           y == m * l + k * r
<1>1. m \in Nat /\ k \in Nat /\ D = m + k
  OBVIOUS
<1> HIDE DEF k
<1>2. m * lo <= m * l /\ m * l <= m * hi
  BY <1>1
<1>3. k * lo <= k * r /\ k * r <= k * hi
  BY <1>1
<1>4. D * lo = m * lo + k * lo /\ D * hi = m * hi + k * hi
  BY <1>1
<1>5. y \in Int /\ D * lo <= y /\ y <= D * hi
  BY <1>1, <1>2, <1>3, <1>4
<1> HIDE DEF y
<1>6. y \div D \in Int /\ lo <= y \div D /\ y \div D <= hi
  BY <1>5, Quotient, Division
<1> QED
  BY <1>6 DEF y, k

\* unmix16 gives back the two samples the sender mixed, whatever the samples and
\* whatever the weight; and a weight of at most 1 keeps the pair in its 17 bits.
THEOREM MixUndone ==
    ASSUME NEW l \in Int16, NEW r \in Int16, NEW mixBits \in Nat, NEW mixRes \in Int
    PROVE  LET pair == Enc!Mix(<<l, r>>, mixBits, mixRes)
           IN  /\ Unmixed(pair[1], pair[2], mixBits, mixRes) = <<l, r>>
               /\ mixRes \in 0 .. 2^mixBits =>
                     pair[1] \in SignedRange(17) /\ pair[2] \in SignedRange(17)
<1> DEFINE D == 2^mixBits
           pair == Enc!Mix(<<l, r>>, mixBits, mixRes)
           v == l - r
           w == (mixRes * v) \div D
           u == (mixRes * l + (D - mixRes) * r) \div D
<1>1. D \in Nat \ {0}
  BY PowerOfTwo
<1>2. /\ l \in Int /\ -32768 <= l /\ l <= 32767
      /\ r \in Int /\ -32768 <= r /\ r <= 32767
      /\ Signed(l, 16) = l /\ Signed(r, 16) = r
  BY Int16Is
<1>3. CASE mixRes = 0
  <2>1. pair = <<l, r>>
    BY <1>3 DEF Enc!Mix
  <2>2. Unmixed(l, r, mixBits, mixRes) = <<Signed(l, 16), Signed(r, 16)>>
    BY <1>3 DEF Unmixed
  <2>3. l \in SignedRange(17) /\ r \in SignedRange(17)
    BY <1>2, Bits17
  <2>4. pair[1] = l /\ pair[2] = r
    BY <2>1
  <2>5. Unmixed(l, r, mixBits, mixRes) = <<l, r>>
    BY <1>2, <2>2
  <2> QED
    BY <2>3, <2>4, <2>5, Zenon
<1>4. CASE mixRes # 0
  <2>1. pair[1] = u /\ pair[2] = v
    <3>1. pair = <<u, v>>
      BY <1>4 DEF Enc!Mix
    <3> HIDE DEF pair, u, v
    <3> QED
      BY <3>1
  <2>2. u = r + w /\ w \in Int /\ v \in Int
    <3> DEFINE x == mixRes * v
    <3>1. mixRes * l + (D - mixRes) * r = x + D * r /\ x \in Int /\ r \in Int
      BY <1>1, <1>2
    <3>2. (x + D * r) \div D = x \div D + r /\ x \div D \in Int
      <4> HIDE DEF x, D
      <4> QED
        BY <1>1, <3>1, Multiple, Division
    <3> HIDE DEF D, x
    <3>3. u = x \div D + r
      BY <3>1, <3>2
    <3>4. w = x \div D
      BY DEF x
    <3>5. v \in Int
      BY <1>2
    <3> QED
      BY <3>1, <3>2, <3>3, <3>4, <3>5
  <2>3. Unmixed(u, v, mixBits, mixRes) = <<Signed(u + v - w, 16), Signed((u + v - w) - v, 16)>>
    <3> HIDE DEF u, v
    <3>1. u + v - w \in Int /\ v \in Int
      BY <1>2, <2>2 DEF v
    <3> QED
      BY <1>4, <3>1, Zenon DEF Unmixed
  <2>4. u + v - w = l /\ (u + v - w) - v = r
    <3> HIDE DEF u, w
    <3> QED
      BY <1>2, <2>2
  <2>5. Unmixed(u, v, mixBits, mixRes) = <<l, r>>
    <3>1. Signed(l, 16) = l /\ Signed(r, 16) = r
      BY <1>2
    <3> HIDE DEF u, v, w
    <3> QED
      BY <2>3, <2>4, <3>1, Zenon
  <2>6. v \in SignedRange(17)
    BY <1>2, Bits17
  <2>7. ASSUME mixRes \in 0 .. D PROVE u \in SignedRange(17)
    <3>1. u \in Int /\ -32768 <= u /\ u <= 32767
      <4> HIDE DEF D
      <4> QED
        BY <1>1, <1>2, <2>7, Mean
    <3> HIDE DEF u
    <3> QED
      BY <3>1, Bits17
  <2> HIDE DEF u, v
  <2> QED
    BY <2>1, <2>5, <2>6, <2>7, Zenon
<1> QED
  BY <1>3, <1>4

-----------------------------------------------------------------------------
(* The bit reader                                                          *)

\* A field of n bits is a number below 2^n.
LEMMA FieldIs ==
    ASSUME NEW w, NEW i \in Nat, NEW n \in Nat, \A k \in 1 .. n : w[i + k - 1] \in Bits
    PROVE  Field(w, i, n) \in Nat /\ Field(w, i, n) < 2^n
<1> DEFINE Body(f) == [k \in 0 .. n |-> IF k = 0 THEN 0 ELSE 2 * f[k - 1] + w[i + k - 1]]
           step == [k \in 1 .. n |-> [x \in Nat |-> 2 * x + w[i + k - 1]]]
           g == CHOOSE f : f = Body(f)
           P == {k \in 0 .. n : g[k] \in Nat /\ g[k] < 2^k}
<1>1. step \in [1 .. n -> [Nat -> Nat]]
  BY DEF Bits
<1>2. PICK f : IsRun(f, n, Nat, 0, step)
  <2> HIDE DEF step
  <2> QED
    BY <1>1, Rounds
<1>3. f = Body(f)
  <2>1. /\ f = [k \in 0 .. n |-> IF k = 0 THEN 0 ELSE step[k][f[k - 1]]]
        /\ f \in [0 .. n -> Nat]
    <3> HIDE DEF step
    <3>1. 0 \in Nat
      OBVIOUS
    <3>2. f = [k \in 0 .. n |-> IF k = 0 THEN 0 ELSE step[k][f[k - 1]]]
      BY <1>1, <1>2, <3>1, RunIs
    <3> QED
      BY <1>2, <3>2 DEF IsRun
  <2>2. \A k \in 0 .. n : k # 0 => k \in 1 .. n /\ k - 1 \in 0 .. n
    OBVIOUS
  <2>3. \A k \in 0 .. n : k # 0 => step[k][f[k - 1]] = 2 * f[k - 1] + w[i + k - 1]
    BY <2>1, <2>2
  <2> HIDE DEF step
  <2> QED
    BY <2>1, <2>3
<1>4. g = Body(g)
  <2> HIDE DEF Body
  <2> QED
    BY <1>3
<1>5. Field(w, i, n) = g[n]
  BY DEF Field
<1> HIDE DEF g
<1>6. g[0] = 0 /\ \A k \in 1 .. n : g[k] = 2 * g[k - 1] + w[i + k - 1]
  <2>1. \A k \in 0 .. n : g[k] = IF k = 0 THEN 0 ELSE 2 * g[k - 1] + w[i + k - 1]
    BY <1>4
  <2>2. 0 \in 0 .. n /\ \A k \in 1 .. n : k \in 0 .. n /\ k # 0
    OBVIOUS
  <2> QED
    BY <2>1, <2>2
<1>7. 0 \in P
  BY <1>6
<1>8. ASSUME NEW k \in 1 .. n, k - 1 \in P PROVE k \in P
  <2> DEFINE h == 2^(k - 1)
  <2>1. h \in Nat /\ 2^k = 2 * h
    <3>1. k - 1 \in Nat /\ (k - 1) + 1 = k
      OBVIOUS
    <3> QED
      BY <3>1, PowerOfTwo, NextPower
  <2>2. g[k] = 2 * g[k - 1] + w[i + k - 1] /\ w[i + k - 1] \in {0, 1}
    BY <1>6 DEF Bits
  <2>3. g[k - 1] \in Nat /\ g[k - 1] < h
    BY <1>8
  <2> HIDE DEF h
  <2>4. g[k] \in Nat /\ g[k] < 2 * h
    BY <2>1, <2>2, <2>3
  <2> QED
    BY <2>1, <2>4
<1>9. n \in P
  <2>1. n \in 0 .. n
    OBVIOUS
  <2> HIDE DEF P
  <2> QED
    BY <1>7, <1>8, <2>1, UpTo
<1> QED
  BY <1>5, <1>9

LEMMA WindowIs ==
    ASSUME NEW buf \in Seq(Bits), NEW p \in Nat, NEW width \in Nat
    PROVE  \A i \in 0 .. width - 1 : Window(buf, p, width)[i] \in Bits
<1>1. \A j \in Nat : Bit(buf, j) \in Bits
  <2> SUFFICES ASSUME NEW j \in Nat PROVE Bit(buf, j) \in Bits
    OBVIOUS
  <2>1. CASE j < Len(buf)
    <3>1. j + 1 \in 1 .. Len(buf)
      BY <2>1
    <3> HIDE DEF Bits
    <3>2. buf[j + 1] \in Bits
      BY <3>1
    <3> QED
      BY <2>1, <3>2 DEF Bit
  <2>2. CASE ~(j < Len(buf))
    BY <2>2 DEF Bit, Bits
  <2> QED
    BY <2>1, <2>2
<1>2. 0 \in Bits
  BY DEF Bits
<1>3. \A i \in 0 .. width - 1 : p + i \in Nat
  OBVIOUS
<1> QED
  BY <1>1, <1>2, <1>3 DEF Window

\* A field that lies within a load.
LEMMA LoadIs ==
    ASSUME NEW buf \in Seq(Bits), NEW p \in Nat, NEW width \in Nat,
           NEW i \in Nat, NEW n \in Nat, i + n <= width
    PROVE  Field(Window(buf, p, width), i, n) \in Nat
           /\ Field(Window(buf, p, width), i, n) < 2^n
<1>1. \A k \in 1 .. n : i + k - 1 \in 0 .. width - 1
  OBVIOUS
<1>2. \A k \in 1 .. n : Window(buf, p, width)[i + k - 1] \in Bits
  BY <1>1, WindowIs
<1> QED
  BY <1>2, FieldIs

LEMMA ReadIs ==
    ASSUME NEW buf \in Seq(Bits), NEW p \in Nat, NEW n \in 0 .. 16
    PROVE  Read(buf, p, n) \in Nat /\ Read(buf, p, n) < 2^n
<1>1. n \in Nat /\ 0 + n <= 24 /\ n <= 16
  OBVIOUS
<1>2. Read(buf, p, n) = Field(Window(buf, p, 24), 0, n)
  BY <1>1 DEF Read
<1> QED
  BY <1>1, <1>2, LoadIs

\* Some number of bits from 1 to 32 are needed for a number.
LEMMA LeadIs ==
    ASSUME NEW m \in Nat
    PROVE  /\ Lead(m) \in 1 .. 32
           /\ m < 128 => Lead(m) >= 25
           /\ m >= 3 => Lead(m) <= 30
<1> DEFINE Fits(j) == j < 32 => 2^(31 - j) <= m
           R == {j \in 1 .. 32 : Fits(j)}
           Is(j) == /\ Fits(j)
                    /\ j > 1 => m \div 2^(31 - j + 1) = 0
<1>1. 32 \in R /\ R \subseteq Nat
  OBVIOUS
<1>2. PICK j \in R : \A k \in R : j <= k
  <2> HIDE DEF R
  <2> QED
    BY <1>1, LeastNumber
<1>3. j \in 1 .. 32 /\ Is(j)
  <2>1. j \in 1 .. 32 /\ Fits(j)
    OBVIOUS
  <2>2. ASSUME j > 1 PROVE m \div 2^(31 - j + 1) = 0
    <3>1. j - 1 \in 1 .. 32 /\ ~(j <= j - 1) /\ j - 1 < 32 /\ 31 - (j - 1) = 31 - j + 1
      BY <2>1, <2>2
    <3>2. ~(j - 1 \in R)
      <4> HIDE DEF R
      <4> QED
        BY <1>2, <3>1
    <3>3. ~(2^(31 - (j - 1)) <= m)
      BY <3>1, <3>2
    <3> DEFINE d == 2^(31 - j + 1)
    <3>4. d \in Nat \ {0}
      <4>1. 31 - j + 1 \in Nat
        BY <2>1
      <4> QED
        BY <4>1, PowerOfTwo
    <3>5. m < d
      <4>1. ~(d <= m)
        BY <3>1, <3>3
      <4> HIDE DEF d
      <4> QED
        BY <3>4, <4>1
    <3> HIDE DEF d
    <3>6. m \div d = 0
      BY <3>4, <3>5
    <3> QED
      BY <3>6 DEF d
  <2> QED
    BY <2>1, <2>2
<1> DEFINE l == Lead(m)
<1>4. l \in 1 .. 32 /\ Is(l)
  <2>1. l = CHOOSE k \in 1 .. 32 : Is(k)
    BY DEF Lead
  <2> HIDE DEF l, Is
  <2> QED
    BY <1>3, <2>1
<1> HIDE DEF l
<1>5. m < 128 => l >= 25
  <2> SUFFICES ASSUME m < 128, l < 25 PROVE FALSE
    BY <1>4
  <2> DEFINE e == 31 - l
  <2>1. e \in 7 .. 31 /\ 2^e <= m
    BY <1>4
  <2>2. \A k \in 7 .. 31 : 2^k >= 128
    <3>1. 2^7 = 128
      OBVIOUS
    <3> DEFINE Q == {k \in 0 .. 24 : 2^(k + 7) >= 128}
    <3>2. 0 \in Q
      BY <3>1
    <3>3. ASSUME NEW k \in 1 .. 24, k - 1 \in Q PROVE k \in Q
      <4>1. (k - 1) + 7 \in Nat /\ ((k - 1) + 7) + 1 = k + 7 /\ k \in 0 .. 24
        OBVIOUS
      <4>2. 2^(k + 7) = 2 * 2^((k - 1) + 7) /\ 2^((k - 1) + 7) \in Nat
        BY <4>1, PowerOfTwo, NextPower
      <4>3. 2^((k - 1) + 7) >= 128
        BY <3>3
      <4> QED
        BY <4>1, <4>2, <4>3
    <3>4. \A k \in 0 .. 24 : k \in Q
      <4> HIDE DEF Q
      <4> QED
        BY <3>2, <3>3, UpTo
    <3>5. \A k \in 7 .. 31 : k - 7 \in 0 .. 24 /\ (k - 7) + 7 = k
      OBVIOUS
    <3> QED
      BY <3>4, <3>5
  <2>3. 2^e \in Nat
    BY <2>1, PowerOfTwo
  <2>4. 2^e >= 128
    BY <2>1, <2>2, Zenon
  <2> DEFINE d == 2^e
  <2>5. d \in Nat /\ d <= m /\ d >= 128
    BY <2>1, <2>3, <2>4
  <2> HIDE DEF d
  <2> QED
    BY <2>5
<1>6. m >= 3 => l <= 30
  <2> SUFFICES ASSUME m >= 3, l > 30 PROVE FALSE
    BY <1>4
  <2>1. l = 31 \/ l = 32
    BY <1>4
  <2>2. 2^0 = 1 /\ 2^1 = 2
    OBVIOUS
  <2>3. m \div 1 # 0 /\ m \div 2 # 0
    OBVIOUS
  <2>4. CASE l = 31
    <3>1. 31 - l + 1 = 1 /\ l > 1
      BY <2>4
    <3> QED
      BY <1>4, <2>2, <2>3, <3>1
  <2>5. CASE l = 32
    <3>1. 31 - l + 1 = 0 /\ l > 1
      BY <2>5
    <3> QED
      BY <1>4, <2>2, <2>3, <3>1
  <2> QED
    BY <2>1, <2>4, <2>5
<1> QED
  BY <1>4, <1>5, <1>6 DEF l

-----------------------------------------------------------------------------
(* The adaptive Golomb code                                                *)

LEMMA PrefixIs ==
    ASSUME NEW w, \A i \in 0 .. 31 : w[i] \in Bits
    PROVE  /\ Prefix(w) \in 0 .. 32 /\ \A i \in 0 .. Prefix(w) - 1 : w[i] = 1
           /\ Prefix(w) < 32 => w[Prefix(w)] = 0
<1> DEFINE Ends(j) == j < 32 => w[j] = 0
           R == {j \in 0 .. 32 : Ends(j)}
           Is(j) == (\A i \in 0 .. j - 1 : w[i] = 1) /\ Ends(j)
<1>1. 32 \in R /\ R \subseteq Nat
  OBVIOUS
<1>2. PICK j \in R : \A k \in R : j <= k
  <2> HIDE DEF R
  <2> QED
    BY <1>1, LeastNumber
<1>3. j \in 0 .. 32 /\ Is(j)
  <2>1. j \in 0 .. 32 /\ Ends(j)
    OBVIOUS
  <2>2. ASSUME NEW i \in 0 .. j - 1 PROVE w[i] = 1
    <3>1. i \in 0 .. 32 /\ i < 32 /\ ~(j <= i) /\ i \in 0 .. 31
      BY <2>1, <2>2
    <3>2. i \notin R
      <4> HIDE DEF R
      <4> QED
        BY <1>2, <3>1
    <3>3. w[i] # 0
      BY <3>1, <3>2
    <3> QED
      BY <3>1, <3>3 DEF Bits
  <2> QED
    BY <2>1, <2>2
<1>4. Prefix(w) = CHOOSE k \in 0 .. 32 : Is(k)
  BY DEF Prefix
<1> HIDE DEF Is
<1>5. Prefix(w) \in 0 .. 32 /\ Is(Prefix(w))
  BY <1>3, <1>4
<1> QED
  BY <1>5 DEF Is

\* Every code word stands for a number, and ends after it began.
LEMMA DynGetIs ==
    ASSUME NEW buf \in Seq(Bits), NEW p \in Nat, NEW m \in Nat, NEW k \in 1 .. 16
    PROVE  /\ DynGet(buf, p, m, k).n \in Nat
           /\ DynGet(buf, p, m, k).pos \in Nat /\ DynGet(buf, p, m, k).pos >= p
<1> DEFINE w == Window(buf, p, 32)
           pre == Prefix(w)
           v == Field(w, pre + 1, k)
<1>1. pre \in 0 .. 32
  <2>1. \A i \in 0 .. 31 : w[i] \in Bits
    <3>1. 32 \in Nat /\ 32 - 1 = 31
      OBVIOUS
    <3> QED
      BY <3>1, WindowIs
  <2> HIDE DEF w
  <2> QED
    BY <2>1, PrefixIs
<1>2. DynGet(buf, p, m, k)
        = IF pre >= 9 THEN [n |-> Field(w, 9, 16), pos |-> p + 9 + 16]
          ELSE IF v < 2 THEN [n |-> pre * m, pos |-> p + pre + k]
          ELSE [n |-> pre * m + v - 1, pos |-> p + pre + 1 + k]
  BY Zenon DEF DynGet, MaxPrefix, RunBits
<1>3. Field(w, 9, 16) \in Nat
  <2>1. 9 \in Nat /\ 16 \in Nat /\ 32 \in Nat /\ 9 + 16 <= 32
    OBVIOUS
  <2> QED
    BY <2>1, LoadIs
<1>4. pre < 9 => v \in Nat
  <2> HIDE DEF pre
  <2> SUFFICES ASSUME pre < 9 PROVE v \in Nat
    OBVIOUS
  <2>1. pre + 1 \in Nat /\ k \in Nat /\ 32 \in Nat /\ (pre + 1) + k <= 32
    BY <1>1
  <2> QED
    BY <2>1, LoadIs
<1> HIDE DEF pre, v, w
<1>5. pre * m \in Nat
  BY <1>1
<1>6. CASE pre >= 9
  <2>1. p + 9 + 16 \in Nat /\ p + 9 + 16 >= p
    OBVIOUS
  <2> QED
    BY <1>2, <1>3, <1>6, <2>1
<1>7. CASE pre < 9
  <2>1. /\ v \in Nat /\ p + pre + k \in Nat /\ p + pre + 1 + k \in Nat /\ ~(pre >= 9)
        /\ p + pre + k >= p /\ p + pre + 1 + k >= p
    BY <1>1, <1>4, <1>7
  <2> DEFINE x == pre * m
  <2>2. x \in Nat
    BY <1>5
  <2> HIDE DEF x
  <2>3. CASE v < 2
    <3>1. DynGet(buf, p, m, k) = [n |-> x, pos |-> p + pre + k]
      BY <1>2, <2>1, <2>3 DEF x
    <3> QED
      BY <2>1, <2>2, <3>1
  <2>4. CASE ~(v < 2)
    <3>1. DynGet(buf, p, m, k) = [n |-> x + v - 1, pos |-> p + pre + 1 + k]
      BY <1>2, <2>1, <2>4 DEF x
    <3>2. x + v - 1 \in Nat
      BY <2>1, <2>2, <2>4
    <3> QED
      BY <2>1, <3>1, <3>2
  <2> QED
    BY <2>3, <2>4
<1> QED
  BY <1>1, <1>6, <1>7

LEMMA DynGet32bitIs ==
    ASSUME NEW buf \in Seq(Bits), NEW p \in Nat, NEW m \in Nat, NEW k \in 1 .. 16,
           NEW maxbits \in 0 .. 40
    PROVE  /\ DynGet32bit(buf, p, m, k, maxbits).n \in Nat
           /\ DynGet32bit(buf, p, m, k, maxbits).pos \in Nat
<1> DEFINE w == Window(buf, p, 32)
           pre == Prefix(w)
           e == StreamBits(buf, p + 9, maxbits)
<1>1. pre \in 0 .. 32
  <2>1. \A i \in 0 .. 31 : w[i] \in Bits
    <3>1. 32 \in Nat /\ 32 - 1 = 31
      OBVIOUS
    <3> QED
      BY <3>1, WindowIs
  <2> HIDE DEF w
  <2> QED
    BY <2>1, PrefixIs
<1>2. DynGet32bit(buf, p, m, k, maxbits)
        = IF pre >= 9 THEN [n |-> e, pos |-> p + 9 + maxbits]
          ELSE IF k = 1 THEN [n |-> pre, pos |-> p + pre + 1]
          ELSE DynGet(buf, p, m, k)
  BY Zenon DEF DynGet32bit, MaxPrefix
<1>3. e \in Nat
  <2>1. p + 9 \in Nat /\ maxbits \in Nat /\ 40 \in Nat /\ 0 + maxbits <= 40
    OBVIOUS
  <2> QED
    BY <2>1, LoadIs DEF StreamBits
<1>4. p + 9 + maxbits \in Nat /\ pre \in Nat /\ p + pre + 1 \in Nat
  <2> HIDE DEF pre
  <2> QED
    BY <1>1
<1> HIDE DEF pre, e
<1> DEFINE d == DynGet32bit(buf, p, m, k, maxbits)
<1>5. CASE pre >= 9
  <2>1. d = [n |-> e, pos |-> p + 9 + maxbits]
    BY <1>2, <1>5
  <2> QED
    BY <1>3, <1>4, <2>1
<1>6. CASE ~(pre >= 9) /\ k = 1
  <2>1. d = [n |-> pre, pos |-> p + pre + 1]
    BY <1>2, <1>6
  <2> QED
    BY <1>4, <2>1
<1>7. CASE ~(pre >= 9) /\ k # 1
  <2>1. d = DynGet(buf, p, m, k)
    BY <1>2, <1>7
  <2> QED
    BY <2>1, DynGetIs
<1> QED
  BY <1>5, <1>6, <1>7

Symbols == [c : Nat, mb : Nat, zmode : {0, 1}]

\* The mean never goes below zero: the weight of the newest residual is below 1.
LEMMA MeanIs ==
    ASSUME NEW a \in Symbols, NEW n \in Nat, NEW weight \in 0 .. 511
    PROVE  NextMean(a, n, weight) \in Nat
<1> DEFINE x == weight * (n + a.zmode)
           y == weight * a.mb
           b == a.mb
<1>1. b \in Nat /\ a.zmode \in {0, 1}
  BY DEF Symbols
<1>2. x \in Nat /\ y \in Nat /\ y <= 512 * b
  <2>1. n + a.zmode \in Nat
    BY <1>1
  <2>2. x \in Nat
    BY <2>1
  <2> HIDE DEF b
  <2>3. weight * b \in Nat /\ weight * b <= 512 * b
    BY <1>1
  <2> QED
    BY <2>2, <2>3 DEF b
<1>3. 2^9 = 512
  OBVIOUS
<1>4. NextMean(a, n, weight) = IF n > 65535 THEN 65535 ELSE x + (b - (y \div 512))
  <2>1. NextMean(a, n, weight) = IF n > 65535 THEN 65535 ELSE x + b - y \div 2^9
    BY DEF NextMean, MeanClamp, QbShift
  <2> HIDE DEF x, y, b
  <2> QED
    BY <1>3, <2>1
<1> HIDE DEF x, y, b
<1>5. y \div 512 \in Int /\ y \div 512 <= b
  BY <1>1, <1>2
<1> QED
  BY <1>1, <1>2, <1>4, <1>5

\* The suffix of a residual is of 1 to 16 bits, and so is that of a run's length.
LEMMA WidthIs ==
    ASSUME NEW mb \in Nat, NEW kb \in 1 .. 16
    PROVE  Least(Lg3a(mb \div 2^QbShift), kb) \in 1 .. 16
<1> DEFINE x == mb \div 2^QbShift
           lead == Lead(x + 3)
<1>1. x \in Nat
  <2>1. 2^9 = 512
    OBVIOUS
  <2>2. mb \div 512 \in Nat
    OBVIOUS
  <2> QED
    BY <2>1, <2>2 DEF QbShift
<1> HIDE DEF x
<1>2. x + 3 \in Nat /\ x + 3 >= 3
  BY <1>1
<1>3. lead \in 1 .. 30
  <2>1. lead \in 1 .. 32 /\ lead <= 30
    BY <1>2, LeadIs
  <2> HIDE DEF lead
  <2> QED
    BY <2>1
<1> HIDE DEF lead
<1>4. Lg3a(x) = 31 - lead
  BY DEF Lg3a, lead
<1>5. Least(31 - lead, kb) \in 1 .. 16
  BY <1>3 DEF Least
<1> QED
  BY <1>4, <1>5 DEF x

LEMMA RunWidthIs ==
    ASSUME NEW mean \in Nat, RunFollows(mean)
    PROVE  RunWidth(mean) \in 1 .. 16
<1> DEFINE kz == RunWidth(mean)
           lead == Lead(mean)
<1>1. mean < 128
  <2>1. 2^9 = 512
    OBVIOUS
  <2> QED
    BY <2>1 DEF RunFollows, QbShift
<1>2. lead \in 25 .. 32
  <2>1. lead \in 1 .. 32 /\ lead >= 25
    BY <1>1, LeadIs
  <2> HIDE DEF lead
  <2> QED
    BY <2>1
<1> HIDE DEF lead
<1>3. (mean + 16) \div 64 \in 0 .. 2
  BY <1>1
<1> DEFINE q == (mean + 16) \div 64
<1>4. kz = lead - 24 + q
  BY DEF RunWidth, lead
<1>5. q \in 0 .. 2
  BY <1>3
<1> HIDE DEF kz, q
<1>6. lead - 24 + q \in 1 .. 16
  BY <1>2, <1>5
<1> QED
  BY <1>4, <1>6 DEF kz

\* What dynGet32bit makes of the bits at p, before the mean changes.
ResidualRead(buf, p, a, kb, maxbits) ==
    LET k == Least(Lg3a(a.mb \div 2^QbShift), kb)
    IN  DynGet32bit(buf, p, 2^k - 1, k, maxbits)

\* One iteration of dynDecomp's loop: the residual is a number, at least one sample
\* is written, and no run is coded after the last one.
LEMMA DynStepIs ==
    ASSUME NEW buf \in Seq(Bits), NEW p \in Nat, NEW a \in Symbols, NEW num \in Nat,
           NEW weight \in 0 .. 511, NEW kb \in 1 .. 16, NEW maxbits \in 0 .. 40
    PROVE  LET step == DynStep(buf, p, a, num, weight, kb, maxbits) IN
           /\ step.del \in Int /\ step.pos \in Nat /\ step.ag \in Symbols
           /\ step.ag.c > a.c
           /\ step.pos >= ResidualRead(buf, p, a, kb, maxbits).pos
<1> DEFINE k == Least(Lg3a(a.mb \div 2^QbShift), kb)
           r == DynGet32bit(buf, p, 2^k - 1, k, maxbits)
           mean == NextMean(a, r.n, weight)
           kz == RunWidth(mean)
           mz == (2^kz - 1) % 2^kb
           z == DynGet(buf, r.pos, mz, kz)
           run == RunFollows(mean) /\ a.c + 1 < num
           step == DynStep(buf, p, a, num, weight, kb, maxbits)
<1>7. step = [del |-> Residual(r.n + a.zmode),
              run |-> IF run THEN z.n ELSE 0,
              pos |-> IF run THEN z.pos ELSE r.pos,
              ag  |-> IF run
                      THEN [c |-> a.c + 1 + z.n, mb |-> 0,
                            zmode |-> IF z.n >= 65535 THEN 0 ELSE 1]
                      ELSE [c |-> a.c + 1, mb |-> mean, zmode |-> 0]]
  BY DEF DynStep
<1>1. a.c \in Nat /\ a.mb \in Nat /\ a.zmode \in {0, 1}
  BY DEF Symbols
<1>2. k \in 1 .. 16
  BY <1>1, WidthIs
<1> HIDE DEF k
<1>3. 2^k - 1 \in Nat
  <2> DEFINE d == 2^k
  <2>1. k \in Nat
    BY <1>2
  <2>2. d \in Nat \ {0}
    BY <2>1, PowerOfTwo
  <2> HIDE DEF d
  <2>3. d - 1 \in Nat
    BY <2>2
  <2> QED
    BY <2>3 DEF d
<1>4. r.n \in Nat /\ r.pos \in Nat
  BY <1>2, <1>3, DynGet32bitIs
<1> HIDE DEF r
<1>5. mean \in Nat
  BY <1>4, MeanIs
<1> HIDE DEF mean
<1>6. ASSUME run PROVE z.n \in Nat /\ z.pos \in Nat /\ z.pos >= r.pos
  <2>1. kz \in 1 .. 16
    BY <1>5, <1>6, RunWidthIs
  <2> HIDE DEF kz
  <2>2. mz \in Nat
    <3> DEFINE d == 2^kb
               e == 2^kz
    <3>1. kb \in Nat /\ kz \in Nat
      BY <2>1
    <3>2. d \in Nat \ {0} /\ e \in Nat \ {0}
      BY <3>1, PowerOfTwo
    <3> HIDE DEF d, e
    <3>3. (e - 1) % d \in Nat
      BY <3>2
    <3> QED
      BY <3>3 DEF d, e
  <2> HIDE DEF mz
  <2> QED
    BY <1>4, <2>1, <2>2, DynGetIs
<1> HIDE DEF z
<1> HIDE DEF run, step
<1>8. step.del \in Int
  <2> DEFINE n == r.n + a.zmode
  <2>1. n \in Nat
    BY <1>1, <1>4
  <2> HIDE DEF n
  <2>2. Residual(n) \in Int
    BY <2>1 DEF Residual
  <2> QED
    BY <1>7, <2>2 DEF n
<1>9. step.pos \in Nat /\ step.pos >= r.pos
  BY <1>4, <1>6, <1>7
<1>11. r = ResidualRead(buf, p, a, kb, maxbits)
  BY DEF r, k, ResidualRead
<1>10. step.ag \in Symbols /\ step.ag.c > a.c
  <2>1. CASE run
    <3> DEFINE zm == IF z.n >= 65535 THEN 0 ELSE 1
    <3>1. step.ag = [c |-> a.c + 1 + z.n, mb |-> 0, zmode |-> zm]
      BY <1>7, <2>1
    <3>2. zm \in {0, 1}
      OBVIOUS
    <3>3. z.n \in Nat
      BY <1>6, <2>1
    <3>4. a.c + 1 + z.n \in Nat /\ a.c + 1 + z.n > a.c
      BY <1>1, <3>3
    <3> HIDE DEF zm
    <3> QED
      BY <3>1, <3>2, <3>4 DEF Symbols
  <2>2. CASE ~run
    <3>1. step.ag = [c |-> a.c + 1, mb |-> mean, zmode |-> 0]
      BY <1>7, <2>2
    <3>2. a.c + 1 \in Nat /\ a.c + 1 > a.c
      BY <1>1
    <3> QED
      BY <1>5, <3>1, <3>2 DEF Symbols
  <2> QED
    BY <2>1, <2>2
<1> QED
  BY <1>8, <1>9, <1>10, <1>11 DEF step

-----------------------------------------------------------------------------
(* The predictor                                                           *)

Coefs == [0 .. 31 -> Int16]

LEMMA ShiftIs ==
    ASSUME NEW x \in Int, NEW n \in Nat
    PROVE  x \div 2^n \in Int
<1>1. 2^n \in Nat \ {0}
  BY PowerOfTwo
<1> HIDE DEF Coefs
<1> DEFINE d == 2^n
<1>2. d \in Nat \ {0}
  BY <1>1
<1> HIDE DEF d
<1>3. x \div d \in Int
  BY <1>2
<1> QED
  BY <1>3 DEF d

LEMMA DenhalfIs == \A n \in Nat : Denhalf(n) \in Int
<1> SUFFICES ASSUME NEW n \in Nat PROVE Denhalf(n) \in Int
  OBVIOUS
<1>1. CASE n = 0
  BY <1>1 DEF Denhalf
<1>2. CASE n # 0
  <2>1. n - 1 \in Nat
    BY <1>2
  <2>2. 2^(n - 1) \in Int
    BY <2>1, PowerOfTwo
  <2> QED
    BY <1>2, <2>2 DEF Denhalf
<1> QED
  BY <1>1, <1>2

\* A conversion gives a number, also one to no bits.
LEMMA SignedIsInt == \A x \in Int, n \in Nat : Signed(x, n) \in Int
<1> SUFFICES ASSUME NEW x \in Int, NEW n \in Nat PROVE Signed(x, n) \in Int
  OBVIOUS
<1> DEFINE d == 2^n
<1>1. d \in Nat \ {0}
  BY PowerOfTwo
<1>2. Signed(x, n) = IF 2 * (x % d) < d THEN x % d ELSE (x % d) - d
  BY DEF Signed
<1> HIDE DEF d
<1>3. x % d \in Int
  BY <1>1
<1> QED
  BY <1>1, <1>2, <1>3

\* The sums over the samples before j.
IsSum(g, o, j, c, num) ==
    /\ g \in [0 .. num -> Int] /\ g[0] = 0
    /\ \A k \in 1 .. num : g[k] = g[k - 1] + c[k - 1] * (o[j - k] - o[j - num - 1])

LEMMA PredictedBy ==
    ASSUME NEW L \in Nat, NEW o \in [0 .. L - 1 -> Int], NEW c \in Coefs,
           NEW num \in 0 .. 31, NEW j \in num + 1 .. L - 1, NEW shift \in Nat
    PROVE  \E g : /\ IsSum(g, o, j, c, num)
                  /\ Predicted(o, j, c, num, shift)
                       = o[j - num - 1] + (g[num] + Denhalf(shift)) \div 2^shift
<1> DEFINE top == o[j - num - 1]
           term(k) == c[k - 1] * (o[j - k] - top)
           Body(f) == [k \in 0 .. num |-> IF k = 0 THEN 0 ELSE f[k - 1] + term(k)]
           step == [k \in 1 .. num |-> [x \in Int |-> x + term(k)]]
           g == CHOOSE f : f = Body(f)
           P == {k \in 0 .. num : g[k] \in Int}
<1>1. top \in Int
  <2>1. j - num - 1 \in 0 .. L - 1
    OBVIOUS
  <2> QED
    BY <2>1
<1> HIDE DEF top
<1>2. \A k \in 1 .. num : term(k) \in Int
  <2> SUFFICES ASSUME NEW k \in 1 .. num PROVE term(k) \in Int
    OBVIOUS
  <2>1. k - 1 \in 0 .. 31 /\ j - k \in 0 .. L - 1
    OBVIOUS
  <2>2. c[k - 1] \in Int
    <3>1. c[k - 1] \in Int16
      BY <2>1 DEF Coefs
    <3> QED
      BY <3>1, Int16Is
  <2>3. o[j - k] \in Int
    BY <2>1
  <2> QED
    BY <1>1, <2>2, <2>3
<1> HIDE DEF term
<1>3. step \in [1 .. num -> [Int -> Int]]
  BY <1>2
<1>4. PICK f : IsRun(f, num, Int, 0, step)
  <2> HIDE DEF step
  <2>1. num \in Nat /\ 0 \in Int
    OBVIOUS
  <2> QED
    BY <1>3, <2>1, Rounds
<1>5. f = Body(f)
  <2>1. /\ f = [k \in 0 .. num |-> IF k = 0 THEN 0 ELSE step[k][f[k - 1]]]
        /\ f \in [0 .. num -> Int]
    <3> HIDE DEF step
    <3>1. num \in Nat /\ 0 \in Int
      OBVIOUS
    <3>2. f = [k \in 0 .. num |-> IF k = 0 THEN 0 ELSE step[k][f[k - 1]]]
      BY <1>3, <1>4, <3>1, RunIs
    <3> QED
      BY <1>4, <3>2 DEF IsRun
  <2>2. \A k \in 0 .. num : k # 0 => k \in 1 .. num /\ k - 1 \in 0 .. num
    OBVIOUS
  <2>3. \A k \in 0 .. num : k # 0 => step[k][f[k - 1]] = f[k - 1] + term(k)
    BY <2>1, <2>2
  <2> HIDE DEF step
  <2> QED
    BY <2>1, <2>3
<1>6. g = Body(g)
  <2> HIDE DEF Body
  <2> QED
    BY <1>5
<1>7. Predicted(o, j, c, num, shift) = top + (g[num] + Denhalf(shift)) \div 2^shift
  BY DEF Predicted, top, term
<1> HIDE DEF g
<1>8. g[0] = 0 /\ \A k \in 1 .. num : g[k] = g[k - 1] + term(k)
  <2>1. \A k \in 0 .. num : g[k] = IF k = 0 THEN 0 ELSE g[k - 1] + term(k)
    BY <1>6
  <2>2. 0 \in 0 .. num /\ \A k \in 1 .. num : k \in 0 .. num /\ k # 0
    OBVIOUS
  <2> QED
    BY <2>1, <2>2
<1>9. \A k \in 0 .. num : g[k] \in Int
  <2>1. 0 \in P
    BY <1>8
  <2>2. \A k \in 1 .. num : k - 1 \in P => k \in P
    BY <1>2, <1>8
  <2>3. num \in Nat
    OBVIOUS
  <2>4. \A k \in 0 .. num : k \in P
    <3> HIDE DEF P
    <3> QED
      BY <2>1, <2>2, <2>3, UpTo
  <2> QED
    BY <2>4
<1>10. g \in [0 .. num -> Int]
  BY <1>6, <1>9
<1>11. IsSum(g, o, j, c, num)
  <2>1. \A k \in 1 .. num : g[k] = g[k - 1] + c[k - 1] * (o[j - k] - o[j - num - 1])
    BY <1>8, Zenon DEF term, top
  <2> QED
    BY <1>8, <1>10, <2>1 DEF IsSum
<1> QED
  BY <1>7, <1>11 DEF top

LEMMA PredictedIs ==
    ASSUME NEW L \in Nat, NEW o \in [0 .. L - 1 -> Int], NEW c \in Coefs,
           NEW num \in 0 .. 31, NEW j \in num + 1 .. L - 1, NEW shift \in Nat
    PROVE  Predicted(o, j, c, num, shift) \in Int
<1> DEFINE top == o[j - num - 1]
<1>1. PICK g : /\ IsSum(g, o, j, c, num)
               /\ Predicted(o, j, c, num, shift)
                    = top + (g[num] + Denhalf(shift)) \div 2^shift
  BY PredictedBy
<1>2. top \in Int
  <2>1. j - num - 1 \in 0 .. L - 1
    OBVIOUS
  <2> QED
    BY <2>1
<1> DEFINE q == (g[num] + Denhalf(shift)) \div 2^shift
<1>3. q \in Int
  <2>1. g[num] \in Int /\ Denhalf(shift) \in Int
    BY <1>1, DenhalfIs DEF IsSum
  <2>2. g[num] + Denhalf(shift) \in Int
    BY <2>1
  <2> QED
    BY <2>2, ShiftIs
<1> HIDE DEF q, top
<1>4. top + q \in Int
  BY <1>2, <1>3
<1> QED
  BY <1>1, <1>4 DEF q, top

Turns == [coefs : Coefs, left : Int]

LEMMA TurnIs ==
    ASSUME NEW t \in Turns, NEW k \in 0 .. 31, NEW dd \in Int, NEW sg \in Int,
           NEW num \in Int, NEW shift \in Nat
    PROVE  Turn(t, k, dd, sg, num, shift) \in Turns
<1> DEFINE up == sg * signOfInt(dd)
           c == [t.coefs EXCEPT ![k] = Signed(@ - up, 16)]
           rest == t.left - (num - k) * ((up * dd) \div 2^shift)
<1>1. up \in Int
  <2>1. signOfInt(dd) \in Int
    BY DEF signOfInt
  <2> QED
    BY <2>1
<1>2. Turn(t, k, dd, sg, num, shift)
        = IF sg * t.left <= 0 THEN t ELSE [coefs |-> c, left |-> rest]
  BY DEF Turn
<1> HIDE DEF up
<1>3. t.coefs \in Coefs /\ t.left \in Int
  BY DEF Turns
<1>4. c \in Coefs
  <2>1. t.coefs[k] \in Int
    <3>1. t.coefs[k] \in Int16
      BY <1>3 DEF Coefs
    <3> QED
      BY <3>1, Int16Is
  <2>2. t.coefs[k] - up \in Int
    BY <1>1, <2>1
  <2>3. Signed(t.coefs[k] - up, 16) \in Int16
    BY <2>2, Int16Is
  <2> QED
    BY <1>3, <2>3 DEF Coefs
<1>5. rest \in Int
  <2> DEFINE q == (up * dd) \div 2^shift
  <2>1. up * dd \in Int
    BY <1>1
  <2>2. q \in Int
    BY <2>1, ShiftIs
  <2> HIDE DEF q
  <2>3. (num - k) * q \in Int
    BY <2>2
  <2>4. t.left - (num - k) * q \in Int
    BY <1>3, <2>3
  <2> QED
    BY <2>4 DEF q
<1> HIDE DEF c, rest
<1>6. [coefs |-> c, left |-> rest] \in Turns
  BY <1>4, <1>5 DEF Turns
<1> QED
  BY <1>2, <1>6

\* The turns of the coefficients; they stay 16 bits wide.
AreTurns(g, o, j, c, num, shift, del) ==
    /\ g \in [0 .. num -> Turns] /\ g[num] = [coefs |-> c, left |-> del]
    /\ \A k \in 0 .. num - 1 :
          g[k] = Turn(g[k + 1], k, o[j - num - 1] - o[j - 1 - k], signOfInt(del), num, shift)

LEMMA AdaptedBy ==
    ASSUME NEW L \in Nat, NEW o \in [0 .. L - 1 -> Int], NEW c \in Coefs,
           NEW num \in 0 .. 31, NEW j \in num + 1 .. L - 1, NEW shift \in Nat, NEW del \in Int
    PROVE  \E g : /\ AreTurns(g, o, j, c, num, shift, del)
                  /\ Adapted(o, j, c, num, shift, del) = g[0].coefs
<1> DEFINE top == o[j - num - 1]
           sg == signOfInt(del)
           dd(k) == top - o[j - 1 - k]
           first == [coefs |-> c, left |-> del]
           Body(f) == [k \in 0 .. num |-> IF k = num THEN first
                                          ELSE Turn(f[k + 1], k, dd(k), sg, num, shift)]
           step == [k \in 0 .. num - 1 |-> [t \in Turns |-> Turn(t, k, dd(k), sg, num, shift)]]
           g == CHOOSE f : f = Body(f)
           P == {k \in 0 .. num : g[k] \in Turns}
<1>1. sg \in Int
  BY DEF signOfInt
<1>2. \A k \in 0 .. num - 1 : dd(k) \in Int
  <2>1. top \in Int
    <3>1. j - num - 1 \in 0 .. L - 1
      OBVIOUS
    <3> QED
      BY <3>1
  <2> HIDE DEF top
  <2> SUFFICES ASSUME NEW k \in 0 .. num - 1 PROVE dd(k) \in Int
    OBVIOUS
  <2>2. j - 1 - k \in 0 .. L - 1
    OBVIOUS
  <2>3. o[j - 1 - k] \in Int
    BY <2>2
  <2> QED
    BY <2>1, <2>3
<1>3. first \in Turns
  BY DEF Turns
<1>4. Adapted(o, j, c, num, shift, del) = g[0].coefs
  BY DEF Adapted
<1> HIDE DEF sg, dd, first, top
<1>5. num \in Nat /\ num \in Int /\ \A k \in 0 .. num - 1 : k \in 0 .. 31
  OBVIOUS
<1>6. \A k \in 0 .. num - 1 : \A t \in Turns : Turn(t, k, dd(k), sg, num, shift) \in Turns
  BY <1>1, <1>2, <1>5, TurnIs
<1>7. step \in [0 .. num - 1 -> [Turns -> Turns]]
  BY <1>6
<1>8. PICK f : IsDownRun(f, num, Turns, first, step)
  <2> HIDE DEF step
  <2> QED
    BY <1>3, <1>5, <1>7, DownRounds
<1>9. f = Body(f)
  <2>1. /\ f = [k \in 0 .. num |-> IF k = num THEN first ELSE step[k][f[k + 1]]]
        /\ f \in [0 .. num -> Turns]
    <3> HIDE DEF step
    <3>1. f = [k \in 0 .. num |-> IF k = num THEN first ELSE step[k][f[k + 1]]]
      BY <1>3, <1>5, <1>7, <1>8, DownRunIs
    <3> QED
      BY <1>8, <3>1 DEF IsDownRun
  <2>2. \A k \in 0 .. num : k # num => k \in 0 .. num - 1 /\ k + 1 \in 0 .. num
    OBVIOUS
  <2>3. \A k \in 0 .. num : k # num =>
            step[k][f[k + 1]] = Turn(f[k + 1], k, dd(k), sg, num, shift)
    BY <2>1, <2>2
  <2> HIDE DEF step
  <2> QED
    BY <2>1, <2>3
<1>10. g = Body(g)
  <2> HIDE DEF Body
  <2> QED
    BY <1>9
<1> HIDE DEF g, step
<1>11. g[num] = first /\ \A k \in 0 .. num - 1 :
                             g[k] = Turn(g[k + 1], k, dd(k), sg, num, shift)
  <2>1. \A k \in 0 .. num : g[k] = IF k = num THEN first
                                   ELSE Turn(g[k + 1], k, dd(k), sg, num, shift)
    BY <1>10
  <2>2. num \in 0 .. num /\ \A k \in 0 .. num - 1 : k \in 0 .. num /\ k # num
    OBVIOUS
  <2> QED
    BY <2>1, <2>2
<1>12. \A k \in 0 .. num : g[k] \in Turns
  <2>1. num \in P
    BY <1>3, <1>5, <1>11
  <2>2. ASSUME NEW k \in 1 .. num, k \in P PROVE k - 1 \in P
    <3>1. k - 1 \in 0 .. num - 1 /\ k - 1 \in 0 .. num /\ (k - 1) + 1 = k
      OBVIOUS
    <3>2. g[k - 1] = Turn(g[k], k - 1, dd(k - 1), sg, num, shift)
      BY <1>11, <3>1, Zenon
    <3>3. g[k] \in Turns
      BY <2>2
    <3>4. g[k - 1] \in Turns
      BY <1>6, <3>1, <3>2, <3>3
    <3> QED
      BY <3>1, <3>4
  <2>3. \A k \in 0 .. num : k \in P
    <3> HIDE DEF P
    <3> QED
      BY <1>5, <2>1, <2>2, DownFrom
  <2> QED
    BY <2>3
<1>13. g \in [0 .. num -> Turns]
  BY <1>10, <1>12
<1>14. AreTurns(g, o, j, c, num, shift, del)
  <2>1. \A k \in 0 .. num - 1 :
           g[k] = Turn(g[k + 1], k, o[j - num - 1] - o[j - 1 - k], signOfInt(del), num, shift)
    BY <1>11, Zenon DEF dd, sg, top
  <2>2. g[num] = [coefs |-> c, left |-> del]
    BY <1>11 DEF first
  <2> QED
    BY <1>13, <2>1, <2>2 DEF AreTurns
<1> QED
  BY <1>4, <1>14

LEMMA AdaptedIs ==
    ASSUME NEW L \in Nat, NEW o \in [0 .. L - 1 -> Int], NEW c \in Coefs,
           NEW num \in 0 .. 31, NEW j \in num + 1 .. L - 1, NEW shift \in Nat, NEW del \in Int
    PROVE  Adapted(o, j, c, num, shift, del) \in Coefs
<1>1. PICK g : /\ AreTurns(g, o, j, c, num, shift, del)
               /\ Adapted(o, j, c, num, shift, del) = g[0].coefs
  BY AdaptedBy
<1>2. 0 \in 0 .. num
  OBVIOUS
<1>3. g[0] \in Turns
  BY <1>1, <1>2 DEF AreTurns
<1> QED
  BY <1>1, <1>3 DEF Turns

Blocks(L) == [out : [0 .. L - 1 -> Int], coefs : Coefs]

LEMMA RoundIs ==
    ASSUME NEW L \in Nat, NEW b \in Blocks(L), NEW num \in 0 .. 31, NEW j \in 1 .. L - 1,
           NEW del \in Int, NEW chanbits \in Nat, NEW shift \in Nat
    PROVE  Round(b, j, del, num, chanbits, shift) \in Blocks(L)
<1> DEFINE x == Sample(b, j, del, num, chanbits, shift)
           o == [b.out EXCEPT ![j] = x]
           c == IF num \in {0, 31} \/ j <= num THEN b.coefs
                ELSE Adapted(b.out, j, b.coefs, num, shift, del)
<1>1. b.out \in [0 .. L - 1 -> Int] /\ b.coefs \in Coefs
  BY DEF Blocks
<1>2. ~(j <= num) => j \in num + 1 .. L - 1
  OBVIOUS
<1>3. x \in Int
  <2>1. CASE num = 0
    BY <2>1 DEF Sample
  <2>2. CASE num # 0 /\ (num = 31 \/ j \in 1 .. num)
    <3>1. x = Signed(del + b.out[j - 1], chanbits)
      BY <2>2 DEF Sample
    <3>2. b.out[j - 1] \in Int
      <4>1. j - 1 \in 0 .. L - 1
        OBVIOUS
      <4> QED
        BY <1>1, <4>1
    <3>3. del + b.out[j - 1] \in Int
      BY <3>2
    <3> QED
      BY <3>1, <3>3, SignedIsInt
  <2>3. CASE ~(num = 0) /\ ~(num = 31 \/ j \in 1 .. num)
    <3> DEFINE y == Predicted(b.out, j, b.coefs, num, shift)
    <3>1. x = Signed(del + y, chanbits)
      BY <2>3 DEF Sample
    <3>2. y \in Int
      <4>1. j \in num + 1 .. L - 1
        BY <2>3
      <4> QED
        BY <1>1, <4>1, PredictedIs
    <3> HIDE DEF y
    <3>3. del + y \in Int
      BY <3>2
    <3> QED
      BY <3>1, <3>3, SignedIsInt
  <2> QED
    BY <2>1, <2>2, <2>3
<1>4. o \in [0 .. L - 1 -> Int]
  <2> HIDE DEF x
  <2> QED
    BY <1>1, <1>3
<1>5. c \in Coefs
  <2>1. CASE num \in {0, 31} \/ j <= num
    BY <1>1, <2>1
  <2>2. CASE ~(num \in {0, 31} \/ j <= num)
    <3>1. Adapted(b.out, j, b.coefs, num, shift, del) \in Coefs
      BY <1>1, <1>2, <2>2, AdaptedIs
    <3> QED
      BY <2>2, <3>1
  <2> QED
    BY <2>1, <2>2
<1>6. Round(b, j, del, num, chanbits, shift) = [out |-> o, coefs |-> c]
  BY DEF Round
<1> HIDE DEF o, c
<1> QED
  BY <1>4, <1>5, <1>6 DEF Blocks

\* The rounds of unpcBlock: numbers within the block, and 16-bit coefficients.
AreRounds(g, pc, L, o, m, c, num, chanbits, shift) ==
    /\ g \in [0 .. m -> Blocks(L)]
    /\ g[0] = [out |-> [o EXCEPT ![0] = pc[0]], coefs |-> c]
    /\ \A j \in 1 .. m : g[j] = Round(g[j - 1], j, pc[j], num, chanbits, shift)

ComesFromRounds(pc, L, o, n, c, num, chanbits, shift) ==
    \E g : /\ AreRounds(g, pc, L, o, n - 1, c, num, chanbits, shift)
           /\ UnpcBlock(pc, o, n, c, num, chanbits, shift) = g[n - 1]

LEMMA UnpcBlockBy ==
    ASSUME NEW L \in Nat, NEW pc \in [0 .. L - 1 -> Int], NEW o \in [0 .. L - 1 -> Int],
           NEW n \in 1 .. L, NEW c \in Coefs, NEW num \in 0 .. 31,
           NEW chanbits \in Nat, NEW shift \in Nat
    PROVE  ComesFromRounds(pc, L, o, n, c, num, chanbits, shift)
<1> DEFINE m == n - 1
           first == [out |-> [o EXCEPT ![0] = pc[0]], coefs |-> c]
           Next1(b, j) == Round(b, j, pc[j], num, chanbits, shift)
           Body(f) == [j \in 0 .. m |-> IF j = 0 THEN first ELSE Next1(f[j - 1], j)]
           step == [j \in 1 .. m |-> [b \in Blocks(L) |-> Next1(b, j)]]
           g == CHOOSE f : f = Body(f)
           P == {j \in 0 .. m : g[j] \in Blocks(L)}
<1>1. m \in Nat /\ m \in 0 .. m /\ 0 \in 0 .. L - 1 /\ n # 0
  OBVIOUS
<1>2. first \in Blocks(L)
  <2>1. [o EXCEPT ![0] = pc[0]] \in [0 .. L - 1 -> Int]
    BY <1>1
  <2> QED
    BY <2>1 DEF Blocks
<1>3. \A j \in 1 .. m : \A b \in Blocks(L) : Next1(b, j) \in Blocks(L)
  <2> SUFFICES ASSUME NEW j \in 1 .. m, NEW b \in Blocks(L) PROVE Next1(b, j) \in Blocks(L)
    OBVIOUS
  <2>1. j \in 1 .. L - 1 /\ j \in 0 .. L - 1
    OBVIOUS
  <2>2. pc[j] \in Int
    BY <2>1
  <2> QED
    BY <2>1, <2>2, RoundIs
<1>4. UnpcBlock(pc, o, n, c, num, chanbits, shift) = g[m]
  BY <1>1 DEF UnpcBlock
<1> HIDE DEF Next1, first, m
<1>5. step \in [1 .. m -> [Blocks(L) -> Blocks(L)]]
  BY <1>3
<1>6. PICK f : IsRun(f, m, Blocks(L), first, step)
  <2> HIDE DEF step
  <2> QED
    BY <1>1, <1>2, <1>5, Rounds
<1>7. f = Body(f)
  <2>1. /\ f = [j \in 0 .. m |-> IF j = 0 THEN first ELSE step[j][f[j - 1]]]
        /\ f \in [0 .. m -> Blocks(L)]
    <3> HIDE DEF step
    <3>1. f = [j \in 0 .. m |-> IF j = 0 THEN first ELSE step[j][f[j - 1]]]
      BY <1>1, <1>2, <1>5, <1>6, RunIs
    <3> QED
      BY <1>6, <3>1 DEF IsRun
  <2>2. \A j \in 0 .. m : j # 0 => j \in 1 .. m /\ j - 1 \in 0 .. m
    BY <1>1
  <2>3. \A j \in 0 .. m : j # 0 => step[j][f[j - 1]] = Next1(f[j - 1], j)
    BY <2>1, <2>2
  <2> HIDE DEF step
  <2> QED
    BY <2>1, <2>3
<1>8. g = Body(g)
  <2> HIDE DEF Body
  <2> QED
    BY <1>7
<1> HIDE DEF g, step
<1>9. g[0] = first /\ \A j \in 1 .. m : g[j] = Next1(g[j - 1], j)
  <2>1. \A j \in 0 .. m : g[j] = IF j = 0 THEN first ELSE Next1(g[j - 1], j)
    BY <1>8
  <2>2. 0 \in 0 .. m /\ \A j \in 1 .. m : j \in 0 .. m /\ j # 0
    BY <1>1
  <2> QED
    BY <2>1, <2>2
<1>10. \A j \in 0 .. m : g[j] \in Blocks(L)
  <2>1. 0 \in P
    BY <1>1, <1>2, <1>9
  <2>2. \A j \in 1 .. m : j - 1 \in P => j \in P
    BY <1>3, <1>9
  <2>3. \A j \in 0 .. m : j \in P
    <3> HIDE DEF P
    <3> QED
      BY <1>1, <2>1, <2>2, UpTo
  <2> QED
    BY <2>3
<1>11. g \in [0 .. m -> Blocks(L)]
  BY <1>8, <1>10
<1>12. AreRounds(g, pc, L, o, m, c, num, chanbits, shift)
  <2>1. \A j \in 1 .. m : g[j] = Round(g[j - 1], j, pc[j], num, chanbits, shift)
    BY <1>9, Zenon DEF Next1
  <2>2. g[0] = [out |-> [o EXCEPT ![0] = pc[0]], coefs |-> c]
    BY <1>9 DEF first
  <2> QED
    BY <1>11, <2>1, <2>2 DEF AreRounds
<1> QED
  BY <1>4, <1>12 DEF m, ComesFromRounds

LEMMA UnpcBlockIs ==
    ASSUME NEW L \in Nat, NEW pc \in [0 .. L - 1 -> Int], NEW o \in [0 .. L - 1 -> Int],
           NEW n \in 1 .. L, NEW c \in Coefs, NEW num \in 0 .. 31,
           NEW chanbits \in Nat, NEW shift \in Nat
    PROVE  UnpcBlock(pc, o, n, c, num, chanbits, shift) \in Blocks(L)
<1>1. ComesFromRounds(pc, L, o, n, c, num, chanbits, shift)
  BY UnpcBlockBy
<1>2. PICK g : /\ AreRounds(g, pc, L, o, n - 1, c, num, chanbits, shift)
               /\ UnpcBlock(pc, o, n, c, num, chanbits, shift) = g[n - 1]
  BY <1>1 DEF ComesFromRounds
<1>3. n - 1 \in 0 .. n - 1
  OBVIOUS
<1>4. g \in [0 .. n - 1 -> Blocks(L)]
  BY <1>2 DEF AreRounds
<1>5. g[n - 1] \in Blocks(L)
  BY <1>3, <1>4
<1> QED
  BY <1>2, <1>5

\* An element of no samples has its first one written all the same.
LEMMA UnpcBlockStays ==
    ASSUME NEW L \in Nat \ {0}, NEW pc \in [0 .. L - 1 -> Int], NEW o \in [0 .. L - 1 -> Int],
           NEW n \in 0 .. L, NEW c \in Coefs, NEW num \in 0 .. 31,
           NEW chanbits \in Nat, NEW shift \in Nat
    PROVE  UnpcBlock(pc, o, n, c, num, chanbits, shift) \in Blocks(L)
<1>1. CASE n # 0
  <2>1. n \in 1 .. L /\ L \in Nat
    BY <1>1
  <2> QED
    BY <2>1, UnpcBlockIs
<1>2. CASE n = 0
  <2> DEFINE first == [out |-> [o EXCEPT ![0] = pc[0]], coefs |-> c]
             Body(f) == [j \in 0 .. 0 |-> IF j = 0 THEN first
                                          ELSE Round(f[j - 1], j, pc[j], num, chanbits, shift)]
             g == CHOOSE f : f = Body(f)
             once == [j \in 0 .. 0 |-> first]
  <2>1. [o EXCEPT ![0] = pc[0]] \in [0 .. L - 1 -> Int]
    OBVIOUS
  <2>2. UnpcBlock(pc, o, n, c, num, chanbits, shift) = g[0]
    BY <1>2 DEF UnpcBlock
  <2>3. \A j \in 0 .. 0 : j = 0
    OBVIOUS
  <2>4. once = Body(once)
    BY <2>3, Zenon
  <2>5. g = Body(g)
    <3> HIDE DEF Body
    <3> QED
      BY <2>4, Zenon
  <2> HIDE DEF g, first
  <2>6. g[0] = first
    <3>1. 0 \in 0 .. 0
      OBVIOUS
    <3> QED
      BY <2>5, <3>1, Zenon
  <2> QED
    BY <2>1, <2>2, <2>6 DEF Blocks, first
<1> QED
  BY <1>1, <1>2

-----------------------------------------------------------------------------
(* Any frame                                                               *)

Prms == [mode : Nat, denShift : 0 .. 15, num : 0 .. 31, pbFactor : 0 .. 7]

\* The element: no more channels than two, no wider than 17 bits, and while its
\* channels are decoded a description of each of them.
ElementInv ==
    /\ frame.bits \in Seq(Bits)
    /\ el.chans \in 0 .. 2 /\ el.chanBits \in 0 .. 17
    /\ el.mixBits \in Nat /\ el.mixRes \in Int
    /\ InChannel => /\ el.chans \in 1 .. 2
                    /\ el.prm \in [0 .. el.chans - 1 -> Prms]
                    /\ ag \in Symbols
    /\ phase = "V" => el.chans = 2

IInv == TypeOK /\ ElementInv

LEMMA InitInv == Init => IInv
<1> SUFFICES ASSUME Init PROVE IInv
  OBVIOUS
<1>1. FrameLength \in Nat \ {0} /\ NumChannels = 2 /\ Frames \in Nat
  BY ConfigAssumption
<1>2. 0 \in Int16
  BY ZeroIs16
<1>3. frame.bits \in Seq(Bits)
  BY DEF Init
<1>4. phase = "idle" /\ ~InChannel /\ pos = 0 /\ given = 0 /\ channelIndex = 0
      /\ numSamples = 0
  BY DEF Init, InChannel
<1>5. el.n = 0 /\ el.chans = 0 /\ el.chanBits = 16 /\ el.mixBits = 0 /\ el.mixRes = 0
  BY DEF Init, NoElement
<1>6. predictor \in [0 .. FrameLength - 1 -> Int]
      /\ mixBuffer \in [Channels -> [0 .. FrameLength - 1 -> Int]]
  BY DEF Init, Zeros
<1>7. /\ coefs \in [Channels -> [0 .. 31 -> Int16]]
      /\ out \in [0 .. FrameLength * NumChannels - 1 -> Int16]
  BY <1>2 DEF Init, Zeros
<1> QED
  BY <1>1, <1>3, <1>4, <1>5, <1>6, <1>7 DEF IInv, TypeOK, ElementInv

\* What the header's fields can be.
LEMMA HeaderIs ==
    ASSUME IInv
    PROVE  /\ Tag \in 0 .. 7 /\ HeaderPos \in Nat /\ BodyPos \in Nat
           /\ Shifted \in 0 .. 3 /\ Samples \in Nat
<1>1. frame.bits \in Seq(Bits) /\ pos \in Nat /\ FrameLength \in Nat
  BY ConfigAssumption DEF IInv, TypeOK, ElementInv
<1>2. 3 \in 0 .. 16 /\ 4 \in 0 .. 16 /\ 16 \in 0 .. 16
  OBVIOUS
<1>3. Tag \in 0 .. 7
  <2> DEFINE t == Read(frame.bits, pos, 3)
  <2>1. t \in Nat /\ t < 8
    <3>1. t \in Nat /\ t < 2^3
      BY <1>1, <1>2, ReadIs
    <3> HIDE DEF t
    <3>2. 2^3 = 8
      OBVIOUS
    <3> QED
      BY <3>1, <3>2
  <2> HIDE DEF t
  <2>2. t \in 0 .. 7
    BY <2>1
  <2> QED
    BY <2>2 DEF t, Tag, bits
<1>4. HeaderPos \in Nat
  BY <1>1 DEF HeaderPos
<1>5. BodyPos \in Nat
  BY <1>4 DEF BodyPos
<1>6. Shifted \in 0 .. 3
  <2>1. Flag \in Nat
    BY <1>1, <1>2, <1>4, ReadIs DEF Flag, bits
  <2>2. (Flag \div 2) % 4 \in 0 .. 3
    BY <2>1
  <2> QED
    BY <2>2 DEF Shifted
<1>7. Samples \in Nat
  <2> DEFINE hi == Read(frame.bits, HeaderPos + 4, 16)
             lo == Read(frame.bits, HeaderPos + 20, 16)
  <2>1. HeaderPos + 4 \in Nat /\ HeaderPos + 20 \in Nat
    BY <1>4
  <2>2. hi \in Nat /\ lo \in Nat
    BY <1>1, <1>2, <2>1, ReadIs
  <2>3. Samples = IF Partial THEN hi * 2^16 + lo ELSE FrameLength
    BY DEF Samples, bits
  <2> HIDE DEF hi, lo
  <2>4. hi * 2^16 + lo \in Nat
    <3>1. 2^16 = 65536
      OBVIOUS
    <3> QED
      BY <2>2, <3>1
  <2> QED
    BY <1>1, <2>3, <2>4
<1> QED
  BY <1>3, <1>4, <1>5, <1>6, <1>7

LEMMA ReadCoefsIs ==
    ASSUME frame.bits \in Seq(Bits), NEW p \in Nat, NEW old \in Coefs
    PROVE  LET r == readCoefs(p, old) IN
           /\ r.mode \in Nat /\ r.denShift \in 0 .. 15 /\ r.num \in 0 .. 31
           /\ r.pbFactor \in 0 .. 7 /\ r.coefs \in Coefs /\ r.end \in Nat
<1> DEFINE a == Read(frame.bits, p, 8)
           b == Read(frame.bits, p + 8, 8)
           num == b % 32
           read(i) == Signed(Read(frame.bits, p + 16 + 16 * i, 16), 16)
           c == [i \in 0 .. 31 |-> IF i < num THEN read(i) ELSE old[i]]
<1>1. readCoefs(p, old) = [mode |-> a \div 16, denShift |-> a % 16,
                           pbFactor |-> b \div 32, num |-> num, coefs |-> c,
                           end |-> p + 16 + 16 * num]
  BY DEF readCoefs, bits
<1>2. 8 \in 0 .. 16 /\ 16 \in 0 .. 16 /\ p + 8 \in Nat
  OBVIOUS
<1>3. a \in Nat /\ b \in Nat /\ b < 256
  <2>1. a \in Nat /\ b \in Nat /\ b < 2^8
    BY <1>2, ReadIs
  <2> HIDE DEF a, b
  <2>2. 2^8 = 256
    OBVIOUS
  <2> QED
    BY <2>1, <2>2
<1>4. c \in Coefs
  <2> SUFFICES ASSUME NEW i \in 0 .. 31 PROVE read(i) \in Int16 /\ old[i] \in Int16
    BY DEF Coefs
  <2>1. p + 16 + 16 * i \in Nat
    OBVIOUS
  <2>2. Read(frame.bits, p + 16 + 16 * i, 16) \in Int
    BY <1>2, <2>1, ReadIs
  <2>3. read(i) \in Int16
    BY <2>2, Int16Is
  <2> QED
    BY <2>3 DEF Coefs
<1> HIDE DEF a, b, c
<1>5. a \div 16 \in Nat /\ a % 16 \in 0 .. 15 /\ b \div 32 \in 0 .. 7 /\ num \in 0 .. 31
  BY <1>3
<1> HIDE DEF num
<1>6. p + 16 + 16 * num \in Nat
  BY <1>5
<1> QED
  BY <1>1, <1>4, <1>5, <1>6

\* Unmixing gives 16-bit samples, whatever the pair.
LEMMA UnmixedIs ==
    ASSUME NEW u \in Int, NEW v \in Int, NEW mixBits \in Nat, NEW mixRes \in Int
    PROVE  \A k \in 1 .. 2 : Unmixed(u, v, mixBits, mixRes)[k] \in Int16
<1> DEFINE q == (mixRes * v) \div 2^mixBits
           l == u + v - q
<1>1. q \in Int
  <2>1. mixRes * v \in Int
    OBVIOUS
  <2> QED
    BY <2>1, ShiftIs
<1>2. Unmixed(u, v, mixBits, mixRes)
        = IF mixRes # 0 THEN <<Signed(l, 16), Signed(l - v, 16)>>
          ELSE <<Signed(u, 16), Signed(v, 16)>>
  BY DEF Unmixed
<1> HIDE DEF q
<1>3. l \in Int /\ l - v \in Int
  BY <1>1
<1> HIDE DEF l
<1>4. /\ Signed(l, 16) \in Int16 /\ Signed(l - v, 16) \in Int16
      /\ Signed(u, 16) \in Int16 /\ Signed(v, 16) \in Int16
  BY <1>3, Int16Is
<1> QED
  BY <1>2, <1>4

\* Between two elements, and where the frame ends.
LEMMA DecodeInv == IInv /\ (Decode \/ End \/ BadElement \/ RefuseElement) => IInv'
<1> SUFFICES ASSUME IInv PROVE (Decode \/ End \/ BadElement \/ RefuseElement) => IInv'
  OBVIOUS
<1>1. TypeOK /\ ElementInv
  BY DEF IInv
<1>2. ASSUME Decode PROVE IInv'
  <2>1. frame'.bits \in Seq(Bits) /\ given' \in 0 .. Frames
    <3>1. given \in 0 .. Frames /\ given < Frames /\ Frames \in Nat
      BY <1>1, <1>2, ConfigAssumption DEF TypeOK, Decode
    <3>2. given + 1 \in 1 .. Frames
      BY <3>1
    <3>3. frame' \in Sent[given + 1]
      BY <1>2 DEF Decode
    <3>4. frame'.bits \in Seq({0, 1})
      BY <3>2, <3>3, SentAssumption, Zenon
    <3> QED
      BY <1>2, <3>2, <3>4 DEF Decode, Bits
  <2>2. /\ phase' = "tag" /\ pos' = 0 /\ channelIndex' = 0 /\ numSamples' = 0
        /\ el'.n = 0 /\ el'.chans = 0 /\ el'.chanBits = 16 /\ el'.mixBits = 0
        /\ el'.mixRes = 0 /\ UNCHANGED <<predictor, mixBuffer, coefs, out>>
    BY <1>2 DEF Decode, scratch, NoElement
  <2>3. ~InChannel'
    BY <2>2 DEF InChannel
  <2>4. FrameLength \in Nat
    BY ConfigAssumption
  <2>5. TypeOK'
    BY <1>1, <2>1, <2>2, <2>3, <2>4 DEF TypeOK
  <2>6. ElementInv'
    BY <2>1, <2>2, <2>3 DEF ElementInv
  <2> QED
    BY <2>5, <2>6 DEF IInv
<1>3. ASSUME End \/ BadElement \/ RefuseElement PROVE IInv'
  <2>1. HeaderPos \in Nat /\ BodyPos \in Nat
    BY HeaderIs
  <2>2. pos \in Nat
    BY <1>1 DEF TypeOK
  <2>3. pos' \in Nat
    <3>1. ASSUME End PROVE pos' \in Nat
      <4>1. pos' = 8 * ((pos + 3 + 7) \div 8)
        BY <3>1 DEF End, ByteAlign
      <4> QED
        BY <2>2, <4>1
    <3>2. ASSUME BadElement PROVE pos' \in Nat
      BY <2>2, <3>2 DEF BadElement
    <3>3. ASSUME RefuseElement PROVE pos' \in Nat
      <4>1. pos' = HeaderPos + 4 \/ pos' = BodyPos
        BY <3>3, Zenon DEF RefuseElement
      <4> QED
        BY <2>1, <4>1
    <3> QED
      BY <1>3, <3>1, <3>2, <3>3
  <2>4. /\ phase' \in {"done", "failed"}
        /\ UNCHANGED <<frame, given, channelIndex, numSamples, el, ag, predictor, mixBuffer,
                       coefs, out>>
    BY <1>3, Zenon DEF End, BadElement, RefuseElement, Fail, scratch
  <2>5. ~InChannel' /\ phase' # "V"
    BY <2>4 DEF InChannel
  <2>6. TypeOK'
    BY <1>1, <2>3, <2>4, <2>5 DEF TypeOK
  <2>7. ElementInv'
    BY <1>1, <2>4, <2>5 DEF ElementInv
  <2> QED
    BY <2>6, <2>7 DEF IInv
<1> QED
  BY <1>2, <1>3

\* A channel starts with nothing decoded.
LEMMA FreshSymbols == [c |-> 0, mb |-> MB, zmode |-> 0] \in Symbols
<1>1. MB \in Nat
  BY ConfigAssumption
<1> QED
  BY <1>1 DEF Symbols

LEMMA OpenCompressedInv == IInv /\ OpenCompressed => IInv'
<1> SUFFICES ASSUME IInv, OpenCompressed PROVE IInv'
  OBVIOUS
<1>1. TypeOK /\ ElementInv
  BY DEF IInv
<1>2. /\ Tag \in {0, 1} /\ BodyPos \in Nat /\ Shifted \in 0 .. 2
      /\ Samples \in 0 .. FrameLength
  <2>1. Tag \in {0, 1} /\ Shifted # 3 /\ ~(Samples > FrameLength)
    BY DEF OpenCompressed, Refused
  <2>2. BodyPos \in Nat /\ Shifted \in 0 .. 3 /\ Samples \in Nat /\ FrameLength \in Nat
    BY HeaderIs, ConfigAssumption
  <2> QED
    BY <2>1, <2>2
<1> DEFINE chans == ChansOf(Tag)
           u == readCoefs(BodyPos + 16, coefs[0])
           v == readCoefs(u.end, coefs[1])
           prm(r) == [mode |-> r.mode, denShift |-> r.denShift,
                      num |-> r.num, pbFactor |-> r.pbFactor]
           last == IF chans = 2 THEN v ELSE u
           width == ChanBits(chans)
           mixBits == Read(frame.bits, BodyPos, 8)
           mixRes == Signed(Read(frame.bits, BodyPos + 8, 8), 8)
           prms == [ch \in 0 .. chans - 1 |-> prm(IF ch = 0 THEN u ELSE v)]
           body == Shifted * 8 * chans * Samples
<1>3. /\ el' = [chans |-> chans, n |-> Samples, chanBits |-> width, mixBits |-> mixBits,
                mixRes |-> mixRes, prm |-> prms]
      /\ coefs' = [coefs EXCEPT ![0] = u.coefs, ![1] = IF chans = 2 THEN v.coefs ELSE @]
      /\ pos' = last.end + body
  BY DEF OpenCompressed, bits
<1>4. /\ phase' = "U" /\ ag' = [c |-> 0, mb |-> MB, zmode |-> 0]
      /\ UNCHANGED <<frame, given, channelIndex, numSamples, predictor, mixBuffer, out>>
  BY DEF OpenCompressed
<1>5. chans \in 1 .. 2
  BY <1>2 DEF ChansOf
<1>6. coefs \in [Channels -> Coefs] /\ coefs[0] \in Coefs /\ coefs[1] \in Coefs
  BY <1>1 DEF TypeOK, Coefs, Channels
<1>7. frame.bits \in Seq(Bits)
  BY <1>1 DEF ElementInv
<1>8. /\ prm(u) \in Prms /\ u.coefs \in Coefs /\ u.end \in Nat
      /\ prm(v) \in Prms /\ v.coefs \in Coefs /\ v.end \in Nat
  <2>1. BodyPos + 16 \in Nat
    BY <1>2
  <2>2. /\ u.mode \in Nat /\ u.denShift \in 0 .. 15 /\ u.num \in 0 .. 31
        /\ u.pbFactor \in 0 .. 7 /\ u.coefs \in Coefs /\ u.end \in Nat
    BY <1>6, <1>7, <2>1, ReadCoefsIs
  <2> HIDE DEF u
  <2>3. /\ v.mode \in Nat /\ v.denShift \in 0 .. 15 /\ v.num \in 0 .. 31
        /\ v.pbFactor \in 0 .. 7 /\ v.coefs \in Coefs /\ v.end \in Nat
    BY <1>6, <1>7, <2>2, ReadCoefsIs
  <2> HIDE DEF v
  <2> QED
    BY <2>2, <2>3 DEF Prms
<1>9. mixBits \in Nat /\ mixRes \in Int
  <2>1. BodyPos + 8 \in Nat /\ 8 \in 0 .. 16 /\ 8 \in Nat
    BY <1>2
  <2>2. mixBits \in Nat
    BY <1>2, <1>7, <2>1, ReadIs
  <2>3. Read(frame.bits, BodyPos + 8, 8) \in Nat
    BY <1>7, <2>1, ReadIs
  <2> QED
    BY <2>1, <2>2, <2>3, SignedIsInt
<1>10. width \in 0 .. 17
  <2> HIDE DEF chans
  <2> QED
    BY <1>2, <1>5 DEF ChanBits
<1> HIDE DEF u, v, mixBits, mixRes, width, chans
<1>11. prms \in [0 .. chans - 1 -> Prms]
  <2> HIDE DEF prm
  <2> QED
    BY <1>8
<1>12. pos' \in Nat
  <2>1. body \in Nat
    <3>1. Shifted * 8 \in Nat
      BY <1>2
    <3>2. Shifted * 8 * chans \in Nat
      BY <1>5, <3>1
    <3>3. Samples \in Nat
      BY <1>2
    <3> QED
      BY <3>2, <3>3
  <2>2. last.end \in Nat
    BY <1>8
  <2> HIDE DEF body, last
  <2> QED
    BY <1>3, <2>1, <2>2
<1>13. coefs' \in [Channels -> [0 .. 31 -> Int16]]
  <2>1. coefs' \in [Channels -> Coefs]
    BY <1>3, <1>6, <1>8
  <2> QED
    BY <2>1 DEF Coefs
<1> HIDE DEF prms
<1>14. el'.n \in 0 .. FrameLength /\ ag'.c = 0 /\ ag' \in Symbols
  BY <1>2, <1>3, <1>4, FreshSymbols
<1>15. TypeOK'
  <2>1. FrameLength \in Nat
    BY ConfigAssumption
  <2>2. ag'.c \in 0 .. el'.n
    BY <1>14, <2>1
  <2> QED
    BY <1>1, <1>4, <1>12, <1>13, <1>14, <2>2 DEF TypeOK
<1>16. ElementInv'
  <2>1. frame'.bits \in Seq(Bits) /\ phase' = "U"
    BY <1>4, <1>7
  <2>2. /\ el'.chans = chans /\ el'.chanBits = width /\ el'.mixBits = mixBits
        /\ el'.mixRes = mixRes /\ el'.prm = prms
    BY <1>3
  <2> QED
    BY <1>5, <1>9, <1>10, <1>11, <1>14, <2>1, <2>2 DEF ElementInv
<1> QED
  BY <1>15, <1>16 DEF IInv

LEMMA OpenRawInv == IInv /\ OpenRaw => IInv'
<1> SUFFICES ASSUME IInv, OpenRaw PROVE IInv'
  OBVIOUS
<1>1. TypeOK /\ ElementInv
  BY DEF IInv
<1>2. /\ Tag \in {0, 1} /\ BodyPos \in Nat /\ Samples \in 0 .. FrameLength
      /\ FrameLength \in Nat
  <2>1. Tag \in {0, 1} /\ ~(Samples > FrameLength)
    BY DEF OpenRaw, Refused
  <2>2. BodyPos \in Nat /\ Samples \in Nat /\ FrameLength \in Nat
    BY HeaderIs, ConfigAssumption
  <2> QED
    BY <2>1, <2>2
<1> DEFINE chans == ChansOf(Tag)
           raw(i, ch) == Signed(Read(frame.bits, BodyPos + 16 * (chans * i + ch), 16), 16)
           body == 16 * chans * Samples
           sample(ch, i) == IF i < Samples /\ ch < chans THEN raw(i, ch)
                            ELSE mixBuffer[ch][i]
<1>3. /\ mixBuffer' = [ch \in Channels |-> [i \in 0 .. FrameLength - 1 |-> sample(ch, i)]]
      /\ el' = [NoElement EXCEPT !.chans = chans, !.n = Samples]
      /\ pos' = BodyPos + body
  BY DEF OpenRaw, bits
<1>4. /\ phase' = "output"
      /\ UNCHANGED <<frame, given, channelIndex, numSamples, ag, predictor, coefs, out>>
  BY DEF OpenRaw
<1>5. chans \in 1 .. 2
  BY <1>2 DEF ChansOf
<1> HIDE DEF chans
<1>6. \A ch \in Channels, i \in 0 .. FrameLength - 1 : sample(ch, i) \in Int
  <2> SUFFICES ASSUME NEW ch \in Channels, NEW i \in 0 .. FrameLength - 1
               PROVE  sample(ch, i) \in Int
    OBVIOUS
  <2>1. BodyPos + 16 * (chans * i + ch) \in Nat
    <3>1. ch \in Nat /\ i \in Nat
      BY <1>2 DEF Channels
    <3>2. chans * i + ch \in Nat
      BY <1>5, <3>1
    <3> QED
      BY <1>2, <3>2
  <2>2. Read(frame.bits, BodyPos + 16 * (chans * i + ch), 16) \in Nat
    <3>1. 16 \in 0 .. 16
      OBVIOUS
    <3> QED
      BY <1>1, <2>1, <3>1, ReadIs DEF ElementInv
  <2>3. raw(i, ch) \in Int
    BY <2>2, SignedIsInt
  <2>4. mixBuffer[ch][i] \in Int
    BY <1>1 DEF TypeOK
  <2> HIDE DEF raw
  <2> QED
    BY <2>3, <2>4
<1>7. mixBuffer' \in [Channels -> [0 .. FrameLength - 1 -> Int]]
  <2> HIDE DEF sample
  <2> QED
    BY <1>3, <1>6
<1>8. pos' \in Nat
  <2>1. body \in Nat
    <3>1. 16 * chans \in Nat
      BY <1>5
    <3> QED
      BY <1>2, <3>1
  <2> HIDE DEF body
  <2> QED
    BY <1>2, <1>3, <2>1
<1>9. /\ el'.n = Samples /\ el'.chans = chans /\ el'.chanBits = 16 /\ el'.mixBits = 0
      /\ el'.mixRes = 0
  BY <1>3 DEF NoElement
<1>10. ~InChannel' /\ phase' # "V"
  BY <1>4 DEF InChannel
<1>11. TypeOK'
  BY <1>1, <1>2, <1>4, <1>7, <1>8, <1>9, <1>10 DEF TypeOK
<1>12. ElementInv'
  BY <1>1, <1>4, <1>5, <1>9, <1>10 DEF ElementInv
<1> QED
  BY <1>11, <1>12 DEF IInv

LEMMA TruncatedInv == IInv /\ Truncated => IInv'
<1> SUFFICES ASSUME IInv, Truncated PROVE IInv'
  OBVIOUS
<1>1. TypeOK /\ ElementInv
  BY DEF IInv
<1>2. /\ phase' = "failed"
      /\ UNCHANGED <<frame, given, pos, channelIndex, numSamples, el, ag, predictor,
                     mixBuffer, coefs, out>>
  BY DEF Truncated, Fail, scratch
<1>3. ~InChannel' /\ phase' # "V"
  BY <1>2 DEF InChannel
<1>4. TypeOK'
  BY <1>1, <1>2, <1>3 DEF TypeOK
<1>5. ElementInv'
  BY <1>1, <1>2, <1>3 DEF ElementInv
<1> QED
  BY <1>4, <1>5 DEF IInv

\* The channel that is decoded has a description, and a weight below 1.
LEMMA ChannelIs ==
    ASSUME IInv, InChannel
    PROVE  /\ Chan \in Channels /\ el.prm[Chan] \in Prms /\ pb \in 0 .. 511
           /\ el.n \in 0 .. FrameLength /\ ag \in Symbols /\ ag.c \in 0 .. el.n
<1>1. TypeOK /\ ElementInv
  BY DEF IInv
<1>2. Chan \in Channels /\ Chan \in 0 .. el.chans - 1
  <2>1. CASE phase = "U"
    <3>1. Chan = 0 /\ el.chans \in 1 .. 2
      BY <1>1, <2>1 DEF Chan, ElementInv
    <3>2. 0 \in 0 .. el.chans - 1
      BY <3>1
    <3> QED
      BY <3>1, <3>2 DEF Channels
  <2>2. CASE phase = "V"
    <3>1. Chan = 1 /\ el.chans = 2
      BY <1>1, <2>2 DEF Chan, ElementInv
    <3>2. 1 \in 0 .. el.chans - 1
      BY <3>1
    <3> QED
      BY <3>1, <3>2 DEF Channels
  <2> QED
    BY <2>1, <2>2 DEF InChannel
<1>3. el.prm[Chan] \in Prms
  BY <1>1, <1>2 DEF ElementInv
<1>4. pb \in 0 .. 511
  <2>1. el.prm[Chan].pbFactor \in 0 .. 7 /\ PB \in 0 .. 255
    BY <1>3, ConfigAssumption DEF Prms
  <2> DEFINE f == el.prm[Chan].pbFactor
             x == PB * f
  <2>2. f \in 0 .. 7
    BY <2>1
  <2> HIDE DEF f
  <2>3. x \in Nat /\ x <= 255 * 7
    BY <2>1, <2>2
  <2> HIDE DEF x
  <2>4. x \div 4 \in 0 .. 511
    BY <2>3
  <2> QED
    BY <2>4 DEF x, f, pb
<1> QED
  BY <1>1, <1>2, <1>3, <1>4 DEF TypeOK, ElementInv

LEMMA SymbolInv == IInv /\ Symbol => IInv'
<1> SUFFICES ASSUME IInv, Symbol PROVE IInv'
  OBVIOUS
<1>1. TypeOK /\ ElementInv /\ InChannel
  BY DEF IInv, Symbol
<1>2. FrameLength \in Nat \ {0} /\ KB \in 1 .. 16
  BY ConfigAssumption
<1>3. /\ pb \in 0 .. 511 /\ el.n \in 0 .. FrameLength /\ ag \in Symbols
      /\ ag.c \in 0 .. el.n
  BY <1>1, ChannelIs
<1> DEFINE step == DynStep(frame.bits, pos, ag, el.n, pb, KB, el.chanBits)
<1>4. /\ pos' = step.pos
      /\ IF Overruns(step.ag.c)
         THEN /\ predictor' = [predictor EXCEPT ![ag.c] = step.del]
              /\ phase' = "failed" /\ UNCHANGED ag
         ELSE /\ predictor' = [i \in 0 .. FrameLength - 1 |->
                                  IF i = ag.c THEN step.del
                                  ELSE IF i \in ag.c + 1 .. step.ag.c - 1 THEN 0
                                  ELSE predictor[i]]
              /\ ag' = step.ag /\ UNCHANGED phase
  BY DEF Symbol, Fail, bits
<1>5. /\ ag.c < el.n
      /\ UNCHANGED <<frame, given, channelIndex, numSamples, el, mixBuffer, coefs, out>>
  BY DEF Symbol
<1>6. /\ step.del \in Int /\ step.pos \in Nat /\ step.ag \in Symbols
      /\ step.ag.c > ag.c
  <2>1. /\ frame.bits \in Seq(Bits) /\ pos \in Nat /\ el.n \in Nat
        /\ el.chanBits \in 0 .. 40
    BY <1>1, <1>2 DEF TypeOK, ElementInv
  <2> QED
    BY <1>2, <1>3, <2>1, DynStepIs, ZenonT(40)
<1> HIDE DEF step
<1>7. predictor' \in [0 .. FrameLength - 1 -> Int]
  <2>1. predictor \in [0 .. FrameLength - 1 -> Int]
    BY <1>1 DEF TypeOK
  <2>2. CASE Overruns(step.ag.c)
    BY <1>4, <1>6, <2>1, <2>2
  <2>3. CASE ~Overruns(step.ag.c)
    BY <1>4, <1>6, <2>1, <2>3
  <2> QED
    BY <2>2, <2>3
<1>8. CASE Overruns(step.ag.c)
  <2>1. phase' = "failed" /\ ~InChannel' /\ phase' # "V"
    BY <1>4, <1>8 DEF InChannel
  <2>2. TypeOK'
    BY <1>1, <1>4, <1>5, <1>6, <1>7, <2>1 DEF TypeOK
  <2>3. ElementInv'
    BY <1>1, <1>5, <2>1 DEF ElementInv
  <2> QED
    BY <2>2, <2>3 DEF IInv
<1>9. CASE ~Overruns(step.ag.c)
  <2>1. phase' = phase /\ ag' = step.ag /\ InChannel'
    BY <1>1, <1>4, <1>9 DEF InChannel
  <2>2. ag'.c \in 0 .. el'.n
    <3>1. step.ag.c \in Nat /\ ~(step.ag.c > el.n)
      BY <1>6, <1>9 DEF Overruns, Symbols
    <3>2. step.ag.c \in 0 .. el.n
      BY <1>3, <3>1
    <3> QED
      BY <1>5, <2>1, <3>2
  <2>3. TypeOK'
    BY <1>1, <1>4, <1>5, <1>6, <1>7, <2>1, <2>2 DEF TypeOK
  <2>4. ElementInv'
    BY <1>1, <1>5, <1>6, <2>1 DEF ElementInv
  <2> QED
    BY <2>3, <2>4 DEF IInv
<1> QED
  BY <1>8, <1>9

LEMMA PredictInv == IInv /\ Predict => IInv'
<1> SUFFICES ASSUME IInv, Predict PROVE IInv'
  OBVIOUS
<1>1. TypeOK /\ ElementInv /\ InChannel
  BY DEF IInv, Predict
<1> DEFINE p == el.prm[Chan]
           n == el.n
           c == coefs[Chan]
           width == el.chanBits
           Plain(x) == x = IF p.mode = 0 THEN predictor
                           ELSE UnpcBlock(predictor, predictor, n, c, 31, width, 0).out
           Block(x) == UnpcBlock(x, mixBuffer[Chan], n, c, p.num, width, p.denShift)
<1>2. PICK plain : /\ Plain(plain)
                   /\ predictor' = plain
                   /\ mixBuffer' = [mixBuffer EXCEPT ![Chan] = Block(plain).out]
                   /\ coefs' = [coefs EXCEPT ![Chan] = Block(plain).coefs]
  BY DEF Predict
<1>3. /\ \/ phase = "U" /\ el.chans = 2 /\ phase' = "V"
            /\ ag' = [c |-> 0, mb |-> MB, zmode |-> 0]
         \/ phase' = "output"
      /\ UNCHANGED <<frame, given, pos, channelIndex, numSamples, el, out>>
  BY DEF Predict
<1>4. /\ Chan \in Channels /\ p \in Prms /\ n \in 0 .. FrameLength
      /\ c \in Coefs /\ width \in Nat /\ FrameLength \in Nat \ {0}
      /\ predictor \in [0 .. FrameLength - 1 -> Int]
      /\ mixBuffer[Chan] \in [0 .. FrameLength - 1 -> Int]
  <2>1. Chan \in Channels /\ p \in Prms
    BY <1>1, ChannelIs
  <2>2. FrameLength \in Nat \ {0} /\ n \in 0 .. FrameLength
    BY <1>1, ConfigAssumption DEF TypeOK
  <2>3. c \in Coefs /\ mixBuffer[Chan] \in [0 .. FrameLength - 1 -> Int]
    BY <1>1, <2>1 DEF TypeOK, Coefs
  <2>4. predictor \in [0 .. FrameLength - 1 -> Int]
    BY <1>1 DEF TypeOK
  <2>5. width \in Nat
    BY <1>1 DEF ElementInv
  <2> QED
    BY <2>1, <2>2, <2>3, <2>4, <2>5
<1> HIDE DEF p, n, c, width
<1>5. plain \in [0 .. FrameLength - 1 -> Int]
  <2>1. CASE p.mode = 0
    BY <1>2, <1>4, <2>1
  <2>2. CASE p.mode # 0
    <3>1. 31 \in 0 .. 31 /\ 0 \in Nat
      OBVIOUS
    <3>2. UnpcBlock(predictor, predictor, n, c, 31, width, 0) \in Blocks(FrameLength)
      BY <1>4, <3>1, UnpcBlockStays
    <3> QED
      BY <1>2, <2>2, <3>2 DEF Blocks
  <2> QED
    BY <2>1, <2>2
<1>6. Block(plain) \in Blocks(FrameLength)
  <2>1. p.num \in 0 .. 31 /\ p.denShift \in Nat
    BY <1>4 DEF Prms
  <2> QED
    BY <1>4, <1>5, <2>1, UnpcBlockStays
<1> DEFINE block == Block(plain)
<1>7. block.out \in [0 .. FrameLength - 1 -> Int] /\ block.coefs \in Coefs
  BY <1>6 DEF Blocks
<1>8. /\ mixBuffer' = [mixBuffer EXCEPT ![Chan] = block.out]
      /\ coefs' = [coefs EXCEPT ![Chan] = block.coefs]
  BY <1>2
<1> HIDE DEF block
<1>9. /\ predictor' \in [0 .. FrameLength - 1 -> Int]
      /\ mixBuffer' \in [Channels -> [0 .. FrameLength - 1 -> Int]]
      /\ coefs' \in [Channels -> [0 .. 31 -> Int16]]
  <2>1. mixBuffer \in [Channels -> [0 .. FrameLength - 1 -> Int]]
        /\ coefs \in [Channels -> [0 .. 31 -> Int16]]
    BY <1>1 DEF TypeOK
  <2>2. predictor' \in [0 .. FrameLength - 1 -> Int]
    BY <1>2, <1>5
  <2>3. mixBuffer' \in [Channels -> [0 .. FrameLength - 1 -> Int]]
    BY <1>4, <1>7, <1>8, <2>1
  <2>4. coefs' \in [Channels -> [0 .. 31 -> Int16]]
    BY <1>4, <1>7, <1>8, <2>1 DEF Coefs
  <2> QED
    BY <2>2, <2>3, <2>4
<1>10. CASE phase = "U" /\ el.chans = 2 /\ phase' = "V"
            /\ ag' = [c |-> 0, mb |-> MB, zmode |-> 0]
  <2>1. ag'.c = 0 /\ ag' \in Symbols
    BY <1>10, FreshSymbols
  <2>2. ag'.c \in 0 .. el'.n
    <3>1. el' = el /\ el.n \in 0 .. FrameLength
      BY <1>1, <1>3 DEF TypeOK
    <3> QED
      BY <1>4, <2>1, <3>1
  <2>3. TypeOK'
    BY <1>1, <1>3, <1>9, <1>10, <2>2 DEF TypeOK
  <2>4. ElementInv'
    BY <1>1, <1>3, <1>10, <2>1 DEF ElementInv, InChannel
  <2> QED
    BY <2>3, <2>4 DEF IInv
<1>11. CASE phase' = "output"
  <2>1. ~InChannel' /\ phase' # "V"
    BY <1>11 DEF InChannel
  <2>2. TypeOK'
    BY <1>1, <1>3, <1>9, <1>11, <2>1 DEF TypeOK
  <2>3. ElementInv'
    BY <1>1, <1>3, <2>1 DEF ElementInv
  <2> QED
    BY <2>2, <2>3 DEF IInv
<1> QED
  BY <1>3, <1>10, <1>11

LEMMA OutputInv == IInv /\ Output => IInv'
<1> SUFFICES ASSUME IInv, Output PROVE IInv'
  OBVIOUS
<1>1. TypeOK /\ ElementInv
  BY DEF IInv
<1>2. /\ out' = Interleaved /\ numSamples' = el.n
      /\ channelIndex' = channelIndex + el.chans /\ phase' \in {"failed", "tag"}
      /\ UNCHANGED <<frame, given, pos, el, ag, predictor, mixBuffer, coefs>>
  BY DEF Output, Fail, scratch
<1>3. /\ el.n \in 0 .. FrameLength /\ FrameLength \in Nat /\ el.chans \in 0 .. 2
      /\ channelIndex \in Nat /\ NumChannels = 2
  BY <1>1, ConfigAssumption DEF TypeOK, ElementInv
<1>4. out' \in [0 .. FrameLength * NumChannels - 1 -> Int16]
  <2> DEFINE i(x) == (x - channelIndex) \div NumChannels
             k(x) == (x - channelIndex) % NumChannels
             Within(x) == channelIndex <= x /\ i(x) < el.n /\ k(x) < el.chans
             pair(x) == Unmixed(mixBuffer[0][i(x)], mixBuffer[1][i(x)],
                                el.mixBits, el.mixRes)
             sample(x) == IF ~Within(x) THEN out[x]
                          ELSE IF el.chans = 1 THEN Signed(mixBuffer[0][i(x)], 16)
                          ELSE pair(x)[k(x) + 1]
  <2>1. out' = [x \in DOMAIN out |-> sample(x)]
    BY <1>2 DEF Interleaved
  <2>2. out \in [0 .. FrameLength * NumChannels - 1 -> Int16]
    BY <1>1 DEF TypeOK
  <2>3. ASSUME NEW x \in 0 .. FrameLength * NumChannels - 1 PROVE sample(x) \in Int16
    <3>1. x - channelIndex \in Int /\ (channelIndex <= x => x - channelIndex \in Nat)
      BY <1>3
    <3>2. k(x) \in 0 .. 1 /\ (channelIndex <= x => i(x) \in Nat)
      BY <1>3, <3>1
    <3>3. ASSUME Within(x) PROVE /\ mixBuffer[0][i(x)] \in Int /\ mixBuffer[1][i(x)] \in Int
                                 /\ el.chans # 1 => k(x) + 1 \in 1 .. 2
      <4>1. i(x) \in 0 .. FrameLength - 1
        BY <1>3, <3>2, <3>3
      <4>2. mixBuffer \in [Channels -> [0 .. FrameLength - 1 -> Int]]
        BY <1>1 DEF TypeOK
      <4> HIDE DEF i
      <4>3. mixBuffer[0][i(x)] \in Int /\ mixBuffer[1][i(x)] \in Int
        BY <4>1, <4>2 DEF Channels
      <4> HIDE DEF k
      <4>4. el.chans # 1 => k(x) + 1 \in 1 .. 2
        BY <1>3, <3>2, <3>3
      <4> QED
        BY <4>3, <4>4
    <3> HIDE DEF i, k
    <3>4. CASE ~Within(x)
      BY <2>2, <3>4
    <3>5. CASE Within(x) /\ el.chans = 1
      <4>1. Signed(mixBuffer[0][i(x)], 16) \in Int16
        BY <3>3, <3>5, Int16Is
      <4> QED
        BY <3>5, <4>1
    <3>6. CASE Within(x) /\ el.chans # 1
      <4>1. el.mixBits \in Nat /\ el.mixRes \in Int
        BY <1>1 DEF ElementInv
      <4>2. \A q \in 1 .. 2 : pair(x)[q] \in Int16
        BY <3>3, <3>6, <4>1, UnmixedIs
      <4> HIDE DEF pair
      <4>3. pair(x)[k(x) + 1] \in Int16
        BY <3>3, <3>6, <4>2
      <4> HIDE DEF Within
      <4> QED
        BY <3>6, <4>3
    <3> QED
      BY <3>4, <3>5, <3>6
  <2> HIDE DEF sample
  <2> QED
    BY <2>1, <2>2, <2>3
<1>5. channelIndex' \in Nat
  BY <1>2, <1>3
<1>6. ~InChannel' /\ phase' # "V"
  BY <1>2 DEF InChannel
<1>7. TypeOK'
  BY <1>1, <1>2, <1>3, <1>4, <1>5, <1>6 DEF TypeOK
<1>8. ElementInv'
  BY <1>1, <1>2, <1>6 DEF ElementInv
<1> QED
  BY <1>7, <1>8 DEF IInv

LEMMA PanicInv == IInv /\ Panic => IInv'
<1> SUFFICES ASSUME IInv, Panic PROVE IInv'
  OBVIOUS
<1>1. /\ NoSample \/ PastOutput
      /\ phase' = "panicked" /\ ~InChannel' /\ phase' # "V"
      /\ UNCHANGED <<frame, given, pos, channelIndex, numSamples, el, ag>>
      /\ UNCHANGED <<predictor, mixBuffer, coefs, out>>
  BY DEF Panic, scratch, InChannel
<1>2. TypeOK /\ ElementInv
  BY DEF IInv
<1>3. el.n = 0 \/ channelIndex + el.chans > NumChannels
  <2> DEFINE n == el.n
             chans == el.chans
  <2>1. /\ n \in 0 .. FrameLength /\ FrameLength \in Nat \ {0} /\ chans \in 0 .. 2
        /\ channelIndex \in Nat /\ NumChannels = 2
    BY <1>2, ConfigAssumption DEF TypeOK, ElementInv
  <2>2. CASE NoSample
    BY <2>2 DEF NoSample
  <2>3. CASE PastOutput
    <3>1. \/ n > 0 /\ channelIndex + (n - 1) * NumChannels + chans > FrameLength * NumChannels
          \/ chans = 2 /\ channelIndex > FrameLength * NumChannels
      BY <2>3 DEF PastOutput
    <3> HIDE DEF n, chans
    <3>2. channelIndex + chans > NumChannels
      BY <2>1, <3>1
    <3> QED
      BY <3>2 DEF n, chans
  <2> QED
    BY <1>1, <2>2, <2>3
<1>4. TypeOK'
  BY <1>1, <1>2, <1>3 DEF TypeOK
<1>5. ElementInv'
  BY <1>1, <1>2 DEF ElementInv
<1> QED
  BY <1>4, <1>5 DEF IInv

LEMMA NextInv == IInv /\ [Next]_vars => IInv'
<1> SUFFICES ASSUME IInv, [Next]_vars PROVE IInv'
  OBVIOUS
<1>1. CASE UNCHANGED vars
  BY <1>1 DEF vars, reader, scratch, IInv, TypeOK, ElementInv, InChannel
<1>2. CASE Next
  <2>1. CASE Finished
    BY <1>1, <2>1 DEF Finished
  <2>2. CASE Decode \/ End \/ BadElement \/ RefuseElement
    BY <2>2, DecodeInv
  <2>3. CASE OpenCompressed
    BY <2>3, OpenCompressedInv
  <2>4. CASE OpenRaw
    BY <2>4, OpenRawInv
  <2>5. CASE Truncated
    BY <2>5, TruncatedInv
  <2>6. CASE Symbol
    BY <2>6, SymbolInv
  <2>7. CASE Predict
    BY <2>7, PredictInv
  <2>8. CASE Output
    BY <2>8, OutputInv
  <2>9. CASE Panic
    BY <2>9, PanicInv
  <2> QED
    BY <1>2, <2>1, <2>2, <2>3, <2>4, <2>5, <2>6, <2>7, <2>8, <2>9 DEF Next
<1> QED
  BY <1>1, <1>2

\* The inductive invariant holds for every stream of frames.
THEOREM Invariance == Spec => []IInv
<1>1. Init => IInv
  BY InitInv
<1>2. IInv /\ [Next]_vars => IInv'
  BY NextInv
<1> QED
  BY <1>1, <1>2, PTL DEF Spec

\* Whatever bits the frames are made of: no residual past the samples of its element, no
\* element longer than the scratch, every coefficient and every sample given out 16 bits
\* wide; and of all frames only one with an element of no samples, or of more channels
\* than the output has, indexes out of range and ends the program (decodeElement,
\* dynDecomp, unpcBlock, unmix16 and the guards between them).
THEOREM TypeCorrect == Spec => []TypeOK
<1>1. IInv => TypeOK
  BY DEF IInv
<1> QED
  BY <1>1, Invariance, PTL

-----------------------------------------------------------------------------
(* The encoder's predictor: it makes the predictions of the decoder, and   *)
(* moves the coefficients the same way.                                    *)

LEMMA EncSigned == \A x, n : Enc!Signed(x, n) = Signed(x, n)
BY DEF Enc!Signed, Signed

\* The numbers the encoder works with: the differences to the sample before all those
\* it predicts from, and its coefficients, which it counts from 1.
Above(o, j, num) == [k \in 1 .. num |-> o[j - num - 1] - o[j - k]]
ListOf(c, num)   == [k \in 1 .. num |-> c[k - 1]]

\* Sample j of the block o can be predicted from the num samples before it.
Predictable(L, o, c, num, j, shift) ==
    /\ L \in Nat /\ o \in [0 .. L - 1 -> Int] /\ c \in Coefs
    /\ num \in 0 .. 31 /\ j \in num + 1 .. L - 1 /\ shift \in Nat

\* A residual is the rest of the sample over the decoder's prediction.
LEMMA ResidualIs ==
    ASSUME NEW L, NEW o, NEW c, NEW num, NEW j, NEW shift,
           Predictable(L, o, c, num, j, shift), NEW chanbits \in Nat, NEW x \in Int,
           NEW top, top = o[j - num - 1]
    PROVE  Enc!ResidualOf(x, top, Above(o, j, num), ListOf(c, num), num, chanbits, shift)
             = Signed(x - Predicted(o, j, c, num, shift), chanbits)
<1> DEFINE a == ListOf(c, num)
           b == Above(o, j, num)
           half == Denhalf(shift)
           Body(f) == [k \in 0 .. num |-> IF k = 0 THEN half ELSE f[k - 1] - a[k] * b[k]]
           h == CHOOSE f : f = Body(f)
<1>0. /\ L \in Nat /\ o \in [0 .. L - 1 -> Int] /\ c \in Coefs
      /\ num \in 0 .. 31 /\ j \in num + 1 .. L - 1 /\ shift \in Nat
  BY DEF Predictable
<1>1. PICK g : /\ IsSum(g, o, j, c, num)
               /\ Predicted(o, j, c, num, shift)
                    = o[j - num - 1] + (g[num] + half) \div 2^shift
  BY <1>0, PredictedBy
<1> USE <1>0
<1>2. /\ g \in [0 .. num -> Int] /\ g[0] = 0
      /\ \A k \in 1 .. num : g[k] = g[k - 1] + c[k - 1] * (o[j - k] - top)
  BY <1>1 DEF IsSum
<1>3. Enc!ResidualOf(x, top, b, a, num, chanbits, shift)
        = Signed(x - top - h[num] \div 2^shift, chanbits)
  <2>1. Enc!ResidualOf(x, top, b, a, num, chanbits, shift)
          = Enc!Signed(x - top - h[num] \div 2^shift, chanbits)
    BY DEF Enc!ResidualOf, Denhalf
  <2> HIDE DEF h, a, b
  <2> QED
    BY <2>1, EncSigned
<1>4. half \in Int /\ top \in Int
  <2>1. j - num - 1 \in 0 .. L - 1
    OBVIOUS
  <2> QED
    BY <2>1, DenhalfIs
<1>5. \A k \in 1 .. num : g[k - 1] \in Int /\ g[k] = g[k - 1] - a[k] * b[k]
  <2> SUFFICES ASSUME NEW k \in 1 .. num
               PROVE  g[k - 1] \in Int /\ g[k] = g[k - 1] - a[k] * b[k]
    OBVIOUS
  <2>1. k - 1 \in 0 .. 31 /\ k - 1 \in 0 .. num /\ j - k \in 0 .. L - 1
    OBVIOUS
  <2> DEFINE ck == c[k - 1]
             ok == o[j - k]
  <2>2. ck \in Int
    <3>1. ck \in Int16
      BY <2>1 DEF Coefs
    <3> QED
      BY <3>1, Int16Is
  <2>3. ok \in Int /\ g[k - 1] \in Int
    BY <1>2, <2>1
  <2>4. a[k] = ck /\ b[k] = top - ok
    BY DEF ListOf, Above
  <2>5. g[k] = g[k - 1] + ck * (ok - top)
    BY <1>2
  <2> HIDE DEF ck, ok, a, b
  <2>6. ck * (ok - top) = -(ck * (top - ok)) /\ ck * (top - ok) \in Int
    <3> DEFINE d == top - ok
    <3>1. d \in Int /\ ok - top = -d
      BY <1>4, <2>3
    <3> HIDE DEF d
    <3>2. ck * (-d) = -(ck * d) /\ ck * d \in Int
      BY <2>2, <3>1
    <3> QED
      BY <3>1, <3>2 DEF d
  <2> QED
    BY <2>3, <2>4, <2>5, <2>6
<1> HIDE DEF a, b, half
<1> DEFINE f0 == [k \in 0 .. num |-> g[k] + half]
<1>6. f0 = Body(f0)
  <2> SUFFICES ASSUME NEW k \in 0 .. num
               PROVE  g[k] + half = IF k = 0 THEN half ELSE f0[k - 1] - a[k] * b[k]
    OBVIOUS
  <2>1. CASE k = 0
    BY <1>2, <1>4, <2>1
  <2>2. CASE k # 0
    <3>1. k \in 1 .. num /\ k - 1 \in 0 .. num
      BY <2>2
    <3> DEFINE y == a[k] * b[k]
    <3>2. g[k] = g[k - 1] - y /\ g[k - 1] \in Int /\ g[k] \in Int
      BY <1>2, <1>5, <3>1
    <3>3. f0[k - 1] = g[k - 1] + half
      BY <3>1
    <3>4. y \in Int
      <4>1. k - 1 \in 0 .. 31 /\ j - k \in 0 .. L - 1
        BY <3>1
      <4>2. a[k] \in Int
        <5>1. c[k - 1] \in Int16
          BY <4>1 DEF Coefs
        <5>2. a[k] = c[k - 1]
          BY <3>1 DEF a, ListOf
        <5> QED
          BY <5>1, <5>2, Int16Is
      <4>3. o[j - k] \in Int
        BY <4>1
      <4>4. b[k] = top - o[j - k]
        BY <3>1 DEF b, Above
      <4>5. b[k] \in Int
        BY <1>4, <4>3, <4>4
      <4> QED
        BY <4>2, <4>5
    <3> HIDE DEF y, f0
    <3>5. g[k] + half = f0[k - 1] - y
      BY <1>4, <3>2, <3>3, <3>4
    <3> QED
      BY <2>2, <3>5 DEF y
  <2> QED
    BY <2>1, <2>2
<1>7. h = Body(h)
  <2> HIDE DEF Body, f0
  <2> QED
    BY <1>6
<1> HIDE DEF h, f0
<1>8. h[num] = f0[num]
  <2> DEFINE P == {k \in 0 .. num : h[k] = f0[k]}
  <2>1. \A k \in 0 .. num : /\ h[k] = IF k = 0 THEN half ELSE h[k - 1] - a[k] * b[k]
                            /\ f0[k] = IF k = 0 THEN half ELSE f0[k - 1] - a[k] * b[k]
    BY <1>6, <1>7
  <2>2. num \in Nat /\ 0 \in 0 .. num /\ \A k \in 1 .. num : k \in 0 .. num /\ k # 0
    OBVIOUS
  <2>3. 0 \in P
    BY <2>1, <2>2
  <2>4. \A k \in 1 .. num : k - 1 \in P => k \in P
    BY <2>1, <2>2
  <2>5. \A k \in 0 .. num : k \in P
    <3> HIDE DEF P
    <3> QED
      BY <2>2, <2>3, <2>4, UpTo
  <2>6. num \in 0 .. num
    OBVIOUS
  <2> QED
    BY <2>5, <2>6
<1>9. x - top - h[num] \div 2^shift = x - Predicted(o, j, c, num, shift)
  <2> DEFINE q == (g[num] + half) \div 2^shift
  <2>1. g[num] + half \in Int
    BY <1>2, <1>4
  <2>2. q \in Int
    BY <2>1, ShiftIs
  <2>3. h[num] \div 2^shift = q
    BY <1>8 DEF f0
  <2>4. Predicted(o, j, c, num, shift) = top + q
    BY <1>1
  <2> HIDE DEF q
  <2>5. x - top - q = x - (top + q)
    BY <1>4, <2>2
  <2> QED
    BY <2>3, <2>4, <2>5
<1> QED
  BY <1>3, <1>9 DEF a, b

\* The turn of coefficient k in the encoder.
EncTurn(t, k, d, del, num, shift) ==
    LET up == Enc!sign(del) * Enc!sign(d)
    IN  IF Enc!sign(del) * t.left <= 0 THEN t
        ELSE [a    |-> [t.a EXCEPT ![k] = Enc!Signed(@ - up, 16)],
              left |-> t.left - (num + 1 - k) * ((up * d) \div 2^shift)]

\* What the encoder has of the decoder's coefficients and residual.
Seen(t, num) == [a |-> ListOf(t.coefs, num), left |-> t.left]

LEMMA TurnsAgree ==
    ASSUME NEW t \in Turns, NEW num \in 0 .. 31, NEW k \in 0 .. num - 1, NEW d \in Int,
           NEW del \in Int, NEW shift \in Nat
    PROVE  EncTurn(Seen(t, num), k + 1, d, del, num, shift)
             = Seen(Turn(t, k, d, signOfInt(del), num, shift), num)
<1> DEFINE up == signOfInt(del) * signOfInt(d)
           c == [t.coefs EXCEPT ![k] = Signed(@ - up, 16)]
           rest == t.left - (num - k) * ((up * d) \div 2^shift)
           a == ListOf(t.coefs, num)
<1>1. t.coefs \in Coefs /\ t.left \in Int /\ k + 1 \in 1 .. num
  BY DEF Turns
<1>2. Turn(t, k, d, signOfInt(del), num, shift)
        = IF signOfInt(del) * t.left <= 0 THEN t ELSE [coefs |-> c, left |-> rest]
  BY DEF Turn
<1>3. Seen(t, num).a = a /\ Seen(t, num).left = t.left
  BY DEF Seen
<1>4. Enc!sign(del) = signOfInt(del) /\ Enc!sign(d) = signOfInt(d)
  BY DEF Enc!sign, signOfInt
<1>5. EncTurn(Seen(t, num), k + 1, d, del, num, shift)
        = IF signOfInt(del) * t.left <= 0 THEN Seen(t, num)
          ELSE [a    |-> [a EXCEPT ![k + 1] = Signed(@ - up, 16)],
                left |-> t.left - (num + 1 - (k + 1)) * ((up * d) \div 2^shift)]
  <2> HIDE DEF a
  <2> QED
    BY <1>3, <1>4, EncSigned DEF EncTurn
<1>6. num + 1 - (k + 1) = num - k
  OBVIOUS
<1>7. [a EXCEPT ![k + 1] = Signed(@ - up, 16)] = ListOf(c, num)
  <2> DEFINE y == Signed(t.coefs[k] - up, 16)
  <2>1. a[k + 1] = t.coefs[k] /\ a = [i \in 1 .. num |-> t.coefs[i - 1]]
    <3>1. (k + 1) - 1 = k
      OBVIOUS
    <3> QED
      BY <1>1, <3>1 DEF ListOf
  <2>2. [a EXCEPT ![k + 1] = Signed(@ - up, 16)] = [a EXCEPT ![k + 1] = y]
    <3> HIDE DEF a, up
    <3> QED
      BY <2>1, Zenon
  <2>3. k \in 0 .. 31
    OBVIOUS
  <2>4. c = [t.coefs EXCEPT ![k] = y]
    OBVIOUS
  <2> HIDE DEF y, up, c
  <2>5. ASSUME NEW i \in 1 .. num PROVE [a EXCEPT ![k + 1] = y][i] = c[i - 1]
    <3>1. i - 1 \in 0 .. 31 /\ (i = k + 1 <=> i - 1 = k)
      OBVIOUS
    <3>2. c[i - 1] = IF i - 1 = k THEN y ELSE t.coefs[i - 1]
      BY <1>1, <2>4, <3>1 DEF Coefs
    <3>3. [a EXCEPT ![k + 1] = y][i] = IF i = k + 1 THEN y ELSE t.coefs[i - 1]
      BY <2>1
    <3> QED
      BY <3>1, <3>2, <3>3
  <2>6. [a EXCEPT ![k + 1] = y] = [i \in 1 .. num |-> c[i - 1]]
    <3>1. [a EXCEPT ![k + 1] = y] = [i \in 1 .. num |-> [a EXCEPT ![k + 1] = y][i]]
      BY <2>1
    <3> QED
      BY <2>5, <3>1
  <2> QED
    BY <2>2, <2>6 DEF ListOf
<1> HIDE DEF up, c
<1>8. CASE signOfInt(del) * t.left <= 0
  BY <1>2, <1>5, <1>8
<1>9. CASE ~(signOfInt(del) * t.left <= 0)
  <2>1. EncTurn(Seen(t, num), k + 1, d, del, num, shift) = [a |-> ListOf(c, num), left |-> rest]
    BY <1>5, <1>6, <1>7, <1>9
  <2>2. Turn(t, k, d, signOfInt(del), num, shift) = [coefs |-> c, left |-> rest]
    BY <1>2, <1>9
  <2> HIDE DEF rest
  <2> QED
    BY <2>1, <2>2 DEF Seen
<1> QED
  BY <1>8, <1>9

\* After a residual both have the same coefficients.
LEMMA AdjustedIs ==
    ASSUME NEW L, NEW o, NEW c, NEW num, NEW j, NEW shift,
           Predictable(L, o, c, num, j, shift), NEW del \in Int,
           NEW s, s.a = ListOf(c, num)
    PROVE  Enc!Adjusted(s, Above(o, j, num), del, num, shift)
             = [res |-> Append(s.res, del),
                a   |-> ListOf(Adapted(o, j, c, num, shift, del), num)]
<1> DEFINE b == Above(o, j, num)
           m == num + 1
           Body(f) == [k \in 1 .. m |-> IF k = m THEN [a |-> s.a, left |-> del]
                                        ELSE EncTurn(f[k + 1], k, b[k], del, num, shift)]
           h == CHOOSE f : f = Body(f)
<1>0. /\ L \in Nat /\ o \in [0 .. L - 1 -> Int] /\ c \in Coefs
      /\ num \in 0 .. 31 /\ j \in num + 1 .. L - 1 /\ shift \in Nat
  BY DEF Predictable
<1>1. PICK g : /\ AreTurns(g, o, j, c, num, shift, del)
               /\ Adapted(o, j, c, num, shift, del) = g[0].coefs
  BY <1>0, AdaptedBy
<1> USE <1>0
<1>2. Enc!Adjusted(s, b, del, num, shift) = [res |-> Append(s.res, del), a |-> h[1].a]
  BY DEF Enc!Adjusted, EncTurn
<1> DEFINE f0 == [k \in 1 .. m |-> Seen(g[k - 1], num)]
<1>3. \A k \in 1 .. num :
         f0[k] = EncTurn(f0[k + 1], k, b[k], del, num, shift)
  <2> SUFFICES ASSUME NEW k \in 1 .. num
               PROVE  f0[k] = EncTurn(f0[k + 1], k, b[k], del, num, shift)
    OBVIOUS
  <2>1. /\ k - 1 \in 0 .. num - 1 /\ (k - 1) + 1 = k /\ k \in 0 .. num /\ k \in 1 .. m
        /\ k + 1 \in 1 .. m /\ (k + 1) - 1 = k /\ j - 1 - (k - 1) = j - k
        /\ j - k \in 0 .. L - 1 /\ j - num - 1 \in 0 .. L - 1
    OBVIOUS
  <2> DEFINE d == o[j - num - 1] - o[j - k]
  <2>2. d \in Int /\ b[k] = d
    BY <2>1 DEF Above
  <2>3. g[k] \in Turns /\ g[k - 1] = Turn(g[k], k - 1, d, signOfInt(del), num, shift)
    BY <1>1, <2>1 DEF AreTurns
  <2>4. f0[k] = Seen(g[k - 1], num) /\ f0[k + 1] = Seen(g[k], num)
    BY <2>1
  <2> HIDE DEF d, f0, b
  <2>5. EncTurn(Seen(g[k], num), (k - 1) + 1, d, del, num, shift)
          = Seen(Turn(g[k], k - 1, d, signOfInt(del), num, shift), num)
    <3>1. k - 1 \in 0 .. num - 1 /\ g[k] \in Turns /\ d \in Int
      BY <2>1, <2>2, <2>3
    <3> QED
      BY <3>1, TurnsAgree, Zenon
  <2> QED
    BY <2>1, <2>2, <2>3, <2>4, <2>5
<1>4. f0[m] = [a |-> s.a, left |-> del]
  <2>1. m \in 1 .. m /\ m - 1 = num
    OBVIOUS
  <2>2. g[num].coefs = c /\ g[num].left = del
    BY <1>1 DEF AreTurns
  <2> QED
    BY <2>1, <2>2 DEF Seen
<1>5. \A k \in 1 .. m : k # m => k \in 1 .. num
  OBVIOUS
<1>6. f0 = Body(f0)
  <2>1. \A k \in 1 .. m : f0[k] = IF k = m THEN [a |-> s.a, left |-> del]
                                  ELSE EncTurn(f0[k + 1], k, b[k], del, num, shift)
    BY <1>3, <1>4, <1>5
  <2>2. f0 = [k \in 1 .. m |-> f0[k]]
    OBVIOUS
  <2> HIDE DEF f0, b, m
  <2> QED
    BY <2>1, <2>2
<1>7. h = Body(h)
  <2> HIDE DEF Body, f0
  <2> QED
    BY <1>6
<1> HIDE DEF h
<1>8. h[1] = f0[1]
  <2> DEFINE P == {k \in 0 .. num : h[k + 1] = f0[k + 1]}
  <2> HIDE DEF f0, b
  <2>1. \A k \in 1 .. m : /\ h[k] = IF k = m THEN [a |-> s.a, left |-> del]
                                    ELSE EncTurn(h[k + 1], k, b[k], del, num, shift)
                          /\ f0[k] = IF k = m THEN [a |-> s.a, left |-> del]
                                     ELSE EncTurn(f0[k + 1], k, b[k], del, num, shift)
    BY <1>6, <1>7
  <2> HIDE DEF m
  <2>2. /\ num \in Nat /\ num \in 0 .. num /\ 0 \in 0 .. num /\ num + 1 = m /\ m \in 1 .. m
        /\ \A k \in 1 .. num : k - 1 \in 0 .. num /\ (k - 1) + 1 = k /\ k \in 1 .. m /\ k # m
    BY DEF m
  <2>3. num \in P
    BY <2>1, <2>2
  <2>4. \A k \in 1 .. num : k \in P => k - 1 \in P
    BY <2>1, <2>2
  <2>5. \A k \in 0 .. num : k \in P
    <3> HIDE DEF P
    <3> QED
      BY <2>2, <2>3, <2>4, DownFrom
  <2>6. h[0 + 1] = f0[0 + 1]
    BY <2>2, <2>5
  <2>7. 0 + 1 = 1
    OBVIOUS
  <2> QED
    BY <2>6, <2>7
<1>9. h[1].a = ListOf(g[0].coefs, num)
  <2>1. 1 \in 1 .. m /\ 1 - 1 = 0
    OBVIOUS
  <2> QED
    BY <1>8, <2>1 DEF Seen
<1> QED
  BY <1>1, <1>2, <1>9

EncStates(num) == [res : Seq(Int), a : [1 .. num -> Int16]]

\* Sample j in the encoder.
EncRound(s, x, j, num, chanbits, shift) ==
    LET b == [k \in 1 .. num |-> x[j - num - 1] - x[j - k]]
    IN  IF j <= num + 1
        THEN [s EXCEPT !.res = Append(@, Enc!Signed(x[j] - x[j - 1], chanbits))]
        ELSE Enc!Adjusted(s, b, Enc!ResidualOf(x[j], x[j - num - 1], b, s.a,
                                               num, chanbits, shift),
                          num, shift)

\* A block holds the samples before j, which is i in the block, and coefficients that
\* are the encoder's.
InStep(L, o, c, i, s, x, j, num, shift) ==
    /\ Predictable(L, o, c, num, i, shift) /\ j = i + 1 /\ x[j] \in Int
    /\ \A q \in 0 .. i - 1 : o[q] = x[q + 1]
    /\ s.a = ListOf(c, num)

\* What the encoder does then in terms of the decoder's operators.
LEMMA EncRoundBy ==
    ASSUME NEW L, NEW o, NEW c, NEW i, NEW s, NEW x, NEW j, NEW num, NEW shift,
           InStep(L, o, c, i, s, x, j, num, shift), NEW chanbits \in Nat
    PROVE  LET del == Signed(x[j] - Predicted(o, i, c, num, shift), chanbits)
           IN  EncRound(s, x, j, num, chanbits, shift)
                 = [res |-> Append(s.res, del),
                    a   |-> ListOf(Adapted(o, i, c, num, shift, del), num)]
<1> DEFINE b == [k \in 1 .. num |-> x[j - num - 1] - x[j - k]]
           del == Signed(x[j] - Predicted(o, i, c, num, shift), chanbits)
<1>0. /\ L \in Nat /\ o \in [0 .. L - 1 -> Int] /\ c \in Coefs
      /\ num \in 0 .. 31 /\ i \in num + 1 .. L - 1 /\ shift \in Nat
      /\ Predictable(L, o, c, num, i, shift) /\ j = i + 1 /\ x[j] \in Int
      /\ s.a = ListOf(c, num)
  BY DEF Predictable, InStep
<1>1. ~(j <= num + 1)
  BY <1>0
<1>2. x[j - num - 1] = o[i - num - 1]
  <2>1. i - num - 1 \in 0 .. i - 1 /\ (i - num - 1) + 1 = j - num - 1
    BY <1>0
  <2> QED
    BY <2>1 DEF InStep
<1>3. b = Above(o, i, num)
  <2>1. ASSUME NEW k \in 1 .. num PROVE x[j - k] = o[i - k]
    <3>1. k \in 1 .. num /\ i - k \in 0 .. i - 1 /\ (i - k) + 1 = j - k
      BY <1>0
    <3> QED
      BY <3>1 DEF InStep
  <2> QED
    BY <1>2, <2>1 DEF Above
<1>4. EncRound(s, x, j, num, chanbits, shift)
        = Enc!Adjusted(s, b, Enc!ResidualOf(x[j], x[j - num - 1], b, s.a,
                                            num, chanbits, shift), num, shift)
  BY <1>1 DEF EncRound
<1> HIDE DEF b
<1>5. Enc!ResidualOf(x[j], x[j - num - 1], Above(o, i, num), ListOf(c, num), num,
                     chanbits, shift) = del
  <2>1. Predictable(L, o, c, num, i, shift) /\ x[j] \in Int
    BY <1>0
  <2> QED
    BY <1>2, <2>1, ResidualIs
<1>6. del \in Int
  <2>1. Predicted(o, i, c, num, shift) \in Int
    BY <1>0, PredictedIs
  <2>2. x[j] - Predicted(o, i, c, num, shift) \in Int
    BY <1>0, <2>1
  <2> QED
    BY <2>2, SignedIsInt
<1> HIDE DEF del
<1>7. Enc!Adjusted(s, Above(o, i, num), del, num, shift)
        = [res |-> Append(s.res, del),
           a   |-> ListOf(Adapted(o, i, c, num, shift, del), num)]
  BY <1>0, <1>6, AdjustedIs
<1>8. EncRound(s, x, j, num, chanbits, shift) = Enc!Adjusted(s, Above(o, i, num), del, num, shift)
  BY <1>2, <1>3, <1>0, <1>4, <1>5, Zenon
<1> QED
  BY <1>7, <1>8 DEF del

\* The first num coefficients of c are 16 bits wide, and any such list is some c's.
LEMMA ListIs ==
    ASSUME NEW num \in 0 .. 31
    PROVE  /\ \A c \in Coefs : ListOf(c, num) \in [1 .. num -> Int16]
           /\ \A a \in [1 .. num -> Int16] : \E c \in Coefs : ListOf(c, num) = a
<1>1. ASSUME NEW c \in Coefs PROVE ListOf(c, num) \in [1 .. num -> Int16]
  <2>1. \A k \in 1 .. num : k - 1 \in 0 .. 31
    OBVIOUS
  <2> QED
    BY <2>1 DEF ListOf, Coefs
<1>2. ASSUME NEW a \in [1 .. num -> Int16] PROVE \E c \in Coefs : ListOf(c, num) = a
  <2> DEFINE c == [k \in 0 .. 31 |-> IF k < num THEN a[k + 1] ELSE 0]
  <2>1. 0 \in Int16
    BY ZeroIs16
  <2>2. \A k \in 0 .. 31 : k < num => k + 1 \in 1 .. num
    OBVIOUS
  <2>3. c \in Coefs
    BY <2>1, <2>2 DEF Coefs
  <2>4. \A k \in 1 .. num : k - 1 \in 0 .. 31 /\ k - 1 < num /\ (k - 1) + 1 = k
    OBVIOUS
  <2>5. \A k \in 1 .. num : c[k - 1] = a[k]
    BY <2>4
  <2> HIDE DEF c
  <2>6. ListOf(c, num) = a
    BY <2>5 DEF ListOf
  <2> QED
    BY <2>3, <2>6
<1> QED
  BY <1>1, <1>2

LEMMA EncRoundIs ==
    ASSUME NEW num \in 0 .. 31, NEW s \in EncStates(num), NEW x \in Seq(Int),
           NEW j \in 2 .. Len(x), NEW shift \in Nat, NEW chanbits \in Nat
    PROVE  EncRound(s, x, j, num, chanbits, shift) \in EncStates(num)
<1>1. s.res \in Seq(Int) /\ s.a \in [1 .. num -> Int16] /\ s = [res |-> s.res, a |-> s.a]
  BY DEF EncStates
<1>2. CASE j <= num + 1
  <2> DEFINE d == Signed(x[j] - x[j - 1], chanbits)
  <2>1. EncRound(s, x, j, num, chanbits, shift) = [s EXCEPT !.res = Append(@, d)]
    BY <1>2, EncSigned DEF EncRound
  <2>2. d \in Int
    <3>1. j \in 1 .. Len(x) /\ j - 1 \in 1 .. Len(x)
      OBVIOUS
    <3>2. x[j] \in Int /\ x[j - 1] \in Int
      BY <3>1
    <3>3. x[j] - x[j - 1] \in Int
      BY <3>2
    <3> QED
      BY <3>3, SignedIsInt
  <2> HIDE DEF d
  <2>3. Append(s.res, d) \in Seq(Int)
    BY <1>1, <2>2
  <2> QED
    BY <1>1, <2>1, <2>3 DEF EncStates
<1>3. CASE ~(j <= num + 1)
  <2> DEFINE L == Len(x)
             o == [q \in 0 .. L - 1 |-> x[q + 1]]
             i == j - 1
  <2>1. L \in Nat /\ j \in num + 2 .. L /\ j \in 1 .. L /\ j = i + 1 /\ i \in num + 1 .. L - 1
    BY <1>3
  <2>2. o \in [0 .. L - 1 -> Int]
    <3>1. \A q \in 0 .. L - 1 : q + 1 \in 1 .. L
      BY <2>1
    <3> QED
      BY <3>1
  <2>3. x[j] \in Int /\ \A q \in 0 .. i - 1 : o[q] = x[q + 1]
    <3>1. \A q \in 0 .. i - 1 : q \in 0 .. L - 1
      BY <2>1
    <3> QED
      BY <2>1, <3>1
  <2>4. PICK c \in Coefs : ListOf(c, num) = s.a
    BY <1>1, ListIs
  <2> HIDE DEF o, L, i
  <2>9. InStep(L, o, c, i, s, x, j, num, shift)
    <3>1. Predictable(L, o, c, num, i, shift)
      BY <2>1, <2>2 DEF Predictable
    <3> QED
      BY <2>1, <2>3, <2>4, <3>1 DEF InStep
  <2> DEFINE del == Signed(x[j] - Predicted(o, i, c, num, shift), chanbits)
             c2 == Adapted(o, i, c, num, shift, del)
  <2>5. EncRound(s, x, j, num, chanbits, shift)
          = [res |-> Append(s.res, del), a |-> ListOf(c2, num)]
    BY <2>9, EncRoundBy
  <2>6. del \in Int
    <3>1. Predicted(o, i, c, num, shift) \in Int
      BY <2>1, <2>2, PredictedIs
    <3>2. x[j] - Predicted(o, i, c, num, shift) \in Int
      BY <2>3, <3>1
    <3> QED
      BY <3>2, SignedIsInt
  <2> HIDE DEF del
  <2>7. c2 \in Coefs
    BY <2>1, <2>2, <2>6, AdaptedIs
  <2> HIDE DEF c2
  <2>8. Append(s.res, del) \in Seq(Int)
    BY <1>1, <2>6
  <2>10. ListOf(c2, num) \in [1 .. num -> Int16]
    BY <2>7, ListIs
  <2> QED
    BY <2>5, <2>8, <2>10 DEF EncStates
<1> QED
  BY <1>2, <1>3

\* What the encoder has made of the first samples of x.
IsEncoding(E, x, a, num, chanbits, shift) ==
    /\ E \in [1 .. Len(x) -> EncStates(num)]
    /\ E[1] = [res |-> <<x[1]>>, a |-> a]
    /\ \A j \in 2 .. Len(x) : E[j] = EncRound(E[j - 1], x, j, num, chanbits, shift)

ComesFromEncoding(x, a, num, chanbits, shift) ==
    \E E : /\ IsEncoding(E, x, a, num, chanbits, shift)
           /\ Enc!Predict(x, a, num, chanbits, shift) = E[Len(x)].res

LEMMA EncPredictBy ==
    ASSUME NEW num \in 1 .. 31, NEW a \in [1 .. num -> Int16], NEW x \in Seq(Int), x # <<>>,
           NEW shift \in Nat, NEW chanbits \in Nat
    PROVE  ComesFromEncoding(x, a, num, chanbits, shift)
<1> DEFINE n == Len(x)
           m == n - 1
           S == EncStates(num)
           first == [res |-> <<x[1]>>, a |-> a]
           Next1(s, j) == EncRound(s, x, j, num, chanbits, shift)
           Body(f) == [j \in 1 .. n |-> IF j = 1 THEN first ELSE Next1(f[j - 1], j)]
           step == [i \in 1 .. m |-> [s \in S |-> Next1(s, i + 1)]]
           g == CHOOSE f : f = Body(f)
<1>1. n \in Nat \ {0} /\ m \in Nat /\ n = m + 1
  <2>1. n \in Nat /\ n # 0
    OBVIOUS
  <2> HIDE DEF n
  <2> QED
    BY <2>1
<1>2. first \in S
  <2>1. x[1] \in Int
    <3>1. 1 \in 1 .. Len(x)
      BY <1>1
    <3> QED
      BY <3>1
  <2>2. <<x[1]>> \in Seq(Int)
    BY <2>1
  <2> QED
    BY <2>2 DEF EncStates
<1>3. \A i \in 1 .. m : \A s \in S : Next1(s, i + 1) \in S
  <2> SUFFICES ASSUME NEW i \in 1 .. m, NEW s \in S PROVE Next1(s, i + 1) \in S
    OBVIOUS
  <2>1. i + 1 \in 2 .. Len(x)
    BY <1>1
  <2>2. num \in 0 .. 31
    OBVIOUS
  <2> QED
    BY <2>1, <2>2, EncRoundIs
<1>4. Enc!Predict(x, a, num, chanbits, shift) = g[n].res
  <2>1. num # 0
    OBVIOUS
  <2> QED
    BY <2>1 DEF Enc!Predict, EncRound
<1> HIDE DEF n, m, S, first, Next1
<1>5. step \in [1 .. m -> [S -> S]]
  BY <1>3
<1>6. PICK r : IsRun(r, m, S, first, step)
  <2> HIDE DEF step
  <2> QED
    BY <1>1, <1>2, <1>5, Rounds
<1>7. /\ r \in [0 .. m -> S] /\ r[0] = first
      /\ \A i \in 1 .. m : r[i] = Next1(r[i - 1], i + 1)
  <2>1. /\ r \in [0 .. m -> S] /\ r[0] = first
        /\ \A i \in 1 .. m : r[i] = step[i][r[i - 1]]
    <3> HIDE DEF step
    <3> QED
      BY <1>6 DEF IsRun
  <2>2. \A i \in 1 .. m : i - 1 \in 0 .. m
    BY <1>1
  <2>3. \A i \in 1 .. m : step[i][r[i - 1]] = Next1(r[i - 1], i + 1)
    BY <2>1, <2>2
  <2> QED
    BY <2>1, <2>3
<1> HIDE DEF step
<1> DEFINE f0 == [j \in 1 .. n |-> r[j - 1]]
<1>8. f0 = Body(f0)
  <2> SUFFICES ASSUME NEW j \in 1 .. n
               PROVE  r[j - 1] = IF j = 1 THEN first ELSE Next1(f0[j - 1], j)
    OBVIOUS
  <2>1. CASE j = 1
    <3>1. j - 1 = 0
      BY <2>1
    <3> QED
      BY <1>7, <2>1, <3>1
  <2>2. CASE j # 1
    <3> DEFINE i == j - 1
    <3>1. i \in 1 .. m /\ i \in 1 .. n /\ i + 1 = j
      BY <1>1, <2>2
    <3>2. f0[i] = r[i - 1]
      BY <3>1
    <3> HIDE DEF i, f0
    <3>3. r[i] = Next1(r[i - 1], i + 1)
      BY <1>7, <3>1
    <3> QED
      BY <2>2, <3>1, <3>2, <3>3 DEF i
  <2> QED
    BY <2>1, <2>2
<1>9. g = Body(g)
  <2> HIDE DEF Body, f0
  <2> QED
    BY <1>8
<1> HIDE DEF g
<1>10. g[1] = first /\ \A j \in 2 .. n : g[j] = Next1(g[j - 1], j)
  <2>1. \A j \in 1 .. n : g[j] = IF j = 1 THEN first ELSE Next1(g[j - 1], j)
    BY <1>9
  <2>2. 1 \in 1 .. n /\ \A j \in 2 .. n : j \in 1 .. n /\ j # 1
    BY <1>1
  <2> QED
    BY <2>1, <2>2
<1>11. g \in [1 .. n -> S]
  <2> DEFINE P == {i \in 0 .. m : g[i + 1] \in S}
  <2>1. 0 \in P
    <3>1. g[0 + 1] = first /\ 0 \in 0 .. m
      BY <1>1, <1>10
    <3> QED
      BY <1>2, <3>1
  <2>2. ASSUME NEW i \in 1 .. m, i - 1 \in P PROVE i \in P
    <3>1. i + 1 \in 2 .. n /\ (i + 1) - 1 = i /\ (i - 1) + 1 = i /\ i \in 0 .. m
      BY <1>1
    <3>2. g[i] \in S
      BY <2>2, <3>1
    <3>3. g[i + 1] = Next1(g[(i + 1) - 1], i + 1)
      BY <1>10, <3>1
    <3>4. g[i + 1] = Next1(g[i], i + 1)
      BY <3>1, <3>3
    <3>5. Next1(g[i], i + 1) \in S
      BY <1>3, <3>2
    <3>6. g[i + 1] \in S
      BY <3>4, <3>5
    <3> QED
      BY <3>1, <3>6
  <2>3. \A i \in 0 .. m : i \in P
    <3> HIDE DEF P
    <3> QED
      BY <1>1, <2>1, <2>2, UpTo
  <2>4. \A j \in 1 .. n : j - 1 \in 0 .. m /\ (j - 1) + 1 = j
    BY <1>1
  <2>5. \A j \in 1 .. n : g[j] \in S
    BY <2>3, <2>4
  <2>6. g = [j \in 1 .. n |-> g[j]]
    BY <1>9
  <2> QED
    BY <2>5, <2>6
<1>12. IsEncoding(g, x, a, num, chanbits, shift)
  <2>1. g \in [1 .. Len(x) -> EncStates(num)]
    BY <1>11 DEF n, S
  <2>2. g[1] = [res |-> <<x[1]>>, a |-> a]
    BY <1>10 DEF first
  <2>3. \A j \in 2 .. Len(x) : g[j] = EncRound(g[j - 1], x, j, num, chanbits, shift)
    BY <1>10, Zenon DEF n, Next1
  <2> QED
    BY <2>1, <2>2, <2>3 DEF IsEncoding
<1> QED
  BY <1>4, <1>12 DEF ComesFromEncoding, n

\* Every sample adds one residual.
AppendsOne(s, t) == \E d : t.res = Append(s.res, d)

LEMMA EncRoundAppends ==
    ASSUME NEW num, NEW s \in EncStates(num), NEW x, NEW j, NEW chanbits, NEW shift
    PROVE  AppendsOne(s, EncRound(s, x, j, num, chanbits, shift))
<1> DEFINE b == [k \in 1 .. num |-> x[j - num - 1] - x[j - k]]
           d1 == Enc!Signed(x[j] - x[j - 1], chanbits)
           d2 == Enc!ResidualOf(x[j], x[j - num - 1], b, s.a, num, chanbits, shift)
<1>1. EncRound(s, x, j, num, chanbits, shift)
        = IF j <= num + 1 THEN [s EXCEPT !.res = Append(@, d1)]
          ELSE Enc!Adjusted(s, b, d2, num, shift)
  BY DEF EncRound
<1>2. Enc!Adjusted(s, b, d2, num, shift).res = Append(s.res, d2)
  BY DEF Enc!Adjusted
<1> HIDE DEF b, d1, d2
<1>3. [s EXCEPT !.res = Append(@, d1)].res = Append(s.res, d1)
  BY DEF EncStates
<1>4. \/ EncRound(s, x, j, num, chanbits, shift).res = Append(s.res, d1)
      \/ EncRound(s, x, j, num, chanbits, shift).res = Append(s.res, d2)
  BY <1>1, <1>2, <1>3, Zenon
<1> QED
  BY <1>4, Zenon DEF AppendsOne

\* The residuals of the first samples are the same, however many follow.
ResidualsOf(E, x) == \A j \in 1 .. Len(x) : Len(E[j].res) = j /\ E[Len(x)].res[j] = E[j].res[j]

LEMMA ResidualsStay ==
    ASSUME NEW num, NEW a, NEW x \in Seq(Int), NEW chanbits, NEW shift,
           NEW E, IsEncoding(E, x, a, num, chanbits, shift), x # <<>>
    PROVE  ResidualsOf(E, x)
<1> DEFINE n == Len(x)
           Stay(j) == Len(E[j].res) = j /\ \A i \in 1 .. j : E[j].res[i] = E[i].res[i]
           P == {j \in 0 .. n - 1 : Stay(j + 1)}
<1>1. n \in Nat /\ n - 1 \in Nat /\ n \in 1 .. n
  <2>1. n \in Nat /\ n # 0
    OBVIOUS
  <2> HIDE DEF n
  <2> QED
    BY <2>1
<1>2. /\ \A j \in 1 .. n : E[j].res \in Seq(Int) /\ E[j] \in EncStates(num)
      /\ E[1].res = <<x[1]>>
      /\ \A j \in 2 .. n : E[j] = EncRound(E[j - 1], x, j, num, chanbits, shift)
  <2>1. /\ E \in [1 .. n -> EncStates(num)] /\ E[1] = [res |-> <<x[1]>>, a |-> a]
        /\ \A j \in 2 .. n : E[j] = EncRound(E[j - 1], x, j, num, chanbits, shift)
    BY DEF IsEncoding
  <2>2. \A t \in EncStates(num) : t.res \in Seq(Int)
    BY DEF EncStates
  <2> HIDE DEF n
  <2>3. \A j \in 1 .. n : E[j] \in EncStates(num)
    BY <2>1
  <2>4. E[1].res = <<x[1]>>
    BY <2>1
  <2> QED
    BY <2>1, <2>2, <2>3, <2>4
<1> HIDE DEF n
<1>3. 0 \in P
  <2>1. Stay(1)
    <3>1. Len(E[1].res) = 1
      BY <1>2
    <3>2. \A i \in 1 .. 1 : i = 1
      OBVIOUS
    <3> QED
      BY <3>1, <3>2
  <2> QED
    BY <1>1, <2>1
<1>4. ASSUME NEW i \in 1 .. n - 1, i - 1 \in P PROVE i \in P
  <2> DEFINE j == i + 1
             s == E[i].res
             t == E[j].res
  <2>1. /\ i \in 0 .. n - 1 /\ (i - 1) + 1 = i /\ j \in 2 .. n /\ j - 1 = i
        /\ i \in 1 .. n /\ j \in 1 .. n
    BY <1>1
  <2>2. Stay(i)
    BY <1>4, <2>1
  <2>3. s \in Seq(Int) /\ t \in Seq(Int) /\ Len(s) = i
    BY <1>2, <2>1, <2>2
  <2>4. \E d : t = Append(s, d)
    <3>1. E[j] = EncRound(E[i], x, j, num, chanbits, shift)
      BY <1>2, <2>1
    <3>2. E[i] \in EncStates(num)
      BY <1>2, <2>1
    <3> HIDE DEF j
    <3>3. AppendsOne(E[i], EncRound(E[i], x, j, num, chanbits, shift))
      BY <3>2, EncRoundAppends
    <3> QED
      BY <3>1, <3>3 DEF AppendsOne
  <2>5. PICK d : t = Append(s, d)
    BY <2>4
  <2> HIDE DEF s, t
  <2>6. Len(t) = i + 1 /\ \A q \in 1 .. i : t[q] = s[q]
    BY <2>3, <2>5
  <2>7. \A q \in 1 .. i : s[q] = E[q].res[q]
    BY <2>2 DEF s
  <2>8. \A q \in 1 .. j : q = j \/ q \in 1 .. i
    OBVIOUS
  <2>9. \A q \in 1 .. j : t[q] = E[q].res[q]
    BY <2>6, <2>7, <2>8 DEF t
  <2>10. Stay(j)
    BY <2>6, <2>9 DEF t
  <2> HIDE DEF Stay
  <2> QED
    BY <2>1, <2>10
<1>5. \A i \in 0 .. n - 1 : i \in P
  <2> HIDE DEF P
  <2> QED
    BY <1>1, <1>3, <1>4, UpTo
<1>6. \A j \in 1 .. n : j - 1 \in 0 .. n - 1 /\ (j - 1) + 1 = j
  BY <1>1
<1>7. \A j \in 1 .. n : Stay(j)
  <2> HIDE DEF Stay
  <2> QED
    BY <1>5, <1>6
<1>8. Stay(n)
  <2> HIDE DEF Stay
  <2> QED
    BY <1>1, <1>7
<1>9. \A j \in 1 .. n : Len(E[j].res) = j /\ E[n].res[j] = E[j].res[j]
  BY <1>7, <1>8
<1> QED
  BY <1>9 DEF n, ResidualsOf

-----------------------------------------------------------------------------
(* The predictor is undone                                                 *)

\* What is left of x over y, put back on top of y.
LEMMA PutBack ==
    ASSUME NEW n \in Nat \ {0}, NEW x \in SignedRange(n), NEW y \in Int
    PROVE  Signed(Signed(x - y, n) + y, n) = x
<1>1. x \in Int
  <2>1. 2^(n - 1) \in Int
    <3>1. n - 1 \in Nat
      OBVIOUS
    <3> QED
      BY <3>1, PowerOfTwo
  <2> QED
    BY <2>1 DEF SignedRange
<1> DEFINE d == x - y
           r == Signed(d, n)
<1>2. d \in Int /\ y + d = x
  BY <1>1
<1> HIDE DEF d
<1>3. r \in Int /\ Signed(y + r, n) = Signed(y + d, n)
  BY <1>2, SignedIs
<1>4. Signed(x, n) = x
  BY <1>1, SignedIs
<1> HIDE DEF r
<1>5. r + y = y + r
  BY <1>3
<1> QED
  BY <1>2, <1>3, <1>4, <1>5 DEF r, d

\* A block that is right up to j - 1, with the coefficients A[j - 1], is right up to j
\* after a round, with the coefficients A[j].
RightRound(L, x, A, j, del, num, chanbits, shift) ==
    \A b \in Blocks(L) :
        (\A q \in 0 .. j - 1 : b.out[q] = x[q + 1]) /\ ListOf(b.coefs, num) = A[j - 1]
        => /\ Sample(b, j, del, num, chanbits, shift) = x[j + 1]
           /\ ListOf(Round(b, j, del, num, chanbits, shift).coefs, num) = A[j]

\* The rounds up to m are right with the residuals pc, and so is the first sample.
AllRight(L, x, A, m, pc, num, chanbits, shift) ==
    /\ pc[0] = x[1]
    /\ \A j \in 1 .. m : RightRound(L, x, A, j, pc[j], num, chanbits, shift)

\* The block b holds the first m + 1 samples of x.
RightUpTo(b, x, m) == \A q \in 0 .. m : b.out[q] = x[q + 1]

\* Rounds that are right one by one leave a block that is right.
LEMMA LockStep ==
    ASSUME NEW L \in Nat, NEW m \in Nat, m < L, NEW pc, NEW o \in [0 .. L - 1 -> Int],
           NEW c, NEW num, NEW chanbits, NEW shift,
           NEW g, AreRounds(g, pc, L, o, m, c, num, chanbits, shift),
           NEW x, NEW A, ListOf(c, num) = A[0],
           AllRight(L, x, A, m, pc, num, chanbits, shift)
    PROVE  RightUpTo(g[m], x, m)
<1> DEFINE Right(j) == /\ \A q \in 0 .. j : g[j].out[q] = x[q + 1]
                       /\ ListOf(g[j].coefs, num) = A[j]
           P == {j \in 0 .. m : Right(j)}
<1>1. /\ g \in [0 .. m -> Blocks(L)]
      /\ g[0] = [out |-> [o EXCEPT ![0] = pc[0]], coefs |-> c]
      /\ \A j \in 1 .. m : g[j] = Round(g[j - 1], j, pc[j], num, chanbits, shift)
  BY DEF AreRounds
<1>2. 0 \in P
  <2>1. 0 \in 0 .. L - 1 /\ 0 \in 0 .. m /\ \A q \in 0 .. 0 : q = 0
    OBVIOUS
  <2>2. g[0].out[0] = x[1] /\ g[0].coefs = c
    BY <1>1, <2>1 DEF AllRight
  <2>3. 0 + 1 = 1
    OBVIOUS
  <2>4. \A q \in 0 .. 0 : g[0].out[q] = x[q + 1]
    BY <2>1, <2>2, <2>3
  <2> QED
    BY <2>1, <2>2, <2>4
<1>3. ASSUME NEW j \in 1 .. m, j - 1 \in P PROVE j \in P
  <2> DEFINE b == g[j - 1]
             y == Sample(b, j, pc[j], num, chanbits, shift)
  <2>1. j - 1 \in 0 .. m /\ j \in 0 .. m /\ j \in 0 .. L - 1
        /\ \A q \in 0 .. j - 1 : q \in 0 .. L - 1 /\ q # j
    OBVIOUS
  <2>2. b \in Blocks(L) /\ g[j] = Round(b, j, pc[j], num, chanbits, shift)
    BY <1>1, <2>1
  <2>3. (\A q \in 0 .. j - 1 : b.out[q] = x[q + 1]) /\ ListOf(b.coefs, num) = A[j - 1]
    BY <1>3
  <2> HIDE DEF b
  <2>4. /\ y = x[j + 1]
        /\ ListOf(Round(b, j, pc[j], num, chanbits, shift).coefs, num) = A[j]
    BY <2>2, <2>3 DEF AllRight, RightRound
  <2>5. g[j].out = [b.out EXCEPT ![j] = y]
    BY <2>2 DEF Round
  <2> HIDE DEF y
  <2>6. b.out \in [0 .. L - 1 -> Int]
    BY <2>2 DEF Blocks
  <2>7. g[j].out[j] = y /\ \A q \in 0 .. j - 1 : g[j].out[q] = b.out[q]
    BY <2>1, <2>5, <2>6
  <2>8. \A q \in 0 .. j : q = j \/ q \in 0 .. j - 1
    OBVIOUS
  <2>9. \A q \in 0 .. j : g[j].out[q] = x[q + 1]
    BY <2>3, <2>4, <2>7, <2>8
  <2>10. ListOf(g[j].coefs, num) = A[j]
    BY <2>2, <2>4
  <2> QED
    BY <2>1, <2>9, <2>10
<1>4. m \in P
  <2>1. m \in 0 .. m
    OBVIOUS
  <2> HIDE DEF P
  <2> QED
    BY <1>2, <1>3, <2>1, UpTo
<1> QED
  BY <1>4 DEF RightUpTo

LEMMA RangeIsInt == \A n \in Nat \ {0} : SignedRange(n) \subseteq Int
<1> SUFFICES ASSUME NEW n \in Nat \ {0} PROVE SignedRange(n) \subseteq Int
  OBVIOUS
<1>1. n - 1 \in Nat
  OBVIOUS
<1>2. 2^(n - 1) \in Int
  BY <1>1, PowerOfTwo
<1> QED
  BY <1>2 DEF SignedRange

\* The encoder's residual of a sample is what the decoder's round needs to be right.
LEMMA RoundUndone ==
    ASSUME NEW num \in 1 .. 30, NEW a, NEW chanbits \in Nat \ {0},
           NEW x \in Seq(SignedRange(chanbits)), x # <<>>, NEW shift \in Nat,
           NEW L \in Nat, Len(x) <= L,
           NEW E, IsEncoding(E, x, a, num, chanbits, shift),
           NEW A, \A i \in 0 .. Len(x) - 1 : A[i] = E[i + 1].a,
           NEW j \in 1 .. Len(x) - 1
    PROVE  RightRound(L, x, A, j, E[j + 1].res[j + 1], num, chanbits, shift)
<1> DEFINE n == Len(x)
           i == j + 1
           s == E[j]
           t == E[i]
           del == t.res[i]
<1>1. /\ n \in Nat /\ j \in 1 .. n /\ i \in 2 .. n /\ i \in 1 .. n /\ i - 1 = j
      /\ j \in 1 .. L - 1 /\ j \in 0 .. n - 1 /\ j - 1 \in 0 .. n - 1 /\ (j - 1) + 1 = j
  <2>1. n \in Nat
    OBVIOUS
  <2> HIDE DEF n
  <2>2. j \in 1 .. n - 1 /\ n <= L
    BY DEF n
  <2> QED
    BY <2>1, <2>2
<1>2. x \in Seq(Int) /\ chanbits \in Nat /\ \A k \in 1 .. n : x[k] \in SignedRange(chanbits)
  <2>1. \A k \in 1 .. n : x[k] \in SignedRange(chanbits)
    OBVIOUS
  <2>2. x \in [1 .. n -> Int]
    BY <2>1, RangeIsInt
  <2> QED
    BY <1>1, <2>1, <2>2
<1>3. x[j] \in Int /\ x[i] \in Int /\ x[i] \in SignedRange(chanbits)
  BY <1>1, <1>2, RangeIsInt
<1>4. s \in EncStates(num) /\ t = EncRound(s, x, i, num, chanbits, shift)
  BY <1>1 DEF IsEncoding
<1>5. s.res \in Seq(Int) /\ Len(s.res) = j
  <2>1. \A q \in 1 .. Len(x) : Len(E[q].res) = q
    <3>1. ResidualsOf(E, x)
      BY <1>2, ResidualsStay
    <3> QED
      BY <3>1 DEF ResidualsOf
  <2>2. Len(s.res) = j
    BY <1>1, <2>1
  <2> QED
    BY <1>4, <2>2 DEF EncStates
<1>6. A[j - 1] = s.a /\ A[j] = t.a
  BY <1>1
<1> HIDE DEF n, i, s, t
<1> SUFFICES ASSUME NEW b \in Blocks(L), \A q \in 0 .. j - 1 : b.out[q] = x[q + 1],
                    ListOf(b.coefs, num) = s.a
             PROVE  /\ Sample(b, j, del, num, chanbits, shift) = x[i]
                    /\ ListOf(Round(b, j, del, num, chanbits, shift).coefs, num) = t.a
  BY <1>6, Zenon DEF RightRound, i, t, s
<1>7. b.out \in [0 .. L - 1 -> Int] /\ b.coefs \in Coefs
  BY DEF Blocks
<1>8. CASE j <= num
  <2> DEFINE d == Signed(x[i] - x[j], chanbits)
  <2>1. i <= num + 1
    BY <1>1, <1>8 DEF i
  <2>2. t = [s EXCEPT !.res = Append(@, d)]
    <3>1. x[i - 1] = x[j]
      BY <1>1
    <3> QED
      BY <1>4, <2>1, <3>1, EncSigned DEF EncRound
  <2>3. t.res = Append(s.res, d) /\ t.a = s.a
    BY <1>4, <2>2 DEF EncStates
  <2>4. d \in Int
    <3>1. x[i] - x[j] \in Int
      BY <1>3
    <3> QED
      BY <1>2, <3>1, SignedIsInt
  <2> HIDE DEF d
  <2>5. del = d
    BY <1>5, <2>3, <2>4 DEF i
  <2>6. b.out[j - 1] = x[j]
    <3>1. j - 1 \in 0 .. j - 1 /\ (j - 1) + 1 = j
      OBVIOUS
    <3> QED
      BY <3>1
  <2>7. Sample(b, j, d, num, chanbits, shift) = Signed(d + x[j], chanbits)
    <3>1. num # 0 /\ j \in 1 .. num
      BY <1>8
    <3> QED
      BY <2>6, <3>1 DEF Sample
  <2>8. Signed(d + x[j], chanbits) = x[i]
    BY <1>3, PutBack DEF d
  <2>9. Round(b, j, d, num, chanbits, shift).coefs = b.coefs
    BY <1>8 DEF Round
  <2> HIDE DEF del
  <2> QED
    BY <2>3, <2>5, <2>7, <2>8, <2>9
<1>9. CASE ~(j <= num)
  <2> DEFINE y == Predicted(b.out, j, b.coefs, num, shift)
             d == Signed(x[i] - y, chanbits)
             c == Adapted(b.out, j, b.coefs, num, shift, d)
  <2>1. num \in 0 .. 31 /\ j \in num + 1 .. L - 1
    BY <1>1, <1>9
  <2>2. InStep(L, b.out, b.coefs, j, s, x, i, num, shift)
    <3>1. Predictable(L, b.out, b.coefs, num, j, shift)
      BY <1>7, <2>1 DEF Predictable
    <3> QED
      BY <1>3, <3>1 DEF InStep, i
  <2>3. EncRound(s, x, i, num, chanbits, shift)
          = [res |-> Append(s.res, d), a |-> ListOf(c, num)]
    BY <1>2, <2>2, EncRoundBy
  <2>4. y \in Int
    BY <1>7, <2>1, PredictedIs
  <2> HIDE DEF y
  <2>5. d \in Int /\ Signed(d + y, chanbits) = x[i]
    <3>1. x[i] - y \in Int
      BY <1>3, <2>4
    <3>2. Signed(Signed(x[i] - y, chanbits) + y, chanbits) = x[i]
      BY <1>3, <2>4, PutBack
    <3> QED
      BY <1>2, <3>1, <3>2, SignedIsInt
  <2> HIDE DEF d
  <2>6. t.res = Append(s.res, d) /\ t.a = ListOf(c, num)
    BY <1>4, <2>3
  <2>7. del = d
    BY <1>5, <2>5, <2>6 DEF i
  <2>8. num # 0 /\ num # 31 /\ j \notin 1 .. num /\ num \notin {0, 31}
    BY <1>9
  <2>9. Sample(b, j, d, num, chanbits, shift) = Signed(d + y, chanbits)
    BY <2>8 DEF Sample, y
  <2>10. Round(b, j, d, num, chanbits, shift).coefs = c
    BY <1>9, <2>8 DEF Round
  <2> HIDE DEF del, c
  <2> QED
    BY <2>5, <2>6, <2>7, <2>9, <2>10
<1> QED
  BY <1>8, <1>9

\* The residuals in pc are what the encoder's predictor makes of x.
Predictions(num, chanbits, x, shift, L, o, c, pc) ==
    /\ num \in 1 .. 30 /\ chanbits \in Nat \ {0}
    /\ x \in Seq(SignedRange(chanbits)) /\ x # <<>> /\ shift \in Nat
    /\ L \in Nat /\ Len(x) <= L /\ o \in [0 .. L - 1 -> Int]
    /\ c \in Coefs /\ pc \in [0 .. L - 1 -> Int]
    /\ \A i \in 0 .. Len(x) - 1 :
          pc[i] = Enc!Predict(x, ListOf(c, num), num, chanbits, shift)[i + 1]

LEMMA PredictorUndoneBy ==
    ASSUME NEW num, NEW chanbits, NEW x, NEW shift, NEW L, NEW o, NEW c, NEW pc,
           Predictions(num, chanbits, x, shift, L, o, c, pc)
    PROVE  \A i \in 0 .. Len(x) - 1 :
               UnpcBlock(pc, o, Len(x), c, num, chanbits, shift).out[i] = x[i + 1]
<1> SUFFICES ASSUME
           num \in 1 .. 30, chanbits \in Nat \ {0},
           x \in Seq(SignedRange(chanbits)), x # <<>>, shift \in Nat,
           L \in Nat, Len(x) <= L, o \in [0 .. L - 1 -> Int],
           c \in Coefs, pc \in [0 .. L - 1 -> Int],
           \A i \in 0 .. Len(x) - 1 :
               pc[i] = Enc!Predict(x, ListOf(c, num), num, chanbits, shift)[i + 1]
    PROVE  \A i \in 0 .. Len(x) - 1 :
               UnpcBlock(pc, o, Len(x), c, num, chanbits, shift).out[i] = x[i + 1]
  BY Zenon DEF Predictions
<1> DEFINE n == Len(x)
           m == n - 1
           a == ListOf(c, num)
<1>1. n \in 1 .. L /\ m \in Nat /\ m < L /\ n \in Nat
  <2>1. n \in Nat /\ n # 0 /\ n <= L
    OBVIOUS
  <2> HIDE DEF n
  <2> QED
    BY <2>1
<1>2. num \in 0 .. 31 /\ num \in 1 .. 31 /\ chanbits \in Nat
  OBVIOUS
<1>3. x \in Seq(Int)
  <2>1. x \in [1 .. n -> Int]
    BY RangeIsInt
  <2> HIDE DEF n, m
  <2> QED
    BY <1>1, <2>1
<1>4. a \in [1 .. num -> Int16]
  BY <1>2, ListIs
<1>5. ComesFromEncoding(x, a, num, chanbits, shift)
  BY <1>2, <1>3, <1>4, EncPredictBy
<1>6. PICK E : /\ IsEncoding(E, x, a, num, chanbits, shift)
               /\ Enc!Predict(x, a, num, chanbits, shift) = E[n].res
  BY <1>5 DEF ComesFromEncoding
<1>7. ComesFromRounds(pc, L, o, n, c, num, chanbits, shift)
  BY <1>1, <1>2, UnpcBlockBy
<1>8. PICK g : /\ AreRounds(g, pc, L, o, m, c, num, chanbits, shift)
               /\ UnpcBlock(pc, o, n, c, num, chanbits, shift) = g[m]
  BY <1>7 DEF ComesFromRounds
<1> HIDE DEF a
<1>9. \A q \in 1 .. n : Len(E[q].res) = q /\ E[n].res[q] = E[q].res[q]
  <2>1. ResidualsOf(E, x)
    BY <1>3, <1>6, ResidualsStay
  <2> QED
    BY <2>1 DEF ResidualsOf
<1>10. \A i \in 0 .. m : pc[i] = E[i + 1].res[i + 1]
  <2> SUFFICES ASSUME NEW i \in 0 .. m PROVE pc[i] = E[i + 1].res[i + 1]
    OBVIOUS
  <2>1. i + 1 \in 1 .. n
    BY <1>1
  <2>2. pc[i] = Enc!Predict(x, a, num, chanbits, shift)[i + 1]
    BY DEF a
  <2> HIDE DEF n, m
  <2> QED
    BY <1>6, <1>9, <2>1, <2>2
<1> DEFINE A == [i \in 0 .. m |-> E[i + 1].a]
<1>11. pc[0] = x[1] /\ a = A[0]
  <2>1. 0 \in 0 .. m /\ 0 + 1 = 1
    BY <1>1
  <2>2. E[1].res = <<x[1]>> /\ E[1].a = a
    BY <1>6 DEF IsEncoding
  <2> HIDE DEF m
  <2> QED
    BY <1>10, <2>1, <2>2
<1>12. \A i \in 0 .. m : A[i] = E[i + 1].a
  OBVIOUS
<1> HIDE DEF A
<1>13. \A j \in 1 .. m : RightRound(L, x, A, j, E[j + 1].res[j + 1], num, chanbits, shift)
  BY <1>6, <1>12, RoundUndone
<1>14. \A j \in 1 .. m : RightRound(L, x, A, j, pc[j], num, chanbits, shift)
  <2>1. \A j \in 1 .. m : j \in 0 .. m
    BY <1>1
  <2> HIDE DEF m
  <2> QED
    BY <1>10, <1>13, <2>1
<1>15. RightUpTo(g[m], x, m)
  <2>1. ListOf(c, num) = A[0]
    BY <1>11 DEF a
  <2>2. AllRight(L, x, A, m, pc, num, chanbits, shift)
    BY <1>11, <1>14 DEF AllRight
  <2> HIDE DEF m
  <2> QED
    BY <1>1, <1>8, <2>1, <2>2, LockStep
<1> QED
  BY <1>8, <1>15 DEF RightUpTo

\* UnpcBlock undoes the encoder's predictor, whatever samples a channel has, whatever
\* the coefficients the frame starts from and the shift, and however long the block,
\* whatever it held (unpcBlock, lossless for numactive up to 30).
THEOREM PredictorUndone ==
    ASSUME NEW num \in 1 .. 30, NEW chanbits \in Nat \ {0},
           NEW x \in Seq(SignedRange(chanbits)), x # <<>>, NEW shift \in Nat,
           NEW L \in Nat, Len(x) <= L, NEW o \in [0 .. L - 1 -> Int],
           NEW c \in Coefs, NEW pc \in [0 .. L - 1 -> Int],
           \A i \in 0 .. Len(x) - 1 :
               pc[i] = Enc!Predict(x, ListOf(c, num), num, chanbits, shift)[i + 1]
    PROVE  \A i \in 0 .. Len(x) - 1 :
               UnpcBlock(pc, o, Len(x), c, num, chanbits, shift).out[i] = x[i + 1]
<1>1. Predictions(num, chanbits, x, shift, L, o, c, pc)
  BY Zenon DEF Predictions
<1> QED
  BY <1>1, PredictorUndoneBy

\* The numbers in pc are the samples of x, or their differences.
Differences(num, chanbits, x, shift, L, o, c, pc) ==
    /\ num \in {0, 31} /\ chanbits \in Nat \ {0}
    /\ x \in Seq(SignedRange(chanbits)) /\ x # <<>> /\ shift \in Nat
    /\ L \in Nat /\ Len(x) <= L /\ o \in [0 .. L - 1 -> Int]
    /\ c \in Coefs /\ pc \in [0 .. L - 1 -> Int]
    /\ \A i \in 0 .. Len(x) - 1 :
          pc[i] = IF num = 0 THEN x[i + 1] ELSE Enc!Difference(x, chanbits)[i + 1]

LEMMA DifferencesUndoneBy ==
    ASSUME NEW num, NEW chanbits, NEW x, NEW shift, NEW L, NEW o, NEW c, NEW pc,
           Differences(num, chanbits, x, shift, L, o, c, pc)
    PROVE  \A i \in 0 .. Len(x) - 1 :
               UnpcBlock(pc, o, Len(x), c, num, chanbits, shift).out[i] = x[i + 1]
<1> SUFFICES ASSUME
           num \in {0, 31}, chanbits \in Nat \ {0},
           x \in Seq(SignedRange(chanbits)), x # <<>>, shift \in Nat,
           L \in Nat, Len(x) <= L, o \in [0 .. L - 1 -> Int],
           c \in Coefs, pc \in [0 .. L - 1 -> Int],
           \A i \in 0 .. Len(x) - 1 :
               pc[i] = IF num = 0 THEN x[i + 1] ELSE Enc!Difference(x, chanbits)[i + 1]
    PROVE  \A i \in 0 .. Len(x) - 1 :
               UnpcBlock(pc, o, Len(x), c, num, chanbits, shift).out[i] = x[i + 1]
  BY Zenon DEF Differences
<1> DEFINE n == Len(x)
           m == n - 1
           A == [i \in 0 .. m |-> ListOf(c, num)]
<1>1. n \in 1 .. L /\ m \in Nat /\ m < L /\ n \in Nat
  <2>1. n \in Nat /\ n # 0 /\ n <= L
    OBVIOUS
  <2> HIDE DEF n
  <2> QED
    BY <2>1
<1>2. num \in 0 .. 31 /\ chanbits \in Nat
  OBVIOUS
<1>3. \A i \in 1 .. n : x[i] \in SignedRange(chanbits) /\ x[i] \in Int
  BY RangeIsInt
<1>4. ComesFromRounds(pc, L, o, n, c, num, chanbits, shift)
  BY <1>1, <1>2, UnpcBlockBy
<1>5. PICK g : /\ AreRounds(g, pc, L, o, m, c, num, chanbits, shift)
               /\ UnpcBlock(pc, o, n, c, num, chanbits, shift) = g[m]
  BY <1>4 DEF ComesFromRounds
<1>6. pc[0] = x[1] /\ ListOf(c, num) = A[0]
  <2>1. 0 \in 0 .. m /\ 0 + 1 = 1 /\ 1 \in 1 .. n
    BY <1>1
  <2>2. Enc!Difference(x, chanbits)[1] = x[1]
    BY <2>1 DEF Enc!Difference
  <2> QED
    BY <2>1, <2>2
<1>7. ASSUME NEW j \in 1 .. m PROVE RightRound(L, x, A, j, pc[j], num, chanbits, shift)
  <2> DEFINE i == j + 1
  <2>1. /\ i \in 1 .. n /\ j \in 1 .. n /\ j \in 0 .. m /\ j - 1 \in 0 .. m /\ i # 1
        /\ i - 1 = j /\ j - 1 \in 0 .. j - 1 /\ (j - 1) + 1 = j
    BY <1>1
  <2>2. A[j - 1] = ListOf(c, num) /\ A[j] = ListOf(c, num)
    BY <2>1
  <2> HIDE DEF A, m, n
  <2> SUFFICES ASSUME NEW b \in Blocks(L), \A q \in 0 .. j - 1 : b.out[q] = x[q + 1],
                      ListOf(b.coefs, num) = ListOf(c, num)
               PROVE  /\ Sample(b, j, pc[j], num, chanbits, shift) = x[i]
                      /\ ListOf(Round(b, j, pc[j], num, chanbits, shift).coefs, num)
                           = ListOf(c, num)
    BY <2>2, Zenon DEF RightRound
  <2>3. Round(b, j, pc[j], num, chanbits, shift).coefs = b.coefs
    BY DEF Round
  <2>4. b.out[j - 1] = x[j]
    BY <2>1
  <2>5. CASE num = 0
    <3>1. pc[j] = x[i]
      BY <2>1, <2>5 DEF m, n
    <3>2. Sample(b, j, pc[j], num, chanbits, shift) = pc[j]
      BY <2>5 DEF Sample
    <3> QED
      BY <2>3, <3>1, <3>2
  <2>6. CASE num = 31
    <3>1. pc[j] = Signed(x[i] - x[j], chanbits)
      <4>1. pc[j] = Enc!Difference(x, chanbits)[i]
        BY <2>1, <2>6 DEF m, n
      <4>2. Enc!Difference(x, chanbits)[i] = Enc!Signed(x[i] - x[i - 1], chanbits)
        BY <2>1 DEF Enc!Difference, n
      <4> QED
        BY <2>1, <4>1, <4>2, EncSigned
    <3>2. Sample(b, j, pc[j], num, chanbits, shift) = Signed(pc[j] + x[j], chanbits)
      BY <2>4, <2>6 DEF Sample
    <3>3. Signed(Signed(x[i] - x[j], chanbits) + x[j], chanbits) = x[i]
      BY <1>3, <2>1, PutBack
    <3> QED
      BY <2>3, <3>1, <3>2, <3>3
  <2> QED
    BY <2>5, <2>6
<1>8. RightUpTo(g[m], x, m)
  <2>1. AllRight(L, x, A, m, pc, num, chanbits, shift)
    BY <1>6, <1>7 DEF AllRight
  <2> HIDE DEF m, A
  <2> QED
    BY <1>1, <1>5, <1>6, <2>1, LockStep
<1> QED
  BY <1>5, <1>8 DEF RightUpTo

\* An element without coefficients holds its samples, and the plain differences of an
\* element in a mode other than 0 are undone: unpcBlock for numactive 0 and 31.
THEOREM DifferencesUndone ==
    ASSUME NEW num \in {0, 31}, NEW chanbits \in Nat \ {0},
           NEW x \in Seq(SignedRange(chanbits)), x # <<>>, NEW shift \in Nat,
           NEW L \in Nat, Len(x) <= L, NEW o \in [0 .. L - 1 -> Int],
           NEW c \in Coefs, NEW pc \in [0 .. L - 1 -> Int],
           \A i \in 0 .. Len(x) - 1 :
               pc[i] = IF num = 0 THEN x[i + 1] ELSE Enc!Difference(x, chanbits)[i + 1]
    PROVE  \A i \in 0 .. Len(x) - 1 :
               UnpcBlock(pc, o, Len(x), c, num, chanbits, shift).out[i] = x[i + 1]
<1>1. Differences(num, chanbits, x, shift, L, o, c, pc)
  BY Zenon DEF Differences
<1> QED
  BY <1>1, DifferencesUndoneBy

-----------------------------------------------------------------------------
(* What was written in bits is read back                                   *)

LEMMA SmallRemainder ==
    ASSUME NEW d \in Nat \ {0}, NEW r \in 0 .. d - 1
    PROVE  r % d = r /\ r \div d = 0
<1>1. 0 \in Int /\ d * 0 + r = r
  OBVIOUS
<1>2. (d * 0 + r) % d = r /\ (d * 0 + r) \div d = 0
  BY <1>1, DivisionIs
<1> QED
  BY <1>1, <1>2

LEMMA HalfQuotient ==
    ASSUME NEW x \in Int, NEW d \in Nat \ {0}
    PROVE  x \div (2 * d) = (x \div d) \div 2
<1>1. PICK q \in Int, r \in 0 .. d - 1 : x = d * q + r /\ x \div d = q
  BY Division
<1>2. PICK h \in Int, b \in {0, 1} : q = 2 * h + b /\ q \div 2 = h
  <2>1. q = 2 * (q \div 2) + (q % 2) /\ q % 2 \in {0, 1} /\ q \div 2 \in Int
    OBVIOUS
  <2> QED
    BY <2>1
<1> DEFINE e == 2 * d
           s == d * b + r
<1>3. e \in Nat \ {0} /\ s \in 0 .. e - 1
  <2>1. CASE b = 0
    BY <2>1
  <2>2. CASE b = 1
    BY <2>2
  <2> QED
    BY <2>1, <2>2
<1>4. x = e * h + s
  <2>1. d * (2 * h + b) = (2 * d) * h + d * b
    OBVIOUS
  <2> QED
    BY <1>1, <1>2, <2>1
<1> HIDE DEF e, s
<1>5. x \div e = h
  BY <1>3, <1>4, DivisionIs
<1>6. (x \div d) \div 2 = h
  BY <1>1, <1>2, Zenon
<1>7. x \div (2 * d) = h
  BY <1>5, Zenon DEF e
<1> QED
  BY <1>6, <1>7, Zenon

LEMMA RemainderTwice ==
    ASSUME NEW y \in Int, NEW h \in Nat \ {0}
    PROVE  /\ y % (2 * h) = 2 * ((y \div 2) % h) + (y % 2)
           /\ y \div (2 * h) = (y \div 2) \div h
<1>1. PICK z \in Int, b \in {0, 1} : y = 2 * z + b /\ y \div 2 = z /\ y % 2 = b
  <2>1. y = 2 * (y \div 2) + (y % 2) /\ y % 2 \in {0, 1} /\ y \div 2 \in Int
    OBVIOUS
  <2> QED
    BY <2>1
<1>2. PICK q \in Int, r \in 0 .. h - 1 : z = h * q + r /\ z % h = r /\ z \div h = q
  BY Division
<1> DEFINE e == 2 * h
           s == 2 * r + b
<1>3. e \in Nat \ {0} /\ s \in 0 .. e - 1
  OBVIOUS
<1>4. y = e * q + s
  <2>1. 2 * (h * q + r) = (2 * h) * q + 2 * r
    OBVIOUS
  <2> QED
    BY <1>1, <1>2, <2>1
<1> HIDE DEF e
<1>5. y % e = s /\ y \div e = q
  <2> HIDE DEF s
  <2> QED
    BY <1>3, <1>4, DivisionIs
<1>6. s = 2 * ((y \div 2) % h) + (y % 2)
  BY <1>1, <1>2, Zenon
<1>7. y % (2 * h) = s /\ y \div (2 * h) = q
  BY <1>5, Zenon DEF e
<1>8. (y \div 2) \div h = q
  BY <1>1, <1>2, Zenon
<1> QED
  BY <1>6, <1>7, <1>8, Zenon

LEMMA BitsOfIs ==
    ASSUME NEW x \in Int, NEW n \in Nat
    PROVE  /\ Enc!BitsOf(x, n) \in Seq(Bits) /\ Len(Enc!BitsOf(x, n)) = n
           /\ \A i \in 1 .. n : Enc!BitsOf(x, n)[i] = (x \div 2^(n - i)) % 2
<1> DEFINE f == [i \in 1 .. n |-> (x \div 2^(n - i)) % 2]
<1>1. \A i \in 1 .. n : (x \div 2^(n - i)) % 2 \in Bits
  <2> SUFFICES ASSUME NEW i \in 1 .. n PROVE (x \div 2^(n - i)) % 2 \in Bits
    OBVIOUS
  <2> DEFINE d == 2^(n - i)
  <2>1. n - i \in Nat
    OBVIOUS
  <2>2. d \in Nat \ {0}
    BY <2>1, PowerOfTwo
  <2> HIDE DEF d
  <2>3. (x \div d) % 2 \in {0, 1}
    BY <2>2
  <2> QED
    BY <2>3 DEF d, Bits
<1>2. f \in [1 .. n -> Bits]
  <2> HIDE DEF Bits
  <2> QED
    BY <1>1
<1>3. Enc!BitsOf(x, n) = f
  BY DEF Enc!BitsOf
<1>4. \A i \in 1 .. n : f[i] = (x \div 2^(n - i)) % 2
  OBVIOUS
<1> HIDE DEF f, Bits
<1>5. f \in Seq(Bits) /\ Len(f) = n
  BY <1>2
<1> QED
  BY <1>3, <1>4, <1>5

\* A field is put together from its bits, the first one highest.
FieldIsBuilt(w, i, n) ==
    \E g : /\ g[0] = 0 /\ Field(w, i, n) = g[n]
           /\ \A k \in 1 .. n : g[k] = 2 * g[k - 1] + w[i + k - 1]

LEMMA FieldBy ==
    ASSUME NEW w, NEW i \in Nat, NEW n \in Nat, \A k \in 1 .. n : w[i + k - 1] \in Bits
    PROVE  FieldIsBuilt(w, i, n)
<1> DEFINE Body(f) == [k \in 0 .. n |-> IF k = 0 THEN 0 ELSE 2 * f[k - 1] + w[i + k - 1]]
           step == [k \in 1 .. n |-> [x \in Nat |-> 2 * x + w[i + k - 1]]]
           g == CHOOSE f : f = Body(f)
<1>1. step \in [1 .. n -> [Nat -> Nat]]
  BY DEF Bits
<1>2. PICK f : IsRun(f, n, Nat, 0, step)
  <2> HIDE DEF step
  <2> QED
    BY <1>1, Rounds
<1>3. f = Body(f)
  <2>1. /\ f = [k \in 0 .. n |-> IF k = 0 THEN 0 ELSE step[k][f[k - 1]]]
        /\ f \in [0 .. n -> Nat]
    <3> HIDE DEF step
    <3>1. 0 \in Nat
      OBVIOUS
    <3>2. f = [k \in 0 .. n |-> IF k = 0 THEN 0 ELSE step[k][f[k - 1]]]
      BY <1>1, <1>2, <3>1, RunIs
    <3> QED
      BY <1>2, <3>2 DEF IsRun
  <2>2. \A k \in 0 .. n : k # 0 => k \in 1 .. n /\ k - 1 \in 0 .. n
    OBVIOUS
  <2>3. \A k \in 0 .. n : k # 0 => step[k][f[k - 1]] = 2 * f[k - 1] + w[i + k - 1]
    BY <2>1, <2>2
  <2> HIDE DEF step
  <2> QED
    BY <2>1, <2>3
<1>4. g = Body(g)
  <2> HIDE DEF Body
  <2> QED
    BY <1>3
<1>5. Field(w, i, n) = g[n]
  BY DEF Field
<1> HIDE DEF g
<1>6. g[0] = 0 /\ \A k \in 1 .. n : g[k] = 2 * g[k - 1] + w[i + k - 1]
  <2>1. \A k \in 0 .. n : g[k] = IF k = 0 THEN 0 ELSE 2 * g[k - 1] + w[i + k - 1]
    BY <1>4
  <2>2. 0 \in 0 .. n /\ \A k \in 1 .. n : k \in 0 .. n /\ k # 0
    OBVIOUS
  <2> QED
    BY <2>1, <2>2
<1> QED
  BY <1>5, <1>6 DEF FieldIsBuilt

\* A field that shows the n lowest bits of x is x, as far as n bits hold it.
Shows(w, i, x, n) == \A k \in 1 .. n : w[i + k - 1] = (x \div 2^(n - k)) % 2

LEMMA FieldShows ==
    ASSUME NEW w, NEW i \in Nat, NEW n \in Nat, NEW x \in Int, Shows(w, i, x, n)
    PROVE  Field(w, i, n) = x % 2^n
<1> DEFINE y(k) == x \div 2^(n - k)
<1>1. \A k \in 0 .. n : y(k) \in Int /\ n - k \in Nat
  <2> SUFFICES ASSUME NEW k \in 0 .. n PROVE y(k) \in Int /\ n - k \in Nat
    OBVIOUS
  <2> DEFINE d == 2^(n - k)
  <2>1. n - k \in Nat
    OBVIOUS
  <2>2. d \in Nat \ {0}
    BY <2>1, PowerOfTwo
  <2> HIDE DEF d
  <2>3. x \div d \in Int
    BY <2>2
  <2> QED
    BY <2>1, <2>3 DEF d
<1>2. \A k \in 1 .. n : w[i + k - 1] = y(k) % 2
  BY DEF Shows
<1>3. \A k \in 1 .. n : y(k - 1) = y(k) \div 2
  <2> SUFFICES ASSUME NEW k \in 1 .. n PROVE y(k - 1) = y(k) \div 2
    OBVIOUS
  <2> DEFINE d == 2^(n - k)
             e == 2^(n - (k - 1))
  <2>1. n - k \in Nat /\ n - (k - 1) = (n - k) + 1
    OBVIOUS
  <2>2. d \in Nat \ {0} /\ e = 2 * d
    BY <2>1, PowerOfTwo, NextPower
  <2> HIDE DEF d, e
  <2>3. x \div e = (x \div d) \div 2
    BY <2>2, HalfQuotient
  <2> QED
    BY <2>3 DEF d, e
<1>4. FieldIsBuilt(w, i, n)
  <2> HIDE DEF y
  <2>1. \A k \in 1 .. n : k \in 0 .. n
    OBVIOUS
  <2>2. \A z \in Int : z % 2 \in Bits
    BY DEF Bits
  <2> HIDE DEF Bits
  <2>3. \A k \in 1 .. n : w[i + k - 1] \in Bits
    BY <1>1, <1>2, <2>1, <2>2
  <2> QED
    BY <2>3, FieldBy
<1>5. PICK g : /\ g[0] = 0 /\ Field(w, i, n) = g[n]
               /\ \A k \in 1 .. n : g[k] = 2 * g[k - 1] + w[i + k - 1]
  BY <1>4 DEF FieldIsBuilt
<1> DEFINE P == {k \in 0 .. n : g[k] = y(k) % 2^k}
<1> HIDE DEF y
<1>6. 0 \in P
  <2>1. 2^0 = 1 /\ 0 \in 0 .. n
    OBVIOUS
  <2>2. y(0) % 1 = 0
    BY <1>1, <2>1
  <2> QED
    BY <1>5, <2>1, <2>2
<1>7. ASSUME NEW k \in 1 .. n, k - 1 \in P PROVE k \in P
  <2> DEFINE h == 2^(k - 1)
             e == 2^k
             z == y(k)
  <2>1. h \in Nat \ {0} /\ e = 2 * h
    <3>1. k - 1 \in Nat /\ (k - 1) + 1 = k
      OBVIOUS
    <3> QED
      BY <3>1, PowerOfTwo, NextPower
  <2>2. z \in Int /\ k \in 0 .. n
    BY <1>1
  <2>3. g[k] = 2 * ((z \div 2) % h) + (z % 2)
    <3>1. g[k] = 2 * g[k - 1] + w[i + k - 1]
      BY <1>5
    <3>2. g[k - 1] = y(k - 1) % h
      BY <1>7
    <3>3. y(k - 1) = z \div 2 /\ w[i + k - 1] = z % 2
      BY <1>2, <1>3
    <3> HIDE DEF h, z
    <3> QED
      BY <3>1, <3>2, <3>3, Zenon
  <2> HIDE DEF h, e, z
  <2>4. z % e = 2 * ((z \div 2) % h) + (z % 2)
    BY <2>1, <2>2, RemainderTwice
  <2>5. g[k] = z % e
    BY <2>3, <2>4
  <2> QED
    BY <2>2, <2>5 DEF z, e
<1>8. n \in P
  <2>1. n \in 0 .. n
    OBVIOUS
  <2> HIDE DEF P
  <2> QED
    BY <1>6, <1>7, <2>1, UpTo
<1>9. y(n) = x
  <2>1. n - n = 0 /\ 2^0 = 1 /\ x \div 1 = x
    OBVIOUS
  <2> QED
    BY <2>1 DEF y
<1> QED
  BY <1>5, <1>8, <1>9

\* What a load shows of the bits that stand at its i-th bit; past the end, zeros.
Loaded(s, buf, p, i, width) ==
    \A k \in 1 .. Len(s) : i + k - 1 + (p % 8) < width =>
        Window(buf, p, width)[i + k - 1] = IF p + i + k <= Len(buf) THEN s[k] ELSE 0

LEMMA LoadShows ==
    ASSUME NEW s \in Seq(Bits), NEW buf \in Seq(Bits), NEW p \in Nat, NEW i \in Nat,
           Stands(s, buf, p + i), NEW width \in Nat
    PROVE  Loaded(s, buf, p, i, width)
<1> SUFFICES ASSUME NEW k \in 1 .. Len(s), i + k - 1 + (p % 8) < width
             PROVE  Window(buf, p, width)[i + k - 1]
                       = IF p + i + k <= Len(buf) THEN s[k] ELSE 0
  BY DEF Loaded
<1> DEFINE j == i + k - 1
<1>1. p % 8 \in 0 .. 7
  OBVIOUS
<1>2. j \in 0 .. width - 1 /\ p + j + 1 = p + i + k /\ Len(buf) \in Nat
  BY <1>1
<1>3. Window(buf, p, width)[j] = Bit(buf, p + j)
  BY <1>2 DEF Window
<1>4. Bit(buf, p + j) = IF p + j < Len(buf) THEN buf[p + j + 1] ELSE 0
  BY DEF Bit
<1>5. p + i + k <= Len(buf) => buf[p + i + k] = s[k]
  BY DEF Stands
<1> HIDE DEF j
<1>6. p + j < Len(buf) <=> p + i + k <= Len(buf)
  BY <1>2
<1> QED
  BY <1>2, <1>3, <1>4, <1>5, <1>6 DEF j

LEMMA LoadStarts ==
    ASSUME NEW s \in Seq(Bits), NEW buf \in Seq(Bits), NEW p \in Nat,
           Stands(s, buf, p), NEW width \in Nat,
           NEW k \in 1 .. Len(s), k - 1 + (p % 8) < width
    PROVE  Window(buf, p, width)[k - 1] = IF p + k <= Len(buf) THEN s[k] ELSE 0
<1> DEFINE i == 0
<1>1. i \in Nat /\ p + i = p /\ i + k - 1 = k - 1 /\ p + i + k = p + k
  OBVIOUS
<1> HIDE DEF i
<1>2. Stands(s, buf, p + i) /\ i + k - 1 + (p % 8) < width
  BY <1>1
<1>3. Window(buf, p, width)[i + k - 1] = IF p + i + k <= Len(buf) THEN s[k] ELSE 0
  BY <1>1, <1>2, LoadShows DEF Loaded
<1> QED
  BY <1>1, <1>3

\* A number that was written is read, from any load that holds it.
FieldStands(x, i, n, buf, p, width) ==
    /\ buf \in Seq(Bits) /\ p \in Nat /\ i \in Nat /\ n \in Nat /\ x \in Int
    /\ i + n + (p % 8) <= width /\ width \in Nat
    /\ Stands(Enc!BitsOf(x, n), buf, p + i) /\ p + i + n <= Len(buf)

LEMMA FieldReads ==
    ASSUME NEW buf, NEW p, NEW width, NEW i, NEW n, NEW x,
           FieldStands(x, i, n, buf, p, width)
    PROVE  Field(Window(buf, p, width), i, n) = x % 2^n
<1> DEFINE s == Enc!BitsOf(x, n)
           w == Window(buf, p, width)
<1>8. n \in Nat /\ x \in Int
  BY DEF FieldStands
<1>1. s \in Seq(Bits) /\ Len(s) = n /\ \A k \in 1 .. n : s[k] = (x \div 2^(n - k)) % 2
  BY <1>8, BitsOfIs
<1>7. /\ buf \in Seq(Bits) /\ p \in Nat /\ i \in Nat /\ n \in Nat /\ x \in Int
      /\ i + n + (p % 8) <= width /\ width \in Nat
      /\ Stands(s, buf, p + i) /\ p + i + n <= Len(buf)
  BY DEF FieldStands
<1> HIDE DEF s
<1>5. Loaded(s, buf, p, i, width)
  BY <1>1, <1>7, LoadShows
<1>2. ASSUME NEW k \in 1 .. n PROVE w[i + k - 1] = s[k]
  <2>1. p % 8 \in 0 .. 7
    BY <1>7
  <2>2. i + k - 1 + (p % 8) < width /\ p + i + k <= Len(buf)
    BY <1>7, <2>1
  <2> QED
    BY <1>1, <1>5, <2>2 DEF Loaded
<1>3. Shows(w, i, x, n)
  BY <1>1, <1>2 DEF Shows
<1> HIDE DEF w
<1>4. Field(w, i, n) = x % 2^n
  BY <1>3, <1>7, FieldShows
<1> QED
  BY <1>4 DEF w

LEMMA ReadReads ==
    ASSUME NEW buf \in Seq(Bits), NEW p \in Nat, NEW n \in 0 .. 16, NEW x \in Int,
           Stands(Enc!BitsOf(x, n), buf, p), p + n <= Len(buf)
    PROVE  Read(buf, p, n) = x % 2^n
<1>1. p % 8 \in 0 .. 7
  OBVIOUS
<1>2. n \in Nat /\ 0 + n + (p % 8) <= 24 /\ n <= 16 /\ p + 0 = p /\ 0 \in Nat /\ 24 \in Nat
  BY <1>1
<1>3. Read(buf, p, n) = Field(Window(buf, p, 24), 0, n)
  BY <1>2 DEF Read
<1>4. Stands(Enc!BitsOf(x, n), buf, p + 0) /\ p + 0 + n <= Len(buf)
  BY <1>2
<1>6. FieldStands(x, 0, n, buf, p, 24)
  BY <1>2, <1>4 DEF FieldStands
<1>5. Field(Window(buf, p, 24), 0, n) = x % 2^n
  BY <1>6, FieldReads
<1> QED
  BY <1>3, <1>5

LEMMA StreamReads ==
    ASSUME NEW buf \in Seq(Bits), NEW p \in Nat, NEW n \in 0 .. 32, NEW x \in Int,
           Stands(Enc!BitsOf(x, n), buf, p), p + n <= Len(buf)
    PROVE  StreamBits(buf, p, n) = x % 2^n
<1>1. p % 8 \in 0 .. 7
  OBVIOUS
<1>2. n \in Nat /\ 0 + n + (p % 8) <= 40 /\ p + 0 = p /\ 0 \in Nat /\ 40 \in Nat
  BY <1>1
<1>3. Stands(Enc!BitsOf(x, n), buf, p + 0) /\ p + 0 + n <= Len(buf)
  BY <1>2
<1>5. FieldStands(x, 0, n, buf, p, 40)
  BY <1>2, <1>3 DEF FieldStands
<1>4. Field(Window(buf, p, 40), 0, n) = x % 2^n
  BY <1>5, FieldReads
<1> QED
  BY <1>4 DEF StreamBits

\* The last bit of a field.
LEMMA FieldTail ==
    ASSUME NEW w, NEW i \in Nat, NEW n \in Nat, \A k \in 1 .. n + 1 : w[i + k - 1] \in Bits
    PROVE  Field(w, i, n + 1) = 2 * Field(w, i, n) + w[i + n]
<1>1. \A k \in 1 .. n : k \in 1 .. n + 1 /\ k \in 0 .. n
  OBVIOUS
<1>2. PICK g : /\ g[0] = 0 /\ Field(w, i, n + 1) = g[n + 1]
               /\ \A k \in 1 .. n + 1 : g[k] = 2 * g[k - 1] + w[i + k - 1]
  <2>1. n + 1 \in Nat
    OBVIOUS
  <2>2. FieldIsBuilt(w, i, n + 1)
    BY <2>1, FieldBy
  <2> QED
    BY <2>2 DEF FieldIsBuilt
<1>3. PICK h : /\ h[0] = 0 /\ Field(w, i, n) = h[n]
               /\ \A k \in 1 .. n : h[k] = 2 * h[k - 1] + w[i + k - 1]
  <2>1. FieldIsBuilt(w, i, n)
    BY <1>1, FieldBy
  <2> QED
    BY <2>1 DEF FieldIsBuilt
<1> DEFINE P == {k \in 0 .. n : g[k] = h[k]}
<1>4. 0 \in P
  BY <1>2, <1>3
<1>5. ASSUME NEW k \in 1 .. n, k - 1 \in P PROVE k \in P
  <2>1. g[k] = 2 * g[k - 1] + w[i + k - 1] /\ h[k] = 2 * h[k - 1] + w[i + k - 1]
    BY <1>1, <1>2, <1>3
  <2> QED
    BY <1>1, <1>5, <2>1
<1>6. n \in P
  <2>1. n \in 0 .. n
    OBVIOUS
  <2> HIDE DEF P
  <2> QED
    BY <1>4, <1>5, <2>1, UpTo
<1>7. g[n + 1] = 2 * g[n] + w[i + n]
  <2>1. n + 1 \in 1 .. n + 1 /\ (n + 1) - 1 = n /\ i + (n + 1) - 1 = i + n
    OBVIOUS
  <2> QED
    BY <1>2, <2>1
<1> QED
  BY <1>2, <1>3, <1>6, <1>7

-----------------------------------------------------------------------------
(* A code word is read back                                                *)

LEMMA PrefixBy ==
    ASSUME NEW w, \A i \in 0 .. 31 : w[i] \in Bits, NEW c \in 0 .. 31,
           \A i \in 0 .. c - 1 : w[i] = 1
    PROVE  /\ w[c] = 0 => Prefix(w) = c
           /\ Prefix(w) >= c
<1> DEFINE q == Prefix(w)
<1>1. q \in 0 .. 32 /\ (\A i \in 0 .. q - 1 : w[i] = 1) /\ (q < 32 => w[q] = 0)
  BY PrefixIs
<1> HIDE DEF q
<1>2. q >= c
  <2> SUFFICES ASSUME q < c PROVE FALSE
    BY <1>1
  <2>1. q \in 0 .. c - 1 /\ q < 32
    BY <1>1
  <2> QED
    BY <1>1, <2>1
<1>3. w[c] = 0 => q <= c
  <2> SUFFICES ASSUME w[c] = 0, q > c PROVE FALSE
    BY <1>1
  <2>1. c \in 0 .. q - 1
    BY <1>1
  <2> QED
    BY <1>1, <2>1
<1>4. w[c] = 0 => q = c
  BY <1>1, <1>2, <1>3
<1> QED
  BY <1>2, <1>4 DEF q

LEMMA OnesAre ==
    ASSUME NEW n \in Nat
    PROVE  /\ Enc!Ones(n) \in Seq(Bits) /\ Len(Enc!Ones(n)) = n
           /\ \A i \in 1 .. n : Enc!Ones(n)[i] = 1
           /\ Enc!Ones(n) \o << 0 >> \in Seq(Bits) /\ Len(Enc!Ones(n) \o << 0 >>) = n + 1
           /\ \A i \in 1 .. n : (Enc!Ones(n) \o << 0 >>)[i] = 1
           /\ (Enc!Ones(n) \o << 0 >>)[n + 1] = 0
<1> DEFINE f == [i \in 1 .. n |-> 1]
<1>1. f \in Seq({0, 1}) /\ Len(f) = n /\ \A i \in 1 .. n : f[i] = 1
  OBVIOUS
<1>2. Enc!Ones(n) = f
  BY DEF Enc!Ones
<1>3. << 0 >> \in Seq({0, 1}) /\ Len(<< 0 >>) = 1 /\ << 0 >>[1] = 0
  OBVIOUS
<1> HIDE DEF f
<1>4. f \o << 0 >> \in Seq({0, 1}) /\ Len(f \o << 0 >>) = n + 1
  BY <1>1, <1>3
<1>5. (\A i \in 1 .. n : (f \o << 0 >>)[i] = 1) /\ (f \o << 0 >>)[n + 1] = 0
  BY <1>1, <1>3
<1> QED
  BY <1>1, <1>2, <1>4, <1>5 DEF Bits

\* A load shows a prefix of ones, as far as the bits go, and then a zero.
LEMMA PrefixReads ==
    ASSUME NEW buf \in Seq(Bits), NEW p \in Nat, p <= Len(buf), NEW q \in 0 .. 8,
           Stands(Enc!Ones(q) \o << 0 >>, buf, p)
    PROVE  Prefix(Window(buf, p, 32)) = IF p + q <= Len(buf) THEN q ELSE Len(buf) - p
<1> DEFINE s == Enc!Ones(q) \o << 0 >>
           w == Window(buf, p, 32)
           c == IF p + q <= Len(buf) THEN q ELSE Len(buf) - p
<1>1. /\ s \in Seq(Bits) /\ Len(s) = q + 1
      /\ (\A i \in 1 .. q : s[i] = 1) /\ s[q + 1] = 0
  <2>1. q \in Nat
    OBVIOUS
  <2> QED
    BY <2>1, OnesAre
<1> HIDE DEF s
<1>2. \A k \in 1 .. q + 1 : w[k - 1] = IF p + k <= Len(buf) THEN s[k] ELSE 0
  <2> SUFFICES ASSUME NEW k \in 1 .. q + 1
               PROVE  w[k - 1] = IF p + k <= Len(buf) THEN s[k] ELSE 0
    OBVIOUS
  <2>1. p % 8 \in 0 .. 7
    OBVIOUS
  <2>2. k \in 1 .. Len(s) /\ k - 1 + (p % 8) < 32 /\ 32 \in Nat
    BY <1>1, <2>1
  <2>3. Stands(s, buf, p)
    BY DEF s
  <2>4. w[k - 1] = IF p + k <= Len(buf) THEN s[k] ELSE 0
    BY <1>1, <2>2, <2>3, LoadStarts, SMTT(20)
  <2> HIDE DEF w
  <2> QED
    BY <2>4
<1>3. \A i \in 0 .. 31 : w[i] \in Bits
  <2>1. 32 \in Nat /\ 32 - 1 = 31
    OBVIOUS
  <2> QED
    BY <2>1, WindowIs
<1>4. c \in 0 .. q /\ p + c <= Len(buf) /\ (c # q => p + c + 1 > Len(buf)) /\ Len(buf) \in Nat
  OBVIOUS
<1> HIDE DEF w, c
<1>5. \A i \in 0 .. c - 1 : w[i] = 1
  <2> SUFFICES ASSUME NEW i \in 0 .. c - 1 PROVE w[i] = 1
    OBVIOUS
  <2> DEFINE k == i + 1
  <2>1. k \in 1 .. q + 1 /\ k \in 1 .. q /\ p + k <= Len(buf) /\ k - 1 = i
    BY <1>4
  <2> HIDE DEF k
  <2> QED
    BY <1>1, <1>2, <2>1
<1>6. w[c] = 0
  <2> DEFINE k == c + 1
  <2>1. k \in 1 .. q + 1 /\ k - 1 = c /\ (k = q + 1 \/ ~(p + k <= Len(buf)))
    BY <1>4
  <2> HIDE DEF k
  <2> QED
    BY <1>1, <1>2, <2>1
<1>7. Prefix(w) = c
  <2>1. c \in 0 .. 31
    BY <1>4
  <2> QED
    BY <1>3, <1>5, <1>6, <2>1, PrefixBy
<1> QED
  BY <1>7 DEF w, c

\* The same of the longest prefix, after which no zero is written.
LEMMA LongPrefixReads ==
    ASSUME NEW buf \in Seq(Bits), NEW p \in Nat, p <= Len(buf), Stands(Enc!Ones(9), buf, p)
    PROVE  IF p + 9 <= Len(buf) THEN Prefix(Window(buf, p, 32)) >= 9
           ELSE Prefix(Window(buf, p, 32)) = Len(buf) - p
<1> DEFINE s == Enc!Ones(9)
           w == Window(buf, p, 32)
           c == IF p + 9 <= Len(buf) THEN 9 ELSE Len(buf) - p
<1>1. s \in Seq(Bits) /\ Len(s) = 9 /\ \A i \in 1 .. 9 : s[i] = 1
  <2>1. 9 \in Nat
    OBVIOUS
  <2> QED
    BY <2>1, OnesAre
<1> HIDE DEF s
<1>2. \A k \in 1 .. 9 : w[k - 1] = IF p + k <= Len(buf) THEN 1 ELSE 0
  <2> SUFFICES ASSUME NEW k \in 1 .. 9
               PROVE  w[k - 1] = IF p + k <= Len(buf) THEN 1 ELSE 0
    OBVIOUS
  <2>1. p % 8 \in 0 .. 7
    OBVIOUS
  <2>2. k \in 1 .. Len(s) /\ k - 1 + (p % 8) < 32 /\ 32 \in Nat
    BY <1>1, <2>1
  <2>3. Stands(s, buf, p)
    BY DEF s
  <2>4. w[k - 1] = IF p + k <= Len(buf) THEN s[k] ELSE 0
    BY <1>1, <2>2, <2>3, LoadStarts
  <2> HIDE DEF w
  <2> QED
    BY <1>1, <2>4
<1>3. \A i \in 0 .. 31 : w[i] \in Bits
  <2>1. 32 \in Nat /\ 32 - 1 = 31
    OBVIOUS
  <2> QED
    BY <2>1, WindowIs
<1>4. c \in 0 .. 9 /\ p + c <= Len(buf) /\ (c # 9 => p + c + 1 > Len(buf)) /\ Len(buf) \in Nat
  OBVIOUS
<1> HIDE DEF w, c
<1>5. \A i \in 0 .. c - 1 : w[i] = 1
  <2> SUFFICES ASSUME NEW i \in 0 .. c - 1 PROVE w[i] = 1
    OBVIOUS
  <2> DEFINE k == i + 1
  <2>1. k \in 1 .. 9 /\ p + k <= Len(buf) /\ k - 1 = i
    BY <1>4
  <2> HIDE DEF k
  <2> QED
    BY <1>2, <2>1
<1>6. c # 9 => w[c] = 0
  <2> SUFFICES ASSUME c # 9 PROVE w[c] = 0
    OBVIOUS
  <2> DEFINE k == c + 1
  <2>1. k \in 1 .. 9 /\ k - 1 = c /\ ~(p + k <= Len(buf))
    BY <1>4
  <2> HIDE DEF k
  <2> QED
    BY <1>2, <2>1
<1>7. Prefix(w) >= c /\ (c # 9 => Prefix(w) = c)
  <2>1. c \in 0 .. 31
    BY <1>4
  <2> QED
    BY <1>3, <1>5, <1>6, <2>1, PrefixBy
<1> QED
  BY <1>7 DEF w, c

\* The suffix of a code word.
Suffix(m, k, n) ==
    IF n % m = 0 THEN Enc!BitsOf(0, k - 1) ELSE Enc!BitsOf((n % m) + 1, k)

LEMMA SuffixIs ==
    ASSUME NEW m \in Nat \ {0}, NEW k \in Nat \ {0}, NEW n \in Nat
    PROVE  /\ Suffix(m, k, n) \in Seq(Bits)
           /\ Len(Suffix(m, k, n)) = IF n % m = 0 THEN k - 1 ELSE k
<1>1. n % m \in Nat /\ (n % m) + 1 \in Int /\ 0 \in Int /\ k - 1 \in Nat
  OBVIOUS
<1>2. /\ Enc!BitsOf(0, k - 1) \in Seq(Bits) /\ Len(Enc!BitsOf(0, k - 1)) = k - 1
  BY <1>1, BitsOfIs
<1>3. Enc!BitsOf((n % m) + 1, k) \in Seq(Bits) /\ Len(Enc!BitsOf((n % m) + 1, k)) = k
  BY <1>1, BitsOfIs
<1> QED
  BY <1>2, <1>3 DEF Suffix

IsWord(word, q, m, k, n, b) ==
    /\ q \in Nat /\ word \in Seq(Bits)
    /\ word = IF q >= 9 THEN Enc!Ones(9) \o Enc!BitsOf(n, b)
              ELSE (Enc!Ones(q) \o << 0 >>) \o Suffix(m, k, n)
    /\ Len(word) = IF q >= 9 THEN 9 + b ELSE q + 1 + Len(Suffix(m, k, n))

LEMMA CodeWordIs ==
    ASSUME NEW m \in Nat \ {0}, NEW k \in Nat \ {0}, NEW n \in Nat, NEW b \in Nat
    PROVE  IsWord(Enc!CodeWord(m, k, n, b), n \div m, m, k, n, b)
<1> DEFINE word == Enc!CodeWord(m, k, n, b)
           q    == n \div m
           long == Enc!Ones(9) \o Enc!BitsOf(n, b)
           short == (Enc!Ones(q) \o << 0 >>) \o Suffix(m, k, n)
<1>1. q \in Nat
  OBVIOUS
<1>2. word = IF q >= 9 THEN long ELSE short
  BY DEF Enc!CodeWord, Enc!MaxPrefix, Suffix
<1> HIDE DEF q
<1>3. long \in Seq(Bits) /\ Len(long) = 9 + b
  <2>1. Enc!Ones(9) \in Seq(Bits) /\ Len(Enc!Ones(9)) = 9
    <3>1. 9 \in Nat
      OBVIOUS
    <3> QED
      BY <3>1, OnesAre
  <2>2. Enc!BitsOf(n, b) \in Seq(Bits) /\ Len(Enc!BitsOf(n, b)) = b
    <3>1. n \in Int
      OBVIOUS
    <3> QED
      BY <3>1, BitsOfIs
  <2> QED
    BY <2>1, <2>2, ConcatIs
<1>4. short \in Seq(Bits) /\ Len(short) = q + 1 + Len(Suffix(m, k, n))
  <2>1. Enc!Ones(q) \o << 0 >> \in Seq(Bits) /\ Len(Enc!Ones(q) \o << 0 >>) = q + 1
    BY <1>1, OnesAre
  <2> DEFINE s == Enc!Ones(q) \o << 0 >>
             t == Suffix(m, k, n)
  <2>2. t \in Seq(Bits)
    BY SuffixIs
  <2>3. s \o t \in Seq(Bits) /\ Len(s \o t) = q + 1 + Len(t)
    BY <2>1, <2>2, ConcatIs
  <2> QED
    BY <2>3 DEF s, t
<1> HIDE DEF word, long, short
<1> QED
  BY <1>1, <1>2, <1>3, <1>4 DEF IsWord, word, q, long, short

\* A field whose first bits are those of a number's half.
HalfShown(w, i, k, y) == /\ \A j \in 1 .. k : w[i + j - 1] \in Bits
                         /\ \A j \in 1 .. k - 1 : w[i + j - 1] = (y \div 2^(k - j)) % 2

LEMMA HalfShows ==
    ASSUME NEW w, NEW i \in Nat, NEW k \in Nat \ {0}, NEW y \in Nat, y < 2^k,
           HalfShown(w, i, k, y)
    PROVE  Field(w, i, k) = 2 * (y \div 2) + w[i + k - 1]
<1> DEFINE n == k - 1
           h == y \div 2
<1>1. n \in Nat /\ n + 1 = k /\ h \in Nat
  OBVIOUS
<1>6. /\ \A j \in 1 .. k : w[i + j - 1] \in Bits
      /\ \A j \in 1 .. k - 1 : w[i + j - 1] = (y \div 2^(k - j)) % 2
  BY DEF HalfShown
<1>2. Field(w, i, k) = 2 * Field(w, i, n) + w[i + k - 1]
  <2>1. Field(w, i, n + 1) = 2 * Field(w, i, n) + w[i + n]
    <3> HIDE DEF n, Bits
    <3>1. \A j \in 1 .. n + 1 : w[i + j - 1] \in Bits
      BY <1>1, <1>6
    <3> QED
      BY <1>1, <3>1, FieldTail
  <2>2. i + n = i + k - 1
    OBVIOUS
  <2> HIDE DEF n
  <2> QED
    BY <1>1, <2>1, <2>2
<1>3. Shows(w, i, h, n)
  <2> SUFFICES ASSUME NEW j \in 1 .. n PROVE w[i + j - 1] = (h \div 2^(n - j)) % 2
    BY DEF Shows
  <2> DEFINE d == 2^(n - j)
             e == 2^(k - j)
  <2>1. n - j \in Nat /\ k - j = (n - j) + 1
    OBVIOUS
  <2>2. d \in Nat \ {0} /\ e = 2 * d
    BY <2>1, PowerOfTwo, NextPower
  <2>3. w[i + j - 1] = (y \div e) % 2
    BY <1>6
  <2> HIDE DEF d, e, n
  <2>4. y \div (2 * d) = (y \div 2) \div d
    <3>1. y \in Int
      OBVIOUS
    <3> QED
      BY <2>2, <3>1, RemainderTwice, Zenon
  <2>5. w[i + j - 1] = ((y \div 2) \div d) % 2
    BY <2>2, <2>3, <2>4, Zenon
  <2> QED
    BY <2>5, Zenon DEF d
<1>4. h % 2^n = h
  <2> DEFINE d == 2^n
             e == 2^k
  <2>1. d \in Nat \ {0} /\ e = 2 * d /\ y < e
    BY <1>1, PowerOfTwo, NextPower
  <2> HIDE DEF d, e
  <2>2. h \in 0 .. d - 1
    BY <2>1
  <2> HIDE DEF h
  <2>3. h % d = h
    BY <2>1, <2>2, SmallRemainder
  <2> QED
    BY <2>3 DEF d
<1>5. Field(w, i, n) = h
  <2> HIDE DEF n, h
  <2>1. Field(w, i, n) = h % 2^n
    BY <1>1, <1>3, FieldShows
  <2> QED
    BY <1>4, <2>1
<1> QED
  BY <1>2, <1>5

\* The word that stands in buf at p is read as the number n, and reading ends after it;
\* where the bits of the word are not all there, it ends past the last.
ReadAs(read, word, n, buf, p) ==
    IF p + Len(word) <= Len(buf) THEN read.n = n /\ read.pos = p + Len(word)
    ELSE read.pos > Len(buf)

IsSuffix(v, r, k, q, buf, p) ==
    /\ v \in Nat
    /\ r = 0 => v < 2
    /\ r # 0 /\ p + q + k <= Len(buf) =>
          v >= 2 /\ (p + q + 1 + k <= Len(buf) => v = r + 1)

LEMMA SuffixReads ==
    ASSUME NEW buf \in Seq(Bits), NEW p \in Nat, NEW q \in 0 .. 8, NEW k \in 1 .. 16,
           NEW m \in Nat \ {0}, m < 2^k, NEW n \in Nat,
           Stands(Suffix(m, k, n), buf, p + (q + 1))
    PROVE  IsSuffix(Field(Window(buf, p, 32), q + 1, k), n % m, k, q, buf, p)
<1> DEFINE w == Window(buf, p, 32)
           i == q + 1
           v == Field(w, i, k)
           y == IF n % m = 0 THEN 0 ELSE (n % m) + 1
           s == Suffix(m, k, n)
<1>1. /\ n % m \in 0 .. m - 1 /\ y \in Nat /\ k \in Nat \ {0} /\ i \in Nat
      /\ p % 8 \in 0 .. 7 /\ 32 \in Nat /\ Len(buf) \in Nat
  OBVIOUS
<1>2. y < 2^k
  <2> DEFINE e == 2^k
  <2>1. e \in Nat \ {0} /\ m < e
    BY <1>1, PowerOfTwo
  <2> HIDE DEF e
  <2>2. y < e
    BY <1>1, <2>1
  <2> QED
    BY <2>2 DEF e
<1>3. s \in Seq(Bits) /\ Len(s) = IF n % m = 0 THEN k - 1 ELSE k
  BY <1>1, SuffixIs
<1>4. \A j \in 1 .. k : w[i + j - 1] \in Bits
  <2>1. \A j \in 1 .. k : i + j - 1 \in 0 .. 32 - 1
    OBVIOUS
  <2>2. \A j \in 0 .. 32 - 1 : w[j] \in Bits
    BY <1>1, WindowIs
  <2> HIDE DEF w
  <2> QED
    BY <2>1, <2>2
<1>5. \A j \in 1 .. Len(s) : w[i + j - 1] = IF p + i + j <= Len(buf) THEN s[j] ELSE 0
  <2> SUFFICES ASSUME NEW j \in 1 .. Len(s)
               PROVE  w[i + j - 1] = IF p + i + j <= Len(buf) THEN s[j] ELSE 0
    OBVIOUS
  <2>1. j \in 1 .. k
    BY <1>3
  <2>2. i + j - 1 + (p % 8) < 32
    BY <1>1, <2>1
  <2>3. Stands(s, buf, p + i)
    BY Zenon
  <2>4. s \in Seq(Bits) /\ i \in Nat /\ 32 \in Nat
    BY <1>1, <1>3
  <2> HIDE DEF i, s
  <2>5. Loaded(s, buf, p, i, 32)
    BY <2>3, <2>4, LoadShows
  <2> QED
    BY <2>2, <2>5 DEF Loaded
<1>6. v \in Nat
  <2>1. i + k <= 32
    BY <1>1
  <2> QED
    BY <1>1, <2>1, LoadIs
<1> HIDE DEF w
<1>7. ASSUME \A j \in 1 .. k - 1 : w[i + j - 1] = (y \div 2^(k - j)) % 2
      PROVE  v = 2 * (y \div 2) + w[i + k - 1] /\ w[i + k - 1] \in {0, 1}
  <2>1. v = 2 * (y \div 2) + w[i + k - 1]
    <3>1. HalfShown(w, i, k, y)
      BY <1>4, <1>7 DEF HalfShown
    <3>2. i \in Nat /\ k \in Nat \ {0} /\ y \in Nat
      BY <1>1
    <3> HIDE DEF y, i
    <3>3. Field(w, i, k) = 2 * (y \div 2) + w[i + k - 1]
      BY <1>2, <3>1, <3>2, HalfShows
    <3> QED
      BY <3>3 DEF v
  <2>2. k \in 1 .. k
    BY <1>1
  <2> QED
    BY <1>4, <2>1, <2>2 DEF Bits
<1>8. CASE n % m = 0
  <2>1. s = Enc!BitsOf(0, k - 1) /\ y = 0
    BY <1>8 DEF Suffix
  <2>2. ASSUME NEW j \in 1 .. k - 1 PROVE w[i + j - 1] = (y \div 2^(k - j)) % 2
    <3> DEFINE d == 2^(k - j)
               e == 2^((k - 1) - j)
    <3>1. k - j \in Nat /\ (k - 1) - j \in Nat
      OBVIOUS
    <3>2. d \in Nat \ {0} /\ e \in Nat \ {0}
      BY <3>1, PowerOfTwo
    <3>3. k - 1 \in Nat /\ 0 \in Int
      OBVIOUS
    <3>4. s[j] = (0 \div e) % 2
      <4> HIDE DEF s
      <4> QED
        BY <2>1, <3>3, BitsOfIs
    <3>5. j \in 1 .. Len(s)
      BY <1>3, <1>8
    <3> HIDE DEF d, e, s
    <3>6. 0 \div d = 0 /\ 0 \div e = 0
      BY <3>2
    <3>7. w[i + j - 1] = 0
      BY <1>5, <3>4, <3>5, <3>6
    <3>8. (0 \div d) % 2 = 0
      BY <3>6
    <3> HIDE DEF y, i
    <3> QED
      BY <2>1, <3>7, <3>8, Zenon DEF d
  <2>3. v < 2
    <3>1. v = 2 * (y \div 2) + w[i + k - 1] /\ w[i + k - 1] \in {0, 1}
      BY <1>7, <2>2
    <3> HIDE DEF v
    <3> QED
      BY <2>1, <3>1
  <2> QED
    BY <1>6, <1>8, <2>3 DEF w, IsSuffix
<1>9. CASE n % m # 0
  <2>1. s = Enc!BitsOf(y, k) /\ y = (n % m) + 1 /\ Len(s) = k
    BY <1>3, <1>9 DEF Suffix
  <2>2. \A j \in 1 .. k : s[j] = (y \div 2^(k - j)) % 2
    <3>1. y \in Int /\ k \in Nat
      BY <1>1
    <3> HIDE DEF s, y
    <3> QED
      BY <2>1, <3>1, BitsOfIs
  <2> HIDE DEF s
  <2>3. ASSUME p + q + k <= Len(buf)
        PROVE  v >= 2 /\ (p + q + 1 + k <= Len(buf) => v = (n % m) + 1)
    <3>1. \A j \in 1 .. k - 1 : j \in 1 .. k /\ p + i + j <= Len(buf)
      BY <1>1, <2>3
    <3>2. \A j \in 1 .. k - 1 : w[i + j - 1] = (y \div 2^(k - j)) % 2
      <4> HIDE DEF i, y
      <4> QED
        BY <1>5, <2>1, <2>2, <3>1
    <3>3. v = 2 * (y \div 2) + w[i + k - 1] /\ w[i + k - 1] \in {0, 1}
      BY <1>7, <3>2
    <3>4. y \in Nat /\ y >= 2
      BY <1>1, <2>1
    <3>5. ASSUME p + q + 1 + k <= Len(buf) PROVE w[i + k - 1] = y % 2
      <4>1. k \in 1 .. k /\ p + i + k <= Len(buf) /\ k - k = 0 /\ 2^0 = 1
        BY <1>1, <3>5
      <4>2. w[i + k - 1] = s[k]
        BY <1>5, <2>1, <4>1
      <4>3. s[k] = (y \div 1) % 2
        BY <2>2, <4>1
      <4>4. y \div 1 = y
        BY <3>4
      <4> HIDE DEF i, y
      <4> QED
        BY <4>2, <4>3, <4>4
    <3> HIDE DEF v, y, i
    <3> DEFINE h == y \div 2
    <3>6. y = 2 * h + (y % 2) /\ h >= 1 /\ h \in Nat
      BY <3>4
    <3> HIDE DEF h
    <3>7. v >= 2
      BY <3>3, <3>6 DEF h
    <3>8. p + q + 1 + k <= Len(buf) => v = y
      BY <3>3, <3>5, <3>6 DEF h
    <3> QED
      BY <2>1, <3>7, <3>8
  <2> QED
    BY <1>6, <1>9, <2>3 DEF w, IsSuffix
<1> QED
  BY <1>8, <1>9

\* The word of n, in suffixes of k bits of numbers below m, stands in buf at p.
WordStands(m, k, n, b, buf, p) ==
    /\ buf \in Seq(Bits) /\ p \in Nat /\ p <= Len(buf)
    /\ k \in 1 .. 16 /\ m \in Nat \ {0} /\ m < 2^k /\ n \in Nat /\ b \in Nat
    /\ Stands(Enc!CodeWord(m, k, n, b), buf, p)

\* A word with a suffix, or no suffix at all when k is 1.
LEMMA ShortReads ==
    ASSUME NEW m, NEW k, NEW n, NEW b, NEW buf, NEW p, WordStands(m, k, n, b, buf, p),
           n \div m < 9
    PROVE  /\ Prefix(Window(buf, p, 32)) \in 0 .. 8
           /\ ReadAs(DynGet(buf, p, m, k), Enc!CodeWord(m, k, n, b), n, buf, p)
           /\ m = 1 => ReadAs([n   |-> Prefix(Window(buf, p, 32)),
                               pos |-> p + Prefix(Window(buf, p, 32)) + 1],
                              Enc!CodeWord(1, 1, n, b), n, buf, p)
<1> DEFINE q == n \div m
           r == n % m
           word == Enc!CodeWord(m, k, n, b)
           s == Enc!Ones(q) \o << 0 >>
           t == Suffix(m, k, n)
           w == Window(buf, p, 32)
           pre == Prefix(w)
           L == Len(buf)
           v == Field(w, q + 1, k)
           d == DynGet(buf, p, m, k)
<1>1. /\ buf \in Seq(Bits) /\ p \in Nat /\ p <= L
      /\ k \in 1 .. 16 /\ m \in Nat \ {0} /\ m < 2^k /\ n \in Nat /\ b \in Nat
      /\ Stands(word, buf, p)
  BY DEF WordStands
<1>2. L \in Nat /\ k \in Nat \ {0} /\ n = m * q + r /\ q \in 0 .. 8 /\ r \in Nat
  <2>1. n \in Int
    BY <1>1
  <2>2. n = m * q + r /\ r \in 0 .. m - 1 /\ q \in Int
    BY <1>1, <2>1, Division
  <2>3. q \in Nat
    BY <1>1
  <2> HIDE DEF q, r
  <2>4. q \in 0 .. 8
    BY <2>3 DEF q
  <2> QED
    BY <1>1, <2>2, <2>4
<1>3. /\ word = s \o t
      /\ Len(word) = q + 1 + Len(t) /\ Len(t) = IF r = 0 THEN k - 1 ELSE k
  <2>1. ~(q >= 9)
    BY <1>2
  <2> HIDE DEF q
  <2>2. word = s \o t /\ Len(word) = q + 1 + Len(t)
    <3>1. IsWord(word, q, m, k, n, b)
      BY <1>1, <1>2, CodeWordIs DEF q
    <3> QED
      BY <2>1, <3>1 DEF IsWord
  <2>3. Len(t) = IF r = 0 THEN k - 1 ELSE k
    BY <1>1, <1>2, SuffixIs
  <2> QED
    BY <2>2, <2>3
<1>4. s \in Seq(Bits) /\ Len(s) = q + 1 /\ t \in Seq(Bits)
  <2>1. q \in Nat
    BY <1>2
  <2> HIDE DEF q
  <2> QED
    BY <1>1, <1>2, <2>1, OnesAre, SuffixIs
<1>5. Stands(s, buf, p) /\ Stands(t, buf, p + (q + 1))
  <2> HIDE DEF s, t, q, word
  <2>1. Stands(s \o t, buf, p)
    BY <1>1, <1>3
  <2> QED
    BY <1>1, <1>4, <2>1, StandsParts
<1>6. pre = IF p + q <= L THEN q ELSE L - p
  <2> HIDE DEF q, w
  <2> QED
    BY <1>1, <1>2, <1>5, PrefixReads DEF w
<1> HIDE DEF w
<1>7. d = IF pre >= 9 THEN [n |-> Field(w, 9, 16), pos |-> p + 9 + 16]
          ELSE IF Field(w, pre + 1, k) < 2 THEN [n |-> pre * m, pos |-> p + pre + k]
          ELSE [n |-> pre * m + Field(w, pre + 1, k) - 1, pos |-> p + pre + 1 + k]
  BY Zenon DEF DynGet, MaxPrefix, RunBits, w
<1> HIDE DEF pre, q, r, L, word, s, t
<1>8. pre \in 0 .. 8 /\ ~(pre >= 9)
  BY <1>1, <1>2, <1>6
<1>9. Len(word) = IF r = 0 THEN q + k ELSE q + 1 + k
  BY <1>2, <1>3
<1>10. ReadAs(d, word, n, buf, p)
  <2>1. CASE p + q <= L
    <3>1. pre = q
      BY <1>6, <2>1
    <3> HIDE DEF v
    <3>2. d = IF v < 2 THEN [n |-> q * m, pos |-> p + q + k]
              ELSE [n |-> q * m + v - 1, pos |-> p + q + 1 + k]
      BY <1>7, <1>8, <3>1 DEF v
    <3>3. /\ v \in Nat /\ (r = 0 => v < 2)
          /\ r # 0 /\ p + q + k <= L => v >= 2 /\ (p + q + 1 + k <= L => v = r + 1)
      <4>1. IsSuffix(v, r, k, q, buf, p)
        BY <1>1, <1>2, <1>5, SuffixReads DEF v, w, r, t
      <4> QED
        BY <4>1 DEF IsSuffix, L
    <3> DEFINE x == q * m
    <3>4. x \in Nat /\ n = x + r
      BY <1>1, <1>2
    <3> HIDE DEF x, d
    <3>5. CASE r = 0
      <4>1. d = [n |-> x, pos |-> p + q + k]
        BY <3>2, <3>3, <3>5 DEF x
      <4>2. d.n = n /\ d.pos = p + Len(word)
        BY <1>1, <1>2, <1>9, <3>4, <3>5, <4>1
      <4> QED
        BY <1>1, <1>2, <4>2 DEF ReadAs, L
    <3>6. CASE r # 0 /\ p + q + k <= L
      <4>1. d = [n |-> x + v - 1, pos |-> p + q + 1 + k]
        BY <3>2, <3>3, <3>6 DEF x
      <4>2. d.pos = p + Len(word) /\ (p + Len(word) <= L => d.n = n)
        <5>1. d.pos = p + Len(word) /\ p + Len(word) = p + q + 1 + k
          BY <1>1, <1>2, <1>9, <3>6, <4>1
        <5>2. p + q + 1 + k <= L => d.n = n
          <6>1. d.n = x + v - 1
            BY <4>1
          <6> HIDE DEF d
          <6> QED
            BY <1>2, <3>3, <3>4, <3>6, <6>1
        <5> QED
          BY <5>1, <5>2
      <4>3. p + Len(word) \in Nat
        BY <1>1, <1>2, <1>9, <3>6
      <4> QED
        BY <1>2, <4>2, <4>3 DEF ReadAs, L
    <3>7. CASE r # 0 /\ ~(p + q + k <= L)
      <4>1. d.pos > L
        <5>1. CASE v < 2
          BY <1>1, <1>2, <3>2, <3>7, <5>1
        <5>2. CASE ~(v < 2)
          BY <1>1, <1>2, <3>2, <3>7, <5>2
        <5> QED
          BY <5>1, <5>2
      <4>2. ~(p + Len(word) <= L)
        BY <1>1, <1>2, <1>9, <3>7
      <4> QED
        BY <4>1, <4>2 DEF ReadAs, L
    <3> QED
      BY <3>5, <3>6, <3>7
  <2>2. CASE ~(p + q <= L)
    <3>1. pre = L - p /\ ~(p + Len(word) <= L)
      BY <1>1, <1>2, <1>6, <1>9, <2>2
    <3>2. d.pos = p + pre + k \/ d.pos = p + pre + 1 + k
      BY <1>7, <1>8
    <3> HIDE DEF d
    <3>3. d.pos > L
      BY <1>1, <1>2, <3>1, <3>2
    <3> QED
      BY <3>1, <3>3 DEF ReadAs, L
  <2> QED
    BY <2>1, <2>2
<1>11. ASSUME m = 1 PROVE ReadAs([n |-> pre, pos |-> p + pre + 1], Enc!CodeWord(1, 1, n, b),
                                 n, buf, p)
  <2>1. r = 0 /\ q = n
    BY <1>1, <1>11 DEF r, q
  <2>2. Len(Enc!CodeWord(1, 1, n, b)) = n + 1
    <3>1. 1 \in Nat \ {0} /\ ~(n \div 1 >= 9) /\ n % 1 = 0 /\ n \div 1 = n
      BY <1>1, <1>2, <2>1
    <3>2. Len(Enc!CodeWord(1, 1, n, b)) = n \div 1 + 1 + Len(Suffix(1, 1, n))
      <4>1. IsWord(Enc!CodeWord(1, 1, n, b), n \div 1, 1, 1, n, b)
        BY <1>1, <3>1, CodeWordIs
      <4> QED
        BY <3>1, <4>1 DEF IsWord
    <3>3. Len(Suffix(1, 1, n)) = 1 - 1
      BY <1>1, <3>1, SuffixIs
    <3> QED
      BY <1>1, <3>1, <3>2, <3>3
  <2> DEFINE rd == [n |-> pre, pos |-> p + pre + 1]
             L2 == Len(Enc!CodeWord(1, 1, n, b))
  <2>3. rd.n = pre /\ rd.pos = p + pre + 1
    OBVIOUS
  <2> HIDE DEF rd, L2
  <2>4. IF p + L2 <= L THEN rd.n = n /\ rd.pos = p + L2 ELSE rd.pos > L
    BY <1>1, <1>2, <1>6, <2>1, <2>2, <2>3 DEF L2
  <2> QED
    BY <2>4 DEF ReadAs, L, L2, rd
<1> QED
  BY <1>8, <1>10, <1>11 DEF pre, w, word

\* A word that is the escape and the number itself.
IsLong(word, pre, n, b, buf, p) ==
    /\ Len(word) = 9 + b
    /\ Stands(Enc!BitsOf(n, b), buf, p + 9)
    /\ pre \in Nat
    /\ IF p + 9 <= Len(buf) THEN pre >= 9 ELSE pre < 9 /\ p + pre = Len(buf)

LEMMA LongReads ==
    ASSUME NEW m, NEW k, NEW n, NEW b, NEW buf, NEW p, WordStands(m, k, n, b, buf, p),
           n \div m >= 9
    PROVE  IsLong(Enc!CodeWord(m, k, n, b), Prefix(Window(buf, p, 32)), n, b, buf, p)
<1> DEFINE word == Enc!CodeWord(m, k, n, b)
           s == Enc!Ones(9)
           t == Enc!BitsOf(n, b)
           pre == Prefix(Window(buf, p, 32))
<1>1. /\ buf \in Seq(Bits) /\ p \in Nat /\ p <= Len(buf)
      /\ k \in Nat \ {0} /\ m \in Nat \ {0} /\ n \in Nat /\ b \in Nat
      /\ Stands(word, buf, p)
  BY DEF WordStands
<1>2. word = s \o t /\ Len(word) = 9 + b
  <2>1. IsWord(word, n \div m, m, k, n, b)
    BY <1>1, CodeWordIs
  <2> QED
    BY <2>1 DEF IsWord
<1>3. s \in Seq(Bits) /\ Len(s) = 9 /\ t \in Seq(Bits)
  <2>1. 9 \in Nat /\ n \in Int
    BY <1>1
  <2> QED
    BY <1>1, <2>1, OnesAre, BitsOfIs
<1>4. Stands(s, buf, p) /\ Stands(t, buf, p + 9)
  <2> HIDE DEF s, t, word
  <2>1. Stands(s \o t, buf, p)
    BY <1>1, <1>2
  <2> QED
    BY <1>1, <1>3, <2>1, StandsParts
<1>5. IF p + 9 <= Len(buf) THEN pre >= 9 ELSE pre = Len(buf) - p
  BY <1>1, <1>4, LongPrefixReads
<1>6. pre \in 0 .. 32
  <2>1. 32 \in Nat /\ 32 - 1 = 31
    OBVIOUS
  <2>2. \A i \in 0 .. 31 : Window(buf, p, 32)[i] \in Bits
    BY <1>1, <2>1, WindowIs
  <2> QED
    BY <2>2, PrefixIs
<1> HIDE DEF pre, word, t
<1>7. IF p + 9 <= Len(buf) THEN pre >= 9 ELSE pre < 9 /\ p + pre = Len(buf)
  BY <1>1, <1>5, <1>6
<1>8. pre \in Nat
  BY <1>6
<1> QED
  BY <1>2, <1>4, <1>7, <1>8 DEF IsLong, pre, word, t

\* A number below 2^16, coded for DynGet.
LEMMA DynGetReads ==
    ASSUME NEW m, NEW k, NEW n, NEW buf, NEW p, WordStands(m, k, n, 16, buf, p), n < 2^16
    PROVE  ReadAs(DynGet(buf, p, m, k), Enc!CodeWord(m, k, n, 16), n, buf, p)
<1> DEFINE word == Enc!CodeWord(m, k, n, 16)
           pre == Prefix(Window(buf, p, 32))
           w == Window(buf, p, 32)
           d == DynGet(buf, p, m, k)
           L == Len(buf)
<1>1. /\ buf \in Seq(Bits) /\ p \in Nat /\ p <= L /\ L \in Nat
      /\ k \in 1 .. 16 /\ m \in Nat \ {0} /\ n \in Nat
  BY DEF WordStands
<1>2. CASE n \div m < 9
  BY <1>2, ShortReads
<1>3. CASE ~(n \div m < 9)
  <2>1. n \div m >= 9
    BY <1>1, <1>3
  <2>2. /\ Len(word) = 9 + 16
        /\ Stands(Enc!BitsOf(n, 16), buf, p + 9)
        /\ pre \in Nat
        /\ IF p + 9 <= L THEN pre >= 9 ELSE pre < 9 /\ p + pre = L
    <3>1. IsLong(word, pre, n, 16, buf, p)
      BY <2>1, LongReads
    <3> QED
      BY <3>1 DEF IsLong
  <2>3. d = IF pre >= 9 THEN [n |-> Field(w, 9, 16), pos |-> p + 9 + 16]
            ELSE IF Field(w, pre + 1, k) < 2 THEN [n |-> pre * m, pos |-> p + pre + k]
            ELSE [n |-> pre * m + Field(w, pre + 1, k) - 1, pos |-> p + pre + 1 + k]
    BY Zenon DEF DynGet, MaxPrefix, RunBits
  <2>4. ASSUME p + 9 + 16 <= L PROVE Field(w, 9, 16) = n
    <3>1. p % 8 \in 0 .. 7
      BY <1>1
    <3>2. /\ 9 + 16 + (p % 8) <= 32 /\ 9 \in Nat /\ 16 \in Nat /\ 32 \in Nat /\ n \in Int
      BY <1>1, <3>1
    <3> DEFINE c == 16
               e == 2^c
    <3>3. FieldStands(n, 9, c, buf, p, 32)
      BY <1>1, <2>2, <2>4, <3>2 DEF FieldStands
    <3>4. e \in Nat \ {0} /\ n < e
      BY <3>2, PowerOfTwo
    <3> HIDE DEF c
    <3>6. Field(w, 9, c) = n % e
      BY <3>3, FieldReads
    <3> HIDE DEF e
    <3>5. n % e = n
      BY <1>1, <3>4, SmallRemainder
    <3> QED
      BY <3>5, <3>6 DEF c
  <2> HIDE DEF pre, w, word, L, d
  <2>5. CASE p + 9 <= L
    <3>1. d = [n |-> Field(w, 9, 16), pos |-> p + 9 + 16]
      BY <2>2, <2>3, <2>5
    <3>2. d.n = Field(w, 9, 16) /\ d.pos = p + 9 + 16
      BY <3>1
    <3>3. IF p + Len(word) <= L THEN d.n = n /\ d.pos = p + Len(word) ELSE d.pos > L
      BY <1>1, <2>2, <2>4, <3>2
    <3> QED
      BY <3>3 DEF ReadAs, L, d, word
  <2>6. CASE ~(p + 9 <= L)
    <3>1. pre < 9 /\ ~(pre >= 9) /\ p + pre = L /\ ~(p + Len(word) <= L)
      BY <1>1, <2>2, <2>6
    <3>2. d.pos = p + pre + k \/ d.pos = p + pre + 1 + k
      BY <2>3, <3>1
    <3>3. d.pos > L
      BY <1>1, <2>2, <3>1, <3>2
    <3> QED
      BY <3>1, <3>3 DEF ReadAs, L, d, word
  <2> QED
    BY <2>5, <2>6
<1> QED
  BY <1>2, <1>3

\* A number below 2^maxbits, coded for DynGet32bit.
LEMMA DynGet32bitReads ==
    ASSUME NEW k, NEW n, NEW maxbits \in 0 .. 32, NEW buf, NEW p,
           WordStands(2^k - 1, k, n, maxbits, buf, p), n < 2^maxbits
    PROVE  ReadAs(DynGet32bit(buf, p, 2^k - 1, k, maxbits),
                  Enc!CodeWord(2^k - 1, k, n, maxbits), n, buf, p)
<1> DEFINE m == 2^k - 1
           word == Enc!CodeWord(m, k, n, maxbits)
           pre == Prefix(Window(buf, p, 32))
           d == DynGet32bit(buf, p, m, k, maxbits)
           L == Len(buf)
<1>1. /\ buf \in Seq(Bits) /\ p \in Nat /\ p <= L /\ L \in Nat
      /\ k \in 1 .. 16 /\ m \in Nat \ {0} /\ n \in Nat
  BY DEF WordStands
<1>2. k = 1 => m = 1
  <2>1. 2^1 = 2
    OBVIOUS
  <2> QED
    BY <2>1
<1>3. d = IF pre >= 9 THEN [n |-> StreamBits(buf, p + 9, maxbits), pos |-> p + 9 + maxbits]
          ELSE IF k = 1 THEN [n |-> pre, pos |-> p + pre + 1]
          ELSE DynGet(buf, p, m, k)
  BY Zenon DEF DynGet32bit, MaxPrefix
<1> HIDE DEF m, d
<1>4. CASE n \div m < 9
  <2>1. /\ pre \in 0 .. 8
        /\ ReadAs(DynGet(buf, p, m, k), word, n, buf, p)
        /\ m = 1 => ReadAs([n |-> pre, pos |-> p + pre + 1],
                           Enc!CodeWord(1, 1, n, maxbits), n, buf, p)
    BY <1>4, ShortReads DEF m
  <2> HIDE DEF pre
  <2>2. ~(pre >= 9)
    BY <2>1
  <2>3. CASE k = 1
    <3>1. d = [n |-> pre, pos |-> p + pre + 1] /\ m = 1
      BY <1>2, <1>3, <2>2, <2>3 DEF m
    <3> QED
      BY <2>1, <2>3, <3>1 DEF d, m
  <2>4. CASE k # 1
    <3>1. d = DynGet(buf, p, m, k)
      BY <1>3, <2>2, <2>4
    <3> QED
      BY <2>1, <3>1 DEF d, m
  <2> QED
    BY <2>3, <2>4
<1>5. CASE ~(n \div m < 9)
  <2>1. n \div m >= 9
    BY <1>1, <1>5
  <2>2. /\ Len(word) = 9 + maxbits
        /\ Stands(Enc!BitsOf(n, maxbits), buf, p + 9)
        /\ pre \in Nat
        /\ IF p + 9 <= L THEN pre >= 9 ELSE pre < 9 /\ p + pre = L
    <3>1. IsLong(word, pre, n, maxbits, buf, p)
      BY <2>1, LongReads DEF m
    <3> QED
      BY <3>1 DEF IsLong
  <2>3. ASSUME p + 9 + maxbits <= L PROVE StreamBits(buf, p + 9, maxbits) = n
    <3>1. p + 9 \in Nat /\ n \in Int /\ maxbits \in Nat
      BY <1>1
    <3>2. StreamBits(buf, p + 9, maxbits) = n % 2^maxbits
      BY <1>1, <2>2, <2>3, <3>1, StreamReads
    <3> DEFINE e == 2^maxbits
    <3>3. e \in Nat \ {0} /\ n < e
      BY <3>1, PowerOfTwo
    <3> HIDE DEF e
    <3>4. n % e = n
      BY <1>1, <3>3, SmallRemainder
    <3> QED
      BY <3>2, <3>4 DEF e
  <2> HIDE DEF pre, word, L
  <2>4. CASE p + 9 <= L
    <3>1. d = [n |-> StreamBits(buf, p + 9, maxbits), pos |-> p + 9 + maxbits]
      BY <1>3, <2>2, <2>4
    <3>2. d.n = StreamBits(buf, p + 9, maxbits) /\ d.pos = p + 9 + maxbits
      BY <3>1
    <3>3. IF p + Len(word) <= L THEN d.n = n /\ d.pos = p + Len(word) ELSE d.pos > L
      BY <1>1, <2>2, <2>3, <3>2
    <3> QED
      BY <3>3 DEF ReadAs, L, word, d, m
  <2>5. CASE ~(p + 9 <= L)
    <3>1. pre < 9 /\ ~(pre >= 9) /\ p + pre = L /\ ~(p + Len(word) <= L)
      BY <1>1, <2>2, <2>5
    <3>2. d.pos > L
      <4>1. CASE k = 1
        BY <1>1, <1>3, <2>2, <3>1, <4>1
      <4>2. CASE k # 1
        <5>1. d = DynGet(buf, p, m, k)
          BY <1>3, <3>1, <4>2
        <5> DEFINE w == Window(buf, p, 32)
                   g == DynGet(buf, p, m, k)
        <5>2. g = IF pre >= 9 THEN [n |-> Field(w, 9, 16), pos |-> p + 9 + 16]
                  ELSE IF Field(w, pre + 1, k) < 2
                       THEN [n |-> pre * m, pos |-> p + pre + k]
                  ELSE [n |-> pre * m + Field(w, pre + 1, k) - 1, pos |-> p + pre + 1 + k]
          BY Zenon DEF DynGet, MaxPrefix, RunBits, pre
        <5> HIDE DEF w, g
        <5>3. g.pos = p + pre + k \/ g.pos = p + pre + 1 + k
          BY <3>1, <5>2
        <5> QED
          BY <1>1, <2>2, <3>1, <5>1, <5>3 DEF g
      <4> QED
        BY <4>1, <4>2
    <3> QED
      BY <3>1, <3>2 DEF ReadAs, L, word, d, m
  <2> QED
    BY <2>4, <2>5
<1> QED
  BY <1>4, <1>5

\* The sender's copies of the operators it shares with the decoder are the same.
LEMMA EncLead == \A m : Enc!Lead(m) = Lead(m)
  BY Zenon DEF Enc!Lead, Lead

LEMMA EncShared ==
    /\ \A mb : Enc!Least(Enc!Lg3a(mb \div 2^Enc!QbShift), KB) = Least(Lg3a(mb \div 2^QbShift), KB)
    /\ \A mb : Enc!Lead(mb) - 24 + (mb + 16) \div 64 = RunWidth(mb)
    /\ \A n, s, weight : Enc!Mean(n, s, weight) = NextMean(s, n, weight)
<1>1. \A mb : Enc!Least(Enc!Lg3a(mb \div 2^Enc!QbShift), KB) = Least(Lg3a(mb \div 2^QbShift), KB)
  BY EncLead, Zenon DEF Enc!Least, Least, Enc!Lg3a, Lg3a, Enc!QbShift, QbShift
<1>2. \A mb : Enc!Lead(mb) - 24 + (mb + 16) \div 64 = RunWidth(mb)
  BY EncLead, Zenon DEF RunWidth
<1>3. \A n, s, weight : Enc!Mean(n, s, weight) = NextMean(s, n, weight)
  BY DEF Enc!Mean, NextMean, Enc!MeanClamp, MeanClamp, Enc!QbShift, QbShift
<1> QED
  BY <1>1, <1>2, <1>3

\* The residual of a symbol comes back from its code, which fits the sample's width.
Codable(del, zmode, b) ==
    b \in Nat \ {0} /\ del \in SignedRange(b) /\ zmode \in {0, 1} /\ (zmode = 1 => del # 0)
CodedAs(n, del, zmode, b) ==
    n \in Nat /\ n < 2^b /\ Residual(n + zmode) = del

LEMMA CodedIs ==
    ASSUME NEW del, NEW zmode, NEW b, Codable(del, zmode, b)
    PROVE  CodedAs(Enc!Coded(del, zmode), del, zmode, b)
<1> DEFINE h == 2^(b - 1)
           v == IF del < 0 THEN -2 * del - 1 ELSE 2 * del
           n == v - zmode
<1>1. b \in Nat \ {0} /\ zmode \in {0, 1}
  BY DEF Codable
<1>2. h \in Nat \ {0} /\ 2^b = 2 * h
  <2> DEFINE c == b - 1
  <2>1. c \in Nat /\ b = c + 1
    BY <1>1
  <2> HIDE DEF c
  <2>2. 2^c \in Nat \ {0} /\ 2^(c + 1) = 2 * 2^c
    BY <2>1, PowerOfTwo, NextPower
  <2> QED
    BY <2>1, <2>2 DEF c
<1>3. del \in -h .. h - 1 /\ (zmode = 1 => del # 0)
  BY DEF Codable, SignedRange
<1> HIDE DEF h
<1>4. n \in Nat /\ n < 2 * h
  BY <1>1, <1>2, <1>3
<1>5. n + zmode = v
  BY <1>1, <1>2, <1>3
<1>6. Residual(v) = del
  <2>1. CASE del < 0
    <3> DEFINE e == -del
    <3>1. e \in Nat /\ v = 2 * e - 1 /\ del = -e
      BY <1>2, <1>3, <2>1
    <3> HIDE DEF e, v
    <3>2. v % 2 = 1 /\ (v + 1) \div 2 = e
      BY <3>1
    <3> QED
      BY <3>1, <3>2 DEF Residual
  <2>2. CASE del >= 0
    <3>1. del \in Nat /\ v = 2 * del
      BY <1>2, <1>3, <2>2
    <3> HIDE DEF v
    <3>2. v % 2 # 1 /\ (v + 1) \div 2 = del
      BY <3>1
    <3> QED
      BY <3>2 DEF Residual
  <2> QED
    BY <1>2, <1>3, <2>1, <2>2
<1>7. Enc!Coded(del, zmode) = n
  BY Zenon DEF Enc!Coded
<1> HIDE DEF n, v
<1> QED
  BY <1>2, <1>4, <1>5, <1>6, <1>7 DEF CodedAs

LEMMA ModulusIs ==
    ASSUME NEW k \in Nat \ {0}
    PROVE  2^k - 1 \in Nat \ {0} /\ 2^k - 1 < 2^k
<1> DEFINE i == k - 1
           e == 2^i
<1>1. i \in Nat /\ k = i + 1
  OBVIOUS
<1> HIDE DEF i
<1>2. e \in Nat \ {0} /\ 2^(i + 1) = 2 * e
  BY <1>1, PowerOfTwo, NextPower
<1> HIDE DEF e
<1>3. 2 * e - 1 \in Nat \ {0} /\ 2 * e - 1 < 2 * e
  BY <1>2
<1> QED
  BY <1>1, <1>2, <1>3

\* The modulus of a run's code is odd, hence not 0, and has no more than k bits.
LEMMA RunModulusIs ==
    ASSUME NEW k \in 1 .. 16, NEW kb \in 1 .. 16
    PROVE  (2^k - 1) % 2^kb \in Nat \ {0} /\ (2^k - 1) % 2^kb < 2^k
<1> DEFINE i == k - 1
           j == kb - 1
           e == 2^i
           d == 2^j
<1>1. i \in Nat /\ j \in Nat /\ k = i + 1 /\ kb = j + 1
  OBVIOUS
<1> HIDE DEF i, j
<1>2. e \in Nat \ {0} /\ d \in Nat \ {0} /\ 2^(i + 1) = 2 * e /\ 2^(j + 1) = 2 * d
  BY <1>1, PowerOfTwo, NextPower
<1> HIDE DEF e, d
<1> DEFINE y == 2 * e - 1
           D == 2 * d
<1>3. y \in Nat /\ y % 2 = 1 /\ D \in Nat \ {0} /\ y < 2 * e
  BY <1>2
<1>4. y % D = 2 * ((y \div 2) % d) + (y % 2)
  <2> HIDE DEF y
  <2>1. y \in Int
    BY <1>3
  <2> QED
    BY <1>2, <2>1, RemainderTwice
<1>5. (y \div 2) % d \in Nat
  <2> DEFINE q == y \div 2
  <2>1. q \in Int
    BY <1>3
  <2> HIDE DEF q
  <2>2. q % d \in 0 .. d - 1
    BY <1>2, <2>1, Division
  <2> QED
    BY <1>2, <2>2 DEF q
<1>6. y % D >= 1
  <2> HIDE DEF y, D
  <2> QED
    BY <1>3, <1>4, <1>5
<1>7. y % D <= y /\ y % D \in Nat
  <2> HIDE DEF y, D
  <2>1. y = D * (y \div D) + (y % D) /\ y % D \in 0 .. D - 1 /\ y \div D \in Int
    BY <1>3, Division
  <2>2. y \div D >= 0
    BY <1>3
  <2>3. D * (y \div D) >= 0
    <3> DEFINE q == y \div D
    <3>1. q \in Nat
      BY <2>1, <2>2
    <3> HIDE DEF q
    <3>2. D * q \in Nat
      BY <1>3, <3>1
    <3> QED
      BY <3>2 DEF q
  <2> DEFINE dq == D * (y \div D)
             r == y % D
  <2>4. y = dq + r /\ r \in 0 .. D - 1 /\ dq >= 0 /\ dq \in Int
    BY <1>3, <2>1, <2>3
  <2> HIDE DEF dq, r
  <2>5. r <= y /\ r \in Nat
    BY <1>3, <2>4
  <2> QED
    BY <2>5 DEF r
<1> QED
  BY <1>1, <1>2, <1>3, <1>6, <1>7

\* The zeros counted are there, and no more of them.
ZerosAt(res, i, z) ==
    /\ z \in Nat /\ i + z <= Len(res) + 1
    /\ \A j \in i .. i + z - 1 : res[j] = 0
    /\ i + z <= Len(res) => res[i + z] # 0

LEMMA ZerosIs ==
    ASSUME NEW res \in Seq(Int), NEW i \in 1 .. Len(res) + 1
    PROVE  ZerosAt(res, i, Enc!ZerosFrom(res, i))
<1> DEFINE N == Len(res)
           more == {j \in i .. N : res[j] # 0}
           first == CHOOSE j \in more : \A l \in more : j <= l
           z == Enc!ZerosFrom(res, i)
<1>1. N \in Nat /\ i \in 1 .. N + 1
  OBVIOUS
<1>2. z = IF more = {} THEN N + 1 - i ELSE first - i
  BY Zenon DEF Enc!ZerosFrom
<1> HIDE DEF N, z
<1>3. CASE more = {}
  <2>1. z = N + 1 - i /\ z \in Nat /\ i + z = N + 1
    BY <1>1, <1>2, <1>3
  <2>2. \A j \in i .. N : res[j] = 0
    BY <1>3
  <2>3. i + z - 1 = N
    BY <1>1, <2>1
  <2> QED
    BY <1>1, <2>1, <2>2, <2>3 DEF ZerosAt, N, z
<1>4. CASE more # {}
  <2>1. more \subseteq Nat
    BY <1>1
  <2>2. PICK n \in more : \A l \in more : n <= l
    <3> HIDE DEF more
    <3> QED
      BY <1>4, <2>1, LeastNumber
  <2>3. first \in more /\ \A l \in more : first <= l
    <3> HIDE DEF more
    <3> QED
      BY <2>2, Zenon
  <2> HIDE DEF first
  <2>4. first \in i .. N /\ res[first] # 0
    BY <2>3
  <2>5. \A j \in i .. first - 1 : res[j] = 0
    <3> SUFFICES ASSUME NEW j \in i .. first - 1, res[j] # 0 PROVE FALSE
      OBVIOUS
    <3>1. j \in i .. N /\ ~(first <= j)
      BY <1>1, <2>4
    <3> QED
      BY <2>3, <3>1
  <2>6. z = first - i
    BY <1>2, <1>4
  <2>7. z \in Nat /\ i + z = first /\ i + z - 1 = first - 1 /\ first <= N + 1
    BY <1>1, <2>4, <2>6
  <2> HIDE DEF more
  <2> QED
    BY <2>4, <2>5, <2>7 DEF ZerosAt, N, z
<1> QED
  BY <1>3, <1>4

-----------------------------------------------------------------------------
(* A symbol: a residual, and the run of zeros that may follow it.          *)

\* The residuals of a channel, each of b bits.
Residuals(b) == {res \in Seq(SignedRange(b)) : Len(res) < 65536}

\* The sender after some symbols of res.
Coders(res) ==
    {s \in [c : Nat, mb : Nat, zmode : {0, 1}, bits : Seq(Bits)] :
        s.c <= Len(res) /\ (s.zmode = 1 /\ s.c < Len(res) => res[s.c + 1] # 0)}

Coding(res, weight, b, s) ==
    /\ b \in 1 .. 32 /\ res \in Residuals(b) /\ weight \in 0 .. 511
    /\ s \in Coders(res) /\ s.c < Len(res)

\* The number its next residual is coded as, the mean after it, the zeros after it.
CodeOf(res, s)            == Enc!Coded(res[s.c + 1], s.zmode)
MeanAfter(res, weight, s) == NextMean(s, CodeOf(res, s), weight)
ZerosAfter(res, s)        == Enc!ZerosFrom(res, s.c + 2)
RunAfter(res, weight, s)  == RunFollows(MeanAfter(res, weight, s)) /\ s.c + 1 < Len(res)

\* Their code words, and the sender after them.
ResidualWord(res, b, s)  == Enc!ResidualCode(CodeOf(res, s), s.mb, b)
RunWord(res, weight, s)  == Enc!RunCode(ZerosAfter(res, s), MeanAfter(res, weight, s))
NextCoder(res, weight, b, s) ==
    IF s.c = Len(res) THEN s
    ELSE Enc!Following(s, CodeOf(res, s), Enc!Mean(CodeOf(res, s), s, weight),
                       ZerosAfter(res, s), s.c + 1 = Len(res), b)

\* What is known of a symbol.
SymbolIs(res, weight, b, s) ==
    LET n    == CodeOf(res, s)
        mean == MeanAfter(res, weight, s)
        k    == Least(Lg3a(s.mb \div 2^QbShift), KB)
        kz   == RunWidth(mean)
        mz   == (2^kz - 1) % 2^KB
        nz   == ZerosAfter(res, s)
        word == ResidualWord(res, b, s)
        zw   == RunWord(res, weight, s)
    IN  /\ n \in Nat /\ n < 2^b /\ Residual(n + s.zmode) = res[s.c + 1]
        /\ mean \in Nat /\ k \in 1 .. 16
        /\ word = Enc!CodeWord(2^k - 1, k, n, b) /\ word \in Seq(Bits)
        /\ RunAfter(res, weight, s) =>
              /\ kz \in 1 .. 16 /\ mz \in Nat \ {0} /\ mz < 2^kz
              /\ nz < 65535 /\ ZerosAt(res, s.c + 2, nz)
              /\ zw = Enc!CodeWord(mz, kz, nz, 16) /\ zw \in Seq(Bits)
        /\ NextCoder(res, weight, b, s) =
              IF RunAfter(res, weight, s)
              THEN [c |-> s.c + 1 + nz, mb |-> 0, zmode |-> 1, bits |-> (s.bits \o word) \o zw]
              ELSE [c |-> s.c + 1, mb |-> mean, zmode |-> 0, bits |-> s.bits \o word]

LEMMA SymbolKnown ==
    ASSUME NEW res, NEW weight, NEW b, NEW s, Coding(res, weight, b, s)
    PROVE  SymbolIs(res, weight, b, s)
<1> DEFINE n    == CodeOf(res, s)
           mean == MeanAfter(res, weight, s)
           k    == Least(Lg3a(s.mb \div 2^QbShift), KB)
           kz   == RunWidth(mean)
           mz   == (2^kz - 1) % 2^KB
           nz   == ZerosAfter(res, s)
           word == ResidualWord(res, b, s)
           zw   == RunWord(res, weight, s)
           run  == RunAfter(res, weight, s)
           N    == Len(res)
           x    == res[s.c + 1]
<1>1. /\ s.c \in Nat /\ s.mb \in Nat /\ s.zmode \in {0, 1} /\ s.bits \in Seq(Bits)
      /\ s.zmode = 1 /\ s.c < N => x # 0
  BY DEF Coding, Coders
<1>2. /\ b \in 1 .. 32 /\ b \in Nat \ {0} /\ res \in Seq(SignedRange(b)) /\ N < 65536
      /\ weight \in 0 .. 511 /\ s.c < N /\ N \in Nat
  BY DEF Coding, Residuals
<1>3. KB \in 1 .. 16
  BY ConfigAssumption
<1>4. x \in SignedRange(b)
  <2>1. s.c + 1 \in 1 .. N
    BY <1>1, <1>2
  <2> QED
    BY <1>2, <2>1
<1>5. n \in Nat /\ n < 2^b /\ Residual(n + s.zmode) = x
  <2>1. Codable(x, s.zmode, b)
    BY <1>1, <1>2, <1>4 DEF Codable
  <2>2. CodedAs(n, x, s.zmode, b)
    BY <2>1, CodedIs DEF CodeOf
  <2> QED
    BY <2>2 DEF CodedAs
<1> HIDE DEF x
<1>6. mean \in Nat
  <2> DEFINE a == [c |-> s.c, mb |-> s.mb, zmode |-> s.zmode]
  <2>1. a \in Symbols
    BY <1>1 DEF Symbols
  <2>2. NextMean(a, n, weight) \in Nat
    <3>1. n \in Nat /\ weight \in 0 .. 511
      BY <1>2, <1>5
    <3> HIDE DEF a, n
    <3> QED
      BY <2>1, <3>1, MeanIs
  <2>3. NextMean(a, n, weight) = NextMean(s, n, weight)
    BY DEF NextMean
  <2> QED
    BY <2>2, <2>3 DEF MeanAfter
<1>7. k \in 1 .. 16
  BY <1>1, <1>3, WidthIs
<1>8. word = Enc!CodeWord(2^k - 1, k, n, b)
  BY EncShared, Zenon DEF ResidualWord, Enc!ResidualCode
<1> HIDE DEF n, mean, k
<1>9. word \in Seq(Bits)
  <2> DEFINE m == 2^k - 1
  <2>1. m \in Nat \ {0}
    BY <1>7, ModulusIs
  <2> HIDE DEF m
  <2>2. k \in Nat \ {0} /\ b \in Nat
    BY <1>2, <1>7
  <2>3. IsWord(Enc!CodeWord(m, k, n, b), n \div m, m, k, n, b)
    BY <1>5, <2>1, <2>2, CodeWordIs
  <2> QED
    BY <1>8, <2>3 DEF IsWord, m
<1>10. ASSUME run
       PROVE  /\ kz \in 1 .. 16 /\ mz \in Nat \ {0} /\ mz < 2^kz
              /\ nz < 65535 /\ ZerosAt(res, s.c + 2, nz)
              /\ zw = Enc!CodeWord(mz, kz, nz, 16) /\ zw \in Seq(Bits)
  <2>1. kz \in 1 .. 16
    BY <1>6, <1>10, RunWidthIs DEF RunAfter, mean
  <2> HIDE DEF kz
  <2>2. mz \in Nat \ {0} /\ mz < 2^kz
    BY <1>3, <2>1, RunModulusIs
  <2>3. ZerosAt(res, s.c + 2, nz)
    <3>1. s.c + 2 \in 1 .. N + 1
      BY <1>1, <1>2
    <3>2. res \in Seq(Int)
      BY <1>2, RangeIsInt
    <3> QED
      BY <3>1, <3>2, ZerosIs DEF ZerosAfter
  <2> HIDE DEF nz
  <2>4. nz < 65535 /\ nz \in Nat
    BY <1>1, <1>2, <2>3 DEF ZerosAt
  <2>5. zw = Enc!CodeWord(mz, kz, nz, 16)
    BY EncShared, Zenon DEF RunWord, Enc!RunCode, Enc!RunBits, kz, nz, mean
  <2> HIDE DEF mz
  <2>6. zw \in Seq(Bits)
    <3> DEFINE c == 16
    <3>1. kz \in Nat \ {0} /\ c \in Nat
      BY <2>1
    <3> HIDE DEF c
    <3>2. IsWord(Enc!CodeWord(mz, kz, nz, c), nz \div mz, mz, kz, nz, c)
      BY <2>2, <2>4, <3>1, CodeWordIs
    <3> QED
      BY <2>5, <3>2 DEF IsWord, c
  <2> QED
    BY <2>1, <2>2, <2>3, <2>4, <2>5, <2>6
<1>11. NextCoder(res, weight, b, s) =
         IF run THEN [c |-> s.c + 1 + nz, mb |-> 0, zmode |-> 1, bits |-> (s.bits \o word) \o zw]
         ELSE [c |-> s.c + 1, mb |-> mean, zmode |-> 0, bits |-> s.bits \o word]
  <2>1. NextCoder(res, weight, b, s) = Enc!Following(s, n, mean, nz, s.c + 1 = N, b)
    <3>1. s.c # N
      BY <1>1, <1>2
    <3> QED
      BY <3>1, EncShared, Zenon DEF NextCoder, n, mean, MeanAfter, nz
  <2>2. (s.c + 1 < N) <=> ~(s.c + 1 = N)
    BY <1>1, <1>2
  <2>3. run <=> RunFollows(mean) /\ ~(s.c + 1 = N)
    BY <2>2 DEF RunAfter, mean
  <2>4. RunFollows(mean) <=> 4 * mean < 2^Enc!QbShift
    BY DEF RunFollows, Enc!QbShift, QbShift
  <2> HIDE DEF run
  <2>5. Enc!Following(s, n, mean, nz, s.c + 1 = N, b) =
          IF 4 * mean < 2^Enc!QbShift /\ ~(s.c + 1 = N)
          THEN [c |-> s.c + 1 + nz, mb |-> 0, zmode |-> 1, bits |-> (s.bits \o word) \o zw]
          ELSE [c |-> s.c + 1, mb |-> mean, zmode |-> 0, bits |-> s.bits \o word]
    BY Zenon DEF Enc!Following, ResidualWord, RunWord, n, mean, nz
  <2> QED
    BY <2>1, <2>3, <2>4, <2>5
<1> HIDE DEF word, zw
<1> QED
  BY <1>5, <1>6, <1>7, <1>8, <1>9, <1>10, <1>11 DEF SymbolIs, n, mean, k, word, zw, x

LEMMA Regrouped ==
    \A s, t, u \in Seq(Bits) : (s \o t) \o u = s \o (t \o u)
  BY ConcatAssociative

\* The next coder is further on, and has only added to the bits.
Grows(s, t) == \E u \in Seq(Bits) : t.bits = s.bits \o u

Follows(res, s, t) ==
    /\ t \in Coders(res) /\ t.c > s.c /\ Grows(s, t)
    /\ \A j \in s.c + 2 .. t.c : res[j] = 0

LEMMA NextCoderIs ==
    ASSUME NEW res, NEW weight, NEW b, NEW s, Coding(res, weight, b, s)
    PROVE  Follows(res, s, NextCoder(res, weight, b, s))
<1> DEFINE t    == NextCoder(res, weight, b, s)
           N    == Len(res)
           nz   == ZerosAfter(res, s)
           word == ResidualWord(res, b, s)
           zw   == RunWord(res, weight, s)
           mean == MeanAfter(res, weight, s)
           run  == RunAfter(res, weight, s)
           i    == s.c + 2
<1>1. /\ s.c \in Nat /\ s.bits \in Seq(Bits) /\ N \in Nat /\ s.c < N
  BY DEF Coding, Coders, Residuals
<1>2. SymbolIs(res, weight, b, s)
  BY SymbolKnown
<1>3. /\ mean \in Nat /\ word \in Seq(Bits)
      /\ run => nz \in Nat /\ ZerosAt(res, i, nz) /\ zw \in Seq(Bits)
      /\ t = IF run THEN [c |-> s.c + 1 + nz, mb |-> 0, zmode |-> 1, bits |-> (s.bits \o word) \o zw]
             ELSE [c |-> s.c + 1, mb |-> mean, zmode |-> 0, bits |-> s.bits \o word]
  BY <1>2 DEF SymbolIs, ZerosAt
<1>4. s.bits \o word \in Seq(Bits)
  BY <1>1, <1>3, ConcatIs
<1>5. i \in Nat /\ i = s.c + 2
  BY <1>1
<1> HIDE DEF t, N, nz, word, zw, mean, run, i
<1>6. CASE ~run
  <2>1. t = [c |-> s.c + 1, mb |-> mean, zmode |-> 0, bits |-> s.bits \o word]
    BY <1>3, <1>6
  <2>2. s.c + 1 \in Nat /\ s.c + 1 <= N /\ s.c + 1 > s.c
    BY <1>1
  <2>3. t \in Coders(res)
    BY <1>3, <1>4, <2>1, <2>2 DEF Coders, N
  <2>4. Grows(s, t)
    <3>1. t.bits = s.bits \o word
      BY <2>1
    <3> QED
      BY <1>3, <3>1, Zenon DEF Grows
  <2>5. \A j \in s.c + 2 .. t.c : res[j] = 0
    BY <1>1, <2>1
  <2> QED
    BY <2>1, <2>2, <2>3, <2>4, <2>5 DEF Follows, t
<1>7. CASE run
  <2>1. t = [c |-> s.c + 1 + nz, mb |-> 0, zmode |-> 1, bits |-> (s.bits \o word) \o zw]
    BY <1>3, <1>7
  <2>2. nz \in Nat /\ ZerosAt(res, i, nz) /\ zw \in Seq(Bits)
    BY <1>3, <1>7
  <2>3. /\ i + nz <= N + 1 /\ (\A j \in i .. i + nz - 1 : res[j] = 0)
        /\ i + nz <= N => res[i + nz] # 0
    BY <2>2 DEF ZerosAt, N
  <2>4. /\ s.c + 1 + nz \in Nat /\ s.c + 1 + nz <= N /\ s.c + 1 + nz > s.c
        /\ i + nz = (s.c + 1 + nz) + 1 /\ i + nz - 1 = s.c + 1 + nz
    <3> DEFINE c == s.c
    <3>1. i + nz <= N + 1 /\ nz \in Nat
      BY <2>2, <2>3
    <3>2. c \in Nat /\ N \in Nat /\ i = c + 2
      BY <1>1, <1>5
    <3> HIDE DEF c
    <3>3. /\ c + 1 + nz \in Nat /\ c + 1 + nz <= N /\ c + 1 + nz > c
          /\ i + nz = (c + 1 + nz) + 1 /\ i + nz - 1 = c + 1 + nz
      BY <3>1, <3>2
    <3> QED
      BY <3>3 DEF c
  <2>5. (s.bits \o word) \o zw \in Seq(Bits)
    BY <1>4, <2>2, ConcatIs
  <2>6. t.c < N => res[t.c + 1] # 0
    <3> SUFFICES ASSUME t.c < N PROVE res[t.c + 1] # 0
      OBVIOUS
    <3>1. t.c = s.c + 1 + nz
      BY <2>1
    <3>2. i + nz <= N
      BY <1>1, <2>2, <2>4, <3>1
    <3> QED
      BY <2>3, <2>4, <3>1, <3>2
  <2>7. t \in Coders(res)
    BY <2>1, <2>4, <2>5, <2>6 DEF Coders, N
  <2>8. Grows(s, t)
    <3>1. (s.bits \o word) \o zw = s.bits \o (word \o zw)
      <4>1. s.bits \in Seq(Bits) /\ word \in Seq(Bits) /\ zw \in Seq(Bits)
        BY <1>1, <1>3, <2>2
      <4> QED
        BY <4>1, Regrouped
    <3>2. word \o zw \in Seq(Bits)
      BY <1>3, <2>2, ConcatIs
    <3>3. t.bits = (s.bits \o word) \o zw
      BY <2>1
    <3> QED
      BY <3>1, <3>2, <3>3, Zenon DEF Grows
  <2>9. \A j \in s.c + 2 .. t.c : res[j] = 0
    BY <1>5, <2>1, <2>3, <2>4
  <2> QED
    BY <2>1, <2>4, <2>7, <2>8, <2>9 DEF Follows, t
<1> QED
  BY <1>6, <1>7

-----------------------------------------------------------------------------
(* A channel's code: one coder after the other.                            *)

FirstCoder == [c |-> 0, mb |-> MB, zmode |-> 0, bits |-> <<>>]

IsCompression(A, res, weight, b) ==
    /\ A \in [0 .. Len(res) -> Coders(res)] /\ A[0] = FirstCoder
    /\ \A i \in 1 .. Len(res) : A[i] = NextCoder(res, weight, b, A[i - 1])

ComesFromCoders(res, weight, b) ==
    \E A : /\ IsCompression(A, res, weight, b)
           /\ Enc!Compress(res, weight, b) = A[Len(res)].bits

\* Residuals a channel may have.
Compressible(res, weight, b) == b \in 1 .. 32 /\ res \in Residuals(b) /\ weight \in 0 .. 511

LEMMA FirstCoderIs ==
    ASSUME NEW res, NEW weight, NEW b, Compressible(res, weight, b)
    PROVE  FirstCoder \in Coders(res) /\ Len(res) \in Nat
<1>1. MB \in Nat /\ Len(res) \in Nat
  BY ConfigAssumption DEF Compressible, Residuals
<1>2. <<>> \in Seq(Bits)
  OBVIOUS
<1> QED
  BY <1>1, <1>2 DEF Coders, FirstCoder

LEMMA CompressBy ==
    ASSUME NEW res, NEW weight, NEW b, Compressible(res, weight, b)
    PROVE  ComesFromCoders(res, weight, b)
<1> DEFINE n == Len(res)
           S == Coders(res)
           Next1(s) == NextCoder(res, weight, b, s)
           Body(f) == [i \in 0 .. n |-> IF i = 0 THEN FirstCoder ELSE Next1(f[i - 1])]
           step == [i \in 1 .. n |-> [s \in S |-> Next1(s)]]
           g == CHOOSE f : f = Body(f)
<1>1. n \in Nat /\ FirstCoder \in S
  BY FirstCoderIs
<1>2. \A s \in S : Next1(s) \in S
  <2> SUFFICES ASSUME NEW s \in S PROVE Next1(s) \in S
    OBVIOUS
  <2>1. CASE s.c = n
    BY <2>1 DEF NextCoder
  <2>2. CASE s.c # n
    <3>1. s.c \in Nat /\ s.c <= n
      BY DEF Coders
    <3>2. s.c < n
      BY <1>1, <2>2, <3>1
    <3>3. Coding(res, weight, b, s)
      BY <3>2 DEF Coding, Compressible
    <3> QED
      BY <3>3, NextCoderIs DEF Follows
  <2> QED
    BY <2>1, <2>2
<1>3. Enc!Compress(res, weight, b) = g[n].bits
  BY Zenon DEF Enc!Compress, NextCoder, CodeOf, ZerosAfter, FirstCoder
<1> HIDE DEF n, S, Next1
<1>4. step \in [1 .. n -> [S -> S]]
  BY <1>2
<1>5. PICK r : IsRun(r, n, S, FirstCoder, step)
  <2> HIDE DEF step
  <2> QED
    BY <1>1, <1>4, Rounds
<1>6. /\ r \in [0 .. n -> S] /\ r[0] = FirstCoder
      /\ \A i \in 1 .. n : r[i] = Next1(r[i - 1])
  <2>1. /\ r \in [0 .. n -> S] /\ r[0] = FirstCoder
        /\ \A i \in 1 .. n : r[i] = step[i][r[i - 1]]
    <3> HIDE DEF step
    <3> QED
      BY <1>5 DEF IsRun
  <2>2. \A i \in 1 .. n : i - 1 \in 0 .. n
    BY <1>1
  <2>3. \A i \in 1 .. n : step[i][r[i - 1]] = Next1(r[i - 1])
    BY <2>1, <2>2
  <2> QED
    BY <2>1, <2>3
<1> HIDE DEF step
<1>7. r = Body(r)
  <2>1. \A i \in 0 .. n : r[i] = IF i = 0 THEN FirstCoder ELSE Next1(r[i - 1])
    <3>1. \A i \in 0 .. n : i = 0 \/ i \in 1 .. n
      BY <1>1
    <3> QED
      BY <1>6, <3>1
  <2> QED
    BY <1>6, <2>1
<1>8. g = Body(g)
  <2> HIDE DEF Body
  <2> QED
    BY <1>7
<1> HIDE DEF g
<1>9. g[0] = FirstCoder /\ \A i \in 1 .. n : g[i] = Next1(g[i - 1])
  <2>1. \A i \in 0 .. n : g[i] = IF i = 0 THEN FirstCoder ELSE Next1(g[i - 1])
    BY <1>8
  <2>2. 0 \in 0 .. n /\ \A i \in 1 .. n : i \in 0 .. n /\ i # 0
    BY <1>1
  <2> QED
    BY <2>1, <2>2
<1>10. g \in [0 .. n -> S]
  <2> DEFINE P == {i \in 0 .. n : g[i] \in S}
  <2>1. 0 \in P
    BY <1>1, <1>9
  <2>2. ASSUME NEW i \in 1 .. n, i - 1 \in P PROVE i \in P
    BY <1>2, <1>9, <2>2
  <2>3. \A i \in 0 .. n : i \in P
    <3> HIDE DEF P
    <3> QED
      BY <1>1, <2>1, <2>2, UpTo
  <2>4. g = [i \in 0 .. n |-> g[i]]
    BY <1>8
  <2> QED
    BY <2>3, <2>4
<1>11. IsCompression(g, res, weight, b)
  BY <1>9, <1>10, Zenon DEF IsCompression, n, S, Next1
<1> QED
  BY <1>3, <1>11 DEF ComesFromCoders, n

\* A coder the sender gets to, on its way through res to the code of all of it.
OnTheWay(s, res, weight, b) ==
    \E A : /\ IsCompression(A, res, weight, b)
           /\ Enc!Compress(res, weight, b) = A[Len(res)].bits
           /\ \E i \in 0 .. Len(res) : s = A[i]

LEMMA StartsOnTheWay ==
    ASSUME NEW res, NEW weight, NEW b, Compressible(res, weight, b)
    PROVE  OnTheWay(FirstCoder, res, weight, b)
<1>1. PICK A : /\ IsCompression(A, res, weight, b)
               /\ Enc!Compress(res, weight, b) = A[Len(res)].bits
  BY CompressBy DEF ComesFromCoders
<1>2. A[0] = FirstCoder
  BY <1>1 DEF IsCompression
<1>3. 0 \in 0 .. Len(res)
  BY FirstCoderIs
<1> QED
  BY <1>1, <1>2, <1>3, Zenon DEF OnTheWay

\* Every coder but the last grows, and the last has coded everything.
Advances(res, s, t) == IF s.c = Len(res) THEN t = s ELSE Follows(res, s, t)

LEMMA CompressionIs ==
    ASSUME NEW res, NEW weight, NEW b, Compressible(res, weight, b),
           NEW A, IsCompression(A, res, weight, b)
    PROVE  /\ \A i \in 1 .. Len(res) : Advances(res, A[i - 1], A[i])
           /\ A[Len(res)].c = Len(res)
<1> DEFINE n == Len(res)
<1>1. n \in Nat
  BY FirstCoderIs
<1>2. /\ \A i \in 0 .. n : A[i] \in Coders(res) /\ A[i].c \in Nat /\ A[i].c <= n
      /\ \A i \in 1 .. n : A[i] = NextCoder(res, weight, b, A[i - 1])
  <2>1. A \in [0 .. n -> Coders(res)] /\ \A i \in 1 .. n : A[i] = NextCoder(res, weight, b, A[i - 1])
    BY DEF IsCompression
  <2>2. \A s \in Coders(res) : s.c \in Nat /\ s.c <= n
    BY DEF Coders
  <2> HIDE DEF n
  <2> QED
    BY <2>1, <2>2
<1>3. \A i \in 1 .. n : Advances(res, A[i - 1], A[i])
  <2> SUFFICES ASSUME NEW i \in 1 .. n PROVE Advances(res, A[i - 1], A[i])
    OBVIOUS
  <2> DEFINE s == A[i - 1]
  <2>1. i - 1 \in 0 .. n
    BY <1>1
  <2>2. s \in Coders(res) /\ s.c \in Nat /\ s.c <= n /\ A[i] = NextCoder(res, weight, b, s)
    BY <1>2, <2>1
  <2> HIDE DEF s
  <2>3. CASE s.c = n
    BY <2>2, <2>3 DEF NextCoder, Advances, s
  <2>4. CASE s.c # n
    <3>1. s.c < n
      BY <1>1, <2>2, <2>4
    <3>2. Coding(res, weight, b, s)
      BY <2>2, <3>1 DEF Coding, Compressible
    <3> QED
      BY <2>2, <2>4, <3>2, NextCoderIs DEF Advances, s
  <2> QED
    BY <2>3, <2>4
<1> HIDE DEF n
<1>4. \A i \in 0 .. n : A[i].c >= i
  <2> DEFINE P == {i \in 0 .. n : A[i].c >= i}
  <2>1. 0 \in P
    BY <1>1, <1>2
  <2>2. ASSUME NEW i \in 1 .. n, i - 1 \in P PROVE i \in P
    <3>1. i - 1 \in 0 .. n /\ i \in 0 .. n
      BY <1>1
    <3> DEFINE x == A[i - 1].c
               y == A[i].c
    <3>2. x \in Nat /\ y \in Nat /\ x >= i - 1 /\ x <= n
      BY <1>2, <2>2, <3>1
    <3>3. (x = n /\ y = x) \/ y > x
      BY <1>3 DEF Advances, Follows, n
    <3> HIDE DEF x, y
    <3>4. y >= i
      BY <1>1, <3>2, <3>3
    <3> QED
      BY <3>1, <3>4 DEF y
  <2>3. \A i \in 0 .. n : i \in P
    <3> HIDE DEF P
    <3> QED
      BY <1>1, <2>1, <2>2, UpTo
  <2> QED
    BY <2>3
<1>5. n \in 0 .. n
  BY <1>1
<1>6. A[n].c = n
  <2> DEFINE x == A[n].c
  <2>1. x \in Nat /\ x <= n /\ x >= n
    BY <1>2, <1>4, <1>5
  <2> HIDE DEF x
  <2>2. x = n
    BY <1>1, <2>1
  <2> QED
    BY <2>2 DEF x
<1> QED
  BY <1>3, <1>6 DEF n

LEMMA OnTheWayIs ==
    ASSUME NEW res, NEW weight, NEW b, Compressible(res, weight, b),
           NEW s, OnTheWay(s, res, weight, b)
    PROVE  /\ s \in Coders(res)
           /\ s.c < Len(res) => OnTheWay(NextCoder(res, weight, b, s), res, weight, b)
           /\ s.c = Len(res) => s.bits = Enc!Compress(res, weight, b)
<1> DEFINE n == Len(res)
<1>1. n \in Nat
  BY FirstCoderIs
<1>2. PICK A : /\ IsCompression(A, res, weight, b)
               /\ Enc!Compress(res, weight, b) = A[n].bits
               /\ \E i \in 0 .. n : s = A[i]
  BY Zenon DEF OnTheWay
<1>3. PICK i \in 0 .. n : s = A[i]
  BY <1>2
<1>4. A \in [0 .. n -> Coders(res)] /\ \A j \in 1 .. n : A[j] = NextCoder(res, weight, b, A[j - 1])
  BY <1>2 DEF IsCompression
<1>5. (\A j \in 1 .. n : Advances(res, A[j - 1], A[j])) /\ A[n].c = n
  BY <1>2, CompressionIs
<1> HIDE DEF n
<1>6. s \in Coders(res)
  BY <1>3, <1>4
<1>7. ASSUME s.c < n PROVE OnTheWay(NextCoder(res, weight, b, s), res, weight, b)
  <2>1. s.c \in Nat
    BY <1>6 DEF Coders
  <2>2. i # n
    BY <1>1, <1>3, <1>5, <1>7, <2>1
  <2> DEFINE j == i + 1
  <2>3. j \in 1 .. n /\ j - 1 = i /\ j \in 0 .. n
    BY <1>1, <2>2
  <2> HIDE DEF j
  <2>4. A[j] = NextCoder(res, weight, b, s)
    BY <1>3, <1>4, <2>3
  <2> QED
    BY <1>2, <2>3, <2>4, Zenon DEF OnTheWay, n
<1>8. ASSUME s.c = n PROVE s.bits = Enc!Compress(res, weight, b)
  <2> DEFINE P == {j \in 0 .. n : j >= i => A[j] = s}
  <2>1. 0 \in P
    BY <1>1, <1>3
  <2>2. ASSUME NEW j \in 1 .. n, j - 1 \in P PROVE j \in P
    <3>1. CASE j <= i
      BY <1>1, <1>3, <3>1
    <3>2. CASE j > i
      <4>1. j - 1 >= i /\ j \in 0 .. n
        BY <1>1, <3>2
      <4>2. A[j - 1] = s
        BY <2>2, <4>1
      <4>3. Advances(res, s, A[j])
        BY <1>5, <4>2
      <4>4. A[j] = s
        BY <1>8, <4>3 DEF Advances, n
      <4> QED
        BY <4>1, <4>4
    <3> QED
      BY <1>1, <3>1, <3>2
  <2>3. \A j \in 0 .. n : j \in P
    <3> HIDE DEF P
    <3> QED
      BY <1>1, <2>1, <2>2, UpTo
  <2>4. n \in P /\ n >= i
    BY <1>1, <2>3
  <2> QED
    BY <1>2, <2>4
<1> QED
  BY <1>6, <1>7, <1>8 DEF n

\* What a coder on the way has coded stands where the whole code stands.
StandsIn(s, code, buf, p) == Stands(s.bits, buf, p) /\ Len(s.bits) <= Len(code)

LEMMA CodeStands ==
    ASSUME NEW res, NEW weight, NEW b, Compressible(res, weight, b),
           NEW buf \in Seq(Bits), NEW p \in Nat,
           Stands(Enc!Compress(res, weight, b), buf, p),
           NEW s, OnTheWay(s, res, weight, b)
    PROVE  StandsIn(s, Enc!Compress(res, weight, b), buf, p)
<1> DEFINE n == Len(res)
           code == Enc!Compress(res, weight, b)
<1>1. n \in Nat
  BY FirstCoderIs
<1>2. PICK A : /\ IsCompression(A, res, weight, b) /\ code = A[n].bits
               /\ \E i \in 0 .. n : s = A[i]
  BY Zenon DEF OnTheWay
<1>3. PICK i \in 0 .. n : s = A[i]
  BY <1>2
<1>4. \A j \in 0 .. n : A[j].bits \in Seq(Bits)
  <2>1. A \in [0 .. n -> Coders(res)]
    BY <1>2 DEF IsCompression
  <2>2. \A t \in Coders(res) : t.bits \in Seq(Bits)
    BY DEF Coders
  <2> HIDE DEF n
  <2> QED
    BY <2>1, <2>2
<1>5. \A j \in 1 .. n : Advances(res, A[j - 1], A[j])
  BY <1>2, CompressionIs
<1> HIDE DEF n, code
<1> DEFINE P == {j \in 0 .. n : StandsIn(A[j], code, buf, p)}
<1>6. n \in P
  <2>1. n \in 0 .. n
    BY <1>1
  <2>2. Len(A[n].bits) \in Nat
    BY <1>4, <2>1
  <2> QED
    BY <1>2, <2>1, <2>2 DEF StandsIn, code
<1>7. ASSUME NEW j \in 1 .. n, j \in P PROVE j - 1 \in P
  <2> DEFINE u == A[j - 1]
             v == A[j]
  <2>1. j - 1 \in 0 .. n /\ j \in 0 .. n
    BY <1>1
  <2>2. /\ u.bits \in Seq(Bits) /\ v.bits \in Seq(Bits) /\ StandsIn(v, code, buf, p)
        /\ Advances(res, u, v)
    BY <1>4, <1>5, <1>7, <2>1
  <2> HIDE DEF u, v
  <2>3. v = u \/ Grows(u, v)
    BY <2>2 DEF Advances, Follows
  <2>4. StandsIn(u, code, buf, p)
    <3>1. CASE v = u
      BY <2>2, <3>1
    <3>2. CASE Grows(u, v)
      <4>1. PICK z \in Seq(Bits) : v.bits = u.bits \o z
        BY <3>2 DEF Grows
      <4> DEFINE ub == u.bits
                 vb == v.bits
      <4>2. ub \in Seq(Bits) /\ vb = ub \o z /\ Stands(vb, buf, p) /\ Len(vb) <= Len(code)
        BY <2>2, <4>1 DEF StandsIn
      <4> HIDE DEF ub, vb
      <4>3. Stands(ub, buf, p)
        BY <4>2, StandsParts
      <4>4. Len(vb) = Len(ub) + Len(z) /\ Len(ub) \in Nat /\ Len(z) \in Nat
        BY <4>2, ConcatIs
      <4>5. Len(code) \in Nat
        <5>1. n \in 0 .. n
          BY <1>1
        <5> QED
          BY <1>2, <1>4, <5>1
      <4>6. Len(ub) <= Len(code)
        BY <4>2, <4>4, <4>5
      <4> QED
        BY <4>3, <4>6 DEF StandsIn, ub
    <3> QED
      BY <2>3, <3>1, <3>2
  <2> QED
    BY <2>1, <2>4 DEF u
<1>8. \A j \in 0 .. n : j \in P
  <2> HIDE DEF P
  <2> QED
    BY <1>1, <1>6, <1>7, DownFrom
<1> QED
  BY <1>3, <1>8 DEF code

\* What dynDecomp knows of a coder: all but the bits.
AgOf(s) == [c |-> s.c, mb |-> s.mb, zmode |-> s.zmode]

LEMMA AgOfIs ==
    ASSUME NEW res, NEW s \in Coders(res)
    PROVE  AgOf(s) \in Symbols
  BY DEF AgOf, Coders, Symbols

\* The code from p on stands in buf up to and with the symbol that takes s to t.
SymbolStands(res, weight, b, s, t, buf, p) ==
    /\ Coding(res, weight, b, s) /\ t = NextCoder(res, weight, b, s)
    /\ buf \in Seq(Bits) /\ p \in Nat
    /\ Stands(t.bits, buf, p) /\ p + Len(s.bits) <= Len(buf)

\* Then one iteration of dynDecomp's loop takes the decoder from s to t, or past the end.
SymbolRead(step, res, s, t, buf, p) ==
    IF p + Len(t.bits) <= Len(buf)
    THEN step.pos = p + Len(t.bits) /\ step.del = res[s.c + 1] /\ step.ag = AgOf(t)
    ELSE step.pos > Len(buf)

\* Whatever bits follow, and however many of them are missing: an iteration reads the next
\* residual and the run behind it, and its mean and mode are those of the encoder
\* (dynDecomp, dynGet32bit, dynGet, getStreamBits).
THEOREM SymbolReads ==
    ASSUME NEW res, NEW weight, NEW b, NEW s, NEW t, NEW buf, NEW p,
           SymbolStands(res, weight, b, s, t, buf, p)
    PROVE  SymbolRead(DynStep(buf, p + Len(s.bits), AgOf(s), Len(res), weight, KB, b),
                      res, s, t, buf, p)
<1> DEFINE n    == CodeOf(res, s)
           mean == MeanAfter(res, weight, s)
           k    == Least(Lg3a(s.mb \div 2^QbShift), KB)
           kz   == RunWidth(mean)
           mz   == (2^kz - 1) % 2^KB
           nz   == ZerosAfter(res, s)
           word == ResidualWord(res, b, s)
           zw   == RunWord(res, weight, s)
           run  == RunAfter(res, weight, s)
           N    == Len(res)
           q    == p + Len(s.bits)
           a    == AgOf(s)
           step == DynStep(buf, q, a, N, weight, KB, b)
           r    == DynGet32bit(buf, q, 2^k - 1, k, b)
           z    == DynGet(buf, r.pos, mz, kz)
           sw   == s.bits \o word
<1>1. /\ Coding(res, weight, b, s) /\ t = NextCoder(res, weight, b, s)
      /\ buf \in Seq(Bits) /\ p \in Nat
      /\ Stands(t.bits, buf, p) /\ q <= Len(buf)
  BY DEF SymbolStands
<1>2. /\ s.c \in Nat /\ s.mb \in Nat /\ s.zmode \in {0, 1} /\ s.bits \in Seq(Bits)
      /\ N \in Nat /\ s.c < N /\ b \in 1 .. 32 /\ weight \in 0 .. 511 /\ s \in Coders(res)
  BY <1>1 DEF Coding, Coders, Residuals
<1>3. SymbolIs(res, weight, b, s)
  BY <1>1, SymbolKnown
<1>4. /\ n \in Nat /\ n < 2^b /\ Residual(n + s.zmode) = res[s.c + 1]
      /\ k \in 1 .. 16 /\ word = Enc!CodeWord(2^k - 1, k, n, b) /\ word \in Seq(Bits)
  BY <1>3 DEF SymbolIs
<1>5. run => /\ kz \in 1 .. 16 /\ mz \in Nat \ {0} /\ mz < 2^kz
             /\ nz \in Nat /\ nz < 65535
             /\ zw = Enc!CodeWord(mz, kz, nz, 16) /\ zw \in Seq(Bits)
  BY <1>3 DEF SymbolIs, ZerosAt
<1>6. t = IF run THEN [c |-> s.c + 1 + nz, mb |-> 0, zmode |-> 1, bits |-> sw \o zw]
          ELSE [c |-> s.c + 1, mb |-> mean, zmode |-> 0, bits |-> sw]
  <2>1. NextCoder(res, weight, b, s)
          = IF run THEN [c |-> s.c + 1 + nz, mb |-> 0, zmode |-> 1, bits |-> sw \o zw]
            ELSE [c |-> s.c + 1, mb |-> mean, zmode |-> 0, bits |-> sw]
    BY <1>3, SMT DEF SymbolIs
  <2> QED
    BY <1>1, <2>1, SMT
<1>7. sw \in Seq(Bits) /\ Len(sw) = Len(s.bits) + Len(word) /\ Len(s.bits) \in Nat /\ Len(word) \in Nat
  BY <1>2, <1>4, ConcatIs
<1>8. Len(buf) \in Nat /\ q \in Nat /\ p + Len(sw) = q + Len(word)
  BY <1>1, <1>7
<1>9. step = [del |-> Residual(r.n + s.zmode),
              run |-> IF RunFollows(NextMean(a, r.n, weight)) /\ s.c + 1 < N
                      THEN DynGet(buf, r.pos, (2^RunWidth(NextMean(a, r.n, weight)) - 1) % 2^KB,
                                  RunWidth(NextMean(a, r.n, weight))).n
                      ELSE 0,
              pos |-> IF RunFollows(NextMean(a, r.n, weight)) /\ s.c + 1 < N
                      THEN DynGet(buf, r.pos, (2^RunWidth(NextMean(a, r.n, weight)) - 1) % 2^KB,
                                  RunWidth(NextMean(a, r.n, weight))).pos
                      ELSE r.pos,
              ag  |-> IF RunFollows(NextMean(a, r.n, weight)) /\ s.c + 1 < N
                      THEN [c     |-> s.c + 1 + DynGet(buf, r.pos,
                                        (2^RunWidth(NextMean(a, r.n, weight)) - 1) % 2^KB,
                                        RunWidth(NextMean(a, r.n, weight))).n,
                            mb    |-> 0,
                            zmode |-> IF DynGet(buf, r.pos,
                                           (2^RunWidth(NextMean(a, r.n, weight)) - 1) % 2^KB,
                                           RunWidth(NextMean(a, r.n, weight))).n >= 65535
                                      THEN 0 ELSE 1]
                      ELSE [c |-> s.c + 1, mb |-> NextMean(a, r.n, weight), zmode |-> 0]]
  <2>1. a.c = s.c /\ a.mb = s.mb /\ a.zmode = s.zmode
    BY DEF AgOf
  <2> HIDE DEF a
  <2> QED
    BY <2>1 DEF DynStep
<1>10. NextMean(a, n, weight) = mean
  BY DEF NextMean, AgOf, MeanAfter
<1>11. step.pos >= r.pos /\ step.pos \in Nat /\ r.pos \in Nat
  <2>1. a \in Symbols /\ a.mb = s.mb
    BY <1>2, AgOfIs DEF AgOf
  <2>2. KB \in 1 .. 16 /\ b \in 0 .. 40
    BY <1>2, ConfigAssumption
  <2>3. r = ResidualRead(buf, q, a, KB, b)
    BY <2>1 DEF ResidualRead
  <2>4. r.pos \in Nat
    <3> DEFINE m == 2^k - 1
    <3>1. m \in Nat
      <4>1. k \in Nat \ {0}
        BY <1>4
      <4> HIDE DEF k
      <4> QED
        BY <4>1, ModulusIs
    <3> HIDE DEF m, k, q
    <3>2. DynGet32bit(buf, q, m, k, b).pos \in Nat
      BY <1>1, <1>4, <1>8, <2>2, <3>1, DynGet32bitIs
    <3> QED
      BY <3>2 DEF m
  <2> HIDE DEF a, r, q, N
  <2> QED
    BY <1>1, <1>2, <1>8, <2>1, <2>2, <2>3, <2>4, DynStepIs DEF step
<1> HIDE DEF step, a
<1>12. Stands(sw, buf, p)
  <2>1. CASE run
    <3>1. t.bits = sw \o zw
      BY <1>6, <2>1
    <3> HIDE DEF sw
    <3> QED
      BY <1>1, <1>5, <1>7, <2>1, <3>1, StandsParts
  <2>2. CASE ~run
    BY <1>1, <1>6, <2>2
  <2> QED
    BY <2>1, <2>2
<1>13. Stands(word, buf, q)
  <2> DEFINE sb == s.bits
  <2>1. sb \in Seq(Bits)
    BY <1>2
  <2> HIDE DEF sb, word
  <2> QED
    BY <1>1, <1>4, <1>12, <2>1, StandsParts DEF sb
<1>14. ReadAs(r, word, n, buf, q)
  <2> DEFINE m == 2^k - 1
  <2>1. m \in Nat \ {0} /\ m < 2^k
    <3>1. k \in Nat \ {0}
      BY <1>4
    <3> HIDE DEF k
    <3> QED
      BY <3>1, ModulusIs
  <2>2. b \in 0 .. 32 /\ b \in Nat
    BY <1>2
  <2> HIDE DEF n, k, q, word, m
  <2>3. WordStands(m, k, n, b, buf, q)
    BY <1>1, <1>4, <1>8, <1>13, <2>1, <2>2 DEF WordStands, m
  <2> QED
    BY <1>4, <2>2, <2>3, DynGet32bitReads DEF m
<1> HIDE DEF n, k, word
<1>15. CASE q + Len(word) > Len(buf)
  <2>1. step.pos > Len(buf)
    <3>1. r.pos > Len(buf)
      BY <1>14, <1>15, <1>7, <1>8 DEF ReadAs
    <3> HIDE DEF r
    <3> QED
      BY <1>8, <1>11, <3>1
  <2>2. Len(t.bits) >= Len(sw) /\ Len(t.bits) \in Nat
    <3>1. CASE run
      <4>1. t.bits = sw \o zw
        BY <1>6, <3>1
      <4> HIDE DEF sw
      <4> QED
        BY <1>5, <1>7, <3>1, <4>1, ConcatIs
    <3>2. CASE ~run
      <4>1. t.bits = sw
        BY <1>6, <3>2
      <4> QED
        BY <1>7, <4>1
    <3> QED
      BY <3>1, <3>2
  <2>3. p + Len(t.bits) > Len(buf)
    BY <1>1, <1>7, <1>8, <1>15, <2>2
  <2> QED
    BY <1>8, <1>1, <2>1, <2>2, <2>3 DEF SymbolRead, step, a
<1>16. CASE q + Len(word) <= Len(buf)
  <2>1. r.n = n /\ r.pos = q + Len(word)
    BY <1>14, <1>16 DEF ReadAs
  <2>2. NextMean(a, r.n, weight) = mean
    BY <1>10, <2>1
  <2> HIDE DEF mean
  <2>3. step = [del |-> res[s.c + 1],
                run |-> IF run THEN z.n ELSE 0,
                pos |-> IF run THEN z.pos ELSE r.pos,
                ag  |-> IF run
                        THEN [c |-> s.c + 1 + z.n, mb |-> 0,
                              zmode |-> IF z.n >= 65535 THEN 0 ELSE 1]
                        ELSE [c |-> s.c + 1, mb |-> mean, zmode |-> 0]]
    <3>1. run <=> RunFollows(mean) /\ s.c + 1 < N
      BY DEF RunAfter, mean
    <3>2. Residual(r.n + s.zmode) = res[s.c + 1]
      BY <1>4, <2>1
    <3> HIDE DEF run, r
    <3> QED
      BY <1>9, <2>2, <3>1, <3>2
  <2>4. CASE ~run
    <3>1. t = [c |-> s.c + 1, mb |-> mean, zmode |-> 0, bits |-> sw]
      BY <1>6, <2>4
    <3>2. AgOf(t) = [c |-> s.c + 1, mb |-> mean, zmode |-> 0] /\ t.bits = sw
      BY <3>1 DEF AgOf
    <3>3. step.pos = p + Len(t.bits) /\ step.del = res[s.c + 1] /\ step.ag = AgOf(t)
      <4> HIDE DEF sw, r, run
      <4> QED
        BY <1>8, <2>1, <2>3, <2>4, <3>2
    <3>4. p + Len(t.bits) <= Len(buf)
      BY <1>8, <1>16, <3>2
    <3> QED
      BY <3>3, <3>4 DEF SymbolRead, step, a
  <2>5. CASE run
    <3>1. t = [c |-> s.c + 1 + nz, mb |-> 0, zmode |-> 1, bits |-> sw \o zw]
      BY <1>6, <2>5
    <3>2. AgOf(t) = [c |-> s.c + 1 + nz, mb |-> 0, zmode |-> 1] /\ t.bits = sw \o zw
      BY <3>1 DEF AgOf
    <3>3. /\ kz \in 1 .. 16 /\ mz \in Nat \ {0} /\ mz < 2^kz /\ nz \in Nat /\ nz < 65535
          /\ zw = Enc!CodeWord(mz, kz, nz, 16) /\ zw \in Seq(Bits)
      BY <1>5, <2>5
    <3> HIDE DEF sw, zw, nz, mz, kz
    <3>4. Len(sw \o zw) = Len(sw) + Len(zw) /\ Len(zw) \in Nat /\ Len(sw) \in Nat
      <4>1. sw \in Seq(Bits) /\ zw \in Seq(Bits)
        BY <1>7, <3>3
      <4> QED
        BY <4>1, ConcatIs
    <3>5. Stands(zw, buf, r.pos)
      <4>1. Stands(zw, buf, p + Len(sw))
        <5>1. sw \in Seq(Bits) /\ zw \in Seq(Bits) /\ Stands(sw \o zw, buf, p)
          BY <1>1, <1>7, <3>2, <3>3
        <5> QED
          BY <1>1, <5>1, StandsParts
      <4> QED
        BY <1>8, <2>1, <4>1
    <3>6. ReadAs(z, zw, nz, buf, r.pos)
      <4> DEFINE e == 16
                 pz == r.pos
      <4>1. e \in Nat /\ pz \in Nat /\ pz <= Len(buf) /\ Stands(zw, buf, pz)
        BY <1>11, <1>16, <2>1, <3>5
      <4>3. nz < 2^16
        <5>1. 2^16 = 65536
          OBVIOUS
        <5> QED
          BY <3>3, <5>1
      <4> HIDE DEF e, pz
      <4>4. WordStands(mz, kz, nz, e, buf, pz)
        BY <1>1, <3>3, <4>1 DEF WordStands, e
      <4>5. ReadAs(DynGet(buf, pz, mz, kz), Enc!CodeWord(mz, kz, nz, 16), nz, buf, pz)
        BY <4>3, <4>4, DynGetReads DEF e
      <4> QED
        BY <3>3, <4>5 DEF pz
    <3>7. step.pos = z.pos /\ step.del = res[s.c + 1]
          /\ step.ag = [c |-> s.c + 1 + z.n, mb |-> 0, zmode |-> IF z.n >= 65535 THEN 0 ELSE 1]
      <4> HIDE DEF z, r, run
      <4> QED
        BY <2>3, <2>5
    <3>8. p + Len(t.bits) = r.pos + Len(zw)
      <4> HIDE DEF r
      <4> QED
        BY <1>1, <1>7, <1>8, <2>1, <3>2, <3>4
    <3> HIDE DEF z, r
    <3>9. CASE p + Len(t.bits) <= Len(buf)
      <4>1. z.n = nz /\ z.pos = p + Len(t.bits)
        BY <3>6, <3>8, <3>9 DEF ReadAs
      <4>2. ~(z.n >= 65535)
        BY <3>3, <4>1
      <4>3. step.ag = AgOf(t)
        BY <3>2, <3>7, <4>1, <4>2
      <4> QED
        BY <3>7, <3>9, <4>1, <4>3 DEF SymbolRead, step, a
    <3>10. CASE ~(p + Len(t.bits) <= Len(buf))
      <4>1. z.pos > Len(buf)
        BY <3>6, <3>8, <3>10 DEF ReadAs
      <4> QED
        BY <3>7, <3>10, <4>1 DEF SymbolRead, step, a
    <3> QED
      BY <3>9, <3>10
  <2> QED
    BY <2>4, <2>5
<1>17. Len(buf) \in Nat /\ q + Len(word) \in Nat
  BY <1>7, <1>8
<1> QED
  BY <1>15, <1>16, <1>17

-----------------------------------------------------------------------------
(* Two numbers side by side are one.                                       *)

LEMMA Grouped ==
    ASSUME NEW a \in Nat, NEW b \in Nat, NEW x \in Nat, NEW y \in Nat, y < 2^b,
           NEW buf \in Seq(Bits), NEW p \in Nat,
           Stands(Enc!BitsOf(x, a), buf, p), Stands(Enc!BitsOf(y, b), buf, p + a)
    PROVE  Stands(Enc!BitsOf(x * 2^b + y, a + b), buf, p)
<1> DEFINE B == 2^b
           z == x * B + y
<1>1. B \in Nat \ {0}
  BY PowerOfTwo
<1>2. y < B
  OBVIOUS
<1> HIDE DEF B
<1>3. x * B \in Nat /\ z \in Int /\ a + b \in Nat
  BY <1>1
<1>4. Len(Enc!BitsOf(z, a + b)) = a + b
      /\ \A i \in 1 .. a + b : Enc!BitsOf(z, a + b)[i] = (z \div 2^((a + b) - i)) % 2
  <2> HIDE DEF z
  <2> QED
    BY <1>3, BitsOfIs
<1>5. ASSUME NEW i \in 1 .. a + b, p + i <= Len(buf)
      PROVE  buf[p + i] = (z \div 2^((a + b) - i)) % 2
  <2>1. CASE i <= a
    <3> DEFINE c == a - i
               C == 2^c
    <3>1. i \in 1 .. a /\ c \in Nat /\ (a + b) - i = c + b
      BY <2>1
    <3>2. buf[p + i] = (x \div 2^(a - i)) % 2
      <4>1. Len(Enc!BitsOf(x, a)) = a /\ Enc!BitsOf(x, a)[i] = (x \div 2^(a - i)) % 2
        BY <3>1, BitsOfIs
      <4> QED
        BY <1>5, <3>1, <4>1 DEF Stands
    <3> HIDE DEF c
    <3>3. C \in Nat \ {0} /\ 2^(c + b) = C * B
      BY <3>1, PowerOfTwo, PowerSum DEF B
    <3> HIDE DEF C
    <3>4. C * B = B * C
      BY <1>1, <3>3
    <3>5. z \div B = x
      <4>1. y \in 0 .. B - 1 /\ x * B = B * x
        BY <1>1, <1>2
      <4>2. (B * x + y) \div B = x
        <5>1. x \in Int
          OBVIOUS
        <5> QED
          BY <1>1, <4>1, <5>1, DivisionIs, Zenon
      <4> QED
        BY <4>1, <4>2
    <3>6. z \div (B * C) = (z \div B) \div C
      <4> HIDE DEF z
      <4> QED
        BY <1>1, <1>3, <3>3, DivisionTwice
    <3> HIDE DEF z
    <3> QED
      BY <3>1, <3>2, <3>3, <3>4, <3>5, <3>6 DEF c, C
  <2>2. CASE i > a
    <3> DEFINE j == (a + b) - i
               k == i - a
               h == k - 1
               D == 2^j
               H == 2^h
               v == y \div D
    <3>1. j \in Nat /\ k \in 1 .. b /\ h \in Nat /\ b = j + (h + 1) /\ b - k = j
          /\ p + i = (p + a) + k
      BY <2>2
    <3>2. buf[p + i] = (y \div 2^(b - k)) % 2
      <4>1. Len(Enc!BitsOf(y, b)) = b /\ Enc!BitsOf(y, b)[k] = (y \div 2^(b - k)) % 2
        <5> HIDE DEF k
        <5> QED
          BY <3>1, BitsOfIs
      <4>2. (p + a) + k <= Len(buf)
        BY <1>5, <3>1
      <4> HIDE DEF k
      <4> QED
        BY <3>1, <4>1, <4>2 DEF Stands
    <3> HIDE DEF j, h, k
    <3>3. D \in Nat \ {0} /\ H \in Nat \ {0} /\ h + 1 \in Nat
          /\ 2^(j + (h + 1)) = D * 2^(h + 1) /\ 2^(h + 1) = 2 * H
      <4>1. h + 1 \in Nat
        BY <3>1
      <4>2. D \in Nat \ {0} /\ H \in Nat \ {0} /\ 2^(h + 1) = 2 * H
        BY <3>1, PowerOfTwo, NextPower
      <4>3. 2^(j + (h + 1)) = D * 2^(h + 1)
        BY <3>1, <4>1, PowerSum, Zenon
      <4> QED
        BY <4>1, <4>2, <4>3
    <3>4. B = D * (2 * H)
      BY <3>1, <3>3 DEF B
    <3> HIDE DEF D, H
    <3> DEFINE g == x * H
               f == 2 * g
    <3>5. g \in Nat /\ f \in Nat
      BY <3>3
    <3>6. z = y + D * f
      <4>1. x * (D * (2 * H)) = D * (2 * (x * H))
        BY <3>3
      <4>2. x * B \in Nat /\ x * B = D * f
        BY <1>3, <3>4, <4>1
      <4> QED
        BY <4>2
    <3> HIDE DEF f, z
    <3>7. z \div D = v + f
      <4>1. y \in Int /\ f \in Int
        BY <3>5
      <4>2. (y + D * f) \div D = y \div D + f
        BY <3>3, <4>1, Multiple, Zenon
      <4> QED
        BY <3>6, <4>2
    <3>8. v \in Int
      BY <3>3, Division
    <3> HIDE DEF v, g
    <3>9. (v + f) % 2 = v % 2
      <4> DEFINE t == 2
      <4>1. t \in Nat \ {0} /\ f = t * g
        BY DEF f
      <4> HIDE DEF t
      <4>2. (v + t * g) % t = v % t
        <5>1. g \in Int
          BY <3>5
        <5> QED
          BY <3>8, <4>1, <5>1, Multiple, Zenon
      <4> QED
        BY <4>1, <4>2 DEF t
    <3> QED
      BY <3>1, <3>2, <3>7, <3>9 DEF v, D, j
  <2> QED
    BY <2>1, <2>2
<1> HIDE DEF z
<1>6. Stands(Enc!BitsOf(z, a + b), buf, p)
  BY <1>4, <1>5 DEF Stands
<1> QED
  BY <1>6 DEF z, B

LEMMA NumberReads ==
    ASSUME NEW buf \in Seq(Bits), NEW p \in Nat, NEW n \in 0 .. 16, NEW x \in Nat, x < 2^n,
           Stands(Enc!BitsOf(x, n), buf, p), p + n <= Len(buf)
    PROVE  Read(buf, p, n) = x
<1> DEFINE d == 2^n
<1>1. d \in Nat \ {0} /\ x < d
  BY PowerOfTwo
<1>2. Read(buf, p, n) = x % d
  <2>1. x \in Int
    OBVIOUS
  <2> QED
    BY <2>1, ReadReads, Zenon
<1> HIDE DEF d
<1>3. x \in 0 .. d - 1
  BY <1>1
<1> QED
  BY <1>1, <1>2, <1>3, SmallRemainder

LEMMA SignedReads ==
    ASSUME NEW buf \in Seq(Bits), NEW p \in Nat, NEW n \in 1 .. 16, NEW x \in SignedRange(n),
           Stands(Enc!BitsOf(x, n), buf, p), p + n <= Len(buf)
    PROVE  Signed(Read(buf, p, n), n) = x
<1> DEFINE d == 2^n
           u == x % d
<1>1. n \in Nat \ {0} /\ x \in Int
  BY RangeIsInt
<1>2. d \in Nat \ {0}
  BY <1>1, PowerOfTwo
<1>3. Read(buf, p, n) = u
  <2>1. n \in 0 .. 16
    OBVIOUS
  <2> QED
    BY <1>1, <2>1, ReadReads, Zenon
<1>4. u % d = u
  <2> HIDE DEF d
  <2>1. u \in 0 .. d - 1
    BY <1>1, <1>2, Division
  <2> HIDE DEF u
  <2> QED
    BY <1>2, <2>1, SmallRemainder
<1>5. Signed(u, n) = Signed(x, n)
  BY <1>4, Zenon DEF Signed
<1>6. Signed(x, n) = x
  BY <1>1, SignedIs
<1> QED
  BY <1>3, <1>5, <1>6

\* The same, by the name of what it takes.
NumberAt(x, n, buf, p) ==
    /\ x \in Nat /\ n \in 0 .. 16 /\ x < 2^n /\ buf \in Seq(Bits) /\ p \in Nat
    /\ Stands(Enc!BitsOf(x, n), buf, p) /\ p + n <= Len(buf)

LEMMA NumberAtReads ==
    ASSUME NEW x, NEW n, NEW buf, NEW p, NumberAt(x, n, buf, p)
    PROVE  Read(buf, p, n) = x
  BY NumberReads DEF NumberAt

LEMMA BitsOfIn == \A x \in Int : \A n \in Nat : Enc!BitsOf(x, n) \in Seq(Bits) /\ Len(Enc!BitsOf(x, n)) = n
  BY BitsOfIs

-----------------------------------------------------------------------------
(* readCoefs undoes the description of a channel.                          *)

LEMMA FitsIs ==
    ASSUME NEW p, Enc!Fits(p)
    PROVE  /\ p.mode \in 0 .. 15 /\ p.denShift \in 0 .. 15 /\ p.pbFactor \in 0 .. 7
           /\ p.a \in Seq(Int16) /\ Len(p.a) \in 0 .. 30
           /\ \A i \in 1 .. Len(p.a) : p.a[i] \in Int16 /\ p.a[i] \in Int
<1>1. /\ p.mode \in 0 .. 15 /\ p.denShift \in 0 .. 15 /\ p.pbFactor \in 0 .. 7
      /\ p.a \in Seq(Int16) /\ Len(p.a) <= 30
  BY Zenon DEF Enc!Fits, Int16
<1>2. Len(p.a) \in Nat /\ \A i \in 1 .. Len(p.a) : p.a[i] \in Int16
  BY <1>1
<1>3. \A y \in Int16 : y \in Int
  BY Int16Is
<1>4. Len(p.a) \in 0 .. 30
  <2> DEFINE l == Len(p.a)
  <2>1. l \in Nat /\ l <= 30
    BY <1>1, <1>2
  <2> HIDE DEF l
  <2>2. l \in 0 .. 30
    BY <2>1
  <2> QED
    BY <2>2 DEF l
<1> QED
  BY <1>1, <1>2, <1>3, <1>4

DescriptionSize(p) == 16 + 16 * Len(p.a)

\* The coefficients of a description, one after the other.
CoefBits(p) == [i \in 1 .. Len(p.a) |-> Enc!BitsOf(p.a[i], 16)]

DescriptionIs(d, p) ==
    \E x : /\ d = (((Enc!BitsOf(p.mode, 4) \o Enc!BitsOf(p.denShift, 4))
                   \o Enc!BitsOf(p.pbFactor, 3)) \o Enc!BitsOf(Len(p.a), 5)) \o x
           /\ IsJoined(x, CoefBits(p), Len(p.a))

LEMMA DescriptionBy ==
    ASSUME NEW p, Enc!Fits(p)
    PROVE  DescriptionIs(Enc!Description(p), p)
<1> DEFINE n == Len(p.a)
           F == CoefBits(p)
           Body(g) == [i \in 0 .. n |-> IF i = 0 THEN <<>> ELSE g[i - 1] \o Enc!BitsOf(p.a[i], 16)]
           u == CHOOSE g : g = Body(g)
<1>1. Enc!Description(p) = (((Enc!BitsOf(p.mode, 4) \o Enc!BitsOf(p.denShift, 4))
                   \o Enc!BitsOf(p.pbFactor, 3)) \o Enc!BitsOf(Len(p.a), 5)) \o u[n]
  BY Zenon DEF Enc!Description, Enc!Joined
<1>2. n \in Nat /\ F \in [1 .. n -> Seq(Bits)]
  <2>1. \A i \in 1 .. Len(p.a) : p.a[i] \in Int
    BY FitsIs
  <2>2. \A i \in 1 .. Len(p.a) : Enc!BitsOf(p.a[i], 16) \in Seq(Bits)
    BY <2>1, BitsOfIn
  <2> QED
    BY <2>2, FitsIs DEF CoefBits
<1>3. \A i \in 1 .. n : F[i] = Enc!BitsOf(p.a[i], 16)
  BY DEF CoefBits
<1> HIDE DEF n, F
<1>4. \A g : Body(g) = [i \in 0 .. n |-> IF i = 0 THEN <<>> ELSE g[i - 1] \o F[i]]
  <2> SUFFICES ASSUME NEW g, NEW i \in 0 .. n
               PROVE  Body(g)[i] = IF i = 0 THEN <<>> ELSE g[i - 1] \o F[i]
    BY Zenon
  <2>1. CASE i = 0
    BY <2>1
  <2>2. CASE i # 0
    <3>1. i \in 1 .. n
      BY <1>2, <2>2
    <3> QED
      BY <1>3, <2>2, <3>1
  <2> QED
    BY <2>1, <2>2
<1> HIDE DEF Body
<1>5. PICK g : AreJoined(g, F, n)
  BY <1>2, JoinedOnce
<1>6. g = Body(g)
  BY <1>2, <1>4, <1>5, JoinedRecursion
<1>7. u = Body(u)
  BY <1>6
<1> HIDE DEF u
<1>8. u = [i \in 0 .. n |-> IF i = 0 THEN <<>> ELSE u[i - 1] \o F[i]]
  BY <1>4, <1>7
<1>9. IsJoined(u[n], F, n)
  BY <1>2, <1>8, JoinedUnique
<1> QED
  BY <1>1, <1>9, Zenon DEF DescriptionIs, n, F

\* Where the parts of a description stand that stands at q.
DescriptionParts(p, buf, q) ==
    /\ Stands(Enc!BitsOf(p.mode * 2^4 + p.denShift, 4 + 4), buf, q)
    /\ Stands(Enc!BitsOf(p.pbFactor * 2^5 + Len(p.a), 3 + 5), buf, q + 8)
    /\ \A i \in 1 .. Len(p.a) : Stands(Enc!BitsOf(p.a[i], 16), buf, q + 16 + 16 * (i - 1))

LEMMA DescriptionStands ==
    ASSUME NEW p, Enc!Fits(p)
    PROVE  /\ Enc!Description(p) \in Seq(Bits)
           /\ Len(Enc!Description(p)) = DescriptionSize(p)
           /\ \A buf \in Seq(Bits) : \A q \in Nat :
                 Stands(Enc!Description(p), buf, q) => DescriptionParts(p, buf, q)
<1> DEFINE d  == Enc!Description(p)
           n  == Len(p.a)
           A  == Enc!BitsOf(p.mode, 4)
           B  == Enc!BitsOf(p.denShift, 4)
           C  == Enc!BitsOf(p.pbFactor, 3)
           D  == Enc!BitsOf(Len(p.a), 5)
           F  == CoefBits(p)
           AB == A \o B
           ABC == AB \o C
           h  == ABC \o D
<1>1. PICK x : d = h \o x /\ IsJoined(x, F, n)
  BY DescriptionBy, Zenon DEF DescriptionIs
<1>2. /\ p.mode \in 0 .. 15 /\ p.denShift \in 0 .. 15 /\ p.pbFactor \in 0 .. 7 /\ n \in 0 .. 30
      /\ \A i \in 1 .. n : p.a[i] \in Int
  BY FitsIs
<1>3. /\ A \in Seq(Bits) /\ Len(A) = 4 /\ B \in Seq(Bits) /\ Len(B) = 4
      /\ C \in Seq(Bits) /\ Len(C) = 3 /\ D \in Seq(Bits) /\ Len(D) = 5
  <2>1. p.mode \in Int /\ p.denShift \in Int /\ p.pbFactor \in Int /\ n \in Int
    BY <1>2
  <2> QED
    BY <2>1, BitsOfIn
<1>4. /\ F \in [1 .. n -> Seq(Bits)]
      /\ \A i \in 1 .. n : F[i] = Enc!BitsOf(p.a[i], 16) /\ Len(F[i]) = 16
  <2>1. \A i \in 1 .. n : Enc!BitsOf(p.a[i], 16) \in Seq(Bits) /\ Len(Enc!BitsOf(p.a[i], 16)) = 16
    BY <1>2, BitsOfIn
  <2> QED
    BY <2>1 DEF CoefBits
<1> HIDE DEF d, n, A, B, C, D, F
<1>5. IsPair(AB, A, 4, B)
  BY <1>3 DEF IsPair
<1> HIDE DEF AB
<1>6. AB \in Seq(Bits) /\ Len(AB) = 4 + 4
  <2>1. AB \in Seq(Bits) /\ Len(AB) = 4 + Len(B)
    BY <1>5, PairIs
  <2> QED
    BY <1>3, <2>1
<1>7. IsPair(ABC, AB, 8, C)
  BY <1>3, <1>6 DEF IsPair
<1> HIDE DEF ABC
<1>8. ABC \in Seq(Bits) /\ Len(ABC) = 8 + 3
  <2>1. ABC \in Seq(Bits) /\ Len(ABC) = 8 + Len(C)
    BY <1>7, PairIs
  <2> QED
    BY <1>3, <2>1
<1>9. IsPair(h, ABC, 11, D)
  BY <1>3, <1>8 DEF IsPair
<1> HIDE DEF h
<1>10. h \in Seq(Bits) /\ Len(h) = 11 + 5
  <2>1. h \in Seq(Bits) /\ Len(h) = 11 + Len(D)
    BY <1>9, PairIs
  <2> QED
    BY <1>3, <2>1
<1>11. /\ x \in Seq(Bits) /\ Len(x) = 16 * n
       /\ \A buf \in Seq(Bits) : \A q \in Nat : Stands(x, buf, q) => PartsStand(F, n, 16, buf, q)
  <2> DEFINE c == 16
  <2>1. c \in Nat /\ n \in Nat /\ \A i \in 1 .. n : Len(F[i]) = c
    BY <1>2, <1>4
  <2> HIDE DEF c
  <2>2. /\ x \in Seq(Bits) /\ Len(x) = c * n
        /\ \A buf \in Seq(Bits) : \A q \in Nat : Stands(x, buf, q) => PartsStand(F, n, c, buf, q)
    BY <1>1, <1>4, <2>1, JoinedIs
  <2> QED
    BY <2>2 DEF c
<1>12. IsPair(d, h, 16, x)
  BY <1>1, <1>10, <1>11 DEF IsPair
<1>13. d \in Seq(Bits) /\ Len(d) = DescriptionSize(p)
  BY <1>11, <1>12, PairIs DEF DescriptionSize, n
<1>14. ASSUME NEW buf \in Seq(Bits), NEW q \in Nat, Stands(d, buf, q)
       PROVE  DescriptionParts(p, buf, q)
  <2>1. Stands(h, buf, q) /\ Stands(x, buf, q + 16)
    BY <1>12, <1>14, PairStands
  <2>2. Stands(ABC, buf, q) /\ Stands(D, buf, q + 11)
    BY <1>9, <2>1, PairStands
  <2>3. Stands(AB, buf, q) /\ Stands(C, buf, q + 8)
    BY <1>7, <2>2, PairStands
  <2>4. Stands(A, buf, q) /\ Stands(B, buf, q + 4)
    BY <1>5, <2>3, PairStands
  <2>5. q + 8 \in Nat /\ q + 16 \in Nat /\ q + 11 = (q + 8) + 3
    OBVIOUS
  <2>6. Stands(Enc!BitsOf(p.mode * 2^4 + p.denShift, 4 + 4), buf, q)
    <3> DEFINE c == 4
               u == p.mode
               v == p.denShift
    <3>1. c \in Nat /\ u \in Nat /\ v \in Nat
      BY <1>2
    <3>2. v < 2^c
      <4>1. 2^4 = 16
        OBVIOUS
      <4> QED
        BY <1>2, <4>1
    <3>3. Stands(Enc!BitsOf(u, c), buf, q) /\ Stands(Enc!BitsOf(v, c), buf, q + c)
      BY <2>4 DEF A, B
    <3> HIDE DEF c, u, v
    <3>4. Stands(Enc!BitsOf(u * 2^c + v, c + c), buf, q)
      BY <3>1, <3>2, <3>3, Grouped
    <3> QED
      BY <3>4, Zenon DEF c, u, v
  <2>7. Stands(Enc!BitsOf(p.pbFactor * 2^5 + Len(p.a), 3 + 5), buf, q + 8)
    <3> DEFINE b == 3
               c == 5
               u == p.pbFactor
               Q == q + 8
    <3>1. b \in Nat /\ c \in Nat /\ u \in Nat /\ n \in Nat /\ Q \in Nat
      BY <1>2
    <3>2. n < 2^c
      <4>1. 2^5 = 32
        OBVIOUS
      <4> QED
        BY <1>2, <4>1
    <3>3. Stands(Enc!BitsOf(u, b), buf, Q) /\ Stands(Enc!BitsOf(n, c), buf, Q + b)
      BY <2>2, <2>3, <2>5 DEF C, D, n
    <3> HIDE DEF b, c, u, Q
    <3>4. Stands(Enc!BitsOf(u * 2^c + n, b + c), buf, Q)
      BY <3>1, <3>2, <3>3, Grouped
    <3> QED
      BY <3>4, Zenon DEF b, c, u, Q, n
  <2>8. PartsStand(F, n, 16, buf, q + 16)
    BY <1>11, <2>1, <2>5
  <2>9. \A i \in 1 .. n : Stands(Enc!BitsOf(p.a[i], 16), buf, q + 16 + 16 * (i - 1))
    BY <1>4, <2>8 DEF PartsStand
  <2> QED
    BY <2>6, <2>7, <2>9, Zenon DEF DescriptionParts, n
<1> QED
  BY <1>13, <1>14 DEF d

\* What readCoefs makes of a description, as far as it arrived.
ParametersRead(r, p, q) ==
    IF q + DescriptionSize(p) <= Len(bits)
    THEN /\ r.mode = p.mode /\ r.denShift = p.denShift /\ r.pbFactor = p.pbFactor
         /\ r.num = Len(p.a) /\ ListOf(r.coefs, Len(p.a)) = p.a
         /\ r.end = q + DescriptionSize(p)
    ELSE r.end > Len(bits)

LEMMA ParametersReads ==
    ASSUME bits \in Seq(Bits), NEW p, Enc!Fits(p), NEW q \in Nat, NEW old \in Coefs,
           Stands(Enc!Description(p), bits, q)
    PROVE  ParametersRead(readCoefs(q, old), p, q)
<1> DEFINE r == readCoefs(q, old)
           n == Len(p.a)
           N == Len(bits)
           num == Read(bits, q + 8, 8) % 32
<1>1. r = [mode     |-> Read(bits, q, 8) \div 16,
           denShift |-> Read(bits, q, 8) % 16,
           pbFactor |-> Read(bits, q + 8, 8) \div 32,
           num      |-> num,
           coefs    |-> [i \in 0 .. 31 |-> IF i < num
                                           THEN Signed(Read(bits, q + 16 + 16 * i, 16), 16)
                                           ELSE old[i]],
           end      |-> q + 16 + 16 * num]
  BY Zenon DEF readCoefs
<1>2. /\ p.mode \in 0 .. 15 /\ p.denShift \in 0 .. 15 /\ p.pbFactor \in 0 .. 7 /\ n \in 0 .. 30
      /\ p.a \in Seq(Int16) /\ \A i \in 1 .. n : p.a[i] \in Int16
  BY FitsIs
<1>3. DescriptionParts(p, bits, q)
  BY DescriptionStands
<1>4. N \in Nat /\ DescriptionSize(p) = 16 + 16 * n
  BY DEF DescriptionSize
<1>5. num \in Nat
  <2> DEFINE e == 8
             y == Read(bits, q + 8, e)
  <2>1. q + 8 \in Nat /\ e \in 0 .. 16
    OBVIOUS
  <2>2. y \in Nat
    <3> HIDE DEF e
    <3> QED
      BY <2>1, ReadIs
  <2> HIDE DEF y
  <2>3. y % 32 \in Nat
    BY <2>2
  <2> QED
    BY <2>3 DEF y
<1>6. ASSUME q + 16 <= N PROVE Read(bits, q + 8, 8) = p.pbFactor * 32 + n
  <2> DEFINE e == 8
             y == p.pbFactor * 2^5 + n
  <2>1. 2^5 = 32 /\ 2^8 = 256
    OBVIOUS
  <2>2. y \in Nat /\ y < 2^e /\ e \in 0 .. 16 /\ q + 8 \in Nat
    <3> DEFINE u == p.pbFactor
    <3>1. u \in 0 .. 7 /\ n \in 0 .. 30
      BY <1>2
    <3> HIDE DEF u, n
    <3>2. u * 32 + n \in Nat /\ u * 32 + n < 256
      BY <3>1
    <3> QED
      BY <2>1, <3>2 DEF u
  <2>3. Stands(Enc!BitsOf(y, 3 + 5), bits, q + 8)
    BY <1>3, Zenon DEF DescriptionParts
  <2>4. 3 + 5 = e /\ (q + 8) + e <= N
    BY <1>6
  <2> HIDE DEF e, y
  <2>5. Read(bits, q + 8, e) = y
    BY <2>2, <2>3, <2>4, NumberReads
  <2> QED
    BY <2>1, <2>5 DEF e, y
<1>7. ASSUME q + 16 <= N PROVE Read(bits, q, 8) = p.mode * 16 + p.denShift
  <2> DEFINE e == 8
             y == p.mode * 2^4 + p.denShift
  <2>1. 2^4 = 16 /\ 2^8 = 256
    OBVIOUS
  <2>2. y \in Nat /\ y < 2^e /\ e \in 0 .. 16
    <3> DEFINE u == p.mode
               v == p.denShift
    <3>1. u \in 0 .. 15 /\ v \in 0 .. 15
      BY <1>2
    <3> HIDE DEF u, v
    <3>2. u * 16 + v \in Nat /\ u * 16 + v < 256
      BY <3>1
    <3> QED
      BY <2>1, <3>2 DEF u, v
  <2>3. Stands(Enc!BitsOf(y, 4 + 4), bits, q)
    BY <1>3, Zenon DEF DescriptionParts
  <2>4. 4 + 4 = e /\ q + e <= N
    BY <1>4, <1>7
  <2> HIDE DEF e, y
  <2>5. Read(bits, q, e) = y
    BY <2>2, <2>3, <2>4, NumberReads
  <2> QED
    BY <2>1, <2>5 DEF e, y
<1>8. r.end = q + 16 + 16 * num
  BY <1>1
<1>9. CASE q + 16 > N
  <2>1. ~(q + DescriptionSize(p) <= N)
    BY <1>2, <1>4, <1>9
  <2>2. r.end > N
    <3> HIDE DEF num, r
    <3> QED
      BY <1>4, <1>5, <1>8, <1>9
  <2> QED
    BY <2>1, <2>2 DEF ParametersRead
<1>10. CASE q + 16 <= N
  <2>1. num = n /\ Read(bits, q + 8, 8) \div 32 = p.pbFactor
    <3> DEFINE y == p.pbFactor
    <3>1. y \in 0 .. 7 /\ n \in 0 .. 30 /\ Read(bits, q + 8, 8) = y * 32 + n
      BY <1>2, <1>6, <1>10
    <3> HIDE DEF y, n
    <3>2. (y * 32 + n) % 32 = n /\ (y * 32 + n) \div 32 = y
      BY <3>1
    <3> QED
      BY <3>1, <3>2 DEF y
  <2>2. Read(bits, q, 8) \div 16 = p.mode /\ Read(bits, q, 8) % 16 = p.denShift
    <3> DEFINE y == p.mode
               v == p.denShift
    <3>1. y \in 0 .. 15 /\ v \in 0 .. 15 /\ Read(bits, q, 8) = y * 16 + v
      BY <1>2, <1>7, <1>10
    <3> HIDE DEF y, v
    <3>2. (y * 16 + v) % 16 = v /\ (y * 16 + v) \div 16 = y
      BY <3>1
    <3> QED
      BY <3>1, <3>2 DEF y, v
  <2> HIDE DEF num
  <2>3. r.end = q + DescriptionSize(p)
    <3>1. r.end = q + 16 + 16 * n /\ n \in Nat
      BY <1>2, <1>8, <2>1
    <3> HIDE DEF r, n
    <3>2. q + (16 + 16 * n) = q + 16 + 16 * n
      BY <3>1
    <3> QED
      BY <1>4, <3>1, <3>2
  <2>4. CASE ~(q + DescriptionSize(p) <= N)
    <3> HIDE DEF r
    <3>1. r.end > N
      BY <1>2, <1>4, <2>3, <2>4
    <3> QED
      BY <2>4, <3>1 DEF ParametersRead, r
  <2>5. CASE q + DescriptionSize(p) <= N
    <3>1. ASSUME NEW k \in 1 .. n PROVE r.coefs[k - 1] = p.a[k]
      <4> DEFINE i == k - 1
                 Q == q + 16 + 16 * i
                 e == 16
      <4>1. i \in 0 .. 31 /\ i < n /\ Q \in Nat /\ Q + 16 <= N /\ k = i + 1
        <5>1. n \in 0 .. 30 /\ q + (16 + 16 * n) <= N /\ N \in Nat /\ k \in 1 .. n
          BY <1>2, <1>4, <2>5
        <5> HIDE DEF n, N
        <5> QED
          BY <5>1
      <4>2. Stands(Enc!BitsOf(p.a[k], 16), bits, Q)
        BY <1>3 DEF DescriptionParts
      <4>3. p.a[k] \in SignedRange(16)
        <5>1. p.a[k] \in Int16
          BY <1>2
        <5> QED
          BY <5>1 DEF Int16, SignedRange
      <4> HIDE DEF i
      <4>4. e \in 1 .. 16
        OBVIOUS
      <4>5. Q + e <= N /\ Stands(Enc!BitsOf(p.a[k], e), bits, Q) /\ p.a[k] \in SignedRange(e)
        BY <4>1, <4>2, <4>3
      <4> HIDE DEF e, Q
      <4>6. Signed(Read(bits, Q, e), e) = p.a[k]
        BY <4>1, <4>4, <4>5, SignedReads
      <4>7. r.coefs[i] = Signed(Read(bits, q + 16 + 16 * i, 16), 16)
        BY <1>1, <2>1, <4>1
      <4> HIDE DEF r
      <4> QED
        BY <4>6, <4>7 DEF Q, e, i
    <3>2. ListOf(r.coefs, n) = p.a
      <4>1. ListOf(r.coefs, n) = [k \in 1 .. n |-> p.a[k]]
        <5> HIDE DEF r, n
        <5> QED
          BY <3>1 DEF ListOf
      <4>2. p.a = [k \in 1 .. n |-> p.a[k]]
        BY <1>2
      <4> QED
        BY <4>1, <4>2
    <3>3. r.mode = p.mode /\ r.denShift = p.denShift /\ r.pbFactor = p.pbFactor /\ r.num = n
      BY <1>1, <2>1, <2>2
    <3> QED
      BY <2>3, <2>5, <3>2, <3>3, Zenon DEF ParametersRead
  <2> QED
    BY <2>4, <2>5
<1>11. q + 16 \in Nat
  OBVIOUS
<1> QED
  BY <1>4, <1>9, <1>10, <1>11

-----------------------------------------------------------------------------
(* The header of an element.                                               *)

PartialBit(w) == IF w.partial THEN 1 ELSE 0
EscapeBit(w)  == IF w.escape THEN 1 ELSE 0
HeaderSize(w) == 23 + (IF w.partial THEN 32 ELSE 0)

\* Where the parts of a header stand that stands at P.
HeaderParts(tag, n, w, buf, P) ==
    /\ Stands(Enc!BitsOf(tag, 3), buf, P)
    /\ Stands(Enc!BitsOf((PartialBit(w) * 2^2 + w.shifted) * 2^1 + EscapeBit(w), (1 + 2) + 1),
              buf, P + 19)
    /\ w.partial => Stands(Enc!BitsOf(0, 16), buf, P + 23) /\ Stands(Enc!BitsOf(n, 16), buf, P + 39)

LEMMA OneBit ==
    ASSUME NEW x \in Bits
    PROVE  /\ <<x>> \in Seq(Bits) /\ Len(<<x>>) = 1
           /\ \A buf \in Seq(Bits) : \A p \in Nat :
                 Stands(<<x>>, buf, p) => Stands(Enc!BitsOf(x, 1), buf, p)
<1>1. <<x>> \in Seq(Bits) /\ Len(<<x>>) = 1 /\ <<x>>[1] = x
  OBVIOUS
<1>2. Len(Enc!BitsOf(x, 1)) = 1 /\ Enc!BitsOf(x, 1)[1] = x
  <2> DEFINE e == 1
  <2>1. e \in Nat /\ x \in Int /\ e \in 1 .. e /\ e - e = 0 /\ 2^0 = 1
    BY DEF Bits
  <2>2. Len(Enc!BitsOf(x, e)) = e /\ Enc!BitsOf(x, e)[e] = (x \div 2^(e - e)) % 2
    <3> HIDE DEF e
    <3> QED
      BY <2>1, BitsOfIs
  <2>3. (x \div 1) % 2 = x
    BY DEF Bits
  <2> QED
    BY <2>1, <2>2, <2>3
<1>3. ASSUME NEW buf \in Seq(Bits), NEW p \in Nat, Stands(<<x>>, buf, p)
      PROVE  Stands(Enc!BitsOf(x, 1), buf, p)
  BY <1>1, <1>2, <1>3 DEF Stands
<1> QED
  BY <1>1, <1>3

HeaderFits(tag, n, w) ==
    /\ tag \in 0 .. 7 /\ n \in Nat
    /\ w.partial \in BOOLEAN /\ w.escape \in BOOLEAN /\ w.shifted \in {0, 3}

LEMMA HeaderStands ==
    ASSUME NEW tag, NEW n, NEW w, HeaderFits(tag, n, w)
    PROVE  /\ Enc!Header(tag, n, w) \in Seq(Bits)
           /\ Len(Enc!Header(tag, n, w)) = HeaderSize(w)
           /\ \A buf \in Seq(Bits) : \A P \in Nat :
                 Stands(Enc!Header(tag, n, w), buf, P) => HeaderParts(tag, n, w, buf, P)
<1> DEFINE H == Enc!Header(tag, n, w)
           A == Enc!BitsOf(tag, 3)
           B == Enc!BitsOf(0, 16)
           x == PartialBit(w)
           C == <<x>>
           D == Enc!BitsOf(w.shifted, 2)
           y == EscapeBit(w)
           E == <<y>>
           G == Enc!BitsOf(n, 16)
           BG == B \o G
           F == IF w.partial THEN BG ELSE <<>>
           h1 == A \o B
           h2 == h1 \o C
           h3 == h2 \o D
           h4 == h3 \o E
<1>1. H = h4 \o F
  BY Zenon DEF Enc!Header, PartialBit, EscapeBit
<1>2. x \in Bits /\ y \in Bits
  BY DEF PartialBit, EscapeBit, Bits
<1>3. C \in Seq(Bits) /\ Len(C) = 1 /\ E \in Seq(Bits) /\ Len(E) = 1
  <2> HIDE DEF x, y
  <2> QED
    BY <1>2, OneBit
<1>4. /\ A \in Seq(Bits) /\ Len(A) = 3 /\ B \in Seq(Bits) /\ Len(B) = 16
      /\ D \in Seq(Bits) /\ Len(D) = 2 /\ G \in Seq(Bits) /\ Len(G) = 16
  <2>1. tag \in Int /\ w.shifted \in Int /\ n \in Int /\ 0 \in Int
    BY DEF HeaderFits
  <2> QED
    BY <2>1, BitsOfIn
<1> HIDE DEF A, B, C, D, E, G, H, x, y
<1>5. IsPair(h1, A, 3, B)
  BY <1>4 DEF IsPair
<1> HIDE DEF h1
<1>6. h1 \in Seq(Bits) /\ Len(h1) = 3 + Len(B)
  BY <1>5, PairIs
<1>7. IsPair(h2, h1, 19, C)
  BY <1>3, <1>4, <1>6 DEF IsPair
<1> HIDE DEF h2
<1>8. h2 \in Seq(Bits) /\ Len(h2) = 19 + Len(C)
  BY <1>7, PairIs
<1>9. IsPair(h3, h2, 20, D)
  BY <1>3, <1>4, <1>8 DEF IsPair
<1> HIDE DEF h3
<1>10. h3 \in Seq(Bits) /\ Len(h3) = 20 + Len(D)
  BY <1>9, PairIs
<1>11. IsPair(h4, h3, 22, E)
  BY <1>3, <1>4, <1>10 DEF IsPair
<1> HIDE DEF h4
<1>12. h4 \in Seq(Bits) /\ Len(h4) = 22 + Len(E)
  BY <1>11, PairIs
<1>13. IsPair(BG, B, 16, G)
  BY <1>4 DEF IsPair
<1> HIDE DEF BG
<1>14. BG \in Seq(Bits) /\ Len(BG) = 16 + Len(G)
  BY <1>13, PairIs
<1>15. F \in Seq(Bits) /\ Len(F) = IF w.partial THEN 32 ELSE 0
  <2>1. CASE w.partial
    BY <1>4, <1>14, <2>1
  <2>2. CASE ~w.partial
    BY <2>2
  <2> QED
    BY <2>1, <2>2
<1> HIDE DEF F
<1>16. IsPair(H, h4, 23, F)
  BY <1>1, <1>3, <1>12, <1>15 DEF IsPair
<1>17. H \in Seq(Bits) /\ Len(H) = 23 + Len(F)
  BY <1>16, PairIs
<1>18. Len(H) = HeaderSize(w)
  BY <1>15, <1>17 DEF HeaderSize
<1>19. ASSUME NEW buf \in Seq(Bits), NEW P \in Nat, Stands(H, buf, P)
       PROVE  HeaderParts(tag, n, w, buf, P)
  <2>1. Stands(h4, buf, P) /\ Stands(F, buf, P + 23)
    BY <1>16, <1>19, PairStands
  <2>2. Stands(h3, buf, P) /\ Stands(E, buf, P + 22)
    BY <1>11, <2>1, PairStands
  <2>3. Stands(h2, buf, P) /\ Stands(D, buf, P + 20)
    BY <1>9, <2>2, PairStands
  <2>4. Stands(h1, buf, P) /\ Stands(C, buf, P + 19)
    BY <1>7, <2>3, PairStands
  <2>5. Stands(A, buf, P)
    BY <1>5, <2>4, PairStands
  <2>6. Stands(Enc!BitsOf((x * 2^2 + w.shifted) * 2^1 + y, (1 + 2) + 1), buf, P + 19)
    <3> DEFINE Q == P + 19
               e1 == 1
               e2 == 2
               s == w.shifted
               u == x * 2^e2 + s
    <3>1. Q \in Nat /\ e1 \in Nat /\ e2 \in Nat /\ P + 20 = Q + e1 /\ P + 22 = Q + (e1 + e2)
          /\ e1 + e2 \in Nat
      OBVIOUS
    <3>2. s \in Nat /\ x \in Nat /\ y \in Nat /\ s < 4 /\ y < 2
      BY <1>2 DEF HeaderFits, Bits
    <3>3. s < 2^e2 /\ y < 2^e1
      <4>1. 2^2 = 4 /\ 2^1 = 2
        OBVIOUS
      <4> QED
        BY <3>2, <4>1
    <3>4. Stands(Enc!BitsOf(x, e1), buf, Q) /\ Stands(Enc!BitsOf(y, e1), buf, P + 22)
      BY <1>2, <2>2, <2>4, <3>1, OneBit DEF C, E
    <3>5. Stands(Enc!BitsOf(s, e2), buf, Q + e1)
      BY <2>3, <3>1 DEF D
    <3> HIDE DEF s, Q, e1, e2
    <3>6. Stands(Enc!BitsOf(u, e1 + e2), buf, Q)
      BY <3>1, <3>2, <3>3, <3>4, <3>5, Grouped
    <3>7. u \in Nat
      <4> DEFINE d == 2^e2
      <4>1. d \in Nat
        BY <3>1, PowerOfTwo
      <4> HIDE DEF d
      <4>2. x * d + s \in Nat
        BY <3>2, <4>1
      <4> QED
        BY <4>2 DEF d
    <3> HIDE DEF u
    <3>8. Stands(Enc!BitsOf(y, e1), buf, Q + (e1 + e2))
      BY <3>1, <3>4
    <3> DEFINE a == e1 + e2
    <3>9. a \in Nat /\ Stands(Enc!BitsOf(u, a), buf, Q) /\ Stands(Enc!BitsOf(y, e1), buf, Q + a)
      BY <3>1, <3>6, <3>8
    <3> HIDE DEF a
    <3>10. Stands(Enc!BitsOf(u * 2^e1 + y, a + e1), buf, Q)
      BY <3>1, <3>2, <3>3, <3>7, <3>9, Grouped
    <3> QED
      BY <3>10, Zenon DEF a, u, s, Q, e1, e2
  <2>7. w.partial => Stands(B, buf, P + 23) /\ Stands(G, buf, P + 39)
    <3> SUFFICES ASSUME w.partial PROVE Stands(B, buf, P + 23) /\ Stands(G, buf, P + 39)
      OBVIOUS
    <3> DEFINE Q == P + 23
    <3>1. Q \in Nat /\ P + 39 = Q + 16
      OBVIOUS
    <3>2. Stands(BG, buf, Q)
      BY <2>1 DEF F
    <3> HIDE DEF Q
    <3>3. Stands(B, buf, Q) /\ Stands(G, buf, Q + 16)
      BY <1>13, <3>1, <3>2, PairStands
    <3> QED
      BY <3>1, <3>3 DEF Q
  <2> QED
    BY <2>5, <2>6, <2>7, Zenon DEF HeaderParts, A, B, G, x, y
<1> QED
  BY <1>17, <1>18, <1>19 DEF H

\* What Decode and decodeElement make of a header, as far as it arrived.
HeaderRead(tag, n, w) ==
    /\ BodyPos \in Nat /\ BodyPos >= pos + 23
    /\ pos + 3 <= Len(bits) => Tag = tag
    /\ pos + 23 <= Len(bits) =>
          BodyPos = pos + HeaderSize(w) /\ Shifted = w.shifted /\ (Escape <=> w.escape)
    /\ pos + HeaderSize(w) <= Len(bits) => Samples = IF w.partial THEN n ELSE FrameLength

LEMMA HeaderReads ==
    ASSUME bits \in Seq(Bits), pos \in Nat,
           NEW tag, NEW n, NEW w, HeaderFits(tag, n, w), n < 65536,
           HeaderParts(tag, n, w, bits, pos)
    PROVE  HeaderRead(tag, n, w)
<1> DEFINE L == Len(bits)
           x == PartialBit(w)
           s == w.shifted
           y == EscapeBit(w)
           f == (x * 2^2 + s) * 2^1 + y
<1>1. /\ Stands(Enc!BitsOf(tag, 3), bits, pos)
      /\ Stands(Enc!BitsOf(f, (1 + 2) + 1), bits, pos + 19)
      /\ w.partial => Stands(Enc!BitsOf(0, 16), bits, pos + 23) /\ Stands(Enc!BitsOf(n, 16), bits, pos + 39)
  BY DEF HeaderParts
<1>2. L \in Nat /\ HeaderPos = pos + 19 /\ HeaderPos \in Nat
  BY DEF HeaderPos
<1>3. /\ x \in {0, 1} /\ s \in {0, 3} /\ y \in {0, 1} /\ tag \in 0 .. 7 /\ n \in Nat
      /\ (x = 1 <=> w.partial) /\ (y = 1 <=> w.escape)
  BY DEF HeaderFits, PartialBit, EscapeBit
<1>4. BodyPos \in Nat /\ BodyPos >= pos + 23
      /\ BodyPos = pos + 23 + (IF Partial THEN 32 ELSE 0)
  <2>1. BodyPos = HeaderPos + 4 + (IF Partial THEN 32 ELSE 0)
    BY DEF BodyPos
  <2> HIDE DEF L
  <2>2. CASE Partial
    <3>1. BodyPos = HeaderPos + 4 + 32
      BY <2>1, <2>2
    <3> QED
      BY <1>2, <2>2, <3>1
  <2>3. CASE ~Partial
    <3>1. BodyPos = HeaderPos + 4 + 0
      BY <2>1, <2>3
    <3> QED
      BY <1>2, <2>3, <3>1
  <2> QED
    BY <2>2, <2>3
<1>5. ASSUME pos + 3 <= L PROVE Tag = tag
  <2> DEFINE e == 3
  <2>1. 2^3 = 8
    OBVIOUS
  <2>2. e \in 0 .. 16 /\ tag \in Nat /\ tag < 2^e /\ pos + e <= Len(bits)
    BY <1>3, <1>5, <2>1
  <2>3. Stands(Enc!BitsOf(tag, e), bits, pos)
    BY <1>1
  <2> HIDE DEF e
  <2>4. Read(bits, pos, e) = tag
    <3>1. NumberAt(tag, e, bits, pos)
      BY <2>2, <2>3 DEF NumberAt
    <3> QED
      BY <3>1, NumberAtReads
  <2> QED
    BY <2>4 DEF Tag, e
<1>6. ASSUME pos + 23 <= L
      PROVE  (Partial <=> w.partial) /\ Shifted = s /\ (Escape <=> w.escape)
  <2> DEFINE e == 4
             Q == pos + 19
  <2>1. 2^4 = 16 /\ 2^2 = 4 /\ 2^1 = 2
    OBVIOUS
  <2>2. f = 8 * x + 2 * s + y /\ f \in Nat /\ f < 16
    <3> HIDE DEF x, s, y
    <3>1. f = (x * 4 + s) * 2 + y
      BY <2>1
    <3> QED
      BY <1>3, <3>1
  <2> HIDE DEF f
  <2>3. e \in 0 .. 16 /\ f < 2^e /\ Q + e <= Len(bits) /\ Q \in Nat /\ (1 + 2) + 1 = e
    BY <1>2, <1>6, <2>1, <2>2
  <2>4. Stands(Enc!BitsOf(f, e), bits, Q)
    BY <1>1, <2>3
  <2> HIDE DEF e, Q
  <2>5. Read(bits, Q, e) = f
    BY <2>2, <2>3, <2>4, NumberReads
  <2>6. Flag = f
    BY <1>2, <2>5 DEF Flag, e, Q
  <2>7. f \div 8 = x /\ (f \div 2) % 4 = s /\ f % 2 = y
    <3> HIDE DEF x, s, y
    <3> QED
      BY <1>3, <2>2
  <2>8. Partial <=> x = 1
    BY <2>6, <2>7 DEF Partial
  <2>9. Shifted = s
    BY <2>6, <2>7 DEF Shifted
  <2>10. Escape <=> y = 1
    BY <2>6, <2>7 DEF Escape
  <2> HIDE DEF x, y, s
  <2> QED
    BY <1>3, <2>8, <2>9, <2>10
<1>7. ASSUME pos + 23 <= L PROVE BodyPos = pos + HeaderSize(w)
  <2> DEFINE z == IF w.partial THEN 32 ELSE 0
  <2>1. BodyPos = pos + 23 + z /\ z \in Nat
    BY <1>4, <1>6, <1>7
  <2>2. HeaderSize(w) = 23 + z
    BY DEF HeaderSize
  <2> HIDE DEF z
  <2> QED
    BY <2>1, <2>2
<1>8. ASSUME pos + HeaderSize(w) <= L
      PROVE  Samples = IF w.partial THEN n ELSE FrameLength
  <2>1. pos + 23 <= L /\ (w.partial => pos + 55 <= L)
    BY <1>2, <1>8 DEF HeaderSize
  <2>2. Partial <=> w.partial
    BY <1>6, <2>1
  <2>3. CASE ~w.partial
    BY <2>2, <2>3 DEF Samples
  <2>4. CASE w.partial
    <3> DEFINE e == 16
               Q == pos + 23
               R == pos + 39
               o == 0
    <3>1. e \in 0 .. 16 /\ Q \in Nat /\ R \in Nat /\ o \in Nat /\ Q + e <= Len(bits) /\ R + e <= Len(bits)
          /\ HeaderPos + 4 = Q /\ HeaderPos + 20 = R
      BY <1>2, <2>1, <2>4
    <3>2. n < 2^e /\ o < 2^e
      <4>1. 2^16 = 65536
        OBVIOUS
      <4> QED
        BY <4>1
    <3>3. Stands(Enc!BitsOf(o, e), bits, Q) /\ Stands(Enc!BitsOf(n, e), bits, R)
      BY <1>1, <2>4
    <3> HIDE DEF e, Q, R, o
    <3>4. Read(bits, Q, e) = o /\ Read(bits, R, e) = n
      <4>1. NumberAt(o, e, bits, Q)
        BY <3>1, <3>2, <3>3 DEF NumberAt
      <4>2. NumberAt(n, e, bits, R)
        BY <1>3, <3>1, <3>2, <3>3 DEF NumberAt
      <4> QED
        BY <4>1, <4>2, NumberAtReads
    <3>5. Samples = Read(bits, Q, e) * 2^16 + Read(bits, R, e)
      BY <2>2, <2>4, <3>1 DEF Samples, e
    <3>6. 0 * 2^16 + n = n
      BY <1>3
    <3> QED
      BY <2>4, <3>4, <3>5, <3>6 DEF o
  <2> QED
    BY <2>3, <2>4
<1> QED
  BY <1>4, <1>5, <1>6, <1>7, <1>8 DEF HeaderRead

-----------------------------------------------------------------------------
(* The residuals of a channel.                                             *)

\* A round of the encoder adds a residual that fits the channel.
AddsResidual(s, t, b) == \E d \in SignedRange(b) : t.res = Append(s.res, d)

LEMMA EncRoundAdds ==
    ASSUME NEW num \in 0 .. 31, NEW s \in EncStates(num), NEW x \in Seq(Int),
           NEW j \in 2 .. Len(x), NEW shift \in Nat, NEW chanbits \in Nat \ {0}
    PROVE  AddsResidual(s, EncRound(s, x, j, num, chanbits, shift), chanbits)
<1>1. s.res \in Seq(Int) /\ s.a \in [1 .. num -> Int16] /\ s = [res |-> s.res, a |-> s.a]
  BY DEF EncStates
<1>2. CASE j <= num + 1
  <2> DEFINE d == Signed(x[j] - x[j - 1], chanbits)
  <2>1. EncRound(s, x, j, num, chanbits, shift) = [s EXCEPT !.res = Append(@, d)]
    BY <1>2, EncSigned DEF EncRound
  <2>2. d \in SignedRange(chanbits)
    <3>1. j \in 1 .. Len(x) /\ j - 1 \in 1 .. Len(x)
      OBVIOUS
    <3>2. x[j] \in Int /\ x[j - 1] \in Int
      BY <3>1
    <3>3. x[j] - x[j - 1] \in Int
      BY <3>2
    <3> QED
      BY <3>3, SignedIs
  <2> HIDE DEF d
  <2>3. EncRound(s, x, j, num, chanbits, shift).res = Append(s.res, d)
    BY <1>1, <2>1
  <2> QED
    BY <2>2, <2>3, Zenon DEF AddsResidual
<1>3. CASE ~(j <= num + 1)
  <2> DEFINE L == Len(x)
             o == [q \in 0 .. L - 1 |-> x[q + 1]]
             i == j - 1
  <2>1. L \in Nat /\ j \in num + 2 .. L /\ j \in 1 .. L /\ j = i + 1 /\ i \in num + 1 .. L - 1
    BY <1>3
  <2>2. o \in [0 .. L - 1 -> Int]
    <3>1. \A q \in 0 .. L - 1 : q + 1 \in 1 .. L
      BY <2>1
    <3> QED
      BY <3>1
  <2>3. x[j] \in Int /\ \A q \in 0 .. i - 1 : o[q] = x[q + 1]
    <3>1. \A q \in 0 .. i - 1 : q \in 0 .. L - 1
      BY <2>1
    <3> QED
      BY <2>1, <3>1
  <2>4. PICK c \in Coefs : ListOf(c, num) = s.a
    BY <1>1, ListIs
  <2> HIDE DEF o, L, i
  <2>9. InStep(L, o, c, i, s, x, j, num, shift)
    <3>1. Predictable(L, o, c, num, i, shift)
      BY <2>1, <2>2 DEF Predictable
    <3> QED
      BY <2>1, <2>3, <2>4, <3>1 DEF InStep
  <2> DEFINE del == Signed(x[j] - Predicted(o, i, c, num, shift), chanbits)
             c2 == Adapted(o, i, c, num, shift, del)
  <2>5. EncRound(s, x, j, num, chanbits, shift)
          = [res |-> Append(s.res, del), a |-> ListOf(c2, num)]
    BY <2>9, EncRoundBy
  <2>6. del \in SignedRange(chanbits)
    <3>1. Predicted(o, i, c, num, shift) \in Int
      BY <2>1, <2>2, PredictedIs
    <3>2. x[j] - Predicted(o, i, c, num, shift) \in Int
      BY <2>3, <3>1
    <3> QED
      BY <3>2, SignedIs
  <2> HIDE DEF del
  <2>7. EncRound(s, x, j, num, chanbits, shift).res = Append(s.res, del)
    BY <2>5
  <2> QED
    BY <2>6, <2>7, Zenon DEF AddsResidual
<1> QED
  BY <1>2, <1>3

\* So every residual fits, when the first sample does.
LEMMA PredictIs ==
    ASSUME NEW b \in Nat \ {0}, NEW x \in Seq(SignedRange(b)), x # <<>>,
           NEW p, Enc!Fits(p)
    PROVE  /\ Enc!Predict(x, p.a, Len(p.a), b, p.denShift) \in Seq(SignedRange(b))
           /\ Len(Enc!Predict(x, p.a, Len(p.a), b, p.denShift)) = Len(x)
<1> DEFINE n == Len(x)
           num == Len(p.a)
           shift == p.denShift
           a == p.a
<1>1. n \in Nat /\ n \in 1 .. n /\ n # 0
  OBVIOUS
<1>2. x \in Seq(Int) /\ b \in Nat /\ \A k \in 1 .. n : x[k] \in SignedRange(b)
  <2>1. \A k \in 1 .. n : x[k] \in SignedRange(b)
    OBVIOUS
  <2>2. x \in [1 .. n -> Int]
    BY <2>1, RangeIsInt
  <2> QED
    BY <1>1, <2>1, <2>2
<1>3. num \in 0 .. 30 /\ shift \in Nat /\ a \in [1 .. num -> Int16]
  <2>1. a \in Seq(Int16) /\ num \in 0 .. 30 /\ shift \in 0 .. 15
    BY FitsIs
  <2>2. a \in [1 .. num -> Int16]
    BY <2>1
  <2> HIDE DEF a, num, shift
  <2> QED
    BY <2>1, <2>2
<1>4. CASE num = 0
  BY <1>4 DEF Enc!Predict
<1>5. CASE num # 0
  <2> HIDE DEF n, num, shift, a
  <2>1. num \in 1 .. 31 /\ num \in 0 .. 31
    BY <1>3, <1>5
  <2>2. ComesFromEncoding(x, a, num, b, shift)
    BY <1>2, <1>3, <2>1, EncPredictBy
  <2>3. PICK E : /\ IsEncoding(E, x, a, num, b, shift)
                 /\ Enc!Predict(x, a, num, b, shift) = E[n].res
    BY <2>2 DEF ComesFromEncoding, n
  <2>4. \A q \in 1 .. n : Len(E[q].res) = q /\ E[n].res[q] = E[q].res[q]
    <3>1. ResidualsOf(E, x)
      BY <1>2, <2>3, ResidualsStay
    <3> QED
      BY <3>1 DEF ResidualsOf, n
  <2>5. /\ \A q \in 1 .. n : E[q] \in EncStates(num) /\ E[q].res \in Seq(Int)
        /\ E[1].res = <<x[1]>>
        /\ \A j \in 2 .. n : E[j] = EncRound(E[j - 1], x, j, num, b, shift)
    <3>1. E \in [1 .. n -> EncStates(num)] /\ E[1] = [res |-> <<x[1]>>, a |-> a]
      BY <2>3 DEF IsEncoding, n
    <3>2. \A j \in 2 .. n : E[j] = EncRound(E[j - 1], x, j, num, b, shift)
      BY <2>3 DEF IsEncoding, n
    <3>3. \A t \in EncStates(num) : t.res \in Seq(Int)
      BY DEF EncStates
    <3>4. E[1].res = <<x[1]>>
      BY <3>1
    <3>5. \A q \in 1 .. n : E[q] \in EncStates(num)
      BY <3>1
    <3> QED
      BY <3>2, <3>3, <3>4, <3>5
  <2>6. ASSUME NEW q \in 1 .. n PROVE E[q].res[q] \in SignedRange(b)
    <3>1. CASE q = 1
      <4>1. E[1].res[1] = x[1] /\ 1 \in 1 .. n
        BY <1>1, <2>5
      <4> QED
        BY <1>2, <3>1, <4>1
    <3>2. CASE q # 1
      <4> DEFINE i == q - 1
      <4>1. q \in 2 .. n /\ i \in 1 .. n /\ i + 1 = q /\ i \in Nat
        BY <1>1, <3>2
      <4>2. E[q] = EncRound(E[i], x, q, num, b, shift)
        BY <2>5, <4>1
      <4> HIDE DEF i
      <4>3. E[i] \in EncStates(num) /\ E[i].res \in Seq(Int) /\ Len(E[i].res) = i
        BY <2>4, <2>5, <4>1
      <4>4. AddsResidual(E[i], EncRound(E[i], x, q, num, b, shift), b)
        <5>1. q \in 2 .. Len(x)
          BY <4>1 DEF n
        <5> QED
          BY <1>2, <1>3, <2>1, <4>3, <5>1, EncRoundAdds
      <4>5. PICK d \in SignedRange(b) : E[q].res = Append(E[i].res, d)
        BY <4>2, <4>4 DEF AddsResidual
      <4>6. Append(E[i].res, d)[i + 1] = d
        BY <4>3
      <4> QED
        BY <4>1, <4>5, <4>6
    <3> QED
      BY <3>1, <3>2
  <2>7. E[n].res \in Seq(Int) /\ Len(E[n].res) = n
    BY <1>1, <2>4, <2>5
  <2>8. \A q \in 1 .. n : E[n].res[q] \in SignedRange(b)
    BY <2>4, <2>6
  <2>9. E[n].res \in Seq(SignedRange(b))
    <3>1. E[n].res \in [1 .. n -> SignedRange(b)]
      BY <2>7, <2>8
    <3> QED
      BY <1>1, <3>1
  <2> QED
    BY <2>3, <2>7, <2>9 DEF n, num, shift, a
<1> QED
  BY <1>4, <1>5

LEMMA DifferenceIs ==
    ASSUME NEW b \in Nat \ {0}, NEW x \in Seq(SignedRange(b))
    PROVE  /\ Enc!Difference(x, b) \in Seq(SignedRange(b))
           /\ Len(Enc!Difference(x, b)) = Len(x)
<1> DEFINE n == Len(x)
           d == Enc!Difference(x, b)
<1>1. n \in Nat /\ \A k \in 1 .. n : x[k] \in SignedRange(b) /\ x[k] \in Int
  BY RangeIsInt
<1>2. d = [j \in 1 .. n |-> IF j = 1 THEN x[1] ELSE Signed(x[j] - x[j - 1], b)]
  BY EncSigned DEF Enc!Difference
<1> HIDE DEF n, d
<1>3. ASSUME NEW j \in 1 .. n
      PROVE  (IF j = 1 THEN x[1] ELSE Signed(x[j] - x[j - 1], b)) \in SignedRange(b)
  <2>1. CASE j = 1
    BY <1>1, <2>1
  <2>2. CASE j # 1
    <3>1. j - 1 \in 1 .. n
      BY <1>1, <2>2
    <3>2. x[j] - x[j - 1] \in Int
      BY <1>1, <3>1
    <3> QED
      BY <2>2, <3>2, SignedIs
  <2> QED
    BY <2>1, <2>2
<1>4. d \in [1 .. n -> SignedRange(b)]
  BY <1>2, <1>3
<1>5. Len(d) = n /\ d \in Seq(SignedRange(b))
  BY <1>1, <1>4
<1> QED
  BY <1>5 DEF d, n

-----------------------------------------------------------------------------
(* What is coded of a channel.                                             *)

ResidualsFor(x, p, b) ==
    LET res == Enc!Predict(x, p.a, Len(p.a), b, p.denShift)
    IN  IF p.mode = 0 THEN res ELSE Enc!Difference(res, b)
Weight(p) == (PB * p.pbFactor) \div 4

\* A channel that can be coded: what there is of it, its parameters and its width.
CanCode(x, p, b) ==
    /\ b \in 16 .. 17 /\ x \in Seq(SignedRange(b)) /\ Len(x) \in 1 .. 2^16 - 1 /\ Enc!Fits(p)

CodedChannel(x, p, b) ==
    /\ Compressible(ResidualsFor(x, p, b), Weight(p), b)
    /\ Len(ResidualsFor(x, p, b)) = Len(x)
    /\ Enc!Channel(x, p, b) = Enc!Compress(ResidualsFor(x, p, b), Weight(p), b)
    /\ Enc!Channel(x, p, b) \in Seq(Bits)

LEMMA WeightIs ==
    ASSUME NEW f \in 0 .. 7
    PROVE  (PB * f) \div 4 \in 0 .. 511
<1>1. PB \in Int /\ 0 <= PB /\ PB <= 255
  BY ConfigAssumption
<1> QED
  BY <1>1

LEMMA CodedChannelIs ==
    ASSUME NEW x, NEW p, NEW b, CanCode(x, p, b)
    PROVE  CodedChannel(x, p, b)
<1> DEFINE pre == Enc!Predict(x, p.a, Len(p.a), b, p.denShift)
           res == ResidualsFor(x, p, b)
<1>1. /\ b \in 1 .. 32 /\ b \in Nat \ {0} /\ x \in Seq(SignedRange(b)) /\ Enc!Fits(p)
      /\ Len(x) \in 1 .. 2^16 - 1 /\ x # <<>>
  <2>1. b \in 16 .. 17 /\ x \in Seq(SignedRange(b)) /\ Enc!Fits(p) /\ Len(x) \in 1 .. 2^16 - 1
    BY Zenon DEF CanCode
  <2>2. b \in 1 .. 32 /\ b \in Nat \ {0}
    BY <2>1
  <2>3. x # <<>>
    <3>1. Len(<<>>) = 0
      OBVIOUS
    <3> QED
      BY <2>1, <3>1
  <2> QED
    BY <2>1, <2>2, <2>3, Zenon
<1>2. pre \in Seq(SignedRange(b)) /\ Len(pre) = Len(x)
  BY <1>1, PredictIs
<1>3. res = IF p.mode = 0 THEN pre ELSE Enc!Difference(pre, b)
  BY DEF ResidualsFor
<1> HIDE DEF pre
<1>4. Enc!Difference(pre, b) \in Seq(SignedRange(b)) /\ Len(Enc!Difference(pre, b)) = Len(pre)
  BY <1>1, <1>2, DifferenceIs
<1>5. res \in Seq(SignedRange(b)) /\ Len(res) = Len(x)
  <2> HIDE DEF res
  <2> QED
    BY <1>2, <1>3, <1>4
<1>6. Weight(p) \in 0 .. 511
  <2>1. p.pbFactor \in 0 .. 7
    BY <1>1, FitsIs
  <2> QED
    BY <2>1, WeightIs DEF Weight
<1>7. Enc!Channel(x, p, b) = Enc!Compress(res, Weight(p), b)
  BY DEF Enc!Channel, ResidualsFor, Weight
<1> HIDE DEF res
<1>8. Compressible(res, Weight(p), b)
  BY <1>1, <1>5, <1>6 DEF Compressible, Residuals
<1>9. Enc!Compress(res, Weight(p), b) \in Seq(Bits)
  <2>1. PICK A : /\ IsCompression(A, res, Weight(p), b)
                 /\ Enc!Compress(res, Weight(p), b) = A[Len(res)].bits
    BY <1>8, CompressBy DEF ComesFromCoders
  <2>2. A[Len(res)] \in Coders(res)
    <3>1. Len(res) \in 0 .. Len(res)
      BY <1>5
    <3> QED
      BY <2>1, <3>1 DEF IsCompression
  <2> QED
    BY <2>1, <2>2 DEF Coders
<1> QED
  BY <1>5, <1>7, <1>8, <1>9 DEF CodedChannel, res

\* The channels of an element of a proper frame.
Chans(w) == IF w.layout = "CPE" THEN 2 ELSE 1
InFrame(audio, first, chans, w) ==
    /\ Enc!Proper(audio, w) /\ chans = Chans(w)
    /\ first \in 1 .. 2 /\ (chans = 2 => first = 1)

Signal(audio, first, chans, w, k) ==
    [j \in 1 .. Len(audio) |->
        (IF chans = 2 THEN Enc!Mix(audio[j], w.mixBits, w.mixRes) ELSE audio[j])[first + k - 1]]

LEMMA ProperIs ==
    ASSUME NEW audio, NEW w, Enc!Proper(audio, w)
    PROVE  /\ Len(audio) \in 1 .. 2^16 - 1
           /\ \A j \in 1 .. Len(audio) : \A k \in 1 .. 2 : audio[j][k] \in Int16
           /\ \A j \in 1 .. Len(audio) : audio[j] = <<audio[j][1], audio[j][2]>>
           /\ w.escape \in BOOLEAN /\ w.partial \in BOOLEAN /\ w.shifted \in {0, 3}
           /\ w.mixBits \in 0 .. 255 /\ w.mixRes \in -128 .. 127
           /\ \A k \in 1 .. 2 : Enc!Fits(w.prm[k])
           /\ Chans(w) \in 1 .. 2
<1>1. audio \in Seq(Int16 \X Int16)
  BY Zenon DEF Enc!Proper, Int16
<1>2. \A j \in 1 .. Len(audio) : audio[j] \in Int16 \X Int16
  BY <1>1
<1>3. \A j \in 1 .. Len(audio) : /\ audio[j][1] \in Int16 /\ audio[j][2] \in Int16
                                 /\ audio[j] = <<audio[j][1], audio[j][2]>>
  BY <1>2
<1>4. \A k \in 1 .. 2 : k = 1 \/ k = 2
  OBVIOUS
<1>5. \A j \in 1 .. Len(audio) : \A k \in 1 .. 2 : audio[j][k] \in Int16
  BY <1>3, <1>4
<1>6. /\ Len(audio) \in 1 .. 2^16 - 1
      /\ w.escape \in BOOLEAN /\ w.partial \in BOOLEAN /\ w.shifted \in {0, 3}
      /\ w.mixBits \in 0 .. 255 /\ w.mixRes \in -128 .. 127
      /\ \A k \in 1 .. 2 : Enc!Fits(w.prm[k])
  BY Zenon DEF Enc!Proper
<1>7. Chans(w) \in 1 .. 2
  BY DEF Chans
<1> QED
  BY <1>3, <1>5, <1>6, <1>7, Zenon

LEMMA SignalIs ==
    ASSUME NEW audio, NEW first, NEW chans, NEW w, InFrame(audio, first, chans, w),
           NEW k \in 1 .. chans
    PROVE  CanCode(Signal(audio, first, chans, w, k), w.prm[k], 15 + chans)
<1> DEFINE n == Len(audio)
           x == Signal(audio, first, chans, w, k)
<1>1. /\ Enc!Proper(audio, w) /\ chans = Chans(w) /\ first \in 1 .. 2
      /\ (chans = 2 => first = 1)
  BY DEF InFrame
<1>2. /\ n \in 1 .. 2^16 - 1 /\ chans \in 1 .. 2 /\ k \in 1 .. 2 /\ Enc!Fits(w.prm[k])
      /\ \A j \in 1 .. n : \A i \in 1 .. 2 : audio[j][i] \in Int16
  <2>1. chans \in 1 .. 2
    BY <1>1, ProperIs
  <2>2. k \in 1 .. 2
    BY <2>1
  <2>3. /\ n \in 1 .. 2^16 - 1 /\ \A i \in 1 .. 2 : Enc!Fits(w.prm[i])
        /\ \A j \in 1 .. n : \A i \in 1 .. 2 : audio[j][i] \in Int16
    BY <1>1, ProperIs, Zenon
  <2> QED
    BY <2>1, <2>2, <2>3, Zenon
<1>3. \A j \in 1 .. n : x[j] \in SignedRange(15 + chans)
  <2>1. CASE chans = 1
    <3>1. \A j \in 1 .. n : x[j] = audio[j][first]
      BY <1>1, <2>1 DEF Signal
    <3>2. SignedRange(15 + 1) = Int16
      BY DEF SignedRange, Int16
    <3> QED
      BY <1>1, <1>2, <2>1, <3>1, <3>2
  <2>2. CASE chans = 2
    <3>1. \A j \in 1 .. n : x[j] = Enc!Mix(audio[j], w.mixBits, w.mixRes)[k]
      BY <1>1, <1>2, <2>2 DEF Signal
    <3>2. \A j \in 1 .. n : Enc!Mix(audio[j], w.mixBits, w.mixRes)[k] \in -2^16 .. 2^16 - 1
      <4>1. w.layout = "CPE"
        BY <1>1, <2>2 DEF Chans
      <4> QED
        BY <1>1, <1>2, <4>1 DEF Enc!Proper
    <3>3. SignedRange(15 + 2) = -2^16 .. 2^16 - 1
      BY DEF SignedRange
    <3> QED
      BY <2>2, <3>1, <3>2, <3>3
  <2> QED
    BY <1>2, <2>1, <2>2
<1>4. DOMAIN x = 1 .. n /\ x = [j \in 1 .. n |-> x[j]]
  BY DEF Signal
<1>5. n \in Nat
  BY <1>2
<1> HIDE DEF n, x
<1> DEFINE R == SignedRange(15 + chans)
<1>7. x \in Seq(R) /\ Len(x) = n
  <2> HIDE DEF R
  <2>1. x \in [1 .. n -> R]
    BY <1>3, <1>4 DEF R
  <2> QED
    BY <1>5, <2>1
<1>8. 15 + chans \in 16 .. 17
  BY <1>2
<1> QED
  BY <1>2, <1>7, <1>8 DEF CanCode, x

-----------------------------------------------------------------------------
(* An element.                                                             *)

\* There is a recursion that joins F.
LEMMA JoinedExists ==
    ASSUME NEW n \in Nat, NEW F \in [1 .. n -> Seq(Bits)]
    PROVE  \E g : g = [i \in 0 .. n |-> IF i = 0 THEN <<>> ELSE g[i - 1] \o F[i]]
<1>1. PICK g : AreJoined(g, F, n)
  BY JoinedOnce
<1> QED
  BY <1>1, JoinedRecursion

RawBits(audio, first, chans, j) ==
    [k \in 1 .. chans |-> Enc!BitsOf(audio[j][first + k - 1], 16)]
Descriptions(w, chans) == [k \in 1 .. chans |-> Enc!Description(w.prm[k])]
Code(audio, first, chans, w, k) ==
    Enc!Channel(Signal(audio, first, chans, w, k), w.prm[k], 15 + chans)
Codes(audio, first, chans, w) == [k \in 1 .. chans |-> Code(audio, first, chans, w, k)]

LEMMA ElementBitsIn ==
    ASSUME NEW audio, NEW first, NEW chans, NEW w, InFrame(audio, first, chans, w)
    PROVE  /\ chans \in 1 .. 2
           /\ Descriptions(w, chans) \in [1 .. chans -> Seq(Bits)]
           /\ Codes(audio, first, chans, w) \in [1 .. chans -> Seq(Bits)]
           /\ \A j \in 1 .. Len(audio) : /\ RawBits(audio, first, chans, j) \in [1 .. chans -> Seq(Bits)]
                                         /\ \A k \in 1 .. chans : Len(RawBits(audio, first, chans, j)[k]) = 16
<1>1. /\ Enc!Proper(audio, w) /\ chans = Chans(w) /\ first \in 1 .. 2
      /\ (chans = 2 => first = 1)
  BY DEF InFrame
<1>2. chans \in 1 .. 2
  BY <1>1, ProperIs
<1>3. \A k \in 1 .. chans : k \in 1 .. 2 /\ first + k - 1 \in 1 .. 2
  BY <1>1, <1>2
<1>4. \A k \in 1 .. chans : Enc!Description(w.prm[k]) \in Seq(Bits)
  <2>1. \A k \in 1 .. 2 : Enc!Fits(w.prm[k])
    BY <1>1, ProperIs, Zenon
  <2>2. \A k \in 1 .. chans : Enc!Fits(w.prm[k])
    BY <1>3, <2>1, Zenon
  <2> QED
    BY <2>2, DescriptionStands, Zenon
<1>5. \A k \in 1 .. chans : Code(audio, first, chans, w, k) \in Seq(Bits)
  <2> SUFFICES ASSUME NEW k \in 1 .. chans PROVE Code(audio, first, chans, w, k) \in Seq(Bits)
    OBVIOUS
  <2>1. CanCode(Signal(audio, first, chans, w, k), w.prm[k], 15 + chans)
    BY SignalIs, Zenon
  <2>2. CodedChannel(Signal(audio, first, chans, w, k), w.prm[k], 15 + chans)
    BY <2>1, CodedChannelIs, Zenon
  <2> QED
    BY <2>2, Zenon DEF CodedChannel, Code
<1>6. ASSUME NEW j \in 1 .. Len(audio), NEW k \in 1 .. chans
      PROVE  /\ Enc!BitsOf(audio[j][first + k - 1], 16) \in Seq(Bits)
             /\ Len(Enc!BitsOf(audio[j][first + k - 1], 16)) = 16
  <2>1. audio[j][first + k - 1] \in Int16
    BY <1>1, <1>3, ProperIs, Zenon
  <2>2. audio[j][first + k - 1] \in Int
    <3>1. \A y \in Int16 : y \in Int
      BY DEF Int16
    <3> QED
      BY <2>1, <3>1, Zenon
  <2> QED
    BY <2>2, BitsOfIn
<1>7. Descriptions(w, chans) \in [1 .. chans -> Seq(Bits)]
  BY <1>4, Zenon DEF Descriptions
<1>8. Codes(audio, first, chans, w) \in [1 .. chans -> Seq(Bits)]
  BY <1>5, Zenon DEF Codes
<1>9. ASSUME NEW j \in 1 .. Len(audio)
      PROVE  /\ RawBits(audio, first, chans, j) \in [1 .. chans -> Seq(Bits)]
             /\ \A k \in 1 .. chans : Len(RawBits(audio, first, chans, j)[k]) = 16
  BY <1>6, Zenon DEF RawBits
<1> QED
  BY <1>2, <1>7, <1>8, <1>9, Zenon

\* An element is its header and its samples, or its parameters and its channels.
ElementOf(x, audio, first, chans, w, raws, descs, codes, R) ==
    /\ x = Enc!Header(chans - 1, Len(audio), w)
           \o (IF w.escape THEN raws
               ELSE ((Enc!BitsOf(w.mixBits, 8) \o Enc!BitsOf(w.mixRes, 8)) \o descs) \o codes)
    /\ R \in [1 .. Len(audio) -> Seq(Bits)] /\ IsJoined(raws, R, Len(audio))
    /\ \A j \in 1 .. Len(audio) : IsJoined(R[j], RawBits(audio, first, chans, j), chans)
    /\ IsJoined(descs, Descriptions(w, chans), chans)
    /\ IsJoined(codes, Codes(audio, first, chans, w), chans)
ElementIs(x, audio, first, chans, w) ==
    \E raws, descs, codes, R : ElementOf(x, audio, first, chans, w, raws, descs, codes, R)

LEMMA ElementBy ==
    ASSUME NEW audio, NEW first, NEW chans, NEW w, InFrame(audio, first, chans, w)
    PROVE  ElementIs(Enc!Element(audio, first, chans, w), audio, first, chans, w)
<1> DEFINE n == Len(audio)
           D == Descriptions(w, chans)
           C == Codes(audio, first, chans, w)
           BodyD(g) == [i \in 0 .. chans |-> IF i = 0 THEN <<>>
                                              ELSE g[i - 1] \o Enc!Description(w.prm[i])]
           BodyC(g) == [i \in 0 .. chans |-> IF i = 0 THEN <<>>
                         ELSE g[i - 1] \o Enc!Channel([j \in 1 .. Len(audio) |->
        (IF chans = 2 THEN Enc!Mix(audio[j], w.mixBits, w.mixRes) ELSE audio[j])[first + i - 1]], w.prm[i], 15 + chans)]
           BodyK(g, j) == [i \in 0 .. chans |-> IF i = 0 THEN <<>>
                                ELSE g[i - 1] \o Enc!BitsOf(audio[j][first + i - 1], 16)]
           ud == CHOOSE g : g = BodyD(g)
           uc == CHOOSE g : g = BodyC(g)
           uk(j) == CHOOSE g : g = BodyK(g, j)
           BodyR(g) == [i \in 0 .. Len(audio) |-> IF i = 0 THEN <<>> ELSE g[i - 1] \o uk(i)[chans]]
           ur == CHOOSE g : g = BodyR(g)
<1>1. Enc!Element(audio, first, chans, w)
        = Enc!Header(chans - 1, Len(audio), w)
          \o (IF w.escape THEN ur[Len(audio)]
              ELSE ((Enc!BitsOf(w.mixBits, 8) \o Enc!BitsOf(w.mixRes, 8)) \o ud[chans]) \o uc[chans])
  BY Zenon DEF Enc!Element, Enc!Joined
<1>2. /\ chans \in 1 .. 2 /\ chans \in Nat /\ n \in Nat
      /\ D \in [1 .. chans -> Seq(Bits)] /\ C \in [1 .. chans -> Seq(Bits)]
      /\ \A j \in 1 .. n : RawBits(audio, first, chans, j) \in [1 .. chans -> Seq(Bits)]
  <2>1. /\ chans \in 1 .. 2
        /\ D \in [1 .. chans -> Seq(Bits)] /\ C \in [1 .. chans -> Seq(Bits)]
        /\ \A j \in 1 .. n : RawBits(audio, first, chans, j) \in [1 .. chans -> Seq(Bits)]
    BY ElementBitsIn, Zenon
  <2>2. chans \in Nat
    BY <2>1
  <2>3. n \in Nat
    <3>1. Enc!Proper(audio, w)
      BY DEF InFrame
    <3> QED
      BY <3>1, ProperIs
  <2> QED
    BY <2>1, <2>2, <2>3, Zenon
<1>3. IsJoined(ud[chans], D, chans)
  <2>1. D \in [1 .. chans -> Seq(Bits)] /\ chans \in Nat
    BY <1>2
  <2>2. \A g : BodyD(g) = [i \in 0 .. chans |-> IF i = 0 THEN <<>> ELSE g[i - 1] \o D[i]]
    <3> SUFFICES ASSUME NEW g, NEW i \in 0 .. chans
                 PROVE  BodyD(g)[i] = IF i = 0 THEN <<>> ELSE g[i - 1] \o D[i]
      BY Zenon
    <3>1. CASE i = 0
      BY <3>1
    <3>2. CASE i # 0
      <4>1. i \in 1 .. chans
        BY <2>1, <3>2
      <4>2. D[i] = Enc!Description(w.prm[i])
        BY <4>1, Zenon DEF Descriptions
      <4> QED
        BY <3>2, <4>2, Zenon
    <3> QED
      BY <3>1, <3>2
  <2> HIDE DEF D, BodyD
  <2>3. PICK g : g = [i \in 0 .. chans |-> IF i = 0 THEN <<>> ELSE g[i - 1] \o D[i]]
    BY <2>1, JoinedExists
  <2>4. BodyD(ud) = ud
    BY <2>2, <2>3, Zenon DEF ud
  <2> HIDE DEF ud
  <2>5. ud = [i \in 0 .. chans |-> IF i = 0 THEN <<>> ELSE ud[i - 1] \o D[i]]
    BY <2>2, <2>4, Zenon
  <2> QED
    BY <2>1, <2>5, JoinedUnique
<1>4. IsJoined(uc[chans], C, chans)
  <2>1. C \in [1 .. chans -> Seq(Bits)] /\ chans \in Nat
    BY <1>2
  <2>2. \A g : BodyC(g) = [i \in 0 .. chans |-> IF i = 0 THEN <<>> ELSE g[i - 1] \o C[i]]
    <3> SUFFICES ASSUME NEW g, NEW i \in 0 .. chans
                 PROVE  BodyC(g)[i] = IF i = 0 THEN <<>> ELSE g[i - 1] \o C[i]
      BY Zenon
    <3>1. CASE i = 0
      BY <3>1
    <3>2. CASE i # 0
      <4>1. i \in 1 .. chans
        BY <2>1, <3>2
      <4>2. C[i] = Code(audio, first, chans, w, i)
        BY <4>1, Zenon DEF Codes
      <4> QED
        BY <3>2, <4>2, Zenon DEF Code, Signal
    <3> QED
      BY <3>1, <3>2
  <2> HIDE DEF C, BodyC
  <2>3. PICK g : g = [i \in 0 .. chans |-> IF i = 0 THEN <<>> ELSE g[i - 1] \o C[i]]
    BY <2>1, JoinedExists
  <2>4. BodyC(uc) = uc
    BY <2>2, <2>3, Zenon DEF uc
  <2> HIDE DEF uc
  <2>5. uc = [i \in 0 .. chans |-> IF i = 0 THEN <<>> ELSE uc[i - 1] \o C[i]]
    BY <2>2, <2>4, Zenon
  <2> QED
    BY <2>1, <2>5, JoinedUnique
<1>5. ASSUME NEW j \in 1 .. n
      PROVE  IsJoined(uk(j)[chans], RawBits(audio, first, chans, j), chans)
  <2> DEFINE K == RawBits(audio, first, chans, j)
  <2>1. IsJoined(uk(j)[chans], K, chans)
    <3>1. K \in [1 .. chans -> Seq(Bits)] /\ chans \in Nat
      BY <1>2
    <3>2. \A g : BodyK(g, j) = [i \in 0 .. chans |-> IF i = 0 THEN <<>> ELSE g[i - 1] \o K[i]]
      <4> SUFFICES ASSUME NEW g, NEW i \in 0 .. chans
                   PROVE  BodyK(g, j)[i] = IF i = 0 THEN <<>> ELSE g[i - 1] \o K[i]
        BY Zenon
      <4>1. CASE i = 0
        BY <4>1
      <4>2. CASE i # 0
        <5>1. i \in 1 .. chans
          BY <3>1, <4>2
        <5>2. K[i] = Enc!BitsOf(audio[j][first + i - 1], 16)
          BY <5>1, Zenon DEF RawBits
        <5> QED
          BY <4>2, <5>2, Zenon
      <4> QED
        BY <4>1, <4>2
    <3> HIDE DEF K, BodyK
    <3>3. PICK g : g = [i \in 0 .. chans |-> IF i = 0 THEN <<>> ELSE g[i - 1] \o K[i]]
      BY <3>1, JoinedExists
    <3>4. BodyK(uk(j), j) = uk(j)
      <4>1. BodyK(g, j) = g
        BY <3>2, <3>3, Zenon
      <4> QED
        BY <4>1 DEF uk
    <3> HIDE DEF uk
    <3>5. uk(j) = [i \in 0 .. chans |-> IF i = 0 THEN <<>> ELSE uk(j)[i - 1] \o K[i]]
      BY <3>2, <3>4, Zenon
    <3> QED
      BY <3>1, <3>5, JoinedUnique
  <2> QED
    BY <2>1
<1> DEFINE R == [j \in 1 .. n |-> uk(j)[chans]]
<1>6. R \in [1 .. n -> Seq(Bits)]
  <2> SUFFICES ASSUME NEW j \in 1 .. n PROVE uk(j)[chans] \in Seq(Bits)
    BY Zenon
  <2> HIDE DEF uk
  <2>1. IsJoined(uk(j)[chans], RawBits(audio, first, chans, j), chans)
    BY <1>5
  <2>2. PICK g : AreJoined(g, RawBits(audio, first, chans, j), chans) /\ uk(j)[chans] = g[chans]
    BY <2>1, Zenon DEF IsJoined
  <2>3. g \in [0 .. chans -> Seq(Bits)] /\ chans \in 0 .. chans
    BY <1>2, <2>2 DEF AreJoined
  <2> QED
    BY <2>2, <2>3
<1>7. IsJoined(ur[n], R, n)
  <2>1. R \in [1 .. n -> Seq(Bits)] /\ n \in Nat
    BY <1>2, <1>6
  <2> HIDE DEF uk
  <2>2. \A g : BodyR(g) = [i \in 0 .. n |-> IF i = 0 THEN <<>> ELSE g[i - 1] \o R[i]]
    <3> SUFFICES ASSUME NEW g, NEW i \in 0 .. n
                 PROVE  BodyR(g)[i] = IF i = 0 THEN <<>> ELSE g[i - 1] \o R[i]
      BY Zenon
    <3>1. CASE i = 0
      BY <3>1
    <3>2. CASE i # 0
      <4>1. i \in 1 .. n
        BY <2>1, <3>2
      <4>2. R[i] = uk(i)[chans]
        BY <4>1, Zenon
      <4> QED
        BY <3>2, <4>2, Zenon
    <3> QED
      BY <3>1, <3>2
  <2> HIDE DEF n, R, BodyR
  <2>3. PICK g : g = [i \in 0 .. n |-> IF i = 0 THEN <<>> ELSE g[i - 1] \o R[i]]
    BY <2>1, JoinedExists
  <2>4. BodyR(ur) = ur
    BY <2>2, <2>3, Zenon DEF ur
  <2> HIDE DEF ur
  <2>5. ur = [i \in 0 .. n |-> IF i = 0 THEN <<>> ELSE ur[i - 1] \o R[i]]
    BY <2>2, <2>4, Zenon
  <2> QED
    BY <2>1, <2>5, JoinedUnique
<1> HIDE DEF ur, ud, uc, uk, BodyR, BodyD, BodyC, BodyK
<1>8. ElementOf(Enc!Element(audio, first, chans, w), audio, first, chans, w,
                ur[n], ud[chans], uc[chans], R)
  <2>1. \A j \in 1 .. n : IsJoined(R[j], RawBits(audio, first, chans, j), chans)
    BY <1>5
  <2> QED
    BY <1>1, <1>3, <1>4, <1>6, <1>7, <2>1, Zenon DEF ElementOf
<1> QED
  BY <1>8, Zenon DEF ElementIs

\* One or two sequences joined.
FewStand(F, n, buf, p) ==
    \A k \in 1 .. n : Stands(F[k], buf, p + (IF k = 1 THEN 0 ELSE Len(F[1])))

LEMMA JoinedFew ==
    ASSUME NEW n \in 1 .. 2, NEW F \in [1 .. n -> Seq(Bits)], NEW x, IsJoined(x, F, n)
    PROVE  /\ x \in Seq(Bits)
           /\ Len(x) = (IF n = 1 THEN 0 ELSE Len(F[1])) + Len(F[n])
           /\ \A buf \in Seq(Bits) : \A p \in Nat : Stands(x, buf, p) => FewStand(F, n, buf, p)
<1>1. CASE n = 1
  <2>1. F[1] \in Seq(Bits)
    <3>1. 1 \in 1 .. n
      BY <1>1
    <3> QED
      BY <3>1
  <2>2. x = F[1]
    BY <1>1, <2>1, JoinedOne
  <2>3. Len(x) = 0 + Len(F[n])
    <3>1. Len(F[1]) \in Nat
      BY <2>1
    <3> QED
      BY <1>1, <2>2, <3>1
  <2>4. ASSUME NEW buf \in Seq(Bits), NEW p \in Nat, Stands(x, buf, p)
        PROVE  FewStand(F, n, buf, p)
    <3>1. \A k \in 1 .. n : k = 1
      BY <1>1
    <3>2. p + 0 = p
      OBVIOUS
    <3> QED
      BY <2>2, <2>4, <3>1, <3>2 DEF FewStand
  <2>5. x \in Seq(Bits) /\ Len(x) = (IF n = 1 THEN 0 ELSE Len(F[1])) + Len(F[n])
    BY <1>1, <2>1, <2>2, <2>3
  <2> QED
    BY <2>4, <2>5, Zenon
<1>2. CASE n = 2
  <2>1. F[1] \in Seq(Bits) /\ F[2] \in Seq(Bits)
    <3>1. 1 \in 1 .. n /\ 2 \in 1 .. n
      BY <1>2
    <3> QED
      BY <3>1
  <2>2. x = F[1] \o F[2]
    BY <1>2, <2>1, JoinedTwo
  <2>3. IsPair(x, F[1], Len(F[1]), F[2])
    BY <2>1, <2>2 DEF IsPair
  <2>4. x \in Seq(Bits) /\ Len(x) = Len(F[1]) + Len(F[2])
    BY <2>1, <2>2, ConcatIs
  <2>5. ASSUME NEW buf \in Seq(Bits), NEW p \in Nat, Stands(x, buf, p)
        PROVE  FewStand(F, n, buf, p)
    <3>1. Stands(F[1], buf, p) /\ Stands(F[2], buf, p + Len(F[1]))
      BY <2>3, <2>5, PairStands
    <3>2. \A k \in 1 .. n : k = 1 \/ k = 2
      BY <1>2
    <3>3. p + 0 = p /\ 2 # 1
      OBVIOUS
    <3> QED
      BY <3>1, <3>2, <3>3 DEF FewStand
  <2>6. Len(x) = (IF n = 1 THEN 0 ELSE Len(F[1])) + Len(F[n])
    BY <1>2, <2>4
  <2> QED
    BY <2>4, <2>5, <2>6, Zenon
<1>3. n = 1 \/ n = 2
  OBVIOUS
<1> QED
  BY <1>1, <1>2, <1>3, Zenon

\* The samples of an escaped element, one after the other.
RawAt(chans, j, k, B) == B + 16 * (chans * (j - 1) + (k - 1))
RawStands(audio, first, chans, buf, B) ==
    \A j \in 1 .. Len(audio) : \A k \in 1 .. chans :
        Stands(Enc!BitsOf(audio[j][first + k - 1], 16), buf, RawAt(chans, j, k, B))

LEMMA RawIs ==
    ASSUME NEW audio, NEW first, NEW chans, NEW w, InFrame(audio, first, chans, w),
           NEW raws, NEW R \in [1 .. Len(audio) -> Seq(Bits)], IsJoined(raws, R, Len(audio)),
           \A j \in 1 .. Len(audio) : IsJoined(R[j], RawBits(audio, first, chans, j), chans)
    PROVE  /\ raws \in Seq(Bits) /\ Len(raws) = 16 * chans * Len(audio)
           /\ \A buf \in Seq(Bits) : \A B \in Nat :
                 Stands(raws, buf, B) => RawStands(audio, first, chans, buf, B)
<1> DEFINE n == Len(audio)
           c == 16
           K(j) == RawBits(audio, first, chans, j)
<1>1. chans \in 1 .. 2 /\ \A j \in 1 .. n : /\ K(j) \in [1 .. chans -> Seq(Bits)]
                                            /\ \A k \in 1 .. chans : Len(K(j)[k]) = c
  BY ElementBitsIn, Zenon
<1>2. \A j \in 1 .. n : \A k \in 1 .. chans : K(j)[k] = Enc!BitsOf(audio[j][first + k - 1], 16)
  BY DEF RawBits
<1>3. n \in Nat /\ c \in Nat /\ chans \in Nat
  <2>1. Enc!Proper(audio, w)
    BY DEF InFrame
  <2> QED
    BY <1>1, <2>1, ProperIs
<1>4. R \in [1 .. n -> Seq(Bits)] /\ IsJoined(raws, R, n)
  OBVIOUS
<1>5. \A j \in 1 .. n : IsJoined(R[j], K(j), chans)
  OBVIOUS
<1> HIDE DEF n, c, K
<1>6. ASSUME NEW j \in 1 .. n
      PROVE  /\ Len(R[j]) = c * chans
             /\ \A buf \in Seq(Bits) : \A p \in Nat :
                   Stands(R[j], buf, p) => PartsStand(K(j), chans, c, buf, p)
  <2>1. IsJoined(R[j], K(j), chans) /\ K(j) \in [1 .. chans -> Seq(Bits)]
    BY <1>1, <1>5
  <2>2. \A k \in 1 .. chans : Len(K(j)[k]) = c
    BY <1>1
  <2> QED
    BY <1>3, <2>1, <2>2, JoinedIs
<1> DEFINE len == c * chans
<1>7. len \in Nat /\ \A j \in 1 .. n : Len(R[j]) = len
  BY <1>1, <1>3, <1>6 DEF c
<1> HIDE DEF len
<1>8. /\ raws \in Seq(Bits) /\ Len(raws) = len * n
      /\ \A buf \in Seq(Bits) : \A p \in Nat : Stands(raws, buf, p) => PartsStand(R, n, len, buf, p)
  BY <1>3, <1>4, <1>7, JoinedIs
<1>9. ASSUME NEW buf \in Seq(Bits), NEW B \in Nat, Stands(raws, buf, B)
      PROVE  RawStands(audio, first, chans, buf, B)
  <2> SUFFICES ASSUME NEW j \in 1 .. n, NEW k \in 1 .. chans
               PROVE  Stands(Enc!BitsOf(audio[j][first + k - 1], 16), buf, RawAt(chans, j, k, B))
    BY DEF RawStands, n
  <2>1. Stands(R[j], buf, B + len * (j - 1))
    BY <1>8, <1>9 DEF PartsStand
  <2>2. B + len * (j - 1) \in Nat
    <3>1. CASE chans = 1
      BY <1>3, <3>1 DEF len, c
    <3>2. CASE chans = 2
      BY <1>3, <3>2 DEF len, c
    <3> QED
      BY <1>1, <3>1, <3>2
  <2>3. PartsStand(K(j), chans, c, buf, B + len * (j - 1))
    BY <1>6, <2>1, <2>2
  <2>4. Stands(K(j)[k], buf, B + len * (j - 1) + c * (k - 1))
    BY <2>3 DEF PartsStand
  <2>5. B + len * (j - 1) + c * (k - 1) = RawAt(chans, j, k, B)
    <3>1. k \in Int /\ j \in Int
      BY <1>1
    <3>2. CASE chans = 1
      BY <1>3, <3>1, <3>2 DEF len, c, RawAt
    <3>3. CASE chans = 2
      BY <1>3, <3>1, <3>3 DEF len, c, RawAt
    <3> QED
      BY <1>1, <3>2, <3>3
  <2> QED
    BY <1>2, <2>4, <2>5
<1> QED
  BY <1>8, <1>9 DEF len, c, n

\* Where the parts of an element stand whose body starts at B.
DescAt(w, k, B)          == B + 16 + (IF k = 1 THEN 0 ELSE DescriptionSize(w.prm[1]))
ParametersEnd(w, chans, B) == DescAt(w, chans, B) + DescriptionSize(w.prm[chans])
CodeAt(audio, first, chans, w, k, B) ==
    ParametersEnd(w, chans, B) + (IF k = 1 THEN 0 ELSE Len(Code(audio, first, chans, w, 1)))
BodyEnd(audio, first, chans, w, B) ==
    IF w.escape THEN B + 16 * chans * Len(audio)
    ELSE CodeAt(audio, first, chans, w, chans, B) + Len(Code(audio, first, chans, w, chans))

BodyStands(audio, first, chans, w, buf, B) ==
    IF w.escape THEN RawStands(audio, first, chans, buf, B)
    ELSE /\ Stands(Enc!BitsOf(w.mixBits, 8), buf, B)
         /\ Stands(Enc!BitsOf(w.mixRes, 8), buf, B + 8)
         /\ \A k \in 1 .. chans :
               /\ Stands(Enc!Description(w.prm[k]), buf, DescAt(w, k, B))
               /\ Stands(Code(audio, first, chans, w, k), buf, CodeAt(audio, first, chans, w, k, B))

\* The parts have lengths.
LEMMA PartSizes ==
    ASSUME NEW audio, NEW first, NEW chans, NEW w, InFrame(audio, first, chans, w)
    PROVE  /\ chans \in 1 .. 2 /\ Len(audio) \in Nat /\ HeaderSize(w) \in Nat
           /\ \A k \in 1 .. chans : /\ DescriptionSize(w.prm[k]) \in Nat
                                    /\ Len(Code(audio, first, chans, w, k)) \in Nat
<1> DEFINE C == Codes(audio, first, chans, w)
<1>1. chans \in 1 .. 2 /\ C \in [1 .. chans -> Seq(Bits)]
  BY ElementBitsIn, Zenon
<1>2. Enc!Proper(audio, w)
  BY DEF InFrame
<1>3. Len(audio) \in Nat /\ HeaderSize(w) \in Nat
  BY <1>2, ProperIs DEF HeaderSize
<1>4. ASSUME NEW k \in 1 .. chans PROVE DescriptionSize(w.prm[k]) \in Nat
  <2>1. k \in 1 .. 2
    BY <1>1
  <2>2. Enc!Fits(w.prm[k])
    BY <1>2, <2>1, ProperIs
  <2>3. Len(w.prm[k].a) \in 0 .. 30
    BY <2>2, FitsIs
  <2> QED
    BY <2>3 DEF DescriptionSize
<1>5. ASSUME NEW k \in 1 .. chans PROVE Len(Code(audio, first, chans, w, k)) \in Nat
  <2>1. C[k] = Code(audio, first, chans, w, k)
    BY DEF Codes
  <2>2. C[k] \in Seq(Bits)
    BY <1>1
  <2> QED
    BY <2>1, <2>2
<1> QED
  BY <1>1, <1>3, <1>4, <1>5, Zenon

\* What is laid out from B on is laid out as from 0.
LEMMA BodyMoves ==
    ASSUME NEW audio, NEW first, NEW chans, NEW w, InFrame(audio, first, chans, w), NEW B \in Nat
    PROVE  /\ BodyEnd(audio, first, chans, w, 0) \in Nat
           /\ BodyEnd(audio, first, chans, w, B) = B + BodyEnd(audio, first, chans, w, 0)
<1> DEFINE d1 == DescriptionSize(w.prm[1])
           dn == DescriptionSize(w.prm[chans])
           c1 == Len(Code(audio, first, chans, w, 1))
           cn == Len(Code(audio, first, chans, w, chans))
           n == Len(audio)
           m == 16 * chans * n
<1>1. /\ chans \in 1 .. 2 /\ n \in Nat
      /\ \A k \in 1 .. chans : /\ DescriptionSize(w.prm[k]) \in Nat
                               /\ Len(Code(audio, first, chans, w, k)) \in Nat
  BY PartSizes, Zenon
<1>2. d1 \in Nat /\ dn \in Nat /\ c1 \in Nat /\ cn \in Nat
  <2>1. 1 \in 1 .. chans /\ chans \in 1 .. chans
    BY <1>1
  <2> QED
    BY <1>1, <2>1
<1>3. m \in Nat
  <2>1. CASE chans = 1
    BY <1>1, <2>1
  <2>2. CASE chans = 2
    BY <1>1, <2>2
  <2> QED
    BY <1>1, <2>1, <2>2
<1>4. CASE w.escape
  <2> HIDE DEF m
  <2>1. BodyEnd(audio, first, chans, w, 0) = 0 + m /\ BodyEnd(audio, first, chans, w, B) = B + m
    BY <1>4 DEF BodyEnd, m
  <2> QED
    BY <1>3, <2>1
<1>5. CASE ~w.escape
  <2>1. /\ BodyEnd(audio, first, chans, w, 0)
             = (((0 + 16 + (IF chans = 1 THEN 0 ELSE d1)) + dn) + (IF chans = 1 THEN 0 ELSE c1)) + cn
        /\ BodyEnd(audio, first, chans, w, B)
             = (((B + 16 + (IF chans = 1 THEN 0 ELSE d1)) + dn) + (IF chans = 1 THEN 0 ELSE c1)) + cn
    BY <1>5, Zenon DEF BodyEnd, CodeAt, ParametersEnd, DescAt
  <2> HIDE DEF d1, dn, c1, cn
  <2> QED
    BY <1>2, <2>1
<1> QED
  BY <1>4, <1>5

\* The body, when it is compressed.
LEMMA CompressedIs ==
    ASSUME NEW audio, NEW first, NEW chans, NEW w, InFrame(audio, first, chans, w), ~w.escape,
           NEW x, NEW descs, NEW codes,
           x = ((Enc!BitsOf(w.mixBits, 8) \o Enc!BitsOf(w.mixRes, 8)) \o descs) \o codes,
           IsJoined(descs, Descriptions(w, chans), chans),
           IsJoined(codes, Codes(audio, first, chans, w), chans)
    PROVE  /\ x \in Seq(Bits) /\ Len(x) = BodyEnd(audio, first, chans, w, 0)
           /\ \A buf \in Seq(Bits) : \A B \in Nat :
                 Stands(x, buf, B) => BodyStands(audio, first, chans, w, buf, B)
<1> DEFINE M == Enc!BitsOf(w.mixBits, 8)
           N == Enc!BitsOf(w.mixRes, 8)
           MN == M \o N
           h == MN \o descs
           D == Descriptions(w, chans)
           C == Codes(audio, first, chans, w)
           d1 == DescriptionSize(w.prm[1])
           dn == DescriptionSize(w.prm[chans])
           c1 == Len(Code(audio, first, chans, w, 1))
           cn == Len(Code(audio, first, chans, w, chans))
<1>1. /\ chans \in 1 .. 2 /\ D \in [1 .. chans -> Seq(Bits)] /\ C \in [1 .. chans -> Seq(Bits)]
  BY ElementBitsIn, Zenon
<1>2. Enc!Proper(audio, w)
  BY DEF InFrame
<1>3. M \in Seq(Bits) /\ Len(M) = 8 /\ N \in Seq(Bits) /\ Len(N) = 8
  <2>1. w.mixBits \in Int /\ w.mixRes \in Int
    <3>1. w.mixBits \in 0 .. 255 /\ w.mixRes \in -128 .. 127
      BY <1>2, ProperIs
    <3>2. (\A y \in 0 .. 255 : y \in Int) /\ (\A y \in -128 .. 127 : y \in Int)
      OBVIOUS
    <3> QED
      BY <3>1, <3>2, ZenonT(40)
  <2> QED
    BY <2>1, BitsOfIn
<1>4. \A k \in 1 .. chans : D[k] = Enc!Description(w.prm[k]) /\ C[k] = Code(audio, first, chans, w, k)
  BY DEF Descriptions, Codes
<1>5. 1 \in 1 .. chans /\ chans \in 1 .. chans
  BY <1>1
<1>6. /\ \A k \in 1 .. chans : Len(D[k]) = DescriptionSize(w.prm[k])
      /\ Len(D[1]) = d1 /\ Len(D[chans]) = dn /\ Len(C[1]) = c1 /\ Len(C[chans]) = cn
  <2>1. ASSUME NEW k \in 1 .. chans PROVE Len(D[k]) = DescriptionSize(w.prm[k])
    <3>1. k \in 1 .. 2
      BY <1>1
    <3>2. Enc!Fits(w.prm[k])
      BY <1>2, <3>1, ProperIs
    <3> QED
      BY <1>4, <3>2, DescriptionStands
  <2> QED
    BY <1>4, <1>5, <2>1
<1>7. d1 \in Nat /\ dn \in Nat /\ c1 \in Nat /\ cn \in Nat
  <2>1. D[1] \in Seq(Bits) /\ D[chans] \in Seq(Bits) /\ C[1] \in Seq(Bits) /\ C[chans] \in Seq(Bits)
    BY <1>1, <1>5
  <2>2. Len(D[1]) \in Nat /\ Len(D[chans]) \in Nat /\ Len(C[1]) \in Nat /\ Len(C[chans]) \in Nat
    BY <2>1
  <2> QED
    BY <1>6, <2>2
<1> HIDE DEF M, N, D, C, d1, dn, c1, cn
<1>8. /\ descs \in Seq(Bits)
      /\ Len(descs) = (IF chans = 1 THEN 0 ELSE d1) + dn
      /\ \A buf \in Seq(Bits) : \A p \in Nat : Stands(descs, buf, p) => FewStand(D, chans, buf, p)
  <2>1. IsJoined(descs, D, chans)
    BY DEF D
  <2>2. Len(descs) = (IF chans = 1 THEN 0 ELSE Len(D[1])) + Len(D[chans])
    BY <1>1, <2>1, JoinedFew
  <2> QED
    BY <1>1, <1>6, <2>1, <2>2, JoinedFew
<1>9. /\ codes \in Seq(Bits)
      /\ Len(codes) = (IF chans = 1 THEN 0 ELSE c1) + cn
      /\ \A buf \in Seq(Bits) : \A p \in Nat : Stands(codes, buf, p) => FewStand(C, chans, buf, p)
  <2>1. IsJoined(codes, C, chans)
    BY DEF C
  <2>2. Len(codes) = (IF chans = 1 THEN 0 ELSE Len(C[1])) + Len(C[chans])
    BY <1>1, <2>1, JoinedFew
  <2> QED
    BY <1>1, <1>6, <2>1, <2>2, JoinedFew
<1>10. IsPair(MN, M, 8, N)
  BY <1>3 DEF IsPair
<1>11. x = h \o codes
  BY DEF M, N
<1> HIDE DEF MN
<1>12. MN \in Seq(Bits) /\ Len(MN) = 16
  <2>1. MN \in Seq(Bits) /\ Len(MN) = 8 + Len(N)
    BY <1>10, PairIs
  <2> QED
    BY <1>3, <2>1
<1>13. IsPair(h, MN, 16, descs)
  BY <1>8, <1>12 DEF IsPair
<1> HIDE DEF h
<1> DEFINE m == 16 + ((IF chans = 1 THEN 0 ELSE d1) + dn)
<1>14. h \in Seq(Bits) /\ Len(h) = m
  <2>1. h \in Seq(Bits) /\ Len(h) = 16 + Len(descs)
    BY <1>13, PairIs
  <2> QED
    BY <1>8, <2>1
<1>15. m \in Nat
  BY <1>7
<1> HIDE DEF m
<1>16. IsPair(x, h, m, codes)
  BY <1>9, <1>11, <1>14 DEF IsPair
<1>17. x \in Seq(Bits) /\ Len(x) = m + Len(codes)
  <2>1. x \in Seq(Bits) /\ Len(x) = Len(h) + Len(codes)
    BY <1>9, <1>11, <1>14, ConcatIs
  <2> QED
    BY <1>14, <2>1
<1>18. Len(x) = BodyEnd(audio, first, chans, w, 0)
  <2>1. BodyEnd(audio, first, chans, w, 0)
          = (((0 + 16 + (IF chans = 1 THEN 0 ELSE d1)) + dn) + (IF chans = 1 THEN 0 ELSE c1)) + cn
    BY Zenon DEF BodyEnd, CodeAt, ParametersEnd, DescAt, d1, dn, c1, cn
  <2> QED
    BY <1>7, <1>9, <1>17, <2>1 DEF m
<1>19. ASSUME NEW buf \in Seq(Bits), NEW B \in Nat, Stands(x, buf, B)
       PROVE  BodyStands(audio, first, chans, w, buf, B)
  <2>1. Stands(h, buf, B) /\ Stands(codes, buf, B + m) /\ B + m \in Nat
    BY <1>15, <1>16, <1>19, PairStands
  <2>2. Stands(MN, buf, B) /\ Stands(descs, buf, B + 16)
    BY <1>13, <2>1, PairStands
  <2>3. Stands(M, buf, B) /\ Stands(N, buf, B + 8)
    BY <1>10, <2>2, PairStands
  <2>4. FewStand(D, chans, buf, B + 16) /\ FewStand(C, chans, buf, B + m)
    <3>1. B + 16 \in Nat
      OBVIOUS
    <3> QED
      BY <1>8, <1>9, <2>1, <2>2, <3>1
  <2>5. ASSUME NEW k \in 1 .. chans
        PROVE  /\ Stands(Enc!Description(w.prm[k]), buf, DescAt(w, k, B))
               /\ Stands(Code(audio, first, chans, w, k), buf, CodeAt(audio, first, chans, w, k, B))
    <3>1. Stands(D[k], buf, (B + 16) + (IF k = 1 THEN 0 ELSE Len(D[1])))
      BY <2>4 DEF FewStand
    <3>2. Stands(C[k], buf, (B + m) + (IF k = 1 THEN 0 ELSE Len(C[1])))
      BY <2>4 DEF FewStand
    <3>3. DescAt(w, k, B) = (B + 16) + (IF k = 1 THEN 0 ELSE Len(D[1]))
      BY <1>6 DEF DescAt, d1
    <3>4. CodeAt(audio, first, chans, w, k, B) = (B + m) + (IF k = 1 THEN 0 ELSE Len(C[1]))
      <4>1. CodeAt(audio, first, chans, w, k, B)
              = ((B + 16 + (IF chans = 1 THEN 0 ELSE d1)) + dn) + (IF k = 1 THEN 0 ELSE c1)
        BY Zenon DEF CodeAt, ParametersEnd, DescAt, d1, dn, c1
      <4> QED
        BY <1>6, <1>7, <4>1 DEF m
    <3> QED
      BY <1>4, <3>1, <3>2, <3>3, <3>4, Zenon
  <2> QED
    BY <2>3, <2>5, Zenon DEF BodyStands, M, N
<1> QED
  BY <1>17, <1>18, <1>19, Zenon

\* Where an element ends that stands at P.
ElementEnd(audio, first, chans, w, P) == BodyEnd(audio, first, chans, w, P + HeaderSize(w))
ElementParts(audio, first, chans, w, buf, P) ==
    /\ HeaderParts(chans - 1, Len(audio), w, buf, P)
    /\ BodyStands(audio, first, chans, w, buf, P + HeaderSize(w))

LEMMA ElementStands ==
    ASSUME NEW audio, NEW first, NEW chans, NEW w, InFrame(audio, first, chans, w)
    PROVE  /\ Enc!Element(audio, first, chans, w) \in Seq(Bits)
           /\ Len(Enc!Element(audio, first, chans, w)) = ElementEnd(audio, first, chans, w, 0)
           /\ \A buf \in Seq(Bits) : \A P \in Nat :
                 Stands(Enc!Element(audio, first, chans, w), buf, P)
                 => ElementParts(audio, first, chans, w, buf, P)
<1> DEFINE n == Len(audio)
           H == Enc!Header(chans - 1, n, w)
           z == HeaderSize(w)
           e == Enc!Element(audio, first, chans, w)
           h8 == Enc!BitsOf(w.mixBits, 8) \o Enc!BitsOf(w.mixRes, 8)
<1>1. PICK raws, descs, codes, R : ElementOf(e, audio, first, chans, w, raws, descs, codes, R)
  BY ElementBy, Zenon DEF ElementIs
<1> DEFINE y == (h8 \o descs) \o codes
           x == IF w.escape THEN raws ELSE y
<1>2. e = H \o x
  BY <1>1, Zenon DEF ElementOf
<1>3. Enc!Proper(audio, w) /\ chans = Chans(w) /\ chans \in 1 .. 2 /\ n \in Nat /\ w.escape \in BOOLEAN
  <2>1. Enc!Proper(audio, w) /\ chans = Chans(w)
    BY DEF InFrame
  <2> QED
    BY <2>1, ProperIs
<1>4. HeaderFits(chans - 1, n, w)
  <2>1. chans - 1 \in 0 .. 7
    BY <1>3
  <2>2. w.partial \in BOOLEAN /\ w.shifted \in {0, 3}
    BY <1>3, ProperIs
  <2> QED
    BY <1>3, <2>1, <2>2 DEF HeaderFits
<1>5. /\ H \in Seq(Bits) /\ Len(H) = z
      /\ \A buf \in Seq(Bits) : \A P \in Nat :
            Stands(H, buf, P) => HeaderParts(chans - 1, n, w, buf, P)
  BY <1>4, HeaderStands, Zenon
<1>6. z \in Nat
  BY DEF HeaderSize
<1> HIDE DEF n, H, z, e, h8
<1>7. /\ x \in Seq(Bits) /\ Len(x) = BodyEnd(audio, first, chans, w, 0)
      /\ \A buf \in Seq(Bits) : \A B \in Nat :
            Stands(x, buf, B) => BodyStands(audio, first, chans, w, buf, B)
  <2>1. CASE w.escape
    <3>1. x = raws
      BY <2>1
    <3> HIDE DEF x
    <3>2. /\ R \in [1 .. Len(audio) -> Seq(Bits)] /\ IsJoined(raws, R, Len(audio))
          /\ \A j \in 1 .. Len(audio) : IsJoined(R[j], RawBits(audio, first, chans, j), chans)
      BY <1>1, Zenon DEF ElementOf
    <3>3. /\ raws \in Seq(Bits) /\ Len(raws) = 16 * chans * Len(audio)
          /\ \A buf \in Seq(Bits) : \A B \in Nat :
                Stands(raws, buf, B) => RawStands(audio, first, chans, buf, B)
      BY <3>2, RawIs
    <3>4. BodyEnd(audio, first, chans, w, 0) = 0 + 16 * chans * Len(audio)
      BY <2>1 DEF BodyEnd
    <3>5. Len(raws) = BodyEnd(audio, first, chans, w, 0)
      <4>1. Len(raws) \in Nat
        BY <3>3
      <4> QED
        BY <3>3, <3>4, <4>1
    <3>6. \A buf, B : BodyStands(audio, first, chans, w, buf, B) = RawStands(audio, first, chans, buf, B)
      BY <2>1 DEF BodyStands
    <3> QED
      BY <3>1, <3>3, <3>5, <3>6, Zenon
  <2>2. CASE ~w.escape
    <3>1. x = y
      BY <2>2
    <3> HIDE DEF x
    <3>2. /\ IsJoined(descs, Descriptions(w, chans), chans)
          /\ IsJoined(codes, Codes(audio, first, chans, w), chans)
      BY <1>1, Zenon DEF ElementOf
    <3>3. /\ y \in Seq(Bits) /\ Len(y) = BodyEnd(audio, first, chans, w, 0)
          /\ \A buf \in Seq(Bits) : \A B \in Nat :
                Stands(y, buf, B) => BodyStands(audio, first, chans, w, buf, B)
      BY <2>2, <3>2, CompressedIs DEF h8
    <3> QED
      BY <3>1, <3>3, Zenon
  <2> QED
    BY <1>3, <2>1, <2>2
<1> HIDE DEF x
<1>8. IsPair(e, H, z, x)
  BY <1>2, <1>5, <1>7 DEF IsPair
<1>9. e \in Seq(Bits) /\ Len(e) = z + Len(x) /\ Len(x) \in Nat
  BY <1>8, PairIs
<1>10. Len(e) = ElementEnd(audio, first, chans, w, 0)
  <2>1. BodyEnd(audio, first, chans, w, z) = z + BodyEnd(audio, first, chans, w, 0)
    BY <1>6, BodyMoves
  <2>2. 0 + z = z
    BY <1>6
  <2> QED
    BY <1>7, <1>9, <2>1, <2>2 DEF ElementEnd, z
<1>11. ASSUME NEW buf \in Seq(Bits), NEW P \in Nat, Stands(e, buf, P)
       PROVE  ElementParts(audio, first, chans, w, buf, P)
  <2>1. Stands(H, buf, P) /\ Stands(x, buf, P + z)
    BY <1>8, <1>11, PairStands
  <2>2. P + z \in Nat
    BY <1>6
  <2> QED
    BY <1>5, <1>7, <2>1, <2>2, Zenon DEF ElementParts, z, n
<1> QED
  BY <1>9, <1>10, <1>11, Zenon DEF e

-----------------------------------------------------------------------------
(* A frame.                                                                *)

Elements(audio, w) == [i \in 1 .. 3 - Chans(w) |-> Enc!Element(audio, i, Chans(w), w)]

\* A frame is its elements, the END tag and the padding.
FrameIs(x, audio, w) ==
    \E e : /\ IsJoined(e, Elements(audio, w), 3 - Chans(w))
           /\ x = (e \o Enc!BitsOf(7, 3))
                  \o Enc!BitsOf(0, (-Len(e \o Enc!BitsOf(7, 3))) % 8)

\* The elements, by the channel each of them starts with.
LEMMA ElementsIn ==
    ASSUME NEW audio, NEW w, Enc!Proper(audio, w)
    PROVE  /\ Chans(w) \in 1 .. 2 /\ 3 - Chans(w) \in 1 .. 2
           /\ \A i \in 1 .. 3 - Chans(w) : InFrame(audio, i, Chans(w), w)
           /\ Elements(audio, w) \in [1 .. 3 - Chans(w) -> Seq(Bits)]
<1>1. Chans(w) \in 1 .. 2
  BY ProperIs
<1>2. 3 - Chans(w) \in 1 .. 2 /\ \A i \in 1 .. 3 - Chans(w) : i \in 1 .. 2 /\ (Chans(w) = 2 => i = 1)
  BY <1>1
<1>3. \A i \in 1 .. 3 - Chans(w) : InFrame(audio, i, Chans(w), w)
  BY <1>2, Zenon DEF InFrame
<1>4. \A i \in 1 .. 3 - Chans(w) : Enc!Element(audio, i, Chans(w), w) \in Seq(Bits)
  BY <1>3, ElementStands, Zenon
<1>5. Elements(audio, w) \in [1 .. 3 - Chans(w) -> Seq(Bits)]
  BY <1>4, Zenon DEF Elements
<1> QED
  BY <1>1, <1>2, <1>3, <1>5, Zenon

LEMMA FrameBy ==
    ASSUME NEW audio, NEW w, Enc!Proper(audio, w)
    PROVE  FrameIs(Enc!Frame(audio, w), audio, w)
<1> DEFINE n == 3 - Chans(w)
           E == Elements(audio, w)
           Body(g) == [i \in 0 .. n |-> IF i = 0 THEN <<>>
                                        ELSE g[i - 1] \o Enc!Element(audio, i, Chans(w), w)]
           u == CHOOSE g : g = Body(g)
<1>1. Enc!Frame(audio, w) = (u[n] \o Enc!BitsOf(7, 3))
                            \o Enc!BitsOf(0, (-Len(u[n] \o Enc!BitsOf(7, 3))) % 8)
  BY Zenon DEF Enc!Frame, Enc!Joined, Chans
<1>2. n \in Nat /\ E \in [1 .. n -> Seq(Bits)]
  <2>1. n \in 1 .. 2 /\ E \in [1 .. n -> Seq(Bits)]
    BY ElementsIn, Zenon
  <2> HIDE DEF n
  <2> QED
    BY <2>1
<1>3. \A i \in 1 .. n : E[i] = Enc!Element(audio, i, Chans(w), w)
  BY DEF Elements
<1> HIDE DEF n, E
<1>4. \A g : Body(g) = [i \in 0 .. n |-> IF i = 0 THEN <<>> ELSE g[i - 1] \o E[i]]
  <2> SUFFICES ASSUME NEW g, NEW i \in 0 .. n
               PROVE  Body(g)[i] = IF i = 0 THEN <<>> ELSE g[i - 1] \o E[i]
    BY Zenon
  <2>1. CASE i = 0
    BY <2>1
  <2>2. CASE i # 0
    <3>1. i \in 1 .. n
      BY <1>2, <2>2
    <3> QED
      BY <1>3, <2>2, <3>1
  <2> QED
    BY <2>1, <2>2
<1> HIDE DEF Body
<1>5. PICK g : g = [i \in 0 .. n |-> IF i = 0 THEN <<>> ELSE g[i - 1] \o E[i]]
  BY <1>2, JoinedExists
<1>6. Body(u) = u
  BY <1>4, <1>5, Zenon DEF u
<1> HIDE DEF u
<1>7. u = [i \in 0 .. n |-> IF i = 0 THEN <<>> ELSE u[i - 1] \o E[i]]
  BY <1>4, <1>6, Zenon
<1>8. IsJoined(u[n], E, n)
  BY <1>2, <1>7, JoinedUnique
<1> QED
  BY <1>1, <1>8, Zenon DEF FrameIs, n, E

\* Where the element starts that holds the c-th channel, and where the END tag does.
StartOf(audio, w, c) ==
    IF c = 0 THEN 0
    ELSE IF c = Chans(w) THEN ElementEnd(audio, 1, Chans(w), w, 0)
    ELSE ElementEnd(audio, 2, 1, w, ElementEnd(audio, 1, 1, w, 0))

FrameParts(audio, w, buf) ==
    /\ \A c \in 0 .. 2 - Chans(w) :
          ElementParts(audio, c + 1, Chans(w), w, buf, StartOf(audio, w, c))
    /\ Stands(Enc!BitsOf(7, 3), buf, StartOf(audio, w, 2))

LEMMA EndMoves ==
    ASSUME NEW audio, NEW first, NEW chans, NEW w, InFrame(audio, first, chans, w), NEW P \in Nat
    PROVE  /\ ElementEnd(audio, first, chans, w, 0) \in Nat
           /\ ElementEnd(audio, first, chans, w, P) = P + ElementEnd(audio, first, chans, w, 0)
<1> DEFINE z == HeaderSize(w)
           e == BodyEnd(audio, first, chans, w, 0)
<1>1. z \in Nat
  BY PartSizes, Zenon
<1>2. 0 + z \in Nat /\ P + z \in Nat
  BY <1>1
<1>3. e \in Nat
  BY <1>2, BodyMoves
<1>4. BodyEnd(audio, first, chans, w, 0 + z) = (0 + z) + e
  BY <1>2, BodyMoves
<1>5. BodyEnd(audio, first, chans, w, P + z) = (P + z) + e
  BY <1>2, BodyMoves
<1> HIDE DEF z, e
<1>6. ElementEnd(audio, first, chans, w, 0) = (0 + z) + e
  BY <1>4, Zenon DEF ElementEnd, z
<1>7. ElementEnd(audio, first, chans, w, P) = (P + z) + e
  BY <1>5, Zenon DEF ElementEnd, z
<1> QED
  BY <1>1, <1>3, <1>6, <1>7

\* Every element starts where the one before it ends.
LEMMA StartIs ==
    ASSUME NEW audio, NEW w, Enc!Proper(audio, w)
    PROVE  /\ StartOf(audio, w, 0) = 0
           /\ \A c \in 0 .. 2 - Chans(w) :
                 /\ c + Chans(w) \in 0 .. 2 /\ c + 1 \in 1 .. 3 - Chans(w)
                 /\ InFrame(audio, c + 1, Chans(w), w)
                 /\ StartOf(audio, w, c) \in Nat
                 /\ StartOf(audio, w, c + Chans(w))
                      = ElementEnd(audio, c + 1, Chans(w), w, StartOf(audio, w, c))
                 /\ StartOf(audio, w, c + Chans(w)) \in Nat
           /\ StartOf(audio, w, 2) \in Nat
<1> DEFINE chans == Chans(w)
           e1 == ElementEnd(audio, 1, chans, w, 0)
           e2 == ElementEnd(audio, 2, 1, w, e1)
<1>1. chans \in 1 .. 2 /\ \A i \in 1 .. 3 - chans : InFrame(audio, i, chans, w)
  BY ElementsIn, Zenon
<1>2. StartOf(audio, w, 0) = 0
  BY DEF StartOf
<1> HIDE DEF chans
<1>3. e1 \in Nat
  <2>1. InFrame(audio, 1, chans, w)
    <3>1. 1 \in 1 .. 3 - chans
      BY <1>1
    <3> QED
      BY <1>1, <3>1, Zenon
  <2>2. 0 \in Nat
    OBVIOUS
  <2> QED
    BY <2>1, <2>2, EndMoves
<1> HIDE DEF e1
<1>4. CASE chans = 2
  <2>1. StartOf(audio, w, 2) = e1
    BY <1>4 DEF StartOf, e1, chans
  <2>2. \A c \in 0 .. 2 - chans : c = 0
    BY <1>4
  <2>3. 0 + 1 = 1 /\ 0 + 2 = 2 /\ 1 \in 1 .. 3 - chans /\ 2 \in 0 .. 2 /\ 0 \in Nat
    BY <1>4
  <2>4. InFrame(audio, 1, chans, w)
    BY <1>1, <2>3, Zenon
  <2>5. ASSUME NEW c \in 0 .. 2 - chans
        PROVE  /\ c + chans \in 0 .. 2 /\ c + 1 \in 1 .. 3 - chans
               /\ InFrame(audio, c + 1, chans, w)
               /\ StartOf(audio, w, c) \in Nat
               /\ StartOf(audio, w, c + chans)
                    = ElementEnd(audio, c + 1, chans, w, StartOf(audio, w, c))
               /\ StartOf(audio, w, c + chans) \in Nat
    BY <1>2, <1>3, <1>4, <2>1, <2>2, <2>3, <2>4, Zenon DEF e1
  <2> QED
    BY <1>2, <1>3, <2>1, <2>5, Zenon DEF chans
<1>5. CASE chans = 1
  <2>1. StartOf(audio, w, 1) = e1 /\ StartOf(audio, w, 2) = e2
    BY <1>5 DEF StartOf, e1, chans
  <2>2. \A c \in 0 .. 2 - chans : c = 0 \/ c = 1
    BY <1>5
  <2>3. /\ 0 + 1 = 1 /\ 1 + 1 = 2 /\ 1 \in 1 .. 3 - chans /\ 2 \in 1 .. 3 - chans
        /\ 1 \in 0 .. 2 /\ 2 \in 0 .. 2 /\ 0 \in Nat
    BY <1>5
  <2>4. InFrame(audio, 1, chans, w) /\ InFrame(audio, 2, chans, w)
    BY <1>1, <2>3, Zenon
  <2>5. e2 \in Nat
    <3>1. InFrame(audio, 2, 1, w)
      BY <1>5, <2>4
    <3>2. ElementEnd(audio, 2, 1, w, 0) \in Nat /\ e2 = e1 + ElementEnd(audio, 2, 1, w, 0)
      BY <1>3, <3>1, EndMoves
    <3> QED
      BY <1>3, <3>2
  <2> HIDE DEF e2
  <2>6. ASSUME NEW c \in 0 .. 2 - chans
        PROVE  /\ c + chans \in 0 .. 2 /\ c + 1 \in 1 .. 3 - chans
               /\ InFrame(audio, c + 1, chans, w)
               /\ StartOf(audio, w, c) \in Nat
               /\ StartOf(audio, w, c + chans)
                    = ElementEnd(audio, c + 1, chans, w, StartOf(audio, w, c))
               /\ StartOf(audio, w, c + chans) \in Nat
    <3>1. CASE c = 0
      BY <1>2, <1>3, <1>5, <2>1, <2>3, <2>4, <3>1, Zenon DEF e1
    <3>2. CASE c = 1
      BY <1>3, <1>5, <2>1, <2>3, <2>4, <2>5, <3>2, Zenon DEF e2
    <3> QED
      BY <2>2, <3>1, <3>2, Zenon
  <2> QED
    BY <1>2, <2>1, <2>5, <2>6, Zenon DEF chans
<1>6. chans = 1 \/ chans = 2
  BY <1>1
<1> QED
  BY <1>4, <1>5, <1>6

LEMMA PaddingIs ==
    ASSUME NEW n \in Nat
    PROVE  (-n) % 8 \in 0 .. 7 /\ (n + ((-n) % 8)) % 8 = 0
OBVIOUS

\* The elements joined: as long as the END tag is far, and each where it starts.
LEMMA ElementsStand ==
    ASSUME NEW audio, NEW w, Enc!Proper(audio, w),
           NEW e, IsJoined(e, Elements(audio, w), 3 - Chans(w))
    PROVE  /\ e \in Seq(Bits) /\ Len(e) = StartOf(audio, w, 2)
           /\ \A buf \in Seq(Bits) : Stands(e, buf, 0) =>
                 \A c \in 0 .. 2 - Chans(w) :
                     ElementParts(audio, c + 1, Chans(w), w, buf, StartOf(audio, w, c))
<1> DEFINE chans == Chans(w)
           n == 3 - chans
           E == Elements(audio, w)
           e1 == ElementEnd(audio, 1, chans, w, 0)
           e2 == ElementEnd(audio, 2, 1, w, 0)
<1>1. /\ chans \in 1 .. 2 /\ n \in 1 .. 2 /\ E \in [1 .. n -> Seq(Bits)]
      /\ \A i \in 1 .. n : InFrame(audio, i, chans, w)
  BY ElementsIn, Zenon
<1>2. \A i \in 1 .. n : E[i] = Enc!Element(audio, i, chans, w)
  BY DEF Elements
<1>3. IsJoined(e, E, n)
  OBVIOUS
<1>4. \A c \in 0 .. 2 - chans : /\ c + 1 \in 1 .. n /\ StartOf(audio, w, c) \in Nat
  BY StartIs, Zenon
<1> HIDE DEF E, chans
<1>5. \A i \in 1 .. n : Len(E[i]) = ElementEnd(audio, i, chans, w, 0)
  BY <1>1, <1>2, ElementStands, Zenon
<1>6. 1 \in 1 .. n /\ n \in 1 .. n /\ 0 \in Nat
  BY <1>1
<1>7. /\ e \in Seq(Bits) /\ Len(e) = (IF n = 1 THEN 0 ELSE Len(E[1])) + Len(E[n])
      /\ \A buf \in Seq(Bits) : \A p \in Nat : Stands(e, buf, p) => FewStand(E, n, buf, p)
  <2> HIDE DEF n
  <2> QED
    BY <1>1, <1>3, JoinedFew
<1>8. InFrame(audio, 1, chans, w) /\ Len(E[1]) = e1 /\ e1 \in Nat
  <2>1. InFrame(audio, 1, chans, w) /\ Len(E[1]) = e1
    BY <1>1, <1>5, <1>6, Zenon
  <2> QED
    BY <1>6, <2>1, EndMoves
<1>9. Len(e) = StartOf(audio, w, 2)
  <2>1. CASE chans = 2
    <3>1. StartOf(audio, w, 2) = e1
      BY <2>1 DEF StartOf, chans
    <3>2. n = 1
      BY <2>1
    <3> HIDE DEF n, e1
    <3> QED
      BY <1>7, <1>8, <3>1, <3>2
  <2>2. CASE chans = 1
    <3>1. StartOf(audio, w, 2) = ElementEnd(audio, 2, 1, w, e1)
      BY <2>2 DEF StartOf, chans
    <3>2. n = 2
      BY <2>2
    <3>3. InFrame(audio, 2, 1, w) /\ Len(E[2]) = e2
      BY <1>1, <1>5, <1>6, <2>2, <3>2, Zenon
    <3> HIDE DEF n, e1
    <3>4. e2 \in Nat /\ ElementEnd(audio, 2, 1, w, e1) = e1 + e2
      BY <1>8, <3>3, EndMoves
    <3> HIDE DEF e2
    <3> QED
      BY <1>7, <1>8, <3>1, <3>2, <3>3, <3>4
  <2> QED
    BY <1>1, <2>1, <2>2
<1>10. ASSUME NEW buf \in Seq(Bits), Stands(e, buf, 0), NEW c \in 0 .. 2 - chans
       PROVE  ElementParts(audio, c + 1, chans, w, buf, StartOf(audio, w, c))
  <2> DEFINE i == c + 1
             P == StartOf(audio, w, c)
  <2>1. FewStand(E, n, buf, 0)
    BY <1>6, <1>7, <1>10, Zenon
  <2>2. i \in 1 .. n /\ P \in Nat
    BY <1>4, Zenon
  <2>3. Stands(E[i], buf, 0 + (IF i = 1 THEN 0 ELSE Len(E[1])))
    BY <2>1, <2>2, Zenon DEF FewStand
  <2>4. 0 + (IF i = 1 THEN 0 ELSE Len(E[1])) = P
    <3>1. CASE c = 0
      <4>1. P = 0 /\ i = 1
        BY <3>1 DEF StartOf
      <4> HIDE DEF P, i
      <4> QED
        BY <4>1
    <3>2. CASE c # 0
      <4>1. chans = 1 /\ c = 1
        BY <1>1, <3>2
      <4>2. P = e1 /\ i # 1
        BY <4>1 DEF StartOf, chans
      <4> HIDE DEF P, i, e1
      <4> QED
        BY <1>8, <4>2
    <3> QED
      BY <3>1, <3>2
  <2> HIDE DEF P, i
  <2>5. Stands(Enc!Element(audio, i, chans, w), buf, P)
    BY <1>2, <2>2, <2>3, <2>4, Zenon
  <2>6. ElementParts(audio, i, chans, w, buf, P)
    BY <1>1, <2>2, <2>5, ElementStands, Zenon
  <2> QED
    BY <2>6, Zenon DEF P, i
<1> QED
  BY <1>7, <1>9, <1>10, Zenon DEF chans

LEMMA FrameStands ==
    ASSUME NEW audio, NEW w, Enc!Proper(audio, w)
    PROVE  /\ Enc!Frame(audio, w) \in Seq(Bits)
           /\ Len(Enc!Frame(audio, w)) \in StartOf(audio, w, 2) + 3 .. StartOf(audio, w, 2) + 10
           /\ Len(Enc!Frame(audio, w)) % 8 = 0
           /\ \A buf \in Seq(Bits) : Stands(Enc!Frame(audio, w), buf, 0) => FrameParts(audio, w, buf)
<1> DEFINE x == Enc!Frame(audio, w)
           T == StartOf(audio, w, 2)
           G == Enc!BitsOf(7, 3)
<1>1. PICK e : /\ IsJoined(e, Elements(audio, w), 3 - Chans(w))
               /\ x = (e \o G) \o Enc!BitsOf(0, (-Len(e \o G)) % 8)
  BY FrameBy, Zenon DEF FrameIs
<1>2. /\ e \in Seq(Bits) /\ Len(e) = T
      /\ \A buf \in Seq(Bits) : Stands(e, buf, 0) =>
            \A c \in 0 .. 2 - Chans(w) :
                ElementParts(audio, c + 1, Chans(w), w, buf, StartOf(audio, w, c))
  BY <1>1, ElementsStand
<1>3. T \in Nat
  BY StartIs, Zenon
<1>4. G \in Seq(Bits) /\ Len(G) = 3
  <2>1. 7 \in Int /\ 3 \in Nat
    OBVIOUS
  <2> QED
    BY <2>1, BitsOfIn, Zenon
<1> DEFINE y == e \o G
           z == (-Len(y)) % 8
           Z == Enc!BitsOf(0, z)
<1> HIDE DEF T, G, x
<1>5. IsPair(y, e, T, G)
  BY <1>2, <1>4 DEF IsPair
<1>6. y \in Seq(Bits) /\ Len(y) = T + 3
  BY <1>2, <1>4, ConcatIs
<1>7. x = y \o Z
  BY <1>1
<1> HIDE DEF y
<1>8. Len(y) \in Nat
  BY <1>3, <1>6
<1>9. z \in 0 .. 7 /\ (Len(y) + z) % 8 = 0
  BY <1>8, PaddingIs
<1> HIDE DEF z
<1>10. Z \in Seq(Bits) /\ Len(Z) = z
  <2>1. 0 \in Int /\ z \in Nat
    BY <1>9
  <2> QED
    BY <2>1, BitsOfIn
<1> HIDE DEF Z
<1>11. x \in Seq(Bits) /\ Len(x) = Len(y) + z
  BY <1>6, <1>7, <1>10, ConcatIs
<1>12. Len(x) \in T + 3 .. T + 10
  BY <1>3, <1>6, <1>9, <1>11
<1>13. ASSUME NEW buf \in Seq(Bits), Stands(x, buf, 0) PROVE FrameParts(audio, w, buf)
  <2>1. 0 \in Nat /\ 0 + T = T
    BY <1>3
  <2>2. Stands(y, buf, 0)
    BY <1>6, <1>7, <1>10, <1>13, <2>1, StandsParts
  <2>3. Stands(e, buf, 0) /\ Stands(G, buf, 0 + T)
    BY <1>5, <2>1, <2>2, PairStands
  <2> QED
    BY <1>2, <2>1, <2>3, Zenon DEF FrameParts, G, T
<1> QED
  BY <1>9, <1>11, <1>12, <1>13 DEF x, T

-----------------------------------------------------------------------------
(* The layout of an element: every part lies before its end.               *)

CompressedLayout(audio, first, chans, w, B) ==
    /\ DescAt(w, 1, B) = B + 16 /\ DescAt(w, 1, B) \in Nat
    /\ chans = 2 => DescAt(w, 2, B) = DescAt(w, 1, B) + DescriptionSize(w.prm[1])
                    /\ DescAt(w, 2, B) \in Nat
    /\ \A k \in 1 .. chans :
          DescAt(w, k, B) + DescriptionSize(w.prm[k]) <= ParametersEnd(w, chans, B)
    /\ ParametersEnd(w, chans, B) = DescAt(w, chans, B) + DescriptionSize(w.prm[chans])
    /\ ParametersEnd(w, chans, B) \in Nat
    /\ CodeAt(audio, first, chans, w, 1, B) = ParametersEnd(w, chans, B)
    /\ chans = 2 => CodeAt(audio, first, chans, w, 2, B)
                      = CodeAt(audio, first, chans, w, 1, B) + Len(Code(audio, first, chans, w, 1))
    /\ \A k \in 1 .. chans :
          /\ CodeAt(audio, first, chans, w, k, B) \in Nat
          /\ CodeAt(audio, first, chans, w, k, B) + Len(Code(audio, first, chans, w, k))
               <= BodyEnd(audio, first, chans, w, B)
    /\ BodyEnd(audio, first, chans, w, B)
         = CodeAt(audio, first, chans, w, chans, B) + Len(Code(audio, first, chans, w, chans))
    /\ ParametersEnd(w, chans, B) <= BodyEnd(audio, first, chans, w, B)

LEMMA CompressedLayoutIs ==
    ASSUME NEW audio, NEW first, NEW chans, NEW w, InFrame(audio, first, chans, w),
           NEW B \in Nat, ~w.escape
    PROVE  CompressedLayout(audio, first, chans, w, B)
<1> DEFINE d1 == DescriptionSize(w.prm[1])
           d2 == DescriptionSize(w.prm[2])
           c1 == Len(Code(audio, first, chans, w, 1))
           c2 == Len(Code(audio, first, chans, w, 2))
<1>1. /\ chans \in 1 .. 2
      /\ \A k \in 1 .. chans : /\ DescriptionSize(w.prm[k]) \in Nat
                               /\ Len(Code(audio, first, chans, w, k)) \in Nat
  BY PartSizes, Zenon
<1>2. CASE chans = 1
  <2>1. d1 \in Nat /\ c1 \in Nat
    <3>1. 1 \in 1 .. chans
      BY <1>2
    <3> QED
      BY <1>1, <3>1
  <2>2. /\ DescAt(w, 1, B) = B + 16 + 0
        /\ ParametersEnd(w, 1, B) = B + 16 + 0 + d1
        /\ CodeAt(audio, first, chans, w, 1, B) = B + 16 + 0 + d1 + 0
        /\ BodyEnd(audio, first, chans, w, B) = B + 16 + 0 + d1 + 0 + c1
    BY <1>2, Zenon DEF DescAt, ParametersEnd, CodeAt, BodyEnd
  <2>3. \A k \in 1 .. chans : k = 1
    BY <1>2
  <2> HIDE DEF d1, c1
  <2> QED
    BY <1>2, <2>1, <2>2, <2>3 DEF CompressedLayout, d1, c1
<1>3. CASE chans = 2
  <2>1. d1 \in Nat /\ c1 \in Nat /\ d2 \in Nat /\ c2 \in Nat
    <3>1. 1 \in 1 .. chans /\ 2 \in 1 .. chans
      BY <1>3
    <3> QED
      BY <1>1, <3>1
  <2>2. /\ DescAt(w, 1, B) = B + 16 + 0
        /\ DescAt(w, 2, B) = B + 16 + d1
        /\ ParametersEnd(w, 2, B) = B + 16 + d1 + d2
        /\ CodeAt(audio, first, chans, w, 1, B) = B + 16 + d1 + d2 + 0
        /\ CodeAt(audio, first, chans, w, 2, B) = B + 16 + d1 + d2 + c1
        /\ BodyEnd(audio, first, chans, w, B) = B + 16 + d1 + d2 + c1 + c2
    <3>1. 2 # 1
      OBVIOUS
    <3> QED
      BY <1>3, <3>1, Zenon DEF DescAt, ParametersEnd, CodeAt, BodyEnd
  <2>3. \A k \in 1 .. chans : k = 1 \/ k = 2
    BY <1>3
  <2> HIDE DEF d1, c1, d2, c2
  <2> QED
    BY <1>3, <2>1, <2>2, <2>3, SMTT(20) DEF CompressedLayout, d1, c1, d2, c2
<1> QED
  BY <1>1, <1>2, <1>3

RawLayout(audio, chans, w, first, B) ==
    /\ \A j \in 1 .. Len(audio) : \A k \in 1 .. chans :
          /\ RawAt(chans, j, k, B) \in Nat
          /\ RawAt(chans, j, k, B) + 16 <= BodyEnd(audio, first, chans, w, B)
    /\ BodyEnd(audio, first, chans, w, B) = B + 16 * chans * Len(audio)

LEMMA RawLayoutIs ==
    ASSUME NEW audio, NEW first, NEW chans, NEW w, InFrame(audio, first, chans, w),
           NEW B \in Nat, w.escape
    PROVE  RawLayout(audio, chans, w, first, B)
<1> DEFINE n == Len(audio)
<1>1. chans \in 1 .. 2 /\ n \in Nat
  BY PartSizes, Zenon
<1>2. BodyEnd(audio, first, chans, w, B) = B + 16 * chans * n
  BY DEF BodyEnd
<1> HIDE DEF n
<1>3. ASSUME NEW j \in 1 .. n, NEW k \in 1 .. chans
      PROVE  /\ RawAt(chans, j, k, B) \in Nat
             /\ RawAt(chans, j, k, B) + 16 <= B + 16 * chans * n
  <2>1. CASE chans = 1
    BY <1>1, <2>1 DEF RawAt
  <2>2. CASE chans = 2
    BY <1>1, <2>2 DEF RawAt
  <2> QED
    BY <1>1, <2>1, <2>2
<1> QED
  BY <1>2, <1>3 DEF RawLayout, n

\* The elements are in order, each with a header, and before the END tag.
LEMMA ElementsFit ==
    ASSUME NEW audio, NEW w, Enc!Proper(audio, w), NEW c \in 0 .. 2 - Chans(w)
    PROVE  LET P == StartOf(audio, w, c)
               E == StartOf(audio, w, c + Chans(w))
           IN  /\ P \in Nat /\ E \in Nat /\ HeaderSize(w) \in Nat /\ P + HeaderSize(w) \in Nat
               /\ E = BodyEnd(audio, c + 1, Chans(w), w, P + HeaderSize(w))
               /\ P + HeaderSize(w) <= E /\ E <= StartOf(audio, w, 2)
<1> DEFINE chans == Chans(w)
           P == StartOf(audio, w, c)
           E == StartOf(audio, w, c + Chans(w))
           T == StartOf(audio, w, 2)
           z == HeaderSize(w)
<1>1. /\ chans \in 1 .. 2 /\ P \in Nat /\ E \in Nat /\ T \in Nat
      /\ c + chans \in 0 .. 2
      /\ InFrame(audio, c + 1, chans, w)
      /\ E = ElementEnd(audio, c + 1, chans, w, P)
  BY StartIs, ProperIs, Zenon
<1>2. z \in Nat
  BY <1>1, PartSizes, Zenon
<1> HIDE DEF P, z
<1>3. P + z \in Nat
  BY <1>1, <1>2
<1>4. E = BodyEnd(audio, c + 1, chans, w, P + z)
  BY <1>1, Zenon DEF ElementEnd, z
<1>5. P + z <= E
  <2>1. /\ BodyEnd(audio, c + 1, chans, w, 0) \in Nat
        /\ BodyEnd(audio, c + 1, chans, w, P + z) = (P + z) + BodyEnd(audio, c + 1, chans, w, 0)
    BY <1>1, <1>3, BodyMoves, Zenon
  <2> HIDE DEF E
  <2> QED
    BY <1>3, <1>4, <2>1
<1>6. E <= T
  <2>1. CASE c + chans = 2
    BY <1>1, <2>1
  <2>2. CASE c + chans # 2
    <3>1. c = 0 /\ chans = 1 /\ c + chans = 1
      BY <1>1, <2>2
    <3>2. 1 \in 0 .. 2 - chans /\ 1 + chans = 2
      BY <3>1
    <3>3. /\ InFrame(audio, 1 + 1, chans, w)
          /\ T = ElementEnd(audio, 1 + 1, chans, w, StartOf(audio, w, 1))
          /\ StartOf(audio, w, 1) \in Nat
      BY <3>2, StartIs, Zenon
    <3>4. /\ ElementEnd(audio, 1 + 1, chans, w, 0) \in Nat
          /\ T = StartOf(audio, w, 1) + ElementEnd(audio, 1 + 1, chans, w, 0)
      BY <3>3, EndMoves, Zenon
    <3>5. E = StartOf(audio, w, 1)
      BY <3>1, Zenon
    <3> HIDE DEF E, T
    <3> QED
      BY <3>3, <3>4, <3>5
  <2> QED
    BY <2>1, <2>2
<1> QED
  BY <1>1, <1>2, <1>3, <1>4, <1>5, <1>6, Zenon DEF P, z

-----------------------------------------------------------------------------
(* The state of the decoder while it decodes what way w makes of the       *)
(* frame's audio.                                                          *)

Count       == Len(frame.audio)
Start(w, c) == StartOf(frame.audio, w, c)
Whole(w)    == Len(Enc!Frame(frame.audio, w))

\* What is known of the bits of a frame that was sent.
Arrives(w) ==
    /\ Enc!Proper(frame.audio, w) /\ bits \in Seq(Bits) /\ Len(bits) % 8 = 0
    /\ FrameParts(frame.audio, w, bits)
    /\ Whole(w) \in Start(w, 2) + 3 .. Start(w, 2) + 10 /\ Whole(w) % 8 = 0
    /\ Len(bits) <= Whole(w)
    /\ frame.whole <=> Len(bits) = Whole(w) /\ w.shifted = 0 /\ Count <= FrameLength

\* The reader is past the bits that arrived, and not all of them did.
Lost == pos > Len(bits) /\ ~frame.whole

\* The first c channels are in the output.
Written(c) == \A i \in 1 .. Count : \A k \in 1 .. c : out[2 * (i - 1) + k - 1] = frame.audio[i][k]

\* The samples of the k-th channel of the element that starts with channel c.
Given(w, c, k) ==
    IF w.escape THEN [j \in 1 .. Count |-> frame.audio[j][c + 1 + k - 1]]
    ELSE Signal(frame.audio, c + 1, Chans(w), w, k)
Decoded(w, m) ==
    \A k \in 1 .. m : \A j \in 0 .. Count - 1 :
        mixBuffer[k - 1][j] = Given(w, channelIndex, k)[j + 1]

\* Between two elements.
Between(w) ==
    /\ channelIndex = 2 \/ channelIndex \in 0 .. 2 - Chans(w)
    /\ pos = Start(w, channelIndex) /\ pos <= Len(bits) /\ Written(channelIndex)
    /\ channelIndex > 0 => numSamples = Count /\ w.shifted = 0 /\ Count <= FrameLength

ElementOpen(w) ==
    /\ channelIndex \in 0 .. 2 - Chans(w) /\ Written(channelIndex)
    /\ w.shifted = 0 /\ Count <= FrameLength
    /\ el.chans = Chans(w) /\ el.n = Count

\* The parameters of the element, and of its channels that are not decoded yet.
ParametersHeld(w) ==
    /\ el.chanBits = 15 + Chans(w) /\ el.mixBits = w.mixBits /\ el.mixRes = w.mixRes
    /\ \A k \in 1 .. Chans(w) :
          /\ el.prm[k - 1].mode = w.prm[k].mode /\ el.prm[k - 1].denShift = w.prm[k].denShift
          /\ el.prm[k - 1].pbFactor = w.prm[k].pbFactor /\ el.prm[k - 1].num = Len(w.prm[k].a)
          /\ k > Chan => ListOf(coefs[k - 1], Len(w.prm[k].a)) = w.prm[k].a

\* The residuals of the k-th channel, and where their code starts.
ResidualsAt(w, k) == ResidualsFor(Signal(frame.audio, channelIndex + 1, Chans(w), w, k),
                                  w.prm[k], 15 + Chans(w))
BodyStart(w)  == Start(w, channelIndex) + HeaderSize(w)
CodeStart(w, k) == CodeAt(frame.audio, channelIndex + 1, Chans(w), w, k, BodyStart(w))

\* The decoder has as much of the k-th channel as the coder s had coded.
With(s, w, k) ==
    /\ OnTheWay(s, ResidualsAt(w, k), Weight(w.prm[k]), 15 + Chans(w))
    /\ ag = AgOf(s) /\ pos = CodeStart(w, k) + Len(s.bits) /\ pos <= Len(bits)
    /\ \A j \in 0 .. s.c - 1 : predictor[j] = ResidualsAt(w, k)[j + 1]

ChannelRight(w) ==
    /\ ElementOpen(w) /\ ~w.escape /\ ParametersHeld(w) /\ Decoded(w, Chan)
    /\ \E s : With(s, w, Chan + 1)

OutputRight(w) ==
    /\ ElementOpen(w) /\ Decoded(w, Chans(w))
    /\ pos = Start(w, channelIndex + Chans(w)) /\ pos <= Len(bits)
    /\ IF w.escape THEN el.chanBits = 16 /\ el.mixRes = 0
       ELSE el.chanBits = 15 + Chans(w) /\ el.mixBits = w.mixBits /\ el.mixRes = w.mixRes

FrameInv(w) ==
    /\ phase \in {"failed", "panicked"} => ~frame.whole
    /\ phase = "done" => frame.whole /\ numSamples = Count /\ Written(2)
    /\ phase = "tag" => Between(w)
    /\ InChannel => Lost \/ ChannelRight(w)
    /\ phase = "output" => Lost \/ OutputRight(w)

\* Frames are whole bytes, and what was sent is decoded as it was encoded.
SentInv == /\ Len(frame.bits) % 8 = 0
           /\ \A w : Enc!Sends(frame, w) => FrameInv(w)

LEMMA ArrivesIs ==
    ASSUME IInv, SentInv, NEW w, Enc!Sends(frame, w)
    PROVE  Arrives(w) /\ FrameInv(w)
<1> DEFINE F == Enc!Frame(frame.audio, w)
<1>1. /\ Enc!Proper(frame.audio, w) /\ Len(bits) <= Len(F)
      /\ \A i \in 1 .. Len(bits) : bits[i] = F[i]
      /\ frame.whole <=> Len(bits) = Len(F) /\ w.shifted = 0 /\ Count <= FrameLength
  BY Zenon DEF Enc!Sends, bits, Count
<1>2. bits \in Seq(Bits) /\ Len(bits) % 8 = 0
  BY DEF IInv, ElementInv, SentInv, bits
<1>3. /\ F \in Seq(Bits) /\ Len(F) \in Start(w, 2) + 3 .. Start(w, 2) + 10 /\ Len(F) % 8 = 0
      /\ \A buf \in Seq(Bits) : Stands(F, buf, 0) => FrameParts(frame.audio, w, buf)
  BY <1>1, FrameStands, Zenon DEF Start
<1> HIDE DEF F
<1>4. Stands(F, bits, 0)
  <2>1. Len(bits) \in Nat /\ Len(F) \in Nat
    BY <1>2, <1>3
  <2>2. ASSUME NEW i \in 1 .. Len(F), 0 + i <= Len(bits) PROVE bits[0 + i] = F[i]
    <3>1. i \in 1 .. Len(bits) /\ 0 + i = i
      BY <2>1, <2>2
    <3> QED
      BY <1>1, <3>1
  <2> QED
    BY <2>2 DEF Stands
<1>5. Arrives(w)
  BY <1>1, <1>2, <1>3, <1>4, Zenon DEF Arrives, F, Whole
<1> QED
  BY <1>5, Zenon DEF SentInv

\* What lies past the bits that arrived is not all there.
LEMMA NotWhole ==
    ASSUME NEW w, Arrives(w), NEW p \in Int, p > Len(bits), p <= Start(w, 2) + 3
    PROVE  ~frame.whole
<1>1. /\ Len(bits) \in Nat /\ Start(w, 2) \in Nat
      /\ Whole(w) \in Start(w, 2) + 3 .. Start(w, 2) + 10
  BY StartIs DEF Arrives, Start
<1>2. Len(bits) # Whole(w)
  BY <1>1
<1> QED
  BY <1>2 DEF Arrives

\* The END tag is odd, and a tag that is not all there is even.
LEMMA TagCut ==
    ASSUME NEW buf \in Seq(Bits), NEW p \in Nat, p + 3 > Len(buf)
    PROVE  Read(buf, p, 3) # 7
<1> DEFINE w == Window(buf, p, 24)
           f == Field(w, 0, 2)
<1>1. \A i \in 0 .. 23 : w[i] \in Bits
  <2>1. 24 \in Nat /\ \A i \in 0 .. 23 : i \in 0 .. 24 - 1
    OBVIOUS
  <2> QED
    BY <2>1, WindowIs
<1>2. w[2] = 0
  <2>1. Len(buf) \in Nat /\ ~(p + 2 < Len(buf)) /\ 2 \in 0 .. 24 - 1
    OBVIOUS
  <2> QED
    BY <2>1 DEF Window, Bit
<1> HIDE DEF w
<1>3. \A k \in 1 .. 3 : w[0 + k - 1] \in Bits
  <2>1. \A k \in 1 .. 3 : 0 + k - 1 \in 0 .. 23
    OBVIOUS
  <2> QED
    BY <1>1, <2>1
<1>4. Field(w, 0, 3) = 2 * f + w[2]
  <2> DEFINE m == 2
             z == 0
  <2>1. m \in Nat /\ z \in Nat /\ m + 1 = 3 /\ z + m = 2
    OBVIOUS
  <2>2. \A k \in 1 .. m + 1 : w[z + k - 1] \in Bits
    BY <1>3
  <2> HIDE DEF m, z
  <2>3. Field(w, z, m + 1) = 2 * Field(w, z, m) + w[z + m]
    BY <2>1, <2>2, FieldTail
  <2> QED
    BY <2>1, <2>3 DEF m, z
<1>5. f \in Nat
  <2>1. \A k \in 1 .. 2 : w[0 + k - 1] \in Bits
    BY <1>3
  <2>2. 0 \in Nat /\ 2 \in Nat
    OBVIOUS
  <2> QED
    BY <2>1, <2>2, FieldIs
<1>6. Read(buf, p, 3) = Field(w, 0, 3)
  BY DEF Read, w
<1> HIDE DEF f
<1> QED
  BY <1>2, <1>4, <1>5, <1>6

-----------------------------------------------------------------------------
(* What Decode finds between two elements.                                 *)

\* Not all of the tag or of the header is there, and the frame is not whole.
HeaderCut == ~frame.whole /\ BodyPos \in Nat /\ BodyPos > Len(bits) /\ Tag # 7

\* The END tag.
HeaderIsEnd(w) ==
    /\ channelIndex = 2 /\ pos = Start(w, 2) /\ Tag = 7 /\ pos + 3 <= Len(bits)

\* The header of an element, all of it.
HeaderRight(w) ==
    /\ channelIndex \in 0 .. 2 - Chans(w) /\ Tag = Chans(w) - 1
    /\ BodyPos = BodyStart(w) /\ BodyPos \in Nat /\ BodyPos <= Len(bits)
    /\ Shifted = w.shifted /\ (Escape <=> w.escape) /\ Samples = Count

\* Where a header may be read, its body is behind it.
LEMMA BodyBehind ==
    ASSUME bits \in Seq(Bits), pos \in Nat
    PROVE  BodyPos \in Nat /\ BodyPos >= pos + 23
<1>1. BodyPos = (pos + 3 + 4 + 12) + 4 + (IF Partial THEN 32 ELSE 0)
  BY Zenon DEF BodyPos, HeaderPos
<1>2. CASE Partial
  BY <1>1, <1>2
<1>3. CASE ~Partial
  BY <1>1, <1>3
<1> QED
  BY <1>2, <1>3

LEMMA HeaderHere ==
    ASSUME IInv, NEW w, Arrives(w), Between(w)
    PROVE  HeaderCut \/ HeaderIsEnd(w) \/ HeaderRight(w)
<1>1. /\ bits \in Seq(Bits) /\ pos \in Nat /\ Len(bits) \in Nat
      /\ Enc!Proper(frame.audio, w) /\ FrameParts(frame.audio, w, bits)
  <2>1. bits \in Seq(Bits) /\ pos \in Nat
    BY DEF IInv, TypeOK, ElementInv, bits
  <2> QED
    BY <2>1 DEF Arrives
<1>2. BodyPos \in Nat /\ BodyPos >= pos + 23
  BY <1>1, BodyBehind, Zenon
<1>3. pos + 3 > Len(bits) => Tag # 7
  BY <1>1, TagCut DEF Tag
<1>4. CASE channelIndex = 2
  <2>1. pos = Start(w, 2)
    BY <1>4 DEF Between
  <2>2. CASE pos + 3 <= Len(bits)
    <3>1. Stands(Enc!BitsOf(7, 3), bits, pos)
      BY <1>1, <2>1, Zenon DEF FrameParts, Start
    <3>2. Read(bits, pos, 3) = 7
      <4>1. 7 < 2^3 /\ 3 \in 0 .. 16 /\ 7 \in Nat
        OBVIOUS
      <4> QED
        BY <1>1, <2>2, <3>1, <4>1, NumberReads
    <3> QED
      BY <1>4, <2>1, <2>2, <3>2 DEF HeaderIsEnd, Tag
  <2>3. CASE pos + 3 > Len(bits)
    <3>1. ~frame.whole
      <4> DEFINE p == pos + 3
      <4>1. p \in Int /\ p > Len(bits) /\ p <= Start(w, 2) + 3
        BY <1>1, <2>1, <2>3
      <4> HIDE DEF p
      <4> QED
        BY <4>1, NotWhole
    <3> QED
      BY <1>1, <1>2, <1>3, <2>3, <3>1 DEF HeaderCut
  <2> QED
    BY <1>1, <2>2, <2>3
<1>5. CASE channelIndex # 2
  <2>1. channelIndex \in 0 .. 2 - Chans(w) /\ pos = StartOf(frame.audio, w, channelIndex)
    BY <1>5 DEF Between, Start
  <2>2. /\ HeaderSize(w) \in Nat /\ pos + HeaderSize(w) \in Nat
        /\ pos + HeaderSize(w) <= Start(w, 2) /\ Start(w, 2) \in Nat
    <3> DEFINE E == StartOf(frame.audio, w, channelIndex + Chans(w))
    <3>1. /\ HeaderSize(w) \in Nat /\ pos + HeaderSize(w) \in Nat /\ E \in Nat
          /\ pos + HeaderSize(w) <= E /\ E <= Start(w, 2)
      BY <1>1, <2>1, ElementsFit, Zenon DEF Start
    <3>2. Start(w, 2) \in Nat
      BY <1>1, StartIs, Zenon DEF Start
    <3> HIDE DEF E
    <3> QED
      BY <3>1, <3>2
  <2>3. HeaderRead(Chans(w) - 1, Count, w)
    <3>1. HeaderParts(Chans(w) - 1, Count, w, bits, pos)
      BY <1>1, <2>1, Zenon DEF FrameParts, ElementParts, Count
    <3>2. /\ Count \in 1 .. 2^16 - 1 /\ Chans(w) \in 1 .. 2
          /\ w.partial \in BOOLEAN /\ w.escape \in BOOLEAN /\ w.shifted \in {0, 3}
      BY <1>1, ProperIs, Zenon DEF Count
    <3>3. Chans(w) - 1 \in 0 .. 7 /\ Count \in Nat /\ Count < 65536
      BY <3>2
    <3>4. HeaderFits(Chans(w) - 1, Count, w)
      BY <3>2, <3>3 DEF HeaderFits
    <3> QED
      BY <1>1, <3>1, <3>3, <3>4, HeaderReads, SMT
  <2>4. HeaderSize(w) = IF w.partial THEN 55 ELSE 23
    BY DEF HeaderSize
  <2>5. CASE pos + HeaderSize(w) <= Len(bits)
    <3>1. pos + 3 <= Len(bits) /\ pos + 23 <= Len(bits)
      BY <1>1, <2>2, <2>4, <2>5
    <3>2. /\ Tag = Chans(w) - 1 /\ BodyPos = pos + HeaderSize(w)
          /\ Shifted = w.shifted /\ (Escape <=> w.escape)
          /\ Samples = IF w.partial THEN Count ELSE FrameLength
      BY <2>3, <2>5, <3>1, Zenon DEF HeaderRead
    <3>3. Samples = Count
      <4>1. Count # FrameLength => w.partial
        BY <1>1, Zenon DEF Enc!Proper, Count
      <4> QED
        BY <3>2, <4>1, Zenon
    <3>4. BodyPos = BodyStart(w)
      BY <2>1, <3>2, Zenon DEF BodyStart, Start
    <3>5. BodyPos <= Len(bits)
      BY <2>5, <3>2, Zenon
    <3> QED
      BY <1>2, <2>1, <3>2, <3>3, <3>4, <3>5, Zenon DEF HeaderRight
  <2>6. CASE pos + HeaderSize(w) > Len(bits)
    <3>1. ~frame.whole
      <4> DEFINE p == pos + HeaderSize(w)
      <4>1. p \in Int /\ p > Len(bits) /\ p <= Start(w, 2) + 3
        BY <1>1, <2>2, <2>6
      <4> HIDE DEF p
      <4> QED
        BY <4>1, NotWhole
    <3>2. BodyPos > Len(bits)
      <4>1. CASE pos + 23 > Len(bits)
        BY <1>1, <1>2, <4>1
      <4>2. CASE pos + 23 <= Len(bits)
        <5>1. BodyPos = pos + HeaderSize(w)
          BY <2>3, <4>2, Zenon DEF HeaderRead
        <5> QED
          BY <2>6, <5>1
      <4> QED
        BY <1>1, <4>1, <4>2
    <3>3. Tag # 7
      <4>1. CASE pos + 3 > Len(bits)
        BY <1>3, <4>1
      <4>2. CASE pos + 3 <= Len(bits)
        <5>1. Tag = Chans(w) - 1
          BY <2>3, <4>2, Zenon DEF HeaderRead
        <5>2. Chans(w) \in 1 .. 2
          BY <1>1, ProperIs, Zenon
        <5> QED
          BY <5>1, <5>2
      <4> QED
        BY <1>1, <4>1, <4>2
    <3> QED
      BY <1>2, <3>1, <3>2, <3>3, Zenon DEF HeaderCut
  <2> QED
    BY <1>1, <2>2, <2>5, <2>6
<1> QED
  BY <1>4, <1>5

\* The frame stays the same, and with it everything that is known of it.
LEMMA SameFrame ==
    ASSUME frame' = frame, NEW w
    PROVE  /\ Count' = Count /\ bits' = bits
           /\ \A c : Start(w, c)' = Start(w, c)
           /\ \A c, k : Given(w, c, k)' = Given(w, c, k)
  BY DEF Count, bits, Start, Given

\* Lost bits stay lost, whatever part of the element is decoded next.
LEMMA LostIs ==
    ASSUME NEW w, phase' \in {"U", "V", "output"}, Lost'
    PROVE  FrameInv(w)'
  BY DEF FrameInv, InChannel

LEMMA FailedIs ==
    ASSUME NEW w, phase' = "failed" \/ phase' = "panicked", frame' = frame, ~frame.whole
    PROVE  FrameInv(w)'
  BY DEF FrameInv, InChannel

LEMMA EndRight ==
    ASSUME IInv, NEW w, Arrives(w), FrameInv(w), End
    PROVE  FrameInv(w)'
<1>1. phase = "tag" /\ Tag = 7 /\ phase' = "done"
      /\ UNCHANGED <<frame, numSamples, out>>
  BY DEF End, IsEnd
<1>2. Between(w)
  BY <1>1 DEF FrameInv
<1>3. HeaderCut \/ HeaderIsEnd(w) \/ HeaderRight(w)
  BY <1>2, HeaderHere, Zenon
<1>4. HeaderIsEnd(w)
  <2>1. ~HeaderCut
    BY <1>1 DEF HeaderCut
  <2>2. ~HeaderRight(w)
    <3>1. Chans(w) \in 1 .. 2
      BY ProperIs, Zenon DEF Arrives
    <3> QED
      BY <1>1, <3>1 DEF HeaderRight
  <2> QED
    BY <1>3, <2>1, <2>2
<1>5. channelIndex = 2 /\ pos = Start(w, 2) /\ pos + 3 <= Len(bits)
  BY <1>4 DEF HeaderIsEnd
<1>6. numSamples = Count /\ w.shifted = 0 /\ Count <= FrameLength /\ Written(2)
  BY <1>2, <1>5 DEF Between
<1>7. Len(bits) = Whole(w)
  <2> DEFINE a == Len(bits)
             b == Whole(w)
             S == Start(w, 2)
  <2>1. a \in Nat /\ S \in Nat /\ S + 3 <= a
    <3>1. bits \in Seq(Bits) /\ Start(w, 2) \in Nat
      BY StartIs DEF Arrives, Start
    <3> QED
      BY <1>5, <3>1
  <2>2. b \in S + 3 .. S + 10 /\ b % 8 = 0 /\ a % 8 = 0 /\ a <= b
    BY DEF Arrives
  <2> HIDE DEF a, b, S
  <2>3. a = b
    BY <2>1, <2>2
  <2> QED
    BY <2>3 DEF a, b
<1>8. frame.whole
  BY <1>6, <1>7 DEF Arrives
<1>9. numSamples' = Count' /\ Written(2)'
  BY <1>1, <1>6 DEF Written, Count
<1> QED
  BY <1>1, <1>8, <1>9 DEF FrameInv, InChannel

\* Where there is all of a header, its tag is that of an element.
LEMMA TagRight ==
    ASSUME NEW w, Arrives(w), HeaderRight(w)
    PROVE  Tag \in {0, 1} /\ ~IsEnd(Tag) /\ Chans(w) \in 1 .. 2 /\ ChansOf(Tag) = Chans(w)
<1>1. Chans(w) \in 1 .. 2
  BY ProperIs, Zenon DEF Arrives
<1> QED
  BY <1>1 DEF HeaderRight, IsEnd, ChansOf

LEMMA BadElementRight ==
    ASSUME IInv, NEW w, Arrives(w), FrameInv(w), BadElement
    PROVE  FrameInv(w)'
<1>1. /\ phase = "tag" /\ Tag \notin {0, 1} /\ Tag # 7 /\ phase' = "failed"
      /\ frame' = frame
  BY DEF BadElement, Fail, IsEnd
<1>2. HeaderCut \/ HeaderIsEnd(w) \/ HeaderRight(w)
  BY <1>1, HeaderHere DEF FrameInv
<1>3. ~frame.whole
  BY <1>1, <1>2, TagRight, Zenon DEF HeaderCut, HeaderIsEnd
<1> QED
  BY <1>1, <1>3, FailedIs, Zenon

LEMMA RefuseElementRight ==
    ASSUME IInv, NEW w, Arrives(w), FrameInv(w), RefuseElement
    PROVE  FrameInv(w)'
<1>1. /\ phase = "tag" /\ Tag \in {0, 1} /\ phase' = "failed" /\ frame' = frame
      /\ Shifted = 3 \/ Samples > FrameLength
  BY DEF RefuseElement, Fail, Refused
<1>2. HeaderCut \/ HeaderIsEnd(w) \/ HeaderRight(w)
  BY <1>1, HeaderHere DEF FrameInv
<1>3. ~frame.whole
  <2>1. CASE HeaderCut
    BY <2>1 DEF HeaderCut
  <2>2. CASE HeaderIsEnd(w)
    BY <1>1, <2>2 DEF HeaderIsEnd
  <2>3. CASE HeaderRight(w)
    <3>1. Shifted = w.shifted /\ Samples = Count
      BY <2>3 DEF HeaderRight
    <3>2. w.shifted = 3 \/ ~(Count <= FrameLength)
      <4>1. Count \in Nat /\ FrameLength \in Nat
        BY ProperIs, ConfigAssumption DEF Arrives, Count
      <4> QED
        BY <1>1, <3>1, <4>1
    <3>3. frame.whole => w.shifted = 0 /\ Count <= FrameLength
      BY Zenon DEF Arrives
    <3> QED
      BY <3>2, <3>3
  <2> QED
    BY <1>2, <2>1, <2>2, <2>3
<1> QED
  BY <1>1, <1>3, FailedIs, Zenon

\* An element that is opened: its header is all there, and the frame's samples fit.
Opened(w) ==
    /\ HeaderRight(w) /\ Chans(w) \in 1 .. 2 /\ ChansOf(Tag) = Chans(w)
    /\ w.shifted = 0 /\ Count <= FrameLength /\ Written(channelIndex)

LEMMA OpenedIs ==
    ASSUME IInv, NEW w, Arrives(w), FrameInv(w), phase = "tag", Tag \in {0, 1}, ~Refused
    PROVE  HeaderCut \/ Opened(w)
<1>1. Between(w)
  BY DEF FrameInv
<1>2. HeaderCut \/ HeaderIsEnd(w) \/ HeaderRight(w)
  BY <1>1, HeaderHere
<1>3. ~HeaderIsEnd(w)
  BY DEF HeaderIsEnd
<1>4. ASSUME HeaderRight(w) PROVE Opened(w)
  <2>1. Chans(w) \in 1 .. 2 /\ ChansOf(Tag) = Chans(w)
    BY <1>4, TagRight, Zenon
  <2>2. w.shifted = 0
    <3>1. Shifted = w.shifted /\ Shifted # 3
      BY <1>4 DEF HeaderRight, Refused
    <3>2. w.shifted \in {0, 3}
      BY ProperIs, Zenon DEF Arrives
    <3> QED
      BY <3>1, <3>2
  <2>3. Count <= FrameLength
    <3>1. Samples = Count /\ ~(Samples > FrameLength)
      BY <1>4 DEF HeaderRight, Refused
    <3>2. Count \in Nat /\ FrameLength \in Nat
      BY ProperIs, ConfigAssumption DEF Arrives, Count
    <3> QED
      BY <3>1, <3>2
  <2> QED
    BY <1>1, <1>4, <2>1, <2>2, <2>3, Zenon DEF Opened, Between
<1> QED
  BY <1>2, <1>3, <1>4, Zenon

\* The element that is opened, and how far its body goes.
LEMMA OpenedFits ==
    ASSUME NEW w, Arrives(w), NEW c \in 0 .. 2 - Chans(w)
    PROVE  /\ InFrame(frame.audio, c + 1, Chans(w), w)
           /\ Start(w, c) + HeaderSize(w) \in Nat
           /\ Start(w, c + Chans(w))
                = BodyEnd(frame.audio, c + 1, Chans(w), w, Start(w, c) + HeaderSize(w))
           /\ Start(w, c + Chans(w)) \in Nat /\ Start(w, 2) \in Nat
           /\ Start(w, c + Chans(w)) <= Start(w, 2)
<1>1. Enc!Proper(frame.audio, w)
  BY DEF Arrives
<1>2. Start(w, 2) \in Nat /\ InFrame(frame.audio, c + 1, Chans(w), w)
  BY <1>1, StartIs, Zenon DEF Start
<1> QED
  BY <1>1, <1>2, ElementsFit, Zenon DEF Start

LEMMA OpenRawRight ==
    ASSUME IInv, NEW w, Arrives(w), FrameInv(w), OpenRaw
    PROVE  FrameInv(w)'
<1>1. /\ phase = "tag" /\ Tag \in {0, 1} /\ ~Refused /\ Escape
      /\ phase' = "output" /\ pos' = BodyPos + 16 * ChansOf(Tag) * Samples
      /\ UNCHANGED <<frame, channelIndex, out>>
  BY DEF OpenRaw
<1>2. HeaderCut \/ Opened(w)
  BY <1>1, OpenedIs, Zenon
<1>3. bits \in Seq(Bits) /\ Len(bits) \in Nat /\ bits' = bits /\ Samples \in Nat
  <2>1. bits \in Seq(Bits)
    BY DEF Arrives
  <2> QED
    BY <1>1, <2>1, HeaderIs DEF bits
<1>4. CASE HeaderCut
  <2>1. BodyPos \in Nat /\ BodyPos > Len(bits) /\ ~frame.whole
    BY <1>4 DEF HeaderCut
  <2>2. ChansOf(Tag) \in 1 .. 2
    BY <1>1 DEF ChansOf
  <2>3. pos' > Len(bits)
    <3> DEFINE a == BodyPos
               t == ChansOf(Tag)
               m == Samples
    <3>1. /\ a \in Nat /\ a > Len(bits) /\ t \in 1 .. 2 /\ m \in Nat
          /\ pos' = a + 16 * t * m
      BY <1>1, <1>3, <2>1, <2>2
    <3> HIDE DEF a, t, m
    <3>2. CASE t = 1
      BY <1>3, <3>1, <3>2
    <3>3. CASE t = 2
      BY <1>3, <3>1, <3>3
    <3> QED
      BY <3>1, <3>2, <3>3
  <2>4. Lost'
    BY <1>1, <1>3, <2>1, <2>3 DEF Lost
  <2> QED
    BY <1>1, <2>4, LostIs
<1>5. CASE Opened(w)
  <2>1. /\ channelIndex \in 0 .. 2 - Chans(w) /\ BodyPos = BodyStart(w)
        /\ Samples = Count /\ w.escape /\ ChansOf(Tag) = Chans(w) /\ Chans(w) \in 1 .. 2
        /\ w.shifted = 0 /\ Count <= FrameLength /\ Written(channelIndex)
    BY <1>1, <1>5 DEF Opened, HeaderRight
  <2>7. Count \in Nat
    <3>1. Count \in 1 .. 2^16 - 1
      BY ProperIs, Zenon DEF Arrives, Count
    <3> QED
      BY <3>1
  <2> DEFINE B == BodyStart(w)
             E == Start(w, channelIndex + Chans(w))
             f == channelIndex + 1
  <2>2. /\ InFrame(frame.audio, f, Chans(w), w) /\ B \in Nat
        /\ E = BodyEnd(frame.audio, f, Chans(w), w, B)
        /\ E \in Nat /\ Start(w, 2) \in Nat /\ E <= Start(w, 2)
    BY <2>1, OpenedFits, Zenon DEF BodyStart
  <2> HIDE DEF B, E
  <2>3. RawLayout(frame.audio, Chans(w), w, f, B)
    BY <2>1, <2>2, RawLayoutIs, Zenon
  <2>4. pos' = E
    BY <1>1, <2>1, <2>2, <2>3 DEF RawLayout, Count, B
  <2>5. CASE E > Len(bits)
    <3>1. ~frame.whole
      <4>1. E \in Int /\ E <= Start(w, 2) + 3
        BY <2>2
      <4> QED
        BY <2>5, <4>1, NotWhole
    <3>2. Lost'
      BY <1>1, <1>3, <2>4, <2>5, <3>1 DEF Lost
    <3> QED
      BY <1>1, <3>2, LostIs
  <2>6. CASE E <= Len(bits)
    <3>1. RawStands(frame.audio, f, Chans(w), bits, B)
      <4>1. /\ FrameParts(frame.audio, w, bits)
            /\ B = StartOf(frame.audio, w, channelIndex) + HeaderSize(w)
        BY DEF Arrives, B, BodyStart, Start
      <4> QED
        BY <2>1, <4>1, Zenon DEF FrameParts, ElementParts, BodyStands
    <3>2. ASSUME NEW k \in 1 .. Chans(w), NEW j \in 0 .. Count - 1
          PROVE  mixBuffer'[k - 1][j] = frame.audio[j + 1][f + k - 1]
      <4> DEFINE p == RawAt(Chans(w), j + 1, k, B)
                 x == frame.audio[j + 1][f + k - 1]
      <4>1. /\ Count \in Nat /\ FrameLength \in Nat /\ j + 1 \in 1 .. Count
            /\ j \in 0 .. FrameLength - 1 /\ k - 1 \in Channels /\ k - 1 < Chans(w)
            /\ j < Count /\ channelIndex \in Nat
        BY <2>1, <2>7, ConfigAssumption DEF Channels
      <4>2. mixBuffer'[k - 1][j]
              = Signed(Read(bits, BodyPos + 16 * (ChansOf(Tag) * j + (k - 1)), 16), 16)
        <5>1. mixBuffer' = [ch \in Channels |-> [i \in 0 .. FrameLength - 1 |->
                              IF i < Samples /\ ch < ChansOf(Tag)
                              THEN Signed(Read(bits, BodyPos + 16 * (ChansOf(Tag) * i + ch), 16), 16)
                              ELSE mixBuffer[ch][i]]]
          BY DEF OpenRaw
        <5> QED
          BY <2>1, <4>1, <5>1, Zenon
      <4>3. p = BodyPos + 16 * (ChansOf(Tag) * j + (k - 1))
        <5>1. (j + 1) - 1 = j
          BY <4>1
        <5> QED
          BY <2>1, <5>1, Zenon DEF RawAt, B
      <4>4. Stands(Enc!BitsOf(x, 16), bits, p)
        BY <3>1, <4>1, Zenon DEF RawStands, Count
      <4>5. p \in Nat /\ p + 16 <= E
        BY <2>2, <2>3, <4>1, Zenon DEF RawLayout, Count
      <4>6. x \in Int16
        <5>1. f + k - 1 \in 1 .. 2
          BY <2>1, <4>1
        <5>2. \A i \in 1 .. Count : \A l \in 1 .. 2 : frame.audio[i][l] \in Int16
          BY ProperIs, Zenon DEF Arrives, Count
        <5> QED
          BY <4>1, <5>1, <5>2, Zenon
      <4> HIDE DEF p, x
      <4>7. Signed(Read(bits, p, 16), 16) = x
        <5> DEFINE n == 16
        <5>1. n \in 1 .. 16 /\ Int16 = SignedRange(16)
          BY DEF Int16, SignedRange
        <5>2. p + n <= Len(bits)
          BY <1>3, <2>2, <2>6, <4>5
        <5> QED
          BY <1>3, <4>4, <4>5, <4>6, <5>1, <5>2, SignedReads
      <4> QED
        BY <4>2, <4>3, <4>7, Zenon DEF x
    <3>3. Decoded(w, Chans(w))'
      <4>1. ASSUME NEW k \in 1 .. Chans(w), NEW j \in 0 .. Count - 1
            PROVE  mixBuffer'[k - 1][j] = Given(w, channelIndex, k)[j + 1]
        <5>1. j + 1 \in 1 .. Count
          BY <2>7
        <5>2. Given(w, channelIndex, k)[j + 1] = frame.audio[j + 1][f + k - 1]
          BY <2>1, <5>1, Zenon DEF Given
        <5> QED
          BY <3>2, <5>2
      <4>2. Count' = Count /\ \A k : Given(w, channelIndex, k)' = Given(w, channelIndex, k)
        BY <1>1 DEF Count, Given
      <4> QED
        BY <4>1, <4>2 DEF Decoded
    <3>4. el'.chans = Chans(w) /\ el'.n = Count /\ el'.chanBits = 16 /\ el'.mixRes = 0
      <4>1. el' = [NoElement EXCEPT !.chans = ChansOf(Tag), !.n = Samples]
        BY DEF OpenRaw
      <4> QED
        BY <2>1, <4>1 DEF NoElement
    <3>5. ElementOpen(w)'
      <4>1. Count' = Count /\ Written(channelIndex)'
        <5>1. Written(channelIndex)
          BY <2>1
        <5>2. UNCHANGED <<frame, channelIndex, out>>
          BY <1>1
        <5> QED
          BY <5>1, <5>2, Zenon DEF Written, Count
      <4> QED
        BY <1>1, <2>1, <3>4, <4>1 DEF ElementOpen
    <3>6. pos' = Start(w, channelIndex + Chans(w))' /\ pos' <= Len(bits')
      BY <1>1, <1>3, <2>4, <2>6 DEF E, Start
    <3>7. OutputRight(w)'
      BY <2>1, <3>3, <3>4, <3>5, <3>6 DEF OutputRight
    <3> QED
      BY <1>1, <3>7 DEF FrameInv, InChannel
  <2> QED
    BY <1>3, <2>2, <2>5, <2>6
<1> QED
  BY <1>2, <1>4, <1>5

-----------------------------------------------------------------------------
(* A compressed element is opened.                                         *)

\* What readCoefs returns for the two channels, and for the last of the element.
FirstRead  == readCoefs(BodyPos + 16, coefs[0])
SecondRead == readCoefs(FirstRead.end, coefs[1])
ReadOf(k)  == IF k = 1 THEN FirstRead ELSE SecondRead
LastRead   == IF ChansOf(Tag) = 2 THEN SecondRead ELSE FirstRead

LEMMA ReadsBehind ==
    ASSUME IInv
    PROVE  /\ BodyPos \in Nat /\ coefs[0] \in Coefs /\ coefs[1] \in Coefs
           /\ FirstRead.coefs \in Coefs /\ SecondRead.coefs \in Coefs
           /\ FirstRead.end \in Nat /\ FirstRead.end >= BodyPos + 32
           /\ SecondRead.end \in Nat /\ SecondRead.end >= FirstRead.end + 16
<1>1. frame.bits \in Seq(Bits) /\ BodyPos \in Nat
  BY HeaderIs DEF IInv, ElementInv
<1>2. coefs[0] \in Coefs /\ coefs[1] \in Coefs
  BY DEF IInv, TypeOK, Coefs, Channels
<1>3. ASSUME NEW p \in Nat, NEW old \in Coefs
      PROVE  /\ readCoefs(p, old).coefs \in Coefs /\ readCoefs(p, old).end \in Nat
             /\ readCoefs(p, old).end >= p + 16
  <2> DEFINE r == readCoefs(p, old)
  <2>1. r.coefs \in Coefs /\ r.end \in Nat /\ r.num \in 0 .. 31
    BY <1>1, <1>3, ReadCoefsIs, Zenon
  <2>2. r.end = p + 16 + 16 * r.num
    BY DEF readCoefs
  <2> HIDE DEF r
  <2>3. r.end >= p + 16
    BY <1>3, <2>1, <2>2
  <2> QED
    BY <2>1, <2>3 DEF r
<1>4. /\ FirstRead.coefs \in Coefs /\ FirstRead.end \in Nat
      /\ FirstRead.end >= (BodyPos + 16) + 16
  <2>1. BodyPos + 16 \in Nat
    BY <1>1
  <2> QED
    BY <1>2, <1>3, <2>1, Zenon DEF FirstRead
<1>5. /\ SecondRead.coefs \in Coefs /\ SecondRead.end \in Nat
      /\ SecondRead.end >= FirstRead.end + 16
  BY <1>2, <1>3, <1>4, Zenon DEF SecondRead
<1> QED
  BY <1>1, <1>2, <1>4, <1>5

LEMMA OpenCompressedIs ==
    ASSUME OpenCompressed
    PROVE  /\ phase = "tag" /\ Tag \in {0, 1} /\ ~Refused /\ ~Escape /\ phase' = "U"
           /\ el'.chans = ChansOf(Tag) /\ el'.n = Samples /\ el'.chanBits = ChanBits(ChansOf(Tag))
           /\ el'.mixBits = Read(bits, BodyPos, 8)
           /\ el'.mixRes = Signed(Read(bits, BodyPos + 8, 8), 8)
           /\ \A ch \in 0 .. ChansOf(Tag) - 1 :
                 LET r == IF ch = 0 THEN FirstRead ELSE SecondRead
                 IN  /\ el'.prm[ch].mode = r.mode /\ el'.prm[ch].denShift = r.denShift
                     /\ el'.prm[ch].num = r.num /\ el'.prm[ch].pbFactor = r.pbFactor
           /\ coefs' = [coefs EXCEPT ![0] = FirstRead.coefs,
                                     ![1] = IF ChansOf(Tag) = 2 THEN SecondRead.coefs ELSE @]
           /\ pos' = LastRead.end + Shifted * 8 * ChansOf(Tag) * Samples
           /\ ag' = [c |-> 0, mb |-> MB, zmode |-> 0]
           /\ UNCHANGED <<frame, given, channelIndex, numSamples, predictor, mixBuffer, out>>
  BY DEF OpenCompressed, FirstRead, SecondRead, LastRead

\* As much of the parameters as arrived is read as it was sent.
ParametersHere(w, B) ==
    IF ParametersEnd(w, Chans(w), B) <= Len(bits)
    THEN /\ LastRead.end = ParametersEnd(w, Chans(w), B)
         /\ Read(bits, B, 8) = w.mixBits /\ Signed(Read(bits, B + 8, 8), 8) = w.mixRes
         /\ \A k \in 1 .. Chans(w) :
               LET r == ReadOf(k)
               IN  /\ r.mode = w.prm[k].mode /\ r.denShift = w.prm[k].denShift
                   /\ r.pbFactor = w.prm[k].pbFactor /\ r.num = Len(w.prm[k].a)
                   /\ ListOf(r.coefs, Len(w.prm[k].a)) = w.prm[k].a
    ELSE LastRead.end > Len(bits)

LEMMA ParametersHereIs ==
    ASSUME IInv, NEW w, Arrives(w), Opened(w), ~w.escape
    PROVE  ParametersHere(w, BodyStart(w))
<1> DEFINE B == BodyStart(w)
           f == channelIndex + 1
           E == ParametersEnd(w, Chans(w), B)
<1>1. /\ channelIndex \in 0 .. 2 - Chans(w) /\ BodyPos = B /\ B \in Nat
      /\ ChansOf(Tag) = Chans(w) /\ Chans(w) \in 1 .. 2
      /\ bits \in Seq(Bits) /\ Len(bits) \in Nat
  BY DEF Opened, HeaderRight, Arrives
<1>2. InFrame(frame.audio, f, Chans(w), w)
  BY <1>1, OpenedFits, Zenon
<1>3. \A k \in 1 .. 2 : Enc!Fits(w.prm[k])
  BY ProperIs, Zenon DEF Arrives
<1>4. /\ Stands(Enc!BitsOf(w.mixBits, 8), bits, B)
      /\ Stands(Enc!BitsOf(w.mixRes, 8), bits, B + 8)
      /\ \A k \in 1 .. Chans(w) : Stands(Enc!Description(w.prm[k]), bits, DescAt(w, k, B))
  <2>1. /\ FrameParts(frame.audio, w, bits)
        /\ B = StartOf(frame.audio, w, channelIndex) + HeaderSize(w)
    BY DEF Arrives, BodyStart, Start
  <2> HIDE DEF B
  <2> QED
    BY <1>1, <2>1, Zenon DEF FrameParts, ElementParts, BodyStands
<1> HIDE DEF B
<1>5. CompressedLayout(frame.audio, f, Chans(w), w, B)
  BY <1>1, <1>2, CompressedLayoutIs, Zenon
<1>6. /\ DescAt(w, 1, B) = B + 16 /\ DescAt(w, 1, B) \in Nat /\ E \in Nat
      /\ DescAt(w, 1, B) + DescriptionSize(w.prm[1]) <= E
      /\ E = DescAt(w, Chans(w), B) + DescriptionSize(w.prm[Chans(w)])
      /\ Chans(w) = 2 => DescAt(w, 2, B) = DescAt(w, 1, B) + DescriptionSize(w.prm[1])
                         /\ DescAt(w, 2, B) \in Nat
  <2>1. 1 \in 1 .. Chans(w)
    BY <1>1
  <2> QED
    BY <1>5, <2>1, Zenon DEF CompressedLayout
<1>7. DescriptionSize(w.prm[1]) \in Nat /\ \A k \in 1 .. Chans(w) : DescriptionSize(w.prm[k]) \in Nat
  <2>1. \A k \in 1 .. Chans(w) : DescriptionSize(w.prm[k]) \in Nat
    BY <1>2, PartSizes, Zenon
  <2>2. 1 \in 1 .. Chans(w)
    BY <1>1
  <2> QED
    BY <2>1, <2>2
<1>8. /\ coefs[0] \in Coefs /\ coefs[1] \in Coefs
      /\ FirstRead.end \in Nat /\ FirstRead.end >= BodyPos + 32
      /\ SecondRead.end \in Nat /\ SecondRead.end >= FirstRead.end + 16
  BY ReadsBehind, Zenon
<1>9. ParametersRead(FirstRead, w.prm[1], DescAt(w, 1, B))
  <2>1. 1 \in 1 .. Chans(w) /\ 1 \in 1 .. 2
    BY <1>1
  <2>2. Enc!Fits(w.prm[1]) /\ Stands(Enc!Description(w.prm[1]), bits, DescAt(w, 1, B))
    BY <1>3, <1>4, <2>1, Zenon
  <2>3. FirstRead = readCoefs(DescAt(w, 1, B), coefs[0])
    BY <1>1, <1>6, Zenon DEF FirstRead
  <2> QED
    BY <1>1, <1>6, <1>8, <2>2, <2>3, ParametersReads, Zenon
<1>10. ASSUME Chans(w) = 2, DescAt(w, 1, B) + DescriptionSize(w.prm[1]) <= Len(bits)
       PROVE  ParametersRead(SecondRead, w.prm[2], DescAt(w, 2, B))
  <2>1. 2 \in 1 .. Chans(w) /\ 2 \in 1 .. 2
    BY <1>10
  <2>2. Enc!Fits(w.prm[2]) /\ Stands(Enc!Description(w.prm[2]), bits, DescAt(w, 2, B))
    BY <1>3, <1>4, <2>1, Zenon
  <2>3. SecondRead = readCoefs(DescAt(w, 2, B), coefs[1])
    <3>1. FirstRead.end = DescAt(w, 1, B) + DescriptionSize(w.prm[1])
      BY <1>9, <1>10, Zenon DEF ParametersRead
    <3> QED
      BY <1>6, <1>10, <3>1, Zenon DEF SecondRead
  <2> QED
    BY <1>1, <1>6, <1>8, <1>10, <2>2, <2>3, ParametersReads, Zenon
<1> HIDE DEF E
<1>11. CASE E <= Len(bits)
  <2>1. /\ B + 8 <= Len(bits) /\ B + 16 <= Len(bits) /\ B + 8 \in Nat
        /\ DescAt(w, 1, B) + DescriptionSize(w.prm[1]) <= Len(bits)
    BY <1>1, <1>6, <1>7, <1>11
  <2>2. w.mixBits \in 0 .. 255 /\ w.mixRes \in -128 .. 127
    BY Zenon DEF Arrives, Enc!Proper
  <2>3. Read(bits, B, 8) = w.mixBits
    <3>1. w.mixBits \in Nat /\ w.mixBits < 2^8 /\ 8 \in 0 .. 16
      BY <2>2
    <3> DEFINE n == 8
    <3> HIDE DEF n
    <3>2. Read(bits, B, n) = w.mixBits
      BY <1>1, <1>4, <2>1, <3>1, NumberReads DEF n
    <3> QED
      BY <3>2 DEF n
  <2>4. Signed(Read(bits, B + 8, 8), 8) = w.mixRes
    <3>1. w.mixRes \in SignedRange(8) /\ 8 \in 1 .. 16
      BY <2>2 DEF SignedRange
    <3> DEFINE n == 8
               p == B + 8
    <3>2. p + n <= Len(bits) /\ p \in Nat /\ n \in 1 .. 16 /\ w.mixRes \in SignedRange(n)
          /\ Stands(Enc!BitsOf(w.mixRes, n), bits, p)
      BY <1>1, <1>4, <2>1, <3>1
    <3> HIDE DEF n, p
    <3>3. Signed(Read(bits, p, n), n) = w.mixRes
      BY <1>1, <3>2, SignedReads
    <3> QED
      BY <3>3 DEF n, p
  <2>5. ASSUME NEW k \in 1 .. Chans(w)
        PROVE  /\ ReadOf(k).mode = w.prm[k].mode /\ ReadOf(k).denShift = w.prm[k].denShift
               /\ ReadOf(k).pbFactor = w.prm[k].pbFactor /\ ReadOf(k).num = Len(w.prm[k].a)
               /\ ListOf(ReadOf(k).coefs, Len(w.prm[k].a)) = w.prm[k].a
    <3>1. CASE k = 1
      BY <1>9, <2>1, <3>1, Zenon DEF ParametersRead, ReadOf
    <3>2. CASE k # 1
      <4>1. k = 2 /\ Chans(w) = 2 /\ k # 1
        BY <1>1, <3>2
      <4>2. DescAt(w, 2, B) + DescriptionSize(w.prm[2]) <= Len(bits)
        BY <1>6, <1>11, <4>1
      <4> QED
        BY <1>10, <2>1, <4>1, <4>2, Zenon DEF ParametersRead, ReadOf
    <3> QED
      BY <3>1, <3>2
  <2>6. LastRead.end = E
    <3>1. CASE Chans(w) = 1
      <4>1. LastRead = FirstRead
        <5>1. 1 # 2
          OBVIOUS
        <5> QED
          BY <1>1, <3>1, <5>1, Zenon DEF LastRead
      <4> QED
        BY <1>6, <1>9, <2>1, <3>1, <4>1, Zenon DEF ParametersRead
    <3>2. CASE Chans(w) = 2
      <4>1. LastRead = SecondRead
        BY <1>1, <3>2, Zenon DEF LastRead
      <4>2. DescAt(w, 2, B) + DescriptionSize(w.prm[2]) <= Len(bits)
        BY <1>6, <1>11, <3>2
      <4> QED
        BY <1>6, <1>10, <2>1, <3>2, <4>1, <4>2, Zenon DEF ParametersRead
    <3> QED
      BY <1>1, <3>1, <3>2
  <2> QED
    BY <1>11, <2>3, <2>4, <2>5, <2>6, Zenon DEF ParametersHere, E, B
<1>12. CASE ~(E <= Len(bits))
  <2>1. LastRead.end > Len(bits)
    <3>1. CASE Chans(w) = 1
      <4>1. LastRead = FirstRead
        <5>1. 1 # 2
          OBVIOUS
        <5> QED
          BY <1>1, <3>1, <5>1, Zenon DEF LastRead
      <4> QED
        BY <1>6, <1>9, <1>12, <3>1, <4>1, Zenon DEF ParametersRead
    <3>2. CASE Chans(w) = 2
      <4>1. LastRead = SecondRead
        BY <1>1, <3>2, Zenon DEF LastRead
      <4>2. CASE DescAt(w, 1, B) + DescriptionSize(w.prm[1]) <= Len(bits)
        <5>1. ~(DescAt(w, 2, B) + DescriptionSize(w.prm[2]) <= Len(bits))
          BY <1>6, <1>12, <3>2
        <5> QED
          BY <1>10, <3>2, <4>1, <4>2, <5>1, Zenon DEF ParametersRead
      <4>3. CASE ~(DescAt(w, 1, B) + DescriptionSize(w.prm[1]) <= Len(bits))
        <5>1. FirstRead.end > Len(bits)
          BY <1>9, <4>3, Zenon DEF ParametersRead
        <5> QED
          BY <1>1, <1>8, <4>1, <5>1
      <4> QED
        BY <4>2, <4>3
    <3> QED
      BY <1>1, <3>1, <3>2
  <2> QED
    BY <1>12, <2>1, Zenon DEF ParametersHere, E, B
<1> QED
  BY <1>11, <1>12

\* Within an element, what is known of its channels stays the same.
LEMMA SameElement ==
    ASSUME frame' = frame, channelIndex' = channelIndex, NEW w
    PROVE  /\ \A k : ResidualsAt(w, k)' = ResidualsAt(w, k)
           /\ \A k : CodeStart(w, k)' = CodeStart(w, k)
           /\ Count' = Count /\ bits' = bits
           /\ \A c : Start(w, c)' = Start(w, c)
           /\ \A c, k : Given(w, c, k)' = Given(w, c, k)
  BY DEF ResidualsAt, CodeStart, BodyStart, Count, bits, Start, Given

\* A channel of an element: its residuals can be compressed, and their code is what
\* stands where the channel does.
ChannelKnown(w, k) ==
    /\ Compressible(ResidualsAt(w, k), Weight(w.prm[k]), 15 + Chans(w))
    /\ Len(ResidualsAt(w, k)) = Count
    /\ Code(frame.audio, channelIndex + 1, Chans(w), w, k)
         = Enc!Compress(ResidualsAt(w, k), Weight(w.prm[k]), 15 + Chans(w))
    /\ CodeStart(w, k) \in Nat
    /\ Stands(Enc!Compress(ResidualsAt(w, k), Weight(w.prm[k]), 15 + Chans(w)),
              bits, CodeStart(w, k))

LEMMA ChannelKnownIs ==
    ASSUME NEW w, Arrives(w), channelIndex \in 0 .. 2 - Chans(w), ~w.escape,
           NEW k \in 1 .. Chans(w)
    PROVE  ChannelKnown(w, k)
<1> DEFINE f == channelIndex + 1
           x == Signal(frame.audio, f, Chans(w), w, k)
           B == BodyStart(w)
<1>1. InFrame(frame.audio, f, Chans(w), w) /\ B \in Nat
  BY OpenedFits, Zenon DEF BodyStart
<1>2. CanCode(x, w.prm[k], 15 + Chans(w))
  BY <1>1, SignalIs, Zenon
<1>3. CodedChannel(x, w.prm[k], 15 + Chans(w))
  BY <1>2, CodedChannelIs, Zenon
<1>4. ResidualsAt(w, k) = ResidualsFor(x, w.prm[k], 15 + Chans(w))
  BY DEF ResidualsAt
<1>5. Len(x) = Count
  <2>1. Count \in Nat
    <3>1. Count \in 1 .. 2^16 - 1
      BY ProperIs, Zenon DEF Arrives, Count
    <3> QED
      BY <3>1
  <2> QED
    BY <2>1 DEF Signal, Count
<1>6. Stands(Code(frame.audio, f, Chans(w), w, k), bits, CodeStart(w, k))
  <2>1. /\ FrameParts(frame.audio, w, bits)
        /\ B = StartOf(frame.audio, w, channelIndex) + HeaderSize(w)
    BY DEF Arrives, BodyStart, Start
  <2> HIDE DEF B
  <2> QED
    BY <2>1, Zenon DEF FrameParts, ElementParts, BodyStands, CodeStart, B
<1>7. CodeStart(w, k) \in Nat
  <2>1. CompressedLayout(frame.audio, f, Chans(w), w, B)
    BY <1>1, CompressedLayoutIs, Zenon
  <2> QED
    BY <2>1, Zenon DEF CompressedLayout, CodeStart
<1> HIDE DEF x
<1>8. Code(frame.audio, f, Chans(w), w, k) = Enc!Channel(x, w.prm[k], 15 + Chans(w))
  BY DEF Code, x
<1> QED
  BY <1>3, <1>4, <1>5, <1>6, <1>7, <1>8, Zenon DEF ChannelKnown, CodedChannel

\* A channel starts where its code does, with nothing decoded.
LEMMA ChannelStarts ==
    ASSUME NEW w, NEW k, ChannelKnown(w, k)
    PROVE  /\ OnTheWay(FirstCoder, ResidualsAt(w, k), Weight(w.prm[k]), 15 + Chans(w))
           /\ AgOf(FirstCoder) = [c |-> 0, mb |-> MB, zmode |-> 0]
           /\ CodeStart(w, k) = CodeStart(w, k) + Len(FirstCoder.bits)
           /\ 0 .. FirstCoder.c - 1 = {}
<1>1. OnTheWay(FirstCoder, ResidualsAt(w, k), Weight(w.prm[k]), 15 + Chans(w))
  BY StartsOnTheWay, Zenon DEF ChannelKnown
<1>2. AgOf(FirstCoder) = [c |-> 0, mb |-> MB, zmode |-> 0]
      /\ Len(FirstCoder.bits) = 0 /\ FirstCoder.c = 0
  BY DEF AgOf, FirstCoder
<1>3. CodeStart(w, k) \in Nat
  BY DEF ChannelKnown
<1> QED
  BY <1>1, <1>2, <1>3

LEMMA OpenCompressedRight ==
    ASSUME IInv, NEW w, Arrives(w), FrameInv(w), OpenCompressed
    PROVE  FrameInv(w)'
<1> DEFINE body == Shifted * 8 * ChansOf(Tag) * Samples
<1>1. /\ phase = "tag" /\ Tag \in {0, 1} /\ ~Refused /\ ~Escape /\ phase' = "U"
      /\ pos' = LastRead.end + body
      /\ UNCHANGED <<frame, channelIndex, out>>
  BY OpenCompressedIs
<1>2. HeaderCut \/ Opened(w)
  BY <1>1, OpenedIs, Zenon
<1>3. bits \in Seq(Bits) /\ Len(bits) \in Nat /\ bits' = bits
  <2>1. bits \in Seq(Bits)
    BY DEF Arrives
  <2> QED
    BY <1>1, <2>1 DEF bits
<1>4. /\ BodyPos \in Nat /\ FirstRead.end \in Nat /\ FirstRead.end >= BodyPos + 32
      /\ SecondRead.end \in Nat /\ SecondRead.end >= FirstRead.end + 16
  BY ReadsBehind
<1>5. LastRead.end \in Nat /\ LastRead.end >= BodyPos
  BY <1>4 DEF LastRead
<1>6. CASE HeaderCut
  <2>1. BodyPos > Len(bits) /\ ~frame.whole
    BY <1>6 DEF HeaderCut
  <2>2. body \in Nat
    <3>1. Shifted \in Nat /\ Samples \in Nat /\ ChansOf(Tag) \in Nat
      <4>1. Shifted \in 0 .. 3 /\ Samples \in Nat
        BY HeaderIs
      <4>2. ChansOf(Tag) \in Nat
        BY <1>1 DEF ChansOf
      <4> QED
        BY <4>1, <4>2
    <3> DEFINE a == Shifted * 8
               b == a * ChansOf(Tag)
    <3>2. a \in Nat
      BY <3>1
    <3> HIDE DEF a
    <3>3. b \in Nat
      BY <3>1, <3>2
    <3> HIDE DEF b
    <3>4. b * Samples \in Nat
      BY <3>1, <3>3
    <3> QED
      BY <3>4 DEF a, b
  <2> HIDE DEF body
  <2>3. pos' > Len(bits)
    BY <1>1, <1>3, <1>4, <1>5, <2>1, <2>2
  <2>4. Lost'
    BY <1>1, <1>3, <2>1, <2>3 DEF Lost
  <2> QED
    BY <1>1, <2>4, LostIs
<1>7. CASE Opened(w)
  <2>1. /\ channelIndex \in 0 .. 2 - Chans(w) /\ BodyPos = BodyStart(w)
        /\ Samples = Count /\ ~w.escape /\ ChansOf(Tag) = Chans(w) /\ Chans(w) \in 1 .. 2
        /\ Shifted = 0 /\ w.shifted = 0 /\ Count <= FrameLength /\ Written(channelIndex)
    BY <1>1, <1>7 DEF Opened, HeaderRight
  <2> DEFINE B == BodyStart(w)
             E == Start(w, channelIndex + Chans(w))
             f == channelIndex + 1
             P == ParametersEnd(w, Chans(w), B)
  <2>2. /\ InFrame(frame.audio, f, Chans(w), w) /\ B \in Nat
        /\ E = BodyEnd(frame.audio, f, Chans(w), w, B)
        /\ E \in Nat /\ Start(w, 2) \in Nat /\ E <= Start(w, 2)
    BY <2>1, OpenedFits, Zenon DEF BodyStart
  <2> HIDE DEF B, E
  <2>3. CompressedLayout(frame.audio, f, Chans(w), w, B)
    BY <2>1, <2>2, CompressedLayoutIs, Zenon
  <2>4. P \in Nat /\ P <= E /\ CodeAt(frame.audio, f, Chans(w), w, 1, B) = P
    BY <2>2, <2>3, Zenon DEF CompressedLayout
  <2>5. ParametersHere(w, B)
    BY <1>7, <2>1, ParametersHereIs, Zenon DEF B
  <2>6. pos' = LastRead.end
    <3>1. body = 0
      <4>1. Count \in Nat
        <5>1. Count \in 1 .. 2^16 - 1
          BY ProperIs, Zenon DEF Arrives, Count
        <5> QED
          BY <5>1
      <4>2. Shifted * 8 = 0
        BY <2>1
      <4>3. Shifted * 8 * ChansOf(Tag) = 0
        BY <2>1, <4>2
      <4>4. Shifted * 8 * ChansOf(Tag) * Samples = 0
        BY <2>1, <4>1, <4>3
      <4> QED
        BY <4>4
    <3> HIDE DEF body
    <3> QED
      BY <1>1, <1>5, <3>1
  <2> HIDE DEF P
  <2>7. CASE ~(P <= Len(bits))
    <3>1. ~frame.whole
      <4>1. P \in Int /\ P > Len(bits) /\ P <= Start(w, 2) + 3
        BY <1>3, <2>2, <2>4, <2>7
      <4> QED
        BY <4>1, NotWhole
    <3>2. LastRead.end > Len(bits)
      BY <2>5, <2>7, Zenon DEF ParametersHere, P
    <3>3. Lost'
      BY <1>1, <1>3, <2>6, <3>1, <3>2 DEF Lost
    <3> QED
      BY <1>1, <3>3, LostIs
  <2>8. CASE P <= Len(bits)
    <3>1. /\ LastRead.end = P
          /\ Read(bits, B, 8) = w.mixBits /\ Signed(Read(bits, B + 8, 8), 8) = w.mixRes
          /\ \A k \in 1 .. Chans(w) :
                LET r == ReadOf(k)
                IN  /\ r.mode = w.prm[k].mode /\ r.denShift = w.prm[k].denShift
                    /\ r.pbFactor = w.prm[k].pbFactor /\ r.num = Len(w.prm[k].a)
                    /\ ListOf(r.coefs, Len(w.prm[k].a)) = w.prm[k].a
      BY <2>5, <2>8, Zenon DEF ParametersHere, P
    <3>2. /\ el'.chans = Chans(w) /\ el'.n = Count /\ el'.chanBits = 15 + Chans(w)
          /\ el'.mixBits = w.mixBits /\ el'.mixRes = w.mixRes
      <4>1. ChanBits(Chans(w)) = 15 + Chans(w)
        BY <2>1 DEF ChanBits
      <4>2. /\ el'.chans = ChansOf(Tag) /\ el'.n = Samples /\ el'.chanBits = ChanBits(ChansOf(Tag))
            /\ el'.mixBits = Read(bits, BodyPos, 8)
            /\ el'.mixRes = Signed(Read(bits, BodyPos + 8, 8), 8)
        BY OpenCompressedIs, Zenon
      <4> QED
        BY <2>1, <3>1, <4>1, <4>2, Zenon DEF B
    <3>3. ASSUME NEW k \in 1 .. Chans(w)
          PROVE  /\ el'.prm[k - 1].mode = w.prm[k].mode
                 /\ el'.prm[k - 1].denShift = w.prm[k].denShift
                 /\ el'.prm[k - 1].pbFactor = w.prm[k].pbFactor
                 /\ el'.prm[k - 1].num = Len(w.prm[k].a)
                 /\ ListOf(coefs'[k - 1], Len(w.prm[k].a)) = w.prm[k].a
      <4> DEFINE ch == k - 1
                 r == ReadOf(k)
      <4>1. /\ ch \in 0 .. ChansOf(Tag) - 1 /\ ch \in {0, 1} /\ (ch = 0 <=> k = 1)
            /\ (ch = 1 => ChansOf(Tag) = 2)
        BY <2>1
      <4>2. r = IF ch = 0 THEN FirstRead ELSE SecondRead
        BY <4>1, Zenon DEF ReadOf
      <4> HIDE DEF ch
      <4>3. /\ el'.prm[ch].mode = r.mode /\ el'.prm[ch].denShift = r.denShift
            /\ el'.prm[ch].num = r.num /\ el'.prm[ch].pbFactor = r.pbFactor
        BY <4>1, <4>2, OpenCompressedIs, Zenon
      <4>4. coefs'[ch] = r.coefs
        <5>1. coefs' = [coefs EXCEPT ![0] = FirstRead.coefs,
                                     ![1] = IF ChansOf(Tag) = 2 THEN SecondRead.coefs ELSE @]
          BY OpenCompressedIs, Zenon
        <5>2. DOMAIN coefs = {0, 1}
          BY DEF IInv, TypeOK, Channels
        <5> QED
          BY <4>1, <4>2, <5>1, <5>2
      <4> QED
        BY <3>1, <4>3, <4>4, Zenon DEF ch
    <3>4. /\ \A k : ResidualsAt(w, k)' = ResidualsAt(w, k)
          /\ \A k : CodeStart(w, k)' = CodeStart(w, k)
          /\ Count' = Count
      BY <1>1, SameElement, Zenon
    <3>5. Chan' = 0
      BY <1>1 DEF Chan
    <3>6. ElementOpen(w)'
      <4>1. Written(channelIndex)'
        BY <1>1, <2>1, <3>4 DEF Written
      <4> QED
        BY <1>1, <2>1, <3>2, <3>4, <4>1 DEF ElementOpen
    <3>7. ParametersHeld(w)'
      BY <3>2, <3>3 DEF ParametersHeld
    <3>8. Decoded(w, 0)'
      BY DEF Decoded
    <3>9. With(FirstCoder, w, 1)'
      <4>1. 1 \in 1 .. Chans(w)
        BY <2>1
      <4>2. ChannelKnown(w, 1)
        BY <2>1, <4>1, ChannelKnownIs
      <4>3. ag' = [c |-> 0, mb |-> MB, zmode |-> 0]
        BY OpenCompressedIs, Zenon
      <4>4. pos' = CodeStart(w, 1)
        BY <2>4, <2>6, <3>1, Zenon DEF CodeStart, B
      <4>5. pos' <= Len(bits)
        BY <2>6, <2>8, <3>1
      <4>6. /\ OnTheWay(FirstCoder, ResidualsAt(w, 1), Weight(w.prm[1]), 15 + Chans(w))
            /\ ag' = AgOf(FirstCoder) /\ pos' = CodeStart(w, 1) + Len(FirstCoder.bits)
            /\ pos' <= Len(bits)
            /\ 0 .. FirstCoder.c - 1 = {}
        BY <4>2, <4>3, <4>4, <4>5, ChannelStarts, Zenon
      <4> QED
        BY <1>3, <3>4, <4>6, Zenon DEF With
    <3>10. ChannelRight(w)'
      <4>1. Chan' + 1 = 1
        BY <3>5
      <4> QED
        BY <2>1, <3>5, <3>6, <3>7, <3>8, <3>9, <4>1, Zenon DEF ChannelRight
    <3> QED
      BY <1>1, <3>10 DEF FrameInv, InChannel
  <2> QED
    BY <2>7, <2>8
<1> QED
  BY <1>2, <1>6, <1>7

-----------------------------------------------------------------------------
(* A symbol of a channel.                                                  *)

\* No symbol is coded in no bits.
LEMMA SymbolHasBits ==
    ASSUME NEW res, NEW weight, NEW b, NEW s, Coding(res, weight, b, s)
    PROVE  /\ Len(NextCoder(res, weight, b, s).bits) \in Nat /\ Len(s.bits) \in Nat
           /\ Len(NextCoder(res, weight, b, s).bits) > Len(s.bits)
<1> DEFINE n == CodeOf(res, s)
           k == Least(Lg3a(s.mb \div 2^QbShift), KB)
           m == 2^k - 1
           q == n \div m
           word == ResidualWord(res, b, s)
           zw == RunWord(res, weight, s)
           t == NextCoder(res, weight, b, s)
<1>1. SymbolIs(res, weight, b, s) /\ s.bits \in Seq(Bits) /\ b \in Nat
  <2>1. s.bits \in Seq(Bits) /\ b \in Nat
    BY DEF Coding, Coders
  <2> QED
    BY <2>1, SymbolKnown
<1>2. /\ n \in Nat /\ k \in 1 .. 16 /\ word = Enc!CodeWord(m, k, n, b) /\ word \in Seq(Bits)
      /\ RunAfter(res, weight, s) => zw \in Seq(Bits)
      /\ t.bits = IF RunAfter(res, weight, s) THEN (s.bits \o word) \o zw ELSE s.bits \o word
  <2>1. /\ n \in Nat /\ k \in 1 .. 16 /\ word = Enc!CodeWord(m, k, n, b) /\ word \in Seq(Bits)
        /\ RunAfter(res, weight, s) => zw \in Seq(Bits)
    BY <1>1 DEF SymbolIs
  <2> HIDE DEF n, k, m, word, zw
  <2>2. t.bits = IF RunAfter(res, weight, s) THEN (s.bits \o word) \o zw ELSE s.bits \o word
    BY <1>1 DEF SymbolIs, word, zw
  <2> QED
    BY <2>1, <2>2
<1> HIDE DEF t, n, k, zw
<1>3. Len(word) \in Nat /\ Len(word) >= 1
  <2>1. k \in Nat \ {0}
    BY <1>2
  <2>2. m \in Nat \ {0}
    BY <2>1, ModulusIs
  <2> HIDE DEF m, word
  <2>3. IsWord(word, q, m, k, n, b)
    BY <1>1, <1>2, <2>1, <2>2, CodeWordIs
  <2>4. Len(Suffix(m, k, n)) \in Nat
    BY <1>2, <2>1, <2>2, SuffixIs
  <2>5. q \in Nat /\ Len(word) = IF q >= 9 THEN 9 + b ELSE q + 1 + Len(Suffix(m, k, n))
    BY <2>3 DEF IsWord
  <2> HIDE DEF q
  <2> QED
    BY <1>1, <2>4, <2>5
<1> HIDE DEF word
<1>4. /\ s.bits \o word \in Seq(Bits) /\ Len(s.bits \o word) = Len(s.bits) + Len(word)
      /\ Len(s.bits) \in Nat
  BY <1>1, <1>2, ConcatIs, Zenon
<1>5. ASSUME RunAfter(res, weight, s) PROVE Len(t.bits) \in Nat /\ Len(t.bits) > Len(s.bits)
  <2> DEFINE y == s.bits \o word
  <2>1. y \in Seq(Bits) /\ zw \in Seq(Bits) /\ t.bits = y \o zw
    BY <1>2, <1>4, <1>5, Zenon
  <2>2. Len(y) = Len(s.bits) + Len(word)
    BY <1>4
  <2> HIDE DEF y
  <2>3. Len(t.bits) = Len(y) + Len(zw) /\ Len(zw) \in Nat
    BY <2>1, ConcatIs, Zenon
  <2> QED
    BY <1>3, <1>4, <2>2, <2>3
<1>6. ASSUME ~RunAfter(res, weight, s) PROVE Len(t.bits) \in Nat /\ Len(t.bits) > Len(s.bits)
  <2>1. Len(t.bits) = Len(s.bits) + Len(word)
    BY <1>2, <1>4, <1>6, Zenon
  <2> QED
    BY <1>3, <1>4, <2>1
<1> QED
  BY <1>4, <1>5, <1>6, Zenon DEF t

\* The channel that is decoded, in the terms of the decoder's variables.
LEMMA ChannelHere ==
    ASSUME IInv, NEW w, Arrives(w), InChannel, ChannelRight(w)
    PROVE  /\ Chan \in Channels /\ Chan + 1 \in 1 .. Chans(w) /\ ChannelKnown(w, Chan + 1)
           /\ el.n = Len(ResidualsAt(w, Chan + 1)) /\ el.chanBits = 15 + Chans(w)
           /\ pb = Weight(w.prm[Chan + 1]) /\ Chans(w) \in 1 .. 2
           /\ Count \in Nat \ {0} /\ Count <= FrameLength /\ FrameLength \in Nat
<1>1. /\ channelIndex \in 0 .. 2 - Chans(w) /\ el.chans = Chans(w) /\ el.n = Count
      /\ Count <= FrameLength /\ ~w.escape
  BY DEF ChannelRight, ElementOpen
<1>2. Chans(w) \in 1 .. 2 /\ Count \in Nat \ {0} /\ FrameLength \in Nat
  <2>1. Count \in 1 .. 2^16 - 1 /\ Chans(w) \in 1 .. 2
    BY ProperIs, Zenon DEF Arrives, Count
  <2> QED
    BY <2>1, ConfigAssumption
<1>3. Chan \in {0, 1} /\ Chan + 1 \in 1 .. Chans(w) /\ (Chan + 1) - 1 = Chan
  <2>1. CASE phase = "U"
    BY <1>2, <2>1 DEF Chan
  <2>2. CASE phase = "V"
    <3>1. el.chans = 2
      BY <2>2 DEF IInv, ElementInv
    <3>2. Chan = 1
      BY <2>2 DEF Chan
    <3> QED
      BY <1>1, <3>1, <3>2
  <2> QED
    BY <2>1, <2>2 DEF InChannel
<1>4. ChannelKnown(w, Chan + 1)
  BY <1>1, <1>3, ChannelKnownIs, Zenon
<1>5. el.n = Len(ResidualsAt(w, Chan + 1))
  BY <1>1, <1>4 DEF ChannelKnown
<1>6. el.chanBits = 15 + Chans(w)
  BY DEF ChannelRight, ParametersHeld
<1>7. pb = Weight(w.prm[Chan + 1])
  <2>1. el.prm[(Chan + 1) - 1].pbFactor = w.prm[Chan + 1].pbFactor
    BY <1>3, Zenon DEF ChannelRight, ParametersHeld
  <2> QED
    BY <1>3, <2>1, Zenon DEF pb, Weight
<1> QED
  BY <1>1, <1>2, <1>3, <1>4, <1>5, <1>6, <1>7, Zenon DEF Channels

\* The symbol that takes the coder s to t is read, and the frame goes on up to its end.
SymbolHere(w, k, s, t) ==
    /\ OnTheWay(t, ResidualsAt(w, k), Weight(w.prm[k]), 15 + Chans(w))
    /\ t \in Coders(ResidualsAt(w, k))
    /\ s \in Coders(ResidualsAt(w, k)) /\ Follows(ResidualsAt(w, k), s, t)
    /\ Len(s.bits) \in Nat /\ Len(t.bits) \in Nat /\ Len(t.bits) > Len(s.bits)
    /\ SymbolRead(DynStep(bits, pos, ag, el.n, pb, KB, el.chanBits),
                  ResidualsAt(w, k), s, t, bits, CodeStart(w, k))
    /\ CodeStart(w, k) + Len(t.bits) <= Start(w, 2)

LEMMA CodeFits ==
    ASSUME NEW w, Arrives(w), channelIndex \in 0 .. 2 - Chans(w), ~w.escape,
           NEW k \in 1 .. Chans(w)
    PROVE  /\ CodeStart(w, k) + Len(Code(frame.audio, channelIndex + 1, Chans(w), w, k))
                <= Start(w, 2)
           /\ Start(w, 2) \in Nat /\ CodeStart(w, k) \in Nat
           /\ Len(Code(frame.audio, channelIndex + 1, Chans(w), w, k)) \in Nat
           /\ k = Chans(w) =>
                 CodeStart(w, k) + Len(Code(frame.audio, channelIndex + 1, Chans(w), w, k))
                   = Start(w, channelIndex + Chans(w))
           /\ k = 1 /\ Chans(w) = 2 =>
                 CodeStart(w, 1) + Len(Code(frame.audio, channelIndex + 1, Chans(w), w, 1))
                   = CodeStart(w, 2)
<1> DEFINE f == channelIndex + 1
           B == BodyStart(w)
           E == Start(w, channelIndex + Chans(w))
           len == Len(Code(frame.audio, f, Chans(w), w, k))
<1>1. /\ InFrame(frame.audio, f, Chans(w), w) /\ B \in Nat
      /\ E = BodyEnd(frame.audio, f, Chans(w), w, B)
      /\ E \in Nat /\ Start(w, 2) \in Nat /\ E <= Start(w, 2)
  BY OpenedFits, Zenon DEF BodyStart
<1>2. CompressedLayout(frame.audio, f, Chans(w), w, B)
  BY <1>1, CompressedLayoutIs, Zenon
<1>3. len \in Nat
  BY <1>1, PartSizes, Zenon
<1>4. CodeStart(w, k) \in Nat /\ CodeStart(w, k) + len <= E
  BY <1>1, <1>2, Zenon DEF CompressedLayout, CodeStart
<1>5. k = Chans(w) => CodeStart(w, k) + len = E
  BY <1>1, <1>2, Zenon DEF CompressedLayout, CodeStart
<1>6. k = 1 /\ Chans(w) = 2 =>
         CodeStart(w, 1) + Len(Code(frame.audio, f, Chans(w), w, 1)) = CodeStart(w, 2)
  BY <1>2, Zenon DEF CompressedLayout, CodeStart
<1> HIDE DEF E, len
<1>7. CodeStart(w, k) + len <= Start(w, 2)
  BY <1>1, <1>3, <1>4
<1> QED
  BY <1>1, <1>3, <1>4, <1>5, <1>6, <1>7, Zenon DEF E, len

LEMMA SymbolHereIs ==
    ASSUME IInv, NEW w, Arrives(w), InChannel, ChannelRight(w),
           NEW s, With(s, w, Chan + 1), ag.c < el.n
    PROVE  \E t : SymbolHere(w, Chan + 1, s, t)
<1> DEFINE k == Chan + 1
           res == ResidualsAt(w, k)
           W == Weight(w.prm[k])
           b == 15 + Chans(w)
           t == NextCoder(res, W, b, s)
           code == Enc!Compress(res, W, b)
           p == CodeStart(w, k)
<1>1. /\ k \in 1 .. Chans(w) /\ ChannelKnown(w, k)
      /\ el.n = Len(res) /\ el.chanBits = b /\ pb = W
  BY ChannelHere, Zenon
<1>2. /\ OnTheWay(s, res, W, b) /\ ag = AgOf(s) /\ pos = p + Len(s.bits) /\ pos <= Len(bits)
  BY DEF With
<1>3. /\ Compressible(res, W, b) /\ p \in Nat /\ Stands(code, bits, p)
      /\ Code(frame.audio, channelIndex + 1, Chans(w), w, k) = code
  BY <1>1, Zenon DEF ChannelKnown
<1>4. bits \in Seq(Bits) /\ channelIndex \in 0 .. 2 - Chans(w) /\ ~w.escape
  BY DEF Arrives, ChannelRight, ElementOpen
<1> HIDE DEF k, res, W, b, code, p
<1>5. s \in Coders(res) /\ s.c < Len(res)
  <2>1. s \in Coders(res)
    BY <1>2, <1>3, OnTheWayIs, Zenon
  <2>2. ag.c = s.c
    BY <1>2 DEF AgOf
  <2> QED
    BY <1>1, <2>1, <2>2
<1>6. OnTheWay(t, res, W, b)
  BY <1>2, <1>3, <1>5, OnTheWayIs, Zenon
<1>7. Coding(res, W, b, s)
  BY <1>3, <1>5, Zenon DEF Coding, Compressible
<1>8. Follows(res, s, t)
  BY <1>7, NextCoderIs, Zenon
<1>9. Len(t.bits) \in Nat /\ Len(s.bits) \in Nat /\ Len(t.bits) > Len(s.bits)
  BY <1>7, SymbolHasBits, Zenon
<1>10. t \in Coders(res)
  BY <1>3, <1>6, OnTheWayIs, Zenon
<1> HIDE DEF t
<1>12. Stands(t.bits, bits, p) /\ Len(t.bits) <= Len(code)
  BY <1>3, <1>4, <1>6, CodeStands, Zenon DEF StandsIn, code
<1>13. SymbolStands(res, W, b, s, t, bits, p)
  BY <1>2, <1>3, <1>4, <1>7, <1>12, Zenon DEF SymbolStands, t
<1>14. SymbolRead(DynStep(bits, p + Len(s.bits), AgOf(s), Len(res), W, KB, b), res, s, t, bits, p)
  BY <1>13, SymbolReads, Zenon
<1>15. p + Len(t.bits) <= Start(w, 2)
  <2>1. /\ p + Len(code) <= Start(w, 2) /\ Start(w, 2) \in Nat /\ Len(code) \in Nat
    BY <1>1, <1>3, <1>4, CodeFits, Zenon DEF p
  <2> QED
    BY <1>3, <1>9, <1>12, <2>1
<1>16. SymbolRead(DynStep(bits, pos, ag, el.n, pb, KB, el.chanBits), res, s, t, bits, p)
  BY <1>1, <1>2, <1>14, Zenon
<1> QED
  BY <1>5, <1>6, <1>8, <1>9, <1>10, <1>15, <1>16, Zenon DEF SymbolHere, res, W, b, p, k

LEMMA TruncatedRight ==
    ASSUME IInv, NEW w, Arrives(w), FrameInv(w), Truncated
    PROVE  FrameInv(w)'
<1>1. /\ InChannel /\ ag.c < el.n /\ pos >= Len(bits) /\ phase' = "failed" /\ frame' = frame
  BY DEF Truncated, Fail
<1>2. ~frame.whole
  <2>1. CASE Lost
    BY <2>1 DEF Lost
  <2>2. CASE ChannelRight(w)
    <3>1. PICK s : With(s, w, Chan + 1)
      BY <2>2 DEF ChannelRight
    <3>2. PICK t : SymbolHere(w, Chan + 1, s, t)
      BY <1>1, <2>2, <3>1, SymbolHereIs, Zenon
    <3> DEFINE S == CodeStart(w, Chan + 1)
               p == S + Len(t.bits)
    <3>3. /\ p \in Int /\ p > Len(bits) /\ p <= Start(w, 2) + 3
      <4>1. /\ Len(s.bits) \in Nat /\ Len(t.bits) \in Nat /\ Len(t.bits) > Len(s.bits)
            /\ p <= Start(w, 2)
        BY <3>2, Zenon DEF SymbolHere
      <4>2. pos = S + Len(s.bits)
        BY <3>1, Zenon DEF With
      <4>3. S \in Nat
        BY <1>1, <2>2, ChannelHere, Zenon DEF ChannelKnown
      <4>4. Len(bits) \in Nat /\ Start(w, 2) \in Nat
        <5>1. bits \in Seq(Bits) /\ Start(w, 2) \in Nat
          BY StartIs, Zenon DEF Arrives, Start
        <5> QED
          BY <5>1
      <4> HIDE DEF S
      <4> QED
        BY <1>1, <4>1, <4>2, <4>3, <4>4
    <3> HIDE DEF p
    <3> QED
      BY <3>3, NotWhole
  <2> QED
    BY <1>1, <2>1, <2>2 DEF FrameInv
<1> QED
  BY <1>1, <1>2, FailedIs, Zenon

LEMMA SymbolRight ==
    ASSUME IInv, NEW w, Arrives(w), FrameInv(w), Symbol
    PROVE  FrameInv(w)'
<1> DEFINE step == DynStep(bits, pos, ag, el.n, pb, KB, el.chanBits)
<1>1. /\ InChannel /\ ag.c < el.n /\ pos < Len(bits)
      /\ UNCHANGED <<frame, channelIndex, numSamples, el, mixBuffer, coefs, out>>
  BY DEF Symbol
<1>2. /\ pos' = step.pos
      /\ IF Overruns(step.ag.c)
         THEN phase' = "failed"
         ELSE /\ predictor' = [i \in 0 .. FrameLength - 1 |->
                                  IF i = ag.c THEN step.del
                                  ELSE IF i \in ag.c + 1 .. step.ag.c - 1 THEN 0
                                  ELSE predictor[i]]
              /\ ag' = step.ag /\ UNCHANGED phase
  BY DEF Symbol, Fail
<1>3. bits \in Seq(Bits) /\ Len(bits) \in Nat /\ bits' = bits /\ pos \in Nat
  <2>1. bits \in Seq(Bits)
    BY DEF Arrives
  <2> QED
    BY <1>1, <2>1 DEF bits, IInv, TypeOK
<1>4. ChannelRight(w)
  <2>1. ~Lost
    BY <1>1, <1>3 DEF Lost
  <2> QED
    BY <1>1, <2>1 DEF FrameInv
<1> DEFINE k == Chan + 1
           S == CodeStart(w, k)
           res == ResidualsAt(w, k)
<1>5. PICK s : With(s, w, k)
  BY <1>4 DEF ChannelRight
<1>6. PICK t : SymbolHere(w, k, s, t)
  BY <1>1, <1>4, <1>5, SymbolHereIs, Zenon
<1>7. /\ S \in Nat /\ Count \in Nat \ {0} /\ Count <= FrameLength /\ FrameLength \in Nat
      /\ el.n = Len(res) /\ Len(res) = Count
  BY <1>1, <1>4, ChannelHere, Zenon DEF ChannelKnown
<1>8. /\ t \in Coders(res) /\ s \in Coders(res) /\ Follows(res, s, t) /\ Len(t.bits) \in Nat
      /\ S + Len(t.bits) <= Start(w, 2) /\ SymbolRead(step, res, s, t, bits, S)
      /\ OnTheWay(t, res, Weight(w.prm[k]), 15 + Chans(w))
  BY <1>6, Zenon DEF SymbolHere
<1> HIDE DEF step
<1>9. CASE ~(S + Len(t.bits) <= Len(bits))
  <2>1. ~frame.whole
    <3> DEFINE p == S + Len(t.bits)
    <3>1. p \in Int /\ p > Len(bits) /\ p <= Start(w, 2) + 3
      <4>1. Start(w, 2) \in Nat
        BY StartIs, Zenon DEF Arrives, Start
      <4> HIDE DEF S
      <4> QED
        BY <1>3, <1>7, <1>8, <1>9, <4>1
    <3> HIDE DEF p
    <3> QED
      BY <3>1, NotWhole
  <2>2. step.pos > Len(bits)
    BY <1>8, <1>9, Zenon DEF SymbolRead
  <2>3. CASE Overruns(step.ag.c)
    BY <1>1, <1>2, <2>1, <2>3, FailedIs, Zenon
  <2>4. CASE ~Overruns(step.ag.c)
    <3>1. Lost'
      BY <1>1, <1>2, <1>3, <2>1, <2>2 DEF Lost
    <3>2. phase' \in {"U", "V", "output"}
      BY <1>1, <1>2, <2>4 DEF InChannel
    <3> QED
      BY <3>1, <3>2, LostIs
  <2> QED
    BY <2>3, <2>4
<1>10. CASE S + Len(t.bits) <= Len(bits)
  <2>1. step.pos = S + Len(t.bits) /\ step.del = res[s.c + 1] /\ step.ag = AgOf(t)
    BY <1>8, <1>10, Zenon DEF SymbolRead
  <2>2. /\ ag = AgOf(s)
        /\ \A j \in 0 .. s.c - 1 : predictor[j] = res[j + 1]
    BY <1>5, Zenon DEF With
  <2>3. /\ ag.c = s.c /\ s.c \in Nat /\ step.ag.c = t.c /\ t.c \in Nat /\ t.c <= Len(res)
        /\ t.c > s.c /\ \A j \in s.c + 2 .. t.c : res[j] = 0
    <3>1. ag.c = s.c /\ step.ag.c = t.c
      BY <2>1, <2>2 DEF AgOf
    <3>2. s.c \in Nat /\ t.c \in Nat /\ t.c <= Len(res)
      BY <1>8 DEF Coders
    <3>3. t.c > s.c /\ \A j \in s.c + 2 .. t.c : res[j] = 0
      BY <1>8, Zenon DEF Follows
    <3> QED
      BY <3>1, <3>2, <3>3
  <2>4. ~Overruns(step.ag.c)
    BY <1>7, <2>3 DEF Overruns
  <2>5. /\ predictor' = [i \in 0 .. FrameLength - 1 |->
                            IF i = ag.c THEN step.del
                            ELSE IF i \in ag.c + 1 .. step.ag.c - 1 THEN 0
                            ELSE predictor[i]]
        /\ ag' = step.ag /\ phase' = phase
    BY <1>2, <2>4, Zenon
  <2> HIDE DEF S, res
  <2>6. ASSUME NEW j \in 0 .. t.c - 1 PROVE predictor'[j] = res[j + 1]
    <3>1. j \in 0 .. FrameLength - 1
      BY <1>7, <2>3
    <3>2. predictor'[j] = IF j = s.c THEN res[s.c + 1]
                          ELSE IF j \in s.c + 1 .. t.c - 1 THEN 0 ELSE predictor[j]
      BY <2>1, <2>3, <2>5, <3>1, Zenon
    <3>3. CASE j = s.c
      BY <3>2, <3>3
    <3>4. CASE j \in s.c + 1 .. t.c - 1
      <4>1. j + 1 \in s.c + 2 .. t.c /\ j # s.c
        BY <2>3, <3>4
      <4> QED
        BY <2>3, <3>2, <3>4, <4>1, Zenon
    <3>5. CASE j # s.c /\ j \notin s.c + 1 .. t.c - 1
      <4>1. j \in 0 .. s.c - 1
        BY <2>3, <3>5
      <4> QED
        BY <2>2, <3>2, <3>5, <4>1, Zenon
    <3> QED
      BY <3>3, <3>4, <3>5
  <2>7. /\ \A i : ResidualsAt(w, i)' = ResidualsAt(w, i)
        /\ \A i : CodeStart(w, i)' = CodeStart(w, i)
        /\ Count' = Count
    BY <1>1, SameElement, Zenon
  <2>8. Chan' = Chan /\ InChannel'
    BY <1>1, <2>5 DEF Chan, InChannel
  <2>9. With(t, w, k)'
    <3>1. pos' <= Len(bits)
      BY <1>2, <1>10, <2>1
    <3>2. pos' = S + Len(t.bits) /\ ag' = AgOf(t)
      BY <1>2, <2>1, <2>5, Zenon
    <3>3. k' = k
      BY <2>8
    <3>4. S = CodeStart(w, k) /\ res = ResidualsAt(w, k)
      BY DEF S, res
    <3> HIDE DEF k
    <3> QED
      BY <1>3, <1>8, <2>6, <2>7, <3>1, <3>2, <3>3, <3>4, Zenon DEF With
  <2>10. ElementOpen(w)'
    BY <1>1, <1>4, <2>7 DEF ChannelRight, ElementOpen, Written
  <2>11. ParametersHeld(w)'
    BY <1>1, <1>4, <2>8 DEF ChannelRight, ParametersHeld
  <2>12. Decoded(w, Chan)'
    <3>1. Decoded(w, Chan)
      BY <1>4 DEF ChannelRight
    <3>2. \A c, i : Given(w, c, i)' = Given(w, c, i)
      BY <1>1, SameElement, Zenon
    <3> QED
      BY <1>1, <2>7, <2>8, <3>1, <3>2 DEF Decoded
  <2>13. ChannelRight(w)'
    <3>1. ~w.escape
      BY <1>4 DEF ChannelRight
    <3> QED
      BY <2>9, <2>10, <2>11, <2>12, <3>1 DEF ChannelRight
  <2> QED
    BY <1>1, <2>5, <2>13 DEF FrameInv, InChannel
<1> QED
  BY <1>9, <1>10

-----------------------------------------------------------------------------
(* A channel is put together from its residuals.                           *)

\* All residuals of a channel are in pc, with the coefficients it starts from in c.
AllThere(x, p, b, L, pc, o, c) ==
    /\ CanCode(x, p, b) /\ L \in Nat /\ Len(x) <= L
    /\ pc \in [0 .. L - 1 -> Int] /\ o \in [0 .. L - 1 -> Int]
    /\ c \in Coefs /\ ListOf(c, Len(p.a)) = p.a
    /\ \A i \in 0 .. Len(x) - 1 : pc[i] = ResidualsFor(x, p, b)[i + 1]

\* What the two passes of unpcBlock make of them.
PlainOf(pc, n, c, p, b) == IF p.mode = 0 THEN pc ELSE UnpcBlock(pc, pc, n, c, 31, b, 0).out

\* From all its residuals and the coefficients of its description, the two passes of
\* unpcBlock give back the channel, whatever is in the block before (channel).
THEOREM ChannelUndone ==
    ASSUME NEW x, NEW p, NEW b, NEW L, NEW pc, NEW o, NEW c, AllThere(x, p, b, L, pc, o, c)
    PROVE  \A i \in 0 .. Len(x) - 1 :
              UnpcBlock(PlainOf(pc, Len(x), c, p, b), o, Len(x), c, Len(p.a), b, p.denShift).out[i]
                = x[i + 1]
<1> DEFINE n == Len(x)
           num == Len(p.a)
           pr == Enc!Predict(x, p.a, num, b, p.denShift)
           plain == PlainOf(pc, n, c, p, b)
<1>1. /\ b \in Nat \ {0} /\ x \in Seq(SignedRange(b)) /\ x # <<>> /\ n \in Nat \ {0} /\ n <= L
      /\ Enc!Fits(p) /\ L \in Nat /\ pc \in [0 .. L - 1 -> Int] /\ o \in [0 .. L - 1 -> Int]
      /\ c \in Coefs /\ ListOf(c, num) = p.a
  <2>1. CanCode(x, p, b)
    BY DEF AllThere
  <2>2. /\ b \in 16 .. 17 /\ x \in Seq(SignedRange(b)) /\ n \in 1 .. 2^16 - 1 /\ Enc!Fits(p)
    BY <2>1, Zenon DEF CanCode
  <2>3. x # <<>>
    BY <2>2
  <2>4. n \in Nat \ {0} /\ b \in Nat \ {0}
    BY <2>2
  <2> QED
    BY <2>2, <2>3, <2>4, Zenon DEF AllThere
<1>2. /\ p.denShift \in Nat /\ num \in 0 .. 30
  <2>1. p.denShift \in 0 .. 15 /\ num \in 0 .. 30
    BY <1>1, FitsIs, Zenon
  <2> QED
    BY <2>1
<1>3. pr \in Seq(SignedRange(b)) /\ Len(pr) = n
  BY <1>1, PredictIs, Zenon
<1> HIDE DEF num, pr
<1>4. plain \in [0 .. L - 1 -> Int] /\ \A i \in 0 .. n - 1 : plain[i] = pr[i + 1]
  <2>1. CASE p.mode = 0
    <3>1. plain = pc
      BY <2>1, Zenon DEF PlainOf
    <3>2. ResidualsFor(x, p, b) = pr
      BY <2>1, Zenon DEF ResidualsFor, pr, num
    <3> QED
      BY <1>1, <3>1, <3>2, Zenon DEF AllThere
  <2>2. CASE p.mode # 0
    <3> DEFINE k == 31
               z == 0
    <3>1. plain = UnpcBlock(pc, pc, n, c, k, b, z).out
      BY <2>2, Zenon DEF PlainOf
    <3>2. ResidualsFor(x, p, b) = Enc!Difference(pr, b)
      BY <2>2, Zenon DEF ResidualsFor, pr, num
    <3>3. \A i \in 0 .. Len(pr) - 1 : pc[i] = Enc!Difference(pr, b)[i + 1]
      BY <1>3, <3>2, Zenon DEF AllThere
    <3>4. k \in {0, 31} /\ z \in Nat /\ k # 0 /\ pr # <<>> /\ k \in 0 .. 31
      BY <1>1, <1>3
    <3> HIDE DEF k, z, n
    <3>5. \A i \in 0 .. Len(pr) - 1 :
              pc[i] = IF k = 0 THEN pr[i + 1] ELSE Enc!Difference(pr, b)[i + 1]
      BY <3>3, <3>4, Zenon
    <3>6. \A i \in 0 .. Len(pr) - 1 : UnpcBlock(pc, pc, Len(pr), c, k, b, z).out[i] = pr[i + 1]
      <4>1. Len(pr) <= L
        BY <1>1, <1>3, Zenon
      <4>2. Differences(k, b, pr, z, L, pc, c, pc)
        BY <1>1, <1>3, <3>4, <3>5, <4>1, Zenon DEF Differences
      <4> QED
        BY <4>2, DifferencesUndoneBy
    <3>7. plain \in [0 .. L - 1 -> Int]
      <4>1. n \in 1 .. L /\ b \in Nat
        BY <1>1
      <4>2. UnpcBlock(pc, pc, n, c, k, b, z) \in Blocks(L)
        BY <1>1, <3>4, <4>1, UnpcBlockIs
      <4> QED
        BY <3>1, <4>2 DEF Blocks
    <3> QED
      BY <1>3, <3>1, <3>6, <3>7, Zenon
  <2> QED
    BY <2>1, <2>2
<1> HIDE DEF plain, n
<1>5. \A i \in 0 .. n - 1 : UnpcBlock(plain, o, n, c, num, b, p.denShift).out[i] = x[i + 1]
  <2>1. CASE num = 0
    <3>1. pr = x
      BY <2>1, Zenon DEF Enc!Predict, pr
    <3>2. num \in {0, 31}
      BY <2>1
    <3>3. \A i \in 0 .. Len(x) - 1 :
              plain[i] = IF num = 0 THEN x[i + 1] ELSE Enc!Difference(x, b)[i + 1]
      BY <1>4, <2>1, <3>1, Zenon DEF n
    <3>4. \A i \in 0 .. Len(x) - 1 : UnpcBlock(plain, o, Len(x), c, num, b, p.denShift).out[i] = x[i + 1]
      <4>1. Differences(num, b, x, p.denShift, L, o, c, plain)
        BY <1>1, <1>2, <1>4, <3>2, <3>3, Zenon DEF Differences, n
      <4> QED
        BY <4>1, DifferencesUndoneBy
    <3> QED
      BY <3>4, Zenon DEF n
  <2>2. CASE num # 0
    <3>1. num \in 1 .. 30
      BY <1>2, <2>2
    <3>2. \A i \in 0 .. Len(x) - 1 : plain[i] = Enc!Predict(x, ListOf(c, num), num, b, p.denShift)[i + 1]
      BY <1>1, <1>4, Zenon DEF n, pr
    <3>3. \A i \in 0 .. Len(x) - 1 : UnpcBlock(plain, o, Len(x), c, num, b, p.denShift).out[i] = x[i + 1]
      <4>1. Predictions(num, b, x, p.denShift, L, o, c, plain)
        BY <1>1, <1>2, <1>4, <3>1, <3>2, Zenon DEF Predictions, n
      <4> QED
        BY <4>1, PredictorUndoneBy
    <3> QED
      BY <3>3, Zenon DEF n
  <2> QED
    BY <2>1, <2>2
<1> QED
  BY <1>5, Zenon DEF n, num, plain

\* When all its residuals are there, a channel's code has been read to its end.
LEMMA ChannelEnds ==
    ASSUME IInv, NEW w, Arrives(w), InChannel, ChannelRight(w), ag.c = el.n
    PROVE  /\ pos = CodeStart(w, Chan + 1)
                    + Len(Code(frame.audio, channelIndex + 1, Chans(w), w, Chan + 1))
           /\ pos <= Len(bits)
           /\ \A j \in 0 .. Count - 1 : predictor[j] = ResidualsAt(w, Chan + 1)[j + 1]
<1> DEFINE k == Chan + 1
           res == ResidualsAt(w, k)
           W == Weight(w.prm[k])
           b == 15 + Chans(w)
<1>1. PICK s : With(s, w, k)
  BY DEF ChannelRight
<1>2. /\ Compressible(res, W, b) /\ el.n = Len(res) /\ Len(res) = Count
      /\ Code(frame.audio, channelIndex + 1, Chans(w), w, k) = Enc!Compress(res, W, b)
  BY ChannelHere, Zenon DEF ChannelKnown
<1>3. /\ OnTheWay(s, res, W, b) /\ ag = AgOf(s) /\ pos = CodeStart(w, k) + Len(s.bits)
      /\ pos <= Len(bits) /\ \A j \in 0 .. s.c - 1 : predictor[j] = res[j + 1]
  BY <1>1, Zenon DEF With
<1> HIDE DEF res, W, b, k
<1>4. s.c = Len(res)
  BY <1>2, <1>3 DEF AgOf
<1>5. s.bits = Enc!Compress(res, W, b)
  BY <1>2, <1>3, <1>4, OnTheWayIs, Zenon
<1> QED
  BY <1>2, <1>3, <1>4, <1>5, Zenon DEF k, res

\* Predict then puts the channel together.
LEMMA PredictDecodes ==
    ASSUME IInv, NEW w, Arrives(w), ChannelRight(w), Predict
    PROVE  /\ \A j \in 0 .. Count - 1 :
                 mixBuffer'[Chan][j] = Given(w, channelIndex, Chan + 1)[j + 1]
           /\ \A ch \in Channels : ch # Chan => mixBuffer'[ch] = mixBuffer[ch]
                                                /\ coefs'[ch] = coefs[ch]
<1> DEFINE k == Chan + 1
           f == channelIndex + 1
           x == Signal(frame.audio, f, Chans(w), w, k)
           q == w.prm[k]
           p == el.prm[Chan]
           b == 15 + Chans(w)
           o == mixBuffer[Chan]
           c == coefs[Chan]
           Plain(pl) == pl = IF p.mode = 0 THEN predictor
                             ELSE UnpcBlock(predictor, predictor, el.n, coefs[Chan], 31,
                                            el.chanBits, 0).out
           Block(pl) == UnpcBlock(pl, mixBuffer[Chan], el.n, coefs[Chan], p.num,
                                  el.chanBits, p.denShift)
<1>1. PICK plain : /\ Plain(plain)
                   /\ mixBuffer' = [mixBuffer EXCEPT ![Chan] = Block(plain).out]
                   /\ coefs' = [coefs EXCEPT ![Chan] = Block(plain).coefs]
  BY DEF Predict
<1>2. InChannel /\ ag.c = el.n
  BY DEF Predict
<1>3. /\ Chan \in Channels /\ k \in 1 .. Chans(w) /\ ChannelKnown(w, k)
      /\ el.n = Len(ResidualsAt(w, k)) /\ el.chanBits = b
      /\ Count <= FrameLength /\ FrameLength \in Nat /\ Count \in Nat \ {0}
  BY <1>2, ChannelHere, Zenon
<1>4. channelIndex \in 0 .. 2 - Chans(w) /\ ~w.escape /\ ParametersHeld(w)
  BY DEF ChannelRight, ElementOpen
<1>5. k - 1 = Chan /\ k > Chan
  BY <1>3 DEF Channels
<1>6. /\ p.mode = q.mode /\ p.denShift = q.denShift /\ p.num = Len(q.a)
      /\ ListOf(c, Len(q.a)) = q.a
  BY <1>3, <1>4, <1>5, Zenon DEF ParametersHeld
<1>7. CanCode(x, q, b)
  <2>1. InFrame(frame.audio, f, Chans(w), w)
    BY <1>4, OpenedFits, Zenon
  <2> QED
    BY <1>3, <2>1, SignalIs, Zenon
<1>8. Len(x) = Count /\ el.n = Count
  BY <1>3 DEF ChannelKnown, Signal, Count
<1>9. /\ predictor \in [0 .. FrameLength - 1 -> Int] /\ o \in [0 .. FrameLength - 1 -> Int]
      /\ c \in Coefs /\ DOMAIN mixBuffer = Channels /\ DOMAIN coefs = Channels
  BY <1>3 DEF IInv, TypeOK, Coefs
<1>10. \A i \in 0 .. Len(x) - 1 : predictor[i] = ResidualsFor(x, q, b)[i + 1]
  <2>1. \A j \in 0 .. Count - 1 : predictor[j] = ResidualsAt(w, k)[j + 1]
    BY <1>2, ChannelEnds, Zenon
  <2> QED
    BY <1>8, <2>1, Zenon DEF ResidualsAt
<1> HIDE DEF x, q, p, b, o, c, k
<1>11. AllThere(x, q, b, FrameLength, predictor, o, c)
  <2>1. Len(x) <= FrameLength
    BY <1>3, <1>8
  <2> QED
    BY <1>3, <1>6, <1>7, <1>9, <1>10, <2>1, Zenon DEF AllThere
<1>12. \A i \in 0 .. Len(x) - 1 :
          UnpcBlock(PlainOf(predictor, Len(x), c, q, b), o, Len(x), c, Len(q.a), b, q.denShift).out[i]
            = x[i + 1]
  BY <1>11, ChannelUndone
<1>13. plain = PlainOf(predictor, Len(x), c, q, b)
  BY <1>1, <1>3, <1>6, <1>8, Zenon DEF PlainOf, c
<1>14. Block(plain) = UnpcBlock(plain, o, Len(x), c, Len(q.a), b, q.denShift)
  BY <1>3, <1>6, <1>8, Zenon DEF c, o
<1>15. \A j \in 0 .. Count - 1 : mixBuffer'[Chan][j] = x[j + 1]
  <2>1. mixBuffer'[Chan] = Block(plain).out
    BY <1>1, <1>3, <1>9, Zenon
  <2> HIDE DEF Block
  <2> QED
    BY <1>8, <1>12, <1>13, <1>14, <2>1
<1>16. Given(w, channelIndex, k) = x
  BY <1>4, Zenon DEF Given, x
<1> HIDE DEF Block
<1>17. \A ch \in Channels : ch # Chan => mixBuffer'[ch] = mixBuffer[ch]
                                         /\ coefs'[ch] = coefs[ch]
  BY <1>1, <1>9, Zenon
<1> QED
  BY <1>15, <1>16, <1>17, Zenon DEF k

LEMMA PredictRight ==
    ASSUME IInv, NEW w, Arrives(w), FrameInv(w), Predict
    PROVE  FrameInv(w)'
<1>1. /\ InChannel /\ ag.c = el.n
      /\ IF phase = "U" /\ el.chans = 2
         THEN phase' = "V" /\ ag' = [c |-> 0, mb |-> MB, zmode |-> 0]
         ELSE phase' = "output"
      /\ UNCHANGED <<frame, pos, channelIndex, numSamples, el, out>>
  BY DEF Predict
<1>2. Lost \/ ChannelRight(w)
  BY <1>1 DEF FrameInv
<1>3. CASE Lost
  <2>1. Lost'
    BY <1>1, <1>3 DEF Lost, bits
  <2>2. phase' \in {"U", "V", "output"}
    BY <1>1
  <2> QED
    BY <2>1, <2>2, LostIs
<1>4. CASE ChannelRight(w)
  <2> DEFINE k == Chan + 1
             len(i) == Len(Code(frame.audio, channelIndex + 1, Chans(w), w, i))
  <2>1. /\ Chan \in Channels /\ k \in 1 .. Chans(w) /\ Chans(w) \in 1 .. 2
        /\ el.chanBits = 15 + Chans(w)
    BY <1>1, <1>4, ChannelHere, Zenon
  <2>2. /\ channelIndex \in 0 .. 2 - Chans(w) /\ ~w.escape /\ el.chans = Chans(w)
        /\ ElementOpen(w) /\ ParametersHeld(w) /\ Decoded(w, Chan)
    BY <1>4 DEF ChannelRight, ElementOpen
  <2>3. pos = CodeStart(w, k) + len(k) /\ pos <= Len(bits)
    BY <1>1, <1>4, ChannelEnds, Zenon
  <2>4. /\ \A j \in 0 .. Count - 1 :
              mixBuffer'[Chan][j] = Given(w, channelIndex, k)[j + 1]
        /\ \A ch \in Channels : ch # Chan => mixBuffer'[ch] = mixBuffer[ch]
                                             /\ coefs'[ch] = coefs[ch]
    BY <1>4, PredictDecodes, Zenon
  <2>5. /\ \A i : ResidualsAt(w, i)' = ResidualsAt(w, i)
        /\ \A i : CodeStart(w, i)' = CodeStart(w, i)
        /\ Count' = Count /\ bits' = bits
        /\ \A i : Start(w, i)' = Start(w, i)
        /\ \A c, i : Given(w, c, i)' = Given(w, c, i)
    BY <1>1, SameElement, Zenon
  <2>6. ElementOpen(w)'
    BY <1>1, <2>2, <2>5 DEF ElementOpen, Written
  <2>7. ASSUME NEW i \in 1 .. k, NEW j \in 0 .. Count - 1
        PROVE  mixBuffer'[i - 1][j] = Given(w, channelIndex, i)[j + 1]
    <3>1. CASE i = k
      <4>1. i - 1 = Chan
        BY <2>1, <3>1 DEF Channels
      <4> QED
        BY <2>4, <3>1, <4>1
    <3>2. CASE i # k
      <4>1. i \in 1 .. Chan /\ i - 1 \in Channels /\ i - 1 # Chan
        BY <2>1, <3>2 DEF Channels
      <4>2. mixBuffer[i - 1][j] = Given(w, channelIndex, i)[j + 1]
        BY <2>2, <4>1, Zenon DEF Decoded
      <4> QED
        BY <2>4, <4>1, <4>2, Zenon
    <3> QED
      BY <3>1, <3>2
  <2>8. CASE phase = "U" /\ el.chans = 2
    <3>1. /\ Chan = 0 /\ Chan' = 1 /\ Chans(w) = 2 /\ phase' = "V"
          /\ ag' = [c |-> 0, mb |-> MB, zmode |-> 0]
      BY <1>1, <2>2, <2>8 DEF Chan
    <3>2. Decoded(w, 1)'
      <4>1. \A i \in 1 .. 1 : i \in 1 .. k
        BY <3>1
      <4> QED
        BY <1>1, <2>5, <2>7, <4>1 DEF Decoded
    <3>3. ParametersHeld(w)'
      <4>1. \A i \in 1 .. Chans(w) : i > 1 => i - 1 = 1 /\ i > Chan
        BY <3>1
      <4>2. coefs'[1] = coefs[1]
        BY <2>4, <3>1 DEF Channels
      <4> QED
        BY <1>1, <2>2, <3>1, <4>1, <4>2 DEF ParametersHeld
    <3>4. With(FirstCoder, w, 2)'
      <4> DEFINE m == 2
      <4>1. m \in 1 .. Chans(w)
        BY <3>1
      <4>2. ChannelKnown(w, m)
        BY <2>2, <4>1, ChannelKnownIs, Zenon
      <4>3. pos = CodeStart(w, m)
        <5>1. k = 1 /\ k \in 1 .. Chans(w)
          BY <2>1, <3>1
        <5> QED
          BY <2>2, <2>3, <3>1, <5>1, CodeFits, Zenon
      <4> HIDE DEF m
      <4>4. /\ OnTheWay(FirstCoder, ResidualsAt(w, m), Weight(w.prm[m]), 15 + Chans(w))
            /\ ag' = AgOf(FirstCoder) /\ pos' = CodeStart(w, m) + Len(FirstCoder.bits)
            /\ pos' <= Len(bits)
            /\ 0 .. FirstCoder.c - 1 = {}
        BY <1>1, <2>3, <3>1, <4>2, <4>3, ChannelStarts, Zenon
      <4> QED
        BY <2>5, <4>4, Zenon DEF With, m
    <3>5. Chan' + 1 = 2
      BY <3>1
    <3>6. ChannelRight(w)'
      BY <2>2, <2>6, <3>1, <3>2, <3>3, <3>4, <3>5, Zenon DEF ChannelRight
    <3> QED
      BY <3>1, <3>6 DEF FrameInv, InChannel
  <2>9. CASE ~(phase = "U" /\ el.chans = 2)
    <3>1. k = Chans(w) /\ phase' = "output"
      <4>1. phase = "V" => el.chans = 2
        BY DEF IInv, ElementInv
      <4> QED
        BY <1>1, <2>1, <2>2, <2>9, <4>1 DEF Chan, InChannel
    <3>2. Decoded(w, Chans(w))'
      BY <1>1, <2>5, <2>7, <3>1 DEF Decoded
    <3>3. pos' = Start(w, channelIndex + Chans(w))' /\ pos' <= Len(bits')
      <4>1. pos = Start(w, channelIndex + Chans(w))
        BY <2>1, <2>2, <2>3, <3>1, CodeFits, Zenon
      <4> QED
        BY <1>1, <2>3, <2>5, <4>1
    <3>4. el'.chanBits = 15 + Chans(w) /\ el'.mixBits = w.mixBits /\ el'.mixRes = w.mixRes
      BY <1>1, <2>2 DEF ParametersHeld
    <3>5. OutputRight(w)'
      BY <2>2, <2>6, <3>2, <3>3, <3>4 DEF OutputRight
    <3> QED
      BY <3>1, <3>5 DEF FrameInv, InChannel
  <2> QED
    BY <2>8, <2>9
<1> QED
  BY <1>2, <1>3, <1>4

-----------------------------------------------------------------------------
(* An element goes to the output.                                          *)

\* What Output makes of sample j of the element for its k-th channel.
Sampled(j, k) ==
    IF el.chans = 1 THEN Signed(mixBuffer[0][j], 16)
    ELSE Unmixed(mixBuffer[0][j], mixBuffer[1][j], el.mixBits, el.mixRes)[k]

\* unmix16 of a pair that was not mixed.
LEMMA PlainUndone ==
    ASSUME NEW l \in Int16, NEW r \in Int16, NEW mixBits
    PROVE  Unmixed(l, r, mixBits, 0) = <<l, r>>
<1>1. Signed(l, 16) = l /\ Signed(r, 16) = r
  BY Int16Is
<1> QED
  BY <1>1 DEF Unmixed

LEMMA SampledRight ==
    ASSUME NEW w, Arrives(w), OutputRight(w), NEW i \in 1 .. Count, NEW k \in 1 .. Chans(w)
    PROVE  Sampled(i - 1, k) = frame.audio[i][channelIndex + k]
<1> DEFINE c == channelIndex
           a == frame.audio
           j == i - 1
<1>1. /\ Enc!Proper(a, w) /\ c \in 0 .. 2 - Chans(w) /\ el.chans = Chans(w)
      /\ Decoded(w, Chans(w))
      /\ IF w.escape THEN el.mixRes = 0 ELSE el.mixBits = w.mixBits /\ el.mixRes = w.mixRes
  BY DEF Arrives, OutputRight, ElementOpen
<1>2. /\ Count \in 1 .. 2^16 - 1 /\ Chans(w) \in 1 .. 2
      /\ \A q \in 1 .. Count : \A l \in 1 .. 2 : a[q][l] \in Int16
      /\ \A q \in 1 .. Count : a[q] = <<a[q][1], a[q][2]>>
      /\ w.mixBits \in 0 .. 255
  BY <1>1, ProperIs, ZenonT(40) DEF Count
<1>3. /\ j \in 0 .. Count - 1 /\ j + 1 = i /\ w.mixBits \in Nat
      /\ w.mixRes \in Int
  <2>1. w.mixRes \in -128 .. 127
    BY <1>1, Zenon DEF Enc!Proper
  <2> QED
    BY <1>2, <2>1
<1>4. \A m \in 1 .. Chans(w) : mixBuffer[m - 1][j] = Given(w, c, m)[i]
  BY <1>1, <1>3, Zenon DEF Decoded
<1>5. a[i][1] \in Int16 /\ a[i][2] \in Int16
  BY <1>2
<1> HIDE DEF c, j
<1>6. CASE Chans(w) = 1
  <2>1. k = 1 /\ c + 1 \in 1 .. 2 /\ 1 - 1 = 0 /\ 1 \in 1 .. Chans(w) /\ c + 1 + 1 - 1 = c + 1
        /\ c + k = c + 1 /\ 1 # 2
    BY <1>1, <1>6
  <2>2. mixBuffer[0][j] = Given(w, c, 1)[i]
    BY <1>4, <2>1, Zenon
  <2>3. Given(w, c, 1)[i] = a[i][c + 1]
    <3>1. CASE w.escape
      BY <2>1, <3>1, Zenon DEF Given, Count
    <3>2. CASE ~w.escape
      BY <1>6, <2>1, <3>2, Zenon DEF Given, Signal, Count
    <3> QED
      BY <3>1, <3>2
  <2>4. a[i][c + 1] \in Int16
    BY <1>2, <2>1, Zenon
  <2>5. Signed(a[i][c + 1], 16) = a[i][c + 1]
    BY <2>4, Int16Is
  <2>6. Sampled(j, k) = Signed(mixBuffer[0][j], 16)
    BY <1>1, <1>6, Zenon DEF Sampled
  <2> QED
    BY <2>1, <2>2, <2>3, <2>5, <2>6, Zenon DEF c, j
<1>7. CASE Chans(w) = 2
  <2>1. c = 0 /\ 1 \in 1 .. Chans(w) /\ 2 \in 1 .. Chans(w) /\ 1 - 1 = 0 /\ 2 - 1 = 1
        /\ 0 + 1 + 1 - 1 = 1 /\ 0 + 1 + 2 - 1 = 2 /\ 2 # 1 /\ k \in {1, 2} /\ c + k = k
    BY <1>1, <1>7
  <2>2. mixBuffer[0][j] = Given(w, 0, 1)[i] /\ mixBuffer[1][j] = Given(w, 0, 2)[i]
    BY <1>4, <2>1, Zenon
  <2>3. Sampled(j, k) = Unmixed(mixBuffer[0][j], mixBuffer[1][j], el.mixBits, el.mixRes)[k]
    BY <1>1, <1>7, <2>1, Zenon DEF Sampled
  <2>4. Unmixed(mixBuffer[0][j], mixBuffer[1][j], el.mixBits, el.mixRes) = <<a[i][1], a[i][2]>>
    <3>1. CASE w.escape
      <4>1. Given(w, 0, 1)[i] = a[i][1] /\ Given(w, 0, 2)[i] = a[i][2]
        BY <2>1, <3>1, Zenon DEF Given, Count
      <4>2. el.mixRes = 0
        BY <1>1, <3>1
      <4>3. Unmixed(a[i][1], a[i][2], el.mixBits, 0) = <<a[i][1], a[i][2]>>
        <5> DEFINE l == a[i][1]
                   r == a[i][2]
        <5>1. l \in Int16 /\ r \in Int16
          BY <1>5
        <5> HIDE DEF l, r
        <5>2. Unmixed(l, r, el.mixBits, 0) = <<l, r>>
          BY <5>1, PlainUndone
        <5> QED
          BY <5>2 DEF l, r
      <4> QED
        BY <2>2, <4>1, <4>2, <4>3
    <3>2. CASE ~w.escape
      <4> DEFINE pair == Enc!Mix(<<a[i][1], a[i][2]>>, w.mixBits, w.mixRes)
      <4>1. Given(w, 0, 1)[i] = pair[1] /\ Given(w, 0, 2)[i] = pair[2]
        <5>1. a[i] = <<a[i][1], a[i][2]>>
          BY <1>2
        <5>2. /\ Given(w, 0, 1)[i] = Enc!Mix(a[i], w.mixBits, w.mixRes)[1]
              /\ Given(w, 0, 2)[i] = Enc!Mix(a[i], w.mixBits, w.mixRes)[2]
          <6>1. 0 + 1 + 1 - 1 = 1 /\ 0 + 1 + 2 - 1 = 2
            OBVIOUS
          <6> QED
            BY <1>7, <3>2, <6>1, Zenon DEF Given, Signal, Count
        <5> DEFINE y == <<a[i][1], a[i][2]>>
        <5> HIDE DEF y
        <5>3. a[i] = y
          BY <5>1 DEF y
        <5> QED
          BY <5>2, <5>3, Zenon DEF y
      <4>2. el.mixBits = w.mixBits /\ el.mixRes = w.mixRes
        BY <1>1, <3>2
      <4>3. Unmixed(pair[1], pair[2], w.mixBits, w.mixRes) = <<a[i][1], a[i][2]>>
        BY <1>3, <1>5, MixUndone, Zenon
      <4> HIDE DEF pair
      <4> QED
        BY <2>2, <4>1, <4>2, <4>3, Zenon
    <3> QED
      BY <3>1, <3>2
  <2>5. <<a[i][1], a[i][2]>>[k] = a[i][k]
    <3>1. CASE k = 1
      BY <3>1
    <3>2. CASE k = 2
      BY <3>2
    <3> QED
      BY <2>1, <3>1, <3>2
  <2> QED
    BY <2>1, <2>3, <2>4, <2>5, Zenon DEF c, j
<1> QED
  BY <1>2, <1>6, <1>7

\* A place in the output belongs to a sample and a channel.
LEMMA PlaceIs ==
    ASSUME NEW n \in Nat, NEW L \in Nat, n <= L, NEW i \in 1 .. n, NEW k \in 1 .. 2
    PROVE  LET x == 2 * (i - 1) + k - 1
           IN  x \in 0 .. L * 2 - 1 /\ x \div 2 = i - 1 /\ x % 2 = k - 1
<1> DEFINE x == 2 * (i - 1) + k - 1
<1>1. x = 2 * (i - 1) + (k - 1) /\ i - 1 \in Int /\ k - 1 \in 0 .. 2 - 1 /\ 2 \in Nat \ {0}
      /\ x \in 0 .. L * 2 - 1
  OBVIOUS
<1>2. (2 * (i - 1) + (k - 1)) % 2 = k - 1 /\ (2 * (i - 1) + (k - 1)) \div 2 = i - 1
  <2> DEFINE d == 2
             q == i - 1
             r == k - 1
  <2>1. d \in Nat \ {0} /\ q \in Int /\ r \in 0 .. d - 1
    BY <1>1
  <2> HIDE DEF d, q, r
  <2>2. (d * q + r) % d = r /\ (d * q + r) \div d = q
    BY <2>1, DivisionIs
  <2> QED
    BY <2>2 DEF d, q, r
<1> HIDE DEF x
<1>3. x % 2 = k - 1 /\ x \div 2 = i - 1
  BY <1>1, <1>2
<1> QED
  BY <1>1, <1>3 DEF x

LEMMA OutputWrites ==
    ASSUME IInv, NEW w, Arrives(w), OutputRight(w), Output
    PROVE  \A i \in 1 .. Count : \A k \in 1 .. channelIndex + Chans(w) :
              out'[2 * (i - 1) + k - 1] = frame.audio[i][k]
<1> SUFFICES ASSUME NEW i \in 1 .. Count, NEW k \in 1 .. channelIndex + Chans(w)
             PROVE  out'[2 * (i - 1) + k - 1] = frame.audio[i][k]
  OBVIOUS
<1> DEFINE x == 2 * (i - 1) + k - 1
           q == (x - channelIndex) % NumChannels
           j == (x - channelIndex) \div NumChannels
<1>1. /\ channelIndex \in 0 .. 2 - Chans(w) /\ Chans(w) \in 1 .. 2 /\ el.chans = Chans(w)
      /\ el.n = Count /\ Count <= FrameLength /\ Written(channelIndex)
      /\ Count \in Nat /\ FrameLength \in Nat /\ NumChannels = 2
  <2>1. Count \in 1 .. 2^16 - 1 /\ Chans(w) \in 1 .. 2
    BY ProperIs, ZenonT(40) DEF Arrives, Count
  <2> QED
    BY <2>1, ConfigAssumption DEF OutputRight, ElementOpen
<1>2. x \in 0 .. FrameLength * NumChannels - 1 /\ k \in 1 .. 2
  <2>1. k \in 1 .. 2
    BY <1>1
  <2> QED
    BY <1>1, <2>1
<1>3. DOMAIN out = 0 .. FrameLength * NumChannels - 1
  BY DEF IInv, TypeOK
<1>4. out'[x] = IF ~(channelIndex <= x /\ j < el.n /\ q < el.chans) THEN out[x]
                ELSE Sampled(j, q + 1)
  <2>1. out' = Interleaved
    BY DEF Output
  <2> QED
    BY <1>2, <1>3, <2>1, Zenon DEF Interleaved, Sampled
<1>5. CASE k <= channelIndex
  <2>1. channelIndex = 1 /\ el.chans = 1 /\ k = 1 /\ k \in 1 .. channelIndex
    BY <1>1, <1>5
  <2>2. ~(channelIndex <= x /\ j < el.n /\ q < el.chans)
    <3>1. CASE i = 1
      BY <2>1, <3>1
    <3>2. CASE i # 1
      <4>1. i - 1 \in 1 .. Count /\ 2 \in 1 .. 2 /\ x - channelIndex = 2 * (i - 1 - 1) + 2 - 1
        BY <1>1, <2>1, <3>2
      <4>2. (x - channelIndex) % 2 = 1
        BY <1>1, <4>1, PlaceIs
      <4> QED
        BY <1>1, <2>1, <4>2
    <3> QED
      BY <3>1, <3>2
  <2>3. out[x] = frame.audio[i][k]
    BY <1>1, <2>1, Zenon DEF Written
  <2> HIDE DEF x, q, j
  <2>4. out'[x] = out[x]
    BY <1>4, <2>2
  <2> QED
    BY <2>3, <2>4 DEF x
<1>6. CASE ~(k <= channelIndex)
  <2> DEFINE r == k - channelIndex
  <2>1. r \in 1 .. 2 /\ r \in 1 .. Chans(w) /\ channelIndex + r = k
        /\ x - channelIndex = 2 * (i - 1) + r - 1 /\ channelIndex <= x
    BY <1>1, <1>2, <1>6
  <2> HIDE DEF r
  <2>2. j = i - 1 /\ q = r - 1
    <3>1. (2 * (i - 1) + r - 1) \div 2 = i - 1 /\ (2 * (i - 1) + r - 1) % 2 = r - 1
      BY <1>1, <2>1, PlaceIs, Zenon
    <3> QED
      BY <1>1, <2>1, <3>1
  <2> HIDE DEF x, q, j
  <2>3. j < el.n /\ q < el.chans /\ q + 1 = r
    BY <1>1, <2>1, <2>2
  <2>4. Sampled(i - 1, r) = frame.audio[i][channelIndex + r]
    BY <2>1, SampledRight
  <2>5. out'[x] = Sampled(i - 1, r)
    BY <1>4, <2>1, <2>2, <2>3
  <2> QED
    BY <2>1, <2>4, <2>5, Zenon DEF x
<1> QED
  BY <1>5, <1>6

LEMMA OutputOf ==
    ASSUME IInv, NEW w, Arrives(w), FrameInv(w), Output
    PROVE  FrameInv(w)'
<1>1. /\ phase = "output" /\ numSamples' = el.n /\ channelIndex' = channelIndex + el.chans
      /\ IF pos > Len(bits) THEN phase' = "failed" ELSE phase' = "tag"
      /\ UNCHANGED <<frame, pos, el>>
  BY DEF Output, Exhausted, Fail
<1>2. CASE Lost
  BY <1>1, <1>2, FailedIs DEF Lost
<1>3. CASE OutputRight(w)
  <2>1. /\ channelIndex \in 0 .. 2 - Chans(w) /\ el.chans = Chans(w) /\ el.n = Count
        /\ w.shifted = 0 /\ Count <= FrameLength
        /\ pos = Start(w, channelIndex + Chans(w)) /\ pos <= Len(bits)
    BY <1>3 DEF OutputRight, ElementOpen
  <2>2. Chans(w) \in 1 .. 2
    BY ProperIs, Zenon DEF Arrives
  <2>3. /\ channelIndex' = 2 \/ channelIndex' \in 0 .. 2 - Chans(w)
        /\ channelIndex' = channelIndex + Chans(w)
    BY <1>1, <2>1, <2>2
  <2>4. /\ Count' = Count /\ bits' = bits /\ \A c : Start(w, c)' = Start(w, c)
    BY <1>1, SameFrame, Zenon
  <2>5. Written(channelIndex)'
    <3>1. \A i \in 1 .. Count : \A k \in 1 .. channelIndex + Chans(w) :
              out'[2 * (i - 1) + k - 1] = frame.audio[i][k]
      BY <1>3, OutputWrites, Zenon
    <3> QED
      BY <1>1, <2>3, <2>4, <3>1 DEF Written
  <2>6. pos' = Start(w, channelIndex)' /\ pos' <= Len(bits')
    <3>1. Start(w, channelIndex)' = StartOf(frame.audio, w, channelIndex + Chans(w))
      BY <1>1, <2>3 DEF Start
    <3>2. Start(w, channelIndex + Chans(w)) = StartOf(frame.audio, w, channelIndex + Chans(w))
      BY DEF Start
    <3> QED
      BY <1>1, <2>1, <2>4, <3>1, <3>2
  <2>7. phase' = "tag"
    <3>1. pos \in Nat /\ Len(bits) \in Nat
      BY DEF Arrives, IInv, TypeOK
    <3> QED
      BY <1>1, <2>1, <3>1
  <2>8. numSamples' = Count' /\ w.shifted = 0 /\ Count' <= FrameLength
    BY <1>1, <2>1, <2>4
  <2>9. Between(w)'
    BY <2>3, <2>5, <2>6, <2>8 DEF Between
  <2> QED
    BY <2>7, <2>9 DEF FrameInv, InChannel
<1> QED
  BY <1>1, <1>2, <1>3 DEF FrameInv

\* What arrived whole has samples, and no more channels than the output.
LEMMA PanicRight ==
    ASSUME IInv, NEW w, Arrives(w), FrameInv(w), Panic
    PROVE  FrameInv(w)'
<1>1. /\ \/ NoSample /\ InChannel
         \/ PastOutput /\ phase = "output"
      /\ phase' = "panicked" /\ frame' = frame
  BY DEF Panic, NoSample, PastOutput
<1>2. ~frame.whole
  <2> SUFFICES ASSUME frame.whole PROVE FALSE
    OBVIOUS
  <2>1. ElementOpen(w)
    BY <1>1 DEF FrameInv, Lost, ChannelRight, OutputRight
  <2>2. /\ Count \in 1 .. 2^16 - 1 /\ Chans(w) \in 1 .. 2
    BY ProperIs, ZenonT(40) DEF Arrives, Count
  <2> DEFINE n == el.n
             chans == el.chans
  <2>3. /\ n \in 1 .. FrameLength /\ FrameLength \in Nat /\ NumChannels = 2
        /\ chans \in 1 .. 2 /\ channelIndex \in 0 .. 2 - chans
    BY <2>1, <2>2, ConfigAssumption DEF ElementOpen
  <2>4. \/ n = 0
        \/ n > 0 /\ channelIndex + (n - 1) * NumChannels + chans > FrameLength * NumChannels
        \/ chans = 2 /\ channelIndex > FrameLength * NumChannels
    BY <1>1 DEF NoSample, PastOutput
  <2> HIDE DEF n, chans
  <2> QED
    BY <2>3, <2>4
<1> QED
  BY <1>1, <1>2, FailedIs

-----------------------------------------------------------------------------
(* What was sent stays decoded as it was encoded.                          *)

\* Decode starts before the first element, with nothing written.
LEMMA DecodeRight ==
    ASSUME IInv, Decode
    PROVE  SentInv'
<1>1. /\ given \in Nat /\ given < Frames /\ frame' \in Sent[given + 1]
      /\ phase' = "tag" /\ pos' = 0 /\ channelIndex' = 0
  BY DEF Decode, IInv, TypeOK
<1>2. given + 1 \in 1 .. Frames
  BY <1>1, ConfigAssumption
<1>3. frame'.bits \in Seq(Bits) /\ Len(frame'.bits) % 8 = 0
  BY <1>1, <1>2, SentAssumption DEF Bits
<1>4. ASSUME NEW w, Enc!Sends(frame, w)' PROVE FrameInv(w)'
  <2>1. Enc!Proper(frame'.audio, w)
    BY <1>4, Zenon DEF Enc!Sends
  <2>2. Chans(w) \in 1 .. 2
    BY <2>1, ProperIs, Zenon
  <2>3. channelIndex' \in 0 .. 2 - Chans(w)
    BY <1>1, <2>2
  <2>4. Start(w, channelIndex)' = 0
    <3>1. StartOf(frame'.audio, w, 0) = 0
      BY DEF StartOf
    <3>2. Start(w, channelIndex)' = StartOf(frame'.audio, w, channelIndex')
      BY DEF Start
    <3> QED
      BY <1>1, <3>1, <3>2
  <2>5. pos' <= Len(bits')
    BY <1>1, <1>3 DEF bits
  <2>6. Written(channelIndex)'
    <3>1. \A k : k \notin 1 .. 0
      OBVIOUS
    <3> QED
      BY <1>1, <3>1 DEF Written
  <2>7. Between(w)'
    BY <1>1, <2>3, <2>4, <2>5, <2>6 DEF Between
  <2> QED
    BY <1>1, <2>7 DEF FrameInv, InChannel
<1> QED
  BY <1>3, <1>4 DEF SentInv

LEMMA FrameInvStays ==
    ASSUME UNCHANGED vars, NEW w, FrameInv(w)
    PROVE  FrameInv(w)'
<1>1. /\ frame' = frame /\ channelIndex' = channelIndex /\ phase' = phase /\ pos' = pos
      /\ numSamples' = numSamples /\ el' = el /\ ag' = ag /\ predictor' = predictor
      /\ mixBuffer' = mixBuffer /\ coefs' = coefs /\ out' = out
  BY DEF vars, reader, scratch
<1>2. /\ \A k : ResidualsAt(w, k)' = ResidualsAt(w, k)
      /\ \A k : CodeStart(w, k)' = CodeStart(w, k)
      /\ Count' = Count /\ bits' = bits
      /\ \A c : Start(w, c)' = Start(w, c)
      /\ \A c, k : Given(w, c, k)' = Given(w, c, k)
  BY <1>1, SameElement, Zenon
<1>3. (InChannel' <=> InChannel) /\ Chan' = Chan /\ (Lost' <=> Lost)
  BY <1>1, <1>2 DEF InChannel, Chan, Lost
<1>4. \A c : Written(c)' <=> Written(c)
  BY <1>1, <1>2 DEF Written
<1>5. \A m : Decoded(w, m)' <=> Decoded(w, m)
  BY <1>1, <1>2 DEF Decoded
<1>6. Between(w)' <=> Between(w)
  BY <1>1, <1>2, <1>4 DEF Between
<1>7. ElementOpen(w)' <=> ElementOpen(w)
  BY <1>1, <1>2, <1>4 DEF ElementOpen
<1>8. ParametersHeld(w)' <=> ParametersHeld(w)
  BY <1>1, <1>3 DEF ParametersHeld
<1>9. \A s, k : With(s, w, k)' <=> With(s, w, k)
  BY <1>1, <1>2 DEF With
<1>10. ChannelRight(w)' <=> ChannelRight(w)
  BY <1>1, <1>3, <1>5, <1>7, <1>8, <1>9 DEF ChannelRight
<1>11. OutputRight(w)' <=> OutputRight(w)
  BY <1>1, <1>2, <1>5, <1>7 DEF OutputRight
<1> QED
  BY <1>1, <1>2, <1>3, <1>4, <1>6, <1>10, <1>11 DEF FrameInv

LEMMA InitSent == Init => SentInv
<1> SUFFICES ASSUME Init PROVE SentInv
  OBVIOUS
<1>1. frame.bits = <<>> /\ frame.audio = <<>>
  BY DEF Init
<1>2. Len(frame.bits) % 8 = 0
  BY <1>1
<1>3. ASSUME NEW w, Enc!Sends(frame, w) PROVE FALSE
  <2>1. Enc!Proper(frame.audio, w)
    BY <1>3, Zenon DEF Enc!Sends
  <2>2. Len(frame.audio) \in 1 .. 2^16 - 1
    BY <2>1, ProperIs, Zenon
  <2> QED
    BY <1>1, <2>2
<1> QED
  BY <1>2, <1>3 DEF SentInv

\* Only Decode takes another frame.
FrameStep ==
    \/ End \/ BadElement \/ RefuseElement \/ OpenCompressed \/ OpenRaw
    \/ Truncated \/ Symbol \/ Predict \/ Output \/ Panic

LEMMA FrameStepKeeps == FrameStep => frame' = frame
BY DEF FrameStep, End, BadElement, RefuseElement, OpenCompressed, OpenRaw,
       Truncated, Symbol, Predict, Output, Panic

LEMMA FrameStepRight ==
    ASSUME IInv, NEW w, Arrives(w), FrameInv(w), FrameStep
    PROVE  FrameInv(w)'
<1>1. CASE End
  BY <1>1, EndRight
<1>2. CASE BadElement
  BY <1>2, BadElementRight
<1>3. CASE RefuseElement
  BY <1>3, RefuseElementRight
<1>4. CASE OpenCompressed
  BY <1>4, OpenCompressedRight
<1>5. CASE OpenRaw
  BY <1>5, OpenRawRight
<1>6. CASE Truncated
  BY <1>6, TruncatedRight
<1>7. CASE Symbol
  BY <1>7, SymbolRight
<1>8. CASE Predict
  BY <1>8, PredictRight
<1>9. CASE Output
  BY <1>9, OutputOf
<1>10. CASE Panic
  BY <1>10, PanicRight
<1> QED
  BY <1>1, <1>2, <1>3, <1>4, <1>5, <1>6, <1>7, <1>8, <1>9, <1>10 DEF FrameStep

LEMMA NextSent == IInv /\ SentInv /\ [Next]_vars => SentInv'
<1> SUFFICES ASSUME IInv, SentInv, [Next]_vars PROVE SentInv'
  OBVIOUS
<1>1. CASE Decode
  BY <1>1, DecodeRight
<1>2. CASE FrameStep
  <2>1. frame' = frame
    BY <1>2, FrameStepKeeps
  <2>2. ASSUME NEW w, Enc!Sends(frame, w) PROVE FrameInv(w)'
    <3>1. Arrives(w) /\ FrameInv(w)
      BY <2>2, ArrivesIs
    <3> QED
      BY <1>2, <3>1, FrameStepRight
  <2> QED
    BY <2>1, <2>2, Zenon DEF SentInv
<1>3. CASE UNCHANGED vars
  <2>1. frame' = frame
    BY <1>3 DEF vars
  <2>2. ASSUME NEW w, Enc!Sends(frame, w) PROVE FrameInv(w)'
    BY <1>3, <2>2, FrameInvStays, Zenon DEF SentInv
  <2> QED
    BY <2>1, <2>2, Zenon DEF SentInv
<1> QED
  <2>1. CASE Next
    BY <1>1, <1>2, <1>3, <2>1 DEF Next, FrameStep, Finished
  <2> QED
    BY <1>3, <2>1

\* Both invariants hold for every stream of frames.
THEOREM Decodes == Spec => [](IInv /\ SentInv)
<1>1. Init => IInv /\ SentInv
  BY InitInv, InitSent
<1>2. IInv /\ SentInv /\ [Next]_vars => (IInv /\ SentInv)'
  BY NextInv, NextSent
<1> QED
  BY <1>1, <1>2, PTL DEF Spec

-----------------------------------------------------------------------------
(* What an encoder sends is decoded without loss, or its damage reported.  *)

\* f is what some way of encoding makes of its audio, or what is left of that.
Encoded(f) == \E w : Enc!Sends(f, w)

\* A sample of an element that is ready for the output fits the element's range.
LEMMA GivenFits ==
    ASSUME NEW w, Arrives(w), OutputRight(w), NEW k \in 1 .. Chans(w), NEW j \in 1 .. Count
    PROVE  Signed(Given(w, channelIndex, k)[j], el.chanBits) = Given(w, channelIndex, k)[j]
<1> DEFINE x == Given(w, channelIndex, k)[j]
<1>1. /\ channelIndex \in 0 .. 2 - Chans(w) /\ Chans(w) \in 1 .. 2
      /\ IF w.escape THEN el.chanBits = 16 ELSE el.chanBits = 15 + Chans(w)
  <2>1. Chans(w) \in 1 .. 2
    BY ProperIs, Zenon DEF Arrives
  <2> QED
    BY <2>1 DEF OutputRight, ElementOpen
<1>2. CASE w.escape
  <2>1. x = frame.audio[j][channelIndex + 1 + k - 1]
    BY <1>2, Zenon DEF Given
  <2>2. channelIndex + 1 + k - 1 \in 1 .. 2
    BY <1>1
  <2>3. \A q \in 1 .. Count : \A l \in 1 .. 2 : frame.audio[q][l] \in Int16
    BY ProperIs, Zenon DEF Arrives, Count
  <2>4. x \in Int16
    BY <2>1, <2>2, <2>3, Zenon
  <2> HIDE DEF x
  <2>5. Signed(x, 16) = x
    BY <2>4, Int16Is
  <2> QED
    BY <1>1, <1>2, <2>5 DEF x
<1>3. CASE ~w.escape
  <2> DEFINE s == Signal(frame.audio, channelIndex + 1, Chans(w), w, k)
             b == 15 + Chans(w)
  <2>1. InFrame(frame.audio, channelIndex + 1, Chans(w), w)
    BY <1>1, OpenedFits, Zenon
  <2>2. CanCode(s, w.prm[k], b)
    BY <2>1, SignalIs, Zenon
  <2>3. s \in Seq(SignedRange(b)) /\ b \in Nat \ {0}
    BY <1>1, <2>2 DEF CanCode
  <2>4. Len(s) = Count
    <3>1. Count \in Nat
      BY ProperIs DEF Arrives, Count
    <3> QED
      BY <3>1 DEF Signal, Count
  <2>5. x = s[j]
    BY <1>3, Zenon DEF Given
  <2> HIDE DEF s, b, x
  <2>6. x \in SignedRange(b)
    BY <2>3, <2>4, <2>5
  <2>7. x \in Int
    <3>1. 2^(b - 1) \in Int
      BY <2>3, PowerOfTwo
    <3> QED
      BY <2>6, <3>1 DEF SignedRange
  <2>8. Signed(x, b) = x
    BY <2>3, <2>6, <2>7, SignedIs
  <2> QED
    BY <1>1, <1>3, <2>8 DEF x, b
<1> QED
  BY <1>2, <1>3

LEMMA SentDecodes ==
    ASSUME IInv, SentInv, Encoded(frame)
    PROVE  Lossless /\ DamageReported
<1> PICK w : Enc!Sends(frame, w)
  BY DEF Encoded
<1>1. Arrives(w) /\ FrameInv(w)
  BY ArrivesIs
<1>2. DamageReported
  BY <1>1 DEF DamageReported, FrameInv
<1>3. ASSUME frame.whole PROVE phase \notin {"failed", "panicked"}
  BY <1>1, <1>3 DEF FrameInv
<1>4. ASSUME frame.whole, phase = "output"
      PROVE  /\ channelIndex + el.chans <= NumChannels
             /\ \A ch \in 0 .. el.chans - 1 : \A i \in 0 .. el.n - 1 :
                   Signed(mixBuffer[ch][i], el.chanBits) = mixBuffer[ch][i]
  <2>1. OutputRight(w)
    BY <1>1, <1>4 DEF FrameInv, Lost
  <2>2. /\ channelIndex \in 0 .. 2 - Chans(w) /\ el.chans = Chans(w) /\ el.n = Count
        /\ Decoded(w, Chans(w))
    BY <2>1 DEF OutputRight, ElementOpen
  <2>3. Chans(w) \in 1 .. 2 /\ Count \in Nat
    <3>1. Chans(w) \in 1 .. 2 /\ Count \in 1 .. 2^16 - 1
      BY <1>1, ProperIs, ZenonT(40) DEF Arrives, Count
    <3> QED
      BY <3>1
  <2>4. channelIndex + el.chans <= NumChannels
    BY <2>2, <2>3, ConfigAssumption
  <2>5. ASSUME NEW ch \in 0 .. el.chans - 1, NEW i \in 0 .. el.n - 1
        PROVE  Signed(mixBuffer[ch][i], el.chanBits) = mixBuffer[ch][i]
    <3>1. ch + 1 \in 1 .. Chans(w) /\ i + 1 \in 1 .. Count /\ i \in 0 .. Count - 1
          /\ ch + 1 - 1 = ch
      BY <2>2, <2>3, <2>5
    <3>2. mixBuffer[ch][i] = Given(w, channelIndex, ch + 1)[i + 1]
      <4> DEFINE k == ch + 1
      <4>1. k \in 1 .. Chans(w) /\ k - 1 = ch /\ i \in 0 .. Count - 1
        BY <3>1
      <4> HIDE DEF k
      <4>2. mixBuffer[k - 1][i] = Given(w, channelIndex, k)[i + 1]
        BY <2>2, <4>1 DEF Decoded
      <4> QED
        BY <4>1, <4>2 DEF k
    <3>3. Signed(Given(w, channelIndex, ch + 1)[i + 1], el.chanBits)
            = Given(w, channelIndex, ch + 1)[i + 1]
      BY <1>1, <2>1, <3>1, GivenFits, Zenon
    <3> QED
      BY <3>2, <3>3, Zenon
  <2> QED
    BY <2>4, <2>5
<1>5. ASSUME frame.whole, phase = "done"
      PROVE  /\ numSamples = Len(frame.audio)
             /\ \A i \in 1 .. numSamples : \A k \in 1 .. 2 :
                   out[2 * (i - 1) + k - 1] = frame.audio[i][k]
  BY <1>1, <1>5 DEF FrameInv, Count, Written
<1> QED
  BY <1>2, <1>3, <1>4, <1>5 DEF Lossless

LEMMA EncodedDecodes == Spec => [](Encoded(frame) => Lossless /\ DamageReported)
<1>1. IInv /\ SentInv => (Encoded(frame) => Lossless /\ DamageReported)
  BY SentDecodes
<1> QED
  BY <1>1, Decodes, PTL

\* A frame an encoder makes and the network brings whole decodes to the audio it was
\* made of, sample for sample, whatever the audio, the parameters of its channels and
\* the frames before it, its sums being integers (Decoder.Decode, decodeElement,
\* dynDecomp, unpcBlock, unmix16).
THEOREM EncodedLossless == Spec => [](Encoded(frame) => Lossless)
<1>1. (Encoded(frame) => Lossless /\ DamageReported) => (Encoded(frame) => Lossless)
  OBVIOUS
<1> QED
  BY <1>1, EncodedDecodes, PTL

\* However many of its last bytes are lost, and whatever its length and shift, a frame
\* an encoder makes is never passed on as audio unless it is whole and the stream is
\* configured for it: Decode fails or, where the cut leaves nothing of the length a
\* frame declares, ends the program (exhausted, errTruncated, errBadShift, errFrameTooLong).
THEOREM EncodedDamageReported == Spec => [](Encoded(frame) => DamageReported)
<1>1. (Encoded(frame) => Lossless /\ DamageReported) => (Encoded(frame) => DamageReported)
  OBVIOUS
<1> QED
  BY <1>1, EncodedDecodes, PTL

\* A stream of an encoder's frames, whole or cut short, and of nothing else.
EncodersOnly == \A k \in 1 .. Frames : \A f \in Sent[k] : Encoded(f)

\* On such a stream both properties hold of every frame.
THEOREM EncodersStream ==
    ASSUME EncodersOnly
    PROVE  Spec => []Lossless /\ []DamageReported
<1> DEFINE J == given > 0 => Encoded(frame)
           K == given = 0 => phase = "idle" /\ ~frame.whole
<1>1. Init => J /\ K
  BY DEF Init
<1>2. IInv /\ (J /\ K) /\ [Next]_vars => (J /\ K)'
  <2> SUFFICES ASSUME IInv, J, K, [Next]_vars PROVE J' /\ K'
    BY DEF J, K
  <2>1. given \in Nat
    BY DEF IInv, TypeOK
  <2>2. CASE Decode
    <3>1. given < Frames /\ frame' \in Sent[given + 1] /\ given' = given + 1
      BY <2>2 DEF Decode
    <3>2. given + 1 \in 1 .. Frames /\ given' # 0
      BY <2>1, <3>1, ConfigAssumption
    <3>3. Encoded(frame')
      BY <3>1, <3>2 DEF EncodersOnly
    <3> QED
      BY <3>2, <3>3
  <2>3. CASE FrameStep
    <3>1. frame' = frame /\ given' = given /\ phase \notin {"idle"}
      BY <2>3 DEF FrameStep, End, BadElement, RefuseElement, OpenCompressed, OpenRaw,
                  Truncated, Symbol, Predict, Output, Panic, NoSample, PastOutput, InChannel
    <3> QED
      BY <3>1
  <2>4. CASE UNCHANGED vars
    BY <2>4 DEF vars, reader
  <2> QED
    <3>1. CASE Next
      BY <2>2, <2>3, <2>4, <3>1 DEF Next, FrameStep, Finished
    <3> QED
      BY <2>4, <3>1
<1>3. IInv /\ J /\ K /\ (Encoded(frame) => Lossless /\ DamageReported)
        => Lossless /\ DamageReported
  <2>1. IInv => given \in Nat
    BY DEF IInv, TypeOK
  <2>2. given \in Nat => given > 0 \/ given = 0
    OBVIOUS
  <2>3. phase = "idle" /\ ~frame.whole => Lossless /\ DamageReported
    BY DEF Lossless, DamageReported
  <2> QED
    BY <2>1, <2>2, <2>3
<1> HIDE DEF J, K
<1>4. Spec => [](J /\ K)
  BY <1>1, <1>2, Invariance, PTL DEF Spec
<1> QED
  BY <1>3, <1>4, Invariance, EncodedDecodes, PTL
=============================================================================

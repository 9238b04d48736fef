------------------------- MODULE ResequencerProofs --------------------------
(***************************************************************************)
(* Theorems about Resequencer, for every size of the sequence space, every *)
(* window shorter than half of it, and every set of packets.               *)
(***************************************************************************)
EXTENDS Resequencer, FiniteSetTheorems, FunctionTheorems, TLAPS

USE HalfAssumption

-----------------------------------------------------------------------------
(* Arithmetic of sequence numbers.                                         *)

LEMMA DivMod ==
    ASSUME NEW x \in Int
    PROVE  /\ x % SeqMod \in Seq16
           /\ x \div SeqMod \in Int
           /\ x = (SeqMod * (x \div SeqMod)) + (x % SeqMod)
<1>1. SeqMod \in Nat /\ SeqMod > 0
  BY DEF SeqMod
<1> HIDE DEF SeqMod
<1>2. x % SeqMod \in 0 .. SeqMod - 1
  BY <1>1
<1>3. x \div SeqMod \in Int
  BY <1>1
<1>4. x = (SeqMod * (x \div SeqMod)) + (x % SeqMod)
  BY <1>1
<1> QED
  BY <1>2, <1>3, <1>4 DEF Seq16

\* A multiple of SeqMod that is less than SeqMod in size is zero.
LEMMA NoSmallMultiple ==
    ASSUME NEW k \in Int, -SeqMod < SeqMod * k, SeqMod * k < SeqMod
    PROVE  k = 0
<1>1. SeqMod \in Nat /\ SeqMod > 0
  BY DEF SeqMod
<1>2. k >= 1 => SeqMod * k >= SeqMod
  BY <1>1, SMT
<1>3. k <= -1 => SeqMod * k <= -SeqMod
  BY <1>1, SMT
<1>4. QED
  BY <1>1, <1>2, <1>3

\* Quotient and remainder are unique.
LEMMA ModUnique ==
    ASSUME NEW x \in Int, NEW k \in Int, NEW d \in Seq16, x = (SeqMod * k) + d
    PROVE  x % SeqMod = d
<1> DEFINE q == x \div SeqMod
           e == x % SeqMod
<1>1. e \in Seq16 /\ q \in Int /\ x = (SeqMod * q) + e
  BY DivMod
<1>2. SeqMod \in Nat /\ SeqMod > 0
  BY DEF SeqMod
<1>3. SeqMod * (k - q) = (SeqMod * k) - (SeqMod * q)
  BY <1>1, <1>2, SMT
<1>4. SeqMod * (k - q) = e - d
  BY <1>1, <1>2, <1>3, SMT DEF Seq16
<1>5. k - q = 0
  <2>1. -SeqMod < SeqMod * (k - q) /\ SeqMod * (k - q) < SeqMod
    BY <1>1, <1>2, <1>4 DEF Seq16
  <2> QED
    BY <1>1, <2>1, NoSmallMultiple
<1>6. SeqMod * (k - q) = 0
  BY <1>2, <1>5
<1> QED
  BY <1>1, <1>4, <1>6 DEF Seq16

LEMMA WireType ==
    ASSUME NEW p \in Int
    PROVE  Wire(p) \in Seq16
BY DivMod DEF Wire

\* Going on by k positions goes on by k numbers.
LEMMA PlusWire ==
    ASSUME NEW p \in Int, NEW k \in Int
    PROVE  Plus(Wire(p), k) = Wire(p + k)
<1> DEFINE q == p \div SeqMod
           d == p % SeqMod
           c == (d + k) % SeqMod
           h == (d + k) \div SeqMod
<1>1. d \in Seq16 /\ q \in Int /\ p = (SeqMod * q) + d
  BY DivMod
<1>2. d + k \in Int
  BY <1>1 DEF Seq16
<1>3. c \in Seq16 /\ h \in Int /\ d + k = (SeqMod * h) + c
  BY <1>2, DivMod
<1>4. SeqMod \in Nat
  BY DEF SeqMod
<1>5. SeqMod * (q + h) = (SeqMod * q) + (SeqMod * h)
  BY <1>1, <1>3, <1>4, SMT
<1>6. p + k = (SeqMod * (q + h)) + c
  BY <1>1, <1>3, <1>4, <1>5, SMT DEF Seq16
<1>7. (p + k) % SeqMod = c
  BY <1>1, <1>3, <1>6, ModUnique
<1> QED
  BY <1>7 DEF Plus, Wire

\* The difference of two numbers depends on the difference of the positions.
LEMMA SubWire ==
    ASSUME NEW p \in Int, NEW o \in Int
    PROVE  Sub(Wire(p), Wire(o)) = (p - o) % SeqMod
<1> DEFINE q == p \div SeqMod
           d == p % SeqMod
           r == o \div SeqMod
           e == o % SeqMod
           c == (d - e) % SeqMod
           h == (d - e) \div SeqMod
<1>1. /\ d \in Seq16 /\ q \in Int /\ p = (SeqMod * q) + d
      /\ e \in Seq16 /\ r \in Int /\ o = (SeqMod * r) + e
  BY DivMod
<1>2. d - e \in Int
  BY <1>1 DEF Seq16
<1>3. c \in Seq16 /\ h \in Int /\ d - e = (SeqMod * h) + c
  BY <1>2, DivMod
<1>4. SeqMod \in Nat
  BY DEF SeqMod
<1>5. SeqMod * ((q - r) + h) = ((SeqMod * q) - (SeqMod * r)) + (SeqMod * h)
  BY <1>1, <1>3, <1>4, SMT
<1>6. p - o = (SeqMod * ((q - r) + h)) + c
  BY <1>1, <1>3, <1>4, <1>5, SMT DEF Seq16
<1>7. (p - o) % SeqMod = c
  BY <1>1, <1>3, <1>6, ModUnique
<1> QED
  BY <1>7 DEF Sub, Wire

\* Within a lap the difference of the numbers is that of the positions.
LEMMA SubNear ==
    ASSUME NEW p \in Int, NEW o \in Int, 0 <= p - o, p - o < SeqMod
    PROVE  Sub(Wire(p), Wire(o)) = p - o
<1>1. SeqMod \in Nat
  BY DEF SeqMod
<1>2. p - o \in Seq16
  BY <1>1 DEF Seq16
<1>3. p - o = (SeqMod * 0) + (p - o)
  BY <1>1
<1>4. (p - o) % SeqMod = p - o
  BY <1>2, <1>3, ModUnique
<1> QED
  BY <1>4, SubWire

\* Within half a lap, ahead compares positions.
LEMMA AheadNear ==
    ASSUME NEW p \in Int, NEW o \in Int, -Half <= p - o, p - o < Half
    PROVE  ahead(Wire(p), Wire(o)) <=> p >= o
<1>1. SeqMod \in Nat /\ SeqMod = Half + Half
  BY DEF SeqMod
<1>2. CASE p >= o
  <2>1. Sub(Wire(p), Wire(o)) = p - o
    BY <1>1, <1>2, SubNear
  <2> QED
    BY <1>2, <2>1 DEF ahead
<1>3. CASE p < o
  <2>1. (p - o) + SeqMod \in Seq16
    BY <1>1, <1>3 DEF Seq16
  <2>2. p - o = (SeqMod * (-1)) + ((p - o) + SeqMod)
    BY <1>1
  <2>3. (p - o) % SeqMod = (p - o) + SeqMod
    BY <2>1, <2>2, ModUnique
  <2> QED
    BY <1>1, <1>3, <2>3, SubWire DEF ahead
<1> QED
  BY <1>2, <1>3

\* Less than a lap apart, different positions have different numbers.
LEMMA WireInjective ==
    ASSUME NEW p \in Int, NEW o \in Int, -SeqMod < p - o, p - o < SeqMod,
           Wire(p) = Wire(o)
    PROVE  p = o
<1>1. SeqMod \in Nat /\ SeqMod > 0
  BY DEF SeqMod
<1>2. Sub(Wire(p), Wire(o)) = 0 % SeqMod /\ Sub(Wire(o), Wire(p)) = 0 % SeqMod
  BY SubWire DEF Sub, Wire
<1>3. 0 % SeqMod = 0
  BY <1>1
<1>4. CASE p >= o
  BY <1>2, <1>3, <1>4, SubNear
<1>5. CASE o >= p
  <2>1. 0 <= o - p /\ o - p < SeqMod
    BY <1>1, <1>5
  <2>2. Sub(Wire(o), Wire(p)) = o - p
    BY <2>1, SubNear
  <2> QED
    BY <1>2, <1>3, <2>2
<1> QED
  BY <1>4, <1>5

-----------------------------------------------------------------------------
(* The map of held packets and the runs taken out of it.                   *)

\* held is filed: every packet is under its own number, less than half a lap
\* ahead of position pos.
Filed(held, pos) ==
    \A s \in DOMAIN held : /\ held[s] \in Nat
                           /\ s = Wire(held[s])
                           /\ pos <= held[s]
                           /\ held[s] < pos + Half

\* Filed, and the packet at pos itself is missing.
Waiting(held, pos) ==
    /\ Filed(held, pos)
    /\ Wire(pos) \notin DOMAIN held

\* A held number that lies i places on holds the packet that lies i places on.
LEMMA FiledAt ==
    ASSUME NEW held, NEW pos \in Nat, Filed(held, pos),
           NEW i \in Nat, i <= Half, Plus(Wire(pos), i) \in DOMAIN held
    PROVE  held[Plus(Wire(pos), i)] = pos + i /\ i < Half
<1> DEFINE s == Plus(Wire(pos), i)
           p == held[s]
<1>1. s = Wire(pos + i)
  BY PlusWire
<1>2. p \in Nat /\ s = Wire(p) /\ pos <= p /\ p < pos + Half
  BY DEF Filed
<1>3. -SeqMod < p - (pos + i) /\ p - (pos + i) < SeqMod
  BY <1>2 DEF SeqMod
<1>4. p = pos + i
  <2>1. p \in Int /\ pos + i \in Int /\ Wire(p) = Wire(pos + i)
    BY <1>1, <1>2
  <2> HIDE DEF p
  <2> QED
    BY <1>3, <2>1, WireInjective
<1> QED
  BY <1>2, <1>4

\* A run that drain takes out of a filed map is shorter than half a lap.
LEMMA RunLength ==
    ASSUME NEW held, NEW pos \in Nat, Filed(held, pos),
           NEW n \in Nat, IsRun(held, Wire(pos), n)
    PROVE  n <= Half
<1>1. SUFFICES ASSUME n > Half PROVE FALSE
  OBVIOUS
<1>2. Half \in 0 .. n - 1
  BY <1>1
<1>3. Plus(Wire(pos), Half) \in DOMAIN held
  BY <1>2 DEF IsRun
<1> QED
  BY <1>3, FiledAt

\* r is the n consecutive positions from pos on.
IsStretch(r, pos, n) ==
    /\ r \in [1 .. n -> Nat]
    /\ \A i \in 1 .. n : r[i] = (pos + i) - 1

\* drain hands over n consecutive positions, and what it leaves behind is
\* filed, waiting for the position after them.
LEMMA RunTaken ==
    ASSUME NEW held, NEW pos \in Nat, Filed(held, pos),
           NEW n \in Nat, IsRun(held, Wire(pos), n)
    PROVE  /\ IsStretch(Run(held, Wire(pos), n), pos, n)
           /\ Waiting(AfterRun(held, Wire(pos), n), pos + n)
           /\ Plus(Wire(pos), n) = Wire(pos + n)
<1> DEFINE rest == AfterRun(held, Wire(pos), n)
           gone == {Plus(Wire(pos), i) : i \in 0 .. n - 1}
<1>1. n <= Half
  BY RunLength
<1>2. Plus(Wire(pos), n) = Wire(pos + n)
  BY PlusWire
<1>3. ASSUME NEW i \in 1 .. n
      PROVE  held[Plus(Wire(pos), i - 1)] = (pos + i) - 1
  <2>1. i - 1 \in Nat /\ i - 1 <= Half /\ i - 1 \in 0 .. n - 1
    BY <1>1
  <2>2. Plus(Wire(pos), i - 1) \in DOMAIN held
    BY <2>1 DEF IsRun
  <2>3. held[Plus(Wire(pos), i - 1)] = pos + (i - 1)
    BY <2>1, <2>2, FiledAt
  <2> QED
    BY <2>3
<1>4. DOMAIN rest = DOMAIN held \ gone /\ \A s \in DOMAIN rest : rest[s] = held[s]
  BY DEF AfterRun, Restrict
<1>5. ASSUME NEW s \in DOMAIN rest
      PROVE  /\ rest[s] \in Nat /\ s = Wire(rest[s])
             /\ pos + n < rest[s] /\ rest[s] < (pos + n) + Half
  <2> DEFINE p == rest[s]
  <2>1. s \in DOMAIN held /\ s \notin gone /\ p = held[s]
    BY <1>4
  <2>2. p \in Nat /\ s = Wire(p) /\ pos <= p /\ p < pos + Half
    BY <2>1 DEF Filed
  <2>3. s = Plus(Wire(pos), p - pos)
    BY <2>2, PlusWire
  <2>4. p - pos \notin 0 .. n - 1
    BY <2>1, <2>3
  <2>5. p - pos # n
    BY <2>1, <2>3 DEF IsRun
  <2> QED
    BY <2>2, <2>4, <2>5
<1>6. Waiting(rest, pos + n)
  <2>1. Wire(pos + n) \notin DOMAIN rest
    BY <1>2, <1>4 DEF IsRun
  <2>2. Filed(rest, pos + n)
    BY <1>5 DEF Filed
  <2> QED
    BY <2>1, <2>2 DEF Waiting
<1> QED
  BY <1>2, <1>3, <1>6 DEF Run, IsStretch

\* skipToNextPending finds the earliest held packet, and its distance.
LEMMA NearestHeld ==
    ASSUME NEW held, NEW pos \in Nat, Waiting(held, pos),
           NEW best, IsNearest(held, Wire(pos), best)
    PROVE  /\ held[best] \in Nat /\ best = Wire(held[best])
           /\ pos < held[best]
           /\ Sub(best, Wire(pos)) = held[best] - pos
           /\ Filed(held, held[best])
<1> DEFINE b == held[best]
<1>1. b \in Nat /\ best = Wire(b) /\ pos <= b /\ b < pos + Half
  BY DEF IsNearest, Waiting, Filed
<1>2. b # pos
  BY <1>1 DEF IsNearest, Waiting
<1>3. Sub(best, Wire(pos)) = b - pos
  <2>1. 0 <= b - pos /\ b - pos < SeqMod
    BY <1>1 DEF SeqMod
  <2> QED
    BY <1>1, <2>1, SubNear
<1>4. ASSUME NEW s \in DOMAIN held
      PROVE  held[s] \in Nat /\ s = Wire(held[s]) /\ b <= held[s] /\ held[s] < b + Half
  <2> DEFINE p == held[s]
  <2>1. p \in Nat /\ s = Wire(p) /\ pos <= p /\ p < pos + Half
    BY DEF Waiting, Filed
  <2>2. ahead(s, Wire(pos))
    BY <2>1, AheadNear
  <2>3. ahead(Wire(p), Wire(b))
    BY <1>1, <2>1, <2>2 DEF IsNearest
  <2>4. -Half <= p - b /\ p - b < Half
    BY <1>1, <2>1
  <2>5. p >= b
    BY <1>1, <2>1, <2>3, <2>4, AheadNear
  <2> QED
    BY <1>1, <2>1, <2>5
<1> QED
  BY <1>1, <1>2, <1>3, <1>4 DEF Filed

\* s is in stream order, from position from on, and ends before pos.
Ordered(s, from, pos) ==
    /\ s \in Seq(Nat)
    /\ \A i, j \in 1 .. Len(s) : i < j => s[i] < s[j]
    /\ \A i \in 1 .. Len(s) : from <= s[i] /\ s[i] < pos

\* A concatenation, element by element.
Joins(t, s, r) ==
    /\ t \in Seq(Nat) /\ Len(s) \in Nat /\ Len(t) = Len(s) + Len(r)
    /\ \A i \in 1 .. Len(s) + Len(r) :
          t[i] = IF i <= Len(s) THEN s[i] ELSE r[i - Len(s)]

LEMMA Joined ==
    ASSUME NEW s \in Seq(Nat), NEW r \in Seq(Nat)
    PROVE  Joins(s \o r, s, r)
BY DEF Joins

\* Handing over one more run keeps the output in order.
LEMMA OrderedRun ==
    ASSUME NEW s, NEW from \in Nat, NEW pos \in Nat, NEW n \in Nat,
           from <= pos, Ordered(s, from, pos),
           NEW r, IsStretch(r, pos, n)
    PROVE  /\ Len(s \o r) = Len(s) + n
           /\ Ordered(s \o r, from, pos + n)
           /\ PO!Extends(s \o r, s, pos, pos + n)
<1>1. r \in Seq(Nat) /\ Len(r) = n /\ \A i \in 1 .. n : r[i] = (pos + i) - 1
  <2>1. r \in [1 .. n -> Nat]
    BY DEF IsStretch
  <2> QED
    BY <2>1 DEF IsStretch
<1>2. s \in Seq(Nat) /\ \A i \in 1 .. Len(s) : s[i] \in Nat
  BY DEF Ordered
<1>3. s \o r \in Seq(Nat) /\ Len(s \o r) = Len(s) + n
  <2>1. s \in Seq(Nat) /\ r \in Seq(Nat) /\ Len(r) = n
    BY <1>1, <1>2
  <2>2. Joins(s \o r, s, r)
    BY <2>1, Joined
  <2> QED
    BY <2>1, <2>2 DEF Joins
<1>4. \A i \in 1 .. Len(s) + n :
         (s \o r)[i] = IF i <= Len(s) THEN s[i] ELSE (pos + (i - Len(s))) - 1
  BY <1>1, <1>2
<1>5. Ordered(s \o r, from, pos + n)
  <2> DEFINE t == s \o r
             l == Len(s)
  <2>0. /\ t \in Seq(Nat) /\ Len(t) = l + n /\ l \in Nat
        /\ \A i \in 1 .. l + n :
              t[i] = IF i <= l THEN s[i] ELSE (pos + (i - l)) - 1
        /\ \A i \in 1 .. l : s[i] \in Nat /\ from <= s[i] /\ s[i] < pos
        /\ \A i, j \in 1 .. l : i < j => s[i] < s[j]
    BY <1>2, <1>3, <1>4 DEF Ordered
  <2> HIDE DEF t, l
  <2>1. ASSUME NEW i \in 1 .. l + n
        PROVE  from <= t[i] /\ t[i] < pos + n
    <3>1. CASE i <= l
      BY <2>0, <3>1
    <3>2. CASE l < i
      <4>1. t[i] = (pos + (i - l)) - 1
        BY <2>0, <3>2
      <4> QED
        BY <2>0, <3>2, <4>1
    <3> QED
      BY <2>0, <3>1, <3>2
  <2>2. ASSUME NEW i \in 1 .. l + n, NEW j \in 1 .. l + n, i < j
        PROVE  t[i] < t[j]
    <3>1. CASE j <= l
      <4>1. i \in 1 .. l /\ j \in 1 .. l /\ i <= l
        BY <2>0, <2>2, <3>1
      <4>2. t[i] = s[i] /\ t[j] = s[j]
        BY <2>0, <3>1, <4>1
      <4>3. s[i] < s[j]
        BY <2>0, <2>2, <4>1
      <4> QED
        BY <4>2, <4>3
    <3>2. CASE l < j
      <4>1. t[j] = (pos + (j - l)) - 1
        BY <2>0, <3>2
      <4>2. CASE i <= l
        <5>1. t[i] = s[i] /\ s[i] \in Nat /\ s[i] < pos
          BY <2>0, <4>2
        <5> QED
          BY <2>0, <3>2, <4>1, <5>1
      <4>3. CASE l < i
        <5>1. t[i] = (pos + (i - l)) - 1
          BY <2>0, <4>3
        <5> QED
          BY <2>0, <2>2, <4>1, <5>1
      <4> QED
        BY <2>0, <4>2, <4>3
    <3> QED
      BY <2>0, <3>1, <3>2
  <2>3. Ordered(t, from, pos + n)
    BY <2>0, <2>1, <2>2 DEF Ordered
  <2> QED
    BY <2>3 DEF t
<1>6. PO!Extends(s \o r, s, pos, pos + n)
  BY <1>1, <1>2, <1>3, <1>4 DEF PO!Extends
<1> QED
  BY <1>3, <1>5, <1>6

\* A sequence that skips to a later position and goes on there.
LEMMA ExtendsTwice ==
    ASSUME NEW s \in Seq(Nat), NEW t \in Seq(Nat), NEW u \in Seq(Nat),
           NEW a \in Nat, NEW b \in Nat, NEW c \in Nat, NEW d \in Nat,
           a <= b, b <= c, c <= d,
           PO!Extends(t, s, a, b), PO!Extends(u, t, c, d)
    PROVE  PO!Extends(u, s, a, d)
<1>1. Len(s) \in Nat /\ Len(t) \in Nat /\ Len(u) \in Nat
  OBVIOUS
<1>2. Len(s) <= Len(t) /\ Len(t) <= Len(u)
  BY DEF PO!Extends
<1>3. ASSUME NEW i \in 1 .. Len(s) PROVE u[i] = s[i]
  <2>1. i \in 1 .. Len(t)
    BY <1>1, <1>2
  <2> QED
    BY <2>1 DEF PO!Extends
<1>4. ASSUME NEW i \in 1 .. Len(u), Len(s) < i PROVE a <= u[i] /\ u[i] < d
  <2>1. u[i] \in Nat
    OBVIOUS
  <2>2. CASE i <= Len(t)
    <3>1. i \in 1 .. Len(t)
      BY <1>1, <2>2
    <3>2. u[i] = t[i] /\ a <= t[i] /\ t[i] < b
      BY <1>4, <3>1 DEF PO!Extends
    <3> QED
      BY <2>1, <3>2
  <2>3. CASE Len(t) < i
    <3>1. c <= u[i] /\ u[i] < d
      BY <2>3 DEF PO!Extends
    <3> QED
      BY <2>1, <3>1
  <2> QED
    BY <1>1, <2>2, <2>3
<1>5. Len(s) <= Len(u)
  BY <1>1, <1>2
<1> QED
  BY <1>3, <1>4, <1>5 DEF PO!Extends

\* An output that ends before a ends before any later position.
LEMMA OrderedLater ==
    ASSUME NEW s, NEW from \in Nat, NEW a \in Nat, NEW b \in Nat, a <= b,
           Ordered(s, from, a)
    PROVE  Ordered(s, from, b)
<1>1. s \in Seq(Nat) /\ \A i \in 1 .. Len(s) : s[i] \in Nat
  BY DEF Ordered
<1> QED
  BY <1>1 DEF Ordered

-----------------------------------------------------------------------------
(* One call of push.                                                       *)

\* What is left after a run is no more than what was there, and less if the
\* run was not empty.
LEMMA AfterRunSize ==
    ASSUME NEW held, NEW s, NEW n \in Nat,
           IsFiniteSet(DOMAIN held), IsRun(held, s, n)
    PROVE  /\ DOMAIN AfterRun(held, s, n) \subseteq DOMAIN held
           /\ IsFiniteSet(DOMAIN AfterRun(held, s, n))
           /\ Cardinality(DOMAIN held) \in Nat
           /\ Cardinality(DOMAIN AfterRun(held, s, n)) \in Nat
           /\ Cardinality(DOMAIN AfterRun(held, s, n)) <= Cardinality(DOMAIN held)
           /\ n > 0 => Cardinality(DOMAIN AfterRun(held, s, n))
                          < Cardinality(DOMAIN held)
<1> DEFINE D == DOMAIN held
           E == DOMAIN AfterRun(held, s, n)
<1>1. E = D \ {Plus(s, i) : i \in 0 .. n - 1}
  BY DEF AfterRun, Restrict
<1>2. E \subseteq D
  BY <1>1
<1>0. IsFiniteSet(D)
  OBVIOUS
<1>3. IsFiniteSet(E) /\ Cardinality(E) <= Cardinality(D) /\ (E # D => Cardinality(E) < Cardinality(D))
  <2> HIDE DEF D, E
  <2>1. E \in SUBSET D
    BY <1>2
  <2>2. IsFiniteSet(E) /\ Cardinality(E) <= Cardinality(D)
        /\ (Cardinality(D) = Cardinality(E) => D = E)
    BY <1>0, <2>1, FS_Subset
  <2>3. Cardinality(D) \in Nat /\ Cardinality(E) \in Nat
    BY <1>0, <2>2, FS_CardinalityType
  <2> QED
    BY <2>2, <2>3
<1>4. n > 0 => E # D
  <2>1. SUFFICES ASSUME n > 0 PROVE E # D
    OBVIOUS
  <2>2. 0 \in 0 .. n - 1
    BY <2>1
  <2> QED
    BY <1>1, <2>2 DEF IsRun
<1> QED
  BY <1>2, <1>3, <1>4, FS_CardinalityType

\* What Deliver makes of the map, of the output and of the counter.
LEMMA DeliverStep ==
    ASSUME NEW held, NEW pos \in Nat, NEW from \in Nat, from <= pos,
           Filed(held, pos), DOMAIN held \subseteq Seq16,
           IsFiniteSet(DOMAIN held), Cardinality(DOMAIN held) <= Window + 1,
           Ordered(out, from, pos),
           Lost \in Nat, Lost = (pos - from) - Len(out),
           Deliver(held, Wire(pos), pos)
    PROVE  /\ nextPos' \in Nat /\ next' = Wire(nextPos') /\ pos <= nextPos'
           /\ Waiting(pending', nextPos') /\ DOMAIN pending' \subseteq Seq16
           /\ IsFiniteSet(DOMAIN pending') /\ Cardinality(DOMAIN pending') <= Window
           /\ Ordered(out', from, nextPos')
           /\ PO!Extends(out', out, pos, nextPos')
           /\ Lost' \in Nat /\ Lost' = (nextPos' - from) - Len(out')
           /\ Wire(pos) \in DOMAIN held => pos < nextPos'
           /\ pos = nextPos' => out' = out /\ Lost' = Lost
<1> DEFINE at == Wire(pos)
<1>1. PICK n \in 0 .. Cardinality(DOMAIN held) :
         /\ IsRun(held, at, n)
         /\ IF PastWindow(AfterRun(held, at, n))
            THEN GiveUp(AfterRun(held, at, n), Plus(at, n), Run(held, at, n))
            ELSE /\ next' = Plus(at, n) /\ nextPos' = pos + n
                 /\ pending' = AfterRun(held, at, n)
                 /\ out' = out \o Run(held, at, n)
                 /\ UNCHANGED Lost
  BY DEF Deliver
<1> DEFINE rest == AfterRun(held, at, n)
           ready == Run(held, at, n)
           mid == pos + n
<1>2. n \in Nat /\ mid \in Nat /\ pos <= mid
  BY <1>1
<1>3. /\ IsStretch(ready, pos, n)
      /\ Waiting(rest, mid)
      /\ Plus(at, n) = Wire(mid)
  BY <1>1, <1>2, RunTaken
<1>4. /\ DOMAIN rest \subseteq DOMAIN held
      /\ IsFiniteSet(DOMAIN rest)
      /\ Cardinality(DOMAIN rest) \in Nat
      /\ Cardinality(DOMAIN rest) <= Window + 1
  <2>1. Cardinality(DOMAIN held) \in Nat /\ Cardinality(DOMAIN rest) \in Nat
        /\ Cardinality(DOMAIN rest) <= Cardinality(DOMAIN held)
        /\ DOMAIN rest \subseteq DOMAIN held /\ IsFiniteSet(DOMAIN rest)
    BY <1>1, <1>2, AfterRunSize
  <2> QED
    BY <2>1, WindowAssumption
<1>5. /\ Len(out \o ready) = Len(out) + n
      /\ Ordered(out \o ready, from, mid)
      /\ PO!Extends(out \o ready, out, pos, mid)
  BY <1>2, <1>3, OrderedRun
<1>6. at \in DOMAIN held => n # 0
  <2>1. Plus(at, 0) = at
    BY PlusWire
  <2> QED
    BY <1>1, <2>1 DEF IsRun
<1>7. n = 0 => out \o ready = out
  <2>1. SUFFICES ASSUME n = 0 PROVE out \o ready = out
    OBVIOUS
  <2>2. ready = << >> /\ out \in Seq(Nat)
    BY <1>3, <2>1 DEF Ordered, IsStretch
  <2> QED
    BY <2>2
<1> HIDE DEF rest, ready, mid
<1>8. CASE ~PastWindow(rest)
  <2>1. /\ next' = Wire(mid) /\ nextPos' = mid
        /\ pending' = rest
        /\ out' = out \o ready
        /\ Lost' = Lost
    BY <1>1, <1>3, <1>8 DEF rest, ready, mid
  <2>2. Cardinality(DOMAIN rest) <= Window
    BY <1>4, <1>8, WindowAssumption DEF PastWindow
  <2>3. Len(out) \in Nat
    BY DEF Ordered
  <2>4. Lost = (mid - from) - Len(out \o ready)
    BY <1>5, <2>3 DEF mid
  <2>5. pos = mid => n = 0
    BY <1>1 DEF mid
  <2>6. n # 0 => pos < mid
    BY <1>1 DEF mid
  <2> QED
    BY <1>2, <1>3, <1>4, <1>5, <1>6, <1>7, <2>1, <2>2, <2>4, <2>5, <2>6
<1>9. CASE PastWindow(rest)
  <2>1. GiveUp(rest, Wire(mid), ready)
    BY <1>1, <1>3, <1>9 DEF rest, ready
  <2>2. PICK best \in DOMAIN rest : \E m \in 1 .. Cardinality(DOMAIN rest) :
           /\ IsNearest(rest, Wire(mid), best)
           /\ IsRun(rest, best, m)
           /\ Lost' = Lost + Skipped(best, Wire(mid))
           /\ next' = Plus(best, m) /\ nextPos' = rest[best] + m
           /\ pending' = AfterRun(rest, best, m)
           /\ out' = (out \o ready) \o Run(rest, best, m)
    BY <2>1 DEF GiveUp
  <2>3. PICK m \in 1 .. Cardinality(DOMAIN rest) :
           /\ IsNearest(rest, Wire(mid), best)
           /\ IsRun(rest, best, m)
           /\ Lost' = Lost + Skipped(best, Wire(mid))
           /\ next' = Plus(best, m) /\ nextPos' = rest[best] + m
           /\ pending' = AfterRun(rest, best, m)
           /\ out' = (out \o ready) \o Run(rest, best, m)
    BY <2>2
  <2> DEFINE b == rest[best]
  <2>4. /\ b \in Nat /\ best = Wire(b) /\ mid < b
        /\ Skipped(best, Wire(mid)) = b - mid
        /\ Filed(rest, b)
    BY <1>2, <1>3, <2>3, NearestHeld DEF Skipped
  <2> HIDE DEF b
  <2>5. m \in Nat /\ m >= 1
    BY <2>3
  <2>6. /\ IsStretch(Run(rest, best, m), b, m)
        /\ Waiting(AfterRun(rest, best, m), b + m)
        /\ Plus(best, m) = Wire(b + m)
    <3>1. IsRun(rest, Wire(b), m)
      BY <2>3, <2>4
    <3> QED
      BY <2>4, <2>5, <3>1, RunTaken
  <2>7. /\ DOMAIN pending' \subseteq DOMAIN rest
        /\ IsFiniteSet(DOMAIN pending')
        /\ Cardinality(DOMAIN pending') <= Window
    <3>1. /\ DOMAIN pending' \subseteq DOMAIN rest
          /\ IsFiniteSet(DOMAIN pending')
          /\ Cardinality(DOMAIN pending') \in Nat
          /\ Cardinality(DOMAIN pending') < Cardinality(DOMAIN rest)
      BY <1>4, <2>3, <2>5, AfterRunSize
    <3> QED
      BY <1>4, <3>1, WindowAssumption
  <2>8. Ordered(out \o ready, from, b)
    BY <1>2, <1>5, <2>4, OrderedLater
  <2> DEFINE run == Run(rest, best, m)
             all == (out \o ready) \o run
  <2>9. /\ Len(all) = Len(out \o ready) + m
        /\ Ordered(all, from, b + m)
        /\ PO!Extends(all, out \o ready, b, b + m)
    <3>1. from <= b
      BY <1>2, <2>4
    <3>2. IsStretch(run, b, m)
      BY <2>6
    <3> DEFINE sofar == out \o ready
    <3>3. Ordered(sofar, from, b)
      BY <2>8
    <3> HIDE DEF run, sofar
    <3>4. /\ Len(sofar \o run) = Len(sofar) + m
          /\ Ordered(sofar \o run, from, b + m)
          /\ PO!Extends(sofar \o run, sofar, b, b + m)
      <4>1. b \in Nat /\ m \in Nat
        BY <2>4, <2>5
      <4> QED
        BY <4>1, <3>1, <3>2, <3>3, OrderedRun
    <3> QED
      BY <3>4 DEF sofar
  <2>10. PO!Extends(all, out, pos, b + m)
    <3>1. out \in Seq(Nat) /\ out \o ready \in Seq(Nat) /\ all \in Seq(Nat)
      BY <1>5, <2>9 DEF Ordered
    <3>2. pos <= mid /\ mid <= b /\ b <= b + m /\ b + m \in Nat
      BY <1>2, <2>4, <2>5
    <3> HIDE DEF all
    <3> QED
      BY <1>2, <1>5, <2>4, <2>9, <3>1, <3>2, ExtendsTwice
  <2>11. Len(out) \in Nat
    BY DEF Ordered
  <2>12. Lost' = Lost + (b - mid) /\ out' = all
    BY <2>3, <2>4
  <2> HIDE DEF all
  <2>13. Lost' = ((b + m) - from) - Len(out')
    <3>1. Len(out') = (Len(out) + n) + m
      BY <1>5, <2>9, <2>12
    <3> QED
      BY <1>2, <2>4, <2>5, <2>11, <2>12, <3>1 DEF mid
  <2>14. Lost' \in Nat
    BY <1>2, <2>4, <2>12
  <2>15. next' = Wire(b + m) /\ nextPos' = b + m /\ pos < b + m /\ b + m \in Nat
    BY <1>2, <2>3, <2>4, <2>5, <2>6 DEF b
  <2>16. Waiting(pending', b + m) /\ DOMAIN pending' \subseteq Seq16
    BY <1>4, <2>3, <2>6, <2>7
  <2> QED
    BY <2>7, <2>9, <2>10, <2>12, <2>13, <2>14, <2>15, <2>16
<1> QED
  BY <1>8, <1>9

-----------------------------------------------------------------------------
(* The inductive invariant.                                                *)

\* Before the first packet of a stream nothing is held, played or lost.
Fresh == ~started => pending = NoPackets /\ out = << >> /\ Lost = 0

\* The numbers are the wire form of positions, the held packets wait for the
\* position that is due, and what was handed over ends before it.
IInv ==
    /\ TypeOK
    /\ next = Wire(nextPos)
    /\ IsFiniteSet(DOMAIN pending)
    /\ Cardinality(DOMAIN pending) <= Window
    /\ Waiting(pending, nextPos)
    /\ base <= nextPos
    /\ Ordered(out, base, nextPos)
    /\ LostAccounting
    /\ Fresh

\* A resequencer without a stream.
LEMMA EmptyStream ==
    /\ Wire(0) = 0 /\ 0 \in Seq16
    /\ DOMAIN NoPackets = {}
    /\ IsFiniteSet(DOMAIN NoPackets) /\ Cardinality(DOMAIN NoPackets) <= Window
    /\ Waiting(NoPackets, 0)
    /\ Ordered(<< >>, 0, 0)
    /\ Len(<< >>) = 0 /\ << >> \in Seq(Nat)
    /\ << >> \in Seq([first : Nat, count : Nat])
<1>1. SeqMod \in Nat /\ SeqMod > 0
  BY DEF SeqMod
<1>2. Wire(0) = 0 /\ 0 \in Seq16
  BY <1>1 DEF Wire, Seq16
<1>3. DOMAIN NoPackets = {}
  BY DEF NoPackets
<1>4. IsFiniteSet(DOMAIN NoPackets) /\ Cardinality(DOMAIN NoPackets) = 0
  BY <1>3, FS_EmptySet
<1>5. Waiting(NoPackets, 0)
  BY <1>3 DEF Waiting, Filed
<1>6. Ordered(<< >>, 0, 0) /\ Len(<< >>) = 0
  BY DEF Ordered
<1>7. << >> \in Seq(Nat) /\ << >> \in Seq([first : Nat, count : Nat])
  OBVIOUS
<1> QED
  BY <1>7, <1>2, <1>3, <1>4, <1>5, <1>6, WindowAssumption

LEMMA InitInv == Init => IInv
<1> SUFFICES ASSUME Init PROVE IInv
  OBVIOUS
<1>1. /\ next = 0 /\ started = FALSE /\ pending = NoPackets /\ onMissing = FALSE
      /\ requested = 0 /\ haveRequested = FALSE
      /\ Reordered = 0 /\ Lost = 0 /\ Late = 0 /\ resets = 0
      /\ base = 0 /\ nextPos = 0 /\ out = << >> /\ asked = << >>
  BY DEF Init
<1>2. TypeOK
  <2>1. DOMAIN pending = {} /\ next \in Seq16 /\ requested \in Seq16
    BY <1>1, EmptyStream
  <2>2. out \in Seq(Nat) /\ asked \in Seq([first : Nat, count : Nat])
    BY <1>1, EmptyStream
  <2> QED
    BY <1>1, <2>1, <2>2 DEF TypeOK
<1>3. Waiting(pending, nextPos) /\ Ordered(out, base, nextPos) /\ next = Wire(nextPos)
  BY <1>1, EmptyStream
<1>4. IsFiniteSet(DOMAIN pending) /\ Cardinality(DOMAIN pending) <= Window
  BY <1>1, EmptyStream
<1>5. LostAccounting /\ Fresh /\ base <= nextPos
  <2>1. Len(out) = 0
    BY <1>1, EmptyStream
  <2>0. Lost = 0 /\ base = 0 /\ nextPos = 0
    BY <1>1
  <2>2. LostAccounting /\ base <= nextPos
    BY <2>0, <2>1 DEF LostAccounting
  <2>3. Fresh
    BY <1>1 DEF Fresh
  <2> QED
    BY <2>2, <2>3
<1> QED
  BY <1>2, <1>3, <1>4, <1>5 DEF IInv

\* What holds between storing an accepted packet and delivering from the map.
LEMMA Stored ==
    ASSUME IInv, NEW p \in Nat, Deliverable(p), ahead(Wire(p), Due(p)),
           NEW from, from = IF started THEN base ELSE p
    PROVE  /\ DuePos(p) \in Nat /\ DuePos(p) <= p /\ from \in Nat /\ from <= DuePos(p)
           /\ Due(p) = Wire(DuePos(p))
           /\ Filed(Hold(p), DuePos(p)) /\ DOMAIN Hold(p) = DOMAIN pending \cup {Wire(p)}
           /\ DOMAIN Hold(p) \subseteq Seq16
           /\ IsFiniteSet(DOMAIN Hold(p)) /\ Cardinality(DOMAIN Hold(p)) <= Window + 1
           /\ Ordered(out, from, DuePos(p))
           /\ Lost = (DuePos(p) - from) - Len(out)
<1> DEFINE pos == DuePos(p)
<1>1. nextPos \in Nat /\ base \in Nat /\ started \in BOOLEAN /\ DOMAIN pending \subseteq Seq16
  BY DEF IInv, TypeOK
<1>2. pos \in Nat /\ Due(p) = Wire(pos)
  BY <1>1 DEF DuePos, Due, IInv
<1>3. pos <= p /\ p < pos + Half
  <2>1. CASE started
    <3>1. -Half <= p - nextPos /\ p - nextPos < Half /\ pos = nextPos
      BY <1>1, <2>1 DEF Deliverable, DuePos
    <3>2. ahead(Wire(p), Wire(nextPos))
      BY <1>2, <3>1
    <3> QED
      BY <1>1, <3>1, <3>2, AheadNear
  <2>2. CASE ~started
    BY <2>2 DEF DuePos
  <2> QED
    BY <2>1, <2>2
<1>4. from \in Nat /\ from <= pos
  BY <1>1 DEF DuePos, IInv
<1>5. /\ DOMAIN Hold(p) = DOMAIN pending \cup {Wire(p)}
      /\ \A s \in DOMAIN Hold(p) :
            Hold(p)[s] = IF s = Wire(p) THEN p ELSE pending[s]
  BY DEF Hold
<1>6. Filed(Hold(p), pos)
  <2>1. ~started => DOMAIN pending = {}
    BY DEF IInv, Fresh, NoPackets
  <2>2. started => Filed(pending, pos)
    BY DEF IInv, Waiting, DuePos
  <2>3. SUFFICES ASSUME NEW s \in DOMAIN Hold(p)
                 PROVE  /\ Hold(p)[s] \in Nat /\ s = Wire(Hold(p)[s])
                        /\ pos <= Hold(p)[s] /\ Hold(p)[s] < pos + Half
    BY DEF Filed
  <2>4. CASE s = Wire(p)
    BY <1>3, <1>5, <2>4
  <2>5. CASE s # Wire(p)
    <3>1. s \in DOMAIN pending /\ Hold(p)[s] = pending[s] /\ started
      BY <1>1, <1>5, <2>1, <2>5
    <3> QED
      BY <2>2, <3>1 DEF Filed
  <2> QED
    BY <2>4, <2>5
<1>7. Wire(p) \in Seq16
  BY WireType
<1>8. IsFiniteSet(DOMAIN Hold(p)) /\ Cardinality(DOMAIN Hold(p)) <= Window + 1
  <2>1. IsFiniteSet(DOMAIN pending) /\ Cardinality(DOMAIN pending) <= Window
    BY DEF IInv
  <2>2. Cardinality(DOMAIN pending) \in Nat
    BY <2>1, FS_CardinalityType
  <2>3. /\ IsFiniteSet(DOMAIN pending \cup {Wire(p)})
        /\ Cardinality(DOMAIN pending \cup {Wire(p)}) <= Cardinality(DOMAIN pending) + 1
    BY <2>1, <2>2, FS_AddElement
  <2>4. Cardinality(DOMAIN pending) + 1 <= Window + 1
    BY <2>1, <2>2, WindowAssumption
  <2>5. Cardinality(DOMAIN pending \cup {Wire(p)}) \in Nat
    BY <2>3, FS_CardinalityType
  <2>6. Cardinality(DOMAIN pending \cup {Wire(p)}) <= Window + 1
    BY <2>2, <2>3, <2>4, <2>5, WindowAssumption
  <2> QED
    BY <1>5, <2>3, <2>6
<1>9. Ordered(out, from, pos) /\ Lost = (pos - from) - Len(out)
  <2>1. CASE started
    BY <2>1 DEF IInv, LostAccounting, DuePos
  <2>2. CASE ~started
    <3>1. out = << >> /\ Lost = 0 /\ from = p /\ pos = p
      BY <2>2 DEF IInv, Fresh, DuePos
    <3> QED
      BY <3>1 DEF Ordered
  <2> QED
    BY <2>1, <2>2
<1> QED
  BY <1>1, <1>2, <1>3, <1>4, <1>5, <1>6, <1>7, <1>8, <1>9

\* One accepted packet: the guarantee of DeliverStep in terms of the state.
LEMMA AcceptStep ==
    ASSUME IInv, NEW p \in Nat, Deliverable(p), PushAccept(p)
    PROVE  /\ nextPos' \in Nat /\ next' = Wire(nextPos') /\ DuePos(p) <= nextPos'
           /\ Waiting(pending', nextPos') /\ DOMAIN pending' \subseteq Seq16
           /\ IsFiniteSet(DOMAIN pending') /\ Cardinality(DOMAIN pending') <= Window
           /\ base' \in Nat /\ base' <= DuePos(p)
           /\ Ordered(out', base', nextPos')
           /\ PO!Extends(out', out, DuePos(p), nextPos')
           /\ Lost' \in Nat /\ Lost' = (nextPos' - base') - Len(out')
           /\ DuePos(p) = nextPos' => out' = out /\ Lost' = Lost
<1>1. ahead(Wire(p), Due(p)) /\ base' = (IF started THEN base ELSE p)
  BY DEF PushAccept
<1>2. /\ DuePos(p) \in Nat /\ base' \in Nat /\ base' <= DuePos(p)
      /\ Due(p) = Wire(DuePos(p))
      /\ Filed(Hold(p), DuePos(p)) /\ DOMAIN Hold(p) \subseteq Seq16
      /\ IsFiniteSet(DOMAIN Hold(p)) /\ Cardinality(DOMAIN Hold(p)) <= Window + 1
      /\ Ordered(out, base', DuePos(p))
      /\ Lost = (DuePos(p) - base') - Len(out)
  BY <1>1, Stored
<1>3. Deliver(Hold(p), Wire(DuePos(p)), DuePos(p))
  BY <1>2 DEF PushAccept
<1>4. Lost \in Nat
  BY DEF IInv, TypeOK
<1> QED
  BY <1>2, <1>3, <1>4, DeliverStep

\* A request is a position and a count.
LEMMA RequestType ==
    ASSUME TypeOK, NEW s \in Seq16, NEW at \in Seq16, NEW pos \in Nat,
           requestMissing(s, at, pos)
    PROVE  /\ requested' \in Seq16 /\ haveRequested' \in BOOLEAN
           /\ asked' \in Seq([first : Nat, count : Nat])
<1>1. CASE AskFor(s, at)
  <2>1. Sub(s, at) \in Nat
    BY <1>1, WindowAssumption DEF AskFor
  <2>2. [first |-> pos, count |-> Sub(s, at)] \in [first : Nat, count : Nat]
    BY <2>1
  <2>3. asked' = Append(asked, [first |-> pos, count |-> Sub(s, at)])
        /\ requested' = at /\ haveRequested' = TRUE
    BY <1>1 DEF requestMissing
  <2>4. asked \in Seq([first : Nat, count : Nat])
    BY DEF TypeOK
  <2> QED
    BY <2>2, <2>3, <2>4
<1>2. CASE ~AskFor(s, at)
  BY <1>2 DEF requestMissing, mark, TypeOK
<1> QED
  BY <1>1, <1>2

\* An accepted packet preserves the invariant.
LEMMA AcceptInv ==
    ASSUME IInv, NEW p \in Nat, Deliverable(p), PushAccept(p)
    PROVE  IInv'
<1>1. /\ nextPos' \in Nat /\ next' = Wire(nextPos') /\ DuePos(p) <= nextPos'
      /\ Waiting(pending', nextPos') /\ DOMAIN pending' \subseteq Seq16
      /\ IsFiniteSet(DOMAIN pending') /\ Cardinality(DOMAIN pending') <= Window
      /\ base' \in Nat /\ base' <= DuePos(p)
      /\ Ordered(out', base', nextPos')
      /\ Lost' \in Nat /\ Lost' = (nextPos' - base') - Len(out')
  BY AcceptStep
<1>2. TypeOK
  BY DEF IInv
<1>3. DuePos(p) \in Nat /\ Due(p) \in Seq16 /\ Wire(p) \in Seq16
  <2>1. DuePos(p) \in Nat
    BY <1>2 DEF DuePos, TypeOK
  <2> QED
    BY <1>2, <2>1, WireType DEF Due, TypeOK
<1>4. /\ started' = TRUE /\ onMissing' = onMissing /\ Late' = Late
      /\ resets' = resets /\ Reordered' \in Nat
  BY <1>2 DEF PushAccept, TypeOK
<1>5. /\ requested' \in Seq16 /\ haveRequested' \in BOOLEAN
      /\ asked' \in Seq([first : Nat, count : Nat])
  <2>1. CASE Wire(p) # Due(p)
    <3>1. requestMissing(Wire(p), Due(p), DuePos(p))
      BY <2>1 DEF PushAccept
    <3> QED
      BY <1>2, <1>3, <3>1, RequestType
  <2>2. CASE Wire(p) = Due(p)
    BY <1>2, <2>2 DEF PushAccept, mark, TypeOK
  <2> QED
    BY <2>1, <2>2
<1>6. next' \in Seq16
  BY <1>1, WireType
<1>7. (\A s \in DOMAIN pending : pending[s] \in Nat)'
  BY <1>1 DEF Waiting, Filed
<1>8. out' \in Seq(Nat)
  BY <1>1 DEF Ordered
<1>9. TypeOK'
  BY <1>1, <1>2, <1>4, <1>5, <1>6, <1>7, <1>8 DEF TypeOK
<1>10. base' <= nextPos'
  BY <1>1, <1>3
<1> QED
  BY <1>1, <1>4, <1>9, <1>10 DEF IInv, LostAccounting, Fresh

LEMMA NextInv == IInv /\ [Next]_vars => IInv'
<1> SUFFICES ASSUME IInv, [Next]_vars PROVE IInv'
  OBVIOUS
<1>1. ASSUME NEW p \in Positions, Deliverable(p), PushLate(p) PROVE IInv'
  <2>1. /\ next' = next /\ started' = started /\ pending' = pending
        /\ onMissing' = onMissing /\ requested' = requested
        /\ haveRequested' = haveRequested /\ Reordered' = Reordered /\ Lost' = Lost
        /\ base' = base /\ nextPos' = nextPos /\ out' = out /\ asked' = asked
        /\ resets' = resets /\ Late' = Late + 1
    BY <1>1 DEF PushLate, mark, history
  <2> QED
    BY <2>1 DEF IInv, TypeOK, LostAccounting, Fresh
<1>2. ASSUME NEW p \in Positions, Deliverable(p), PushAccept(p) PROVE IInv'
  BY <1>2, AcceptInv, PositionsAssumption
<1>3. ASSUME OnMissing PROVE IInv'
  <2>1. /\ next' = next /\ started' = started /\ pending' = pending
        /\ onMissing' = TRUE /\ requested' = requested
        /\ haveRequested' = haveRequested /\ Reordered' = Reordered /\ Lost' = Lost
        /\ base' = base /\ nextPos' = nextPos /\ out' = out /\ asked' = asked
        /\ resets' = resets /\ Late' = Late
    BY <1>3 DEF OnMissing, mark, counters, history
  <2> QED
    BY <2>1 DEF IInv, TypeOK, LostAccounting, Fresh
<1>4. ASSUME reset PROVE IInv'
  <2>1. /\ next' = 0 /\ started' = FALSE /\ pending' = NoPackets
        /\ Reordered' = 0 /\ Lost' = 0 /\ Late' = 0 /\ resets' = resets + 1
        /\ base' = 0 /\ nextPos' = 0 /\ out' = << >> /\ asked' = << >>
        /\ onMissing' = onMissing /\ requested' = requested
        /\ haveRequested' = haveRequested
    BY <1>4 DEF reset, mark
  <2>2. /\ requested \in Seq16 /\ onMissing \in BOOLEAN /\ haveRequested \in BOOLEAN
        /\ resets \in Nat
    BY DEF IInv, TypeOK
  <2>3. TypeOK'
    <3>1. (DOMAIN pending)' = {} /\ next' \in Seq16
      BY <2>1, EmptyStream
    <3>2. out' \in Seq(Nat) /\ asked' \in Seq([first : Nat, count : Nat])
      BY <2>1, EmptyStream
    <3>5. started' \in BOOLEAN /\ onMissing' \in BOOLEAN /\ haveRequested' \in BOOLEAN
      BY <2>1, <2>2, Zenon
    <3>3. /\ requested' \in Seq16
          /\ Reordered' \in Nat /\ Lost' \in Nat /\ Late' \in Nat
          /\ base' \in Nat /\ nextPos' \in Nat /\ resets' \in Nat
      BY <2>1, <2>2
    <3>4. (\A s \in DOMAIN pending : pending[s] \in Nat)'
      BY <3>1
    <3> QED
      BY <3>1, <3>2, <3>3, <3>4, <3>5 DEF TypeOK
  <2>4. (Waiting(pending, nextPos) /\ Ordered(out, base, nextPos) /\ next = Wire(nextPos))'
    BY <2>1, EmptyStream
  <2>5. (IsFiniteSet(DOMAIN pending) /\ Cardinality(DOMAIN pending) <= Window)'
    BY <2>1, EmptyStream
  <2>6. (LostAccounting /\ Fresh /\ base <= nextPos)'
    <3>1. Len(out') = 0
      BY <2>1, EmptyStream
    <3>0. Lost' = 0 /\ base' = 0 /\ nextPos' = 0
      BY <2>1
    <3>2. (LostAccounting /\ base <= nextPos)'
      BY <3>0, <3>1 DEF LostAccounting
    <3>3. Fresh'
      BY <2>1 DEF Fresh
    <3> QED
      BY <3>2, <3>3
  <2> QED
    BY <2>3, <2>4, <2>5, <2>6 DEF IInv
<1>5. ASSUME UNCHANGED vars PROVE IInv'
  BY <1>5 DEF vars, mark, counters, history, IInv, TypeOK, LostAccounting, Fresh
<1> QED
  BY <1>1, <1>2, <1>3, <1>4, <1>5 DEF Next, push

\* Every reachable state has the wire number next stand for one position of the
\* stream, and the map for packets that lie ahead of it.
THEOREM Invariance == Spec => []IInv
BY InitInv, NextInv, PTL DEF Spec

\* The fields stay within their types: in particular next and requested stay
\* 16-bit numbers and Lost never goes negative.
THEOREM TypeCorrect == Spec => []TypeOK
<1>1. IInv => TypeOK
  BY DEF IInv
<1> QED
  BY <1>1, Invariance, PTL

\* Between calls of push no more than seqWindow packets are held, never the
\* one that is due, and each under its own number less than half a lap ahead.
THEOREM WindowKept == Spec => []PendingInWindow
<1>1. IInv => PendingInWindow
  <2> SUFFICES ASSUME IInv PROVE PendingInWindow
    OBVIOUS
  <2>1. Waiting(pending, nextPos) /\ next = Wire(nextPos) /\ nextPos \in Nat
    BY DEF IInv, TypeOK
  <2>2. ASSUME NEW s \in DOMAIN pending
        PROVE  /\ s = Wire(pending[s]) /\ nextPos < pending[s]
               /\ pending[s] < nextPos + Half
    <3>1. pending[s] # nextPos
      BY <2>1 DEF Waiting, Filed
    <3> QED
      BY <2>1, <3>1 DEF Waiting, Filed
  <2>3. next \notin DOMAIN pending
    BY <2>1 DEF Waiting
  <2> QED
    BY <2>2, <2>3 DEF IInv, PendingInWindow
<1> QED
  BY <1>1, Invariance, PTL

\* Whatever the network loses, repeats, delays or reorders, push hands packets
\* to the decoder in stream order and each at most once, across every wrap.
THEOREM PlayedInOrder == Spec => []InOrder
<1>1. IInv => InOrder
  BY DEF IInv, Ordered, InOrder
<1> QED
  BY <1>1, Invariance, PTL

\* The counter Lost is exactly the number of positions stepped over, although
\* push computes it from 16-bit numbers.
THEOREM LostExact == Spec => []LostAccounting
<1>1. IInv => LostAccounting
  BY DEF IInv
<1> QED
  BY <1>1, Invariance, PTL

-----------------------------------------------------------------------------
(* The resequencer implements PlayoutOrder.                                *)

\* The first packet of a stream is handed over at once, alone.
LEMMA FirstPacket ==
    ASSUME IInv, NEW p \in Nat, Deliverable(p), PushAccept(p), ~started
    PROVE  out' = << p >> /\ nextPos' = p + 1 /\ Lost' = 0
<1> DEFINE held == Hold(p)
           at == Wire(p)
<1>1. DuePos(p) = p /\ Due(p) = at
  BY DEF DuePos, Due
<1>2. pending = NoPackets /\ out = << >> /\ Lost = 0
  BY DEF IInv, Fresh
<1>3. DOMAIN held = {at} /\ held[at] = p
  BY <1>2, EmptyStream DEF Hold
<1> HIDE DEF held
<1>4. Plus(at, 0) = at
  BY PlusWire
<1>5. Cardinality(DOMAIN held) = 1 /\ IsFiniteSet(DOMAIN held)
  <2>1. IsFiniteSet({at}) /\ Cardinality({at}) = 1
    BY FS_Singleton
  <2> QED
    BY <1>3, <2>1
<1>6. PICK n \in 0 .. 1 :
         /\ IsRun(held, at, n)
         /\ IF PastWindow(AfterRun(held, at, n))
            THEN GiveUp(AfterRun(held, at, n), Plus(at, n), Run(held, at, n))
            ELSE /\ next' = Plus(at, n) /\ nextPos' = p + n
                 /\ pending' = AfterRun(held, at, n)
                 /\ out' = out \o Run(held, at, n)
                 /\ UNCHANGED Lost
  BY <1>1, <1>5 DEF PushAccept, Deliver, held
<1>7. n = 1
  <2>1. n # 0
    BY <1>3, <1>4, <1>6 DEF IsRun
  <2> QED
    BY <1>6, <2>1
<1>8. DOMAIN AfterRun(held, at, 1) = {}
  <2>1. 0 \in 0 .. 1 - 1
    OBVIOUS
  <2> QED
    BY <1>3, <1>4, <2>1 DEF AfterRun, Restrict
<1>9. ~PastWindow(AfterRun(held, at, 1))
  <2>1. Cardinality(DOMAIN AfterRun(held, at, 1)) = 0
    BY <1>8, FS_EmptySet
  <2> QED
    BY <2>1, WindowAssumption DEF PastWindow
<1>10. nextPos' = p + 1 /\ out' = out \o Run(held, at, 1) /\ Lost' = Lost
  BY <1>6, <1>7, <1>9
<1>11. Run(held, at, 1) = << p >>
  <2>1. Plus(at, 1 - 1) = at
    BY <1>4
  <2>2. Run(held, at, 1) = [i \in 1 .. 1 |-> held[Plus(at, i - 1)]]
    BY DEF Run
  <2>3. \A i \in 1 .. 1 : held[Plus(at, i - 1)] = p
    BY <1>3, <2>1
  <2> QED
    BY <2>2, <2>3
<1> QED
  BY <1>2, <1>10, <1>11

\* Every step of the resequencer is a step of PlayoutOrder, or none.
LEMMA StepPlays == IInv /\ [Next]_vars => [PO!Next]_(PO!vars)
<1> SUFFICES ASSUME IInv, [Next]_vars PROVE [PO!Next]_(PO!vars)
  OBVIOUS
<1>1. ASSUME NEW p \in Positions, Deliverable(p), PushLate(p)
      PROVE  UNCHANGED PO!vars
  BY <1>1 DEF PushLate, history, PO!vars
<1>2. ASSUME NEW p \in Positions, Deliverable(p), PushAccept(p)
      PROVE  [PO!Next]_(PO!vars)
  <2>1. p \in Nat
    BY PositionsAssumption
  <2>2. started' = TRUE
    BY <1>2 DEF PushAccept
  <2>3. CASE ~started
    <3>1. out' = << p >> /\ nextPos' = p + 1 /\ Lost' = 0
      BY <1>2, <2>1, <2>3, FirstPacket
    <3>2. out' = << nextPos' - 1 >>
      BY <2>1, <3>1
    <3> QED
      BY <2>2, <2>3, <3>1, <3>2 DEF PO!Next, PO!Open
  <2>4. CASE started
    <3>1. DuePos(p) = nextPos /\ base' = base
      BY <1>2, <2>4 DEF DuePos, PushAccept
    <3>2. /\ nextPos' \in Nat /\ nextPos <= nextPos'
          /\ Ordered(out', base', nextPos')
          /\ PO!Extends(out', out, nextPos, nextPos')
          /\ Lost' = (nextPos' - base) - Len(out')
          /\ nextPos = nextPos' => out' = out /\ Lost' = Lost
      BY <1>2, <2>1, <3>1, AcceptStep
    <3>3. /\ nextPos \in Nat /\ base \in Nat /\ Len(out) \in Nat
          /\ Lost = (nextPos - base) - Len(out)
      BY DEF IInv, TypeOK, LostAccounting
    <3>4. CASE nextPos = nextPos'
      BY <2>2, <2>4, <3>2, <3>4 DEF PO!vars
    <3>5. CASE nextPos # nextPos'
      <4>1. nextPos < nextPos'
        BY <3>2, <3>3, <3>5
      <4>2. PO!Rising(out') /\ Len(out') \in Nat
        BY <3>2 DEF Ordered, PO!Rising
      <4>3. Lost' - Lost = (nextPos' - nextPos) - (Len(out') - Len(out))
        BY <3>2, <3>3, <4>2
      <4> QED
        BY <2>2, <2>4, <3>2, <4>1, <4>2, <4>3 DEF PO!Next, PO!Play
    <3> QED
      BY <3>4, <3>5
  <2> QED
    BY <2>3, <2>4
<1>3. ASSUME OnMissing PROVE UNCHANGED PO!vars
  BY <1>3 DEF OnMissing, counters, history, PO!vars
<1>4. ASSUME reset PROVE PO!Next
  BY <1>4 DEF reset, PO!Next, PO!Restart
<1>5. ASSUME UNCHANGED vars PROVE UNCHANGED PO!vars
  BY <1>5 DEF vars, counters, history, PO!vars
<1> QED
  BY <1>1, <1>2, <1>3, <1>4, <1>5 DEF Next, push

\* The resequencer implements the in-order playout: with the held packets, the
\* 16-bit numbers and the window hidden, it only ever opens a stream at its
\* first packet, hands over later positions in order, and counts the rest.
THEOREM ImplementsPlayout == Spec => Playout
<1>1. Init => PO!Init
  BY DEF Init, PO!Init
<1>2. IInv /\ [Next]_vars => [PO!Next]_(PO!vars)
  BY StepPlays
<1> QED
  BY <1>1, <1>2, Invariance, PTL DEF Spec, Playout, PO!Spec
-----------------------------------------------------------------------------
(* What Deliver does with each held packet.                                *)

\* drain hands a held packet over or leaves it where it is.
LEMMA TakenOrKept ==
    ASSUME NEW held, NEW s, NEW n \in Nat
    PROVE  /\ DOMAIN AfterRun(held, s, n) \subseteq DOMAIN held
           /\ \A t \in DOMAIN AfterRun(held, s, n) : AfterRun(held, s, n)[t] = held[t]
           /\ n = 0 => DOMAIN AfterRun(held, s, n) = DOMAIN held
           /\ \A t \in DOMAIN held : \/ t \in DOMAIN AfterRun(held, s, n)
                                     \/ \E i \in 1 .. n : Run(held, s, n)[i] = held[t]
<1> DEFINE gone == {Plus(s, i) : i \in 0 .. n - 1}
<1>1. /\ DOMAIN AfterRun(held, s, n) = DOMAIN held \ gone
      /\ \A t \in DOMAIN AfterRun(held, s, n) : AfterRun(held, s, n)[t] = held[t]
  BY DEF AfterRun, Restrict
<1>2. n = 0 => gone = {}
  OBVIOUS
<1>3. ASSUME NEW t \in DOMAIN held, t \in gone
      PROVE  \E i \in 1 .. n : Run(held, s, n)[i] = held[t]
  <2>1. PICK i \in 0 .. n - 1 : t = Plus(s, i)
    BY <1>3
  <2>2. i + 1 \in 1 .. n /\ (i + 1) - 1 = i
    BY <2>1
  <2>3. Run(held, s, n)[i + 1] = held[t]
    BY <2>1, <2>2 DEF Run
  <2> QED
    BY <2>2, <2>3
<1> HIDE DEF gone
<1> QED
  BY <1>1, <1>2, <1>3

\* What a sequence holds, its continuation holds.
LEMMA InEither ==
    ASSUME NEW s \in Seq(Nat), NEW r \in Seq(Nat), NEW x
    PROVE  (\E i \in 1 .. Len(r) : r[i] = x)
              => \E i \in 1 .. Len(s \o r) : (s \o r)[i] = x
<1> DEFINE t == s \o r
<1>1. /\ Len(t) = Len(s) + Len(r) /\ Len(s) \in Nat /\ Len(r) \in Nat
      /\ \A i \in 1 .. Len(s) + Len(r) :
            t[i] = IF i <= Len(s) THEN s[i] ELSE r[i - Len(s)]
  OBVIOUS
<1> HIDE DEF t
<1> SUFFICES ASSUME NEW i \in 1 .. Len(r), r[i] = x
             PROVE  \E j \in 1 .. Len(t) : t[j] = x
  BY DEF t
<1>2. /\ Len(s) + i \in 1 .. Len(s) + Len(r)
      /\ ~(Len(s) + i <= Len(s)) /\ (Len(s) + i) - Len(s) = i
  BY <1>1
<1> QED
  BY <1>1, <1>2

\* No packet of the map is dropped; while the due position stays where it is
\* nothing leaves the map; and something is given up only when the map is past
\* the window and the due packet is not in it, with nothing played before it.
LEMMA DeliverKeeps ==
    ASSUME NEW held, NEW pos \in Nat,
           Filed(held, pos),
           IsFiniteSet(DOMAIN held), Cardinality(DOMAIN held) <= Window + 1,
           out \in Seq(Nat), Lost \in Nat,
           Deliver(held, Wire(pos), pos)
    PROVE  /\ DOMAIN pending' \subseteq DOMAIN held
           /\ \A s \in DOMAIN pending' : pending'[s] = held[s]
           /\ \A s \in DOMAIN held : \/ s \in DOMAIN pending'
                                     \/ \E i \in 1 .. Len(out') : out'[i] = held[s]
           /\ nextPos' = pos => DOMAIN pending' = DOMAIN held
           /\ Lost' # Lost =>
                 /\ Cardinality(DOMAIN held) = Window + 1
                 /\ \A i \in 1 .. Len(out') : i > Len(out) => pos < out'[i]
                 /\ \A i \in 1 .. Len(out) : out'[i] = out[i]
<1> DEFINE at == Wire(pos)
<1>1. PICK n \in 0 .. Cardinality(DOMAIN held) :
         /\ IsRun(held, at, n)
         /\ IF PastWindow(AfterRun(held, at, n))
            THEN GiveUp(AfterRun(held, at, n), Plus(at, n), Run(held, at, n))
            ELSE /\ next' = Plus(at, n) /\ nextPos' = pos + n
                 /\ pending' = AfterRun(held, at, n)
                 /\ out' = out \o Run(held, at, n)
                 /\ UNCHANGED Lost
  BY DEF Deliver
<1> DEFINE rest == AfterRun(held, at, n)
           ready == Run(held, at, n)
           mid == pos + n
<1>2. n \in Nat /\ mid \in Nat /\ pos <= mid
  BY <1>1
<1>3. /\ IsStretch(ready, pos, n)
      /\ Waiting(rest, mid)
      /\ Plus(at, n) = Wire(mid)
  BY <1>1, <1>2, RunTaken
<1>4. /\ DOMAIN rest \subseteq DOMAIN held
      /\ \A t \in DOMAIN rest : rest[t] = held[t]
      /\ n = 0 => DOMAIN rest = DOMAIN held
      /\ \A t \in DOMAIN held : \/ t \in DOMAIN rest
                                \/ \E i \in 1 .. n : ready[i] = held[t]
  BY <1>2, TakenOrKept
<1>5. /\ IsFiniteSet(DOMAIN rest)
      /\ Cardinality(DOMAIN held) \in Nat
      /\ Cardinality(DOMAIN rest) \in Nat
      /\ Cardinality(DOMAIN rest) <= Cardinality(DOMAIN held)
      /\ n > 0 => Cardinality(DOMAIN rest) < Cardinality(DOMAIN held)
  BY <1>1, <1>2, AfterRunSize
<1>6. ready \in Seq(Nat) /\ Len(ready) = n
  <2>1. ready \in [1 .. n -> Nat]
    BY <1>3 DEF IsStretch
  <2> QED
    BY <1>2, <2>1
<1> HIDE DEF rest, ready, at
<1>7. CASE ~PastWindow(rest)
  <2>1. /\ nextPos' = mid /\ pending' = rest /\ out' = out \o ready /\ Lost' = Lost
    BY <1>1, <1>7 DEF rest, ready
  <2>2. nextPos' = pos => n = 0
    BY <1>2, <2>1
  <2>3. ASSUME NEW s \in DOMAIN held, s \notin DOMAIN pending'
        PROVE  \E i \in 1 .. Len(out') : out'[i] = held[s]
    <3>1. \E i \in 1 .. Len(ready) : ready[i] = held[s]
      BY <1>4, <1>6, <2>1, <2>3
    <3> QED
      <4> DEFINE x == held[s]
      <4>1. ready \in Seq(Nat) /\ out' = out \o ready
        BY <1>6, <2>1
      <4>2. \E i \in 1 .. Len(ready) : ready[i] = x
        BY <3>1
      <4> HIDE DEF x
      <4>3. \E i \in 1 .. Len(out \o ready) : (out \o ready)[i] = x
        <5>1. out \in Seq(Nat) /\ ready \in Seq(Nat)
          BY <4>1
        <5>2. (\E i \in 1 .. Len(ready) : ready[i] = x)
                 => \E i \in 1 .. Len(out \o ready) : (out \o ready)[i] = x
          BY <5>1, InEither
        <5> QED
          BY <4>2, <5>2
      <4> QED
        BY <4>1, <4>3 DEF x
  <2> QED
    BY <1>4, <2>1, <2>2, <2>3
<1>8. CASE PastWindow(rest)
  <2>1. n = 0 /\ Cardinality(DOMAIN held) = Window + 1
    BY <1>2, <1>5, <1>8, WindowAssumption DEF PastWindow
  <2>2. out \o ready = out /\ mid = pos /\ DOMAIN rest = DOMAIN held
    <3>1. ready = << >>
      BY <1>6, <2>1
    <3> QED
      BY <1>4, <2>1, <3>1
  <2>3. GiveUp(rest, Wire(pos), ready)
    BY <1>1, <1>3, <1>8, <2>2 DEF rest, ready
  <2>4. PICK best \in DOMAIN rest : \E m \in 1 .. Cardinality(DOMAIN rest) :
           /\ IsNearest(rest, Wire(pos), best)
           /\ IsRun(rest, best, m)
           /\ Lost' = Lost + Skipped(best, Wire(pos))
           /\ next' = Plus(best, m) /\ nextPos' = rest[best] + m
           /\ pending' = AfterRun(rest, best, m)
           /\ out' = (out \o ready) \o Run(rest, best, m)
    BY <2>3 DEF GiveUp
  <2>5. PICK m \in 1 .. Cardinality(DOMAIN rest) :
           /\ IsNearest(rest, Wire(pos), best)
           /\ IsRun(rest, best, m)
           /\ nextPos' = rest[best] + m
           /\ pending' = AfterRun(rest, best, m)
           /\ out' = (out \o ready) \o Run(rest, best, m)
    BY <2>4
  <2> DEFINE b == rest[best]
             run == Run(rest, best, m)
  <2>6. b \in Nat /\ best = Wire(b) /\ pos < b /\ Filed(rest, b)
    BY <1>3, <2>2, <2>5, NearestHeld
  <2>7. m \in Nat /\ m >= 1
    BY <2>5
  <2>8. IsStretch(run, b, m)
    <3> HIDE DEF b
    <3>1. IsRun(rest, Wire(b), m)
      BY <2>5, <2>6
    <3> QED
      BY <2>6, <2>7, <3>1, RunTaken
  <2>9. run \in Seq(Nat) /\ Len(run) = m /\ \A i \in 1 .. m : run[i] = (b + i) - 1
    <3>1. run \in [1 .. m -> Nat]
      BY <2>8 DEF IsStretch
    <3> QED
      BY <2>7, <2>8, <3>1 DEF IsStretch
  <2>10. /\ DOMAIN pending' \subseteq DOMAIN rest
         /\ \A t \in DOMAIN pending' : pending'[t] = rest[t]
         /\ \A t \in DOMAIN rest : \/ t \in DOMAIN pending'
                                   \/ \E i \in 1 .. m : run[i] = rest[t]
    BY <2>5, <2>7, TakenOrKept
  <2>11. out' = out \o run /\ nextPos' = b + m
    BY <2>2, <2>5
  <2> HIDE DEF b, run
  <2>12. nextPos' # pos
    BY <2>6, <2>7, <2>11
  <2>13. ASSUME NEW s \in DOMAIN held, s \notin DOMAIN pending'
         PROVE  \E i \in 1 .. Len(out') : out'[i] = held[s]
    <3>1. \E i \in 1 .. Len(run) : run[i] = held[s]
      BY <1>4, <2>2, <2>9, <2>10, <2>13
    <3> QED
      <4> DEFINE x == held[s]
      <4>1. run \in Seq(Nat) /\ out' = out \o run
        BY <2>9, <2>11
      <4>2. \E i \in 1 .. Len(run) : run[i] = x
        BY <3>1
      <4> HIDE DEF x
      <4>3. \E i \in 1 .. Len(out \o run) : (out \o run)[i] = x
        <5>1. out \in Seq(Nat) /\ run \in Seq(Nat)
          BY <4>1
        <5>2. (\E i \in 1 .. Len(run) : run[i] = x)
                 => \E i \in 1 .. Len(out \o run) : (out \o run)[i] = x
          BY <5>1, InEither
        <5> QED
          BY <4>2, <5>2
      <4> QED
        BY <4>1, <4>3 DEF x
  <2>14. /\ \A i \in 1 .. Len(out') : i > Len(out) => pos < out'[i]
         /\ \A i \in 1 .. Len(out) : out'[i] = out[i]
    <3> DEFINE l == Len(out)
    <3>1. /\ l \in Nat /\ Len(out') = l + m
          /\ \A i \in 1 .. l + m : out'[i] = IF i <= l THEN out[i] ELSE run[i - l]
      <4>1. Len(run) = m /\ out' = out \o run
        BY <2>9, <2>11
      <4>2. Joins(out \o run, out, run)
        BY <2>9, Joined
      <4>3. Joins(out', out, run)
        BY <4>1, <4>2
      <4> QED
        BY <4>1, <4>3 DEF Joins
    <3> HIDE DEF l
    <3>2. \A i \in 1 .. l : out'[i] = out[i]
      <4>1. \A i \in 1 .. l : i \in 1 .. l + m /\ i <= l
        BY <2>7, <3>1
      <4> QED
        BY <3>1, <4>1
    <3>3. ASSUME NEW i \in 1 .. l + m, i > l PROVE pos < out'[i]
      <4>1. i - l \in 1 .. m /\ out'[i] = run[i - l]
        BY <2>7, <3>1, <3>3
      <4>2. run[i - l] = (b + (i - l)) - 1
        BY <2>9, <4>1
      <4> QED
        BY <2>6, <2>7, <4>1, <4>2
    <3> QED
      BY <3>1, <3>2, <3>3 DEF l
  <2> QED
    BY <1>4, <2>1, <2>2, <2>10, <2>12, <2>13, <2>14
<1> QED
  BY <1>7, <1>8

\* Holding a packet again keeps it: nothing held is filed over by another lap.
LEMMA HoldKeeps ==
    ASSUME IInv, started, NEW p \in Nat, Deliverable(p), ahead(Wire(p), Due(p))
    PROVE  /\ \A s \in DOMAIN pending : s \in DOMAIN Hold(p) /\ Hold(p)[s] = pending[s]
           /\ Wire(p) \in DOMAIN Hold(p) /\ Hold(p)[Wire(p)] = p
           /\ DOMAIN Hold(p) = DOMAIN pending \cup {Wire(p)}
<1>1. /\ DOMAIN Hold(p) = DOMAIN pending \cup {Wire(p)}
      /\ \A s \in DOMAIN Hold(p) :
            Hold(p)[s] = IF s = Wire(p) THEN p ELSE pending[s]
  BY DEF Hold
<1>2. nextPos \in Nat /\ Filed(pending, nextPos)
  BY DEF IInv, TypeOK, Waiting
<1>3. nextPos - Half <= p /\ p < nextPos + Half
  BY DEF Deliverable
<1>4. ASSUME NEW s \in DOMAIN pending, s = Wire(p) PROVE pending[s] = p
  <2> DEFINE q == pending[s]
  <2>1. q \in Nat /\ Wire(q) = Wire(p) /\ nextPos <= q /\ q < nextPos + Half
    BY <1>2, <1>4 DEF Filed
  <2> HIDE DEF q
  <2>2. -SeqMod < q - p /\ q - p < SeqMod
    BY <1>2, <1>3, <2>1 DEF SeqMod
  <2>3. q = p
    BY <2>1, <2>2, WireInjective
  <2> QED
    BY <2>3 DEF q
<1> QED
  BY <1>1, <1>4

\* The fate of every packet when p is accepted into a running stream.
LEMMA AcceptKeeps ==
    ASSUME IInv, started, NEW p \in Nat, Deliverable(p), PushAccept(p)
    PROVE  /\ DOMAIN pending' \subseteq DOMAIN pending \cup {Wire(p)}
           /\ \A s \in DOMAIN pending' : pending'[s] = Hold(p)[s]
           /\ \A s \in DOMAIN pending :
                 \/ s \in DOMAIN pending' /\ pending'[s] = pending[s]
                 \/ \E i \in 1 .. Len(out') : out'[i] = pending[s]
           /\ nextPos' = nextPos => Wire(p) \in DOMAIN pending'
           /\ Lost' # Lost => /\ Cardinality(DOMAIN pending) = Window
                              /\ \A i \in 1 .. Len(out') : out'[i] # nextPos
<1>1. ahead(Wire(p), Due(p)) /\ Due(p) = next /\ DuePos(p) = nextPos
  BY DEF PushAccept, Due, DuePos
<1>2. /\ Filed(Hold(p), nextPos)
      /\ IsFiniteSet(DOMAIN Hold(p)) /\ Cardinality(DOMAIN Hold(p)) <= Window + 1
  BY <1>1, Stored
<1>3. /\ nextPos \in Nat /\ next = Wire(nextPos) /\ Lost \in Nat
      /\ Ordered(out, base, nextPos) /\ out \in Seq(Nat)
  BY DEF IInv, TypeOK
<1>4. Deliver(Hold(p), Wire(nextPos), nextPos)
  BY <1>1, <1>3 DEF PushAccept
<1>5. /\ DOMAIN pending' \subseteq DOMAIN Hold(p)
      /\ \A s \in DOMAIN pending' : pending'[s] = Hold(p)[s]
      /\ \A s \in DOMAIN Hold(p) : \/ s \in DOMAIN pending'
                                   \/ \E i \in 1 .. Len(out') : out'[i] = Hold(p)[s]
      /\ nextPos' = nextPos => DOMAIN pending' = DOMAIN Hold(p)
      /\ Lost' # Lost =>
            /\ Cardinality(DOMAIN Hold(p)) = Window + 1
            /\ \A i \in 1 .. Len(out') : i > Len(out) => nextPos < out'[i]
            /\ \A i \in 1 .. Len(out) : out'[i] = out[i]
  BY <1>2, <1>3, <1>4, DeliverKeeps
<1>6. /\ \A s \in DOMAIN pending : s \in DOMAIN Hold(p) /\ Hold(p)[s] = pending[s]
      /\ Wire(p) \in DOMAIN Hold(p)
      /\ DOMAIN Hold(p) = DOMAIN pending \cup {Wire(p)}
  BY <1>1, HoldKeeps
<1>7. ASSUME Lost' # Lost PROVE Cardinality(DOMAIN pending) = Window
  <2>1. IsFiniteSet(DOMAIN pending) /\ Cardinality(DOMAIN pending) <= Window
    BY DEF IInv
  <2>2. Cardinality(DOMAIN pending) \in Nat
    BY <2>1, FS_CardinalityType
  <2>3. /\ IsFiniteSet(DOMAIN pending \cup {Wire(p)})
        /\ Cardinality(DOMAIN pending \cup {Wire(p)}) <= Cardinality(DOMAIN pending) + 1
    BY <2>1, <2>2, FS_AddElement
  <2>4. Cardinality(DOMAIN pending \cup {Wire(p)}) = Window + 1
    BY <1>5, <1>6, <1>7
  <2> QED
    BY <2>1, <2>2, <2>3, <2>4, WindowAssumption
<1>8. ASSUME Lost' # Lost, NEW i \in 1 .. Len(out') PROVE out'[i] # nextPos
  <2>1. Len(out) \in Nat /\ i \in Int /\ i >= 1
    BY <1>3
  <2>2. CASE i <= Len(out)
    <3>1. i \in 1 .. Len(out)
      BY <2>1, <2>2
    <3>2. out'[i] = out[i] /\ out[i] \in Nat /\ out[i] < nextPos
      BY <1>3, <1>5, <1>8, <3>1 DEF Ordered
    <3> QED
      BY <1>3, <3>2
  <2>3. CASE i > Len(out)
    <3>1. nextPos < out'[i]
      BY <1>5, <1>8, <2>3
    <3> QED
      BY <1>3, <3>1
  <2> QED
    BY <2>1, <2>2, <2>3
<1> QED
  BY <1>5, <1>6, <1>7, <1>8

\* No packet that was accepted is thrown away: what is held stays held under its
\* number until push hands it over, also when a hole is given up, and also when
\* a copy of it arrives again.
THEOREM HeldIsNeverDiscarded == Spec => NoHeldPacketDiscarded
<1> DEFINE A == started' => \A s \in DOMAIN pending :
                   \/ s \in DOMAIN pending' /\ pending'[s] = pending[s]
                   \/ \E i \in 1 .. Len(out') : out'[i] = pending[s]
<1>1. IInv /\ [Next]_vars => [A]_vars
  <2> SUFFICES ASSUME IInv, [Next]_vars, ~UNCHANGED vars PROVE A
    OBVIOUS
  <2>1. ASSUME NEW p \in Positions, Deliverable(p), PushLate(p) PROVE A
    BY <2>1 DEF PushLate
  <2>2. ASSUME NEW p \in Positions, Deliverable(p), PushAccept(p) PROVE A
    <3>1. p \in Nat
      BY PositionsAssumption
    <3>2. CASE started
      BY <2>2, <3>1, <3>2, AcceptKeeps
    <3>3. CASE ~started
      <4>1. DOMAIN pending = {}
        BY <3>3 DEF IInv, Fresh, NoPackets
      <4> QED
        BY <4>1
    <3> QED
      BY <3>2, <3>3
  <2>3. ASSUME OnMissing PROVE A
    BY <2>3 DEF OnMissing
  <2>4. ASSUME reset PROVE A
    BY <2>4 DEF reset
  <2> QED
    BY <2>1, <2>2, <2>3, <2>4 DEF Next, push
<1>2. [][A]_vars => NoHeldPacketDiscarded
  BY PTL DEF NoHeldPacketDiscarded
<1> QED
  BY <1>1, <1>2, Invariance, PTL DEF Spec

\* A hole is stepped over only by the packet that finds seqWindow others held
\* behind it; never by the missing packet itself.
THEOREM GapGivenUpWhenFull == Spec => GivesUpOnlyWhenFull
<1> DEFINE A == started /\ Lost' > Lost =>
                   /\ Cardinality(DOMAIN pending) = Window
                   /\ \A i \in DOMAIN out' : out'[i] # nextPos
<1>1. IInv /\ IInv' /\ [Next]_vars => [A]_vars
  <2> SUFFICES ASSUME IInv, IInv', [Next]_vars, ~UNCHANGED vars, started, Lost' > Lost
               PROVE  /\ Cardinality(DOMAIN pending) = Window
                      /\ \A i \in DOMAIN out' : out'[i] # nextPos
    OBVIOUS
  <2>0. Lost \in Nat /\ Lost' # Lost
    BY DEF IInv, TypeOK
  <2>1. ASSUME NEW p \in Positions, Deliverable(p), PushAccept(p)
        PROVE  /\ Cardinality(DOMAIN pending) = Window
               /\ \A i \in DOMAIN out' : out'[i] # nextPos
    <3>1. /\ Cardinality(DOMAIN pending) = Window
          /\ \A i \in 1 .. Len(out') : out'[i] # nextPos
      BY <2>0, <2>1, AcceptKeeps, PositionsAssumption
    <3>2. DOMAIN out' = 1 .. Len(out')
      <4>1. out' \in Seq(Nat)
        BY DEF IInv, TypeOK
      <4> QED
        BY <4>1
    <3> QED
      BY <3>1, <3>2
  <2>2. ASSUME NEW p \in Positions, PushLate(p) PROVE FALSE
    BY <2>0, <2>2 DEF PushLate
  <2>3. ~OnMissing
    BY <2>0 DEF OnMissing, counters
  <2>4. ~reset
    BY <2>0 DEF reset
  <2> QED
    BY <2>1, <2>2, <2>3, <2>4 DEF Next, push
<1>2. [][A]_vars => GivesUpOnlyWhenFull
  BY PTL DEF GivesUpOnlyWhenFull
<1> QED
  BY <1>1, <1>2, Invariance, PTL DEF Spec

-----------------------------------------------------------------------------
(* The requests for missing packets.                                       *)

\* The requests of this stream are in order; the mark is the number of the last
\* one; and a request for the hole at the due position means that a packet is
\* held behind it.  Before a stream opens nothing is requested.
RequestInv ==
    /\ RequestsInOrder
    /\ asked # << >> =>
          /\ haveRequested
          /\ requested = Wire(asked[Len(asked)].first)
          /\ asked[Len(asked)].first = nextPos => DOMAIN pending # {}
    /\ ~started => asked = << >>

LEMMA RequestFields ==
    ASSUME NEW q \in Seq([first : Nat, count : Nat])
    PROVE  \A i \in 1 .. Len(q) : q[i].first \in Nat
<1> DEFINE S == [first : Nat, count : Nat]
<1>1. q \in Seq(S)
  OBVIOUS
<1>2. \A r \in S : r.first \in Nat
  OBVIOUS
<1> HIDE DEF S
<1>3. \A i \in 1 .. Len(q) : q[i] \in S
  BY <1>1
<1> QED
  BY <1>2, <1>3

\* A push that leaves the requests alone.
LEMMA RequestsStay ==
    ASSUME RequestInv, asked' = asked, UNCHANGED mark, started => started',
           asked \in Seq([first : Nat, count : Nat]),
           nextPos \in Nat, nextPos' \in Nat,
           started => nextPos <= nextPos',
           started /\ nextPos' = nextPos /\ DOMAIN pending # {} => (DOMAIN pending # {})'
    PROVE  RequestInv'
<1>0. requested' = requested /\ haveRequested' = haveRequested
  BY DEF mark
<1>1. CASE asked = << >>
  <2>1. Len(asked') = 0
    BY <1>1
  <2> QED
    BY <1>1, <2>1 DEF RequestInv, RequestsInOrder
<1>2. CASE asked # << >>
  <2>1. started /\ nextPos <= nextPos' /\ Len(asked) \in 1 .. Len(asked)
    BY <1>2 DEF RequestInv
  <2> DEFINE last == asked[Len(asked)].first
  <2>2. \A i \in 1 .. Len(asked) : asked[i].first \in Nat /\ asked[i].first <= nextPos
    <3>1. \A i \in 1 .. Len(asked) : asked[i].first \in Nat
      BY RequestFields
    <3>2. \A i \in 1 .. Len(asked) : asked[i].first <= nextPos
      BY DEF RequestInv, RequestsInOrder
    <3> QED
      BY <3>1, <3>2
  <2>3. last \in Nat /\ last <= nextPos
    BY <2>1, <2>2
  <2>4. RequestsInOrder'
    <3>1. \A i \in 1 .. Len(asked') : asked'[i].first <= nextPos'
      BY <2>1, <2>2
    <3> QED
      BY <3>1 DEF RequestInv, RequestsInOrder
  <2>5. haveRequested' /\ requested' = Wire(last)
    BY <1>0, <1>2 DEF RequestInv
  <2>6. last = nextPos' => (DOMAIN pending # {})'
    <3>1. last = nextPos' => nextPos' = nextPos /\ DOMAIN pending # {}
      <4> HIDE DEF last
      <4>1. last = nextPos => DOMAIN pending # {}
        BY <1>2 DEF RequestInv, last
      <4> QED
        BY <2>1, <2>3, <4>1
    <3> QED
      BY <2>1, <3>1
  <2> QED
    BY <1>0, <2>1, <2>4, <2>5, <2>6 DEF RequestInv
<1> QED
  BY <1>1, <1>2

\* A request for the hole at the due position.
LEMMA RequestMade ==
    ASSUME RequestInv, NEW p \in Nat,
           asked \in Seq([first : Nat, count : Nat]),
           nextPos \in Nat, nextPos' \in Nat, nextPos <= nextPos', started',
           AskFor(Wire(p), Wire(nextPos)),
           requested' = Wire(nextPos), haveRequested' = TRUE,
           asked' = Append(asked, [first |-> nextPos, count |-> Sub(Wire(p), Wire(nextPos))]),
           nextPos' = nextPos => (DOMAIN pending # {})'
    PROVE  RequestInv'
<1> DEFINE c == Sub(Wire(p), Wire(nextPos))
           new == [first |-> nextPos, count |-> c]
           l == Len(asked)
<1>1. c \in 1 .. Window /\ ~(haveRequested /\ requested = Wire(nextPos))
  BY DEF AskFor
<1>2. c \in Nat
  BY <1>1, WindowAssumption
<1> HIDE DEF c
<1>3. new \in [first : Nat, count : Nat] /\ new.first = nextPos /\ new.count = c
  BY <1>2
<1> HIDE DEF new
<1>4. /\ l \in Nat /\ Len(asked') = l + 1
      /\ asked'[l + 1] = new /\ \A i \in 1 .. l : asked'[i] = asked[i]
      /\ asked' # << >>
  BY <1>3 DEF new, c
<1>5. \A i \in 1 .. l : /\ asked[i].first \in Nat /\ asked[i].first <= nextPos
                        /\ asked[i].count \in 1 .. Window
  <2>1. \A i \in 1 .. l : asked[i].first \in Nat
    BY RequestFields
  <2>2. \A i \in 1 .. l : asked[i].count \in 1 .. Window /\ asked[i].first <= nextPos
    BY DEF RequestInv, RequestsInOrder
  <2> QED
    BY <2>1, <2>2
<1>6. \A i, j \in 1 .. l : i < j => asked[i].first < asked[j].first
  BY DEF RequestInv, RequestsInOrder
<1>7. \A i \in 1 .. l : asked[i].first < nextPos
  <2> SUFFICES ASSUME NEW i \in 1 .. l PROVE asked[i].first < nextPos
    OBVIOUS
  <2>1. asked # << >> /\ l \in 1 .. l
    BY <1>4
  <2>2. asked[l].first # nextPos
    BY <1>1, <2>1 DEF RequestInv
  <2>3. asked[l].first < nextPos /\ asked[l].first \in Nat
    <3>1. asked[l].first \in Nat /\ asked[l].first <= nextPos
      BY <1>5, <2>1
    <3> QED
      BY <2>2, <3>1
  <2>4. CASE i = l
    BY <2>3, <2>4
  <2>5. CASE i # l
    <3>1. i < l
      BY <1>4, <2>5
    <3>2. asked[i].first < asked[l].first
      BY <1>6, <2>1, <3>1
    <3> QED
      BY <1>5, <2>3, <3>2
  <2> QED
    BY <2>4, <2>5
<1> HIDE DEF l
<1>8. \A i \in 1 .. l + 1 : /\ asked'[i].count \in 1 .. Window
                            /\ asked'[i].first <= nextPos'
  <2> SUFFICES ASSUME NEW i \in 1 .. l + 1
               PROVE  asked'[i].count \in 1 .. Window /\ asked'[i].first <= nextPos'
    OBVIOUS
  <2>1. CASE i = l + 1
    BY <1>1, <1>3, <1>4, <2>1
  <2>2. CASE i # l + 1
    <3>1. i \in 1 .. l
      BY <1>4, <2>2
    <3>2. asked'[i] = asked[i]
      BY <1>4, <3>1
    <3>3. asked[i].count \in 1 .. Window
      BY <1>5, <3>1
    <3>4. asked[i].first \in Nat /\ asked[i].first <= nextPos
      BY <1>5, <3>1
    <3>5. asked[i].first <= nextPos'
      BY <3>4
    <3> QED
      BY <3>2, <3>3, <3>5
  <2> QED
    BY <2>1, <2>2
<1>9. \A i, j \in 1 .. l + 1 : i < j => asked'[i].first < asked'[j].first
  <2> SUFFICES ASSUME NEW i \in 1 .. l + 1, NEW j \in 1 .. l + 1, i < j
               PROVE  asked'[i].first < asked'[j].first
    OBVIOUS
  <2>1. i \in 1 .. l /\ asked'[i] = asked[i]
    BY <1>4
  <2>2. CASE j = l + 1
    BY <1>3, <1>4, <1>7, <2>1, <2>2
  <2>3. CASE j # l + 1
    <3>1. j \in 1 .. l
      BY <1>4, <2>3
    <3> QED
      BY <1>4, <1>6, <2>1, <3>1
  <2> QED
    BY <2>2, <2>3
<1>10. RequestsInOrder'
  BY <1>4, <1>8, <1>9 DEF RequestsInOrder
<1>11. asked'[Len(asked')].first = nextPos
  BY <1>3, <1>4
<1> QED
  BY <1>10, <1>11 DEF RequestInv

LEMMA AcceptRequests ==
    ASSUME IInv, IInv', RequestInv, NEW p \in Nat, Deliverable(p), PushAccept(p)
    PROVE  RequestInv'
<1>1. /\ asked \in Seq([first : Nat, count : Nat])
      /\ nextPos \in Nat /\ nextPos' \in Nat
      /\ next = Wire(nextPos)
  BY DEF IInv, TypeOK
<1>2. started'
  BY DEF PushAccept
<1>3. CASE ~started
  <2>1. UNCHANGED <<mark, asked>>
    BY <1>3 DEF PushAccept, Due
  <2> QED
    BY <1>1, <1>2, <1>3, <2>1, RequestsStay
<1>4. CASE started
  <2>1. nextPos <= nextPos'
    BY <1>4, AcceptStep DEF DuePos
  <2>2. nextPos' = nextPos => (DOMAIN pending # {})'
    BY <1>4, AcceptKeeps
  <2>3. CASE UNCHANGED <<mark, asked>>
    BY <1>1, <1>2, <2>1, <2>2, <2>3, RequestsStay
  <2>4. CASE Wire(p) # next /\ requestMissing(Wire(p), next, nextPos)
             /\ AskFor(Wire(p), next)
    <3>1. /\ requested' = Wire(nextPos) /\ haveRequested' = TRUE
          /\ asked' = Append(asked, [first |-> nextPos,
                                     count |-> Sub(Wire(p), Wire(nextPos))])
      BY <1>1, <2>4 DEF requestMissing
    <3>2. AskFor(Wire(p), Wire(nextPos))
      BY <1>1, <2>4
    <3> QED
      BY <1>1, <1>2, <2>1, <2>2, <3>1, <3>2, RequestMade
  <2>5. \/ UNCHANGED <<mark, asked>>
        \/ /\ Wire(p) # next /\ requestMissing(Wire(p), next, nextPos)
           /\ AskFor(Wire(p), next)
    BY <1>4 DEF PushAccept, Due, DuePos, requestMissing
  <2> QED
    BY <2>3, <2>4, <2>5
<1> QED
  BY <1>3, <1>4

LEMMA NextRequests == IInv /\ IInv' /\ RequestInv /\ [Next]_vars => RequestInv'
<1> SUFFICES ASSUME IInv, IInv', RequestInv, [Next]_vars PROVE RequestInv'
  OBVIOUS
<1>0. /\ asked \in Seq([first : Nat, count : Nat])
      /\ nextPos \in Nat /\ nextPos' \in Nat
  BY DEF IInv, TypeOK
<1>1. ASSUME NEW p \in Positions, Deliverable(p), PushLate(p) PROVE RequestInv'
  <2>1. /\ asked' = asked /\ UNCHANGED mark /\ started' = started
        /\ nextPos' = nextPos /\ pending' = pending
    BY <1>1 DEF PushLate, history
  <2> QED
    BY <1>0, <2>1, RequestsStay
<1>2. ASSUME NEW p \in Positions, Deliverable(p), PushAccept(p) PROVE RequestInv'
  BY <1>2, AcceptRequests, PositionsAssumption
<1>3. ASSUME OnMissing PROVE RequestInv'
  <2>1. /\ asked' = asked /\ UNCHANGED mark /\ started' = started
        /\ nextPos' = nextPos /\ pending' = pending
    BY <1>3 DEF OnMissing, history
  <2> QED
    BY <1>0, <2>1, RequestsStay
<1>4. ASSUME reset PROVE RequestInv'
  <2>1. asked' = << >>
    BY <1>4 DEF reset
  <2>2. Len(asked') = 0
    BY <2>1
  <2> QED
    BY <2>1, <2>2 DEF RequestInv, RequestsInOrder
<1>5. ASSUME UNCHANGED vars PROVE RequestInv'
  <2>1. /\ asked' = asked /\ UNCHANGED mark /\ started' = started
        /\ nextPos' = nextPos /\ pending' = pending
    BY <1>5 DEF vars, history
  <2> QED
    BY <1>0, <2>1, RequestsStay
<1> QED
  BY <1>1, <1>2, <1>3, <1>4, <1>5 DEF Next, push

LEMMA RequestInvariance == Spec => []RequestInv
<1>1. Init => RequestInv
  <2> SUFFICES ASSUME Init PROVE RequestInv
    OBVIOUS
  <2>1. asked = << >> /\ Len(asked) = 0
    BY DEF Init
  <2> QED
    BY <2>1 DEF RequestInv, RequestsInOrder
<1> QED
  BY <1>1, NextRequests, Invariance, PTL DEF Spec

\* Resend requests go out in stream order, none for a hole that was already
\* asked for in this stream, and none longer than the window.
THEOREM RequestsAreOrdered == Spec => []RequestsInOrder
<1>1. RequestInv => RequestsInOrder
  BY DEF RequestInv
<1> QED
  BY <1>1, RequestInvariance, PTL

\* The packet that opens a hole while nothing is held has the whole hole
\* requested at once, unless the mark is left over from a lap or a stream ago:
\* that is the only way such a hole goes unasked.
THEOREM HeadGapsAreAsked == Spec => HeadGapAsked
<1> DEFINE Hyp == onMissing /\ started /\ ~StaleMark /\ pending = NoPackets
           Asks(p) == /\ Len(asked') = Len(asked) + 1
                      /\ asked'[Len(asked')] = [first |-> nextPos, count |-> p - nextPos]
           A == Hyp => \A p \in Opened : p - nextPos \in 1 .. Window => Asks(p)
<1>1. IInv /\ RequestInv /\ [Next]_vars => [A]_vars
  <2> SUFFICES ASSUME IInv, RequestInv, [Next]_vars, ~UNCHANGED vars, Hyp,
                      NEW p \in Opened, p - nextPos \in 1 .. Window
               PROVE  Asks(p)
    OBVIOUS
  <2>0. DOMAIN pending = {}
    BY EmptyStream
  <2>1. ASSUME NEW q \in Positions, Deliverable(q), PushAccept(q) PROVE Asks(p)
    <3>1. q \in Nat /\ ahead(Wire(q), Due(q)) /\ Due(q) = next /\ DuePos(q) = nextPos
      BY <2>1, PositionsAssumption DEF PushAccept, Due, DuePos
    <3>2. /\ nextPos \in Nat /\ next = Wire(nextPos)
          /\ asked \in Seq([first : Nat, count : Nat])
      BY DEF IInv, TypeOK
    <3>3. p = q
      <4>1. PICK s \in DOMAIN pending' : p = pending'[s]
        BY DEF Opened
      <4>2. s = Wire(q) /\ pending'[s] = Hold(q)[s]
        BY <2>0, <2>1, <3>1, AcceptKeeps
      <4>3. Hold(q)[Wire(q)] = q
        BY <2>1, <3>1, HoldKeeps
      <4> QED
        BY <4>1, <4>2, <4>3
    <3>4. Sub(Wire(q), Wire(nextPos)) = q - nextPos
      <4>1. 0 <= q - nextPos /\ q - nextPos < SeqMod
        BY <3>1, <3>2, <3>3, WindowAssumption DEF SeqMod
      <4> QED
        BY <3>1, <3>2, <4>1, SubNear
    <3>5. Wire(q) # next
      <4>1. SUFFICES ASSUME Wire(q) = Wire(nextPos) PROVE FALSE
        BY <3>2
      <4>2. -SeqMod < q - nextPos /\ q - nextPos < SeqMod
        BY <3>1, <3>2, <3>3, WindowAssumption DEF SeqMod
      <4>3. q = nextPos
        BY <3>1, <3>2, <4>1, <4>2, WireInjective
      <4> QED
        BY <3>2, <3>3, <4>3
    <3>6. AskFor(Wire(q), next)
      <4>1. ~(haveRequested /\ requested = next)
        <5>1. SUFFICES ASSUME haveRequested, requested = next PROVE FALSE
          OBVIOUS
        <5>2. asked # << >> /\ asked[Len(asked)].first = nextPos
          BY <5>1 DEF StaleMark
        <5> QED
          BY <2>0, <5>2 DEF RequestInv
      <4>2. Sub(Wire(q), next) \in 1 .. Window
        BY <3>2, <3>3, <3>4
      <4> QED
        BY <4>1, <4>2 DEF AskFor
    <3>7. asked' = Append(asked, [first |-> nextPos, count |-> p - nextPos])
      <4>1. requestMissing(Wire(q), next, nextPos)
        BY <2>1, <3>1, <3>5 DEF PushAccept
      <4>2. asked' = Append(asked, [first |-> nextPos, count |-> Sub(Wire(q), next)])
        BY <3>6, <4>1 DEF requestMissing
      <4> QED
        BY <3>2, <3>3, <3>4, <4>2
    <3>8. [first |-> nextPos, count |-> p - nextPos] \in [first : Nat, count : Nat]
      BY <3>2, WindowAssumption
    <3> QED
      BY <3>2, <3>7, <3>8
  <2>2. ASSUME pending' = pending \/ pending' = NoPackets PROVE FALSE
    BY <2>0, <2>2, EmptyStream DEF Opened
  <2>3. ASSUME NEW q \in Positions, PushLate(q) PROVE FALSE
    BY <2>2, <2>3 DEF PushLate
  <2>4. ~OnMissing
    BY <2>2 DEF OnMissing
  <2>5. ~reset
    BY <2>2 DEF reset
  <2> QED
    BY <2>1, <2>3, <2>4, <2>5 DEF Next, push
<1>2. [][A]_vars => HeadGapAsked
  BY PTL DEF HeadGapAsked
<1> QED
  BY <1>1, <1>2, Invariance, RequestInvariance, PTL DEF Spec

-----------------------------------------------------------------------------
(* Every call does on numbers what AudioPath has it do on positions.       *)

PQ == INSTANCE PositionQueue

\* The packet at a position, of the only stream there is here.
Packet(p) == [of |-> 1, no |-> p]

\* The state as a queue on positions: what is held, and the hole last asked for.
HeldAt(held) == {held[s] : s \in DOMAIN held}
AskedLast    == IF asked = << >> THEN -1 ELSE asked[Len(asked)].first
QueueOf ==
    [started |-> started, base |-> base, due |-> nextPos,
     held |-> [k \in HeldAt(pending) |-> 1], mark |-> AskedLast, onMissing |-> onMissing,
     wrote |-> 0, lost |-> Lost, errors |-> 0]
queue == <<QueueOf, out, asked>>

WithMark(q, m)     == [q EXCEPT !.mark = m]
WithCallback(q, o) == [q EXCEPT !.onMissing = o]

Positional(ready) == [i \in DOMAIN ready |-> ready[i].no]
Requests(asks, p) ==
    IF asks = {} THEN asked
    ELSE Append(asked, [first |-> DuePos(p), count |-> Cardinality(asks)])

\* A packet that is not late: the queue, what it hands over and what it asks for are
\* those of Pushed, but for a mark that is stale, with which it asks for nothing.
PushedOnPositions(p) ==
    LET r == PQ!Pushed(QueueOf, Packet(p)) IN
    /\ out' = out \o Positional(r.ready)
    /\ IF StaleMark THEN QueueOf' = WithMark(r.queue, AskedLast) /\ asked' = asked
       ELSE QueueOf' = r.queue /\ asked' = Requests(r.asks, p)

PushOnPositions(p) ==
    IF PQ!Late(QueueOf, Packet(p)) THEN UNCHANGED queue ELSE PushedOnPositions(p)

CallbackSet == QueueOf' = WithCallback(QueueOf, TRUE) /\ UNCHANGED <<out, asked>>
Restarted   == /\ QueueOf' = WithCallback(PQ!EmptyQueue, onMissing)
               /\ out' = << >> /\ asked' = << >>

OnPositions ==
    /\ QueueOf = PQ!EmptyQueue /\ out = << >> /\ asked = << >>
    /\ [][\/ \E p \in Positions : push(p) /\ PushOnPositions(p)
          \/ CallbackSet \/ Restarted]_queue

-----------------------------------------------------------------------------
\* A held position is held under its number, and the i-th from pos on if its number is.
LEMMA HeldAtIs ==
    ASSUME NEW held, NEW pos \in Nat, Filed(held, pos)
    PROVE  /\ HeldAt(held) \subseteq Nat
           /\ \A k \in HeldAt(held) : /\ pos <= k /\ k < pos + Half
                                      /\ Wire(k) \in DOMAIN held /\ held[Wire(k)] = k
           /\ \A i \in 0 .. Half : pos + i \in HeldAt(held) <=> Plus(Wire(pos), i) \in DOMAIN held
<1>1. ASSUME NEW k \in HeldAt(held)
      PROVE  /\ k \in Nat /\ pos <= k /\ k < pos + Half
             /\ Wire(k) \in DOMAIN held /\ held[Wire(k)] = k
  <2>1. PICK s \in DOMAIN held : k = held[s]
    BY DEF HeldAt
  <2> QED
    BY <2>1 DEF Filed
<1>2. ASSUME NEW i \in 0 .. Half
      PROVE  pos + i \in HeldAt(held) <=> Plus(Wire(pos), i) \in DOMAIN held
  <2>1. Plus(Wire(pos), i) = Wire(pos + i)
    BY PlusWire
  <2>2. Plus(Wire(pos), i) \in DOMAIN held => held[Plus(Wire(pos), i)] = pos + i
    BY FiledAt
  <2> QED
    BY <1>1, <2>1, <2>2 DEF HeldAt
<1> QED
  BY <1>1, <1>2

\* As many positions are held as numbers.
LEMMA HeldAtSize ==
    ASSUME NEW held, NEW pos \in Nat, Filed(held, pos), IsFiniteSet(DOMAIN held)
    PROVE  IsFiniteSet(HeldAt(held)) /\ Cardinality(HeldAt(held)) = Cardinality(DOMAIN held)
<1> DEFINE f == [s \in DOMAIN held |-> held[s]]
<1>1. f \in Bijection(DOMAIN held, HeldAt(held))
  <2>1. f \in [DOMAIN held -> HeldAt(held)]
    BY DEF HeldAt
  <2>2. \A s, t \in DOMAIN held : f[s] = f[t] => s = t
    BY DEF Filed
  <2>3. \A k \in HeldAt(held) : \E s \in DOMAIN held : f[s] = k
    BY DEF HeldAt
  <2> HIDE DEF f
  <2> QED
    BY <2>1, <2>2, <2>3, Fun_IsBij, Zenon
<1> QED
  BY <1>1, FS_Bijection, Zenon DEF ExistsBijection

LEMMA SameSize == \A S : PQ!Cardinality(S) = Cardinality(S)
  BY SMT DEF PQ!Cardinality, Cardinality

\* Where a run of numbers ends, the run of positions does.
LEMMA RunEnds ==
    ASSUME NEW held, NEW pos \in Nat, Filed(held, pos), IsFiniteSet(DOMAIN held),
           NEW n \in 0 .. Cardinality(DOMAIN held), IsRun(held, Wire(pos), n)
    PROVE  PQ!EndOfRun(HeldAt(held), pos) = pos + n
<1> DEFINE H == HeldAt(held)
           c == Cardinality(H)
           P(e) == e \notin H /\ \A i \in pos .. e - 1 : i \in H
<1>1. c \in Nat /\ n \in 0 .. c
  BY HeldAtSize, FS_CardinalityType
<1>2. n \in Nat /\ n <= Half
  <2>1. n \in Nat
    BY <1>1
  <2> QED
    BY <2>1, RunLength
<1>3. PQ!EndOfRun(H, pos) = CHOOSE e \in pos .. pos + c : P(e)
  BY SameSize, Zenon DEF PQ!EndOfRun
<1>4. pos + n \notin H
  BY <1>2, HeldAtIs DEF IsRun
<1>5. ASSUME NEW i \in pos .. (pos + n) - 1 PROVE i \in H
  <2> DEFINE j == i - pos
  <2>1. j \in 0 .. n - 1 /\ j \in 0 .. Half /\ pos + j = i
    <3> HIDE DEF H, c
    <3> QED
      BY <1>2
  <2> HIDE DEF j
  <2>2. Plus(Wire(pos), j) \in DOMAIN held
    BY <2>1 DEF IsRun
  <2>3. pos + j \in H
    BY <2>1, <2>2, HeldAtIs
  <2> QED
    BY <2>1, <2>3
<1> HIDE DEF H, c
<1>6. P(pos + n) /\ pos + n \in pos .. pos + c
  BY <1>1, <1>4, <1>5
<1>7. \A e \in pos .. pos + c : P(e) => e = pos + n
  BY <1>1, <1>2, <1>4, <1>5
<1>8. (CHOOSE e \in pos .. pos + c : P(e)) = pos + n
  <2> HIDE DEF P
  <2> QED
    BY <1>6, <1>7, Zenon
<1> QED
  BY <1>3, <1>8 DEF H

\* What a run leaves behind are the positions after it.
LEMMA RestIs ==
    ASSUME NEW held, NEW pos \in Nat, Filed(held, pos), NEW n \in Nat, IsRun(held, Wire(pos), n)
    PROVE  HeldAt(AfterRun(held, Wire(pos), n)) = {k \in HeldAt(held) : k >= pos + n}
<1> DEFINE rest == AfterRun(held, Wire(pos), n)
           gone == {Plus(Wire(pos), i) : i \in 0 .. n - 1}
<1>1. DOMAIN rest = DOMAIN held \ gone /\ \A s \in DOMAIN rest : rest[s] = held[s]
  BY DEF AfterRun, Restrict
<1>2. Filed(rest, pos + n) /\ n <= Half
  BY RunTaken, RunLength DEF Waiting
<1>3. ASSUME NEW k \in HeldAt(rest) PROVE k \in HeldAt(held) /\ k >= pos + n
  BY <1>1, <1>2 DEF HeldAt, Filed
<1>4. ASSUME NEW k \in HeldAt(held), k >= pos + n PROVE k \in HeldAt(rest)
  <2>1. k \in Nat /\ k < pos + Half /\ Wire(k) \in DOMAIN held /\ held[Wire(k)] = k
    BY HeldAtIs
  <2>2. ASSUME NEW i \in 0 .. n - 1, Plus(Wire(pos), i) = Wire(k) PROVE FALSE
    <3>1. Wire(pos + i) = Wire(k)
      BY <2>2, PlusWire
    <3>2. -SeqMod < (pos + i) - k /\ (pos + i) - k < SeqMod
      BY <1>2, <1>4, <2>1 DEF SeqMod
    <3>3. pos + i = k
      BY <2>1, <3>1, <3>2, WireInjective
    <3> QED
      BY <1>4, <2>1, <3>3
  <2>3. Wire(k) \in DOMAIN rest /\ rest[Wire(k)] = k
    BY <1>1, <2>1, <2>2
  <2> QED
    BY <2>3 DEF HeldAt
<1> QED
  BY <1>3, <1>4

\* A run is a stretch of positions.
LEMMA RunIsStretch ==
    ASSUME NEW held, NEW pos \in Nat, Filed(held, pos), NEW n \in Nat, IsRun(held, Wire(pos), n)
    PROVE  Run(held, Wire(pos), n) = PQ!Stretch(pos, pos + n)
<1>1. IsStretch(Run(held, Wire(pos), n), pos, n)
  BY RunTaken
<1>2. (pos + n) - pos = n
  OBVIOUS
<1> QED
  BY <1>1, <1>2 DEF IsStretch, PQ!Stretch

\* The nearest number is that of the least position.
LEMMA NearestIsLeast ==
    ASSUME NEW held, NEW pos \in Nat, Waiting(held, pos), NEW best, IsNearest(held, Wire(pos), best)
    PROVE  PQ!Min(HeldAt(held)) = held[best]
<1> DEFINE H == HeldAt(held)
           b == held[best]
<1>1. b \in H /\ b \in Nat /\ H \subseteq Nat /\ \A k \in H : b <= k
  <2>1. best \in DOMAIN held
    BY DEF IsNearest
  <2>2. b \in Nat /\ Filed(held, b)
    BY NearestHeld
  <2> QED
    BY <2>1, <2>2, HeldAtIs DEF HeldAt, Filed
<1> HIDE DEF H, b
<1>2. \A x \in H : (\A y \in H : x <= y) => x = b
  BY <1>1
<1> QED
  BY <1>1, <1>2, Zenon DEF PQ!Min, H, b

\* Where push goes from position pos with H held: the end of the run that is due, what
\* is held behind it, where it goes on past the window, and where it ends.
Mid(H, pos)   == PQ!EndOfRun(H, pos)
Rest(H, pos)  == {k \in H : k >= Mid(H, pos)}
From(H, pos)  == IF Cardinality(Rest(H, pos)) <= Window THEN Mid(H, pos) ELSE PQ!Min(Rest(H, pos))
Front(H, pos) == PQ!EndOfRun(Rest(H, pos), From(H, pos))

Delivered(H, pos) ==
    /\ PQ!Stretch(pos, Mid(H, pos)) \o PQ!Stretch(From(H, pos), Front(H, pos)) \in Seq(Nat)
    /\ nextPos' = Front(H, pos)
    /\ Lost' = Lost + (From(H, pos) - Mid(H, pos))
    /\ HeldAt(pending') = {k \in Rest(H, pos) : k >= Front(H, pos)}
    /\ out' = out \o (PQ!Stretch(pos, Mid(H, pos)) \o PQ!Stretch(From(H, pos), Front(H, pos)))

LEMMA StretchIs ==
    ASSUME NEW a \in Nat, NEW n \in Nat
    PROVE  PQ!Stretch(a, a + n) \in Seq(Nat) /\ PQ!Stretch(a, a) = << >>
<1>1. (a + n) - a = n /\ a - a = 0
  OBVIOUS
<1>2. PQ!Stretch(a, a + n) = [i \in 1 .. n |-> (a + i) - 1]
  BY <1>1, Zenon DEF PQ!Stretch
<1>3. PQ!Stretch(a, a) = [i \in 1 .. 0 |-> (a + i) - 1]
  BY <1>1, Zenon DEF PQ!Stretch
<1>4. \A i \in 1 .. n : (a + i) - 1 \in Nat
  OBVIOUS
<1> QED
  BY <1>2, <1>3, <1>4

LEMMA JoinAssociates ==
    ASSUME NEW s \in Seq(Nat), NEW t \in Seq(Nat), NEW u \in Seq(Nat)
    PROVE  (s \o t) \o u = s \o (t \o u) /\ s \o t = s \o (t \o << >>)
BY SMTT(20)

\* Deliver on numbers is the same on positions.
LEMMA DeliverIs ==
    ASSUME NEW held, NEW pos \in Nat, Filed(held, pos), IsFiniteSet(DOMAIN held),
           out \in Seq(Nat), Lost \in Nat, Deliver(held, Wire(pos), pos)
    PROVE  Delivered(HeldAt(held), pos)
<1> DEFINE at == Wire(pos)
           H == HeldAt(held)
<1>1. PICK n \in 0 .. Cardinality(DOMAIN held) :
         /\ IsRun(held, at, n)
         /\ IF PastWindow(AfterRun(held, at, n))
            THEN GiveUp(AfterRun(held, at, n), Plus(at, n), Run(held, at, n))
            ELSE /\ next' = Plus(at, n) /\ nextPos' = pos + n
                 /\ pending' = AfterRun(held, at, n)
                 /\ out' = out \o Run(held, at, n)
                 /\ UNCHANGED Lost
  BY DEF Deliver
<1> DEFINE rest == AfterRun(held, at, n)
           ready == Run(held, at, n)
           mid == pos + n
<1>2. n \in Nat /\ mid \in Nat
  <2>1. Cardinality(DOMAIN held) \in Nat
    BY FS_CardinalityType
  <2> QED
    BY <1>1, <2>1
<1>3. /\ Mid(H, pos) = mid
      /\ HeldAt(rest) = Rest(H, pos)
      /\ Waiting(rest, mid) /\ Plus(at, n) = Wire(mid)
      /\ ready = PQ!Stretch(pos, mid)
  <2>1. Mid(H, pos) = mid
    BY <1>1, RunEnds DEF Mid
  <2>2. HeldAt(rest) = {k \in H : k >= mid}
    BY <1>1, <1>2, RestIs
  <2>3. Waiting(rest, mid) /\ Plus(at, n) = Wire(mid)
    BY <1>1, <1>2, RunTaken
  <2>4. ready = PQ!Stretch(pos, mid)
    BY <1>1, <1>2, RunIsStretch
  <2> HIDE DEF rest, mid, H, ready
  <2> QED
    BY <2>1, <2>2, <2>3, <2>4 DEF Rest
<1>4. IsFiniteSet(DOMAIN rest) /\ Cardinality(DOMAIN rest) \in Nat
  BY <1>1, <1>2, AfterRunSize
<1>5. ready \in Seq(Nat)
  BY <1>2, <1>3, StretchIs
<1> HIDE DEF rest, ready, mid, H
<1>6. Cardinality(Rest(H, pos)) = Cardinality(DOMAIN rest)
  BY <1>2, <1>3, <1>4, HeldAtSize DEF Waiting
<1>7. CASE ~PastWindow(rest)
  <2>1. nextPos' = mid /\ pending' = rest /\ out' = out \o ready /\ Lost' = Lost
    BY <1>1, <1>7 DEF rest, ready, mid
  <2>2. From(H, pos) = mid
    BY <1>3, <1>4, <1>6, <1>7, WindowAssumption DEF From, PastWindow
  <2>3. Front(H, pos) = mid
    <3>1. Plus(Wire(mid), 0) = Wire(mid)
      <4>1. Plus(Wire(mid), 0) = Wire(mid + 0) /\ mid + 0 = mid
        BY <1>2, PlusWire
      <4> QED
        BY <4>1
    <3>2. IsRun(rest, Wire(mid), 0)
      BY <1>3, <3>1 DEF IsRun, Waiting
    <3>3. PQ!EndOfRun(HeldAt(rest), mid) = mid + 0
      <4>1. 0 \in 0 .. Cardinality(DOMAIN rest)
        BY <1>4
      <4> QED
        BY <1>2, <1>3, <1>4, <3>2, <4>1, RunEnds DEF Waiting
    <3> QED
      BY <1>2, <1>3, <2>2, <3>3 DEF Front
  <2>4. HeldAt(rest) = {k \in HeldAt(rest) : k >= mid}
    BY <1>2, <1>3, HeldAtIs DEF Waiting
  <2>5. out' = out \o (ready \o PQ!Stretch(mid, mid))
    <3>1. PQ!Stretch(mid, mid) = << >>
      BY <1>2, StretchIs
    <3> QED
      BY <1>5, <2>1, <3>1, JoinAssociates
  <2>6. Lost' = Lost + (mid - mid)
    BY <1>2, <2>1
  <2>7. HeldAt(pending') = {k \in Rest(H, pos) : k >= Front(H, pos)}
    BY <1>3, <2>1, <2>3, <2>4, Zenon
  <2>8. out' = out \o (PQ!Stretch(pos, Mid(H, pos)) \o PQ!Stretch(From(H, pos), Front(H, pos)))
    BY <1>3, <2>2, <2>3, <2>5, Zenon
  <2>9. nextPos' = Front(H, pos) /\ Lost' = Lost + (From(H, pos) - Mid(H, pos))
    BY <1>3, <2>1, <2>2, <2>3, <2>6, Zenon
  <2>10. PQ!Stretch(pos, Mid(H, pos)) \o PQ!Stretch(From(H, pos), Front(H, pos)) \in Seq(Nat)
    <3>1. PQ!Stretch(mid, mid) = << >>
      BY <1>2, StretchIs
    <3>2. ready \o << >> \in Seq(Nat)
      BY <1>5
    <3> QED
      BY <1>3, <2>2, <2>3, <3>1, <3>2, Zenon
  <2> QED
    BY <2>7, <2>8, <2>9, <2>10, Zenon DEF Delivered, H
<1>8. CASE PastWindow(rest)
  <2>1. GiveUp(rest, Wire(mid), ready)
    BY <1>1, <1>3, <1>8 DEF rest, ready
  <2>2. PICK best \in DOMAIN rest, m \in 1 .. Cardinality(DOMAIN rest) :
           /\ IsNearest(rest, Wire(mid), best)
           /\ IsRun(rest, best, m)
           /\ Lost' = Lost + Skipped(best, Wire(mid))
           /\ nextPos' = rest[best] + m
           /\ pending' = AfterRun(rest, best, m)
           /\ out' = (out \o ready) \o Run(rest, best, m)
    BY <2>1 DEF GiveUp
  <2> DEFINE b == rest[best]
  <2>3. /\ b \in Nat /\ best = Wire(b) /\ mid < b
        /\ Skipped(best, Wire(mid)) = b - mid
        /\ Filed(rest, b)
    BY <1>2, <1>3, <2>2, NearestHeld DEF Skipped
  <2>4. PQ!Min(HeldAt(rest)) = b
    BY <1>2, <1>3, <2>2, NearestIsLeast
  <2>5. m \in Nat /\ m \in 0 .. Cardinality(DOMAIN rest)
    BY <1>4, <2>2
  <2> HIDE DEF b
  <2>6. IsRun(rest, Wire(b), m)
    BY <2>2, <2>3
  <2>7. PQ!EndOfRun(HeldAt(rest), b) = b + m
    BY <1>4, <2>3, <2>5, <2>6, RunEnds
  <2>8. HeldAt(pending') = {k \in HeldAt(rest) : k >= b + m}
    BY <2>2, <2>3, <2>5, <2>6, RestIs
  <2>9. Run(rest, best, m) = PQ!Stretch(b, b + m)
    BY <2>3, <2>5, <2>6, RunIsStretch
  <2>10. out' = out \o (ready \o PQ!Stretch(b, b + m))
    <3> DEFINE u == PQ!Stretch(b, b + m)
    <3>1. u \in Seq(Nat)
      BY <2>3, <2>5, StretchIs
    <3>2. out' = (out \o ready) \o u
      BY <2>2, <2>9, Zenon
    <3> HIDE DEF u
    <3>3. (out \o ready) \o u = out \o (ready \o u)
      BY <1>5, <3>1, JoinAssociates
    <3> QED
      BY <3>2, <3>3 DEF u
  <2>11. From(H, pos) = b
    <3>1. ~(Cardinality(Rest(H, pos)) <= Window)
      BY <1>4, <1>6, <1>8, WindowAssumption DEF PastWindow
    <3> QED
      BY <1>3, <2>4, <3>1 DEF From
  <2>12. Front(H, pos) = b + m
    BY <1>3, <2>7, <2>11 DEF Front
  <2>13. nextPos' = b + m /\ Lost' = Lost + (b - mid)
    BY <2>2, <2>3 DEF b
  <2>14. HeldAt(pending') = {k \in Rest(H, pos) : k >= Front(H, pos)}
    BY <1>3, <2>8, <2>12, Zenon
  <2>15. out' = out \o (PQ!Stretch(pos, Mid(H, pos)) \o PQ!Stretch(From(H, pos), Front(H, pos)))
    BY <1>3, <2>10, <2>11, <2>12, Zenon
  <2>16. nextPos' = Front(H, pos) /\ Lost' = Lost + (From(H, pos) - Mid(H, pos))
    BY <1>3, <2>11, <2>12, <2>13, Zenon
  <2>17. PQ!Stretch(pos, Mid(H, pos)) \o PQ!Stretch(From(H, pos), Front(H, pos)) \in Seq(Nat)
    <3> DEFINE u == PQ!Stretch(b, b + m)
    <3>1. u \in Seq(Nat)
      BY <2>3, <2>5, StretchIs
    <3> HIDE DEF u
    <3>2. ready \o u \in Seq(Nat)
      BY <1>5, <3>1
    <3> QED
      BY <1>3, <2>11, <2>12, <3>2, Zenon DEF u
  <2> QED
    BY <2>14, <2>15, <2>16, <2>17, Zenon DEF Delivered, H
<1> QED
  BY <1>7, <1>8 DEF H

\* What is held once packet p is stored.
LEMMA HoldAt ==
    ASSUME IInv, NEW p \in Nat, Deliverable(p), ahead(Wire(p), Due(p))
    PROVE  HeldAt(Hold(p)) = HeldAt(pending) \cup {p}
<1>1. CASE started
  <2>1. /\ \A s \in DOMAIN pending : s \in DOMAIN Hold(p) /\ Hold(p)[s] = pending[s]
        /\ Wire(p) \in DOMAIN Hold(p) /\ Hold(p)[Wire(p)] = p
        /\ DOMAIN Hold(p) = DOMAIN pending \cup {Wire(p)}
    BY <1>1, HoldKeeps
  <2> QED
    BY <2>1 DEF HeldAt
<1>2. CASE ~started
  <2>1. DOMAIN pending = {}
    BY <1>2 DEF IInv, Fresh, NoPackets
  <2>2. DOMAIN Hold(p) = {Wire(p)} /\ Hold(p)[Wire(p)] = p
    BY <2>1 DEF Hold
  <2> QED
    BY <2>1, <2>2 DEF HeldAt
<1> QED
  BY <1>1, <1>2

LEMMA FromIs ==
    \A H, pos : From(H, pos) = IF PQ!Cardinality(Rest(H, pos)) <= Window THEN Mid(H, pos)
                               ELSE PQ!Min(Rest(H, pos))
  BY SameSize DEF From

\* Pushed of the state, by its parts.
AsksAt(p) == /\ onMissing /\ AskedLast # DuePos(p) /\ p - DuePos(p) \in 1 .. Window
RunAt(H, due) == PQ!Stretch(due, Mid(H, due)) \o PQ!Stretch(From(H, due), Front(H, due))
QueueAfter(H, p) ==
    [started |-> TRUE, base |-> IF started THEN base ELSE p, due |-> Front(H, DuePos(p)),
     held |-> [k \in {j \in Rest(H, DuePos(p)) : j >= Front(H, DuePos(p))} |-> 1],
     mark |-> IF AsksAt(p) THEN DuePos(p) ELSE AskedLast, onMissing |-> onMissing,
     wrote |-> 0, lost |-> Lost + (From(H, DuePos(p)) - Mid(H, DuePos(p))), errors |-> 0]

LEMMA PushedIs ==
    ASSUME NEW p, NEW H, H = HeldAt(pending) \cup {p}
    PROVE  LET r == PQ!Pushed(QueueOf, Packet(p))
           IN  /\ r.queue = QueueAfter(H, p)
               /\ r.asks = IF AsksAt(p) THEN DuePos(p) .. p - 1 ELSE {}
               /\ r.ready = [i \in DOMAIN RunAt(H, DuePos(p)) |->
                               [of |-> [k \in H |-> 1][RunAt(H, DuePos(p))[i]],
                                no |-> RunAt(H, DuePos(p))[i]]]
<1> DEFINE q     == QueueOf
           held  == [k \in DOMAIN q.held \cup {Packet(p).no} |->
                        IF k = Packet(p).no THEN Packet(p).of ELSE q.held[k]]
           due   == IF q.started THEN q.due ELSE Packet(p).no
           mid   == Mid(DOMAIN held, due)
           from  == From(DOMAIN held, due)
           front == Front(DOMAIN held, due)
           run   == RunAt(DOMAIN held, due)
           ask   == q.onMissing /\ q.mark # due /\ Packet(p).no - due \in 1 .. Window
           N     == [q EXCEPT !.started = TRUE, !.due = front,
                              !.base = IF q.started THEN @ ELSE Packet(p).no,
                              !.held = [k \in {j \in Rest(DOMAIN held, due) : j >= front} |-> held[k]],
                              !.mark = IF ask THEN due ELSE @,
                              !.lost = @ + (from - mid)]
           R     == [i \in DOMAIN run |-> [of |-> held[run[i]], no |-> run[i]]]
           A     == IF ask THEN due .. Packet(p).no - 1 ELSE {}
<1>1. PQ!Pushed(q, Packet(p)) = [queue |-> N, ready |-> R, asks |-> A]
  <2> HIDE DEF q
  <2> QED
    BY FromIs, ZenonT(40) DEF PQ!Pushed, Mid, Rest, Front, RunAt
<1>2. Packet(p).no = p /\ Packet(p).of = 1
  BY DEF Packet
<1>3. /\ q.started = started /\ q.base = base /\ q.due = nextPos
      /\ q.held = [k \in HeldAt(pending) |-> 1] /\ q.mark = AskedLast
      /\ q.onMissing = onMissing /\ q.lost = Lost
  BY DEF QueueOf
<1>4. held = [k \in H |-> 1]
  <2> HIDE DEF q
  <2> QED
    BY <1>2, <1>3
<1>5. due = DuePos(p) /\ (ask <=> AsksAt(p))
  BY <1>2, <1>3 DEF DuePos, AsksAt
<1>6. DOMAIN held = H
  BY <1>4
<1> HIDE DEF held, due
<1>7. N = QueueAfter(H, p)
  <2> DEFINE L == {j \in Rest(H, DuePos(p)) : j >= Front(H, DuePos(p))}
             h == [k \in L |-> 1]
             b == IF started THEN base ELSE p
             m == IF AsksAt(p) THEN DuePos(p) ELSE AskedLast
             l == Lost + (From(H, DuePos(p)) - Mid(H, DuePos(p)))
  <2>1. L = {j \in Rest(DOMAIN held, due) : j >= front} /\ front = Front(H, DuePos(p))
    BY <1>5, <1>6, Zenon
  <2>2. [k \in {j \in Rest(DOMAIN held, due) : j >= front} |-> held[k]] = h
    <3>1. L \subseteq H
      BY DEF Rest
    <3>2. \A k \in L : held[k] = 1
      BY <1>4, <3>1
    <3> HIDE DEF L
    <3> QED
      BY <2>1, <3>2
  <2>3. (IF ask THEN due ELSE q.mark) = m /\ q.lost + (from - mid) = l
        /\ (IF q.started THEN q.base ELSE Packet(p).no) = b
    BY <1>2, <1>3, <1>5, <1>6, Zenon
  <2>4. N = [q EXCEPT !.started = TRUE, !.due = Front(H, DuePos(p)), !.base = b, !.held = h,
                      !.mark = m, !.lost = l]
    BY <2>1, <2>2, <2>3, Zenon
  <2> HIDE DEF h, b, m, l, N
  <2>5. N = [started |-> TRUE, base |-> b, due |-> Front(H, DuePos(p)), held |-> h, mark |-> m,
             onMissing |-> onMissing, wrote |-> 0, lost |-> l, errors |-> 0]
    BY <2>4 DEF QueueOf
  <2> QED
    BY <2>5, Zenon DEF QueueAfter, h, b, m, l
<1>8. R = [i \in DOMAIN RunAt(H, DuePos(p)) |->
                               [of |-> [k \in H |-> 1][RunAt(H, DuePos(p))[i]],
                                no |-> RunAt(H, DuePos(p))[i]]]
  BY <1>4, <1>5, <1>6
<1>9. A = IF AsksAt(p) THEN DuePos(p) .. p - 1 ELSE {}
  BY <1>2, <1>5
<1> HIDE DEF N, R, A
<1> QED
  BY <1>1, <1>7, <1>8, <1>9

\* A queue with these fields; with another mark; with a callback or without one.
Fields(s, b, d, h, m, o, l) ==
    [started |-> s, base |-> b, due |-> d, held |-> h, mark |-> m, onMissing |-> o,
     wrote |-> 0, lost |-> l, errors |-> 0]

LEMMA AnotherMark ==
    ASSUME NEW s, NEW b, NEW d, NEW h, NEW m, NEW o, NEW l, NEW v
    PROVE  WithMark(Fields(s, b, d, h, m, o, l), v) = Fields(s, b, d, h, v, o, l)
BY DEF Fields, WithMark

LEMMA AnotherCallback ==
    ASSUME NEW s, NEW b, NEW d, NEW h, NEW m, NEW o, NEW l, NEW v
    PROVE  WithCallback(Fields(s, b, d, h, m, o, l), v) = Fields(s, b, d, h, m, v, l)
BY DEF Fields, WithCallback

\* The request push makes, if it makes one, and the mark it leaves.
LEMMA AskIs ==
    ASSUME IInv, RequestInv, NEW p \in Nat, Deliverable(p), PushAccept(p)
    PROVE  /\ StaleMark => asked' = asked /\ AskedLast' = AskedLast
           /\ ~StaleMark =>
                 /\ asked' = Requests(IF AsksAt(p) THEN DuePos(p) .. p - 1 ELSE {}, p)
                 /\ AskedLast' = IF AsksAt(p) THEN DuePos(p) ELSE AskedLast
<1> DEFINE d == DuePos(p)
           Asks == Wire(p) # Due(p) /\ AskFor(Wire(p), Due(p))
<1>1. /\ d \in Nat /\ d <= p /\ Due(p) = Wire(d) /\ p - d < Half
      /\ ~started => d = p
  <2>1. d \in Nat /\ d <= p /\ Due(p) = Wire(d)
    BY Stored DEF PushAccept
  <2>2. started => d = nextPos /\ p < nextPos + Half
    BY DEF DuePos, Deliverable
  <2>3. ~started => d = p
    BY DEF DuePos
  <2>4. nextPos \in Nat
    BY DEF IInv, TypeOK
  <2> HIDE DEF d
  <2> QED
    BY <2>1, <2>2, <2>3, <2>4
<1>2. started => d = nextPos /\ Due(p) = next
  BY DEF DuePos, Due
<1>3. next = Wire(nextPos) /\ nextPos \in Nat /\ asked \in Seq([first : Nat, count : Nat])
  BY DEF IInv, TypeOK
<1> HIDE DEF d
<1>4. Sub(Wire(p), Due(p)) = p - d
  <2>1. 0 <= p - d /\ p - d < SeqMod
    BY <1>1 DEF SeqMod
  <2> QED
    BY <1>1, <2>1, SubNear
<1>5. Wire(p) = Due(p) <=> p = d
  <2>1. -SeqMod < p - d /\ p - d < SeqMod
    BY <1>1 DEF SeqMod
  <2> QED
    BY <1>1, <2>1, WireInjective
<1>6. asked' = IF Asks THEN Append(asked, [first |-> d, count |-> p - d]) ELSE asked
  BY <1>4 DEF PushAccept, requestMissing, d
<1>7. Asks <=> /\ onMissing /\ started /\ p - d \in 1 .. Window
               /\ ~(haveRequested /\ requested = next)
  <2>1. CASE started
    BY <1>1, <1>2, <1>4, <1>5, <2>1, WindowAssumption DEF AskFor
  <2>2. CASE ~started
    BY <1>1, <1>5, <2>2
  <2> QED
    BY <2>1, <2>2
<1>8. ~StaleMark => (haveRequested /\ requested = next <=> AskedLast = nextPos)
  <2>1. asked = << >> => AskedLast # nextPos
    BY <1>3 DEF AskedLast
  <2>2. asked # << >> => /\ AskedLast = asked[Len(asked)].first
                         /\ haveRequested /\ requested = Wire(asked[Len(asked)].first)
    BY DEF AskedLast, RequestInv
  <2> QED
    BY <1>3, <2>1, <2>2 DEF StaleMark
<1>9. ~StaleMark => (Asks <=> AsksAt(p))
  <2>1. p - d \in 1 .. Window => started
    BY <1>1, WindowAssumption
  <2> HIDE DEF Asks
  <2> QED
    BY <1>2, <1>7, <1>8, <2>1 DEF AsksAt, d
<1>10. StaleMark => ~Asks
  BY <1>7 DEF StaleMark
<1>11. Asks => AskedLast' = d
  <2> DEFINE t == Append(asked, [first |-> d, count |-> p - d])
  <2>1. Len(t) = Len(asked) + 1 /\ t # << >> /\ t[Len(t)] = [first |-> d, count |-> p - d]
    BY <1>3
  <2> HIDE DEF t
  <2> QED
    BY <1>6, <2>1 DEF AskedLast, t
<1>12. ~Asks => AskedLast' = AskedLast
  BY <1>6 DEF AskedLast
<1>13. AsksAt(p) => d .. p - 1 # {} /\ Cardinality(d .. p - 1) = p - d
  <2>1. AsksAt(p) => d <= p - 1
    BY <1>1, WindowAssumption DEF AsksAt, d
  <2>2. d <= p - 1 => Cardinality(d .. p - 1) = ((p - 1) - d) + 1
    BY <1>1, FS_Interval
  <2>3. d <= p - 1 => d \in d .. p - 1
    BY <1>1
  <2>4. ((p - 1) - d) + 1 = p - d
    BY <1>1
  <2> QED
    BY <2>1, <2>2, <2>3, <2>4
<1>14. Requests(IF AsksAt(p) THEN d .. p - 1 ELSE {}, p)
         = IF AsksAt(p) THEN Append(asked, [first |-> d, count |-> p - d]) ELSE asked
  BY <1>13 DEF Requests, d
<1> HIDE DEF Asks
<1> QED
  BY <1>6, <1>9, <1>10, <1>11, <1>12, <1>14 DEF d

\* An accepted packet does to the queue what Pushed says.
LEMMA AcceptIs ==
    ASSUME IInv, RequestInv, NEW p \in Nat, Deliverable(p), PushAccept(p)
    PROVE  ~PQ!Late(QueueOf, Packet(p)) /\ PushedOnPositions(p)
<1> DEFINE d == DuePos(p)
           H == HeldAt(pending) \cup {p}
           r == PQ!Pushed(QueueOf, Packet(p))
<1>1. ahead(Wire(p), Due(p)) /\ started' /\ onMissing' = onMissing
      /\ base' = (IF started THEN base ELSE p) /\ Deliver(Hold(p), Due(p), d)
  BY DEF PushAccept
<1>2. /\ d \in Nat /\ d <= p /\ Due(p) = Wire(d) /\ Filed(Hold(p), d)
      /\ IsFiniteSet(DOMAIN Hold(p))
  BY <1>1, Stored
<1>3. HeldAt(Hold(p)) = H
  BY <1>1, HoldAt
<1>4. Lost \in Nat /\ out \in Seq(Nat) /\ nextPos \in Nat
  BY DEF IInv, TypeOK
<1>5. Delivered(H, d)
  <2>1. Deliver(Hold(p), Wire(d), d)
    BY <1>1, <1>2
  <2> HIDE DEF d, H
  <2> QED
    BY <1>2, <1>3, <1>4, <2>1, DeliverIs
<1>6. ~PQ!Late(QueueOf, Packet(p))
  <2>1. started => nextPos <= p
    BY <1>2 DEF DuePos
  <2> QED
    BY <1>4, <2>1 DEF PQ!Late, QueueOf, Packet
<1>7. /\ r.queue = QueueAfter(H, p)
      /\ r.asks = IF AsksAt(p) THEN d .. p - 1 ELSE {}
      /\ r.ready = [i \in DOMAIN RunAt(H, d) |-> [of |-> [k \in H |-> 1][RunAt(H, d)[i]],
                                                  no |-> RunAt(H, d)[i]]]
  BY PushedIs
<1> HIDE DEF d, H, r
<1>8. out' = out \o Positional(r.ready)
  <2>1. RunAt(H, d) \in Seq(Nat) /\ out' = out \o RunAt(H, d)
    BY <1>5 DEF Delivered, RunAt
  <2> DEFINE run == RunAt(H, d)
  <2>2. r.ready = [i \in DOMAIN run |-> [of |-> [k \in H |-> 1][run[i]], no |-> run[i]]]
    BY <1>7
  <2>3. run = [i \in DOMAIN run |-> run[i]]
    BY <2>1
  <2> HIDE DEF run
  <2>4. Positional(r.ready) = [i \in DOMAIN run |-> run[i]]
    BY <2>2 DEF Positional
  <2> QED
    BY <2>1, <2>3, <2>4, Zenon DEF run
<1>9. QueueOf' = [started |-> TRUE, base |-> IF started THEN base ELSE p, due |-> Front(H, d),
                  held |-> [k \in {j \in Rest(H, d) : j >= Front(H, d)} |-> 1],
                  mark |-> AskedLast', onMissing |-> onMissing,
                  wrote |-> 0, lost |-> Lost + (From(H, d) - Mid(H, d)), errors |-> 0]
  <2>1. /\ nextPos' = Front(H, d) /\ Lost' = Lost + (From(H, d) - Mid(H, d))
        /\ HeldAt(pending)' = {j \in Rest(H, d) : j >= Front(H, d)}
    BY <1>5 DEF Delivered, HeldAt
  <2>2. QueueOf' = [started |-> started', base |-> base', due |-> nextPos',
                    held |-> [k \in HeldAt(pending)' |-> 1], mark |-> AskedLast',
                    onMissing |-> onMissing', wrote |-> 0, lost |-> Lost', errors |-> 0]
    BY DEF QueueOf
  <2>3. started' = TRUE
    BY <1>1 DEF PushAccept
  <2> QED
    BY <1>1, <2>1, <2>2, <2>3, Zenon
<1>10. CASE StaleMark
  <2>1. asked' = asked /\ AskedLast' = AskedLast
    BY <1>10, AskIs
  <2>2. QueueOf' = WithMark(QueueAfter(H, p), AskedLast)
    <3> DEFINE b == IF started THEN base ELSE p
               h == [k \in {j \in Rest(H, d) : j >= Front(H, d)} |-> 1]
               m == IF AsksAt(p) THEN d ELSE AskedLast
               l == Lost + (From(H, d) - Mid(H, d))
    <3>1. QueueAfter(H, p) = Fields(TRUE, b, Front(H, d), h, m, onMissing, l)
      BY Zenon DEF QueueAfter, Fields, d
    <3>2. QueueOf' = Fields(TRUE, b, Front(H, d), h, AskedLast, onMissing, l)
      BY <1>9, <2>1, Zenon DEF Fields
    <3> DEFINE yes == TRUE
    <3>3. /\ QueueAfter(H, p) = Fields(yes, b, Front(H, d), h, m, onMissing, l)
          /\ QueueOf' = Fields(yes, b, Front(H, d), h, AskedLast, onMissing, l)
      BY <3>1, <3>2, Zenon
    <3> HIDE DEF b, h, m, l, yes
    <3>4. WithMark(Fields(yes, b, Front(H, d), h, m, onMissing, l), AskedLast)
            = Fields(yes, b, Front(H, d), h, AskedLast, onMissing, l)
      BY AnotherMark
    <3> QED
      BY <3>3, <3>4, Zenon
  <2> QED
    BY <1>6, <1>7, <1>8, <1>10, <2>1, <2>2 DEF PushedOnPositions, r
<1>11. CASE ~StaleMark
  <2>1. /\ asked' = Requests(IF AsksAt(p) THEN d .. p - 1 ELSE {}, p)
        /\ AskedLast' = IF AsksAt(p) THEN d ELSE AskedLast
    BY <1>11, AskIs DEF d
  <2>2. QueueOf' = QueueAfter(H, p)
    BY <1>9, <2>1, Zenon DEF QueueAfter, d
  <2> QED
    BY <1>6, <1>7, <1>8, <1>11, <2>1, <2>2 DEF PushedOnPositions, r
<1> QED
  BY <1>10, <1>11

\* A packet that push calls late is late on positions as well.
LEMMA LateIs ==
    ASSUME IInv, NEW p \in Nat, Deliverable(p), PushLate(p)
    PROVE  PQ!Late(QueueOf, Packet(p)) /\ UNCHANGED queue
<1>1. UNCHANGED queue
  BY DEF PushLate, history, queue, QueueOf, AskedLast
<1>2. ~ahead(Wire(p), Due(p))
  BY DEF PushLate
<1>3. started
  <2>1. ahead(Wire(p), Wire(p))
    BY AheadNear
  <2> QED
    BY <1>2, <2>1 DEF Due
<1>4. nextPos \in Nat /\ next = Wire(nextPos)
  BY DEF IInv, TypeOK
<1>5. ~(p - nextPos >= 0)
  BY <1>2, <1>3, <1>4, AheadNear DEF Due, Deliverable
<1> QED
  BY <1>1, <1>3, <1>4, <1>5 DEF PQ!Late, QueueOf, Packet

LEMMA PushIs ==
    ASSUME IInv, RequestInv, NEW p \in Nat, push(p)
    PROVE  PushOnPositions(p)
<1>1. CASE PushLate(p)
  BY <1>1, LateIs DEF push, PushOnPositions
<1>2. CASE PushAccept(p)
  BY <1>2, AcceptIs DEF push, PushOnPositions
<1> QED
  BY <1>1, <1>2 DEF push

LEMMA RestartIs ==
    ASSUME reset
    PROVE  Restarted
<1>1. out' = << >> /\ asked' = << >> /\ onMissing' = onMissing
  BY DEF reset
<1>2. HeldAt(pending)' = {}
  BY DEF reset, HeldAt, NoPackets
<1>3. [k \in HeldAt(pending)' |-> 1] = PQ!NoPackets
  <2>1. [k \in {} |-> 1] = [k \in {} |-> 0]
    OBVIOUS
  <2> QED
    BY <1>2, <2>1, Zenon DEF PQ!NoPackets
<1>4. AskedLast' = -1
  BY <1>1 DEF AskedLast
<1>5. QueueOf' = Fields(FALSE, 0, 0, PQ!NoPackets, -1, onMissing, 0)
  <2>1. QueueOf' = Fields(started', base', nextPos', [k \in HeldAt(pending)' |-> 1],
                          AskedLast', onMissing', Lost')
    BY Zenon DEF QueueOf, Fields
  <2>2. started' = FALSE /\ base' = 0 /\ nextPos' = 0 /\ Lost' = 0
    BY DEF reset
  <2> QED
    BY <1>1, <1>3, <1>4, <2>1, <2>2, Zenon
<1>6. PQ!EmptyQueue = Fields(FALSE, 0, 0, PQ!NoPackets, -1, FALSE, 0)
  BY Zenon DEF PQ!EmptyQueue, Fields
<1> DEFINE no == FALSE
<1>7. /\ QueueOf' = Fields(no, 0, 0, PQ!NoPackets, -1, onMissing, 0)
      /\ PQ!EmptyQueue = Fields(no, 0, 0, PQ!NoPackets, -1, no, 0)
  BY <1>5, <1>6, Zenon
<1> HIDE DEF no
<1>8. WithCallback(Fields(no, 0, 0, PQ!NoPackets, -1, no, 0), onMissing)
        = Fields(no, 0, 0, PQ!NoPackets, -1, onMissing, 0)
  BY AnotherCallback
<1> QED
  BY <1>1, <1>7, <1>8, Zenon DEF Restarted

LEMMA InitIs ==
    ASSUME Init
    PROVE  QueueOf = PQ!EmptyQueue /\ out = << >> /\ asked = << >>
<1>1. HeldAt(pending) = {} /\ AskedLast = -1
  BY DEF Init, HeldAt, NoPackets, AskedLast
<1>2. [k \in HeldAt(pending) |-> 1] = PQ!NoPackets
  <2>1. [k \in {} |-> 1] = [k \in {} |-> 0]
    OBVIOUS
  <2> QED
    BY <1>1, <2>1, Zenon DEF PQ!NoPackets
<1> QED
  BY <1>1, <1>2 DEF Init, QueueOf, PQ!EmptyQueue

LEMMA StepIs ==
    ASSUME IInv, RequestInv, [Next]_vars
    PROVE  [\/ \E p \in Positions : push(p) /\ PushOnPositions(p)
            \/ CallbackSet \/ Restarted]_queue
<1>1. ASSUME NEW p \in Positions, push(p)
      PROVE  push(p) /\ PushOnPositions(p)
  <2>1. p \in Nat
    BY PositionsAssumption
  <2> QED
    BY <1>1, <2>1, PushIs
<1>2. CASE OnMissing
  <2>1. /\ onMissing' = TRUE
        /\ UNCHANGED <<started, base, nextPos, pending, asked, Lost, out>>
    BY <1>2 DEF OnMissing, counters, history
  <2>2. HeldAt(pending)' = HeldAt(pending) /\ AskedLast' = AskedLast
    BY <2>1 DEF HeldAt, AskedLast
  <2> DEFINE h == [k \in HeldAt(pending) |-> 1]
  <2>3. QueueOf' = Fields(started, base, nextPos, h, AskedLast, TRUE, Lost)
    BY <2>1, <2>2, Zenon DEF QueueOf, Fields
  <2>4. QueueOf = Fields(started, base, nextPos, h, AskedLast, onMissing, Lost)
    BY Zenon DEF QueueOf, Fields
  <2>5. QueueOf' = WithCallback(QueueOf, TRUE)
    <3> DEFINE yes == TRUE
    <3>1. QueueOf' = Fields(started, base, nextPos, h, AskedLast, yes, Lost)
      BY <2>3, Zenon
    <3> HIDE DEF h, yes
    <3>2. WithCallback(Fields(started, base, nextPos, h, AskedLast, onMissing, Lost), yes)
            = Fields(started, base, nextPos, h, AskedLast, yes, Lost)
      BY AnotherCallback
    <3>3. QueueOf' = WithCallback(QueueOf, yes)
      BY <2>4, <3>1, <3>2, Zenon
    <3> QED
      BY <3>3 DEF yes
  <2> QED
    BY <2>1, <2>5, Zenon DEF CallbackSet
<1>3. CASE reset
  BY <1>3, RestartIs
<1>4. CASE UNCHANGED vars
  BY <1>4 DEF vars, counters, history, queue, QueueOf, AskedLast
<1> QED
  BY <1>1, <1>2, <1>3, <1>4 DEF Next

\* Numbers of 16 bits are enough: whatever arrives, in whatever order, on whatever lap,
\* push hands over the packets, gives up the holes and asks for the packets that the
\* queue on absolute positions does, the resequencer of AudioPath.  They differ only
\* where a mark left from another lap or stream silences a request (StaleMark).
THEOREM WorksOnPositions == Spec => OnPositions
<1>1. Init => QueueOf = PQ!EmptyQueue /\ out = << >> /\ asked = << >>
  BY InitIs
<1>2. IInv /\ RequestInv /\ [Next]_vars
        => [\/ \E p \in Positions : push(p) /\ PushOnPositions(p)
            \/ CallbackSet \/ Restarted]_queue
  BY StepIs
<1> QED
  BY <1>1, <1>2, Invariance, RequestInvariance, PTL DEF Spec, OnPositions
=============================================================================

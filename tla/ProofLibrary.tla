---------------------------- MODULE ProofLibrary ----------------------------
(***************************************************************************)
(* Lemmas the proofs about several components cite: least numbers,         *)
(* induction up to a bound, and functions defined by recursion up to a     *)
(* bound; powers of two and division; sequences of bits.  What is proved   *)
(* by induction is given as a set of numbers, and a loop's body as a       *)
(* function, so that nothing here takes an operator as a parameter.        *)
(***************************************************************************)
EXTENDS Integers, Sequences, FiniteSetTheorems, FunctionTheorems,
        SequenceTheorems, WellFoundedInduction, TLAPS

\* A set of natural numbers that is not empty has a least one.
LEMMA LeastNumber ==
    ASSUME NEW S, S \subseteq Nat, S # {}
    PROVE  \E m \in S : \A k \in S : m <= k
<1>1. \E m \in S : \A k \in S : ~(<<k, m>> \in OpToRel(<, Nat))
  BY NatLessThanWellFounded, WFMin
<1>2. \A k, m \in S : <<k, m>> \in OpToRel(<, Nat) <=> k < m
  BY DEF OpToRel
<1>3. PICK m \in S : \A k \in S : ~(<<k, m>> \in OpToRel(<, Nat))
  BY <1>1
<1>4. ASSUME NEW k \in S PROVE m <= k
  <2>1. ~(k < m)
    BY <1>2, <1>3
  <2>2. k \in Nat /\ m \in Nat
    OBVIOUS
  <2> QED
    BY <2>1, <2>2
<1> QED
  BY <1>4

\* Induction up to n: the set P holds all numbers up to n if it holds 0, and with
\* each number also the next.
LEMMA UpTo ==
    ASSUME NEW n \in Nat, NEW P, 0 \in P, \A i \in 1 .. n : i - 1 \in P => i \in P
    PROVE  \A i \in 0 .. n : i \in P
<1> DEFINE Out == {i \in 0 .. n : i \notin P}
<1>1. SUFFICES ASSUME Out # {} PROVE FALSE
  OBVIOUS
<1>2. Out \subseteq Nat
  OBVIOUS
<1>3. PICK m \in Out : \A k \in Out : m <= k
  BY <1>1, <1>2, LeastNumber
<1>4. m \in 1 .. n /\ m \notin P
  <2>1. m \in 0 .. n /\ m \notin P
    OBVIOUS
  <2>2. m # 0
    BY <2>1
  <2> QED
    BY <2>1, <2>2
<1>5. m - 1 \in 0 .. n /\ ~(m <= m - 1)
  BY <1>4
<1>6. m - 1 \in P
  BY <1>3, <1>5
<1> QED
  BY <1>4, <1>6

\* The same from n down.
LEMMA DownFrom ==
    ASSUME NEW n \in Nat, NEW P, n \in P, \A i \in 1 .. n : i \in P => i - 1 \in P
    PROVE  \A i \in 0 .. n : i \in P
<1> DEFINE Q == {i \in 0 .. n : n - i \in P}
<1>1. 0 \in Q
  OBVIOUS
<1>2. ASSUME NEW i \in 1 .. n, i - 1 \in Q PROVE i \in Q
  <2>1. n - (i - 1) \in P /\ n - (i - 1) \in 1 .. n
    BY <1>2
  <2>2. (n - (i - 1)) - 1 \in P
    BY <2>1
  <2>3. (n - (i - 1)) - 1 = n - i
    OBVIOUS
  <2> QED
    BY <2>2, <2>3
<1>3. \A i \in 0 .. n : i \in Q
  <2> HIDE DEF Q
  <2> QED
    BY <1>1, <1>2, UpTo
<1>4. ASSUME NEW i \in 0 .. n PROVE i \in P
  <2>1. n - i \in 0 .. n /\ n - (n - i) = i
    OBVIOUS
  <2> QED
    BY <1>3, <2>1
<1> QED
  BY <1>4

\* n rounds of a loop: from s on, each round i makes step[i][x] of x.
IsRun(f, n, S, s, step) ==
    /\ f \in [0 .. n -> S] /\ f[0] = s
    /\ \A i \in 1 .. n : f[i] = step[i][f[i - 1]]

LEMMA Rounds ==
    ASSUME NEW n \in Nat, NEW S, NEW s \in S, NEW step \in [1 .. n -> [S -> S]]
    PROVE  \E f : IsRun(f, n, S, s, step)
<1> DEFINE Runs(m, f) == /\ f \in [0 .. m -> S] /\ f[0] = s
                         /\ \A i \in 1 .. m : f[i] = step[i][f[i - 1]]
           P == {m \in 0 .. n : \E f : Runs(m, f)}
<1>1. 0 \in P
  <2>1. Runs(0, [i \in 0 .. 0 |-> s])
    OBVIOUS
  <2> HIDE DEF Runs
  <2> QED
    BY <2>1
<1>2. ASSUME NEW m \in 1 .. n, m - 1 \in P PROVE m \in P
  <2>1. PICK f : Runs(m - 1, f)
    BY <1>2
  <2> DEFINE g == [i \in 0 .. m |-> IF i = m THEN step[m][f[m - 1]] ELSE f[i]]
  <2>2. f[m - 1] \in S /\ step[m] \in [S -> S]
    BY <2>1
  <2>3. \A i \in 0 .. m : i # m => i \in 0 .. m - 1
    OBVIOUS
  <2>4. g \in [0 .. m -> S]
    BY <2>1, <2>2, <2>3
  <2>5. g[0] = s
    BY <2>1
  <2>6. ASSUME NEW i \in 1 .. m PROVE g[i] = step[i][g[i - 1]]
    <3>1. i - 1 \in 0 .. m /\ i - 1 # m /\ g[i - 1] = f[i - 1]
      OBVIOUS
    <3>2. CASE i = m
      BY <3>1, <3>2
    <3>3. CASE i # m
      <4>1. i \in 1 .. m - 1 /\ g[i] = f[i]
        BY <3>3
      <4> QED
        BY <2>1, <3>1, <4>1
    <3> QED
      BY <3>2, <3>3
  <2>7. Runs(m, g)
    BY <2>4, <2>5, <2>6
  <2> HIDE DEF Runs, g
  <2> QED
    BY <2>7
<1>3. n \in P
  <2>1. n \in 0 .. n
    OBVIOUS
  <2> HIDE DEF P
  <2> QED
    BY <1>1, <1>2, <2>1, UpTo
<1> QED
  BY <1>3 DEF IsRun

\* What such a function is made of.
LEMMA RunIs ==
    ASSUME NEW n \in Nat, NEW S, NEW s \in S, NEW step \in [1 .. n -> [S -> S]], NEW f,
           IsRun(f, n, S, s, step)
    PROVE  f = [i \in 0 .. n |-> IF i = 0 THEN s ELSE step[i][f[i - 1]]]
<1>1. f \in [0 .. n -> S] /\ f[0] = s /\ \A i \in 1 .. n : f[i] = step[i][f[i - 1]]
  BY DEF IsRun
<1>2. \A i \in 0 .. n : i = 0 \/ i \in 1 .. n
  OBVIOUS
<1>3. \A i \in 0 .. n : f[i] = IF i = 0 THEN s ELSE step[i][f[i - 1]]
  BY <1>1, <1>2
<1> QED
  BY <1>1, <1>3

\* The same from round n - 1 down to round 0.
IsDownRun(f, n, S, s, step) ==
    /\ f \in [0 .. n -> S] /\ f[n] = s
    /\ \A i \in 0 .. n - 1 : f[i] = step[i][f[i + 1]]

LEMMA DownRounds ==
    ASSUME NEW n \in Nat, NEW S, NEW s \in S, NEW step \in [0 .. n - 1 -> [S -> S]]
    PROVE  \E f : IsDownRun(f, n, S, s, step)
<1> DEFINE up == [i \in 1 .. n |-> step[n - i]]
<1>1. up \in [1 .. n -> [S -> S]]
  <2>1. \A i \in 1 .. n : n - i \in 0 .. n - 1
    OBVIOUS
  <2> QED
    BY <2>1
<1>2. PICK g : IsRun(g, n, S, s, up)
  <2> HIDE DEF up
  <2> QED
    BY <1>1, Rounds
<1>3. g \in [0 .. n -> S] /\ g[0] = s /\ \A i \in 1 .. n : g[i] = up[i][g[i - 1]]
  BY <1>2 DEF IsRun
<1> DEFINE f == [i \in 0 .. n |-> g[n - i]]
<1>4. f \in [0 .. n -> S] /\ f[n] = s
  <2>1. \A i \in 0 .. n : n - i \in 0 .. n
    OBVIOUS
  <2>2. n \in 0 .. n /\ n - n = 0
    OBVIOUS
  <2> QED
    BY <1>3, <2>1, <2>2
<1>5. ASSUME NEW i \in 0 .. n - 1 PROVE f[i] = step[i][f[i + 1]]
  <2>1. /\ i \in 0 .. n /\ i + 1 \in 0 .. n /\ n - i \in 1 .. n
        /\ n - (n - i) = i /\ (n - i) - 1 = n - (i + 1)
    OBVIOUS
  <2>2. g[n - i] = step[i][g[(n - i) - 1]]
    BY <1>3, <2>1
  <2>3. f[i] = g[n - i] /\ f[i + 1] = g[n - (i + 1)]
    BY <2>1
  <2> QED
    BY <2>1, <2>2, <2>3
<1>6. IsDownRun(f, n, S, s, step)
  <2> HIDE DEF f
  <2> QED
    BY <1>4, <1>5 DEF IsDownRun
<1> QED
  BY <1>6

LEMMA DownRunIs ==
    ASSUME NEW n \in Nat, NEW S, NEW s \in S, NEW step \in [0 .. n - 1 -> [S -> S]], NEW f,
           IsDownRun(f, n, S, s, step)
    PROVE  f = [i \in 0 .. n |-> IF i = n THEN s ELSE step[i][f[i + 1]]]
<1>1. f \in [0 .. n -> S] /\ f[n] = s /\ \A i \in 0 .. n - 1 : f[i] = step[i][f[i + 1]]
  BY DEF IsDownRun
<1>2. \A i \in 0 .. n : i = n \/ i \in 0 .. n - 1
  OBVIOUS
<1>3. \A i \in 0 .. n : f[i] = IF i = n THEN s ELSE step[i][f[i + 1]]
  <2> SUFFICES ASSUME NEW i \in 0 .. n PROVE f[i] = IF i = n THEN s ELSE step[i][f[i + 1]]
    OBVIOUS
  <2>1. CASE i = n
    BY <1>1, <2>1
  <2>2. CASE i # n
    BY <1>1, <1>2, <2>2
  <2> QED
    BY <2>1, <2>2
<1> QED
  BY <1>1, <1>3

-----------------------------------------------------------------------------
(* Powers of two, from the number of subsets of a set.                     *)

LEMMA SubsetsOf ==
    ASSUME NEW n \in Nat
    PROVE  IsFiniteSet(SUBSET (1 .. n)) /\ Cardinality(SUBSET (1 .. n)) = 2^n
<1>1. IsFiniteSet(1 .. n) /\ Cardinality(1 .. n) = n
  BY FS_Interval
<1> QED
  BY <1>1, FS_SUBSET, Zenon

LEMMA PowerOfTwo == \A n \in Nat : 2^n \in Nat \ {0}
<1> SUFFICES ASSUME NEW n \in Nat PROVE 2^n \in Nat \ {0}
  OBVIOUS
<1>1. IsFiniteSet(SUBSET (1 .. n)) /\ Cardinality(SUBSET (1 .. n)) = 2^n
  BY SubsetsOf
<1>2. SUBSET (1 .. n) # {}
  OBVIOUS
<1>3. Cardinality(SUBSET (1 .. n)) \in Nat
  BY <1>1, FS_CardinalityType, Zenon
<1>4. Cardinality(SUBSET (1 .. n)) # 0
  BY <1>1, <1>2, FS_EmptySet, Zenon
<1> QED
  BY <1>1, <1>3, <1>4

\* Half of the subsets of 1 .. n + 1 have n + 1.
LEMMA NextPower == \A n \in Nat : 2^(n + 1) = 2 * 2^n
<1> SUFFICES ASSUME NEW n \in Nat PROVE 2^(n + 1) = 2 * 2^n
  OBVIOUS
<1> DEFINE S == SUBSET (1 .. n)
           T == {A \in SUBSET (1 .. n + 1) : n + 1 \in A}
           f == [A \in S |-> A \cup {n + 1}]
<1>1. n + 1 \notin 1 .. n /\ 1 .. n + 1 = (1 .. n) \cup {n + 1}
  OBVIOUS
<1>2. f \in Bijection(S, T)
  <2>1. \A A \in S : f[A] \in T /\ f[A] \ {n + 1} = A
    BY <1>1
  <2>2. \A B \in T : B \ {n + 1} \in S /\ f[B \ {n + 1}] = B
    BY <1>1
  <2>3. f \in [S -> T]
    BY <2>1
  <2> HIDE DEF f, S, T
  <2>4. \A A, B \in S : f[A] = f[B] => A = B
    BY <2>1, Zenon
  <2>5. \A B \in T : \E A \in S : f[A] = B
    BY <2>2, Zenon
  <2> QED
    BY <2>3, <2>4, <2>5 DEF Bijection, Injection, Surjection, IsInjective
<1>3. IsFiniteSet(S) /\ Cardinality(S) = 2^n
  BY SubsetsOf
<1>4. IsFiniteSet(T) /\ Cardinality(T) = 2^n
  <2>1. ExistsBijection(S, T)
    <3> HIDE DEF f, S, T
    <3> QED
      BY <1>2, Zenon DEF ExistsBijection
  <2> HIDE DEF f, S, T
  <2> QED
    BY <1>3, <2>1, FS_Bijection, Zenon
<1>5. SUBSET (1 .. n + 1) = S \cup T /\ S \cap T = {}
  BY <1>1
<1>6. Cardinality(S \cup T) = Cardinality(S) + Cardinality(T) - Cardinality(S \cap T)
  <2> HIDE DEF S, T
  <2> QED
    BY <1>3, <1>4, FS_Union, Zenon
<1>7. Cardinality(SUBSET (1 .. n + 1)) = 2^(n + 1)
  <2>1. n + 1 \in Nat
    OBVIOUS
  <2> QED
    BY <2>1, SubsetsOf, Zenon
<1>8. Cardinality(S \cap T) = 0
  BY <1>5, FS_EmptySet, Zenon
<1>9. 2^(n + 1) = 2^n + 2^n - 0
  <2> HIDE DEF S, T
  <2> QED
    BY <1>3, <1>4, <1>5, <1>6, <1>7, <1>8, Zenon
<1> QED
  <2>1. 2^n \in Nat
    BY PowerOfTwo
  <2> QED
    BY <1>9, <2>1

-----------------------------------------------------------------------------
(* Division                                                                *)

LEMMA Division ==
    ASSUME NEW a \in Int, NEW d \in Nat \ {0}
    PROVE  a = d * (a \div d) + (a % d) /\ a % d \in 0 .. d - 1 /\ a \div d \in Int
OBVIOUS

\* A multiple of the divisor goes into the quotient.
LEMMA Multiple ==
    ASSUME NEW a \in Int, NEW d \in Nat \ {0}, NEW k \in Int
    PROVE  (a + d * k) % d = a % d /\ (a + d * k) \div d = a \div d + k
<1>1. PICK q \in Int, r \in 0 .. d - 1 : a = d * q + r /\ a % d = r /\ a \div d = q
  BY Division
<1>2. a + d * k = d * (q + k) + r /\ q + k \in Int /\ a + d * k \in Int
  BY <1>1
<1>3. (d * (q + k) + r) % d = r /\ (d * (q + k) + r) \div d = q + k
  BY <1>2
<1> QED
  BY <1>1, <1>2, <1>3

LEMMA DivisionIs ==
    ASSUME NEW d \in Nat \ {0}, NEW q \in Int, NEW r \in 0 .. d - 1
    PROVE  (d * q + r) % d = r /\ (d * q + r) \div d = q
OBVIOUS

LEMMA DivisionTwice ==
    ASSUME NEW z \in Int, NEW d \in Nat \ {0}, NEW e \in Nat \ {0}
    PROVE  z \div (d * e) = (z \div d) \div e
<1> DEFINE q == z \div d
           r == z % d
           u == q \div e
           v == q % e
<1>1. z = d * q + r /\ r \in 0 .. d - 1 /\ q \in Int
  BY Division
<1> HIDE DEF q, r
<1>2. q = e * u + v /\ v \in 0 .. e - 1 /\ u \in Int
  BY <1>1, Division
<1> HIDE DEF u, v
<1> DEFINE D == d * e
           w == d * v
           R == w + r
<1>3. D \in Nat \ {0} /\ w \in Nat
  BY <1>2
<1>4. w + d <= D
  <2> DEFINE y == e - 1 - v
  <2>1. y \in Nat /\ e = v + 1 + y
    BY <1>2
  <2> HIDE DEF y
  <2>2. d * (v + 1 + y) = d * v + d + d * y /\ d * y \in Nat
    BY <1>2, <2>1
  <2> QED
    BY <1>2, <2>1, <2>2
<1>5. z = D * u + R
  <2>1. d * (e * u + v) = (d * e) * u + d * v
    BY <1>1, <1>2
  <2> QED
    BY <1>1, <1>2, <2>1
<1> HIDE DEF D, w
<1>6. R \in 0 .. D - 1
  BY <1>1, <1>3, <1>4
<1> HIDE DEF R
<1>7. (D * u + R) \div D = u
  BY <1>2, <1>3, <1>6, DivisionIs
<1> QED
  BY <1>5, <1>7 DEF D, u, q

LEMMA PowerSum == \A n \in Nat : \A m \in Nat : 2^(m + n) = 2^m * 2^n
<1> SUFFICES ASSUME NEW n \in Nat, NEW m \in Nat PROVE 2^(m + n) = 2^m * 2^n
  OBVIOUS
<1> DEFINE P == {i \in 0 .. n : 2^(m + i) = 2^m * 2^i}
<1>1. 0 \in P
  <2> DEFINE e == 2^m
  <2>1. e \in Nat /\ m + 0 = m /\ 2^0 = 1
    BY PowerOfTwo
  <2>2. 2^(m + 0) = e
    BY <2>1, Zenon
  <2> HIDE DEF e
  <2>3. e * 1 = e
    BY <2>1
  <2> QED
    BY <2>1, <2>2, <2>3 DEF e
<1>2. ASSUME NEW i \in 1 .. n, i - 1 \in P PROVE i \in P
  <2> DEFINE j == i - 1
             e == 2^m
             f == 2^j
  <2>1. j \in Nat /\ i = j + 1 /\ m + j \in Nat /\ m + i = (m + j) + 1
    OBVIOUS
  <2>2. 2^(m + j) = e * f
    BY <1>2
  <2> HIDE DEF j
  <2>3. 2^((m + j) + 1) = 2 * 2^(m + j) /\ 2^(j + 1) = 2 * f
    BY <2>1, NextPower
  <2>4. e \in Nat /\ f \in Nat
    BY <2>1, PowerOfTwo
  <2> HIDE DEF e, f
  <2>5. 2 * (e * f) = e * (2 * f)
    BY <2>4
  <2>6. 2^(m + i) = e * 2^i
    BY <2>1, <2>2, <2>3, <2>5
  <2> QED
    BY <2>6 DEF e
<1>3. \A i \in 0 .. n : i \in P
  <2> HIDE DEF P
  <2> QED
    BY <1>1, <1>2, UpTo
<1> QED
  BY <1>3

-----------------------------------------------------------------------------
(* Sequences of bits.                                                      *)

Bits == {0, 1}

\* The bits s stand in buf from position p on, as far as buf goes.
Stands(s, buf, p) == \A i \in 1 .. Len(s) : p + i <= Len(buf) => buf[p + i] = s[i]

LEMMA ConcatIs ==
    ASSUME NEW s \in Seq(Bits), NEW t \in Seq(Bits)
    PROVE  /\ s \o t \in Seq(Bits) /\ Len(s \o t) = Len(s) + Len(t)
           /\ Len(s) \in Nat /\ Len(t) \in Nat
<1> HIDE DEF Bits
<1> QED
  OBVIOUS

LEMMA StandsParts ==
    ASSUME NEW s \in Seq(Bits), NEW t \in Seq(Bits), NEW buf \in Seq(Bits), NEW p \in Nat,
           Stands(s \o t, buf, p)
    PROVE  Stands(s, buf, p) /\ Stands(t, buf, p + Len(s))
<1> HIDE DEF Bits
<1> DEFINE m == Len(s)
           n == Len(t)
<1>1. m \in Nat /\ n \in Nat /\ Len(s \o t) = m + n
  OBVIOUS
<1>2. \A i \in 1 .. m : (s \o t)[i] = s[i]
  OBVIOUS
<1>3. \A i \in 1 .. n : (s \o t)[m + i] = t[i]
  OBVIOUS
<1> HIDE DEF m, n
<1>4. \A i \in 1 .. m + n : p + i <= Len(buf) => buf[p + i] = (s \o t)[i]
  BY <1>1 DEF Stands
<1>5. ASSUME NEW i \in 1 .. m, p + i <= Len(buf) PROVE buf[p + i] = s[i]
  <2>1. i \in 1 .. m + n
    BY <1>1
  <2> QED
    BY <1>2, <1>4, <1>5, <2>1
<1>6. ASSUME NEW i \in 1 .. n, (p + m) + i <= Len(buf) PROVE buf[(p + m) + i] = t[i]
  <2>1. m + i \in 1 .. m + n /\ p + (m + i) = (p + m) + i
    BY <1>1
  <2> QED
    BY <1>3, <1>4, <1>6, <2>1
<1> QED
  BY <1>5, <1>6 DEF Stands, m, n

\* x is s and then t, s of m bits.
IsPair(x, s, m, t) == s \in Seq(Bits) /\ t \in Seq(Bits) /\ Len(s) = m /\ x = s \o t

LEMMA PairIs ==
    ASSUME NEW x, NEW s, NEW m, NEW t, IsPair(x, s, m, t)
    PROVE  x \in Seq(Bits) /\ Len(x) = m + Len(t) /\ m \in Nat /\ Len(t) \in Nat
<1>1. s \in Seq(Bits) /\ t \in Seq(Bits) /\ Len(s) = m /\ x = s \o t
  BY DEF IsPair
<1>2. s \o t \in Seq(Bits) /\ Len(s \o t) = Len(s) + Len(t) /\ Len(s) \in Nat /\ Len(t) \in Nat
  BY <1>1, ConcatIs
<1> QED
  BY <1>1, <1>2

LEMMA PairStands ==
    ASSUME NEW x, NEW s, NEW m, NEW t, IsPair(x, s, m, t),
           NEW buf \in Seq(Bits), NEW p \in Nat, Stands(x, buf, p)
    PROVE  Stands(s, buf, p) /\ Stands(t, buf, p + m)
<1>1. s \in Seq(Bits) /\ t \in Seq(Bits) /\ Len(s) = m /\ x = s \o t
  BY DEF IsPair
<1>2. Stands(s \o t, buf, p)
  BY <1>1
<1>3. Stands(s, buf, p) /\ Stands(t, buf, p + Len(s))
  BY <1>1, <1>2, StandsParts
<1> QED
  BY <1>1, <1>3

-----------------------------------------------------------------------------
(* Sequences of bits joined.                                               *)

\* x is F[1], F[2], ... F[n], one after the other, as g puts them together.
AreJoined(g, F, n) ==
    /\ g \in [0 .. n -> Seq(Bits)] /\ g[0] = <<>>
    /\ \A i \in 1 .. n : g[i] = g[i - 1] \o F[i]
IsJoined(x, F, n) == \E g : AreJoined(g, F, n) /\ x = g[n]

LEMMA JoinedOnce ==
    ASSUME NEW n \in Nat, NEW F \in [1 .. n -> Seq(Bits)]
    PROVE  \E g : AreJoined(g, F, n)
<1> DEFINE step == [i \in 1 .. n |-> [s \in Seq(Bits) |-> s \o F[i]]]
<1>1. step \in [1 .. n -> [Seq(Bits) -> Seq(Bits)]]
  <2>1. \A i \in 1 .. n : \A s \in Seq(Bits) : s \o F[i] \in Seq(Bits)
    BY ConcatIs
  <2> QED
    BY <2>1
<1>2. <<>> \in Seq(Bits)
  OBVIOUS
<1>3. PICK g : IsRun(g, n, Seq(Bits), <<>>, step)
  <2> HIDE DEF step
  <2> QED
    BY <1>1, <1>2, Rounds
<1>4. /\ g \in [0 .. n -> Seq(Bits)] /\ g[0] = <<>>
      /\ \A i \in 1 .. n : g[i] = step[i][g[i - 1]]
  <2> HIDE DEF step
  <2> QED
    BY <1>3 DEF IsRun
<1>5. \A i \in 1 .. n : i - 1 \in 0 .. n
  OBVIOUS
<1>6. \A i \in 1 .. n : step[i][g[i - 1]] = g[i - 1] \o F[i]
  BY <1>4, <1>5
<1> HIDE DEF step
<1> QED
  BY <1>4, <1>6 DEF AreJoined

LEMMA JoinedUnique ==
    ASSUME NEW n \in Nat, NEW F \in [1 .. n -> Seq(Bits)], NEW u,
           u = [i \in 0 .. n |-> IF i = 0 THEN <<>> ELSE u[i - 1] \o F[i]]
    PROVE  IsJoined(u[n], F, n)
<1>1. u[0] = <<>> /\ \A i \in 1 .. n : u[i] = u[i - 1] \o F[i]
  <2>1. \A i \in 0 .. n : u[i] = IF i = 0 THEN <<>> ELSE u[i - 1] \o F[i]
    OBVIOUS
  <2>2. 0 \in 0 .. n /\ \A i \in 1 .. n : i \in 0 .. n /\ i # 0
    OBVIOUS
  <2> QED
    BY <2>1, <2>2
<1>2. \A i \in 0 .. n : u[i] \in Seq(Bits)
  <2> DEFINE P == {i \in 0 .. n : u[i] \in Seq(Bits)}
  <2>1. 0 \in P
    BY <1>1
  <2>2. ASSUME NEW i \in 1 .. n, i - 1 \in P PROVE i \in P
    <3>1. u[i - 1] \in Seq(Bits) /\ F[i] \in Seq(Bits) /\ u[i] = u[i - 1] \o F[i]
      BY <1>1, <2>2
    <3>2. u[i] \in Seq(Bits)
      BY <3>1, ConcatIs
    <3> QED
      BY <3>2
  <2>3. \A i \in 0 .. n : i \in P
    <3> HIDE DEF P
    <3> QED
      BY <2>1, <2>2, UpTo
  <2> QED
    BY <2>3
<1>3. u \in [0 .. n -> Seq(Bits)]
  BY <1>2
<1>4. AreJoined(u, F, n)
  BY <1>1, <1>3, Zenon DEF AreJoined
<1> QED
  BY <1>4 DEF IsJoined

\* A recursion that joins F is known by what it joins.
LEMMA JoinedRecursion ==
    ASSUME NEW n \in Nat, NEW F \in [1 .. n -> Seq(Bits)], NEW g, AreJoined(g, F, n)
    PROVE  g = [i \in 0 .. n |-> IF i = 0 THEN <<>> ELSE g[i - 1] \o F[i]]
<1>1. g \in [0 .. n -> Seq(Bits)] /\ g[0] = <<>> /\ \A i \in 1 .. n : g[i] = g[i - 1] \o F[i]
  BY DEF AreJoined
<1>2. \A i \in 0 .. n : g[i] = IF i = 0 THEN <<>> ELSE g[i - 1] \o F[i]
  <2>1. \A i \in 0 .. n : i = 0 \/ i \in 1 .. n
    OBVIOUS
  <2> QED
    BY <1>1, <2>1
<1> QED
  BY <1>1, <1>2

LEMMA JoinedOne ==
    ASSUME NEW x, NEW F, IsJoined(x, F, 1), F[1] \in Seq(Bits)
    PROVE  x = F[1]
<1>1. PICK g : AreJoined(g, F, 1) /\ x = g[1]
  BY DEF IsJoined
<1>2. g[0] = <<>> /\ \A i \in 1 .. 1 : g[i] = g[i - 1] \o F[i]
  BY <1>1 DEF AreJoined
<1>3. 1 \in 1 .. 1 /\ 1 - 1 = 0
  OBVIOUS
<1>4. g[1] = g[1 - 1] \o F[1]
  BY <1>2, <1>3, Zenon
<1>5. g[1] = <<>> \o F[1]
  BY <1>2, <1>3, <1>4, Zenon
<1> QED
  BY <1>1, <1>5

LEMMA JoinedTwo ==
    ASSUME NEW x, NEW F, IsJoined(x, F, 2), F[1] \in Seq(Bits), F[2] \in Seq(Bits)
    PROVE  x = F[1] \o F[2]
<1>1. PICK g : AreJoined(g, F, 2) /\ x = g[2]
  BY DEF IsJoined
<1>2. g[0] = <<>> /\ \A i \in 1 .. 2 : g[i] = g[i - 1] \o F[i]
  BY <1>1 DEF AreJoined
<1>3. 1 \in 1 .. 2 /\ 2 \in 1 .. 2 /\ 1 - 1 = 0 /\ 2 - 1 = 1
  OBVIOUS
<1>4. g[1] = g[1 - 1] \o F[1] /\ g[2] = g[2 - 1] \o F[2]
  BY <1>2, <1>3, Zenon
<1>5. g[1] = <<>> \o F[1] /\ g[2] = g[1] \o F[2]
  BY <1>2, <1>3, <1>4, Zenon
<1>6. g[1] = F[1]
  BY <1>5
<1> QED
  BY <1>1, <1>5, <1>6

\* When every part has the same length, part i stands (i - 1) of them further.
PartsStand(F, n, len, buf, p) == \A i \in 1 .. n : Stands(F[i], buf, p + len * (i - 1))

LEMMA JoinedIs ==
    ASSUME NEW n \in Nat, NEW F \in [1 .. n -> Seq(Bits)], NEW x, IsJoined(x, F, n),
           NEW len \in Nat, \A i \in 1 .. n : Len(F[i]) = len
    PROVE  /\ x \in Seq(Bits) /\ Len(x) = len * n
           /\ \A buf \in Seq(Bits) : \A p \in Nat :
                 Stands(x, buf, p) => PartsStand(F, n, len, buf, p)
<1>1. PICK g : AreJoined(g, F, n) /\ x = g[n]
  BY DEF IsJoined
<1>2. /\ \A i \in 0 .. n : g[i] \in Seq(Bits)
      /\ g[0] = <<>> /\ \A i \in 1 .. n : g[i] = g[i - 1] \o F[i]
  BY <1>1 DEF AreJoined
<1>3. \A i \in 0 .. n : Len(g[i]) = len * i
  <2> DEFINE P == {i \in 0 .. n : Len(g[i]) = len * i}
  <2>1. 0 \in P
    BY <1>2
  <2>2. ASSUME NEW i \in 1 .. n, i - 1 \in P PROVE i \in P
    <3>1. g[i - 1] \in Seq(Bits) /\ F[i] \in Seq(Bits) /\ g[i] = g[i - 1] \o F[i]
      <4>1. i - 1 \in 0 .. n
        OBVIOUS
      <4> QED
        BY <1>2, <4>1
    <3>2. Len(g[i]) = Len(g[i - 1]) + Len(F[i])
      BY <3>1, ConcatIs
    <3>3. Len(g[i]) = len * (i - 1) + len
      BY <2>2, <3>2
    <3>4. len * (i - 1) + len = len * i
      OBVIOUS
    <3> QED
      BY <3>3, <3>4
  <2>3. \A i \in 0 .. n : i \in P
    <3> HIDE DEF P
    <3> QED
      BY <2>1, <2>2, UpTo
  <2> QED
    BY <2>3
<1>4. ASSUME NEW buf \in Seq(Bits), NEW p \in Nat, Stands(x, buf, p)
      PROVE  PartsStand(F, n, len, buf, p)
  <2> DEFINE P == {i \in 0 .. n : Stands(g[i], buf, p)}
  <2>1. n \in P
    BY <1>1, <1>4
  <2>2. ASSUME NEW i \in 1 .. n, Stands(g[i], buf, p)
        PROVE  Stands(g[i - 1], buf, p) /\ Stands(F[i], buf, p + Len(g[i - 1]))
    <3>1. g[i - 1] \in Seq(Bits) /\ F[i] \in Seq(Bits) /\ Stands(g[i - 1] \o F[i], buf, p)
      <4>1. i - 1 \in 0 .. n
        OBVIOUS
      <4> QED
        BY <1>2, <2>2, <4>1
    <3> QED
      BY <3>1, StandsParts
  <2>3. ASSUME NEW i \in 1 .. n, i \in P PROVE i - 1 \in P
    BY <2>2, <2>3
  <2>4. \A i \in 0 .. n : i \in P
    <3> HIDE DEF P
    <3> QED
      BY <2>1, <2>3, DownFrom
  <2>5. ASSUME NEW i \in 1 .. n PROVE Stands(F[i], buf, p + len * (i - 1))
    <3>1. Stands(g[i], buf, p)
      BY <2>4
    <3>2. Stands(F[i], buf, p + Len(g[i - 1]))
      BY <2>2, <3>1
    <3>3. Len(g[i - 1]) = len * (i - 1)
      BY <1>3
    <3> QED
      BY <3>2, <3>3
  <2> QED
    BY <2>5 DEF PartsStand
<1>5. x \in Seq(Bits) /\ Len(x) = len * n
  BY <1>1, <1>2, <1>3
<1> QED
  BY <1>4, <1>5
=============================================================================

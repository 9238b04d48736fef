-------------------------- MODULE AudioPathProofs ---------------------------
(***************************************************************************)
(* Theorems about AudioPath, for every number of streams, every length of  *)
(* theirs, every window and every size of the ring.                        *)
(***************************************************************************)
EXTENDS AudioPath, FiniteSetTheorems, ProofLibrary, TLAPS

-----------------------------------------------------------------------------
(* Sets of positions.                                                      *)

LEMMA MinLeast ==
    ASSUME NEW S, S \subseteq Nat, S # {}
    PROVE  Min(S) \in S /\ \A k \in S : Min(S) <= k
BY LeastNumber DEF Min

\* drain stops at the first position that is not held.
LEMMA RunEnds ==
    ASSUME NEW held, held \subseteq Nat, IsFiniteSet(held), NEW k \in Nat
    PROVE  LET e == EndOfRun(held, k) IN
           /\ e \in Nat /\ k <= e /\ e \notin held
           /\ \A i \in Nat : k <= i /\ i < e => i \in held
<1> DEFINE n == Cardinality(held)
           free == {e \in k .. k + n : e \notin held}
<1>1. n \in Nat
  BY FS_CardinalityType
<1> HIDE DEF n
<1>2. free # {}
  <2>1. SUFFICES ASSUME free = {} PROVE FALSE
    OBVIOUS
  <2>2. (k .. k + n) \in SUBSET held
    BY <2>1
  <2>3. IsFiniteSet(k .. k + n) /\ Cardinality(k .. k + n) = n + 1
    <3>1. k \in Int /\ k + n \in Int /\ ~(k > k + n) /\ ((k + n) - k) + 1 = n + 1
      BY <1>1
    <3> QED
      BY <3>1, FS_Interval
  <2>4. Cardinality(k .. k + n) <= Cardinality(held)
    BY <2>2, FS_Subset
  <2> QED
    BY <1>1, <2>3, <2>4 DEF n
<1>3. free \subseteq Nat
  BY <1>1
<1>4. PICK e \in free : \A i \in free : e <= i
  BY <1>2, <1>3, LeastNumber
<1>5. e \in k .. k + n /\ e \notin held /\ \A i \in k .. e - 1 : i \in held
  <2>1. ASSUME NEW i \in k .. e - 1 PROVE i \in held
    <3>1. i \in k .. k + n /\ ~(e <= i)
      BY <1>1, <1>4
    <3> QED
      BY <1>4, <3>1
  <2> QED
    BY <1>4, <2>1
<1>6. /\ EndOfRun(held, k) \in k .. k + n
      /\ EndOfRun(held, k) \notin held /\ \A i \in k .. EndOfRun(held, k) - 1 : i \in held
  BY <1>5 DEF EndOfRun, n
<1> DEFINE r == EndOfRun(held, k)
<1>7. r \in Nat /\ k <= r /\ \A i \in Nat : k <= i /\ i < r => i \in k .. r - 1
  BY <1>1, <1>6
<1> QED
  BY <1>6, <1>7

\* Between two positions: the sequence of those from a up to b.
LEMMA StretchIs ==
    ASSUME NEW a \in Nat, NEW b \in Nat, a <= b
    PROVE  /\ Stretch(a, b) \in Seq(Nat) /\ Len(Stretch(a, b)) = b - a
           /\ \A i \in 1 .. b - a : /\ Stretch(a, b)[i] = (a + i) - 1
                                    /\ a <= Stretch(a, b)[i] /\ Stretch(a, b)[i] < b
<1>1. b - a \in Nat
  OBVIOUS
<1>2. Stretch(a, b) \in [1 .. b - a -> Nat]
  BY DEF Stretch
<1>3. \A i \in 1 .. b - a : Stretch(a, b)[i] = (a + i) - 1
  BY DEF Stretch
<1>4. Len(Stretch(a, b)) = b - a /\ Stretch(a, b) \in Seq(Nat)
  BY <1>1, <1>2
<1>5. \A i \in 1 .. b - a : a <= (a + i) - 1 /\ (a + i) - 1 < b
  OBVIOUS
<1> QED
  BY <1>3, <1>4, <1>5

\* The same with a second one behind it.
LEMMA TwoStretches ==
    ASSUME NEW a \in Nat, NEW b \in Nat, NEW c \in Nat, NEW d \in Nat,
           a <= b, b <= c, c <= d
    PROVE  LET t == Stretch(a, b) \o Stretch(c, d) IN
           /\ t \in Seq(Nat) /\ Len(t) = (b - a) + (d - c)
           /\ \A i \in 1 .. Len(t) : a <= t[i] /\ t[i] < d
           /\ \A i \in 1 .. Len(t) : t[i] < b \/ c <= t[i]
           /\ \A i, j \in 1 .. Len(t) : i < j => t[i] < t[j]
<1> DEFINE s == Stretch(a, b)
           r == Stretch(c, d)
           t == s \o r
           l == b - a
           m == d - c
<1>1. /\ s \in Seq(Nat) /\ Len(s) = l
      /\ \A i \in 1 .. l : s[i] = (a + i) - 1 /\ a <= s[i] /\ s[i] < b
  BY StretchIs
<1>2. /\ r \in Seq(Nat) /\ Len(r) = m
      /\ \A i \in 1 .. m : r[i] = (c + i) - 1 /\ c <= r[i] /\ r[i] < d
  BY StretchIs
<1>3. l \in Nat /\ m \in Nat
  OBVIOUS
<1> HIDE DEF s, r
<1>4. /\ t \in Seq(Nat) /\ Len(t) = l + m
      /\ \A i \in 1 .. l + m : t[i] = IF i <= l THEN s[i] ELSE r[i - l]
  <2>1. s \in Seq(Nat) /\ r \in Seq(Nat)
    BY <1>1, <1>2
  <2>2. /\ t \in Seq(Nat) /\ Len(t) = Len(s) + Len(r)
        /\ \A i \in 1 .. Len(s) + Len(r) :
              t[i] = IF i <= Len(s) THEN s[i] ELSE r[i - Len(s)]
    BY <2>1
  <2> QED
    BY <1>1, <1>2, <2>2
<1> HIDE DEF t
<1>5. \A i \in 1 .. l : t[i] = (a + i) - 1 /\ a <= t[i] /\ t[i] < b
  BY <1>1, <1>3, <1>4
<1>6. \A i \in l + 1 .. l + m : t[i] = (c + (i - l)) - 1 /\ c <= t[i] /\ t[i] < d
  <2> SUFFICES ASSUME NEW i \in l + 1 .. l + m
               PROVE  t[i] = (c + (i - l)) - 1 /\ c <= t[i] /\ t[i] < d
    OBVIOUS
  <2>1. i \in 1 .. l + m /\ ~(i <= l) /\ i - l \in 1 .. m
    BY <1>3
  <2>2. t[i] = r[i - l]
    BY <1>4, <2>1
  <2> QED
    BY <1>2, <2>1, <2>2
<1>7. \A i \in 1 .. l + m : i \in 1 .. l \/ i \in l + 1 .. l + m
  BY <1>3
<1>8. \A i \in 1 .. l + m : t[i] \in Nat
  BY <1>4
<1>9. \A i \in 1 .. l + m : a <= t[i] /\ t[i] < d /\ (t[i] < b \/ c <= t[i])
  BY <1>5, <1>6, <1>7, <1>8
<1>10. ASSUME NEW i \in 1 .. l + m, NEW j \in 1 .. l + m, i < j
       PROVE  t[i] < t[j]
  <2>1. CASE i \in 1 .. l /\ j \in 1 .. l
    BY <1>5, <1>10, <2>1
  <2>2. CASE i \in 1 .. l /\ j \in l + 1 .. l + m
    BY <1>5, <1>6, <1>8, <2>2
  <2>3. CASE i \in l + 1 .. l + m /\ j \in l + 1 .. l + m
    BY <1>3, <1>6, <1>10, <2>3
  <2>4. CASE i \in l + 1 .. l + m /\ j \in 1 .. l
    BY <1>3, <1>10, <2>4
  <2> QED
    BY <1>7, <2>1, <2>2, <2>3, <2>4
<1> QED
  BY <1>4, <1>9, <1>10 DEF t, s, r
-----------------------------------------------------------------------------
(* One call of push.                                                       *)

Packets == [of : Streams, no : Nat]

Queues == [started : BOOLEAN, base : Nat, due : Nat,
           held : UNION {[K -> Streams] : K \in SUBSET Nat},
           mark : Int, onMissing : BOOLEAN, wrote : Nat, lost : Nat, errors : Nat]

\* A resequencer between two calls: at most Window packets are held, all of them
\* past the position that is due; one that saw no packet is empty.
QueueInv(q) ==
    /\ q \in Queues
    /\ IsFiniteSet(DOMAIN q.held) /\ Cardinality(DOMAIN q.held) <= Window
    /\ \A k \in DOMAIN q.held : k > q.due
    /\ ~q.started => /\ q.due = 0 /\ q.base = 0 /\ DOMAIN q.held = {}
                     /\ q.wrote = 0 /\ q.lost = 0 /\ q.errors = 0

LEMMA QueueFields ==
    ASSUME NEW q \in Queues
    PROVE  /\ q.started \in BOOLEAN /\ q.onMissing \in BOOLEAN
           /\ q.base \in Nat /\ q.due \in Nat /\ q.mark \in Int
           /\ q.wrote \in Nat /\ q.lost \in Nat /\ q.errors \in Nat
           /\ DOMAIN q.held \subseteq Nat
           /\ \A k \in DOMAIN q.held : q.held[k] \in Streams
<1> DEFINE Held == UNION {[K -> Streams] : K \in SUBSET Nat}
<1>1. /\ q.started \in BOOLEAN /\ q.onMissing \in BOOLEAN
      /\ q.base \in Nat /\ q.due \in Nat /\ q.mark \in Int
      /\ q.wrote \in Nat /\ q.lost \in Nat /\ q.errors \in Nat
      /\ q.held \in Held
  BY DEF Queues
<1>2. PICK K \in SUBSET Nat : q.held \in [K -> Streams]
  BY <1>1
<1> HIDE DEF Held
<1> QED
  BY <1>1, <1>2

\* The positions at work in one call that finds the packets H held: up to Mid they
\* are drained; they go on at From, past a hole if the window is exceeded, up to
\* EndAt, and those Left stay.
Mid(H, due)   == EndOfRun(H, due)
Rest(H, due)  == {k \in H : k >= Mid(H, due)}
From(H, due)  == IF Cardinality(Rest(H, due)) <= Window THEN Mid(H, due) ELSE Min(Rest(H, due))
EndAt(H, due) == EndOfRun(Rest(H, due), From(H, due))
Left(H, due)  == {j \in Rest(H, due) : j >= EndAt(H, due)}

LEMMA PushRange ==
    ASSUME NEW H, H \subseteq Nat, IsFiniteSet(H), Cardinality(H) <= Window + 1,
           NEW due \in Nat, \A k \in H : due <= k
    PROVE  LET mid   == Mid(H, due)
               from  == From(H, due)
               front == EndAt(H, due)
               left  == Left(H, due)
           IN  /\ mid \in Nat /\ from \in Nat /\ front \in Nat
               /\ due <= mid /\ mid <= from /\ from <= front
               /\ \A k \in Nat : due <= k /\ k < mid => k \in H
               /\ \A k \in Nat : from <= k /\ k < front => k \in H
               /\ left \subseteq H /\ \A k \in left : k > front
               /\ IsFiniteSet(left) /\ Cardinality(left) <= Window
<1> DEFINE mid   == EndOfRun(H, due)
           rest  == {k \in H : k >= mid}
           from  == IF Cardinality(rest) <= Window THEN mid ELSE Min(rest)
           front == EndOfRun(rest, from)
           left  == {j \in rest : j >= front}
<1>1. /\ mid \in Nat /\ due <= mid /\ mid \notin H
      /\ \A k \in Nat : due <= k /\ k < mid => k \in H
  BY RunEnds
<1> HIDE DEF mid
<1>2. rest \subseteq Nat /\ rest \in SUBSET H /\ mid \notin rest
  BY <1>1
<1> HIDE DEF rest
<1>3. /\ IsFiniteSet(rest) /\ Cardinality(rest) \in Nat /\ Cardinality(H) \in Nat
      /\ Cardinality(rest) <= Window + 1
  <2>1. IsFiniteSet(rest) /\ Cardinality(rest) <= Cardinality(H)
    BY <1>2, FS_Subset
  <2>2. Cardinality(rest) \in Nat /\ Cardinality(H) \in Nat
    BY <2>1, FS_CardinalityType
  <2> QED
    BY <2>1, <2>2, SizesAssumption
<1>4. from \in Nat /\ mid <= from /\ (Cardinality(rest) > Window => from \in rest)
  <2>1. CASE Cardinality(rest) <= Window
    BY <1>1, <1>3, <2>1, SizesAssumption
  <2>2. CASE ~(Cardinality(rest) <= Window)
    <3>1. rest # {}
      <4>1. Cardinality(rest) # 0
        BY <1>3, <2>2, SizesAssumption
      <4> QED
        BY <4>1, FS_EmptySet
    <3>2. Min(rest) \in rest
      BY <1>2, <3>1, MinLeast
    <3>3. \A k \in rest : k >= mid
      BY DEF rest
    <3> QED
      BY <1>2, <2>2, <3>2, <3>3
  <2> QED
    BY <2>1, <2>2
<1> DEFINE f == from
<1> HIDE DEF f
<1>5. /\ front \in Nat /\ from <= front /\ front \notin rest
      /\ \A k \in Nat : from <= k /\ k < front => k \in rest
  <2>1. LET e == EndOfRun(rest, f) IN
        /\ e \in Nat /\ f <= e /\ e \notin rest
        /\ \A i \in Nat : f <= i /\ i < e => i \in rest
    BY <1>2, <1>3, <1>4, RunEnds DEF f
  <2> QED
    BY <2>1 DEF f
<1> HIDE DEF front
<1>6. left \in SUBSET rest /\ \A k \in left : k > front
  BY <1>2, <1>5
<1>7. IsFiniteSet(left) /\ Cardinality(left) <= Window
  <2> HIDE DEF left, from
  <2>1. IsFiniteSet(left) /\ Cardinality(left) <= Cardinality(rest)
        /\ (Cardinality(rest) = Cardinality(left) => rest = left)
    BY <1>3, <1>6, FS_Subset
  <2>2. Cardinality(left) \in Nat
    BY <2>1, FS_CardinalityType
  <2>3. CASE Cardinality(rest) <= Window
    BY <1>3, <2>1, <2>2, <2>3, SizesAssumption
  <2>4. CASE ~(Cardinality(rest) <= Window)
    <3>1. from \in rest /\ ~(from > front)
      BY <1>3, <1>4, <1>5, <2>4, SizesAssumption
    <3>2. rest # left
      BY <1>6, <3>1
    <3> QED
      BY <1>3, <2>1, <2>2, <3>2, SizesAssumption
  <2> QED
    BY <2>3, <2>4
<1> QED
  BY <1>1, <1>2, <1>4, <1>5, <1>6, <1>7 DEF mid, rest, front, Mid, Rest, From, EndAt, Left

\* push keeps the resequencer as described, and hands over packets in order, one
\* for each position passed that it does not count as lost.
LEMMA PushedIs ==
    ASSUME NEW q, QueueInv(q), NEW p \in Packets, ~Late(q, p)
    PROVE  LET r == Pushed(q, p)
               n == r.queue
           IN  /\ QueueInv(n) /\ n.started
               /\ n.onMissing = q.onMissing /\ n.wrote = q.wrote /\ n.errors = q.errors
               /\ q.due <= n.due
               /\ r.ready \in Seq(Packets)
               /\ (n.lost + Len(r.ready)) + (q.due - q.base) = q.lost + (n.due - n.base)
               /\ \A i \in 1 .. Len(r.ready) :
                     q.due <= r.ready[i].no /\ r.ready[i].no < n.due
               /\ \A i, j \in 1 .. Len(r.ready) : i < j => r.ready[i].no < r.ready[j].no
               /\ r.asks \subseteq Nat
<1> DEFINE due   == IF q.started THEN q.due ELSE p.no
           held  == [k \in DOMAIN q.held \cup {p.no} |-> IF k = p.no THEN p.of ELSE q.held[k]]
           H     == DOMAIN held
           mid   == Mid(H, due)
           from  == From(H, due)
           front == EndAt(H, due)
           left  == Left(H, due)
           run   == Stretch(due, mid) \o Stretch(from, front)
           ask   == q.onMissing /\ q.mark # due /\ p.no - due \in 1 .. Window
           N     == [q EXCEPT !.started = TRUE, !.due = front,
                              !.base = IF q.started THEN @ ELSE p.no,
                              !.held = [k \in left |-> held[k]],
                              !.mark = IF ask THEN due ELSE @,
                              !.lost = @ + (from - mid)]
           R     == [i \in DOMAIN run |-> [of |-> held[run[i]], no |-> run[i]]]
           A     == IF ask THEN due .. p.no - 1 ELSE {}
<1>1. H = DOMAIN q.held \cup {p.no}
  OBVIOUS
<1>2. Pushed(q, p) = [queue |-> N, ready |-> R, asks |-> A]
  BY DEF Pushed, Mid, Rest, From, EndAt, Left
<1>3. /\ q \in Queues /\ q.started \in BOOLEAN /\ q.onMissing \in BOOLEAN
      /\ q.base \in Nat /\ q.due \in Nat /\ q.mark \in Int
      /\ q.wrote \in Nat /\ q.lost \in Nat /\ q.errors \in Nat
      /\ DOMAIN q.held \subseteq Nat
      /\ \A k \in DOMAIN q.held : q.held[k] \in Streams
  BY QueueFields DEF QueueInv
<1>4. p.no \in Nat /\ p.of \in Streams
  BY DEF Packets
<1>5. due \in Nat /\ q.due <= due /\ \A k \in H : due <= k
  BY <1>1, <1>3, <1>4 DEF QueueInv, Late
<1>6. H \subseteq Nat /\ \A k \in H : held[k] \in Streams
  BY <1>1, <1>3, <1>4
<1>7. IsFiniteSet(H) /\ Cardinality(H) <= Window + 1
  <2>1. /\ IsFiniteSet(DOMAIN q.held) /\ Cardinality(DOMAIN q.held) \in Nat
        /\ Cardinality(DOMAIN q.held) <= Window
    BY FS_CardinalityType DEF QueueInv
  <2>2. /\ IsFiniteSet(H)
        /\ Cardinality(H) = Cardinality(DOMAIN q.held)
           \/ Cardinality(H) = Cardinality(DOMAIN q.held) + 1
    BY <1>1, <2>1, FS_AddElement
  <2> QED
    BY <2>1, <2>2, SizesAssumption
<1> HIDE DEF due, H, held
<1>8. /\ mid \in Nat /\ from \in Nat /\ front \in Nat
      /\ due <= mid /\ mid <= from /\ from <= front
      /\ \A k \in Nat : due <= k /\ k < mid => k \in H
      /\ \A k \in Nat : from <= k /\ k < front => k \in H
      /\ left \subseteq H /\ \A k \in left : k > front
      /\ IsFiniteSet(left) /\ Cardinality(left) <= Window
  <2>1. /\ H \subseteq Nat /\ IsFiniteSet(H) /\ Cardinality(H) <= Window + 1
        /\ due \in Nat /\ \A k \in H : due <= k
    BY <1>5, <1>6, <1>7
  <2> QED
    BY <2>1, PushRange
<1> HIDE DEF mid, from, front, left
<1>9. /\ run \in Seq(Nat) /\ Len(run) = (mid - due) + (front - from)
      /\ \A i \in 1 .. Len(run) : due <= run[i] /\ run[i] < front
      /\ \A i \in 1 .. Len(run) : run[i] < mid \/ from <= run[i]
      /\ \A i, j \in 1 .. Len(run) : i < j => run[i] < run[j]
  BY <1>5, <1>8, TwoStretches
<1> HIDE DEF run
<1>10. \A i \in 1 .. Len(run) : run[i] \in H
  <2>1. \A i \in 1 .. Len(run) : run[i] \in Nat
    BY <1>9
  <2> QED
    BY <1>8, <1>9, <2>1
<1>11. /\ R \in Seq(Packets) /\ Len(R) = Len(run)
       /\ \A i \in 1 .. Len(run) : R[i].no = run[i]
  <2>1. DOMAIN run = 1 .. Len(run) /\ Len(run) \in Nat
    BY <1>9
  <2>2. \A i \in 1 .. Len(run) : [of |-> held[run[i]], no |-> run[i]] \in Packets
    BY <1>6, <1>10 DEF Packets
  <2>3. R \in [1 .. Len(run) -> Packets] /\ \A i \in 1 .. Len(run) : R[i].no = run[i]
    BY <2>1, <2>2
  <2> QED
    BY <2>1, <2>3
<1>12. A \subseteq Nat
  BY <1>4, <1>5
<1>13. /\ N.started = TRUE /\ N.due = front /\ DOMAIN N.held = left
       /\ N.base = IF q.started THEN q.base ELSE p.no
       /\ N.lost = q.lost + (from - mid)
       /\ N.onMissing = q.onMissing /\ N.wrote = q.wrote /\ N.errors = q.errors
  BY <1>3 DEF Queues
<1>14. N \in Queues
  <2>1. [k \in left |-> held[k]] \in [left -> Streams] /\ left \in SUBSET Nat
    BY <1>6, <1>8
  <2> DEFINE K == [k \in left |-> held[k]]
             m == IF ask THEN due ELSE q.mark
             b == IF q.started THEN q.base ELSE p.no
             l == q.lost + (from - mid)
  <2>2. K \in UNION {[D -> Streams] : D \in SUBSET Nat}
    BY <2>1
  <2>3. m \in Int /\ b \in Nat
    BY <1>3, <1>4, <1>5
  <2>4. l \in Nat
    BY <1>3, <1>8
  <2>5. N = [q EXCEPT !.started = TRUE, !.due = front, !.base = b, !.held = K,
                      !.mark = m, !.lost = l]
    BY <1>3 DEF Queues
  <2> HIDE DEF K, m, b, l, N
  <2> QED
    BY <1>3, <1>8, <2>2, <2>3, <2>4, <2>5 DEF Queues
<1>15. QueueInv(N)
  BY <1>8, <1>13, <1>14 DEF QueueInv
<1> HIDE DEF N, R, A
<1>16. (N.lost + Len(R)) + (q.due - q.base) = q.lost + (N.due - N.base)
  <2>1. Len(R) = (mid - due) + (front - from)
    BY <1>9, <1>11
  <2>2. N.lost = q.lost + (from - mid) /\ N.due = front
    BY <1>13
  <2>3. due - N.base = q.due - q.base /\ N.base \in Nat
    <3>1. CASE q.started
      BY <1>3, <1>13, <3>1 DEF due
    <3>2. CASE ~q.started
      <4>1. due = p.no /\ q.due = 0 /\ q.base = 0 /\ N.base = p.no
        BY <1>13, <3>2 DEF due, QueueInv
      <4> QED
        BY <1>4, <4>1
    <3> QED
      BY <3>1, <3>2
  <2> QED
    BY <1>3, <1>5, <1>8, <2>1, <2>2, <2>3
<1>17. q.due <= N.due
  BY <1>3, <1>5, <1>8, <1>13
<1>18. \A i \in 1 .. Len(R) : q.due <= R[i].no /\ R[i].no < N.due
  <2>1. \A i \in 1 .. Len(run) : run[i] \in Nat
    BY <1>9
  <2> QED
    BY <1>3, <1>5, <1>9, <1>11, <1>13, <2>1
<1>19. \A i, j \in 1 .. Len(R) : i < j => R[i].no < R[j].no
  BY <1>9, <1>11
<1>20. Pushed(q, p).queue = N /\ Pushed(q, p).ready = R /\ Pushed(q, p).asks = A
  BY <1>2
<1> QED
  BY <1>11, <1>12, <1>13, <1>15, <1>16, <1>17, <1>18, <1>19, <1>20
-----------------------------------------------------------------------------
(* The inductive invariant.                                                *)

\* Requests.  A SETUP under way has not been answered, and holds on to the decoder it
\* found: nothing replaces it meanwhile.
Handled == {"idle", "bind", "bound", "install", "stats", "close", "reset"}

CtlInv ==
    /\ announced \in 0 .. Len(Lengths) /\ setups \in 0 .. MaxSetups
    /\ dec \in Streams \cup {0} /\ udp \in Setups \cup {0} /\ report \in Streams \cup {0}
    /\ running \in BOOLEAN /\ rmu \in BOOLEAN /\ ctl \in Handled
    /\ requester \in {0, setups}
    /\ answered \subseteq 1 .. setups /\ live \subseteq Streams
    /\ ctl \in {"bind", "bound", "install"} => setups \notin answered \cup {0}
    /\ ctl = "install" => requester # 0 /\ dec # 0
    /\ sent \in [Streams -> Nat] /\ \A s \in Streams : sent[s] <= Lengths[s]

\* Readers and locks.  Only the reader that holds the lock of a decoder decodes
\* with it, and only it has packets that push handed over.
ReaderInv ==
    /\ at \in [Readers -> {"none", "recv", "load", "lock", "decode", "gone"}]
    /\ use \in [Readers -> Streams \cup {0}]
    /\ hand \in [Readers -> Packets \cup {Nothing}]
    /\ batch \in [Readers -> Seq(Packets)]
    /\ lock \in [Streams -> Readers \cup {NoReader}]
    /\ \A rd \in Readers :
          /\ at[rd] \in {"load", "lock"} => hand[rd] \in Packets
          /\ at[rd] = "lock" => use[rd] \in Streams
          /\ at[rd] = "decode" => use[rd] \in Streams /\ lock[use[rd]] = rd
          /\ at[rd] # "decode" => batch[rd] = << >>
    /\ \A d \in Streams :
          lock[d] # NoReader => at[lock[d]] = "decode" /\ use[lock[d]] = d

\* The readers of a SETUP start once it is bound, and wait for packets until it
\* is answered.
StartInv ==
    \A rd \in Readers :
       /\ at[rd] # "none" => rd.of <= setups /\ (ctl = "bind" => rd.of # setups)
       /\ at[rd] \in {"load", "lock", "decode"} => rd.of \in answered

\* Packets that the holder of a decoder's lock has still to decode.
Owed(d) == IF lock[d] = NoReader THEN 0 ELSE Len(batch[lock[d]])

\* Resequencers.  Every position passed is written, an error, lost, or still owed.
QueuesInv ==
    /\ queue \in [Streams -> Queues] /\ asked \in [Setups -> SUBSET Nat]
    /\ \A d \in Streams : QueueInv(queue[d])
    /\ \A d \in Streams :
          LET q == queue[d] IN
          ((q.wrote + q.errors) + q.lost) + Owed(d) = q.due - q.base

\* What push handed over is in order, and behind the position that is due.
HandedInv ==
    \A rd \in Readers : at[rd] = "decode" =>
       /\ \A i \in 1 .. Len(batch[rd]) : batch[rd][i].no < queue[use[rd]].due
       /\ \A i, j \in 1 .. Len(batch[rd]) : i < j => batch[rd][i].no < batch[rd][j].no

Entries == [by : Streams, of : Streams, no : Nat]

\* The ring.  What a decoder wrote is in order, behind the position that is due
\* there, and before whatever it has still to decode.
RingInv ==
    /\ ring \in Seq(Entries) /\ Len(ring) <= Room
    /\ RingOrder
    /\ \A i \in 1 .. Len(ring) : ring[i].no < queue[ring[i].by].due
    /\ \A rd \in Readers : at[rd] = "decode" =>
          \A i \in 1 .. Len(ring), k \in 1 .. Len(batch[rd]) :
             ring[i].by = use[rd] => ring[i].no < batch[rd][k].no

\* The callback.  The decoder that a SETUP with a control port found has it from
\* the answer on.
CallbackInv ==
    /\ found \in [Setups -> Streams \cup {0}]
    /\ \A n \in answered : found[n] # 0 => queue[found[n]].onMissing
    /\ ctl \in {"bind", "bound", "install"} =>
          found[setups] = IF requester # 0 THEN dec ELSE 0

\* The sockets a callback was made for are those its requests are sent from.
ViaInv ==
    /\ via \in [Streams -> Setups \cup {0}]
    /\ \A d \in Streams : queue[d].onMissing <=> via[d] # 0

IInv == /\ CtlInv /\ ReaderInv /\ StartInv /\ QueuesInv /\ HandedInv /\ RingInv
        /\ CallbackInv /\ ViaInv

LEMMA StreamsAre == Streams = 1 .. Len(Lengths) /\ Len(Lengths) \in Nat
BY LengthsAssumption DEF Streams

LEMMA SetupsAre == Setups = 1 .. MaxSetups /\ MaxSetups \in Nat
BY SizesAssumption DEF Setups

\* The sockets of an answered SETUP are those of one of the SETUPs there may be.
LEMMA AnsweredAre ==
    ASSUME CtlInv
    PROVE  answered \subseteq Setups /\ setups \in Nat /\ \A rd \in Readers : rd.of \in Setups
BY SetupsAre DEF CtlInv, Readers

LEMMA InitInvariance == Init => IInv
<1> SUFFICES ASSUME Init PROVE IInv
  OBVIOUS
<1> USE DEF Init
<1>1. CtlInv
  <2>1. \A s \in Streams : Lengths[s] \in Nat
    BY LengthsAssumption DEF Streams
  <2>2. sent \in [Streams -> Nat] /\ \A s \in Streams : sent[s] <= Lengths[s]
    BY <2>1
  <2>3. announced \in 0 .. Len(Lengths) /\ setups \in 0 .. MaxSetups
    BY StreamsAre, SetupsAre
  <2>4. /\ dec \in Streams \cup {0} /\ udp \in Setups \cup {0} /\ report \in Streams \cup {0}
        /\ requester = 0 /\ ctl = "idle" /\ answered = {} /\ live = {}
    OBVIOUS
  <2>5. running \in BOOLEAN /\ rmu \in BOOLEAN
    OBVIOUS
  <2> QED
    BY <2>2, <2>3, <2>4, <2>5 DEF CtlInv, Handled
<1>2. ReaderInv
  BY DEF ReaderInv, Nothing
<1>3. QueueInv(EmptyQueue)
  <2>1. NoPackets \in [{} -> Streams] /\ DOMAIN NoPackets = {}
    BY DEF NoPackets
  <2>2. NoPackets \in UNION {[K -> Streams] : K \in SUBSET Nat}
    BY <2>1
  <2>3. EmptyQueue \in Queues
    BY <2>2 DEF EmptyQueue, Queues
  <2>4. IsFiniteSet({}) /\ Cardinality({}) = 0
    BY FS_EmptySet
  <2> QED
    BY <2>1, <2>3, <2>4, SizesAssumption DEF QueueInv, EmptyQueue
<1>4. QueuesInv
  <2>1. \A d \in Streams : queue[d] = EmptyQueue /\ lock[d] = NoReader
    OBVIOUS
  <2>2. \A d \in Streams : queue[d] \in Queues
    BY <1>3, <2>1 DEF QueueInv
  <2>3. queue \in [Streams -> Queues] /\ asked \in [Setups -> SUBSET Nat]
    BY <2>2
  <2>4. ((EmptyQueue.wrote + EmptyQueue.errors) + EmptyQueue.lost) + 0
            = EmptyQueue.due - EmptyQueue.base
    BY DEF EmptyQueue
  <2> QED
    BY <1>3, <2>1, <2>3, <2>4 DEF QueuesInv, Owed
<1>5. HandedInv
  BY DEF HandedInv
<1>6. RingInv
  BY SizesAssumption DEF RingInv, RingOrder
<1>7. CallbackInv /\ StartInv
  BY DEF CallbackInv, StartInv
<1>8. ViaInv
  <2>1. ~EmptyQueue.onMissing
    BY DEF EmptyQueue
  <2> QED
    BY <2>1 DEF ViaInv
<1> QED
  BY <1>1, <1>2, <1>4, <1>5, <1>6, <1>7, <1>8 DEF IInv

\* Steps that leave decoders, their locks and the readers alone keep what is said of
\* them.
LEMMA ReadersAlone ==
    IInv /\ UNCHANGED <<decoder, readers, ring, asked>>
    => ReaderInv' /\ QueuesInv' /\ HandedInv' /\ RingInv' /\ ViaInv'
<1> SUFFICES ASSUME IInv, UNCHANGED <<decoder, readers, ring, asked>>
             PROVE  ReaderInv' /\ QueuesInv' /\ HandedInv' /\ RingInv' /\ ViaInv'
  OBVIOUS
<1>1. ReaderInv'
  BY DEF IInv, ReaderInv, decoder, readers
<1>2. QueuesInv'
  BY DEF IInv, QueuesInv, Owed, decoder, readers
<1>3. HandedInv' /\ RingInv'
  BY DEF IInv, HandedInv, RingInv, RingOrder, decoder, readers
<1>4. ViaInv'
  BY DEF IInv, ViaInv, decoder
<1> QED
  BY <1>1, <1>2, <1>3, <1>4

\* The steps of the requests, but for the end of a SETUP, leave readers, decoders
\* and their locks alone.
LEMMA RequestSteps ==
    IInv /\ UNCHANGED <<decoder, readers, ring, asked, answered>>
         /\ (\/ announce \/ (\E withControl \in BOOLEAN : setup(withControl))
             \/ record \/ teardown \/ Stats \/ closeUDP
             \/ \E s \in Streams : Send(s))
    => IInv'
<1> SUFFICES ASSUME IInv, UNCHANGED <<decoder, readers, ring, asked, answered>>,
                    \/ announce \/ (\E withControl \in BOOLEAN : setup(withControl))
                    \/ record \/ teardown \/ Stats \/ closeUDP
                    \/ \E s \in Streams : Send(s)
             PROVE  IInv'
  OBVIOUS
<1>1. /\ CtlInv'
      /\ \/ setups' = setups /\ ctl' # "bind"
         \/ setups' = setups + 1
         \/ UNCHANGED <<setups, ctl>>
      /\ \A n \in answered : found'[n] = found[n]
      /\ found' \in [Setups -> Streams \cup {0}]
      /\ ctl' \in {"bind", "bound", "install"} =>
            found'[setups'] = IF requester' # 0 THEN dec' ELSE 0
  <2> USE StreamsAre, SetupsAre DEF IInv, CtlInv, Handled, CallbackInv
  <2>1. CASE announce
    BY <2>1 DEF announce, control, senders, history
  <2>2. CASE \E withControl \in BOOLEAN : setup(withControl)
    <3>1. PICK c \in BOOLEAN : setup(c)
      BY <2>2
    <3>2. /\ setups' = setups + 1 /\ setups' \in Setups /\ setups' \notin answered \cup {0}
          /\ ctl' = "bind" /\ udp' = 0 /\ requester' \in {0, setups'}
          /\ UNCHANGED <<dec, running, rmu, report, announced, answered, live, sent>>
      BY <3>1 DEF setup
    <3>3. /\ found' = [found EXCEPT ![setups'] = IF c THEN dec ELSE 0]
          /\ requester' = IF c THEN setups' ELSE 0
      BY <3>1 DEF setup
    <3>4. /\ found' \in [Setups -> Streams \cup {0}]
          /\ found'[setups'] = IF requester' # 0 THEN dec ELSE 0
          /\ \A n \in answered : found'[n] = found[n]
      <4>1. (IF c THEN dec ELSE 0) \in Streams \cup {0}
        OBVIOUS
      <4>2. found'[setups'] = IF c THEN dec ELSE 0
        BY <3>2, <3>3
      <4>3. setups' # 0
        BY <3>2
      <4> QED
        BY <3>2, <3>3, <4>1, <4>2, <4>3
    <3>5. CtlInv'
      <4>1. setups' \in 0 .. MaxSetups /\ answered' \subseteq 1 .. setups'
        BY <3>2
      <4> QED
        BY <3>2, <4>1
    <3> QED
      BY <3>2, <3>4, <3>5
  <2>3. CASE record
    <3>1. live' \subseteq Streams /\ ctl' \in {"idle", "reset"} /\ running' = TRUE
          /\ UNCHANGED <<dec, udp, rmu, requester, report, announced, setups, answered, sent, found>>
      BY <2>3 DEF record, history
    <3> QED
      BY <3>1
  <2>4. CASE teardown
    <3>1. report' \in Streams \cup {0}
      <4>1. report' = dec \/ report' = 0
        BY <2>4 DEF teardown
      <4> QED
        BY <4>1
    <3>2. running' \in BOOLEAN /\ dec' = 0 /\ ctl' = "stats"
          /\ UNCHANGED <<udp, rmu, requester, announced, setups, answered, live, sent, found>>
      BY <2>4 DEF teardown, senders, history
    <3> QED
      BY <3>1, <3>2
  <2>5. CASE Stats
    BY <2>5 DEF Stats, control, senders, history
  <2>6. CASE closeUDP
    BY <2>6 DEF closeUDP, control, senders, history
  <2>7. CASE \E s \in Streams : Send(s)
    <3>1. PICK s \in Streams : Send(s)
      BY <2>7
    <3>2. Lengths[s] \in Nat
      BY LengthsAssumption
    <3>3. \A t \in Streams : sent'[t] = IF t = s THEN sent[s] + 1 ELSE sent[t]
      BY <3>1 DEF Send
    <3>4. sent' \in [Streams -> Nat] /\ \A t \in Streams : sent'[t] <= Lengths[t]
      BY <3>1, <3>2, <3>3 DEF Send
    <3>5. UNCHANGED <<dec, udp, running, rmu, control, announced, setups, answered, live, found>>
      BY <3>1 DEF Send, history
    <3> QED
      BY <3>4, <3>5 DEF control
  <2> QED
    BY <2>1, <2>2, <2>3, <2>4, <2>5, <2>6, <2>7
<1>2. StartInv'
  <2>1. UNCHANGED <<at, answered>>
    BY DEF readers
  <2>2. setups \in Nat /\ \A rd \in Readers : rd.of \in Nat
    BY AnsweredAre, SetupsAre DEF IInv
  <2> QED
    BY <1>1, <2>1, <2>2 DEF IInv, StartInv
<1>3. CallbackInv'
  BY <1>1 DEF IInv, CallbackInv, decoder
<1> QED
  BY <1>1, <1>2, <1>3, ReadersAlone DEF IInv

\* FLUSH and the reset of a session empty the ring.
LEMMA RingEmptied == IInv /\ (FLUSH \/ resetRing) => IInv'
<1> SUFFICES ASSUME IInv, FLUSH \/ resetRing PROVE IInv'
  OBVIOUS
<1>1. /\ ring' = << >> /\ ctl' \in {ctl, "idle"}
      /\ UNCHANGED <<dec, udp, running, rmu, requester, report, decoder, readers, senders, found>>
  BY DEF FLUSH, resetRing, control, history
<1>2. CtlInv' /\ StartInv'
  BY <1>1 DEF IInv, CtlInv, Handled, StartInv, readers, senders
<1>3. ReaderInv'
  BY <1>1 DEF IInv, ReaderInv, decoder, readers, senders
<1>4. QueuesInv'
  BY <1>1 DEF IInv, QueuesInv, Owed, decoder, readers, senders
<1>5. HandedInv'
  BY <1>1 DEF IInv, HandedInv, decoder, readers
<1>6. RingInv'
  BY <1>1, SizesAssumption DEF RingInv, RingOrder
<1>7. CallbackInv' /\ ViaInv'
  BY <1>1 DEF IInv, CallbackInv, ViaInv, decoder, senders
<1> QED
  BY <1>2, <1>3, <1>4, <1>5, <1>6, <1>7 DEF IInv

LEMMA WithCallback ==
    ASSUME NEW q, QueueInv(q)
    PROVE  LET n == [q EXCEPT !.onMissing = TRUE] IN
           /\ QueueInv(n) /\ n.onMissing
           /\ n.due = q.due /\ n.base = q.base
           /\ n.wrote = q.wrote /\ n.errors = q.errors /\ n.lost = q.lost
<1> DEFINE n == [q EXCEPT !.onMissing = TRUE]
<1>1. q \in Queues
  BY DEF QueueInv
<1>2. n \in Queues
  BY <1>1 DEF Queues
<1>3. /\ n.onMissing = TRUE /\ n.held = q.held /\ n.started = q.started
      /\ n.due = q.due /\ n.base = q.base
      /\ n.wrote = q.wrote /\ n.errors = q.errors /\ n.lost = q.lost
  BY <1>1 DEF Queues
<1> HIDE DEF n
<1>4. QueueInv(n)
  BY <1>2, <1>3 DEF QueueInv
<1> QED
  BY <1>3, <1>4 DEF n

LEMMA RingEntries ==
    ASSUME RingInv
    PROVE  \A i \in 1 .. Len(ring) : ring[i].by \in Streams /\ ring[i].of \in Streams /\ ring[i].no \in Nat
<1>1. \A i \in 1 .. Len(ring) : ring[i] \in Entries
  BY DEF RingInv
<1> QED
  BY <1>1 DEF Entries

\* SETUP binds its sockets: their readers start, and wait.
LEMMA Bound == IInv /\ bindUDP => IInv'
<1> SUFFICES ASSUME IInv, bindUDP PROVE IInv'
  OBVIOUS
<1>1. /\ ctl = "bind" /\ ctl' = "bound"
      /\ UNCHANGED <<dec, udp, running, rmu, requester, report, decoder, hand, use, batch,
                     ring, senders, found>>
  BY DEF bindUDP, history
<1>2. /\ at' \in [Readers -> {"none", "recv", "load", "lock", "decode", "gone"}]
      /\ \A rd \in Readers : IF rd.of = setups THEN at[rd] = "none" /\ at'[rd] = "recv"
                                                ELSE at'[rd] = at[rd]
  BY <1>1 DEF IInv, ReaderInv, StartInv, bindUDP
<1>3. \A rd \in Readers : /\ at'[rd] = "decode" <=> at[rd] = "decode"
                          /\ at'[rd] = "lock" <=> at[rd] = "lock"
                          /\ at'[rd] = "load" <=> at[rd] = "load"
  BY <1>2
<1>4. CtlInv'
  BY <1>1 DEF IInv, CtlInv, Handled, senders
<1>5. ReaderInv'
  <2>1. \A d \in Streams : lock[d] # NoReader => lock[d] \in Readers
    BY DEF IInv, ReaderInv
  <2> QED
    BY <1>1, <1>2, <1>3, <2>1 DEF IInv, ReaderInv, decoder
<1>6. StartInv'
  <2>1. setups \in Nat /\ UNCHANGED <<setups, answered>> /\ ctl' = "bound"
    BY <1>1, AnsweredAre DEF IInv, senders
  <2>2. \A rd \in Readers : at'[rd] # "none" => rd.of <= setups
    BY <1>2, <2>1 DEF IInv, StartInv
  <2> QED
    BY <1>3, <2>1, <2>2 DEF IInv, StartInv
<1>7. QueuesInv'
  BY <1>1 DEF IInv, QueuesInv, Owed, decoder, senders
<1>8. HandedInv' /\ RingInv'
  BY <1>1, <1>3 DEF IInv, HandedInv, RingInv, RingOrder, decoder
<1>9. CallbackInv' /\ ViaInv'
  BY <1>1 DEF IInv, CallbackInv, ViaInv, decoder, senders
<1> QED
  BY <1>4, <1>5, <1>6, <1>7, <1>8, <1>9 DEF IInv

\* SETUP publishes its sockets; without a requester or a decoder it is done.
LEMMA Published == IInv /\ setupPublish => IInv'
<1> SUFFICES ASSUME IInv, setupPublish PROVE IInv'
  OBVIOUS
<1>1. /\ ctl = "bound" /\ setups \notin answered \cup {0} /\ setups \in Setups
      /\ udp' = setups
      /\ UNCHANGED <<dec, running, report, decoder, readers, ring,
                     announced, setups, live, sent, asked, found>>
  BY SetupsAre DEF IInv, CtlInv, setupPublish, history
<1>2. \/ /\ requester # 0 /\ dec # 0 /\ rmu' = TRUE /\ ctl' = "install"
         /\ UNCHANGED <<requester, answered>>
      \/ /\ ~(requester # 0 /\ dec # 0) /\ rmu' = FALSE /\ ctl' = "idle"
         /\ requester' = 0 /\ answered' = answered \cup {setups}
  BY DEF setupPublish, Answer
<1>3. CtlInv'
  <2>1. setups \in 1 .. setups
    BY <1>1, SetupsAre
  <2> QED
    BY <1>1, <1>2, <2>1 DEF IInv, CtlInv, Handled
<1>4. StartInv'
  <2>1. answered \subseteq answered' /\ ctl' # "bind" /\ UNCHANGED <<at, setups>>
    BY <1>1, <1>2 DEF readers
  <2> QED
    BY <2>1 DEF IInv, StartInv
<1>5. CallbackInv'
  <2>1. found[setups] = IF requester # 0 THEN dec ELSE 0
    BY <1>1 DEF IInv, CallbackInv
  <2>2. \A n \in answered' : found[n] # 0 => queue[found[n]].onMissing
    BY <1>2, <2>1 DEF IInv, CallbackInv
  <2>3. ctl' \in {"bind", "bound", "install"} =>
           found[setups] = IF requester' # 0 THEN dec ELSE 0
    BY <1>2, <2>1
  <2> QED
    BY <1>1, <2>2, <2>3 DEF IInv, CallbackInv, decoder
<1> QED
  BY <1>1, <1>3, <1>4, <1>5, ReadersAlone DEF IInv

\* SETUP installs the callback of the decoder, and is answered.
LEMMA Installed == IInv /\ OnMissing => IInv'
<1> SUFFICES ASSUME IInv, OnMissing PROVE IInv'
  OBVIOUS
<1>1. /\ ctl = "install" /\ setups \notin answered \cup {0} /\ setups \in Setups
      /\ requester # 0 /\ requester \in Setups /\ dec \in Streams
  BY SetupsAre DEF IInv, CtlInv, OnMissing
<1>2. /\ answered' = answered \cup {setups} /\ rmu' = FALSE /\ requester' = 0 /\ ctl' = "idle"
      /\ via' = [via EXCEPT ![dec] = requester]
      /\ UNCHANGED <<dec, udp, running, report, lock, readers, ring,
                     announced, setups, live, sent, asked, found>>
  BY DEF OnMissing, Answer, history
<1>3. \A d \in Streams : /\ QueueInv(queue'[d])
                         /\ queue'[d].onMissing <=> (queue[d].onMissing \/ d = dec)
                         /\ queue'[d].due = queue[d].due /\ queue'[d].base = queue[d].base
                         /\ queue'[d].wrote = queue[d].wrote
                         /\ queue'[d].errors = queue[d].errors
                         /\ queue'[d].lost = queue[d].lost
  <2> SUFFICES ASSUME NEW d \in Streams
               PROVE  /\ QueueInv(queue'[d])
                      /\ queue'[d].onMissing <=> (queue[d].onMissing \/ d = dec)
                      /\ queue'[d].due = queue[d].due /\ queue'[d].base = queue[d].base
                      /\ queue'[d].wrote = queue[d].wrote
                      /\ queue'[d].errors = queue[d].errors
                      /\ queue'[d].lost = queue[d].lost
    OBVIOUS
  <2>1. QueueInv(queue[d]) /\ queue \in [Streams -> Queues]
    BY DEF IInv, QueuesInv
  <2>2. CASE d = dec
    <3>1. queue'[d] = [queue[d] EXCEPT !.onMissing = TRUE]
      BY <2>1, <2>2 DEF OnMissing
    <3> QED
      BY <2>1, <2>2, <3>1, WithCallback
  <2>3. CASE d # dec
    <3>1. queue'[d] = queue[d]
      BY <2>1, <2>3 DEF OnMissing
    <3> QED
      BY <2>1, <2>3, <3>1
  <2> QED
    BY <2>2, <2>3
<1>4. DOMAIN queue' = Streams /\ queue' = [d \in Streams |-> queue'[d]]
  BY DEF IInv, QueuesInv, OnMissing
<1>5. CtlInv'
  <2>1. setups \in 1 .. setups
    BY <1>1, SetupsAre
  <2> QED
    BY <1>1, <1>2, <2>1 DEF IInv, CtlInv, Handled
<1>6. ReaderInv'
  BY <1>2 DEF IInv, ReaderInv, readers
<1>7. StartInv'
  <2>1. answered \subseteq answered' /\ ctl' # "bind" /\ UNCHANGED <<at, setups>>
    BY <1>2 DEF readers
  <2> QED
    BY <2>1 DEF IInv, StartInv
<1>8. QueuesInv'
  <2>1. \A d \in Streams : queue'[d] \in Queues
    BY <1>3 DEF QueueInv
  <2>2. queue' \in [Streams -> Queues] /\ asked' \in [Setups -> SUBSET Nat]
    BY <1>2, <1>4, <2>1 DEF IInv, QueuesInv
  <2>3. \A d \in Streams : Owed(d)' = Owed(d)
    BY <1>2 DEF Owed, readers
  <2> QED
    BY <1>3, <2>2, <2>3 DEF IInv, QueuesInv
<1>9. HandedInv'
  <2>1. \A rd \in Readers : at[rd] = "decode" => use[rd] \in Streams
    BY DEF IInv, ReaderInv
  <2> QED
    BY <1>2, <1>3, <2>1 DEF IInv, HandedInv, readers
<1>10. RingInv'
  <2>1. \A i \in 1 .. Len(ring) : ring[i].by \in Streams
    BY RingEntries DEF IInv
  <2> QED
    BY <1>2, <1>3, <2>1 DEF IInv, RingInv, RingOrder, readers
<1>11. CallbackInv'
  <2>1. found[setups] = dec /\ found \in [Setups -> Streams \cup {0}]
    BY <1>1 DEF IInv, CallbackInv
  <2>2. answered \subseteq Setups
    BY AnsweredAre DEF IInv
  <2>3. \A n \in answered' : found[n] # 0 => queue'[found[n]].onMissing
    BY <1>1, <1>2, <1>3, <2>1, <2>2 DEF IInv, CallbackInv
  <2> QED
    BY <1>2, <2>1, <2>3 DEF CallbackInv
<1>12. ViaInv'
  <2>1. via' \in [Streams -> Setups \cup {0}]
    BY <1>1, <1>2 DEF IInv, ViaInv
  <2>2. \A d \in Streams : via'[d] = IF d = dec THEN requester ELSE via[d]
    BY <1>2 DEF IInv, ViaInv
  <2>3. ASSUME NEW d \in Streams PROVE queue'[d].onMissing <=> via'[d] # 0
    BY <1>1, <1>3, <2>2 DEF IInv, ViaInv
  <2> QED
    BY <2>1, <2>3 DEF ViaInv
<1> QED
  BY <1>5, <1>6, <1>7, <1>8, <1>9, <1>10, <1>11, <1>12 DEF IInv

\* A reader takes a packet off its socket, leaves, or learns the decoder.
LEMMA ReaderSteps ==
    ASSUME NEW rd \in Readers
    PROVE  IInv /\ (Receive(rd) \/ Gone(rd) \/ Load(rd)) => IInv'
<1> SUFFICES ASSUME IInv, Receive(rd) \/ Gone(rd) \/ Load(rd) PROVE IInv'
  OBVIOUS
<1>1. /\ UNCHANGED <<dec, udp, running, rmu, control, decoder, batch, ring, senders, found>>
      /\ at[rd] \in {"recv", "load"} /\ at'[rd] \in {"recv", "load", "lock", "gone"}
      /\ at' = [at EXCEPT ![rd] = at'[rd]]
      /\ hand' = [hand EXCEPT ![rd] = hand'[rd]] /\ use' = [use EXCEPT ![rd] = use'[rd]]
      /\ hand'[rd] \in Packets \cup {Nothing} /\ use'[rd] \in Streams \cup {0}
      /\ at'[rd] \in {"load", "lock"} => hand'[rd] \in Packets
      /\ at'[rd] = "lock" => use'[rd] \in Streams
      /\ at'[rd] \in {"load", "lock"} => rd.of \in answered
  <2> USE DEF IInv, ReaderInv, StartInv, Goto, history
  <2>1. CASE Receive(rd)
    <3>1. PICK s \in live : \E k \in 0 .. sent[s] - 1 : hand' = [hand EXCEPT ![rd] = [of |-> s, no |-> k]]
      BY <2>1 DEF Receive
    <3>2. PICK k \in 0 .. sent[s] - 1 : hand' = [hand EXCEPT ![rd] = [of |-> s, no |-> k]]
      BY <3>1
    <3>3. [of |-> s, no |-> k] \in Packets
      <4>1. s \in Streams
        BY DEF CtlInv
      <4>2. sent[s] \in Nat
        BY <4>1 DEF CtlInv
      <4> QED
        BY <4>1, <4>2 DEF Packets
    <3>4. hand'[rd] \in Packets /\ hand' = [hand EXCEPT ![rd] = hand'[rd]]
      BY <3>3, <3>2
    <3> QED
      BY <2>1, <3>4 DEF Receive
  <2>2. CASE Gone(rd)
    BY <2>2 DEF Gone
  <2>3. CASE Load(rd)
    <3>1. dec \in Streams \cup {0} /\ rd.of \in answered /\ hand[rd] \in Packets
      BY <2>3 DEF Load, CtlInv
    <3>2. CASE dec = 0
      BY <2>3, <3>2 DEF Load
    <3>3. CASE dec # 0
      BY <2>3, <3>1, <3>3 DEF Load
    <3> QED
      BY <3>2, <3>3
  <2> QED
    BY <2>1, <2>2, <2>3
<1>2. \A r \in Readers : r # rd => at'[r] = at[r] /\ hand'[r] = hand[r] /\ use'[r] = use[r]
  BY <1>1 DEF IInv, ReaderInv
<1>3. CtlInv'
  BY <1>1 DEF IInv, CtlInv, Handled, control, senders
<1>4. \A r \in Readers : /\ at'[r] = "decode" <=> at[r] = "decode"
                         /\ at[r] = "decode" => use'[r] = use[r]
  BY <1>1, <1>2
<1>5. ReaderInv'
  <2>1. /\ at' \in [Readers -> {"none", "recv", "load", "lock", "decode", "gone"}]
        /\ use' \in [Readers -> Streams \cup {0}]
        /\ hand' \in [Readers -> Packets \cup {Nothing}]
    <3> DEFINE Labels == {"none", "recv", "load", "lock", "decode", "gone"}
               Hands  == Packets \cup {Nothing}
    <3>1. at \in [Readers -> Labels] /\ at'[rd] \in Labels /\ at' = [at EXCEPT ![rd] = at'[rd]]
      BY <1>1 DEF IInv, ReaderInv
    <3>2. /\ use \in [Readers -> Streams \cup {0}] /\ use'[rd] \in Streams \cup {0}
          /\ use' = [use EXCEPT ![rd] = use'[rd]]
      BY <1>1 DEF IInv, ReaderInv
    <3>3. hand \in [Readers -> Hands] /\ hand'[rd] \in Hands /\ hand' = [hand EXCEPT ![rd] = hand'[rd]]
      BY <1>1 DEF IInv, ReaderInv
    <3> HIDE DEF Labels, Hands
    <3>4. at' \in [Readers -> Labels]
      BY <3>1
    <3>5. use' \in [Readers -> Streams \cup {0}]
      BY <3>2
    <3>6. hand' \in [Readers -> Hands]
      BY <3>3
    <3> QED
      BY <3>4, <3>5, <3>6 DEF Labels, Hands
  <2>2. batch[rd] = << >>
    BY <1>1 DEF IInv, ReaderInv
  <2>3. UNCHANGED <<batch, lock>>
    BY <1>1 DEF decoder
  <2>4. ASSUME NEW r \in Readers
        PROVE  /\ at'[r] \in {"load", "lock"} => hand'[r] \in Packets
               /\ at'[r] = "lock" => use'[r] \in Streams
               /\ at'[r] = "decode" => use'[r] \in Streams /\ lock[use'[r]] = r
               /\ at'[r] # "decode" => batch[r] = << >>
    <3>1. CASE r = rd
      BY <1>1, <2>2, <3>1
    <3>2. CASE r # rd
      BY <1>2, <3>2 DEF IInv, ReaderInv
    <3> QED
      BY <3>1, <3>2
  <2>5. \A d \in Streams : lock[d] # NoReader => at'[lock[d]] = "decode" /\ use'[lock[d]] = d
    BY <1>4 DEF IInv, ReaderInv
  <2> QED
    BY <2>1, <2>3, <2>4, <2>5 DEF IInv, ReaderInv
<1>6. QueuesInv'
  BY <1>1 DEF IInv, QueuesInv, Owed, decoder, senders
<1>7. HandedInv'
  BY <1>1, <1>4 DEF IInv, HandedInv, decoder
<1>8. RingInv'
  BY <1>1, <1>4 DEF IInv, RingInv, RingOrder, decoder
<1>9. CallbackInv' /\ ViaInv'
  BY <1>1 DEF IInv, CallbackInv, ViaInv, control, decoder, senders
<1>10. StartInv'
  <2>1. UNCHANGED <<ctl, setups, answered>>
    BY <1>1 DEF control, senders
  <2>2. at[rd] # "none" /\ at'[rd] # "decode"
    BY <1>1
  <2> QED
    BY <1>1, <1>2, <2>1, <2>2 DEF IInv, StartInv
<1> QED
  BY <1>3, <1>5, <1>6, <1>7, <1>8, <1>9, <1>10 DEF IInv

\* A reader that decodes holds the lock of its decoder, so there is one of them.
LEMMA OneDecodes ==
    ASSUME ReaderInv
    PROVE  /\ \A r \in Readers : at[r] = "decode" => use[r] \in Streams /\ lock[use[r]] = r
           /\ \A d \in Streams : lock[d] # NoReader =>
                 lock[d] \in Readers /\ at[lock[d]] = "decode" /\ use[lock[d]] = d
BY DEF ReaderInv

LEMMA BatchPackets ==
    ASSUME ReaderInv
    PROVE  \A r \in Readers : \A i \in 1 .. Len(batch[r]) :
              batch[r][i] \in Packets /\ batch[r][i].no \in Nat
<1>1. \A r \in Readers : batch[r] \in Seq(Packets)
  BY DEF ReaderInv
<1>2. \A r \in Readers : \A i \in 1 .. Len(batch[r]) : batch[r][i] \in Packets
  BY <1>1
<1> QED
  BY <1>2 DEF Packets

\* A reader hands its packet to push, under the lock.
LEMMA PushStep ==
    ASSUME NEW rd \in Readers
    PROVE  IInv /\ Push(rd) => IInv'
<1> SUFFICES ASSUME IInv, Push(rd) PROVE IInv'
  OBVIOUS
<1> DEFINE d == use[rd]
           q == queue[d]
           n == queue'[d]
           b == batch'[rd]
<1>1. /\ d \in Streams /\ lock[d] = NoReader /\ at[rd] = "lock"
      /\ hand[rd] \in Packets /\ batch[rd] = << >> /\ QueueInv(q) /\ q \in Queues
  BY DEF IInv, ReaderInv, QueuesInv, QueueInv, Push
<1>2. /\ lock' = [lock EXCEPT ![d] = rd] /\ at' = [at EXCEPT ![rd] = "decode"]
      /\ hand' = [hand EXCEPT ![rd] = Nothing]
      /\ UNCHANGED <<dec, udp, running, rmu, control, use, ring,
                     announced, setups, answered, live, sent, via, found>>
  BY DEF Push, Goto, Holds, history
<1>3. /\ q.started \in BOOLEAN /\ q.due \in Nat /\ q.base \in Nat
      /\ q.wrote \in Nat /\ q.errors \in Nat /\ q.lost \in Nat
  BY <1>1, QueueFields
<1>4. ((q.wrote + q.errors) + q.lost) + 0 = q.due - q.base
  BY <1>1 DEF IInv, QueuesInv, Owed
<1>5. /\ QueueInv(n) /\ n.onMissing = q.onMissing /\ q.due <= n.due
      /\ ((n.wrote + n.errors) + n.lost) + Len(b) = n.due - n.base
      /\ b \in Seq(Packets)
      /\ \A i \in 1 .. Len(b) : q.due <= b[i].no /\ b[i].no < n.due
      /\ \A i, j \in 1 .. Len(b) : i < j => b[i].no < b[j].no
      /\ queue' = [queue EXCEPT ![d] = n] /\ batch' = [batch EXCEPT ![rd] = b]
      /\ asked' \in [Setups -> SUBSET Nat]
  <2>1. CASE Late(q, hand[rd])
    <3>1. UNCHANGED <<queue, batch, asked>>
      BY <2>1 DEF Push
    <3>2. /\ n = q /\ b = << >> /\ asked' = asked
          /\ queue' = [queue EXCEPT ![d] = n] /\ batch' = [batch EXCEPT ![rd] = b]
      BY <1>1, <3>1 DEF IInv, QueuesInv, ReaderInv
    <3>3. asked \in [Setups -> SUBSET Nat]
      BY DEF IInv, QueuesInv
    <3> QED
      BY <1>1, <1>3, <1>4, <3>2, <3>3
  <2>2. CASE ~Late(q, hand[rd])
    <3> DEFINE r == Pushed(q, hand[rd])
    <3>1. /\ QueueInv(r.queue)
          /\ r.queue.onMissing = q.onMissing /\ r.queue.wrote = q.wrote
          /\ r.queue.errors = q.errors /\ q.due <= r.queue.due
          /\ r.ready \in Seq(Packets)
          /\ (r.queue.lost + Len(r.ready)) + (q.due - q.base)
                = q.lost + (r.queue.due - r.queue.base)
          /\ \A i \in 1 .. Len(r.ready) :
                q.due <= r.ready[i].no /\ r.ready[i].no < r.queue.due
          /\ \A i, j \in 1 .. Len(r.ready) : i < j => r.ready[i].no < r.ready[j].no
          /\ r.asks \subseteq Nat
      BY <1>1, <2>2, PushedIs
    <3>2. /\ queue' = [queue EXCEPT ![d] = r.queue] /\ batch' = [batch EXCEPT ![rd] = r.ready]
          /\ asked' = [k \in Setups |-> IF k = via[d] /\ Open(k) THEN asked[k] \cup r.asks
                                                                ELSE asked[k]]
      BY <2>2 DEF Push
    <3> HIDE DEF r
    <3>3. n = r.queue /\ b = r.ready
      BY <1>1, <3>2 DEF IInv, QueuesInv, ReaderInv
    <3>4. asked' \in [Setups -> SUBSET Nat]
      <4>1. asked \in [Setups -> SUBSET Nat]
        BY DEF IInv, QueuesInv
      <4> QED
        BY <3>1, <3>2, <4>1
    <3>5. r.queue.lost \in Nat /\ r.queue.due \in Nat /\ r.queue.base \in Nat /\ Len(r.ready) \in Nat
      BY <3>1, QueueFields DEF QueueInv
    <3>6. ((n.wrote + n.errors) + n.lost) + Len(b) = n.due - n.base
      <4> DEFINE k == Len(b)
                 g == n.due - n.base
                 h == q.due - q.base
      <4>1. /\ n.wrote = q.wrote /\ n.errors = q.errors
            /\ (n.lost + k) + h = q.lost + g
            /\ n.lost \in Nat /\ k \in Nat /\ g \in Int
        <5> HIDE DEF n, b, q
        <5> QED
          BY <3>1, <3>3, <3>5
      <4>2. /\ q.wrote \in Nat /\ q.errors \in Nat /\ q.lost \in Nat /\ h \in Int
            /\ (q.wrote + q.errors) + q.lost = h
        BY <1>3, <1>4
      <4> HIDE DEF n, b, q, k, g, h
      <4>3. ((n.wrote + n.errors) + n.lost) + k = g
        BY <4>1, <4>2
      <4> QED
        BY <4>3 DEF k, g
    <3> QED
      BY <3>1, <3>2, <3>3, <3>4, <3>6
  <2> QED
    BY <2>1, <2>2
<1>6. \A e \in Streams : e # d => queue'[e] = queue[e] /\ lock'[e] = lock[e]
  BY <1>2, <1>5 DEF IInv, QueuesInv, ReaderInv
<1>7. \A r \in Readers : r # rd => at'[r] = at[r] /\ hand'[r] = hand[r] /\ batch'[r] = batch[r]
  BY <1>2, <1>5 DEF IInv, ReaderInv
<1>8. lock'[d] = rd /\ at'[rd] = "decode" /\ hand'[rd] = Nothing
  BY <1>1, <1>2 DEF IInv, ReaderInv
<1>9. rd # NoReader
  BY ChoicesAssumption
<1>10. \A r \in Readers : r # rd /\ at[r] = "decode" => use[r] \in Streams /\ use[r] # d
  BY <1>1, <1>9, ChoicesAssumption, OneDecodes DEF IInv
<1>11. n.due \in Nat /\ n \in Queues
  BY <1>5, QueueFields DEF QueueInv
<1>12. use'[rd] = d /\ use' = use /\ ring' = ring
  BY <1>2
<1> HIDE DEF d, q, n, b
<1>13. CtlInv'
  BY <1>2 DEF IInv, CtlInv, Handled, control
<1>14. ReaderInv'
  <2>1. /\ at' \in [Readers -> {"none", "recv", "load", "lock", "decode", "gone"}]
        /\ use' \in [Readers -> Streams \cup {0}]
    BY <1>2 DEF IInv, ReaderInv
  <2>2. hand' \in [Readers -> Packets \cup {Nothing}]
    BY <1>2 DEF IInv, ReaderInv
  <2>3. batch' \in [Readers -> Seq(Packets)]
    BY <1>5 DEF IInv, ReaderInv
  <2>4. lock' \in [Streams -> Readers \cup {NoReader}]
    BY <1>2 DEF IInv, ReaderInv
  <2>5. ASSUME NEW r \in Readers
        PROVE  /\ at'[r] \in {"load", "lock"} => hand'[r] \in Packets
               /\ at'[r] = "lock" => use'[r] \in Streams
               /\ at'[r] = "decode" => use'[r] \in Streams /\ lock'[use'[r]] = r
               /\ at'[r] # "decode" => batch'[r] = << >>
    <3>1. CASE r = rd
      BY <1>1, <1>8, <1>12, <3>1 DEF IInv, ReaderInv
    <3>2. CASE r # rd
      BY <1>6, <1>7, <1>10, <1>12, <3>2 DEF IInv, ReaderInv
    <3> QED
      BY <3>1, <3>2
  <2>6. ASSUME NEW e \in Streams, lock'[e] # NoReader
        PROVE  at'[lock'[e]] = "decode" /\ use'[lock'[e]] = e
    <3>1. CASE e = d
      BY <1>8, <1>12, <3>1
    <3>2. CASE e # d
      <4>1. lock[e] \in Readers /\ at[lock[e]] = "decode" /\ use[lock[e]] = e
        BY <1>6, <2>6, <3>2, OneDecodes DEF IInv
      <4>2. lock[e] # rd
        BY <1>1, <4>1
      <4> QED
        BY <1>6, <1>7, <1>12, <3>2, <4>1, <4>2
    <3> QED
      BY <3>1, <3>2
  <2> QED
    BY <1>2, <2>1, <2>2, <2>3, <2>4, <2>5, <2>6 DEF ReaderInv
<1>15. QueuesInv'
  <2>1. queue' \in [Streams -> Queues]
    BY <1>5, <1>11 DEF IInv, QueuesInv
  <2>2. ASSUME NEW e \in Streams
        PROVE  /\ QueueInv(queue'[e])
               /\ ((queue'[e].wrote + queue'[e].errors) + queue'[e].lost) + Owed(e)'
                     = queue'[e].due - queue'[e].base
    <3>1. CASE e = d
      <4>1. Owed(e)' = Len(b)
        BY <1>8, <1>9, <3>1 DEF Owed, b
      <4> QED
        BY <1>5, <3>1, <4>1 DEF n
    <3>2. CASE e # d
      <4>1. Owed(e)' = Owed(e)
        <5>1. lock[e] # NoReader => lock[e] \in Readers /\ lock[e] # rd
          BY <1>1, OneDecodes DEF IInv
        <5> QED
          BY <1>6, <1>7, <3>2, <5>1 DEF Owed
      <4> QED
        BY <1>6, <3>2, <4>1 DEF IInv, QueuesInv
    <3> QED
      BY <3>1, <3>2
  <2> QED
    BY <1>5, <2>1, <2>2 DEF QueuesInv
<1>16. HandedInv'
  <2> SUFFICES ASSUME NEW r \in Readers, at'[r] = "decode"
               PROVE  /\ \A i \in 1 .. Len(batch'[r]) : batch'[r][i].no < queue'[use[r]].due
                      /\ \A i, j \in 1 .. Len(batch'[r]) :
                            i < j => batch'[r][i].no < batch'[r][j].no
    BY <1>12 DEF HandedInv
  <2>1. CASE r = rd
    BY <1>5, <2>1 DEF b, n, d
  <2>2. CASE r # rd
    BY <1>6, <1>7, <1>10, <2>2 DEF IInv, HandedInv
  <2> QED
    BY <2>1, <2>2
<1>17. RingInv'
  <2>1. \A i \in 1 .. Len(ring) : ring[i].by \in Streams /\ ring[i].no \in Nat
    BY RingEntries DEF IInv
  <2>2. \A i \in 1 .. Len(ring) : ring[i].by = d => ring[i].no < q.due
    BY DEF IInv, RingInv, q
  <2>3. \A i \in 1 .. Len(ring) : ring[i].no < queue'[ring[i].by].due
    <3> SUFFICES ASSUME NEW i \in 1 .. Len(ring) PROVE ring[i].no < queue'[ring[i].by].due
      OBVIOUS
    <3>1. CASE ring[i].by = d
      <4>1. ring[i].no < n.due
        BY <1>3, <1>5, <1>11, <2>1, <2>2, <3>1
      <4> QED
        BY <3>1, <4>1 DEF n
    <3>2. CASE ring[i].by # d
      BY <1>6, <2>1, <3>2 DEF IInv, RingInv
    <3> QED
      BY <3>1, <3>2
  <2>4. ASSUME NEW r \in Readers, at'[r] = "decode",
               NEW i \in 1 .. Len(ring), NEW k \in 1 .. Len(batch'[r]), ring[i].by = use[r]
        PROVE  ring[i].no < batch'[r][k].no
    <3>1. CASE r = rd
      <4>1. ring[i].no < q.due /\ q.due <= b[k].no
        BY <1>5, <2>2, <2>4, <3>1 DEF b, d
      <4>2. b[k].no \in Nat
        <5>1. b[k] \in Packets
          BY <1>5, <2>4, <3>1 DEF b
        <5> QED
          BY <5>1 DEF Packets
      <4> QED
        BY <1>3, <2>1, <3>1, <4>1, <4>2 DEF b
    <3>2. CASE r # rd
      BY <1>7, <2>4, <3>2 DEF IInv, RingInv
    <3> QED
      BY <3>1, <3>2
  <2> QED
    BY <1>12, <2>3, <2>4 DEF IInv, RingInv, RingOrder
<1>18. CallbackInv' /\ ViaInv'
  <2>1. \A e \in Streams : queue'[e].onMissing = queue[e].onMissing
    BY <1>5, <1>6 DEF n, q
  <2>2. answered \subseteq Setups
    BY AnsweredAre DEF IInv
  <2>3. ViaInv'
    BY <1>2, <2>1 DEF IInv, ViaInv
  <2> QED
    BY <1>2, <2>1, <2>2, <2>3 DEF IInv, CallbackInv, control
<1>19. StartInv'
  <2>1. UNCHANGED <<ctl, setups, answered>>
    BY <1>2 DEF control
  <2> QED
    BY <1>1, <1>7, <1>8, <2>1 DEF IInv, StartInv
<1> QED
  BY <1>13, <1>14, <1>15, <1>16, <1>17, <1>18, <1>19 DEF IInv

\* Ring.Write appends, and drops the first packet of a full ring.
LEMMA WrittenIs ==
    ASSUME ring \in Seq(Entries), Len(ring) <= Room, NEW e \in Entries
    PROVE  LET t == Written(e) IN
           /\ t \in Seq(Entries) /\ Len(t) \in 1 .. Room
           /\ t[Len(t)] = e
           /\ \E o \in {0, 1} : \A i \in 1 .. Len(t) - 1 : /\ i + o \in 1 .. Len(ring)
                                                           /\ t[i] = ring[i + o]
<1> DEFINE t == Written(e)
<1>1. Len(ring) \in Nat
  OBVIOUS
<1>2. CASE Len(ring) = Room
  <2>1. ring # << >>
    BY <1>2, SizesAssumption
  <2> DEFINE r == Tail(ring)
  <2>2. /\ r \in Seq(Entries) /\ Len(r) = Len(ring) - 1
        /\ \A i \in 1 .. Len(r) : r[i] = ring[i + 1]
    BY <2>1
  <2>3. t = Append(r, e)
    BY <1>2 DEF Written
  <2> HIDE DEF t, r
  <2>4. /\ t \in Seq(Entries) /\ Len(t) = Len(r) + 1 /\ t[Len(t)] = e
        /\ \A i \in 1 .. Len(r) : t[i] = r[i]
    BY <2>2, <2>3
  <2>5. Len(t) = Room /\ \A i \in 1 .. Len(t) - 1 : i \in 1 .. Len(r)
    BY <1>1, <1>2, <2>2, <2>4, SizesAssumption
  <2>6. \A i \in 1 .. Len(t) - 1 : i + 1 \in 1 .. Len(ring) /\ t[i] = ring[i + 1]
    BY <1>1, <2>2, <2>4, <2>5
  <2> QED
    BY <2>4, <2>5, <2>6, SizesAssumption DEF t
<1>3. CASE Len(ring) # Room
  <2>1. t = Append(ring, e)
    BY <1>3 DEF Written
  <2> HIDE DEF t
  <2>2. /\ t \in Seq(Entries) /\ Len(t) = Len(ring) + 1 /\ t[Len(t)] = e
        /\ \A i \in 1 .. Len(ring) : t[i] = ring[i]
    BY <2>1
  <2>3. Len(t) \in 1 .. Room
    BY <1>1, <1>3, <2>2, SizesAssumption
  <2>4. \A i \in 1 .. Len(t) - 1 : i + 0 \in 1 .. Len(ring) /\ t[i] = ring[i + 0]
    BY <1>1, <2>2
  <2> QED
    BY <2>2, <2>3, <2>4 DEF t
<1> QED
  BY <1>2, <1>3

LEMMA Counted ==
    ASSUME NEW q, QueueInv(q), q.started
    PROVE  LET n == [q EXCEPT !.wrote = @ + 1]
               m == [q EXCEPT !.errors = @ + 1]
           IN  /\ QueueInv(n) /\ n.due = q.due /\ n.base = q.base /\ n.lost = q.lost
               /\ n.wrote = q.wrote + 1 /\ n.errors = q.errors /\ n.onMissing = q.onMissing
               /\ QueueInv(m) /\ m.due = q.due /\ m.base = q.base /\ m.lost = q.lost
               /\ m.wrote = q.wrote /\ m.errors = q.errors + 1 /\ m.onMissing = q.onMissing
<1> DEFINE n == [q EXCEPT !.wrote = @ + 1]
           m == [q EXCEPT !.errors = @ + 1]
<1>1. q \in Queues
  BY DEF QueueInv
<1>2. n \in Queues /\ m \in Queues
  BY <1>1 DEF Queues
<1>3. /\ n.due = q.due /\ n.base = q.base /\ n.lost = q.lost
      /\ n.wrote = q.wrote + 1 /\ n.errors = q.errors /\ n.onMissing = q.onMissing
      /\ n.held = q.held /\ n.started = q.started
  BY <1>1 DEF Queues
<1>4. /\ m.due = q.due /\ m.base = q.base /\ m.lost = q.lost
      /\ m.wrote = q.wrote /\ m.errors = q.errors + 1 /\ m.onMissing = q.onMissing
      /\ m.held = q.held /\ m.started = q.started
  BY <1>1 DEF Queues
<1> HIDE DEF n, m
<1>5. QueueInv(n)
  BY <1>2, <1>3 DEF QueueInv
<1>6. QueueInv(m)
  BY <1>2, <1>4 DEF QueueInv
<1> QED
  BY <1>3, <1>4, <1>5, <1>6 DEF n, m

\* One packet is decoded and written, or is an error.
LEMMA DecodeStep ==
    ASSUME NEW rd \in Readers
    PROVE  IInv /\ Decode(rd) => IInv'
<1> SUFFICES ASSUME IInv, Decode(rd) PROVE IInv'
  OBVIOUS
<1> DEFINE d == use[rd]
           q == queue[d]
           n == queue'[d]
           b == batch[rd]
           p == Head(b)
           e == [by |-> d, of |-> p.of, no |-> p.no]
<1>1. at[rd] = "decode" /\ b # << >> /\ d \in Streams /\ lock[d] = rd
  BY DEF IInv, ReaderInv, Decode
<1>2. /\ batch' = [batch EXCEPT ![rd] = Tail(b)]
      /\ UNCHANGED <<dec, udp, running, rmu, control, lock, via, at, hand, use, senders, found>>
      /\ \/ ring' = Written(e) /\ queue' = [queue EXCEPT ![d].wrote = @ + 1]
         \/ ring' = ring /\ queue' = [queue EXCEPT ![d].errors = @ + 1]
  BY DEF Decode, AfterError, history
<1>3. /\ b \in Seq(Packets) /\ Len(b) \in Nat /\ Len(b) >= 1 /\ p = b[1] /\ p \in Packets
      /\ Tail(b) \in Seq(Packets) /\ Len(Tail(b)) = Len(b) - 1
      /\ \A i \in 1 .. Len(b) - 1 : Tail(b)[i] = b[i + 1] /\ i + 1 \in 1 .. Len(b)
  <2>1. b \in Seq(Packets)
    BY DEF IInv, ReaderInv
  <2> HIDE DEF b
  <2>2. Len(b) \in Nat /\ Len(b) >= 1
    BY <1>1, <2>1
  <2> QED
    BY <1>1, <2>1, <2>2
<1>4. /\ \A i \in 1 .. Len(b) : b[i].no \in Nat /\ b[i].no < q.due
      /\ \A i, j \in 1 .. Len(b) : i < j => b[i].no < b[j].no
  <2>1. \A i \in 1 .. Len(b) : b[i].no \in Nat
    BY BatchPackets DEF IInv
  <2> QED
    BY <1>1, <2>1 DEF IInv, HandedInv
<1>5. QueueInv(q) /\ q.started
  <2>1. QueueInv(q)
    BY <1>1 DEF IInv, QueuesInv
  <2>2. q.due # 0
    <3>1. 1 \in 1 .. Len(b)
      BY <1>3
    <3> HIDE DEF b, q
    <3> QED
      BY <1>4, <3>1
  <2> QED
    BY <2>1, <2>2 DEF QueueInv
<1>6. /\ QueueInv(n) /\ n.due = q.due /\ n.base = q.base /\ n.lost = q.lost
      /\ n.wrote + n.errors = (q.wrote + q.errors) + 1 /\ n.onMissing = q.onMissing
      /\ \A s \in Streams : s # d => queue'[s] = queue[s]
      /\ queue' \in [Streams -> Queues]
  <2>1. queue \in [Streams -> Queues] /\ q.wrote \in Nat /\ q.errors \in Nat
    BY <1>5, QueueFields DEF IInv, QueuesInv, QueueInv
  <2>2. CASE queue' = [queue EXCEPT ![d].wrote = @ + 1]
    <3>1. n = [q EXCEPT !.wrote = @ + 1] /\ \A s \in Streams : s # d => queue'[s] = queue[s]
      BY <1>1, <2>1, <2>2
    <3>2. /\ QueueInv(n) /\ n.due = q.due /\ n.base = q.base /\ n.lost = q.lost
          /\ n.wrote = q.wrote + 1 /\ n.errors = q.errors /\ n.onMissing = q.onMissing
      <4> DEFINE x == [q EXCEPT !.wrote = @ + 1]
      <4>1. /\ QueueInv(x) /\ x.due = q.due /\ x.base = q.base /\ x.lost = q.lost
            /\ x.wrote = q.wrote + 1 /\ x.errors = q.errors /\ x.onMissing = q.onMissing
        <5> HIDE DEF q
        <5> QED
          BY <1>5, Counted
      <4>2. n = x
        BY <3>1
      <4> HIDE DEF x, n
      <4> QED
        BY <4>1, <4>2
    <3>3. n \in Queues /\ queue' = [queue EXCEPT ![d] = n]
      BY <1>1, <2>1, <2>2, <3>2 DEF QueueInv
    <3> HIDE DEF n, q
    <3>4. queue' \in [Streams -> Queues]
      BY <2>1, <3>3
    <3> QED
      BY <2>1, <3>1, <3>2, <3>4
  <2>3. CASE queue' = [queue EXCEPT ![d].errors = @ + 1]
    <3>1. n = [q EXCEPT !.errors = @ + 1] /\ \A s \in Streams : s # d => queue'[s] = queue[s]
      BY <1>1, <2>1, <2>3
    <3>2. /\ QueueInv(n) /\ n.due = q.due /\ n.base = q.base /\ n.lost = q.lost
          /\ n.wrote = q.wrote /\ n.errors = q.errors + 1 /\ n.onMissing = q.onMissing
      <4> DEFINE x == [q EXCEPT !.errors = @ + 1]
      <4>1. /\ QueueInv(x) /\ x.due = q.due /\ x.base = q.base /\ x.lost = q.lost
            /\ x.wrote = q.wrote /\ x.errors = q.errors + 1 /\ x.onMissing = q.onMissing
        <5> HIDE DEF q
        <5> QED
          BY <1>5, Counted
      <4>2. n = x
        BY <3>1
      <4> HIDE DEF x, n
      <4> QED
        BY <4>1, <4>2
    <3>3. n \in Queues /\ queue' = [queue EXCEPT ![d] = n]
      BY <1>1, <2>1, <2>3, <3>2 DEF QueueInv
    <3> HIDE DEF n, q
    <3>4. queue' \in [Streams -> Queues]
      BY <2>1, <3>3
    <3> QED
      BY <2>1, <3>1, <3>2, <3>4
  <2> QED
    BY <1>2, <2>2, <2>3
<1>7. batch'[rd] = Tail(b) /\ \A r \in Readers : r # rd => batch'[r] = batch[r]
  BY <1>2 DEF IInv, ReaderInv
<1>8. \A r \in Readers : r # rd /\ at[r] = "decode" => use[r] \in Streams /\ use[r] # d
  BY <1>1, OneDecodes DEF IInv
<1>9. e \in Entries /\ e.by = d /\ e.no = p.no
  BY <1>1, <1>3 DEF Entries, Packets
<1>10. rd # NoReader
  BY ChoicesAssumption
<1>11. \A s \in Streams : queue'[s].due = queue[s].due /\ queue'[s].onMissing = queue[s].onMissing
  BY <1>6
<1> HIDE DEF e, p, b, n, q, d
<1>12. CtlInv' /\ StartInv'
  BY <1>2 DEF IInv, CtlInv, Handled, StartInv, control, senders
<1>13. ReaderInv'
  <2>1. batch' \in [Readers -> Seq(Packets)]
    BY <1>2, <1>3 DEF IInv, ReaderInv
  <2>2. \A r \in Readers : at[r] # "decode" => batch'[r] = << >>
    BY <1>1, <1>7 DEF IInv, ReaderInv
  <2> QED
    BY <1>2, <2>1, <2>2 DEF IInv, ReaderInv, senders
<1>14. QueuesInv'
  <2>1. asked' \in [Setups -> SUBSET Nat]
    BY <1>2 DEF IInv, QueuesInv, senders
  <2>2. ASSUME NEW s \in Streams
        PROVE  /\ QueueInv(queue'[s])
               /\ ((queue'[s].wrote + queue'[s].errors) + queue'[s].lost) + Owed(s)'
                     = queue'[s].due - queue'[s].base
    <3>1. CASE s = d
      <4>1. Owed(s)' = Len(Tail(b)) /\ Owed(s) = Len(b)
        BY <1>1, <1>2, <1>7, <1>10, <3>1 DEF Owed, b
      <4>2. ((q.wrote + q.errors) + q.lost) + Len(b) = q.due - q.base
        BY <3>1, <4>1 DEF IInv, QueuesInv, q
      <4>3. /\ q.wrote \in Nat /\ q.errors \in Nat /\ q.lost \in Nat
            /\ q.due \in Nat /\ q.base \in Nat
        BY <1>5, QueueFields DEF QueueInv
      <4>4. ((n.wrote + n.errors) + n.lost) + Len(Tail(b)) = n.due - n.base
        <5> DEFINE l == Len(b)
                   k == Len(Tail(b))
                   g == q.due - q.base
                   w == q.wrote + q.errors
                   v == n.wrote + n.errors
        <5>1. l \in Nat /\ k = l - 1 /\ g \in Int /\ w \in Nat /\ v = w + 1 /\ (w + q.lost) + l = g
          BY <1>3, <1>6, <4>2, <4>3
        <5>2. n.due - n.base = g /\ n.lost = q.lost
          BY <1>6
        <5> HIDE DEF l, k, g, w, v
        <5>3. (v + q.lost) + k = g
          BY <4>3, <5>1
        <5> QED
          BY <5>2, <5>3 DEF v, k
      <4> QED
        BY <1>6, <3>1, <4>1, <4>4 DEF n
    <3>2. CASE s # d
      <4>1. Owed(s)' = Owed(s)
        <5>1. lock[s] # NoReader => lock[s] \in Readers /\ lock[s] # rd
          BY <3>2, OneDecodes DEF IInv, d
        <5> QED
          BY <1>2, <1>7, <5>1 DEF Owed
      <4> QED
        BY <1>6, <3>2, <4>1 DEF IInv, QueuesInv
    <3> QED
      BY <3>1, <3>2
  <2> QED
    BY <1>6, <2>1, <2>2 DEF QueuesInv
<1>15. HandedInv'
  <2> SUFFICES ASSUME NEW r \in Readers, at[r] = "decode"
               PROVE  /\ \A i \in 1 .. Len(batch'[r]) : batch'[r][i].no < queue'[use[r]].due
                      /\ \A i, j \in 1 .. Len(batch'[r]) :
                            i < j => batch'[r][i].no < batch'[r][j].no
    BY <1>2 DEF HandedInv
  <2>1. CASE r = rd
    <3>1. \A i \in 1 .. Len(Tail(b)) : i + 1 \in 1 .. Len(b) /\ Tail(b)[i] = b[i + 1]
      BY <1>3
    <3>2. \A i \in 1 .. Len(Tail(b)) : Tail(b)[i].no < n.due
      BY <1>4, <1>6, <3>1
    <3>3. ASSUME NEW i \in 1 .. Len(Tail(b)), NEW j \in 1 .. Len(Tail(b)), i < j
          PROVE  Tail(b)[i].no < Tail(b)[j].no
      <4>1. i + 1 < j + 1
        BY <3>3
      <4> QED
        BY <1>4, <3>1, <4>1
    <3> QED
      BY <1>7, <2>1, <3>2, <3>3 DEF n, d
  <2>2. CASE r # rd
    BY <1>6, <1>7, <1>8, <2>2 DEF IInv, HandedInv
  <2> QED
    BY <2>1, <2>2
<1>16. RingInv'
  <2>1. \A i \in 1 .. Len(ring) : ring[i].by \in Streams /\ ring[i].no \in Nat
    BY RingEntries DEF IInv
  <2>2. \A i, j \in 1 .. Len(ring) : i < j /\ ring[i].by = ring[j].by => ring[i].no < ring[j].no
    BY DEF IInv, RingInv, RingOrder
  <2>3. \A i \in 1 .. Len(ring) : ring[i].no < queue'[ring[i].by].due
    BY <1>11, <2>1 DEF IInv, RingInv
  <2>4. \A i \in 1 .. Len(ring), k \in 1 .. Len(b) : ring[i].by = d => ring[i].no < b[k].no
    BY <1>1 DEF IInv, RingInv, b, d
  <2>5. \A i \in 1 .. Len(ring), k \in 1 .. Len(Tail(b)) : ring[i].by = d => ring[i].no < Tail(b)[k].no
    BY <1>3, <2>4
  <2>6. ASSUME NEW r \in Readers, at[r] = "decode",
               NEW i \in 1 .. Len(ring), NEW k \in 1 .. Len(batch'[r]), ring[i].by = use[r]
        PROVE  ring[i].no < batch'[r][k].no
    <3>1. CASE r = rd
      BY <1>7, <2>5, <2>6, <3>1 DEF d
    <3>2. CASE r # rd
      BY <1>7, <2>6, <3>2 DEF IInv, RingInv
    <3> QED
      BY <3>1, <3>2
  <2>7. ring \in Seq(Entries) /\ Len(ring) <= Room
    BY DEF IInv, RingInv
  <2>8. CASE ring' = ring
    <3>1. RingOrder'
      BY <2>2, <2>8 DEF RingOrder
    <3> QED
      BY <1>2, <2>3, <2>6, <2>7, <2>8, <3>1 DEF RingInv
  <2>9. CASE ring' = Written(e)
    <3> DEFINE t == ring'
               l == Len(t)
    <3>1. /\ t \in Seq(Entries) /\ l \in 1 .. Room /\ t[l] = e
          /\ \E o \in {0, 1} : \A i \in 1 .. l - 1 : i + o \in 1 .. Len(ring) /\ t[i] = ring[i + o]
      BY <1>9, <2>7, <2>9, WrittenIs
    <3>2. PICK o \in {0, 1} : \A i \in 1 .. l - 1 : i + o \in 1 .. Len(ring) /\ t[i] = ring[i + o]
      BY <3>1
    <3> HIDE DEF t, l
    <3>3. l \in Nat /\ \A i \in 1 .. l : i = l \/ i \in 1 .. l - 1
      BY <3>1
    <3>4. 1 \in 1 .. Len(b) /\ e.no = b[1].no /\ e.by = d /\ e.no \in Nat
      BY <1>3, <1>4, <1>9
    <3>5. \A i \in 1 .. l : t[i].by \in Streams /\ t[i].no < queue'[t[i].by].due
      <4>1. e.no < queue'[d].due
        BY <1>4, <1>6, <3>4 DEF n
      <4> QED
        BY <1>1, <2>1, <2>3, <3>1, <3>2, <3>3, <3>4, <4>1
    <3>6. ASSUME NEW i \in 1 .. l, NEW j \in 1 .. l, i < j, t[i].by = t[j].by
          PROVE  t[i].no < t[j].no
      <4>1. i \in 1 .. l - 1
        BY <3>3, <3>6
      <4>2. i + o \in 1 .. Len(ring) /\ t[i] = ring[i + o]
        BY <3>2, <4>1
      <4>3. CASE j = l
        BY <2>4, <3>1, <3>4, <3>6, <4>2, <4>3
      <4>4. CASE j \in 1 .. l - 1
        <5>1. j + o \in 1 .. Len(ring) /\ t[j] = ring[j + o] /\ i + o < j + o
          BY <3>2, <3>6, <4>4
        <5> QED
          BY <2>2, <3>6, <4>2, <5>1
      <4> QED
        BY <3>3, <4>3, <4>4
    <3>7. ASSUME NEW r \in Readers, at[r] = "decode",
                 NEW i \in 1 .. l, NEW k \in 1 .. Len(batch'[r]), t[i].by = use[r]
          PROVE  t[i].no < batch'[r][k].no
      <4>1. CASE i \in 1 .. l - 1
        <5>1. i + o \in 1 .. Len(ring) /\ t[i] = ring[i + o]
          BY <3>2, <4>1
        <5> QED
          BY <2>6, <3>7, <5>1
      <4>2. CASE i = l
        <5>1. use[r] = d /\ r = rd
          BY <1>8, <3>1, <3>4, <3>7, <4>2
        <5>2. k \in 1 .. Len(Tail(b)) /\ batch'[r][k] = Tail(b)[k]
          BY <1>7, <3>7, <5>1
        <5>3. k + 1 \in 1 .. Len(b) /\ Tail(b)[k] = b[k + 1] /\ 1 < k + 1
          BY <1>3, <5>2
        <5> QED
          BY <1>4, <3>1, <3>4, <4>2, <5>2, <5>3
      <4> QED
        BY <3>3, <4>1, <4>2
    <3>8. RingOrder'
      BY <3>6 DEF RingOrder, t, l
    <3>9. ring' \in Seq(Entries) /\ Len(ring') <= Room
      BY <3>1, SizesAssumption DEF t, l
    <3> QED
      BY <1>2, <3>5, <3>7, <3>8, <3>9 DEF RingInv, t, l
  <2> QED
    BY <1>2, <2>8, <2>9
<1>17. CallbackInv' /\ ViaInv'
  <2>1. answered \subseteq Setups
    BY AnsweredAre DEF IInv
  <2>2. ViaInv'
    BY <1>2, <1>11 DEF IInv, ViaInv
  <2> QED
    BY <1>2, <1>11, <2>1, <2>2 DEF IInv, CallbackInv, control, senders
<1> QED
  BY <1>12, <1>13, <1>14, <1>15, <1>16, <1>17 DEF IInv

\* Packet returns, with nothing left to decode, and gives the lock back.
LEMMA ReturnStep ==
    ASSUME NEW rd \in Readers
    PROVE  IInv /\ Return(rd) => IInv'
<1> SUFFICES ASSUME IInv, Return(rd) PROVE IInv'
  OBVIOUS
<1> DEFINE d == use[rd]
<1>1. at[rd] = "decode" /\ batch[rd] = << >> /\ d \in Streams /\ lock[d] = rd
  BY DEF IInv, ReaderInv, Return
<1>2. /\ lock' = [lock EXCEPT ![d] = NoReader] /\ use' = [use EXCEPT ![rd] = 0]
      /\ at' = [at EXCEPT ![rd] = "recv"]
      /\ UNCHANGED <<dec, udp, running, rmu, control, queue, via, hand, batch, ring, senders, found>>
  BY DEF Return, Goto, history
<1>3. /\ lock'[d] = NoReader /\ \A e \in Streams : e # d => lock'[e] = lock[e]
      /\ at'[rd] = "recv"
      /\ \A r \in Readers : r # rd => at'[r] = at[r] /\ use'[r] = use[r]
  BY <1>1, <1>2 DEF IInv, ReaderInv
<1>4. rd # NoReader
  BY ChoicesAssumption
<1>5. \A e \in Streams : e # d /\ lock[e] # NoReader => lock[e] \in Readers /\ lock[e] # rd
  BY OneDecodes DEF IInv
<1>6. \A r \in Readers : r # rd /\ at[r] = "decode" => use[r] # d
  BY <1>1, OneDecodes DEF IInv
<1> HIDE DEF d
<1>7. CtlInv'
  BY <1>2 DEF IInv, CtlInv, Handled, control, senders
<1>8. ReaderInv'
  <2>1. at' \in [Readers -> {"none", "recv", "load", "lock", "decode", "gone"}]
    BY <1>2 DEF IInv, ReaderInv
  <2>2. use' \in [Readers -> Streams \cup {0}]
    BY <1>2 DEF IInv, ReaderInv
  <2>3. lock' \in [Streams -> Readers \cup {NoReader}]
    BY <1>2 DEF IInv, ReaderInv
  <2>4. UNCHANGED <<hand, batch>>
    BY <1>2
  <2>5. ASSUME NEW r \in Readers
        PROVE  /\ at'[r] \in {"load", "lock"} => hand[r] \in Packets
               /\ at'[r] = "lock" => use'[r] \in Streams
               /\ at'[r] = "decode" => use'[r] \in Streams /\ lock'[use'[r]] = r
               /\ at'[r] # "decode" => batch[r] = << >>
    <3>1. CASE r = rd
      BY <1>1, <1>3, <1>4, <3>1
    <3>2. CASE r # rd
      BY <1>3, <1>6, <3>2 DEF IInv, ReaderInv
    <3> QED
      BY <3>1, <3>2
  <2>6. ASSUME NEW e \in Streams, lock'[e] # NoReader
        PROVE  at'[lock'[e]] = "decode" /\ use'[lock'[e]] = e
    <3>1. e # d
      BY <1>3, <2>6
    <3> QED
      BY <1>3, <1>5, <2>6, <3>1, OneDecodes DEF IInv
  <2> QED
    BY <2>1, <2>2, <2>3, <2>4, <2>5, <2>6 DEF IInv, ReaderInv
<1>9. QueuesInv'
  <2>1. \A e \in Streams : Owed(e)' = Owed(e)
    <3> SUFFICES ASSUME NEW e \in Streams PROVE Owed(e)' = Owed(e)
      OBVIOUS
    <3>1. CASE e = d
      BY <1>1, <1>3, <1>4, <3>1 DEF Owed
    <3>2. CASE e # d
      BY <1>2, <1>3, <3>2 DEF Owed
    <3> QED
      BY <3>1, <3>2
  <2> QED
    BY <1>2, <2>1 DEF IInv, QueuesInv, senders
<1>10. \A r \in Readers : at'[r] = "decode" => at[r] = "decode" /\ use'[r] = use[r]
  BY <1>3
<1>11. HandedInv'
  BY <1>2, <1>10 DEF IInv, HandedInv
<1>12. RingInv'
  BY <1>2, <1>10 DEF IInv, RingInv, RingOrder
<1>13. CallbackInv' /\ ViaInv'
  BY <1>2 DEF IInv, CallbackInv, ViaInv, control, senders
<1>14. StartInv'
  <2>1. UNCHANGED <<ctl, setups, answered>>
    BY <1>2 DEF control, senders
  <2> QED
    BY <1>1, <1>3, <2>1 DEF IInv, StartInv
<1> QED
  BY <1>7, <1>8, <1>9, <1>11, <1>12, <1>13, <1>14 DEF IInv

LEMMA NextInvariance == IInv /\ [Next]_vars => IInv'
<1> SUFFICES ASSUME IInv, [Next]_vars PROVE IInv'
  OBVIOUS
<1>1. CASE UNCHANGED vars
  <2>1. CtlInv' /\ StartInv' /\ CallbackInv'
    BY <1>1 DEF IInv, CtlInv, Handled, StartInv, CallbackInv, vars, control, decoder,
                readers, senders, history
  <2>2. UNCHANGED <<decoder, readers, ring, asked>>
    BY <1>1 DEF vars, senders
  <2> QED
    BY <2>1, <2>2, ReadersAlone DEF IInv
<1>2. CASE \/ announce \/ (\E withControl \in BOOLEAN : setup(withControl))
           \/ record \/ teardown
  <2>1. UNCHANGED <<decoder, readers, ring, asked, answered>>
    BY <1>2 DEF announce, setup, record, teardown, senders
  <2> QED
    BY <1>2, <2>1, RequestSteps
<1>3. CASE Stats \/ closeUDP
  <2>1. UNCHANGED <<decoder, readers, ring, asked, answered>>
    BY <1>3 DEF Stats, closeUDP, senders
  <2> QED
    BY <1>3, <2>1, RequestSteps
<1>4. CASE FLUSH \/ resetRing
  BY <1>4, RingEmptied
<1>5. CASE bindUDP \/ setupPublish \/ OnMissing
  BY <1>5, Bound, Published, Installed
<1>6. ASSUME NEW s \in Streams, Send(s) PROVE IInv'
  <2>1. UNCHANGED <<decoder, readers, ring, asked, answered>>
    BY <1>6 DEF Send
  <2> QED
    BY <1>6, <2>1, RequestSteps
<1>7. ASSUME NEW rd \in Readers, Receive(rd) \/ Reading(rd) PROVE IInv'
  BY <1>7, ReaderSteps, PushStep, DecodeStep, ReturnStep DEF Reading
<1> QED
  BY <1>1, <1>2, <1>3, <1>4, <1>5, <1>6, <1>7 DEF Next, Request, Handling

\* The invariant holds of every reachable state.
THEOREM Invariance == Spec => []IInv
<1>1. Init => IInv
  BY InitInvariance
<1>2. IInv /\ [Next]_vars => IInv'
  BY NextInvariance
<1> QED
  BY <1>1, <1>2, PTL DEF Spec

\* Every variable keeps its type, a resequencer holds at most Window packets, all of
\* them past the position that is due, and who decodes holds the lock.
THEOREM TypeCorrect == Spec => []TypeOK
<1>1. IInv => TypeOK
  <2> SUFFICES ASSUME IInv PROVE TypeOK
    OBVIOUS
  <2>1. /\ dec \in Streams \cup {0} /\ udp \in Setups \cup {0}
        /\ report \in Streams \cup {0} /\ requester \in Setups \cup {0}
        /\ ctl \in {"idle", "bind", "bound", "install", "stats", "close", "reset"}
        /\ answered \subseteq Setups /\ live \subseteq Streams
    BY AnsweredAre, SetupsAre DEF IInv, CtlInv, Handled
  <2>2. running \in BOOLEAN /\ rmu \in BOOLEAN
    BY DEF IInv, CtlInv
  <2>3. /\ lock \in [Streams -> Readers \cup {NoReader}]
        /\ at \in [Readers -> {"none", "recv", "load", "lock", "decode", "gone"}]
        /\ use \in [Readers -> Streams \cup {0}]
        /\ \A rd \in Readers : at[rd] = "decode" => lock[use[rd]] = rd
    BY DEF IInv, ReaderInv
  <2> DEFINE Installs == \A d \in Streams : queue[d].onMissing <=> via[d] # 0
             Bounded(d) == /\ Cardinality(DOMAIN queue[d].held) <= Window
                          /\ \A k \in DOMAIN queue[d].held : k > queue[d].due
  <2>4. /\ via \in [Streams -> Setups \cup {0}] /\ Installs
        /\ \A d \in Streams : Bounded(d)
    BY DEF IInv, QueuesInv, QueueInv, ViaInv
  <2>5. Len(ring) <= Room
    BY DEF IInv, RingInv
  <2>6. /\ \A s \in Streams : sent[s] \in 0 .. Lengths[s]
        /\ \A n \in Setups : asked[n] \subseteq Nat
    <3>1. \A s \in Streams : Lengths[s] \in Nat /\ sent[s] \in Nat /\ sent[s] <= Lengths[s]
      BY LengthsAssumption DEF IInv, CtlInv, Streams
    <3> QED
      BY <3>1 DEF IInv, QueuesInv
  <2> QED
    <3>1. \A d \in Streams : /\ Cardinality(DOMAIN queue[d].held) <= Window
                             /\ \A k \in DOMAIN queue[d].held : k > queue[d].due
                             /\ queue[d].onMissing <=> via[d] # 0
      BY <2>4, Zenon
    <3> HIDE DEF Installs, Bounded
    <3> QED
      BY <2>1, <2>2, <2>3, <2>4, <2>5, <2>6, <3>1, Zenon DEF TypeOK
<1> QED
  BY <1>1, Invariance, PTL

\* Two sockets, two goroutines and a shared decoder, and the ring still holds what a
\* decoder wrote in stream order and no packet twice.
THEOREM RingInOrder == Spec => []RingOrder
<1>1. IInv => RingOrder
  BY DEF IInv, RingInv
<1> QED
  BY <1>1, Invariance, PTL

\* Between two calls of Packet every position that a decoder has passed was written,
\* was an error, or is counted as lost.
THEOREM EveryPacketAccounted == Spec => []OnlyBadPacketsMissing
<1>1. IInv => OnlyBadPacketsMissing
  <2> SUFFICES ASSUME IInv, NEW d \in Streams, lock[d] = NoReader
               PROVE  (queue[d].wrote + queue[d].errors) + queue[d].lost
                         = queue[d].due - queue[d].base
    BY DEF OnlyBadPacketsMissing
  <2>1. QueueInv(queue[d]) /\ Owed(d) = 0
    BY DEF IInv, QueuesInv, Owed
  <2>2. /\ queue[d].wrote \in Nat /\ queue[d].errors \in Nat /\ queue[d].lost \in Nat
        /\ queue[d].due \in Nat /\ queue[d].base \in Nat
    BY <2>1, QueueFields DEF QueueInv
  <2>3. ((queue[d].wrote + queue[d].errors) + queue[d].lost) + Owed(d)
           = queue[d].due - queue[d].base
    BY DEF IInv, QueuesInv
  <2> QED
    BY <2>1, <2>2, <2>3
<1> QED
  BY <1>1, Invariance, PTL

\* The readers of a SETUP run before it takes a lock, and yet no packet from its
\* sockets meets the decoder the SETUP found without the callback for missing
\* packets, if it named a control port: nothing arrives before it is answered,
\* and the callback is installed by then, and stays.
THEOREM CallbackInstalled == Spec => CallbackFirst
<1>1. IInv /\ [Next]_vars =>
         [\A rd \in Readers :
             at[rd] = "lock" /\ at'[rd] = "decode" /\ use[rd] = found[rd.of]
             => queue[use[rd]].onMissing]_vars
  <2>1. ASSUME IInv, NEW rd \in Readers, at[rd] = "lock", use[rd] = found[rd.of]
        PROVE  queue[use[rd]].onMissing
    <3>1. rd.of \in answered /\ use[rd] \in Streams
      BY <2>1 DEF IInv, ReaderInv, StartInv
    <3>2. use[rd] # 0
      BY <3>1, StreamsAre
    <3> QED
      BY <2>1, <3>1, <3>2 DEF IInv, CallbackInv
  <2> QED
    BY <2>1
<1> QED
  BY <1>1, Invariance, PTL DEF Spec, CallbackFirst
=============================================================================

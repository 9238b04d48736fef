----------------------------- MODULE RingProofs -----------------------------
(***************************************************************************)
(* Theorems about Ring, for every capacity, every set of writers, readers  *)
(* and waiters, and every length they ask for.                             *)
(***************************************************************************)
EXTENDS Ring, SequenceTheorems, TLAPS

USE CapAssumption, LensAssumption, ThreadsAssumption

-----------------------------------------------------------------------------
(* Arithmetic of the indices.                                              *)

\* An index that has gone past the end at most once.
Wrapped(x) == IF x < Cap THEN x ELSE x - Cap

LEMMA ModWrapped ==
    ASSUME NEW x \in 0 .. (2 * Cap) - 1
    PROVE  x % Cap = Wrapped(x)
<1> DEFINE q == x \div Cap
           d == x % Cap
<1>1. Cap \in Nat /\ Cap > 0 /\ x \in Nat
  OBVIOUS
<1>2. d \in 0 .. Cap - 1 /\ q \in Int
  BY <1>1
<1>3. x = (Cap * q) + d
  BY <1>1
<1> HIDE DEF q, d
<1>4. q <= -1 => Cap * q <= -Cap
  BY <1>1, <1>2, SMT
<1>5. q >= 2 => Cap * q >= 2 * Cap
  BY <1>1, <1>2, SMT
<1>6. q = 0 \/ q = 1
  BY <1>1, <1>2, <1>3, <1>4, <1>5
<1>7. d = Wrapped(x)
  BY <1>1, <1>2, <1>3, <1>6 DEF Wrapped
<1> QED
  BY <1>7 DEF d

-----------------------------------------------------------------------------
(* The inductive invariant                                                 *)

\* Whoever is inside Write or take holds the lock.
LockInv == \A t \in Threads : pc[t] \in {"write", "take"} <=> mu = t

\* Writers and clients are where their calls can be, and have not moved more
\* than they were called with.
CallInv ==
    /\ \A t \in Writers : pc[t] \in {"idle", "write", "signal"}
    /\ \A t \in Clients : pc[t] \notin {"write", "signal"}
    /\ \A t \in Threads : got[t] <= want[t] /\ (pc[t] # "idle" => want[t] >= 1)

IInv == TypeOK /\ LockInv /\ CallInv /\ Contents

-----------------------------------------------------------------------------
(* The contents                                                            *)

LEMMA SuccType ==
    ASSUME NEW i \in Slot
    PROVE  Succ(i) \in Slot /\ Succ(i) = Wrapped(i + 1)
BY ModWrapped DEF Succ, Slot, Wrapped

LEMMA IndexWrapped ==
    ASSUME NEW s \in Slot, NEW i \in 0 .. Cap
    PROVE  (s + i) % Cap = Wrapped(s + i)
BY ModWrapped DEF Slot

\* Contents, with the indices wrapped by hand.
LEMMA ContentsWrapped ==
    ASSUME TypeOK
    PROVE  Contents <=>
             /\ w = Wrapped(r + n)
             /\ written = taken + dropped + n
             /\ \A i \in 0 .. n - 1 :
                   buf[Wrapped(r + i)] = [epoch |-> epoch, no |-> taken + dropped + i + 1]
<1>1. \A i \in 0 .. n : (r + i) % Cap = Wrapped(r + i)
  BY IndexWrapped DEF TypeOK
<1> QED
  BY <1>1 DEF Contents, TypeOK

\* What does not touch the samples and their numbers leaves them as they are.
LEMMA ContentsKept ==
    ASSUME Contents, UNCHANGED <<ring, epoch, written, taken>>
    PROVE  Contents'
BY DEF Contents, ring

\* A sample written becomes the youngest; in a full ring it replaces the oldest.
LEMMA ContentsWritten ==
    ASSUME TypeOK, TypeOK', Contents, NEW t \in Writers, WriteSample(t)
    PROVE  Contents'
<1> DEFINE num(i) == [epoch |-> epoch, no |-> taken + dropped + i + 1]
<1>1. /\ w = Wrapped(r + n)
      /\ written = taken + dropped + n
      /\ \A i \in 0 .. n - 1 : buf[Wrapped(r + i)] = num(i)
  BY ContentsWrapped
<1>2. /\ buf' = [buf EXCEPT ![w] = [epoch |-> epoch, no |-> written + 1]]
      /\ w' = Wrapped(w + 1) /\ written' = written + 1
      /\ UNCHANGED <<taken, epoch>>
  BY SuccType DEF WriteSample, TypeOK
<1>3. buf'[w] = num(n) /\ \A j \in Slot \ {w} : buf'[j] = buf[j]
  BY <1>1, <1>2 DEF TypeOK
<1>4. CASE ~Full
  <2>1. r' = r /\ n' = n + 1 /\ dropped' = dropped
    BY <1>4 DEF WriteSample, Oldest
  <2>2. w' = Wrapped(r + n + 1)
    BY <1>1, <1>2, <1>4 DEF Wrapped, TypeOK, Slot, Full
  <2>3. \A i \in 0 .. n - 1 : Wrapped(r + i) \in Slot \ {w}
    <3>1. r \in 0 .. Cap - 1 /\ n \in 0 .. Cap - 1
      BY <1>4 DEF TypeOK, Slot, Full
    <3> QED
      BY <1>1, <3>1 DEF Wrapped, Slot
  <2>4. \A i \in 0 .. n : buf'[Wrapped(r + i)] = num(i)
    BY <1>1, <1>3, <2>3 DEF TypeOK
  <2> QED
    <3>1. \A i \in 0 .. n' - 1 : (r' + i) % Cap = Wrapped(r + i) /\ i \in 0 .. n
      BY <2>1, IndexWrapped DEF TypeOK
    <3>2. w' = (r' + n') % Cap
      <4>1. r' + n' = r + n + 1
        BY <2>1 DEF TypeOK, Slot
      <4>2. (r' + n') % Cap = Wrapped(r' + n')
        BY IndexWrapped DEF TypeOK
      <4> QED
        BY <2>2, <4>1, <4>2
    <3>3. written' = taken' + dropped' + n'
      BY <1>1, <1>2, <2>1 DEF TypeOK
    <3> QED
      BY <1>2, <2>1, <2>4, <3>1, <3>2, <3>3 DEF Contents
<1>5. CASE Full
  <2>1. r' = Wrapped(r + 1) /\ n' = n /\ n = Cap /\ dropped' = dropped + 1
    BY <1>5, SuccType DEF WriteSample, Oldest, Full, TypeOK
  <2>2. w = r /\ w' = Wrapped(r' + n')
    BY <1>1, <1>2, <2>1 DEF Wrapped, TypeOK, Slot
  <2>3. \A i \in 0 .. n - 2 : /\ Wrapped(r' + i) = Wrapped(r + (i + 1))
                              /\ Wrapped(r' + i) \in Slot \ {w}
    BY <2>1, <2>2 DEF Wrapped, TypeOK, Slot
  <2>4. Wrapped(r' + (n - 1)) = w
    BY <2>1, <2>2 DEF Wrapped, TypeOK, Slot
  <2>5. \A i \in 0 .. n - 1 :
          buf'[Wrapped(r' + i)] = [epoch |-> epoch, no |-> taken + dropped' + i + 1]
    <3> TAKE i \in 0 .. n - 1
    <3>1. CASE i = n - 1
      BY <1>3, <2>1, <2>4, <3>1 DEF TypeOK
    <3>2. CASE i < n - 1
      <4>1. i \in 0 .. n - 2 /\ i + 1 \in 0 .. n - 1
        BY <3>2 DEF TypeOK
      <4>2. buf'[Wrapped(r' + i)] = num(i + 1)
        BY <1>1, <1>3, <2>3, <4>1
      <4> QED
        BY <2>1, <4>1, <4>2 DEF TypeOK
    <3> QED
      BY <3>1, <3>2 DEF TypeOK
  <2> QED
    <3>1. \A i \in 0 .. n' - 1 : (r' + i) % Cap = Wrapped(r' + i)
      BY <2>1, IndexWrapped DEF TypeOK
    <3>2. w' = (r' + n') % Cap
      BY <2>1, <2>2, IndexWrapped DEF TypeOK
    <3>3. written' = taken' + dropped' + n'
      BY <1>1, <1>2, <2>1 DEF TypeOK
    <3> QED
      BY <1>2, <2>1, <2>5, <3>1, <3>2, <3>3 DEF Contents
<1> QED
  BY <1>4, <1>5

\* The sample taken is the oldest.
LEMMA ContentsTaken ==
    ASSUME TypeOK, TypeOK', Contents, NEW t \in Readers, TakeSample(t)
    PROVE  Contents'
<1>1. /\ w = Wrapped(r + n)
      /\ written = taken + dropped + n
      /\ \A i \in 0 .. n - 1 :
            buf[Wrapped(r + i)] = [epoch |-> epoch, no |-> taken + dropped + i + 1]
  BY ContentsWrapped
<1>2. /\ r' = Wrapped(r + 1) /\ n' = n - 1 /\ n > 0 /\ taken' = taken + 1
      /\ UNCHANGED <<buf, w, dropped, written, epoch>>
  BY SuccType DEF TakeSample, TypeOK
<1>3. w' = Wrapped(r' + n')
  BY <1>1, <1>2 DEF Wrapped, TypeOK, Slot
<1>4. \A i \in 0 .. n' - 1 : Wrapped(r' + i) = Wrapped(r + (i + 1)) /\ i + 1 \in 0 .. n - 1
  BY <1>2 DEF Wrapped, TypeOK, Slot
<1>5. \A i \in 0 .. n' - 1 :
        buf[Wrapped(r' + i)] = [epoch |-> epoch, no |-> taken + 1 + dropped + i + 1]
  <2> TAKE i \in 0 .. n' - 1
  <2>1. buf[Wrapped(r + (i + 1))] = [epoch |-> epoch, no |-> taken + dropped + (i + 1) + 1]
    BY <1>1, <1>4
  <2>2. taken + dropped + (i + 1) + 1 = taken + 1 + dropped + i + 1
    BY DEF TypeOK
  <2> QED
    BY <1>4, <2>1, <2>2
<1>6. \A i \in 0 .. n' - 1 : (r' + i) % Cap = Wrapped(r' + i)
  BY <1>2, IndexWrapped DEF TypeOK
<1>7. w' = (r' + n') % Cap
  BY <1>2, <1>3, IndexWrapped DEF TypeOK
<1>8. written' = taken' + dropped' + n'
  BY <1>1, <1>2 DEF TypeOK
<1> QED
  BY <1>2, <1>5, <1>6, <1>7, <1>8 DEF Contents

LEMMA ContentsReset ==
    ASSUME Reset
    PROVE  Contents'
BY DEF Reset, Contents

-----------------------------------------------------------------------------
(* Every step                                                              *)

LEMMA InitInv == Init => IInv
<1> SUFFICES ASSUME Init
             PROVE  IInv
  OBVIOUS
<1>1. TypeOK
  <2>1. buf \in [Slot -> Sample]
    BY DEF Init, Sample
  <2>2. 0 \in Slot
    BY DEF Slot
  <2>3. /\ pc \in [Threads -> Labels] /\ waits \in [Threads -> BOOLEAN]
        /\ want \in [Threads -> Nat] /\ got \in [Threads -> Nat]
    BY DEF Init, Labels
  <2>4. mu \in Threads \cup {NoThread} /\ wake \in BOOLEAN
    BY DEF Init
  <2> QED
    BY <2>1, <2>2, <2>3, <2>4 DEF Init, TypeOK
<1>2. LockInv /\ CallInv
  BY DEF Init, LockInv, CallInv, Threads, Clients
<1>3. Contents
  BY DEF Init, Contents
<1> QED
  BY <1>1, <1>2, <1>3 DEF IInv

LEMMA NextInv == IInv /\ [Next]_vars => IInv'
<1> SUFFICES ASSUME IInv, [Next]_vars
             PROVE  IInv'
  OBVIOUS
<1> USE DEF IInv
<1>1. ASSUME NEW t \in Writers, WriteBegin(t) PROVE IInv'
  <2> t \in Threads
    BY DEF Threads
  <2>1. TypeOK'
    BY <1>1 DEF WriteBegin, Enter, Goto, TypeOK, ring, locals, Labels
  <2>2. LockInv'
    BY <1>1 DEF WriteBegin, Enter, Goto, TypeOK, LockInv, CallInv, locals
  <2>3. CallInv'
    BY <1>1 DEF WriteBegin, Enter, Goto, TypeOK, CallInv, locals, Threads, Clients
  <2>4. Contents'
    BY <1>1, ContentsKept DEF WriteBegin
  <2> QED
    BY <2>1, <2>2, <2>3, <2>4
<1>2. ASSUME NEW t \in Writers, WriteSample(t) PROVE IInv'
  <2> t \in Threads
    BY DEF Threads
  <2>1. TypeOK'
    <3>1. r' \in Slot /\ w' \in Slot
      BY <1>2, SuccType DEF WriteSample, Oldest, TypeOK
    <3>2. buf' \in [Slot -> Sample]
      BY <1>2 DEF WriteSample, TypeOK, Sample
    <3>3. n' \in 0 .. Cap /\ dropped' \in Nat /\ written' \in Nat
      BY <1>2 DEF WriteSample, Full, TypeOK
    <3>4. got' \in [Threads -> Nat]
      BY <1>2 DEF WriteSample, TypeOK
    <3> QED
      BY <1>2, <3>1, <3>2, <3>3, <3>4 DEF WriteSample, TypeOK
  <2>2. LockInv'
    BY <1>2 DEF WriteSample, Oldest, Full, Succ, TypeOK, LockInv, CallInv, locals
  <2>3. CallInv'
    BY <1>2 DEF WriteSample, Oldest, Full, Succ, TypeOK, CallInv, locals, Threads, Clients
  <2>4. Contents'
    BY <1>2, ContentsWritten, <2>1
  <2> QED
    BY <2>1, <2>2, <2>3, <2>4
<1>3. ASSUME NEW t \in Writers, WriteEnd(t) PROVE IInv'
  <2> t \in Threads
    BY DEF Threads
  <2>1. TypeOK'
    BY <1>3 DEF WriteEnd, Goto, TypeOK, ring, locals, Labels
  <2>2. LockInv'
    BY <1>3 DEF WriteEnd, Goto, TypeOK, LockInv, CallInv, locals
  <2>3. CallInv'
    BY <1>3 DEF WriteEnd, Goto, TypeOK, CallInv, locals, Threads, Clients
  <2>4. Contents'
    BY <1>3, ContentsKept DEF WriteEnd
  <2> QED
    BY <2>1, <2>2, <2>3, <2>4
<1>4. ASSUME NEW t \in Writers, Signal(t) PROVE IInv'
  <2> t \in Threads
    BY DEF Threads
  <2>1. TypeOK'
    BY <1>4 DEF Signal, Return, Goto, TypeOK, ring, locals, Labels
  <2>2. LockInv'
    BY <1>4 DEF Signal, Return, Goto, TypeOK, LockInv, CallInv, locals
  <2>3. CallInv'
    BY <1>4 DEF Signal, Return, Goto, TypeOK, CallInv, locals, Threads, Clients
  <2>4. Contents'
    BY <1>4, ContentsKept DEF Signal
  <2> QED
    BY <2>1, <2>2, <2>3, <2>4
<1>5. ASSUME NEW t \in Readers, ReadBegin(t) PROVE IInv'
  <2> t \in Threads
    BY DEF Threads, Clients
  <2>1. TypeOK'
    BY <1>5 DEF ReadBegin, Enter, Goto, TypeOK, ring, locals, Labels
  <2>2. LockInv'
    BY <1>5 DEF ReadBegin, Enter, Goto, TypeOK, LockInv, CallInv, locals
  <2>3. CallInv'
    BY <1>5 DEF ReadBegin, Enter, Goto, TypeOK, CallInv, locals, Threads, Clients
  <2>4. Contents'
    BY <1>5, ContentsKept DEF ReadBegin
  <2> QED
    BY <2>1, <2>2, <2>3, <2>4
<1>6. ASSUME NEW t \in Readers, TakeBegin(t) PROVE IInv'
  <2> t \in Threads
    BY DEF Threads, Clients
  <2>1. TypeOK'
    BY <1>6 DEF TakeBegin, Goto, TypeOK, ring, locals, Labels
  <2>2. LockInv'
    BY <1>6 DEF TakeBegin, Goto, TypeOK, LockInv, CallInv, locals
  <2>3. CallInv'
    BY <1>6 DEF TakeBegin, Goto, TypeOK, CallInv, locals, Threads, Clients
  <2>4. Contents'
    BY <1>6, ContentsKept DEF TakeBegin
  <2> QED
    BY <2>1, <2>2, <2>3, <2>4
<1>7. ASSUME NEW t \in Readers, TakeSample(t) PROVE IInv'
  <2> t \in Threads
    BY DEF Threads, Clients
  <2>1. TypeOK'
    <3>1. r' \in Slot /\ n' \in 0 .. Cap
      BY <1>7, SuccType DEF TakeSample, TypeOK
    <3> QED
      BY <1>7, <3>1 DEF TakeSample, TypeOK
  <2>2. LockInv'
    BY <1>7 DEF TakeSample, Succ, TypeOK, LockInv, CallInv, locals
  <2>3. CallInv'
    BY <1>7 DEF TakeSample, Succ, TypeOK, CallInv, locals, Threads, Clients
  <2>4. Contents'
    BY <1>7, ContentsTaken, <2>1
  <2> QED
    BY <2>1, <2>2, <2>3, <2>4
<1>8. ASSUME NEW t \in Readers, TakeDone(t) PROVE IInv'
  <2> t \in Threads
    BY DEF Threads, Clients
  <2>1. TypeOK'
    BY <1>8 DEF TakeDone, Return, Goto, TypeOK, ring, locals, Labels
  <2>2. LockInv'
    BY <1>8 DEF TakeDone, Return, Goto, TypeOK, LockInv, CallInv, locals
  <2>3. CallInv'
    BY <1>8 DEF TakeDone, Return, Goto, TypeOK, CallInv, locals, Threads, Clients
  <2>4. Contents'
    BY <1>8, ContentsKept DEF TakeDone
  <2> QED
    BY <2>1, <2>2, <2>3, <2>4
<1>9. ASSUME NEW t \in Readers, TakeShort(t) PROVE IInv'
  <2> t \in Threads
    BY DEF Threads, Clients
  <2>1. TypeOK'
    BY <1>9 DEF TakeShort, Goto, TypeOK, ring, locals, Labels
  <2>2. LockInv'
    BY <1>9 DEF TakeShort, Goto, TypeOK, LockInv, CallInv, locals
  <2>3. CallInv'
    BY <1>9 DEF TakeShort, Goto, TypeOK, CallInv, locals, Threads, Clients
  <2>4. Contents'
    BY <1>9, ContentsKept DEF TakeShort
  <2> QED
    BY <2>1, <2>2, <2>3, <2>4
<1>10. ASSUME NEW t \in Readers, Pad(t) PROVE IInv'
  <2> t \in Threads
    BY DEF Threads, Clients
  <2>1. TypeOK'
    BY <1>10 DEF Pad, Return, Goto, TypeOK, CallInv, ring, locals, Labels
  <2>2. LockInv'
    BY <1>10 DEF Pad, Return, Goto, TypeOK, LockInv, CallInv, locals
  <2>3. CallInv'
    BY <1>10 DEF Pad, Return, Goto, TypeOK, CallInv, locals, Threads, Clients
  <2>4. Contents'
    BY <1>10, ContentsKept DEF Pad
  <2> QED
    BY <2>1, <2>2, <2>3, <2>4
<1>11. ASSUME NEW t \in Waiters, WaitBegin(t) PROVE IInv'
  <2> t \in Threads
    BY DEF Threads, Clients
  <2>1. TypeOK'
    BY <1>11 DEF WaitBegin, Enter, Goto, TypeOK, ring, locals, Labels
  <2>2. LockInv'
    BY <1>11 DEF WaitBegin, Enter, Goto, TypeOK, LockInv, CallInv, locals
  <2>3. CallInv'
    BY <1>11 DEF WaitBegin, Enter, Goto, TypeOK, CallInv, locals, Threads, Clients
  <2>4. Contents'
    BY <1>11, ContentsKept DEF WaitBegin
  <2> QED
    BY <2>1, <2>2, <2>3, <2>4
<1>12. ASSUME NEW t \in Waiters, LenDone(t) PROVE IInv'
  <2> t \in Threads
    BY DEF Threads, Clients
  <2>1. TypeOK'
    BY <1>12 DEF LenDone, Return, Goto, TypeOK, ring, locals, Labels
  <2>2. LockInv'
    BY <1>12 DEF LenDone, Return, Goto, TypeOK, LockInv, CallInv, locals
  <2>3. CallInv'
    BY <1>12 DEF LenDone, Return, Goto, TypeOK, CallInv, locals, Threads, Clients
  <2>4. Contents'
    BY <1>12, ContentsKept DEF LenDone
  <2> QED
    BY <2>1, <2>2, <2>3, <2>4
<1>13. ASSUME NEW t \in Waiters, LenShort(t) PROVE IInv'
  <2> t \in Threads
    BY DEF Threads, Clients
  <2>1. TypeOK'
    BY <1>13 DEF LenShort, Goto, TypeOK, ring, locals, Labels
  <2>2. LockInv'
    BY <1>13 DEF LenShort, Goto, TypeOK, LockInv, CallInv, locals
  <2>3. CallInv'
    BY <1>13 DEF LenShort, Goto, TypeOK, CallInv, locals, Threads, Clients
  <2>4. Contents'
    BY <1>13, ContentsKept DEF LenShort
  <2> QED
    BY <2>1, <2>2, <2>3, <2>4
<1>14. ASSUME NEW t \in Clients, Woken(t) PROVE IInv'
  <2> t \in Threads
    BY DEF Threads, Clients
  <2>1. TypeOK'
    BY <1>14 DEF Woken, Blocked, Goto, TypeOK, ring, locals, Labels
  <2>2. LockInv'
    BY <1>14 DEF Woken, Blocked, Goto, TypeOK, LockInv, CallInv, locals
  <2>3. CallInv'
    BY <1>14 DEF Woken, Blocked, Goto, TypeOK, CallInv, locals, Threads, Clients
  <2>4. Contents'
    BY <1>14, ContentsKept DEF Woken
  <2> QED
    BY <2>1, <2>2, <2>3, <2>4
<1>15. ASSUME NEW t \in Clients, TimedOut(t) PROVE IInv'
  <2> t \in Threads
    BY DEF Threads, Clients
  <2>1. TypeOK'
    BY <1>15 DEF TimedOut, Blocked, Goto, TypeOK, ring, locals, Labels
  <2>2. LockInv'
    BY <1>15 DEF TimedOut, Blocked, Goto, TypeOK, LockInv, CallInv, locals
  <2>3. CallInv'
    BY <1>15 DEF TimedOut, Blocked, Goto, TypeOK, CallInv, locals, Threads, Clients
  <2>4. Contents'
    BY <1>15, ContentsKept DEF TimedOut
  <2> QED
    BY <2>1, <2>2, <2>3, <2>4
<1>16. CASE Reset
  <2>1. TypeOK'
    BY <1>16 DEF Reset, TypeOK, locals, Slot
  <2>2. LockInv' /\ CallInv'
    BY <1>16 DEF Reset, LockInv, CallInv, locals
  <2> QED
    BY <1>16, <2>1, <2>2, ContentsReset
<1>17. CASE UNCHANGED vars
  <2>1. TypeOK' /\ LockInv' /\ CallInv'
    BY <1>17 DEF vars, ring, locals, TypeOK, LockInv, CallInv
  <2> QED
    BY <1>17, <2>1, ContentsKept DEF vars
<1> QED
  BY <1>1, <1>2, <1>3, <1>4, <1>5, <1>6, <1>7, <1>8, <1>9, <1>10, <1>11, <1>12, <1>13, <1>14, <1>15, <1>16, <1>17 DEF Next, WriterStep, ReaderStep, TakeStep, WaiterStep, LenStep, SelectStep

\* The inductive invariant holds in every reachable state.
THEOREM Invariance == Spec => []IInv
<1>1. Init => IInv
  BY InitInv
<1>2. IInv /\ [Next]_vars => IInv'
  BY NextInv
<1> QED
  BY <1>1, <1>2, PTL DEF Spec

\* Type correctness of the ring and of the calls into it.
THEOREM TypeCorrect == Spec => []TypeOK
BY Invariance, PTL DEF IInv

\* Write, take and Reset, in any interleaving of any threads: the ring holds
\* exactly the latest samples neither taken nor counted as dropped, in order.
THEOREM ContentsInOrder == Spec => []Contents
BY Invariance, PTL DEF IInv

-----------------------------------------------------------------------------
(* The signal                                                              *)

\* One goroutine at a time waits on the ring.
OneClient == \A a, b \in Clients : a = b

LEMMA WakeupKept ==
    ASSUME OneClient, IInv, NoLostWakeup, [Next]_vars
    PROVE  NoLostWakeup'
<1> USE DEF IInv
<1>1. SUFFICES ASSUME NEW c \in Clients,
                      \/ pc'[c] = "reading" /\ n' > 0
                      \/ pc'[c] = "filling" /\ n' >= want'[c]
               PROVE  wake' \/ \E x \in Writers : pc'[x] \in {"write", "signal"}
  BY DEF NoLostWakeup
<1> c \in Threads
  BY DEF Threads
<1> DEFINE Waiting == \/ pc[c] = "reading" /\ n > 0
                      \/ pc[c] = "filling" /\ n >= want[c]
           Writing == \E x \in Writers : pc[x] \in {"write", "signal"}
<1>2. Waiting => wake \/ Writing
  BY DEF NoLostWakeup
<1>3. ASSUME NEW t \in Writers, WriteBegin(t) \/ WriteSample(t) \/ WriteEnd(t)
      PROVE  wake' \/ Writing'
  <2>1. t \in Threads /\ pc'[t] \in {"write", "signal"}
    BY <1>3 DEF WriteBegin, WriteSample, WriteEnd, Enter, Goto, TypeOK, Threads
  <2> QED
    BY <2>1
<1>4. ASSUME NEW t \in Writers, Signal(t)
      PROVE  wake' \/ Writing'
  BY <1>4 DEF Signal
<1>5. ASSUME NEW t \in Clients, t = c,
             \/ ReadBegin(t) \/ TakeBegin(t) \/ TakeDone(t) \/ TakeShort(t) \/ Pad(t)
             \/ WaitBegin(t) \/ LenDone(t) \/ LenShort(t) \/ Woken(t) \/ TimedOut(t)
      PROVE  wake' \/ Writing'
  <2>1. ~(pc'[c] = "reading" /\ n' > 0)
    BY <1>5 DEF ReadBegin, TakeBegin, TakeDone, TakeShort, Pad, WaitBegin, LenDone, LenShort,
                Woken, TimedOut, Enter, Return, Goto, TypeOK, ring, Blocked
  <2>2. ~(pc'[c] = "filling" /\ n' >= want'[c])
    BY <1>5 DEF ReadBegin, TakeBegin, TakeDone, TakeShort, Pad, WaitBegin, LenDone, LenShort,
                Woken, TimedOut, Enter, Return, Goto, TypeOK, ring, locals, Blocked
  <2> QED
    BY <1>1, <2>1, <2>2
<1>6. ASSUME NEW t \in Readers, t = c, TakeSample(t)
      PROVE  wake' \/ Writing'
  BY <1>1, <1>6 DEF TakeSample, TypeOK
<1>7. CASE Reset
  BY <1>1, <1>7 DEF Reset, CallInv, TypeOK, locals
<1>8. CASE UNCHANGED vars
  BY <1>1, <1>2, <1>8 DEF vars, ring, locals
<1>9. \A t \in Clients : t = c
  BY DEF OneClient
<1> QED
  BY <1>3, <1>4, <1>5, <1>6, <1>7, <1>8, <1>9
     DEF Next, WriterStep, ReaderStep, TakeStep, WaiterStep, LenStep, SelectStep, Clients

\* With one client, no wakeup is lost: whoever is blocked in Read or WaitFor
\* with what it waits for in the ring has a signal pending, or a writer that has
\* yet to send it.
THEOREM WakeupsNotLost ==
    ASSUME OneClient
    PROVE  Spec => []NoLostWakeup
<1>1. Init => NoLostWakeup
  BY DEF Init, NoLostWakeup, Threads
<1>2. IInv /\ NoLostWakeup /\ [Next]_vars => NoLostWakeup'
  BY WakeupKept
<1> QED
  BY <1>1, <1>2, Invariance, PTL DEF Spec

-----------------------------------------------------------------------------
(* The queue the ring implements                                           *)

\* The k slots of b from s on, as a sequence.
View(b, s, k) == [i \in 1 .. k |-> b[(s + i - 1) % Cap]]

LEMMA ViewType ==
    ASSUME NEW b \in [Slot -> Sample], NEW s \in Slot, NEW k \in 0 .. Cap
    PROVE  /\ View(b, s, k) \in Seq(Sample)
           /\ Len(View(b, s, k)) = k
           /\ \A i \in 1 .. k : View(b, s, k)[i] = b[Wrapped(s + i - 1)]
<1>1. \A i \in 1 .. k : /\ s + i - 1 = s + (i - 1)
                        /\ (s + i - 1) % Cap = Wrapped(s + i - 1)
                        /\ Wrapped(s + i - 1) \in Slot
  <2> TAKE i \in 1 .. k
  <2>1. i - 1 \in 0 .. Cap /\ i - 1 < Cap /\ s + i - 1 = s + (i - 1)
    BY DEF Slot
  <2>2. (s + (i - 1)) % Cap = Wrapped(s + (i - 1))
    BY <2>1, IndexWrapped
  <2> QED
    BY <2>1, <2>2 DEF Wrapped, Slot
<1>2. View(b, s, k) \in [1 .. k -> Sample]
  BY <1>1 DEF View
<1> QED
  BY <1>1, <1>2 DEF View

\* Storing behind the last slot appends.
Grows(b, s, k, e) ==
    View([b EXCEPT ![Wrapped(s + k)] = e], s, k + 1) = Append(View(b, s, k), e)

LEMMA ViewAppend ==
    ASSUME NEW b \in [Slot -> Sample], NEW s \in Slot, NEW k \in 0 .. Cap - 1,
           NEW e \in Sample
    PROVE  Grows(b, s, k, e)
<1> DEFINE c == [b EXCEPT ![Wrapped(s + k)] = e]
           u == View(c, s, k + 1)
           v == View(b, s, k)
<1> HIDE DEF c, u, v
<1>1. /\ Wrapped(s + k) \in Slot /\ c \in [Slot -> Sample]
      /\ k \in 0 .. Cap /\ k + 1 \in 0 .. Cap
  BY DEF Wrapped, Slot, c
<1>2. /\ u \in Seq(Sample) /\ Len(u) = k + 1
      /\ \A i \in 1 .. k + 1 : u[i] = c[Wrapped(s + i - 1)]
  BY <1>1, ViewType DEF u
<1>3. /\ v \in Seq(Sample) /\ Len(v) = k
      /\ \A i \in 1 .. k : v[i] = b[Wrapped(s + i - 1)]
  BY <1>1, ViewType DEF v
<1>4. \A i \in 1 .. k : Wrapped(s + i - 1) \in Slot \ {Wrapped(s + k)}
  BY DEF Wrapped, Slot
<1>5. \A i \in 1 .. k : u[i] = v[i]
  BY <1>2, <1>3, <1>4 DEF c
<1>6. u[k + 1] = e
  <2>1. s + (k + 1) - 1 = s + k
    BY DEF Slot
  <2> QED
    BY <1>1, <1>2, <2>1 DEF c
<1>7. /\ Append(v, e) \in Seq(Sample) /\ Len(Append(v, e)) = k + 1
      /\ \A i \in 1 .. k : Append(v, e)[i] = v[i]
      /\ Append(v, e)[k + 1] = e
  BY <1>3, AppendProperties
<1>8. \A i \in 1 .. k + 1 : u[i] = Append(v, e)[i]
  BY <1>5, <1>6, <1>7
<1>9. u = Append(v, e)
  BY <1>2, <1>7, <1>8, SeqEqual
<1> QED
  BY <1>9 DEF c, u, v, Grows

\* Leaving out the first slot leaves the tail.
LEMMA ViewTail ==
    ASSUME NEW b \in [Slot -> Sample], NEW s \in Slot, NEW k \in 1 .. Cap
    PROVE  View(b, Wrapped(s + 1), k - 1) = Tail(View(b, s, k))
<1> DEFINE u == View(b, Wrapped(s + 1), k - 1)
           v == View(b, s, k)
<1>1. Wrapped(s + 1) \in Slot
  BY DEF Wrapped, Slot
<1>2. /\ u \in Seq(Sample) /\ Len(u) = k - 1
      /\ \A i \in 1 .. k - 1 : u[i] = b[Wrapped(Wrapped(s + 1) + i - 1)]
  BY <1>1, ViewType
<1>3. /\ v \in Seq(Sample) /\ Len(v) = k
      /\ \A i \in 1 .. k : v[i] = b[Wrapped(s + i - 1)]
  BY ViewType
<1> HIDE DEF u, v
<1>4. \A i \in 1 .. k - 1 : /\ Wrapped(Wrapped(s + 1) + i - 1) = Wrapped(s + (i + 1) - 1)
                            /\ i + 1 \in 1 .. k
  BY DEF Wrapped, Slot
<1>5. v # <<>>
  <2>1. Len(v) # 0
    BY <1>3
  <2> QED
    BY <2>1, EmptySeq
<1>6. /\ Tail(v) \in Seq(Sample) /\ Len(Tail(v)) = k - 1
      /\ \A i \in 1 .. k - 1 : Tail(v)[i] = v[i + 1]
  <2>1. /\ Tail(v) \in Seq(Sample) /\ Len(Tail(v)) = Len(v) - 1
        /\ \A i \in 1 .. Len(Tail(v)) : Tail(v)[i] = v[i + 1]
    BY <1>3, <1>5, HeadTailProperties
  <2> QED
    BY <1>3, <2>1
<1>7. ASSUME NEW i \in 1 .. k - 1 PROVE u[i] = Tail(v)[i]
  <2>1. u[i] = b[Wrapped(s + (i + 1) - 1)]
    BY <1>2, <1>4
  <2>2. Tail(v)[i] = v[i + 1] /\ i + 1 \in 1 .. k
    BY <1>4, <1>6
  <2>3. v[i + 1] = b[Wrapped(s + (i + 1) - 1)]
    BY <1>3, <2>2
  <2> QED
    BY <2>1, <2>2, <2>3
<1>8. u = Tail(v)
  BY <1>2, <1>6, <1>7, SeqEqual
<1> QED
  BY <1>8 DEF u, v

Held == View(buf, r, n)

\* The refinement mapping sees the samples held.
LEMMA QueueIsHeld == Queue <=> DOQ!Spec
BY DEF Queue

\* Put, in terms of the samples held.
LEMMA PutIsAppend ==
    ASSUME NEW e \in Sample, DOQ!Kept \in Seq(Sample), Held' = Append(DOQ!Kept, e),
           dropped' = IF DOQ!Full THEN dropped + 1 ELSE dropped
    PROVE  DOQ!Put
<1>1. Len(Held') = Len(DOQ!Kept) + 1 /\ Held'[Len(DOQ!Kept) + 1] = e
  BY AppendProperties
<1>2. Len(Held') = Len(DOQ!Kept) + 1 /\ Held' = Append(DOQ!Kept, Held'[Len(DOQ!Kept) + 1])
  BY <1>1
<1>3. Held' = [i \in 1 .. n |-> buf[(r + i - 1) % Cap]]'
  BY DEF Held, View
<1> QED
  BY <1>2, <1>3 DEF DOQ!Put

LEMMA PutRefined ==
    ASSUME TypeOK, Contents, NEW t \in Writers, WriteSample(t)
    PROVE  DOQ!Put
<1> DEFINE e == [epoch |-> epoch, no |-> written + 1]
<1>1. e \in Sample
  BY DEF TypeOK, Sample
<1>2. /\ buf \in [Slot -> Sample] /\ r \in Slot /\ n \in 0 .. Cap
      /\ w = Wrapped(r + n)
  BY ContentsWrapped DEF TypeOK
<1>3. buf' = [buf EXCEPT ![w] = e]
  BY DEF WriteSample
<1> HIDE DEF e
<1>4. Held \in Seq(Sample) /\ Len(Held) = n
  BY <1>2, ViewType DEF Held
<1>5. CASE ~Full
  <2>1. n \in 0 .. Cap - 1 /\ r' = r /\ n' = n + 1 /\ dropped' = dropped
    BY <1>2, <1>5 DEF WriteSample, Oldest, Full
  <2>2. Held' = Append(Held, e)
    <3>1. Grows(buf, r, n, e)
      BY <1>1, <1>2, <2>1, ViewAppend
    <3> QED
      BY <1>2, <1>3, <2>1, <3>1 DEF Grows, Held
  <2>3. ~DOQ!Full /\ DOQ!Kept = Held
    BY <1>4, <1>5 DEF DOQ!Kept, DOQ!Full, Full, Held, View
  <2> QED
    BY <1>1, <1>4, <2>1, <2>2, <2>3, PutIsAppend
<1>6. CASE Full
  <2> DEFINE s == Wrapped(r + 1)
             k == Cap - 1
  <2>1. /\ n = Cap /\ r' = s /\ n' = Cap /\ dropped' = dropped + 1
        /\ s \in Slot /\ w = Wrapped(s + k)
        /\ k \in 0 .. Cap - 1 /\ k \in 0 .. Cap /\ k + 1 = Cap
    BY <1>2, <1>6, SuccType DEF WriteSample, Oldest, Full, Wrapped, Slot
  <2>2. Tail(Held) = View(buf, s, k)
    BY <1>2, <2>1, ViewTail DEF Held
  <2> HIDE DEF s, k
  <2>3. Held' = Append(Tail(Held), e)
    <3>1. Held' = View([buf EXCEPT ![Wrapped(s + k)] = e], s, k + 1)
      BY <1>3, <2>1 DEF Held
    <3>2. View([buf EXCEPT ![Wrapped(s + k)] = e], s, k + 1) = Append(View(buf, s, k), e)
      <4>1. Grows(buf, s, k, e)
        BY <1>1, <1>2, <2>1, ViewAppend
      <4> QED
        BY <4>1 DEF Grows
    <3> QED
      BY <2>2, <3>1, <3>2
  <2>4. Tail(Held) \in Seq(Sample)
    <3>1. View(buf, s, k) \in Seq(Sample)
      BY <1>2, <2>1, ViewType
    <3> QED
      BY <2>2, <3>1
  <2> QED
    <3>1. DOQ!Full /\ DOQ!Kept = Tail(Held)
      BY <1>4, <1>6 DEF DOQ!Kept, DOQ!Full, Full, Held, View
    <3> QED
      BY <1>1, <2>1, <2>3, <2>4, <3>1, PutIsAppend
<1> QED
  BY <1>5, <1>6

LEMMA GetRefined ==
    ASSUME TypeOK, NEW t \in Readers, TakeSample(t)
    PROVE  DOQ!Get
<1>1. /\ buf \in [Slot -> Sample] /\ r \in Slot /\ n \in 1 .. Cap
      /\ r' = Wrapped(r + 1) /\ n' = n - 1
      /\ buf' = buf /\ dropped' = dropped
  BY SuccType DEF TakeSample, TypeOK
<1>2. Held # <<>>
  <2>1. Len(Held) = n
    BY <1>1, ViewType DEF Held
  <2> QED
    BY <1>1, <2>1, EmptySeq
<1>3. Held' = Tail(Held)
  BY <1>1, ViewTail DEF Held
<1> QED
  BY <1>1, <1>2, <1>3 DEF DOQ!Get, Held, View

LEMMA ClearRefined ==
    ASSUME Reset
    PROVE  DOQ!Clear
BY DEF Reset, DOQ!Clear

\* Whatever leaves the ring alone leaves the queue alone.
LEMMA StutterRefined ==
    ASSUME UNCHANGED ring
    PROVE  UNCHANGED DOQ!vars
BY DEF ring, DOQ!vars

\* The ring, under any interleaving of its callers, is a bounded queue that
\* discards its oldest sample and counts what it discards.
THEOREM ImplementsQueue == Spec => Queue
<1>1. Init => DOQ!Init
  BY DEF Init, DOQ!Init
<1>2. IInv /\ [Next]_vars => [DOQ!Next]_DOQ!vars
  <2> SUFFICES ASSUME IInv, [Next]_vars
               PROVE  [DOQ!Next]_DOQ!vars
    OBVIOUS
  <2>1. ASSUME NEW t \in Writers, WriteSample(t)
        PROVE  DOQ!Next
    BY <2>1, PutRefined DEF IInv, DOQ!Next
  <2>2. ASSUME NEW t \in Readers, TakeSample(t)
        PROVE  DOQ!Next
    BY <2>2, GetRefined DEF IInv, DOQ!Next
  <2>3. CASE Reset
    BY <2>3, ClearRefined DEF DOQ!Next
  <2>4. CASE UNCHANGED ring
    BY <2>4, StutterRefined
  <2> QED
    <3>1. ASSUME NEW t \in Writers, WriterStep(t)
          PROVE  WriteSample(t) \/ UNCHANGED ring
      BY <3>1 DEF WriterStep, WriteBegin, WriteEnd, Signal
    <3>2. ASSUME NEW t \in Readers, ReaderStep(t)
          PROVE  TakeSample(t) \/ UNCHANGED ring
      BY <3>2 DEF ReaderStep, TakeStep, ReadBegin, TakeBegin, TakeDone, TakeShort, Pad
    <3>3. ASSUME NEW t \in Waiters, WaiterStep(t)
          PROVE  UNCHANGED ring
      BY <3>3 DEF WaiterStep, WaitBegin, LenStep, LenDone, LenShort
    <3>4. ASSUME NEW t \in Clients, SelectStep(t)
          PROVE  UNCHANGED ring
      BY <3>4 DEF SelectStep, Woken, TimedOut
    <3>5. UNCHANGED vars => UNCHANGED ring
      BY DEF vars
    <3> QED
      BY <2>1, <2>2, <2>3, <2>4, <3>1, <3>2, <3>3, <3>4, <3>5 DEF Next
<1> QED
  BY <1>1, <1>2, Invariance, QueueIsHeld, PTL DEF Spec, DOQ!Spec
=============================================================================

-------------------------------- MODULE Ring --------------------------------
(***************************************************************************)
(* internal/audio/ring.go: the buffer between the RTP readers, which       *)
(* Write, and the HTTP streams and Bridge.Start, which Read and WaitFor.   *)
(*                                                                         *)
(* The lock mu is explicit, the loops that run under it take one sample    *)
(* per step, and the wake channel is its one-element buffer.  What happens *)
(* between two critical sections of one call can be interleaved with any   *)
(* other call.  Timers may fire whenever they are running.                 *)
(*                                                                         *)
(* A sample is its number within the epoch it was written in; Reset starts *)
(* a new epoch.                                                            *)
(***************************************************************************)
EXTENDS Integers, Sequences

CONSTANTS Cap,        \* len(buf)
          Writers,    \* threads that call Write
          Readers,    \* threads that call Read
          Waiters,    \* threads that call WaitFor
          Lens,       \* the lengths of Write and Read, the thresholds of WaitFor
          NoThread,   \* nobody holds mu
          MaxWritten, \* bound on the samples written in an epoch
          MaxResets,  \* bound on the number of epochs
          MaxUnderrun \* bound on the counter underrun

Clients == Readers \cup Waiters
Threads == Writers \cup Clients

ASSUME CapAssumption == Cap \in Nat \ {0}
ASSUME LensAssumption == Lens \subseteq Nat \ {0}
ASSUME ThreadsAssumption ==
    /\ NoThread \notin Threads
    /\ Writers \cap Clients = {}

VARIABLES
    \* the fields of type Ring
    mu, buf, r, w, n, wake, underrun, dropped,
    \* each thread: where it is, the length it was called with, how far it
    \* got (samples moved), and whether its wait was positive
    pc, want, got, waits,
    \* history: resets so far, samples written and taken since the last one
    epoch, written, taken

ring   == <<buf, r, w, n, dropped>>
locals == <<want, got, waits>>
vars   == <<mu, ring, wake, underrun, pc, locals, epoch, written, taken>>

Slot == 0 .. Cap - 1
Sample == [epoch : Nat, no : Nat]

Init ==
    /\ mu = NoThread
    /\ buf = [i \in Slot |-> [epoch |-> 0, no |-> 0]]
    /\ r = 0 /\ w = 0 /\ n = 0
    /\ wake = FALSE
    /\ underrun = 0 /\ dropped = 0
    /\ pc = [t \in Threads |-> "idle"]
    /\ want = [t \in Threads |-> 0]
    /\ got = [t \in Threads |-> 0]
    /\ waits = [t \in Threads |-> FALSE]
    /\ epoch = 0 /\ written = 0 /\ taken = 0

Goto(t, l) == pc' = [pc EXCEPT ![t] = l]

\* A call begins: its arguments, and nothing moved yet.
Enter(t, l, k, positive) ==
    /\ pc[t] = "idle"
    /\ Goto(t, l)
    /\ want' = [want EXCEPT ![t] = k]
    /\ got' = [got EXCEPT ![t] = 0]
    /\ waits' = [waits EXCEPT ![t] = positive]

\* A call returns; its locals go with it.
Return(t) ==
    /\ Goto(t, "idle")
    /\ want' = [want EXCEPT ![t] = 0]
    /\ got' = [got EXCEPT ![t] = 0]
    /\ waits' = [waits EXCEPT ![t] = FALSE]

-----------------------------------------------------------------------------
(* Write                                                                   *)

WriteBegin(t) ==
    /\ mu = NoThread
    /\ \E k \in Lens : written + k <= MaxWritten /\ Enter(t, "write", k, FALSE)
    /\ mu' = t
    /\ UNCHANGED <<ring, wake, underrun, epoch, written, taken>>

\* Seeded faults: an index runs past the end; the oldest sample is overwritten
\* but stays the next one to be read; the ring drops with one slot still free.
Succ_NoWrap(i) == i + 1
Oldest_Stays == r
Full_Early == n >= Cap - 1

Succ(i) == (i + 1) % Cap
Full == n = Cap
Oldest == IF Full THEN Succ(r) ELSE r

\* One round of the loop: make room, store, advance.
WriteSample(t) ==
    /\ pc[t] = "write" /\ got[t] < want[t]
    /\ r' = Oldest
    /\ IF Full
       THEN n' = n /\ dropped' = dropped + 1
       ELSE n' = n + 1 /\ dropped' = dropped
    /\ buf' = [buf EXCEPT ![w] = [epoch |-> epoch, no |-> written + 1]]
    /\ w' = Succ(w)
    /\ got' = [got EXCEPT ![t] = @ + 1]
    /\ written' = written + 1
    /\ UNCHANGED <<mu, wake, underrun, pc, want, waits, epoch, taken>>

WriteEnd(t) ==
    /\ pc[t] = "write" /\ got[t] = want[t]
    /\ mu' = NoThread
    /\ Goto(t, "signal")
    /\ UNCHANGED <<ring, wake, underrun, locals, epoch, written, taken>>

\* Seeded fault: only a write into an empty ring is announced.
Signal_WasEmpty(t) ==
    /\ pc[t] = "signal"
    /\ wake' = (wake \/ n <= want[t])
    /\ Return(t)
    /\ UNCHANGED <<mu, ring, underrun, epoch, written, taken>>

\* The non-blocking send: a pending signal is as good as another.
Signal(t) ==
    /\ pc[t] = "signal"
    /\ wake' = TRUE
    /\ Return(t)
    /\ UNCHANGED <<mu, ring, underrun, epoch, written, taken>>

-----------------------------------------------------------------------------
(* Read and take                                                           *)

ReadBegin(t) ==
    /\ \E k \in Lens, positive \in BOOLEAN : Enter(t, "lock", k, positive)
    /\ UNCHANGED <<mu, ring, wake, underrun, epoch, written, taken>>

TakeBegin(t) ==
    /\ pc[t] = "lock" /\ mu = NoThread
    /\ mu' = t
    /\ Goto(t, "take")
    /\ UNCHANGED <<ring, wake, underrun, locals, epoch, written, taken>>

TakeSample(t) ==
    /\ pc[t] = "take" /\ got[t] < want[t] /\ n > 0
    /\ r' = Succ(r)
    /\ n' = n - 1
    /\ got' = [got EXCEPT ![t] = @ + 1]
    /\ taken' = taken + 1
    /\ UNCHANGED <<mu, buf, w, dropped, wake, underrun, pc, want, waits,
                   epoch, written>>

\* take got everything: Read returns.
TakeDone(t) ==
    /\ pc[t] = "take" /\ got[t] = want[t]
    /\ mu' = NoThread
    /\ Return(t)
    /\ UNCHANGED <<ring, wake, underrun, epoch, written, taken>>

\* take ran the ring dry: Read waits, or pads at once.
TakeShort(t) ==
    /\ pc[t] = "take" /\ got[t] < want[t] /\ n = 0
    /\ mu' = NoThread
    /\ Goto(t, IF waits[t] THEN "reading" ELSE "pad")
    /\ UNCHANGED <<ring, wake, underrun, locals, epoch, written, taken>>

\* Padding is counted in a critical section of its own.
Pad(t) ==
    /\ pc[t] = "pad" /\ mu = NoThread
    /\ underrun + (want[t] - got[t]) <= MaxUnderrun
    /\ underrun' = underrun + (want[t] - got[t])
    /\ Return(t)
    /\ UNCHANGED <<mu, ring, wake, epoch, written, taken>>

-----------------------------------------------------------------------------
(* WaitFor                                                                 *)

WaitBegin(t) ==
    /\ \E k \in Lens : Enter(t, "len", k, TRUE)
    /\ UNCHANGED <<mu, ring, wake, underrun, epoch, written, taken>>

\* Len under the lock; "last" is the check after the timer fired.
LenDone(t) ==
    /\ pc[t] \in {"len", "last"} /\ mu = NoThread
    /\ n >= want[t] \/ pc[t] = "last"
    /\ Return(t)
    /\ UNCHANGED <<mu, ring, wake, underrun, epoch, written, taken>>

LenShort(t) ==
    /\ pc[t] = "len" /\ mu = NoThread
    /\ n < want[t]
    /\ Goto(t, "filling")
    /\ UNCHANGED <<mu, ring, wake, underrun, locals, epoch, written, taken>>

-----------------------------------------------------------------------------
(* The select of Read and of WaitFor: the signal, or the timer.            *)

Blocked(t) == pc[t] \in {"reading", "filling"}

Woken(t) ==
    /\ Blocked(t) /\ wake
    /\ wake' = FALSE
    /\ Goto(t, IF pc[t] = "reading" THEN "lock" ELSE "len")
    /\ UNCHANGED <<mu, ring, underrun, locals, epoch, written, taken>>

TimedOut(t) ==
    /\ Blocked(t)
    /\ Goto(t, IF pc[t] = "reading" THEN "pad" ELSE "last")
    /\ UNCHANGED <<mu, ring, wake, underrun, locals, epoch, written, taken>>

-----------------------------------------------------------------------------
\* Reset empties the ring and clears the counters; the signal stays.
Reset ==
    /\ mu = NoThread
    /\ epoch < MaxResets
    /\ r' = 0 /\ w' = 0 /\ n' = 0
    /\ underrun' = 0 /\ dropped' = 0
    /\ epoch' = epoch + 1 /\ written' = 0 /\ taken' = 0
    /\ UNCHANGED <<mu, buf, wake, pc, locals>>

WriterStep(t) == WriteBegin(t) \/ WriteSample(t) \/ WriteEnd(t) \/ Signal(t)
TakeStep(t) == TakeBegin(t) \/ TakeSample(t) \/ TakeDone(t) \/ TakeShort(t)
ReaderStep(t) == ReadBegin(t) \/ TakeStep(t) \/ Pad(t)
LenStep(t) == LenDone(t) \/ LenShort(t)
WaiterStep(t) == WaitBegin(t) \/ LenStep(t)
SelectStep(t) == Woken(t) \/ TimedOut(t)

Next ==
    \/ \E t \in Writers : WriterStep(t)
    \/ \E t \in Readers : ReaderStep(t)
    \/ \E t \in Waiters : WaiterStep(t)
    \/ \E t \in Clients : SelectStep(t)
    \/ Reset

Spec == Init /\ [][Next]_vars

\* The Go scheduler runs every goroutine that can run; nobody is obliged to
\* begin a call, and no timer is obliged to fire.
Fairness ==
    /\ \A t \in Writers : WF_vars(WriteSample(t) \/ WriteEnd(t) \/ Signal(t))
    /\ \A t \in Readers : WF_vars(TakeStep(t))
    /\ \A t \in Waiters : WF_vars(LenStep(t))
    /\ \A t \in Clients : WF_vars(Woken(t))

FairSpec == Spec /\ Fairness

-----------------------------------------------------------------------------
(* Properties                                                              *)

Labels == {"idle", "write", "signal", "lock", "take", "reading", "pad",
           "len", "filling", "last"}

\* Type invariant.
TypeOK ==
    /\ mu \in Threads \cup {NoThread}
    /\ buf \in [Slot -> Sample]
    /\ r \in Slot /\ w \in Slot /\ n \in 0 .. Cap
    /\ wake \in BOOLEAN
    /\ underrun \in Nat /\ dropped \in Nat
    /\ pc \in [Threads -> Labels]
    /\ want \in [Threads -> Nat] /\ got \in [Threads -> Nat]
    /\ waits \in [Threads -> BOOLEAN]
    /\ epoch \in Nat /\ written \in Nat /\ taken \in Nat

\* The n slots from r on hold, oldest first, exactly the latest samples of
\* this epoch that were neither taken nor counted as dropped: no sample is
\* lost uncounted, repeated, or left over from before a Reset.
Contents ==
    /\ w = (r + n) % Cap
    /\ written = taken + dropped + n
    /\ \A i \in 0 .. n - 1 :
          buf[(r + i) % Cap] = [epoch |-> epoch, no |-> taken + dropped + i + 1]

\* A thread blocked in a select with what it waits for in the ring will be
\* woken: the signal is pending or a writer has yet to send it.  Only with a
\* single client: two share the one signal (see PromptWake).
NoLostWakeup ==
    \A t \in Clients :
       \/ pc[t] = "reading" /\ n > 0
       \/ pc[t] = "filling" /\ n >= want[t]
       => wake \/ \E x \in Writers : pc[x] \in {"write", "signal"}

\* "so a waiting reader starts promptly instead of polling": a thread blocked
\* in WaitFor with enough samples in the ring gets on without its timer.
PromptWake ==
    \A t \in Clients :
       (pc[t] = "filling" /\ n >= want[t]) ~> (pc[t] # "filling" \/ n < want[t])

\* The ring is a drop-oldest queue.
DOQ == INSTANCE DropOldestQueue WITH
          queue <- [i \in 1 .. n |-> buf[(r + i - 1) % Cap]]
Queue == DOQ!Spec
=============================================================================

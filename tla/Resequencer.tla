---------------------------- MODULE Resequencer -----------------------------
(***************************************************************************)
(* internal/raop/reorder.go: the resequencer every audio packet of a       *)
(* session goes through before it is decrypted and decoded.  It is called  *)
(* under AudioDecoder.mu, so one push is one step.                         *)
(*                                                                         *)
(* A packet is its absolute position in the sender's stream; on the wire   *)
(* it carries only the position modulo 2^16 (SeqMod here).  The network    *)
(* may lose, duplicate, delay and reorder packets, and the sender may      *)
(* repeat them on request: any position may arrive any number of times,    *)
(* as long as it is less than half a lap away from the one that is due.    *)
(***************************************************************************)
EXTENDS Integers, Sequences, FiniteSets, Functions

CONSTANTS Half,         \* half the sequence space: 2^15 in the code
          Window,       \* seqWindow: packets held before a hole is given up
          Positions,    \* the positions of the stream that may arrive
          CallbackFirst,\* OnMissing is called before any packet arrives
          MaxReordered, \* bound on the counter Reordered
          MaxLate,      \* bound on the counter Late
          MaxResets     \* bound on the number of calls of reset

SeqMod == 2 * Half

ASSUME HalfAssumption == Half \in Nat \ {0}
ASSUME WindowAssumption == Window \in Nat /\ Window < Half
ASSUME PositionsAssumption == Positions \subseteq Nat /\ CallbackFirst \in BOOLEAN
ASSUME BoundsAssumption ==
    MaxReordered \in Nat /\ MaxLate \in Nat /\ MaxResets \in Nat

VARIABLES
    \* the fields of type resequencer
    next, started, pending, onMissing, requested, haveRequested,
    Reordered, Lost, Late,
    \* history: where the stream was joined, the position that is due, what
    \* was handed to the decoder, the resends asked for, the calls of reset
    base, nextPos, out, asked, resets

mark     == <<requested, haveRequested>>
counters == <<Reordered, Lost, Late>>
history  == <<base, nextPos, out, asked>>
vars     == <<next, started, pending, onMissing, mark, counters, history, resets>>

-----------------------------------------------------------------------------
(* Sequence numbers: 16-bit arithmetic.                                    *)

Seq16 == 0 .. SeqMod - 1

Wire(p) == p % SeqMod

\* Seeded fault: the number is kept in a wider integer.
Plus_NoWrap(a, k) == a + k

Plus(a, k) == (a + k) % SeqMod
Sub(a, b) == (a - b) % SeqMod

\* Seeded fault: the difference is compared without its sign.
ahead_Unsigned(a, b) == Sub(a, b) >= 0

\* int16(a - b) >= 0
ahead(a, b) == Sub(a, b) < Half

-----------------------------------------------------------------------------
(* The map of held packets: sequence number -> packet.                     *)

NoPackets == [s \in {} |-> 0]

\* The n numbers from s on are held and the one after them is not: drain
\* hands over exactly these n.
IsRun(held, s, n) ==
    /\ \A i \in 0 .. n - 1 : Plus(s, i) \in DOMAIN held
    /\ Plus(s, n) \notin DOMAIN held

Run(held, s, n) == [i \in 1 .. n |-> held[Plus(s, i - 1)]]

\* Seeded faults: drain does not delete what it hands over; it starts a new map
\* once it handed over something.
AfterRun_Kept(held, s, n) == held
AfterRun_Cleared(held, s, n) == IF n = 0 THEN held ELSE NoPackets

AfterRun(held, s, n) == Restrict(held, DOMAIN held \ {Plus(s, i) : i \in 0 .. n - 1})

\* The held number closest ahead of s.  (skipToNextPending also returns when
\* it finds none; PendingInWindow shows that it always finds one.)
IsNearest(held, s, best) ==
    /\ best \in DOMAIN held
    /\ ahead(best, s)
    /\ \A t \in DOMAIN held : ahead(t, s) => ahead(t, best)

\* Seeded fault: a hole counts once, however long it is.
Skipped_One(best, s) == 1

\* The positions given up on by going from s to best.
Skipped(best, s) == Sub(best, s)

\* Seeded fault: one packet too early.
PastWindow_Early(held) == Cardinality(DOMAIN held) >= Window

PastWindow(held) == Cardinality(DOMAIN held) > Window

-----------------------------------------------------------------------------
Init ==
    /\ next = 0
    /\ started = FALSE
    /\ pending = NoPackets
    /\ onMissing = FALSE
    /\ requested = 0
    /\ haveRequested = FALSE
    /\ Reordered = 0 /\ Lost = 0 /\ Late = 0
    /\ base = 0
    /\ nextPos = 0
    /\ out = << >>
    /\ asked = << >>
    /\ resets = 0

\* The packets the network may still deliver.
Deliverable(p) ==
    /\ started => nextPos - Half <= p /\ p < nextPos + Half
    /\ CallbackFirst => onMissing

\* The number, and the position, that is due when packet p is pushed: the
\* first packet of a stream decides where it starts.
Due(p) == IF started THEN next ELSE Wire(p)
DuePos(p) == IF started THEN nextPos ELSE p

\* Seeded faults: every arrival behind a hole asks again; a mark that was never
\* set counts as one for number 0.
AskFor_NoMark(s, at) == onMissing /\ Sub(s, at) \in 1 .. Window
AskFor_NoHave(s, at) == onMissing /\ requested # at /\ Sub(s, at) \in 1 .. Window

\* The hole before s, which starts at number at, is to be asked for: it was
\* not the last one asked for, and it is no longer than the window.
AskFor(s, at) ==
    /\ onMissing
    /\ ~(haveRequested /\ requested = at)
    /\ Sub(s, at) \in 1 .. Window

requestMissing(s, at, pos) ==
    IF AskFor(s, at)
    THEN /\ requested' = at
         /\ haveRequested' = TRUE
         /\ asked' = Append(asked, [first |-> pos, count |-> Sub(s, at)])
    ELSE UNCHANGED <<mark, asked>>

\* Past the window: step over the hole and hand over the run behind it.
GiveUp(held, at, ready) ==
    \E best \in DOMAIN held : \E n \in 1 .. Cardinality(DOMAIN held) :
       /\ IsNearest(held, at, best)
       /\ IsRun(held, best, n)
       /\ Lost' = Lost + Skipped(best, at)
       /\ next' = Plus(best, n) /\ nextPos' = held[best] + n
       /\ pending' = AfterRun(held, best, n)
       /\ out' = (out \o ready) \o Run(held, best, n)

\* What follows storing a packet: drain, and give up on a hole past the window.
Deliver(held, at, pos) ==
    \E n \in 0 .. Cardinality(DOMAIN held) :
       /\ IsRun(held, at, n)
       /\ IF PastWindow(AfterRun(held, at, n))
          THEN GiveUp(AfterRun(held, at, n), Plus(at, n), Run(held, at, n))
          ELSE /\ next' = Plus(at, n) /\ nextPos' = pos + n
               /\ pending' = AfterRun(held, at, n)
               /\ out' = out \o Run(held, at, n)
               /\ UNCHANGED Lost

Hold(p) == [s \in DOMAIN pending \cup {Wire(p)} |->
               IF s = Wire(p) THEN p ELSE pending[s]]

-----------------------------------------------------------------------------
(* push: a duplicate or a straggler is counted and dropped, anything else  *)
(* is stored and whatever it makes ready is handed over.                   *)

PushLate(p) ==
    /\ ~ahead(Wire(p), Due(p))
    /\ Late < MaxLate
    /\ Late' = Late + 1
    /\ UNCHANGED <<next, started, pending, onMissing, mark, Reordered, Lost,
                   history, resets>>

PushAccept(p) ==
    /\ ahead(Wire(p), Due(p))
    /\ started' = TRUE
    /\ base' = IF started THEN base ELSE p
    /\ IF Wire(p) # Due(p)
       THEN /\ Reordered < MaxReordered
            /\ Reordered' = Reordered + 1
            /\ requestMissing(Wire(p), Due(p), DuePos(p))
       ELSE UNCHANGED <<Reordered, mark, asked>>
    /\ Deliver(Hold(p), Due(p), DuePos(p))
    /\ UNCHANGED <<onMissing, Late, resets>>

push(p) == Deliverable(p) /\ (PushLate(p) \/ PushAccept(p))

\* AudioDecoder.OnMissing, called by SETUP once the reader already runs.
OnMissing ==
    /\ onMissing' = TRUE
    /\ UNCHANGED <<next, started, pending, mark, counters, history, resets>>

\* reset leaves requested, haveRequested and onMissing as they are.
reset ==
    /\ resets < MaxResets
    /\ resets' = resets + 1
    /\ started' = FALSE
    /\ next' = 0 /\ nextPos' = 0
    /\ pending' = NoPackets
    /\ Reordered' = 0 /\ Lost' = 0 /\ Late' = 0
    /\ base' = 0
    /\ out' = << >>
    /\ asked' = << >>
    /\ UNCHANGED <<onMissing, mark>>

Next == (\E p \in Positions : push(p)) \/ OnMissing \/ reset

Spec == Init /\ [][Next]_vars

-----------------------------------------------------------------------------
(* Properties                                                              *)

\* Type invariant.
TypeOK ==
    /\ next \in Seq16
    /\ started \in BOOLEAN /\ onMissing \in BOOLEAN /\ haveRequested \in BOOLEAN
    /\ requested \in Seq16
    /\ DOMAIN pending \subseteq Seq16
    /\ \A s \in DOMAIN pending : pending[s] \in Nat
    /\ Reordered \in Nat /\ Lost \in Nat /\ Late \in Nat
    /\ base \in Nat /\ nextPos \in Nat /\ resets \in Nat
    /\ out \in Seq(Nat)
    /\ asked \in Seq([first : Nat, count : Nat])

\* Between calls the map holds at most Window packets, never the one that is
\* due, and each is filed under its own number less than half a lap ahead:
\* a held packet can neither be shadowed by another lap nor stall the stream.
PendingInWindow ==
    /\ Cardinality(DOMAIN pending) <= Window
    /\ next \notin DOMAIN pending
    /\ \A s \in DOMAIN pending : /\ s = Wire(pending[s])
                                 /\ nextPos < pending[s]
                                 /\ pending[s] < nextPos + Half

\* The decoder gets packets in stream order across every wrap of the 16-bit
\* number, none twice, none from before the packet the stream was joined at.
InOrder ==
    /\ \A i, j \in 1 .. Len(out) : i < j => out[i] < out[j]
    /\ \A i \in 1 .. Len(out) : base <= out[i] /\ out[i] < nextPos

\* Every position since the stream was joined was either handed over or
\* counted in Lost, which the code keeps with wire numbers only.
LostAccounting == Lost = (nextPos - base) - Len(out)

\* A packet that was accepted is never discarded: it stays held until it is
\* handed over (or the stream is reset).
NoHeldPacketDiscarded ==
    [][started' => \A s \in DOMAIN pending :
          \/ s \in DOMAIN pending' /\ pending'[s] = pending[s]
          \/ \E i \in 1 .. Len(out') : out'[i] = pending[s]]_vars

\* A hole is given up only when Window packets behind it are held already and
\* one more arrives, never by the arrival of the missing packet itself.
GivesUpOnlyWhenFull ==
    [][started /\ Lost' > Lost =>
          /\ Cardinality(DOMAIN pending) = Window
          /\ \A i \in DOMAIN out' : out'[i] # nextPos]_vars

\* Requests name holes in stream order, each hole's first packet at most once
\* per stream, and never more than Window packets at a time.
RequestsInOrder ==
    /\ \A i, j \in 1 .. Len(asked) : i < j => asked[i].first < asked[j].first
    /\ \A i \in 1 .. Len(asked) : /\ asked[i].count \in 1 .. Window
                                  /\ asked[i].first <= nextPos

\* Some request covers position p.
Covered(p, reqs) ==
    \E i \in 1 .. Len(reqs) :
       reqs[i].first <= p /\ p < reqs[i].first + reqs[i].count

\* The packets stored by a step, as positions.
Opened == {pending'[s] : s \in DOMAIN pending' \ DOMAIN pending}

\* The mark names the number that is due, but the request it stands for was made a
\* lap of numbers, or a stream, ago: numbers are all that requestMissing compares.
StaleMark ==
    /\ haveRequested /\ requested = next
    /\ asked = << >> \/ asked[Len(asked)].first # nextPos

\* onMissing "is called as soon as a gap appears": a packet that leaves a hole
\* in front of it while nothing is held has the hole requested in full, on
\* every lap and in every stream, unless the mark is stale: such a hole is never
\* asked for.
HeadGapAsked ==
    [][onMissing /\ started /\ ~StaleMark /\ pending = NoPackets =>
          \A p \in Opened : p - nextPos \in 1 .. Window =>
             /\ Len(asked') = Len(asked) + 1
             /\ asked'[Len(asked')] = [first |-> nextPos, count |-> p - nextPos]]_vars

\* The same for every hole, also one that opens while another is open.
GapAsked ==
    [][onMissing /\ started =>
          \A p \in Opened :
             p - nextPos \in 1 .. Window /\ p - 1 >= nextPos
             /\ Wire(p - 1) \notin DOMAIN pending
             => Covered(p - 1, asked')]_vars

\* The resequencer implements the in-order playout of PlayoutOrder.
PO == INSTANCE PlayoutOrder WITH
         open <- started, front <- nextPos, played <- out, lost <- Lost
Playout == PO!Spec
=============================================================================

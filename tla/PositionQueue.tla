---------------------------- MODULE PositionQueue ---------------------------
(***************************************************************************)
(* The resequencer of internal/raop/reorder.go as AudioPath has it: on     *)
(* positions of the stream instead of numbers of 16 bits, and as a value,  *)
(* of which each decoder has one.  ResequencerProofs shows that            *)
(* Resequencer, where the numbers wrap, does the same on every call.       *)
(***************************************************************************)
EXTENDS Integers, Sequences, FiniteSetsExt

CONSTANT Window         \* seqWindow

NoPackets == [k \in {} |-> 0]

\* NewAudioDecoder: a new resequencer.  held maps a number to the stream the
\* packet came from; mark is the hole last asked for, -1 if none was.
EmptyQueue == [started |-> FALSE, base |-> 0, due |-> 0, held |-> NoPackets,
               mark |-> -1, onMissing |-> FALSE, wrote |-> 0, lost |-> 0, errors |-> 0]

\* The first number from k on that is not held.
EndOfRun(held, k) ==
    CHOOSE e \in k .. k + Cardinality(held) :
       e \notin held /\ \A i \in k .. e - 1 : i \in held

\* The numbers from a up to b, without b.
Stretch(a, b) == [i \in 1 .. b - a |-> (a + i) - 1]

\* What push makes of a queue that accepts packet p: it drains up to mid, and past
\* the window it goes on from the earliest packet it holds.
Pushed(q, p) ==
    LET due   == IF q.started THEN q.due ELSE p.no
        held  == [k \in DOMAIN q.held \cup {p.no} |-> IF k = p.no THEN p.of ELSE q.held[k]]
        mid   == EndOfRun(DOMAIN held, due)
        rest  == {k \in DOMAIN held : k >= mid}
        from  == IF Cardinality(rest) <= Window THEN mid ELSE Min(rest)
        front == EndOfRun(rest, from)
        run   == Stretch(due, mid) \o Stretch(from, front)
        ask   == /\ q.onMissing /\ q.mark # due
                 /\ p.no - due \in 1 .. Window
    IN  [queue |-> [q EXCEPT !.started = TRUE, !.due = front,
                             !.base = IF q.started THEN @ ELSE p.no,
                             !.held = [k \in {j \in rest : j >= front} |-> held[k]],
                             !.mark = IF ask THEN due ELSE @,
                             !.lost = @ + (from - mid)],
         ready |-> [i \in DOMAIN run |-> [of |-> held[run[i]], no |-> run[i]]],
         asks  |-> IF ask THEN due .. p.no - 1 ELSE {}]

Late(q, p) == q.started /\ p.no < q.due
=============================================================================

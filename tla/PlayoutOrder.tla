---------------------------- MODULE PlayoutOrder ----------------------------
(***************************************************************************)
(* What the resequencer promises the ALAC decoder, said without sequence   *)
(* numbers, windows or held packets: it hands over packets of the stream   *)
(* in stream order, each at most once, and it counts every position it     *)
(* steps over.  A packet is its position in the stream.                    *)
(***************************************************************************)
EXTENDS Integers, Sequences

VARIABLES open,     \* the first packet of the stream has been handed over
          front,    \* the position that is due next
          played,   \* the positions handed over so far, oldest first
          lost      \* how many positions were stepped over

vars == <<open, front, played, lost>>

Rising(s) == \A i, j \in 1 .. Len(s) : i < j => s[i] < s[j]

\* s extends r by positions that are all in from..(upto - 1).
Extends(s, r, from, upto) ==
    /\ Len(r) <= Len(s)
    /\ \A i \in 1 .. Len(r) : s[i] = r[i]
    /\ \A i \in 1 .. Len(s) : Len(r) < i => from <= s[i] /\ s[i] < upto

Init ==
    /\ open = FALSE
    /\ front = 0
    /\ played = <<>>
    /\ lost = 0

\* The stream opens at whichever packet arrives first.
Open ==
    /\ ~open
    /\ open' = TRUE
    /\ played' = <<front' - 1>>
    /\ lost' = 0

\* One call hands over a batch; what the batch leaves out is counted as lost.
Play ==
    /\ open
    /\ front < front'
    /\ Rising(played')
    /\ Extends(played', played, front, front')
    /\ lost' - lost = (front' - front) - (Len(played') - Len(played))
    /\ UNCHANGED open

\* A new stream starts over.
Restart ==
    /\ open' = FALSE
    /\ front' = 0
    /\ played' = <<>>
    /\ lost' = 0

Next == Open \/ Play \/ Restart

Spec == Init /\ [][Next]_vars
=============================================================================

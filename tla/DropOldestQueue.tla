-------------------------- MODULE DropOldestQueue ---------------------------
(***************************************************************************)
(* What audio.Ring promises: a bounded first-in first-out queue that       *)
(* makes room by discarding its oldest element, and counts what it         *)
(* discards.  No indices, no lock, no threads.                             *)
(***************************************************************************)
EXTENDS Integers, Sequences

CONSTANT Cap

VARIABLES queue, dropped

vars == <<queue, dropped>>

Init == queue = <<>> /\ dropped = 0

Full == Len(queue) = Cap

\* What stays when one more element comes in.
Kept == IF Full THEN Tail(queue) ELSE queue

Put ==
    /\ Len(queue') = Len(Kept) + 1
    /\ queue' = Append(Kept, queue'[Len(Kept) + 1])
    /\ dropped' = IF Full THEN dropped + 1 ELSE dropped

Get ==
    /\ queue # <<>>
    /\ queue' = Tail(queue)
    /\ UNCHANGED dropped

Clear == queue' = <<>> /\ dropped' = 0

Next == Put \/ Get \/ Clear

Spec == Init /\ [][Next]_vars
=============================================================================

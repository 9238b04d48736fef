-------------------------------- MODULE Pacing ------------------------------
(***************************************************************************)
(* internal/audio/wav.go: StreamPCM, which feeds one speaker from the ring *)
(* at the rate of the clock, and bridge.ServeStream around it.             *)
(*                                                                         *)
(* Time and audio are counted in the same ticks, so that a tick of audio   *)
(* plays for a tick.  The ring is its depth.  A goroutine that can run     *)
(* does so before the clock moves on, except that a write to the speaker   *)
(* may block: delays of the scheduler are delays of the next write.        *)
(*                                                                         *)
(* The sender is as late as it likes, up to Delay: at any time it has      *)
(* supplied at least what it should have Delay ticks ago.  This is what    *)
(* the resequencer does to a steady stream while it waits for a resend.    *)
(***************************************************************************)
EXTENDS Integers

CONSTANTS Chunk,        \* chunkFrames
          ReserveFrames,
          Cap,          \* the ring's capacity
          Delay,        \* how late the sender may be
          Ahead,        \* how far ahead of time it may be
          MaxStall,     \* bound on the time the writes of a stream block
          MaxFlushes,   \* bound on the resets of the ring
          MaxTime       \* bound on the clock

ASSUME ChunkAssumption == Chunk \in Nat \ {0} /\ ReserveFrames \in Nat
ASSUME CapAssumption == Cap \in Nat /\ Cap >= Chunk + ReserveFrames
ASSUME SenderAssumption == Delay \in Nat /\ Ahead \in Nat
ASSUME BoundsAssumption == MaxStall \in Nat /\ MaxFlushes \in Nat /\ MaxTime \in Nat

VARIABLES
    now,        \* the clock
    supplied,   \* audio written to the ring so far
    depth,      \* Ring.Len
    \* StreamPCM: where it is, its deadline, and filled of the silence loop
    pc, next, filled,
    \* history: audio sent to the speaker, the silence Read padded with, the time
    \* writes have blocked, resets of the ring so far, and what left at this instant:
    \* the chunks that were sent short, and the startup's silence
    sent, padded, stalled, flushes, burst, hush

sender  == <<supplied, depth>>
streams == <<pc, next, filled>>
history == <<sent, padded, stalled, flushes, burst, hush>>
vars    == <<now, sender, streams, history>>

Init ==
    /\ now = 0
    /\ supplied = 0 /\ depth = 0
    /\ pc = "fill" /\ next = 0 /\ filled = 0
    /\ sent = 0 /\ padded = 0 /\ stalled = 0 /\ flushes = 0
    /\ burst = 0 /\ hush = 0

-----------------------------------------------------------------------------
(* The ring's other side                                                   *)

\* A packet is decoded into the ring, which drops its oldest audio when full.
Supply ==
    /\ supplied < now + Ahead
    /\ supplied' = supplied + 1
    /\ depth' = IF depth < Cap THEN depth + 1 ELSE depth
    /\ UNCHANGED <<now, streams, history>>

\* FLUSH, RECORD or TEARDOWN reset the ring.
Reset ==
    /\ flushes < MaxFlushes
    /\ flushes' = flushes + 1
    /\ depth' = 0
    /\ UNCHANGED <<now, supplied, streams, sent, padded, stalled, burst, hush>>

-----------------------------------------------------------------------------
(* StreamPCM                                                               *)

\* Seeded fault: no startup fill.
Filling_Never == FALSE

Filling == filled < ReserveFrames /\ depth < ReserveFrames

\* The head of the startup loop.
Fill ==
    /\ pc = "fill"
    /\ IF Filling
       THEN next' = next + Chunk /\ pc' = "sleep"
       ELSE pc' = "top" /\ UNCHANGED next
    /\ UNCHANGED <<now, sender, filled, history>>

\* The sleep is over: send silence.
Sleep ==
    /\ pc = "sleep" /\ now >= next
    /\ pc' = "silence"
    /\ UNCHANGED <<now, sender, next, filled, history>>

SilenceWritten ==
    /\ pc = "silence"
    /\ filled' = filled + Chunk
    /\ sent' = sent + Chunk
    /\ hush' = hush + Chunk
    /\ pc' = "fill"
    /\ UNCHANGED <<now, sender, next, padded, stalled, flushes, burst>>

\* The next chunk, and whether there is time to wait before it is due.
Top ==
    /\ pc = "top"
    /\ next' = next + Chunk
    /\ pc' = IF next' > now THEN "wait" ELSE "read"
    /\ UNCHANGED <<now, sender, filled, sent, padded, stalled, flushes, burst, hush>>

\* Seeded fault: each wait has its own timeout, longer than a chunk.
Expired_Relative == now >= next + 1

Enough == depth >= Chunk + ReserveFrames
Expired == now >= next

\* WaitFor returns: a chunk and the reserve are there, or the chunk is due.
Waited ==
    /\ pc = "wait" /\ (Enough \/ Expired)
    /\ pc' = "read"
    /\ UNCHANGED <<now, sender, next, filled, history>>

\* Seeded fault: a whole chunk is taken, whatever there is.
Taken_All == Chunk

\* Read takes what is there and pads the rest.
Taken == IF depth < Chunk THEN depth ELSE Chunk

Read ==
    /\ pc = "read"
    /\ depth' = depth - Taken
    /\ padded' = padded + (Chunk - Taken)
    /\ burst' = IF depth < Chunk + ReserveFrames THEN burst + 1 ELSE burst
    /\ pc' = "write"
    /\ UNCHANGED <<now, supplied, next, filled, sent, stalled, flushes, hush>>

\* Seeded fault: the deadlines missed are made up for.
Reanchored_Never == next

\* After a write that came back too late, start over from now.
Reanchored == IF now - next > Chunk THEN now ELSE next

Written ==
    /\ pc = "write"
    /\ sent' = sent + Chunk
    /\ next' = Reanchored
    /\ pc' = "top"
    /\ UNCHANGED <<now, sender, filled, padded, stalled, flushes, burst, hush>>

\* A write fails: the speaker has disconnected, StreamPCM returns.
Disconnect ==
    /\ pc \in {"silence", "write"}
    /\ pc' = "done"
    /\ UNCHANGED <<now, sender, next, filled, history>>

-----------------------------------------------------------------------------
\* Nothing is due: StreamPCM sleeps, waits, or is blocked in a write.
Blocked == pc \in {"silence", "write"} /\ stalled < MaxStall
Idle ==
    \/ pc = "sleep" /\ now < next
    \/ pc = "wait" /\ ~Enough /\ ~Expired
    \/ Blocked

Tick ==
    /\ now < MaxTime /\ Idle
    /\ supplied >= now + 1 - Delay
    /\ now' = now + 1
    /\ stalled' = IF Blocked THEN stalled + 1 ELSE stalled
    /\ burst' = 0 /\ hush' = 0
    /\ UNCHANGED <<sender, streams, sent, padded, flushes>>

StreamPCM ==
    \/ Fill \/ Sleep \/ SilenceWritten
    \/ Top \/ Waited \/ Read \/ Written \/ Disconnect

Next == Supply \/ Reset \/ StreamPCM \/ Tick

Spec == Init /\ [][Next]_vars

-----------------------------------------------------------------------------
(* Properties                                                              *)

\* Type invariant.
TypeOK ==
    /\ now \in 0 .. MaxTime /\ supplied \in 0 .. MaxTime + Ahead /\ depth \in 0 .. Cap
    /\ pc \in {"fill", "sleep", "silence", "top", "wait", "read", "write", "done"}
    /\ next \in Nat /\ filled \in 0 .. ReserveFrames + Chunk
    /\ sent \in Nat /\ padded \in 0 .. sent + Chunk
    /\ stalled \in 0 .. MaxStall /\ flushes \in 0 .. MaxFlushes
    /\ burst \in Nat /\ hush \in 0 .. filled

\* "The stream never falls behind realtime whatever the network does": while
\* the speaker takes what it is offered, all but the chunk in hand was sent.
RateKept == stalled = 0 /\ pc # "done" => now - sent <= Chunk

\* Nor does it run away after writes have blocked.  Once audio is sent, and
\* without audio in excess of the reserve, no more than two chunks leave in the
\* same instant.  A reset lets one more go: the chunk that was about to leave ahead
\* of its time, because the ring was full enough when its wait ended.  The startup
\* fill keeps its deadlines whatever blocks: what leaves at once is the silence
\* that blocked writes held up, and a chunk, and never more than the whole fill.
NoBurst ==
    /\ burst <= 2 + flushes
    /\ hush <= stalled + Chunk /\ hush < ReserveFrames + Chunk

\* "It must exceed the resequencer's reorder window, so that waiting for a
\* resend does not empty the ring and force a pad": a sender whose lead and delay
\* together stay within the reserve is never padded.  (The lead counts: a ring
\* that reaches the reserve with audio sent ahead of time ends the fill early.)
NoPadWithinReserve ==
    Delay + Ahead <= ReserveFrames /\ stalled = 0 /\ flushes = 0 => padded = 0
=============================================================================

---------------------------- MODULE PacingProofs ----------------------------
(***************************************************************************)
(* Theorems about Pacing, for every chunk, reserve, ring capacity, sender  *)
(* and bound.                                                              *)
(***************************************************************************)
EXTENDS Pacing, TLAPS

-----------------------------------------------------------------------------
(* The inductive invariant                                                 *)

InFill == pc \in {"fill", "sleep", "silence"}

\* The type invariant, and the bounds behind it: the fill goes on only below
\* the reserve, and what was padded has been sent or is about to be.
TypeInv ==
    /\ now \in 0 .. MaxTime /\ supplied \in Nat /\ depth \in 0 .. Cap
    /\ pc \in {"fill", "sleep", "silence", "top", "wait", "read", "write", "done"}
    /\ next \in Nat /\ filled \in Nat /\ filled < ReserveFrames + Chunk
    /\ pc \in {"sleep", "silence"} => filled < ReserveFrames
    /\ sent \in Nat /\ padded \in Nat
    /\ padded <= sent + IF pc \in {"write", "done"} THEN Chunk ELSE 0
    /\ stalled \in 0 .. MaxStall /\ flushes \in 0 .. MaxFlushes
    /\ burst \in Nat /\ hush \in 0 .. filled

\* The sender is neither later than Delay nor earlier than Ahead.
SenderInv == now - Delay <= supplied /\ supplied <= now + Ahead

\* While no write blocks, the deadline is what was sent, or a chunk more once
\* the next chunk was begun, and has not passed.
DeadlineInv ==
    stalled = 0 /\ pc # "done" =>
       /\ next = sent + IF pc \in {"fill", "top"} THEN 0 ELSE Chunk
       /\ now <= next

\* How many chunks can still leave at this instant: one that is more than a
\* chunk late is the first of all, one that is late or just due is followed by
\* one at most, and one ahead of time has the audio or was let go by a reset.
BurstInv ==
    /\ burst <= 2 + flushes
    /\ InFill => burst = 0
    /\ pc = "top" => /\ now > next + Chunk => burst = 0
                     /\ now = next + Chunk => burst <= 1 + flushes
    /\ pc = "wait" => now < next \/ (now = next /\ burst = 0)
    /\ pc = "read" => /\ now > next => burst = 0
                      /\ now = next => burst <= 1 + flushes
                      /\ now < next => Enough \/ burst <= 1 + flushes
    /\ pc = "write" /\ now > next => burst <= 1 + flushes

\* The silence that can still leave at this instant: the fill is behind its deadline by
\* no more than writes have blocked, and each chunk it sends brings it closer.
HushInv ==
    /\ hush <= stalled + Chunk
    /\ pc = "fill" => /\ (now - next) + hush <= stalled + Chunk
                      /\ hush > 0 => now >= next
    /\ pc \in {"sleep", "silence"} => (now - next) + hush <= stalled
    /\ pc = "silence" => now >= next

\* When the chunk in hand, or else the next one, was or will be due.
Due == IF pc \in {"top", "write"} THEN next + Chunk ELSE next

\* The sender's lead and delay fit in the reserve, and nothing disturbs the stream.
Quiet == Delay + Ahead <= ReserveFrames /\ stalled = 0 /\ flushes = 0

\* During the fill the ring keeps all it is given and the stream sends silence
\* only; after it, there is a chunk in the ring when it is due even if the
\* sender is as late as it can be by then.
DepthInv ==
    Quiet =>
       /\ padded = 0
       /\ InFill => /\ filled = sent
                    /\ depth = IF supplied < Cap THEN supplied ELSE Cap
       /\ ~InFill /\ pc # "done" => depth >= Chunk + Delay + supplied - Due
       /\ pc = "read" /\ now < next => Enough

IInv == TypeInv /\ SenderInv /\ DeadlineInv /\ BurstInv /\ HushInv /\ DepthInv

USE ChunkAssumption, CapAssumption, SenderAssumption, BoundsAssumption

LEMMA InitInv == Init => IInv
BY DEF Init, IInv, TypeInv, SenderInv, DeadlineInv, BurstInv, HushInv, DepthInv, InFill, Quiet

LEMMA NextInv == IInv /\ [Next]_vars => IInv'
<1> SUFFICES ASSUME IInv, [Next]_vars
             PROVE  IInv'
  OBVIOUS
<1> USE DEF IInv, sender, streams, history
<1>1. CASE Supply
  <2>1. TypeInv'
    BY <1>1 DEF Supply, TypeInv
  <2>2. SenderInv'
    BY <1>1 DEF Supply, TypeInv, SenderInv
  <2>3. DeadlineInv'
    BY <1>1 DEF Supply, TypeInv, DeadlineInv
  <2>4. BurstInv'
    BY <1>1 DEF Supply, TypeInv, BurstInv, InFill, Enough
  <2>5. DepthInv'
    BY <1>1 DEF Supply, TypeInv, SenderInv, DeadlineInv, DepthInv, InFill, Quiet, Due, Enough
  <2>6. HushInv'
    BY <1>1 DEF Supply, TypeInv, HushInv
  <2> QED
    BY <2>1, <2>2, <2>3, <2>4, <2>5, <2>6
<1>2. CASE Reset
  <2>1. TypeInv'
    BY <1>2 DEF Reset, TypeInv
  <2>2. SenderInv'
    BY <1>2 DEF Reset, TypeInv, SenderInv
  <2>3. DeadlineInv'
    BY <1>2 DEF Reset, TypeInv, DeadlineInv
  <2>4. BurstInv'
    BY <1>2 DEF Reset, TypeInv, BurstInv, InFill, Enough
  <2>5. DepthInv'
    BY <1>2 DEF Reset, TypeInv, SenderInv, DeadlineInv, DepthInv, InFill, Quiet, Due, Enough
  <2>6. HushInv'
    BY <1>2 DEF Reset, TypeInv, HushInv
  <2> QED
    BY <2>1, <2>2, <2>3, <2>4, <2>5, <2>6
<1>3. CASE Fill
  <2>1. TypeInv'
    BY <1>3 DEF Fill, Filling, TypeInv
  <2>2. SenderInv'
    BY <1>3 DEF Fill, Filling, TypeInv, SenderInv
  <2>3. DeadlineInv'
    BY <1>3 DEF Fill, Filling, TypeInv, DeadlineInv
  <2>4. BurstInv'
    BY <1>3 DEF Fill, Filling, TypeInv, BurstInv, InFill, Enough
  <2>5. DepthInv'
    BY <1>3 DEF Fill, Filling, TypeInv, SenderInv, DeadlineInv, DepthInv, InFill, Quiet, Due, Enough
  <2>6. HushInv'
    BY <1>3 DEF Fill, Filling, TypeInv, HushInv
  <2> QED
    BY <2>1, <2>2, <2>3, <2>4, <2>5, <2>6
<1>4. CASE Sleep
  <2>1. TypeInv'
    BY <1>4 DEF Sleep, TypeInv
  <2>2. SenderInv'
    BY <1>4 DEF Sleep, TypeInv, SenderInv
  <2>3. DeadlineInv'
    BY <1>4 DEF Sleep, TypeInv, DeadlineInv
  <2>4. BurstInv'
    BY <1>4 DEF Sleep, TypeInv, BurstInv, InFill, Enough
  <2>5. DepthInv'
    BY <1>4 DEF Sleep, TypeInv, SenderInv, DeadlineInv, DepthInv, InFill, Quiet, Due, Enough
  <2>6. HushInv'
    BY <1>4 DEF Sleep, TypeInv, HushInv
  <2> QED
    BY <2>1, <2>2, <2>3, <2>4, <2>5, <2>6
<1>5. CASE SilenceWritten
  <2>1. TypeInv'
    BY <1>5 DEF SilenceWritten, TypeInv
  <2>2. SenderInv'
    BY <1>5 DEF SilenceWritten, TypeInv, SenderInv
  <2>3. DeadlineInv'
    BY <1>5 DEF SilenceWritten, TypeInv, DeadlineInv
  <2>4. BurstInv'
    BY <1>5 DEF SilenceWritten, TypeInv, BurstInv, InFill, Enough
  <2>5. DepthInv'
    BY <1>5 DEF SilenceWritten, TypeInv, SenderInv, DeadlineInv, DepthInv, InFill, Quiet, Due, Enough
  <2>6. HushInv'
    BY <1>5 DEF SilenceWritten, TypeInv, HushInv
  <2> QED
    BY <2>1, <2>2, <2>3, <2>4, <2>5, <2>6
<1>6. CASE Top
  <2>1. TypeInv'
    BY <1>6 DEF Top, TypeInv
  <2>2. SenderInv'
    BY <1>6 DEF Top, TypeInv, SenderInv
  <2>3. DeadlineInv'
    BY <1>6 DEF Top, TypeInv, DeadlineInv
  <2>4. BurstInv'
    BY <1>6 DEF Top, TypeInv, BurstInv, InFill, Enough
  <2>5. DepthInv'
    BY <1>6 DEF Top, TypeInv, SenderInv, DeadlineInv, DepthInv, InFill, Quiet, Due, Enough
  <2>6. HushInv'
    BY <1>6 DEF Top, TypeInv, HushInv
  <2> QED
    BY <2>1, <2>2, <2>3, <2>4, <2>5, <2>6
<1>7. CASE Waited
  <2>1. TypeInv'
    BY <1>7 DEF Waited, Expired, TypeInv
  <2>2. SenderInv'
    BY <1>7 DEF Waited, Expired, TypeInv, SenderInv
  <2>3. DeadlineInv'
    BY <1>7 DEF Waited, Expired, TypeInv, DeadlineInv
  <2>4. BurstInv'
    BY <1>7 DEF Waited, Expired, TypeInv, BurstInv, InFill, Enough
  <2>5. DepthInv'
    BY <1>7 DEF Waited, Expired, TypeInv, SenderInv, DeadlineInv, DepthInv, InFill, Quiet, Due, Enough
  <2>6. HushInv'
    BY <1>7 DEF Waited, Expired, TypeInv, HushInv
  <2> QED
    BY <2>1, <2>2, <2>3, <2>4, <2>5, <2>6
<1>8. CASE Read
  <2>1. TypeInv'
    BY <1>8 DEF Read, Taken, TypeInv
  <2>2. SenderInv'
    BY <1>8 DEF Read, Taken, TypeInv, SenderInv
  <2>3. DeadlineInv'
    BY <1>8 DEF Read, Taken, TypeInv, DeadlineInv
  <2>4. BurstInv'
    BY <1>8 DEF Read, Taken, TypeInv, BurstInv, InFill, Enough
  <2>5. DepthInv'
    BY <1>8 DEF Read, Taken, TypeInv, SenderInv, DeadlineInv, DepthInv, InFill, Quiet, Due, Enough
  <2>6. HushInv'
    BY <1>8 DEF Read, Taken, TypeInv, HushInv
  <2> QED
    BY <2>1, <2>2, <2>3, <2>4, <2>5, <2>6
<1>9. CASE Written
  <2>1. TypeInv'
    BY <1>9 DEF Written, Reanchored, TypeInv
  <2>2. SenderInv'
    BY <1>9 DEF Written, Reanchored, TypeInv, SenderInv
  <2>3. DeadlineInv'
    BY <1>9 DEF Written, Reanchored, TypeInv, DeadlineInv
  <2>4. BurstInv'
    BY <1>9 DEF Written, Reanchored, TypeInv, BurstInv, InFill, Enough
  <2>5. DepthInv'
    BY <1>9 DEF Written, Reanchored, TypeInv, SenderInv, DeadlineInv, DepthInv, InFill, Quiet, Due, Enough
  <2>6. HushInv'
    BY <1>9 DEF Written, Reanchored, TypeInv, HushInv
  <2> QED
    BY <2>1, <2>2, <2>3, <2>4, <2>5, <2>6
<1>10. CASE Disconnect
  <2>1. TypeInv'
    BY <1>10 DEF Disconnect, TypeInv
  <2>2. SenderInv'
    BY <1>10 DEF Disconnect, TypeInv, SenderInv
  <2>3. DeadlineInv'
    BY <1>10 DEF Disconnect, TypeInv, DeadlineInv
  <2>4. BurstInv'
    BY <1>10 DEF Disconnect, TypeInv, BurstInv, InFill, Enough
  <2>5. DepthInv'
    BY <1>10 DEF Disconnect, TypeInv, SenderInv, DeadlineInv, DepthInv, InFill, Quiet, Due, Enough
  <2>6. HushInv'
    BY <1>10 DEF Disconnect, TypeInv, HushInv
  <2> QED
    BY <2>1, <2>2, <2>3, <2>4, <2>5, <2>6
<1>11. CASE Tick
  <2>1. TypeInv'
    BY <1>11 DEF Tick, Idle, Blocked, Expired, TypeInv
  <2>2. SenderInv'
    BY <1>11 DEF Tick, Idle, Blocked, Expired, TypeInv, SenderInv
  <2>3. DeadlineInv'
    BY <1>11 DEF Tick, Idle, Blocked, Expired, TypeInv, DeadlineInv
  <2>4. BurstInv'
    BY <1>11 DEF Tick, Idle, Blocked, Expired, TypeInv, BurstInv, InFill, Enough
  <2>5. DepthInv'
    BY <1>11 DEF Tick, Idle, Blocked, Expired, TypeInv, SenderInv, DeadlineInv, DepthInv, InFill, Quiet, Due, Enough
  <2>6. HushInv'
    BY <1>11 DEF Tick, Idle, Blocked, Expired, TypeInv, HushInv
  <2> QED
    BY <2>1, <2>2, <2>3, <2>4, <2>5, <2>6
<1>12. CASE UNCHANGED vars
  BY <1>12 DEF vars, TypeInv, SenderInv, DeadlineInv, BurstInv, HushInv, DepthInv,
              InFill, Quiet, Due, Enough
<1> QED
  BY <1>1, <1>2, <1>3, <1>4, <1>5, <1>6, <1>7, <1>8, <1>9, <1>10, <1>11, <1>12 DEF Next, StreamPCM

\* The inductive invariant holds in every reachable state.
THEOREM Invariance == Spec => []IInv
<1>1. Init => IInv
  BY InitInv
<1>2. IInv /\ [Next]_vars => IInv'
  BY NextInv
<1> QED
  BY <1>1, <1>2, PTL DEF Spec

-----------------------------------------------------------------------------

\* Type correctness of the pacing loop of StreamPCM and its ring.
THEOREM TypeCorrect == Spec => []TypeOK
<1>1. IInv => TypeOK
  BY DEF IInv, TypeInv, SenderInv, TypeOK
<1> QED
  BY <1>1, Invariance, PTL

\* Whatever the sender and the ring's resets do, a speaker that takes what it
\* is offered has been sent all but the chunk in hand: StreamPCM keeps the rate.
THEOREM KeepsRate == Spec => []RateKept
<1>1. IInv => RateKept
  BY DEF IInv, TypeInv, DeadlineInv, RateKept
<1> QED
  BY <1>1, Invariance, PTL

\* However long writes were blocked, the main loop does not make up for it with a
\* burst: two chunks, and one for each reset of the ring.  The startup fill does, with
\* the silence it still owes, of at most the time blocked and at most the fill.
THEOREM BoundedBurst == Spec => []NoBurst
<1>1. IInv => NoBurst
  BY DEF IInv, TypeInv, BurstInv, HushInv, NoBurst
<1> QED
  BY <1>1, Invariance, PTL

\* A sender whose lead and delay together fit in the reserve is never padded.
THEOREM ReserveSuffices == Spec => []NoPadWithinReserve
<1>1. IInv => NoPadWithinReserve
  BY DEF IInv, DepthInv, Quiet, NoPadWithinReserve
<1> QED
  BY <1>1, Invariance, PTL
=============================================================================

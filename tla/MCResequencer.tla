--------------------------- MODULE MCResequencer ----------------------------
(* Model checking of Resequencer. *)
EXTENDS Resequencer

\* With 16 numbers: a stretch of the stream, placed so that it crosses the wrap.
AcrossWrap == 11 .. 19

\* With 10 numbers: more than a lap, so that a hole opens where one was asked for a lap ago.
OverALap == 4 .. 16
=============================================================================

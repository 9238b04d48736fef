----------------------------- MODULE MCAudioPath ----------------------------
(* Model checking of AudioPath. *)
EXTENDS AudioPath

\* A stream long enough to lose, hold, ask for and give up on packets, and two
\* streams of which the second may take over from the first.
OneStream == <<5>>
TwoStreams == <<1, 1>>
=============================================================================

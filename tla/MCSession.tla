------------------------------ MODULE MCSession -----------------------------
(* Model checking of Session. *)
EXTENDS Session, TLC

CONSTANTS c1, c2, main

\* The connections are interchangeable.
Symmetry == Permutations(Conns)

\* What a real sender announces, and that with every way a line can be wrong.
Cookie == <<352, 0, 16, 40, 10, 14, 2, 255, 0, 0, 44100>>
Attr(k, v) == [key |-> k, value |-> v]
Announced == {<<Attr("rtpmap", TRUE), Attr("fmtp", Cookie), Attr("rsaaeskey", TRUE),
                Attr("aesiv", TRUE)>>}
AnyLine == {Attr("fmtp", Cookie), Attr("fmtp", [Cookie EXCEPT ![1] = 0]),
            Attr("fmtp", [Cookie EXCEPT ![7] = 256]), Attr("fmtp", [Cookie EXCEPT ![8] = -1]),
            Attr("fmtp", <<352>>), Attr("rtpmap", FALSE)}
           \cup {Attr(k, v) : k \in {"rsaaeskey", "aesiv"}, v \in BOOLEAN}
AnyBody == UNION {[1 .. n -> AnyLine] : n \in 0 .. 3} \cup Announced

\* Mute, below the floor, either side of half a percent, and above full.
AirPlayVolumes == {-14400, -5000, -2986, -2984, 300}
NoVolumes == {}
=============================================================================

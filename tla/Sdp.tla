--------------------------------- MODULE Sdp --------------------------------
(***************************************************************************)
(* internal/raop/sdp.go: the body of an ANNOUNCE, which decides whether    *)
(* there is a session and how its audio is decoded.                        *)
(*                                                                         *)
(* A body is the sequence of its lines, and a line is its key and what is  *)
(* left of its value: for fmtp the eleven numbers of the cookie, where     *)
(* NotANumber stands for a field that is none; for rtpmap, rsaaeskey and   *)
(* aesiv whether the value is one the receiver can use (the codec; a key   *)
(* and an IV of 16 bytes).  A line with another key changes nothing here.  *)
(***************************************************************************)
EXTENDS Integers, Sequences

NotANumber == -1
NoConfig   == [FrameLength |-> 0, BitDepth |-> 0, NumChannels |-> 0]

Uint8(x) == x % 256

\* parseFmtp: the configuration, narrowed to the widths of Config.
Config(f) == [FrameLength |-> f[1], BitDepth |-> Uint8(f[3]), NumChannels |-> Uint8(f[7])]

parseFmtp(f) ==
    /\ Len(f) = 11 /\ \A i \in 1 .. 11 : f[i] # NotANumber
    /\ Config(f).FrameLength # 0 /\ Config(f).NumChannels # 0

\* One line: an attribute that is present twice counts as it was last.
Line(s, l) ==
    CASE l.key = "fmtp" ->
           IF parseFmtp(l.value) THEN [s EXCEPT !.config = Config(l.value), !.sawFmtp = TRUE]
           ELSE [s EXCEPT !.err = TRUE]
      [] l.key = "rtpmap"    -> [s EXCEPT !.err = ~l.value]
      [] l.key = "rsaaeskey" -> IF l.value THEN [s EXCEPT !.key = TRUE] ELSE [s EXCEPT !.err = TRUE]
      [] l.key = "aesiv"     -> IF l.value THEN [s EXCEPT !.iv = TRUE] ELSE [s EXCEPT !.err = TRUE]
      [] OTHER -> s

\* The loop of ParseSDP, which ends at the first line in error.
Lines(body) ==
    LET after[i \in 0 .. Len(body)] ==
            IF i = 0 THEN [config |-> NoConfig, sawFmtp |-> FALSE, key |-> FALSE,
                           iv |-> FALSE, err |-> FALSE]
            ELSE IF after[i - 1].err THEN after[i - 1]
            ELSE Line(after[i - 1], body[i])
    IN  after[Len(body)]

\* ParseSDP and announce refuse: a line in error, no fmtp, a key without an IV or the
\* reverse, and a session that is not encrypted.
Refused(s) == s.err \/ ~s.sawFmtp \/ s.key # s.iv \/ ~s.key

Accepts(body) == ~Refused(Lines(body))
=============================================================================

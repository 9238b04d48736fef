------------------------------- MODULE Session ------------------------------
(***************************************************************************)
(* The life of an AirPlay session: raop.Receiver (internal/raop/rtsp.go),  *)
(* bridge.Bridge (internal/bridge/bridge.go) and the Sonos speaker they    *)
(* drive over SOAP.                                                        *)
(*                                                                         *)
(* Every RTSP connection is a goroutine that handles one request at a      *)
(* time; RECORD starts Bridge.Start in a goroutine of its own.  A step is  *)
(* one critical section of Receiver.mu or Bridge.mu, or one SOAP call, so  *)
(* whatever the code does between two of them can be overtaken.            *)
(* What flows through the sockets and the ring is left to other modules.   *)
(***************************************************************************)
EXTENDS Integers, FiniteSets, Sdp

CONSTANTS Conns,      \* RTSP connections
          Closers,    \* threads that call Receiver.Close (shutdown)
          NoConn,     \* a nil owner
          SoapFaults, \* a SOAP call may fail or lose its answer, and newNonce may fail
          BindFaults, \* net.ListenUDP may fail
          Bodies,     \* the SDP bodies a sender may announce
          Volumes,    \* the volumes a sender may set, in hundredths of a dB
          MaxAnnounces, MaxSetups, MaxStarts, MaxVolumes \* bounds on the ANNOUNCEs,
                      \* the SETUPs, the goroutines that run Bridge.Start, the volumes

Threads == Conns \cup Closers
Starts  == 1 .. MaxStarts

ASSUME NamesAssumption == NoConn \notin Threads /\ Conns \cap Closers = {}
ASSUME FaultsAssumption == SoapFaults \in BOOLEAN /\ BindFaults \in BOOLEAN
ASSUME VolumesAssumption == Volumes \subseteq Int
ASSUME BodiesAssumption ==
    \A body \in Bodies :
        /\ Len(body) \in Nat
        /\ \A i \in 1 .. Len(body) : LET l == body[i] IN
              /\ l.key = "fmtp" => l.value \in Seq(Nat \cup {NotANumber})
              /\ l.key \in {"rtpmap", "rsaaeskey", "aesiv"} => l.value \in BOOLEAN
ASSUME BoundAssumption == MaxAnnounces \in Nat /\ MaxSetups \in Nat /\ MaxStarts \in Nat
                          /\ MaxVolumes \in Nat

VARIABLES
    \* the fields of Receiver: decoder (0 is nil, else the number of its
    \* ANNOUNCE), owner, UDP sockets (0 is nil, else the number of the SETUP
    \* that bound them), running
    dec, owner, udp, running,
    \* the fields of Bridge; nonces are numbered, 0 is none
    nonce, playing,
    \* RTSP goroutines: where each is, the SETUP, the run or the volume it is busy
    \* with, what it read of running, and whether it tears down because it is closing
    pc, job, wasRunning, closing,
    \* Bridge.Start goroutines: where each is, its URL (by nonce), its run
    phase, url, runOf,
    \* the speaker
    transport, uri, volume,
    \* history: sockets open in the process; ANNOUNCEs, SETUPs, nonces, runs and
    \* Starts so far; the URLs the speaker was given; plays and stops that the bridge completed,
    \* runs whose Start failed, a teardown overtook a Start in flight
    open, announces, setups, nonces, runs, launched, uris, plays, stops, failed, overtook,
    \* history: the last body announced had all it takes; the volumes set so far, and
    \* the last of them
    complete, volumes, wanted

receiver == <<dec, owner, udp, running>>
bridge   == <<nonce, playing>>
thread   == <<pc, job, wasRunning, closing>>
starting == <<phase, url, runOf>>
speaker  == <<transport, uri, volume>>
asked    == <<complete, volumes, wanted>>
counts   == <<open, announces, setups, nonces, runs, launched, uris, plays, stops,
              failed, overtook>>
vars     == <<receiver, bridge, thread, starting, speaker, counts, asked>>

Init ==
    /\ dec = 0 /\ owner = NoConn /\ udp = 0 /\ running = FALSE
    /\ nonce = 0 /\ playing = FALSE
    /\ pc = [t \in Threads |-> "idle"]
    /\ job = [t \in Threads |-> 0]
    /\ wasRunning = [t \in Threads |-> FALSE]
    /\ closing = [t \in Threads |-> FALSE]
    /\ phase = [g \in Starts |-> "unused"]
    /\ url = [g \in Starts |-> 0]
    /\ runOf = [g \in Starts |-> 0]
    /\ transport = "STOPPED" /\ uri = 0 /\ volume = 0
    /\ open = {}
    /\ announces = 0 /\ setups = 0 /\ nonces = 0 /\ runs = 0 /\ launched = 0
    /\ uris = {}
    /\ plays = 0 /\ stops = 0 /\ failed = {} /\ overtook = FALSE
    /\ complete = FALSE /\ volumes = 0 /\ wanted = 0

Goto(t, l) == pc' = [pc EXCEPT ![t] = l]
Advance(g, l) == phase' = [phase EXCEPT ![g] = l]

\* A Start goroutine that has been launched and has not returned.
InFlight(g) == phase[g] \in {"nonce", "uri", "play", "mark"}

-----------------------------------------------------------------------------
(* The requests of one connection                                          *)

\* What a body needs, line by line: the reference for ParseSDP.
GoodLine(l) == IF l.key = "fmtp"
               THEN /\ Len(l.value) = 11 /\ \A i \in 1 .. 11 : l.value[i] >= 0
                    /\ l.value[1] > 0 /\ l.value[7] % 256 > 0
               ELSE l.key \in {"rtpmap", "rsaaeskey", "aesiv"} => l.value
Complete(body) ==
    /\ \A i \in 1 .. Len(body) : GoodLine(body[i])
    /\ \A k \in {"fmtp", "rsaaeskey", "aesiv"} : \E i \in 1 .. Len(body) : body[i].key = k

\* Seeded fault: the old session is given up before the new body is read.
Refuse_Ends == dec' = 0 /\ owner' = NoConn

Refuse == UNCHANGED <<dec, owner>>

\* ANNOUNCE of an encrypted session: a new decoder, and a new owner, at any
\* time.  Any other is refused and changes nothing.
announce(c) ==
    /\ pc[c] = "idle" /\ announces < MaxAnnounces
    /\ announces' = announces + 1
    /\ \E body \in Bodies :
          /\ IF Accepts(body) THEN dec' = announces' /\ owner' = c ELSE Refuse
          /\ complete' = Complete(body)
    /\ UNCHANGED <<udp, running, bridge, thread, starting, speaker, volumes, wanted,
                   open, setups, nonces, launched, uris, runs, plays, stops, failed, overtook>>

\* Seeded fault: the sockets are forgotten, not closed.
AfterCloseUDP_Leak == open

\* closeUDP: the sockets that stay open.
AfterCloseUDP == open \ {udp}

\* SETUP first closes the sockets of the previous SETUP, then binds its own.
setupBind(c) ==
    /\ pc[c] = "idle" /\ setups < MaxSetups
    /\ setups' = setups + 1
    /\ udp' = 0
    /\ open' = AfterCloseUDP \cup {setups'}
    /\ job' = [job EXCEPT ![c] = setups']
    /\ Goto(c, "bound")
    /\ UNCHANGED <<dec, owner, running, bridge, wasRunning, closing, starting, speaker,
                   announces, nonces, launched, uris, runs, plays, stops, failed, overtook, asked>>

\* A bind fails: SETUP is refused, and what it bound before stays open.
setupFail(c) ==
    /\ BindFaults
    /\ pc[c] = "idle" /\ setups < MaxSetups
    /\ setups' = setups + 1
    /\ udp' = 0
    /\ \E bound \in SUBSET {setups'} : open' = AfterCloseUDP \cup bound
    /\ UNCHANGED <<dec, owner, running, bridge, thread, starting, speaker,
                   announces, nonces, launched, uris, runs, plays, stops, failed, overtook, asked>>

\* The new sockets are published, over whatever is there.
setupPublish(c) ==
    /\ pc[c] = "bound"
    /\ udp' = job[c]
    /\ job' = [job EXCEPT ![c] = 0]
    /\ Goto(c, "idle")
    /\ UNCHANGED <<dec, owner, running, bridge, wasRunning, closing, starting, speaker, counts, asked>>

\* Seeded faults: every RECORD starts the session; one that was torn down
\* still counts as recorded.
Already_Never == FALSE
Already_Sticky == runs > 0

Already == running

\* RECORD: test and set running.
record(c) ==
    /\ pc[c] = "idle"
    /\ launched + Cardinality({x \in Conns : pc[x] = "launch"}) < MaxStarts
    /\ running' = TRUE
    /\ runs' = IF running THEN runs ELSE runs + 1
    /\ IF Already
       THEN UNCHANGED <<pc, job>>
       ELSE Goto(c, "launch") /\ job' = [job EXCEPT ![c] = runs']
    /\ UNCHANGED <<dec, owner, udp, bridge, wasRunning, closing, starting, speaker,
                   open, announces, setups, nonces, launched, uris, plays, stops, failed, overtook, asked>>

\* ... then reset the ring and launch Bridge.Start.
recordLaunch(c) ==
    /\ pc[c] = "launch"
    /\ launched' = launched + 1
    /\ Advance(launched', "nonce")
    /\ runOf' = [runOf EXCEPT ![launched'] = job[c]]
    /\ job' = [job EXCEPT ![c] = 0]
    /\ Goto(c, "idle")
    /\ UNCHANGED <<receiver, bridge, wasRunning, closing, url, speaker,
                   open, announces, setups, nonces, runs, uris, plays, stops, failed, overtook, asked>>

\* TEARDOWN is obeyed whoever sends it.
requestTeardown(c) ==
    /\ pc[c] = "idle"
    /\ Goto(c, "teardown")
    /\ UNCHANGED <<receiver, bridge, job, wasRunning, closing, starting, speaker, counts, asked>>

\* The connection ends: a read or a write fails.
disconnect(c) ==
    /\ pc[c] = "idle"
    /\ Goto(c, "closeIfOwner")
    /\ closing' = [closing EXCEPT ![c] = TRUE]
    /\ UNCHANGED <<receiver, bridge, job, wasRunning, starting, speaker, counts, asked>>

\* The owner is read, and acted upon after the unlock.
closeIfOwner(c) ==
    /\ pc[c] = "closeIfOwner"
    /\ Goto(c, IF owner \notin {NoConn, c} THEN "closed" ELSE "teardown")
    /\ UNCHANGED <<receiver, bridge, job, wasRunning, closing, starting, speaker, counts, asked>>

\* Receiver.Close.
Close(t) ==
    /\ pc[t] = "idle"
    /\ Goto(t, "teardown")
    /\ closing' = [closing EXCEPT ![t] = TRUE]
    /\ UNCHANGED <<receiver, bridge, job, wasRunning, starting, speaker, counts, asked>>

-----------------------------------------------------------------------------
(* teardown                                                                *)

Done(t) == IF closing[t] THEN "closed" ELSE "idle"

teardownState(t) ==
    /\ pc[t] = "teardown"
    /\ wasRunning' = [wasRunning EXCEPT ![t] = running]
    /\ running' = FALSE /\ dec' = 0 /\ owner' = NoConn
    /\ overtook' = (overtook \/ \E g \in Starts : InFlight(g))
    /\ Goto(t, "closeUDP")
    /\ UNCHANGED <<udp, bridge, job, closing, starting, speaker,
                   open, announces, setups, nonces, launched, uris, runs, plays, stops, failed, asked>>

\* closeUDP, and the reset of the ring after it.
teardownClose(t) ==
    /\ pc[t] = "closeUDP"
    /\ udp' = 0
    /\ open' = AfterCloseUDP
    /\ wasRunning' = [wasRunning EXCEPT ![t] = FALSE]
    /\ Goto(t, IF wasRunning[t] THEN "stop" ELSE Done(t))
    /\ UNCHANGED <<dec, owner, running, bridge, job, closing, starting, speaker,
                   announces, setups, nonces, launched, uris, runs, plays, stops, failed, overtook, asked>>

\* Seeded faults: the speaker is told to stop whatever it was doing; playing is
\* read after it was cleared.
WasPlaying_Always == TRUE
WasPlaying_Never == FALSE

WasPlaying == playing

\* Bridge.Stop: test and clear playing.
Stop(t) ==
    /\ pc[t] = "stop"
    /\ playing' = FALSE
    /\ Goto(t, IF WasPlaying THEN "stopping" ELSE Done(t))
    /\ UNCHANGED <<receiver, nonce, job, wasRunning, closing, starting, speaker, counts, asked>>

\* One SOAP call that does act: it is carried out and answered, or carried out
\* with its answer lost, or it fails.
Call(act, idle, answered, unanswered) ==
    \/ act /\ answered
    \/ SoapFaults /\ act /\ unanswered
    \/ SoapFaults /\ idle /\ unanswered

\* sonos.Stop; a failure is logged and forgotten.
StopCall(t) ==
    /\ pc[t] = "stopping"
    /\ stops' = stops + 1
    /\ Goto(t, Done(t))
    /\ Call(transport' = "STOPPED", transport' = transport, TRUE, TRUE)
    /\ UNCHANGED <<receiver, bridge, job, wasRunning, closing, starting, uri, volume,
                   open, announces, setups, nonces, launched, uris, runs, plays, failed, overtook, asked>>

-----------------------------------------------------------------------------
(* SET_PARAMETER                                                           *)

\* Seeded fault: the whole range from mute to 0 dB, in a line.
VolumeToSonos_Linear(db) == (100 * (db + 14400)) \div 14400

\* -144 dB is mute; from -30 to 0 dB a line, to the nearest percent.
VolumeToSonos(db) ==
    IF db <= -14400 THEN 0
    ELSE LET heard == IF db < -3000 THEN 0 ELSE IF db > 0 THEN 3000 ELSE db + 3000
         IN  (2 * heard + 30) \div 60

\* A volume, handed to Bridge.SetVolume.
setParameter(c) ==
    /\ pc[c] = "idle" /\ volumes < MaxVolumes
    /\ volumes' = volumes + 1
    /\ \E db \in Volumes : wanted' = db
    /\ job' = [job EXCEPT ![c] = VolumeToSonos(wanted')]
    /\ Goto(c, "volume")
    /\ UNCHANGED <<receiver, bridge, wasRunning, closing, starting, speaker, counts, complete>>

\* sonos.SetVolume; a failure is logged and forgotten.
SetVolume(c) ==
    /\ pc[c] = "volume"
    /\ LET vol == IF job[c] < 0 THEN 0 ELSE IF job[c] > 100 THEN 100 ELSE job[c]
       IN  Call(volume' = vol, volume' = volume, TRUE, TRUE)
    /\ job' = [job EXCEPT ![c] = 0]
    /\ Goto(c, "idle")
    /\ UNCHANGED <<receiver, bridge, wasRunning, closing, starting, transport, uri,
                   counts, asked>>

-----------------------------------------------------------------------------
(* Bridge.Start                                                            *)

\* Seeded faults: one nonce for all sessions; an error of newNonce is ignored.
NewNonce_Once == 1
NewNonce_Empty == 0

NewNonce == nonces + 1

Proceed(g, l) == Advance(g, l) /\ UNCHANGED failed
GiveUp(g) == Advance(g, "done") /\ failed' = failed \cup {runOf[g]}

\* A new nonce, and with it the URL of this session; or no nonce and no session.
StartNonce(g) ==
    /\ phase[g] = "nonce"
    /\ \/ /\ nonces' = NewNonce
          /\ nonce' = NewNonce
          /\ url' = [url EXCEPT ![g] = NewNonce]
          /\ Proceed(g, "uri")
       \/ SoapFaults /\ GiveUp(g) /\ UNCHANGED <<nonces, nonce, url>>
    /\ UNCHANGED <<receiver, playing, thread, runOf, speaker,
                   open, announces, setups, launched, uris, runs, plays, stops, overtook, asked>>

\* SetAVTransportURI, once the ring is primed or three seconds are over.
StartURI(g) ==
    /\ phase[g] = "uri"
    /\ Call(uri' = url[g], uri' = uri, Proceed(g, "play"), GiveUp(g))
    /\ uris' = uris \cup {url[g]}
    /\ UNCHANGED <<receiver, bridge, thread, url, runOf, transport, volume,
                   open, announces, setups, nonces, launched, runs, plays, stops, overtook, asked>>

\* Play.
StartPlay(g) ==
    /\ phase[g] = "play"
    /\ Call(transport' = "PLAYING", transport' = transport, Proceed(g, "mark"), GiveUp(g))
    /\ UNCHANGED <<receiver, bridge, thread, url, runOf, uri, volume,
                   open, announces, setups, nonces, launched, uris, runs, plays, stops, overtook, asked>>

\* playing is set under the lock; Start returns.
StartMark(g) ==
    /\ phase[g] = "mark"
    /\ playing' = TRUE
    /\ plays' = plays + 1
    /\ Advance(g, "done")
    /\ UNCHANGED <<receiver, nonce, thread, url, runOf, speaker,
                   open, announces, setups, nonces, launched, uris, runs, stops, failed, overtook, asked>>

-----------------------------------------------------------------------------
Request(c) ==
    \/ announce(c) \/ setupBind(c) \/ setupFail(c) \/ record(c)
    \/ requestTeardown(c) \/ disconnect(c) \/ setParameter(c)

Teardown(t) == teardownState(t) \/ teardownClose(t) \/ Stop(t) \/ StopCall(t)

\* The rest of a request, once it was received.
Serve(c) == setupPublish(c) \/ recordLaunch(c) \/ closeIfOwner(c) \/ SetVolume(c)

Start(g) == StartNonce(g) \/ StartURI(g) \/ StartPlay(g) \/ StartMark(g)

Next ==
    \/ \E c \in Conns : Request(c) \/ Serve(c)
    \/ \E t \in Closers : Close(t)
    \/ \E t \in Threads : Teardown(t)
    \/ \E g \in Starts : Start(g)

Spec == Init /\ [][Next]_vars

\* Goroutines that can run do run, and every SOAP call ends by its timeout;
\* no sender is obliged to send anything.
FairSpec ==
    /\ Spec
    /\ \A c \in Conns : WF_vars(Serve(c))
    /\ \A t \in Threads : WF_vars(Teardown(t))
    /\ \A g \in Starts : WF_vars(Start(g))

-----------------------------------------------------------------------------
(* Properties                                                              *)

\* Type invariant.
TypeOK ==
    /\ dec \in 0 .. MaxAnnounces /\ udp \in 0 .. MaxSetups
    /\ owner \in Conns \cup {NoConn}
    /\ running \in BOOLEAN /\ playing \in BOOLEAN /\ overtook \in BOOLEAN
    /\ nonce \in Nat /\ nonces \in Nat /\ runs \in Nat
    /\ plays \in Nat /\ stops \in Nat
    /\ announces \in 0 .. MaxAnnounces /\ setups \in 0 .. MaxSetups
    /\ launched \in 0 .. MaxStarts
    /\ pc \in [Threads -> {"idle", "bound", "launch", "closeIfOwner", "teardown",
                           "closeUDP", "stop", "stopping", "closed", "volume"}]
    /\ job \in [Threads -> Nat]
    /\ wasRunning \in [Threads -> BOOLEAN] /\ closing \in [Threads -> BOOLEAN]
    /\ phase \in [Starts -> {"unused", "nonce", "uri", "play", "mark", "done"}]
    /\ url \in [Starts -> Nat] /\ runOf \in [Starts -> Nat]
    /\ \A g \in Starts : phase[g] \in {"uri", "play", "mark"} => url[g] # 0
    /\ transport \in {"STOPPED", "PLAYING"} /\ uri \in Nat
    /\ volume \in 0 .. 100 /\ volumes \in 0 .. MaxVolumes /\ complete \in BOOLEAN
    /\ uris \subseteq Nat /\ failed \subseteq Nat
    /\ open \subseteq 1 .. MaxSetups

\* Nothing is being done: every request was answered, every Start returned.
Quiet ==
    /\ \A t \in Threads : pc[t] \in {"idle", "closed"}
    /\ \A g \in Starts : ~InFlight(g)

\* "Sonos caches by URL and will refuse to reopen one it has seen": no URL is
\* ever handed to the speaker twice, however Starts overlap.
UrlsAreFresh ==
    [][\A g \in Starts : phase[g] = "uri" /\ phase'[g] # "uri" => url[g] \notin uris]_vars

\* A session is started once, however many connections send RECORD and
\* whatever tears it down meanwhile.
OneStartPerRun ==
    \A g, h \in 1 .. launched : runOf[g] = runOf[h] => g = h

\* The speaker is told to stop at most once for every playback the bridge
\* started, whoever tears down and whatever SOAP calls fail.  (Not whether the
\* speaker still plays that playback: another app may have taken it over.)
StopsAnswerPlays ==
    stops + Cardinality({t \in Threads : pc[t] = "stopping"})
          + (IF playing THEN 1 ELSE 0) <= plays

\* Once everything has come to rest, no socket is open that the receiver has
\* lost track of.
NoSocketLeak == Quiet => open \subseteq {udp} \ {0}

\* At rest the speaker does what the session says -- as long as no session was
\* torn down while its Start was still in flight.
SpeakerFollowsSession ==
    Quiet /\ ~overtook => /\ playing = running
                          /\ (transport = "PLAYING") = running

\* Stop "is called on TEARDOWN or when the control connection drops": at rest,
\* no session means a speaker that is not playing.
StoppedAfterTeardown == Quiet /\ ~running => transport = "STOPPED"

\* An ANNOUNCE makes a session, with a decoder of its own, exactly when every
\* line of its body can be used and none that is needed is missing; one that is
\* refused leaves the session announced before it, if there is one, as it was.
OnlyCompleteAnnounces ==
    [][announces' > announces =>
          IF complete' THEN dec' = announces' ELSE UNCHANGED <<dec, owner>>]_vars

\* At rest the speaker is as loud as the sender last asked for: silent when muted
\* and at -30 dB, full at 0 dB, and in between within half a percent.
VolumeFollowsSender ==
    Quiet /\ volumes > 0 =>
        CASE wanted <= -3000 -> volume = 0
          [] wanted >= 0     -> volume = 100
          [] OTHER -> 30 * volume - (wanted + 3000) \in -15 .. 15

\* A session that is recorded and never torn down ends up playing.
RecordedSessionPlays == <>[]running => <>[](transport = "PLAYING" /\ playing)
=============================================================================

---------------------------- MODULE SessionProofs ---------------------------
(***************************************************************************)
(* Theorems about Session, for every number of connections, closing        *)
(* threads, bodies, volumes and bounds.                                    *)
(***************************************************************************)
EXTENDS Session, FiniteSetTheorems, ProofLibrary, TLAPS

USE NamesAssumption, FaultsAssumption, BoundAssumption, VolumesAssumption

-----------------------------------------------------------------------------
(* The inductive invariant                                                 *)

\* Connections about to launch a Start, and threads about to call sonos.Stop.
Launching == {c \in Conns : pc[c] = "launch"}
Stopping  == {t \in Threads : pc[t] = "stopping"}

\* The type invariant, and what a SETUP that has bound its sockets will publish.
TypeInv ==
    /\ TypeOK
    /\ wanted \in Int
    /\ \A t \in Threads : pc[t] = "bound" => job[t] \in 1 .. MaxSetups

\* The launches still to come fit in the bound.
LaunchInv ==
    /\ IsFiniteSet(Launching)
    /\ launched + Cardinality(Launching) <= MaxStarts

\* Every run is given to one launch: one that is to come, or one that was.
RunInv ==
    /\ \A g \in 1 .. launched : runOf[g] \in 1 .. runs
    /\ \A c \in Launching : job[c] \in 1 .. runs
    /\ OneStartPerRun
    /\ \A c \in Launching : \A g \in 1 .. launched : runOf[g] # job[c]
    /\ \A c, d \in Launching : job[c] = job[d] => c = d

\* A stop, made or about to be made, used up a play.
StopInv ==
    /\ IsFiniteSet(Stopping)
    /\ stops + Cardinality(Stopping) + (IF playing THEN 1 ELSE 0) <= plays

\* The URLs that are about to be handed to the speaker are new and distinct.
UrlInv ==
    /\ uris \subseteq 1 .. nonces
    /\ \A g \in Starts : phase[g] = "uri" => url[g] \in (1 .. nonces) \ uris
    /\ \A g, h \in Starts :
          phase[g] = "uri" /\ phase[h] = "uri" /\ url[g] = url[h] => g = h

IInv == TypeInv /\ LaunchInv /\ RunInv /\ StopInv /\ UrlInv

-----------------------------------------------------------------------------
(* The invariants of a receiver with one connection                        *)

OneConnection == \A c, d \in Conns : c = d

\* The sockets open are those published, or those of a SETUP that has yet to
\* publish them over nothing.
SocketInv ==
    /\ \A s \in open : s = udp \/ \E c \in Conns : pc[c] = "bound" /\ job[c] = s
    /\ \A c \in Conns : pc[c] = "bound" => udp = 0

\* SetVolume hands on what the sender asked for last.
VolumeInv ==
    volumes > 0 =>
       \/ volume = VolumeToSonos(wanted) /\ \A c \in Conns : pc[c] # "volume"
       \/ \E c \in Conns : pc[c] = "volume" /\ job[c] = VolumeToSonos(wanted)

\* The bridge, the speaker and what the connection is doing, while no teardown has
\* overtaken a Start: at most one Start is in flight, only while the session runs;
\* a teardown carries what was playing from one step to the next.
Playing == playing /\ transport = "PLAYING"
Muted   == ~playing /\ transport = "PLAYING"
Silent  == ~playing /\ transport = "STOPPED"
Flying  == \E g \in Starts : InFlight(g)
SpeakerInv ==
    ~overtook =>
       /\ \A g, h \in Starts : InFlight(g) /\ InFlight(h) => g = h
       /\ \A g \in Starts : /\ phase[g] \in {"nonce", "uri", "play"} => Silent
                            /\ phase[g] = "mark" => Muted
       /\ Flying => running
       /\ \A c \in Conns :
             /\ pc[c] = "launch" => running /\ ~Flying /\ Silent
             /\ pc[c] \in {"closeUDP", "stop", "stopping", "closed"} => ~running
             /\ pc[c] = "closeUDP" => IF wasRunning[c] THEN Playing ELSE Silent
             /\ pc[c] = "stop" => Playing
             /\ pc[c] = "stopping" => Muted
             /\ running /\ ~Flying /\ pc[c] # "launch" => Playing
             /\ ~running /\ pc[c] \notin {"closeUDP", "stop", "stopping"} => Silent

-----------------------------------------------------------------------------
(* What a step leaves alone, it does not disturb                           *)

RunFrame ==
    /\ UNCHANGED <<runs, launched, runOf>>
    /\ Launching' = Launching
    /\ \A c \in Launching : job'[c] = job[c]
StopFrame == UNCHANGED <<stops, plays, playing>> /\ Stopping' = Stopping
UrlFrame ==
    /\ UNCHANGED <<nonces, uris, url>>
    /\ \A g \in Starts : phase'[g] = "uri" => phase[g] = "uri"

LEMMA RunFramed ==
    ASSUME LaunchInv, RunInv, RunFrame
    PROVE  LaunchInv' /\ RunInv'
BY DEF LaunchInv, RunInv, RunFrame, OneStartPerRun

LEMMA StopFramed ==
    ASSUME StopInv, StopFrame
    PROVE  StopInv'
BY DEF StopInv, StopFrame

LEMMA UrlFramed ==
    ASSUME UrlInv, UrlFrame
    PROVE  UrlInv'
BY DEF UrlInv, UrlFrame

\* A step of a thread that is not about to launch and will not be, and likewise
\* for a call of sonos.Stop.
LEMMA LaunchingKept ==
    ASSUME NEW t \in Threads, pc \in [Threads -> STRING], NEW l \in STRING,
           pc' = [pc EXCEPT ![t] = l], pc[t] # "launch", l # "launch"
    PROVE  Launching' = Launching
BY DEF Launching, Threads

LEMMA StoppingKept ==
    ASSUME NEW t \in Threads, pc \in [Threads -> STRING], NEW l \in STRING,
           pc' = [pc EXCEPT ![t] = l], pc[t] # "stopping", l # "stopping"
    PROVE  Stopping' = Stopping
BY DEF Stopping

-----------------------------------------------------------------------------
(* The volume                                                              *)

\* A percentage, and within half a percent of the straight line from -30 to 0 dB.
LEMMA VolumeConverted ==
    ASSUME NEW db \in Int
    PROVE  /\ VolumeToSonos(db) \in 0 .. 100
           /\ db <= -3000 => VolumeToSonos(db) = 0
           /\ db >= 0 => VolumeToSonos(db) = 100
           /\ -3000 < db /\ db < 0 => 30 * VolumeToSonos(db) - (db + 3000) \in -15 .. 15
BY DEF VolumeToSonos

-----------------------------------------------------------------------------
(* Every step                                                              *)

LEMMA InitInv == Init => IInv
<1> SUFFICES ASSUME Init
             PROVE  IInv
  OBVIOUS
<1>1. Launching = {} /\ Stopping = {}
  BY DEF Init, Launching, Stopping, Threads
<1>2. TypeInv
  <2>1. /\ owner \in Conns \cup {NoConn}
        /\ running \in BOOLEAN /\ playing \in BOOLEAN /\ overtook \in BOOLEAN
        /\ complete \in BOOLEAN
    BY DEF Init
  <2>2. /\ job \in [Threads -> Nat] /\ wasRunning \in [Threads -> BOOLEAN]
        /\ closing \in [Threads -> BOOLEAN]
        /\ url \in [Starts -> Nat] /\ runOf \in [Starts -> Nat]
    BY DEF Init
  <2>3. TypeOK
    BY <2>1, <2>2 DEF Init, TypeOK
  <2> QED
    BY <2>3 DEF Init, TypeInv
<1>3. LaunchInv /\ StopInv
  BY <1>1, FS_EmptySet DEF Init, LaunchInv, StopInv
<1>4. RunInv
  BY <1>1 DEF Init, RunInv, OneStartPerRun
<1>5. UrlInv
  BY DEF Init, UrlInv
<1> QED
  BY <1>2, <1>3, <1>4, <1>5 DEF IInv

\* Whoever is about to launch a Start finds one left.
LEMMA LaunchBound ==
    ASSUME TypeInv, LaunchInv, NEW c \in Launching
    PROVE  launched + 1 \in Starts
<1>1. Cardinality(Launching) \in Nat /\ Cardinality(Launching) # 0
  BY FS_CardinalityType, FS_EmptySet DEF LaunchInv
<1> QED
  BY <1>1 DEF LaunchInv, TypeInv, TypeOK, Starts

LEMMA TypeKept ==
    ASSUME IInv, [Next]_vars
    PROVE  TypeInv'
<1> USE DEF IInv
<1>1. ASSUME NEW c \in Conns, announce(c)
      PROVE  TypeInv'
  <2>1. /\ announces' \in 0 .. MaxAnnounces /\ announces' = announces + 1
        /\ dec' \in {dec, announces'} /\ owner' \in {owner, c}
    BY <1>1 DEF announce, Refuse, TypeInv, TypeOK
  <2>2. complete' \in BOOLEAN
    BY <1>1 DEF announce, Complete
  <2> QED
    BY <1>1, <2>1, <2>2 DEF announce, Refuse, bridge, thread, starting, speaker, TypeInv, TypeOK
<1>2. ASSUME NEW c \in Conns, setupBind(c)
      PROVE  TypeInv'
  BY <1>2 DEF setupBind, Goto, AfterCloseUDP, bridge, starting, speaker, asked,
     TypeInv, TypeOK, Threads
<1>3. ASSUME NEW c \in Conns, setupFail(c)
      PROVE  TypeInv'
  BY <1>3 DEF setupFail, AfterCloseUDP, bridge, thread, starting, speaker, asked,
     TypeInv, TypeOK, Threads
<1>4. ASSUME NEW c \in Conns, setupPublish(c)
      PROVE  TypeInv'
  BY <1>4 DEF setupPublish, Goto, bridge, starting, speaker, asked, counts, TypeInv,
     TypeOK, Threads
<1>5. ASSUME NEW c \in Conns, record(c)
      PROVE  TypeInv'
  BY <1>5 DEF record, Goto, Already, bridge, starting, speaker, asked, TypeInv,
     TypeOK, Threads
<1>6. ASSUME NEW c \in Conns, recordLaunch(c)
      PROVE  TypeInv'
  <2>1. launched + 1 \in Starts /\ launched + 1 \in 0 .. MaxStarts
    BY <1>6, LaunchBound DEF recordLaunch, Launching, Starts
  <2>2. /\ pc' \in [Threads -> {"idle", "bound", "launch", "closeIfOwner", "teardown",
                           "closeUDP", "stop", "stopping", "closed", "volume"}]
        /\ phase' \in [Starts -> {"unused", "nonce", "uri", "play", "mark", "done"}]
        /\ \A g \in Starts : phase'[g] \in {"uri", "play", "mark"} => url'[g] # 0
        /\ \A t \in Threads : pc'[t] = "bound" => job'[t] \in 1 .. MaxSetups
    BY <1>6, <2>1 DEF recordLaunch, Goto, Advance, TypeInv, TypeOK
  <2>3. job' \in [Threads -> Nat] /\ runOf' \in [Starts -> Nat]
    BY <1>6, <2>1 DEF recordLaunch, TypeInv, TypeOK, Threads
  <2> QED
    BY <1>6, <2>1, <2>2, <2>3 DEF recordLaunch, receiver, bridge, speaker, asked, TypeInv,
       TypeOK
<1>7. ASSUME NEW c \in Conns, requestTeardown(c)
      PROVE  TypeInv'
  BY <1>7 DEF requestTeardown, Goto, receiver, bridge, starting, speaker, asked,
     counts, TypeInv, TypeOK, Threads
<1>8. ASSUME NEW c \in Conns, disconnect(c)
      PROVE  TypeInv'
  BY <1>8 DEF disconnect, Goto, receiver, bridge, starting, speaker, asked, counts,
     TypeInv, TypeOK, Threads
<1>9. ASSUME NEW c \in Conns, closeIfOwner(c)
      PROVE  TypeInv'
  BY <1>9 DEF closeIfOwner, Goto, receiver, bridge, starting, speaker, asked, counts,
     TypeInv, TypeOK, Threads
<1>10. ASSUME NEW c \in Conns, setParameter(c)
      PROVE  TypeInv'
  <2>1. wanted' \in Int /\ volumes' \in 0 .. MaxVolumes
    BY <1>10 DEF setParameter, TypeInv, TypeOK
  <2>2. VolumeToSonos(wanted') \in Nat
    BY <2>1, VolumeConverted
  <2> QED
    BY <1>10, <2>1, <2>2 DEF setParameter, Goto, receiver, bridge, starting, speaker, counts,
       TypeInv, TypeOK, Threads
<1>11. ASSUME NEW c \in Conns, SetVolume(c)
      PROVE  TypeInv'
  BY <1>11 DEF SetVolume, Goto, Call, receiver, bridge, starting, asked, counts,
     TypeInv, TypeOK, Threads
<1>12. ASSUME NEW t \in Closers, Close(t)
      PROVE  TypeInv'
  BY <1>12 DEF Close, Goto, receiver, bridge, starting, speaker, asked, counts,
     TypeInv, TypeOK, Threads
<1>13. ASSUME NEW t \in Threads, teardownState(t)
      PROVE  TypeInv'
  <2>1. overtook' \in BOOLEAN /\ owner' \in Conns \cup {NoConn}
    BY <1>13 DEF teardownState, TypeInv, TypeOK
  <2>2. /\ pc' = [pc EXCEPT ![t] = "closeUDP"]
        /\ wasRunning' = [wasRunning EXCEPT ![t] = running]
    BY <1>13 DEF teardownState, Goto
  <2>3. /\ dec' = 0 /\ running' = FALSE
        /\ UNCHANGED <<udp, bridge, job, closing, starting, speaker, open, announces, setups,
                      nonces, launched, uris, runs, plays, stops, failed, asked>>
    BY <1>13 DEF teardownState, Goto
  <2> QED
    <3>1. /\ pc' \in [Threads -> {"idle", "bound", "launch", "closeIfOwner", "teardown",
                             "closeUDP", "stop", "stopping", "closed", "volume"}]
          /\ \A s \in Threads : pc'[s] = "bound" => job'[s] \in 1 .. MaxSetups
          /\ wasRunning' \in [Threads -> BOOLEAN]
      BY <2>2, <2>3 DEF TypeInv, TypeOK
    <3>2. dec' \in 0 .. MaxAnnounces
      BY <2>3
    <3>3. running' \in BOOLEAN
      BY <2>3
    <3> QED
      BY <2>1, <2>3, <3>1, <3>2, <3>3 DEF bridge, starting, speaker, asked, TypeInv, TypeOK
<1>14. ASSUME NEW t \in Threads, teardownClose(t)
      PROVE  TypeInv'
  BY <1>14 DEF teardownClose, Goto, Done, AfterCloseUDP, bridge, starting, speaker,
     asked, TypeInv, TypeOK
<1>15. ASSUME NEW t \in Threads, Stop(t)
      PROVE  TypeInv'
  BY <1>15 DEF Stop, Goto, Done, WasPlaying, receiver, starting, speaker, asked,
     counts, TypeInv, TypeOK
<1>16. ASSUME NEW t \in Threads, StopCall(t)
      PROVE  TypeInv'
  BY <1>16 DEF StopCall, Goto, Done, Call, receiver, bridge, starting, asked, TypeInv,
     TypeOK
<1>17. ASSUME NEW g \in Starts, StartNonce(g)
      PROVE  TypeInv'
  <2>1. /\ \/ /\ nonces' = nonces + 1 /\ nonce' = nonces + 1 /\ failed' = failed
              /\ url' = [url EXCEPT ![g] = nonces + 1]
              /\ phase' = [phase EXCEPT ![g] = "uri"]
           \/ /\ nonces' = nonces /\ nonce' = nonce /\ url' = url
              /\ phase[g] = "nonce" /\ phase' = [phase EXCEPT ![g] = "done"]
              /\ failed' = failed \cup {runOf[g]}
    BY <1>17 DEF StartNonce, NewNonce, Proceed, GiveUp, Advance
  <2>2. /\ nonces \in Nat /\ nonce \in Nat /\ failed \subseteq Nat /\ runOf[g] \in Nat
        /\ url \in [Starts -> Nat]
        /\ phase \in [Starts -> {"unused", "nonce", "uri", "play", "mark", "done"}]
        /\ \A h \in Starts : phase[h] \in {"uri", "play", "mark"} => url[h] # 0
    BY DEF TypeInv, TypeOK
  <2>3. /\ nonces' \in Nat /\ nonce' \in Nat /\ failed' \subseteq Nat
        /\ url' \in [Starts -> Nat]
        /\ phase' \in [Starts -> {"unused", "nonce", "uri", "play", "mark", "done"}]
    <3>1. failed' \in {failed, failed \cup {runOf[g]}}
      BY <2>1
    <3>2. failed' \subseteq Nat
      BY <2>2, <3>1
    <3>3. nonces' \in Nat /\ nonce' \in Nat
      BY <2>1, <2>2
    <3>4. /\ url' = url \/ url' = [url EXCEPT ![g] = nonces + 1]
          /\ \/ phase' = [phase EXCEPT ![g] = "uri"] \/ phase' = [phase EXCEPT ![g] = "done"]
      BY <2>1
    <3>5. nonces + 1 \in Nat
      BY <2>2
    <3> QED
      BY <2>2, <3>2, <3>3, <3>4, <3>5
  <2>5. \A h \in Starts : phase'[h] \in {"uri", "play", "mark"} => url'[h] # 0
    <3>1. CASE url' = [url EXCEPT ![g] = nonces + 1] /\ phase' = [phase EXCEPT ![g] = "uri"]
      BY <2>2, <3>1
    <3>2. CASE url' = url /\ phase' = [phase EXCEPT ![g] = "done"]
      BY <2>2, <3>2
    <3> QED
      BY <2>1, <3>1, <3>2
  <2>4. UNCHANGED <<receiver, playing, thread, runOf, speaker,
                    open, announces, setups, launched, uris, runs, plays, stops, overtook,
                    asked>>
    BY <1>17 DEF StartNonce
  <2> QED
    BY <2>3, <2>4, <2>5 DEF TypeInv, TypeOK, receiver, thread, speaker, asked
<1>18. ASSUME NEW g \in Starts, StartURI(g)
      PROVE  TypeInv'
  <2>1. /\ phase[g] \in {"uri", "play", "mark"}
        /\ phase' = [phase EXCEPT ![g] = "play"] \/ phase' = [phase EXCEPT ![g] = "done"]
        /\ failed' = failed \/ failed' = failed \cup {runOf[g]}
    BY <1>18 DEF StartURI, Call, Proceed, GiveUp, Advance
  <2>2. /\ phase' \in [Starts -> {"unused", "nonce", "uri", "play", "mark", "done"}]
        /\ \A h \in Starts : phase'[h] \in {"uri", "play", "mark"} => url[h] # 0
    BY <2>1 DEF TypeInv, TypeOK
  <2>3. failed' \subseteq Nat
    <3>1. failed \subseteq Nat /\ runOf[g] \in Nat
      BY DEF TypeInv, TypeOK
    <3> QED
      BY <2>1, <3>1
  <2>4. uri' \in Nat
    BY <1>18 DEF StartURI, Call, TypeInv, TypeOK
  <2>5. uris' \subseteq Nat
    <3>1. uris' = uris \cup {url[g]}
      BY <1>18 DEF StartURI
    <3>2. uris \subseteq Nat /\ url[g] \in Nat
      BY DEF TypeInv, TypeOK
    <3> QED
      BY <3>1, <3>2
  <2>6. UNCHANGED <<receiver, bridge, thread, url, runOf, transport, volume,
                  open, announces, setups, nonces, launched, runs, plays, stops, overtook, asked>>
    BY <1>18 DEF StartURI
  <2> QED
    BY <2>2, <2>3, <2>4, <2>5, <2>6 DEF receiver, bridge, thread, asked, TypeInv, TypeOK
<1>19. ASSUME NEW g \in Starts, StartPlay(g)
      PROVE  TypeInv'
  <2>1. /\ phase[g] \in {"uri", "play", "mark"}
        /\ phase' = [phase EXCEPT ![g] = "mark"] \/ phase' = [phase EXCEPT ![g] = "done"]
        /\ failed' = failed \/ failed' = failed \cup {runOf[g]}
    BY <1>19 DEF StartPlay, Call, Proceed, GiveUp, Advance
  <2>2. /\ phase' \in [Starts -> {"unused", "nonce", "uri", "play", "mark", "done"}]
        /\ \A h \in Starts : phase'[h] \in {"uri", "play", "mark"} => url[h] # 0
    BY <2>1 DEF TypeInv, TypeOK
  <2>3. failed' \subseteq Nat
    <3>1. failed \subseteq Nat /\ runOf[g] \in Nat
      BY DEF TypeInv, TypeOK
    <3> QED
      BY <2>1, <3>1
  <2>4. transport' \in {"STOPPED", "PLAYING"}
    BY <1>19 DEF StartPlay, Call, TypeInv, TypeOK
  <2>5. uris' \subseteq Nat
    BY <1>19 DEF StartPlay, TypeInv, TypeOK
  <2>6. UNCHANGED <<receiver, bridge, thread, url, runOf, uri, volume,
                  open, announces, setups, nonces, launched, uris, runs, plays, stops, overtook, asked>>
    BY <1>19 DEF StartPlay
  <2> QED
    BY <2>2, <2>3, <2>4, <2>5, <2>6 DEF receiver, bridge, thread, asked, TypeInv, TypeOK
<1>20. ASSUME NEW g \in Starts, StartMark(g)
      PROVE  TypeInv'
  BY <1>20 DEF StartMark, Advance, receiver, thread, speaker, asked, TypeInv, TypeOK
<1>21. CASE UNCHANGED vars
  BY <1>21 DEF vars, receiver, bridge, thread, starting, speaker, counts, asked,
     TypeInv, TypeOK
<1> QED
  BY <1>1, <1>2, <1>3, <1>4, <1>5, <1>6, <1>7, <1>8, <1>9, <1>10, <1>11, <1>12, <1>13,
     <1>14, <1>15, <1>16, <1>17, <1>18, <1>19, <1>20, <1>21 DEF Next, Request, Serve,
     Teardown, Start

LEMMA RunKept ==
    ASSUME IInv, [Next]_vars
    PROVE  LaunchInv' /\ RunInv'
<1> USE DEF IInv
<1>1. ASSUME NEW c \in Conns, announce(c)
      PROVE  RunFrame
  BY <1>1 DEF announce, Refuse, bridge, thread, starting, speaker, RunFrame, TypeInv, TypeOK,
     Launching, Threads
<1>2. ASSUME NEW c \in Conns, setupBind(c)
      PROVE  RunFrame
  BY <1>2 DEF setupBind, Goto, AfterCloseUDP, bridge, starting, speaker, asked,
     RunFrame, TypeInv, TypeOK, Launching, Threads
<1>3. ASSUME NEW c \in Conns, setupFail(c)
      PROVE  RunFrame
  BY <1>3 DEF setupFail, AfterCloseUDP, bridge, thread, starting, speaker, asked,
     RunFrame, TypeInv, TypeOK, Launching, Threads
<1>4. ASSUME NEW c \in Conns, setupPublish(c)
      PROVE  RunFrame
  BY <1>4 DEF setupPublish, Goto, bridge, starting, speaker, asked, counts, RunFrame,
     TypeInv, TypeOK, Launching, Threads
<1>5. ASSUME NEW c \in Conns, record(c)
      PROVE  LaunchInv' /\ RunInv'
  <2>1. CASE Already
    <3>1. RunFrame
      BY <1>5, <2>1 DEF record, Already, starting, RunFrame, Launching
    <3> QED
      BY <3>1, RunFramed
  <2>2. CASE ~Already
    <3>1. /\ pc' = [pc EXCEPT ![c] = "launch"] /\ pc[c] # "launch" /\ c \in Threads
          /\ runs' = runs + 1 /\ job' = [job EXCEPT ![c] = runs + 1]
          /\ UNCHANGED <<launched, runOf>>
          /\ launched + Cardinality(Launching) < MaxStarts
      BY <1>5, <2>2 DEF record, Already, Goto, starting, Launching, Threads
    <3>2. Launching' = Launching \cup {c} /\ c \notin Launching
      BY <3>1 DEF Launching, TypeInv, TypeOK, Threads
    <3>3. \A d \in Launching' : job'[d] = IF d = c THEN runs + 1 ELSE job[d]
      BY <3>1, <3>2 DEF TypeInv, TypeOK, Launching, Threads
    <3>4. LaunchInv'
      <4>1. IsFiniteSet(Launching') /\ Cardinality(Launching') = Cardinality(Launching) + 1
        BY <3>2, FS_AddElement DEF LaunchInv
      <4>2. Cardinality(Launching) \in Nat /\ launched \in Nat
        BY FS_CardinalityType DEF LaunchInv, TypeInv, TypeOK
      <4> QED
        BY <3>1, <4>1, <4>2 DEF LaunchInv
    <3>5. RunInv'
      BY <3>1, <3>2, <3>3 DEF RunInv, OneStartPerRun, TypeInv, TypeOK
    <3> QED
      BY <3>4, <3>5
  <2> QED
    BY <2>1, <2>2
<1>6. ASSUME NEW c \in Conns, recordLaunch(c)
      PROVE  LaunchInv' /\ RunInv'
  <2>1. /\ c \in Launching /\ c \in Threads /\ launched' = launched + 1
        /\ runOf' = [runOf EXCEPT ![launched + 1] = job[c]]
        /\ pc' = [pc EXCEPT ![c] = "idle"] /\ job' = [job EXCEPT ![c] = 0]
        /\ UNCHANGED runs
    BY <1>6 DEF recordLaunch, Goto, Launching, Threads
  <2>2. Launching' = Launching \ {c}
    BY <2>1 DEF Launching, TypeInv, TypeOK
  <2>3. LaunchInv' /\ launched + 1 \in Starts
    <3>1. Cardinality(Launching) \in Nat /\ Cardinality(Launching) # 0
      BY <2>1, FS_CardinalityType, FS_EmptySet DEF LaunchInv
    <3>2. IsFiniteSet(Launching') /\ Cardinality(Launching') = Cardinality(Launching) - 1
      BY <2>1, <2>2, FS_RemoveElement DEF LaunchInv
    <3> QED
      BY <2>1, <3>1, <3>2, LaunchBound DEF LaunchInv, TypeInv, TypeOK
  <2>4. \A g \in 1 .. launched' :
           \/ g = launched + 1 /\ runOf'[g] = job[c]
           \/ g \in 1 .. launched /\ runOf'[g] = runOf[g]
    <3>1. launched \in Nat /\ 1 .. launched \subseteq Starts /\ runOf \in [Starts -> Nat]
      BY DEF TypeInv, TypeOK, Starts
    <3> TAKE g \in 1 .. launched'
    <3>2. CASE g = launched + 1
      BY <2>1, <2>3, <3>1, <3>2
    <3>3. CASE g \in 1 .. launched
      BY <2>1, <3>1, <3>3
    <3> QED
      BY <2>1, <3>1, <3>2, <3>3
  <2>5. \A d \in Launching' : d \in Launching /\ d # c /\ job'[d] = job[d]
    BY <2>1, <2>2 DEF TypeInv, TypeOK, Launching, Threads
  <2>6. c \in Launching /\ runs' = runs
    BY <2>1
  <2>7. RunInv'
    <3>1. /\ \A g \in 1 .. launched' : runOf'[g] \in 1 .. runs'
          /\ \A d \in Launching' : job'[d] \in 1 .. runs'
      BY <2>4, <2>5, <2>6 DEF RunInv
    <3>2. OneStartPerRun'
      BY <2>4, <2>6 DEF RunInv, OneStartPerRun
    <3>3. \A d \in Launching' : \A g \in 1 .. launched' : runOf'[g] # job'[d]
      BY <2>4, <2>5, <2>6 DEF RunInv
    <3>4. \A d, e \in Launching' : job'[d] = job'[e] => d = e
      BY <2>5 DEF RunInv
    <3> QED
      BY <3>1, <3>2, <3>3, <3>4 DEF RunInv
  <2> QED
    BY <2>3, <2>7
<1>7. ASSUME NEW c \in Conns, requestTeardown(c)
      PROVE  RunFrame
  BY <1>7 DEF requestTeardown, Goto, receiver, bridge, starting, speaker, asked,
     counts, RunFrame, TypeInv, TypeOK, Launching, Threads
<1>8. ASSUME NEW c \in Conns, disconnect(c)
      PROVE  RunFrame
  BY <1>8 DEF disconnect, Goto, receiver, bridge, starting, speaker, asked, counts,
     RunFrame, TypeInv, TypeOK, Launching, Threads
<1>9. ASSUME NEW c \in Conns, closeIfOwner(c)
      PROVE  RunFrame
  BY <1>9 DEF closeIfOwner, Goto, receiver, bridge, starting, speaker, asked, counts,
     RunFrame, TypeInv, TypeOK, Launching, Threads
<1>10. ASSUME NEW c \in Conns, setParameter(c)
      PROVE  RunFrame
  BY <1>10 DEF setParameter, Goto, receiver, bridge, starting, speaker, counts,
     RunFrame, TypeInv, TypeOK, Launching, Threads
<1>11. ASSUME NEW c \in Conns, SetVolume(c)
      PROVE  RunFrame
  BY <1>11 DEF SetVolume, Goto, Call, receiver, bridge, starting, asked, counts,
     RunFrame, TypeInv, TypeOK, Launching, Threads
<1>12. ASSUME NEW t \in Closers, Close(t)
      PROVE  RunFrame
  BY <1>12 DEF Close, Goto, receiver, bridge, starting, speaker, asked, counts,
     RunFrame, TypeInv, TypeOK, Launching, Threads
<1>13. ASSUME NEW t \in Threads, teardownState(t)
      PROVE  RunFrame
  BY <1>13 DEF teardownState, Goto, bridge, starting, speaker, asked, RunFrame,
     TypeInv, TypeOK, Launching
<1>14. ASSUME NEW t \in Threads, teardownClose(t)
      PROVE  RunFrame
  BY <1>14 DEF teardownClose, Goto, Done, AfterCloseUDP, bridge, starting, speaker,
     asked, RunFrame, TypeInv, TypeOK, Launching
<1>15. ASSUME NEW t \in Threads, Stop(t)
      PROVE  RunFrame
  BY <1>15 DEF Stop, Goto, Done, WasPlaying, receiver, starting, speaker, asked,
     counts, RunFrame, TypeInv, TypeOK, Launching
<1>16. ASSUME NEW t \in Threads, StopCall(t)
      PROVE  RunFrame
  BY <1>16 DEF StopCall, Goto, Done, Call, receiver, bridge, starting, asked,
     RunFrame, TypeInv, TypeOK, Launching
<1>17. ASSUME NEW g \in Starts, StartNonce(g)
      PROVE  RunFrame
  BY <1>17 DEF StartNonce, Advance, NewNonce, Proceed, GiveUp, receiver, thread, speaker, asked,
     RunFrame, TypeInv, TypeOK, Launching
<1>18. ASSUME NEW g \in Starts, StartURI(g)
      PROVE  RunFrame
  BY <1>18 DEF StartURI, Advance, Call, GiveUp, Proceed, receiver, bridge, thread,
     asked, RunFrame, TypeInv, TypeOK, Launching
<1>19. ASSUME NEW g \in Starts, StartPlay(g)
      PROVE  RunFrame
  BY <1>19 DEF StartPlay, Advance, Call, GiveUp, Proceed, receiver, bridge, thread,
     asked, RunFrame, TypeInv, TypeOK, Launching
<1>20. ASSUME NEW g \in Starts, StartMark(g)
      PROVE  RunFrame
  BY <1>20 DEF StartMark, Advance, receiver, thread, speaker, asked, RunFrame,
     TypeInv, TypeOK, Launching
<1>21. CASE UNCHANGED vars
  <2>1. RunFrame
    BY <1>21 DEF vars, receiver, bridge, thread, starting, speaker, counts, asked,
       RunFrame, Launching
  <2> QED
    BY <2>1, RunFramed
<1> QED
  BY <1>1, <1>2, <1>3, <1>4, <1>5, <1>6, <1>7, <1>8, <1>9, <1>10, <1>11, <1>12, <1>13,
     <1>14, <1>15, <1>16, <1>17, <1>18, <1>19, <1>20, <1>21, RunFramed DEF Next, Request,
     Serve, Teardown, Start

LEMMA StopKept ==
    ASSUME IInv, [Next]_vars
    PROVE  StopInv'
<1> USE DEF IInv
<1>1. ASSUME NEW c \in Conns, announce(c)
      PROVE  StopFrame
  BY <1>1 DEF announce, Refuse, bridge, thread, starting, speaker, StopFrame, TypeInv, TypeOK,
     Stopping, Threads
<1>2. ASSUME NEW c \in Conns, setupBind(c)
      PROVE  StopFrame
  BY <1>2 DEF setupBind, Goto, AfterCloseUDP, bridge, starting, speaker, asked,
     StopFrame, TypeInv, TypeOK, Stopping, Threads
<1>3. ASSUME NEW c \in Conns, setupFail(c)
      PROVE  StopFrame
  BY <1>3 DEF setupFail, AfterCloseUDP, bridge, thread, starting, speaker, asked,
     StopFrame, TypeInv, TypeOK, Stopping, Threads
<1>4. ASSUME NEW c \in Conns, setupPublish(c)
      PROVE  StopFrame
  BY <1>4 DEF setupPublish, Goto, bridge, starting, speaker, asked, counts, StopFrame,
     TypeInv, TypeOK, Stopping, Threads
<1>5. ASSUME NEW c \in Conns, record(c)
      PROVE  StopFrame
  BY <1>5 DEF record, Goto, Already, bridge, starting, speaker, asked, StopFrame,
     TypeInv, TypeOK, Stopping, Threads
<1>6. ASSUME NEW c \in Conns, recordLaunch(c)
      PROVE  StopFrame
  BY <1>6 DEF recordLaunch, Goto, Advance, receiver, bridge, speaker, asked,
     StopFrame, TypeInv, TypeOK, Stopping, Threads
<1>7. ASSUME NEW c \in Conns, requestTeardown(c)
      PROVE  StopFrame
  BY <1>7 DEF requestTeardown, Goto, receiver, bridge, starting, speaker, asked,
     counts, StopFrame, TypeInv, TypeOK, Stopping, Threads
<1>8. ASSUME NEW c \in Conns, disconnect(c)
      PROVE  StopFrame
  BY <1>8 DEF disconnect, Goto, receiver, bridge, starting, speaker, asked, counts,
     StopFrame, TypeInv, TypeOK, Stopping, Threads
<1>9. ASSUME NEW c \in Conns, closeIfOwner(c)
      PROVE  StopFrame
  BY <1>9 DEF closeIfOwner, Goto, receiver, bridge, starting, speaker, asked, counts,
     StopFrame, TypeInv, TypeOK, Stopping, Threads
<1>10. ASSUME NEW c \in Conns, setParameter(c)
      PROVE  StopFrame
  BY <1>10 DEF setParameter, Goto, receiver, bridge, starting, speaker, counts,
     StopFrame, TypeInv, TypeOK, Stopping, Threads
<1>11. ASSUME NEW c \in Conns, SetVolume(c)
      PROVE  StopFrame
  BY <1>11 DEF SetVolume, Goto, Call, receiver, bridge, starting, asked, counts,
     StopFrame, TypeInv, TypeOK, Stopping, Threads
<1>12. ASSUME NEW t \in Closers, Close(t)
      PROVE  StopFrame
  BY <1>12 DEF Close, Goto, receiver, bridge, starting, speaker, asked, counts,
     StopFrame, TypeInv, TypeOK, Stopping, Threads
<1>13. ASSUME NEW t \in Threads, teardownState(t)
      PROVE  StopFrame
  BY <1>13 DEF teardownState, Goto, bridge, starting, speaker, asked, StopFrame,
     TypeInv, TypeOK, Stopping
<1>14. ASSUME NEW t \in Threads, teardownClose(t)
      PROVE  StopFrame
  BY <1>14 DEF teardownClose, Goto, Done, AfterCloseUDP, bridge, starting, speaker,
     asked, StopFrame, TypeInv, TypeOK, Stopping
<1>15. ASSUME NEW t \in Threads, Stop(t)
      PROVE  StopInv'
  <2>1. stops' = stops /\ plays' = plays /\ playing' = FALSE /\ playing \in BOOLEAN
    BY <1>15 DEF Stop, counts, TypeInv, TypeOK
  <2>2. CASE playing
    <3>1. Stopping' = Stopping \cup {t} /\ t \notin Stopping
      BY <1>15, <2>2 DEF Stop, Goto, WasPlaying, Stopping, TypeInv, TypeOK
    <3> QED
      <4>1. IsFiniteSet(Stopping') /\ Cardinality(Stopping') = Cardinality(Stopping) + 1
        BY <3>1, FS_AddElement DEF StopInv
      <4>2. Cardinality(Stopping) \in Nat /\ stops \in Nat /\ plays \in Nat
        BY FS_CardinalityType DEF StopInv, TypeInv, TypeOK
      <4> QED
        BY <2>1, <2>2, <4>1, <4>2 DEF StopInv
  <2>3. CASE ~playing
    <3>1. Stopping' = Stopping
      BY <1>15, <2>3 DEF Stop, Goto, WasPlaying, Done, Stopping, TypeInv, TypeOK
    <3> QED
      BY <2>1, <2>3, <3>1 DEF StopInv
  <2> QED
    BY <2>2, <2>3
<1>16. ASSUME NEW t \in Threads, StopCall(t)
      PROVE  StopInv'
  <2>1. /\ stops' = stops + 1 /\ plays' = plays /\ playing' = playing
        /\ Stopping' = Stopping \ {t} /\ t \in Stopping
    BY <1>16 DEF StopCall, Goto, Done, Stopping, bridge, TypeInv, TypeOK
  <2>2. IsFiniteSet(Stopping') /\ Cardinality(Stopping') = Cardinality(Stopping) - 1
    BY <2>1, FS_RemoveElement DEF StopInv
  <2> QED
    BY <2>1, <2>2, FS_CardinalityType DEF StopInv, TypeInv, TypeOK
<1>17. ASSUME NEW g \in Starts, StartNonce(g)
      PROVE  StopFrame
  BY <1>17 DEF StartNonce, Advance, NewNonce, Proceed, GiveUp, receiver, thread, speaker, asked,
     StopFrame, TypeInv, TypeOK, Stopping
<1>18. ASSUME NEW g \in Starts, StartURI(g)
      PROVE  StopFrame
  BY <1>18 DEF StartURI, Advance, Call, GiveUp, Proceed, receiver, bridge, thread,
     asked, StopFrame, TypeInv, TypeOK, Stopping
<1>19. ASSUME NEW g \in Starts, StartPlay(g)
      PROVE  StopFrame
  BY <1>19 DEF StartPlay, Advance, Call, GiveUp, Proceed, receiver, bridge, thread,
     asked, StopFrame, TypeInv, TypeOK, Stopping
<1>20. ASSUME NEW g \in Starts, StartMark(g)
      PROVE  StopInv'
  <2>1. stops' = stops /\ plays' = plays + 1 /\ playing' /\ Stopping' = Stopping
    BY <1>20 DEF StartMark, thread, Stopping
  <2> QED
    BY <2>1, FS_CardinalityType DEF StopInv, TypeInv, TypeOK
<1>21. CASE UNCHANGED vars
  <2>1. StopFrame
    BY <1>21 DEF vars, receiver, bridge, thread, starting, speaker, counts, asked,
       StopFrame, Stopping
  <2> QED
    BY <2>1, StopFramed
<1> QED
  BY <1>1, <1>2, <1>3, <1>4, <1>5, <1>6, <1>7, <1>8, <1>9, <1>10, <1>11, <1>12, <1>13,
     <1>14, <1>15, <1>16, <1>17, <1>18, <1>19, <1>20, <1>21, StopFramed DEF Next,
     Request, Serve, Teardown, Start

LEMMA UrlKept ==
    ASSUME IInv, [Next]_vars
    PROVE  UrlInv'
<1> USE DEF IInv
<1>1. ASSUME NEW c \in Conns, announce(c)
      PROVE  UrlFrame
  BY <1>1 DEF announce, Refuse, bridge, thread, starting, speaker, UrlFrame, TypeInv, TypeOK,
     Threads
<1>2. ASSUME NEW c \in Conns, setupBind(c)
      PROVE  UrlFrame
  BY <1>2 DEF setupBind, Goto, AfterCloseUDP, bridge, starting, speaker, asked,
     UrlFrame, TypeInv, TypeOK, Threads
<1>3. ASSUME NEW c \in Conns, setupFail(c)
      PROVE  UrlFrame
  BY <1>3 DEF setupFail, AfterCloseUDP, bridge, thread, starting, speaker, asked,
     UrlFrame, TypeInv, TypeOK, Threads
<1>4. ASSUME NEW c \in Conns, setupPublish(c)
      PROVE  UrlFrame
  BY <1>4 DEF setupPublish, Goto, bridge, starting, speaker, asked, counts, UrlFrame,
     TypeInv, TypeOK, Threads
<1>5. ASSUME NEW c \in Conns, record(c)
      PROVE  UrlFrame
  BY <1>5 DEF record, Goto, Already, bridge, starting, speaker, asked, UrlFrame,
     TypeInv, TypeOK, Threads
<1>6. ASSUME NEW c \in Conns, recordLaunch(c)
      PROVE  UrlFrame
  BY <1>6 DEF recordLaunch, Goto, Advance, receiver, bridge, speaker, asked, UrlFrame,
     TypeInv, TypeOK, Threads
<1>7. ASSUME NEW c \in Conns, requestTeardown(c)
      PROVE  UrlFrame
  BY <1>7 DEF requestTeardown, Goto, receiver, bridge, starting, speaker, asked,
     counts, UrlFrame, TypeInv, TypeOK, Threads
<1>8. ASSUME NEW c \in Conns, disconnect(c)
      PROVE  UrlFrame
  BY <1>8 DEF disconnect, Goto, receiver, bridge, starting, speaker, asked, counts,
     UrlFrame, TypeInv, TypeOK, Threads
<1>9. ASSUME NEW c \in Conns, closeIfOwner(c)
      PROVE  UrlFrame
  BY <1>9 DEF closeIfOwner, Goto, receiver, bridge, starting, speaker, asked, counts,
     UrlFrame, TypeInv, TypeOK, Threads
<1>10. ASSUME NEW c \in Conns, setParameter(c)
      PROVE  UrlFrame
  BY <1>10 DEF setParameter, Goto, receiver, bridge, starting, speaker, counts,
     UrlFrame, TypeInv, TypeOK, Threads
<1>11. ASSUME NEW c \in Conns, SetVolume(c)
      PROVE  UrlFrame
  BY <1>11 DEF SetVolume, Goto, Call, receiver, bridge, starting, asked, counts,
     UrlFrame, TypeInv, TypeOK, Threads
<1>12. ASSUME NEW t \in Closers, Close(t)
      PROVE  UrlFrame
  BY <1>12 DEF Close, Goto, receiver, bridge, starting, speaker, asked, counts,
     UrlFrame, TypeInv, TypeOK, Threads
<1>13. ASSUME NEW t \in Threads, teardownState(t)
      PROVE  UrlFrame
  BY <1>13 DEF teardownState, Goto, bridge, starting, speaker, asked, UrlFrame,
     TypeInv, TypeOK
<1>14. ASSUME NEW t \in Threads, teardownClose(t)
      PROVE  UrlFrame
  BY <1>14 DEF teardownClose, Goto, Done, AfterCloseUDP, bridge, starting, speaker,
     asked, UrlFrame, TypeInv, TypeOK
<1>15. ASSUME NEW t \in Threads, Stop(t)
      PROVE  UrlFrame
  BY <1>15 DEF Stop, Goto, Done, WasPlaying, receiver, starting, speaker, asked,
     counts, UrlFrame, TypeInv, TypeOK
<1>16. ASSUME NEW t \in Threads, StopCall(t)
      PROVE  UrlFrame
  BY <1>16 DEF StopCall, Goto, Done, Call, receiver, bridge, starting, asked,
     UrlFrame, TypeInv, TypeOK
<1>17. ASSUME NEW g \in Starts, StartNonce(g)
      PROVE  UrlInv'
  <2>1. /\ uris' = uris
        /\ \/ /\ nonces' = nonces + 1 /\ url' = [url EXCEPT ![g] = nonces + 1]
              /\ phase' = [phase EXCEPT ![g] = "uri"]
           \/ /\ nonces' = nonces /\ url' = url /\ phase' = [phase EXCEPT ![g] = "done"]
    BY <1>17 DEF StartNonce, NewNonce, Proceed, GiveUp, Advance
  <2> QED
    BY <2>1 DEF UrlInv, TypeInv, TypeOK
<1>18. ASSUME NEW g \in Starts, StartURI(g)
      PROVE  UrlInv'
  <2>1. /\ nonces' = nonces /\ uris' = uris \cup {url[g]} /\ url' = url /\ phase[g] = "uri"
        /\ \A h \in Starts : phase'[h] = "uri" => phase[h] = "uri" /\ h # g
    BY <1>18 DEF StartURI, Call, Proceed, GiveUp, Advance, bridge, TypeInv, TypeOK
  <2> QED
    BY <2>1 DEF UrlInv
<1>19. ASSUME NEW g \in Starts, StartPlay(g)
      PROVE  UrlFrame
  BY <1>19 DEF StartPlay, Advance, Call, GiveUp, Proceed, receiver, bridge, thread,
     asked, UrlFrame, TypeInv, TypeOK
<1>20. ASSUME NEW g \in Starts, StartMark(g)
      PROVE  UrlFrame
  BY <1>20 DEF StartMark, Advance, receiver, thread, speaker, asked, UrlFrame,
     TypeInv, TypeOK
<1>21. CASE UNCHANGED vars
  <2>1. UrlFrame
    BY <1>21 DEF vars, receiver, bridge, thread, starting, speaker, counts, asked,
       UrlFrame
  <2> QED
    BY <2>1, UrlFramed
<1> QED
  BY <1>1, <1>2, <1>3, <1>4, <1>5, <1>6, <1>7, <1>8, <1>9, <1>10, <1>11, <1>12, <1>13,
     <1>14, <1>15, <1>16, <1>17, <1>18, <1>19, <1>20, <1>21, UrlFramed DEF Next, Request,
     Serve, Teardown, Start

LEMMA NextInv == IInv /\ [Next]_vars => IInv'
BY TypeKept, RunKept, StopKept, UrlKept DEF IInv

\* The inductive invariant holds in every reachable state.
THEOREM Invariance == Spec => []IInv
<1>1. Init => IInv
  BY InitInv
<1>2. IInv /\ [Next]_vars => IInv'
  BY NextInv
<1> QED
  BY <1>1, <1>2, PTL DEF Spec

\* Type correctness of the receiver, the bridge, their threads and the speaker.
THEOREM TypeCorrect == Spec => []TypeOK
BY Invariance, PTL DEF IInv, TypeInv

\* Whatever connections send RECORD and tear down meanwhile, every session is
\* started once.
THEOREM SessionsStartOnce == Spec => []OneStartPerRun
BY Invariance, PTL DEF IInv, RunInv

\* Stop tests and clears what Start sets: the bridge tells the speaker to stop at
\* most once for each playback it started, however teardowns and Starts overlap.
THEOREM StopsAreOwed == Spec => []StopsAnswerPlays
<1>1. IInv => StopsAnswerPlays
  BY DEF IInv, StopInv, StopsAnswerPlays, Stopping
<1> QED
  BY <1>1, Invariance, PTL

\* Every Start takes a new nonce: no URL is handed to the speaker twice.
THEOREM FreshUrls == Spec => UrlsAreFresh
<1> DEFINE Step == \A g \in Starts : phase[g] = "uri" /\ phase'[g] # "uri" => url[g] \notin uris
<1>1. IInv => Step
  BY DEF IInv, UrlInv
<1>2. UrlsAreFresh <=> [][Step]_vars
  BY DEF UrlsAreFresh
<1> HIDE DEF Step
<1> QED
  BY <1>1, <1>2, Invariance, PTL

-----------------------------------------------------------------------------
(* One connection                                                          *)

SocketFrame ==
    /\ UNCHANGED <<open, udp>>
    /\ \A c \in Conns : /\ pc[c] = "bound" => pc'[c] = "bound" /\ job'[c] = job[c]
                        /\ pc'[c] = "bound" => pc[c] = "bound"
VolumeFrame ==
    /\ UNCHANGED <<volume, volumes, wanted>>
    /\ \A c \in Conns : /\ pc[c] = "volume" => pc'[c] = "volume" /\ job'[c] = job[c]
                        /\ pc'[c] = "volume" => pc[c] = "volume"

LEMMA SocketFramed ==
    ASSUME SocketInv, SocketFrame
    PROVE  SocketInv'
<1>1. ASSUME NEW s \in open
      PROVE  s = udp \/ \E c \in Conns : pc'[c] = "bound" /\ job'[c] = s
  <2>1. CASE s = udp
    BY <2>1
  <2>2. ASSUME NEW c \in Conns, pc[c] = "bound", job[c] = s
        PROVE  pc'[c] = "bound" /\ job'[c] = s
    BY <2>2 DEF SocketFrame
  <2> QED
    BY <2>1, <2>2 DEF SocketInv
<1> QED
  BY <1>1 DEF SocketInv, SocketFrame

LEMMA VolumeFramed ==
    ASSUME VolumeInv, VolumeFrame
    PROVE  VolumeInv'
<1>1. ASSUME NEW c \in Conns, pc[c] = "volume", job[c] = VolumeToSonos(wanted)
      PROVE  pc'[c] = "volume" /\ job'[c] = VolumeToSonos(wanted')
  BY <1>1 DEF VolumeFrame
<1> QED
  BY <1>1 DEF VolumeInv, VolumeFrame

LEMMA SocketKept ==
    ASSUME OneConnection, BindFaults = FALSE, IInv, SocketInv, [Next]_vars
    PROVE  SocketInv'
<1> USE DEF IInv
<1>1. ASSUME NEW c \in Conns, announce(c)
      PROVE  SocketFrame
  BY <1>1 DEF announce, Refuse, bridge, thread, starting, speaker, SocketFrame, TypeInv,
     TypeOK, Threads
<1>2. ASSUME NEW c \in Conns, setupBind(c)
      PROVE  SocketInv'
  <2>1. /\ pc[c] = "idle" /\ pc'[c] = "bound" /\ job'[c] = setups + 1
        /\ udp' = 0 /\ open' = (open \ {udp}) \cup {setups + 1}
    BY <1>2 DEF setupBind, Goto, AfterCloseUDP, TypeInv, TypeOK, Threads
  <2>2. open \subseteq {udp}
    BY <2>1 DEF SocketInv, OneConnection
  <2> QED
    BY <2>1, <2>2 DEF SocketInv
<1>3. ASSUME NEW c \in Conns, setupFail(c)
      PROVE  FALSE
  BY <1>3 DEF setupFail
<1>4. ASSUME NEW c \in Conns, setupPublish(c)
      PROVE  SocketInv'
  <2>1. /\ pc[c] = "bound" /\ pc'[c] # "bound" /\ udp = 0
        /\ udp' = job[c] /\ open' = open
    BY <1>4 DEF setupPublish, Goto, counts, SocketInv, TypeInv, TypeOK, Threads
  <2>2. open \subseteq {job[c]}
    BY <2>1 DEF SocketInv, OneConnection, TypeInv, TypeOK
  <2> QED
    BY <2>1, <2>2 DEF SocketInv, OneConnection
<1>5. ASSUME NEW c \in Conns, record(c)
      PROVE  SocketFrame
  BY <1>5 DEF record, Goto, Already, bridge, starting, speaker, asked, SocketFrame,
     TypeInv, TypeOK, Threads
<1>6. ASSUME NEW c \in Conns, recordLaunch(c)
      PROVE  SocketFrame
  BY <1>6 DEF recordLaunch, Goto, Advance, receiver, bridge, speaker, asked,
     SocketFrame, TypeInv, TypeOK, Threads
<1>7. ASSUME NEW c \in Conns, requestTeardown(c)
      PROVE  SocketFrame
  BY <1>7 DEF requestTeardown, Goto, receiver, bridge, starting, speaker, asked,
     counts, SocketFrame, TypeInv, TypeOK, Threads
<1>8. ASSUME NEW c \in Conns, disconnect(c)
      PROVE  SocketFrame
  BY <1>8 DEF disconnect, Goto, receiver, bridge, starting, speaker, asked, counts,
     SocketFrame, TypeInv, TypeOK, Threads
<1>9. ASSUME NEW c \in Conns, closeIfOwner(c)
      PROVE  SocketFrame
  BY <1>9 DEF closeIfOwner, Goto, receiver, bridge, starting, speaker, asked, counts,
     SocketFrame, TypeInv, TypeOK, Threads
<1>10. ASSUME NEW c \in Conns, setParameter(c)
      PROVE  SocketFrame
  BY <1>10 DEF setParameter, Goto, receiver, bridge, starting, speaker, counts,
     SocketFrame, TypeInv, TypeOK, Threads
<1>11. ASSUME NEW c \in Conns, SetVolume(c)
      PROVE  SocketFrame
  BY <1>11 DEF SetVolume, Goto, Call, receiver, bridge, starting, asked, counts,
     SocketFrame, TypeInv, TypeOK, Threads
<1>12. ASSUME NEW t \in Closers, Close(t)
      PROVE  SocketFrame
  BY <1>12 DEF Close, Goto, receiver, bridge, starting, speaker, asked, counts,
     SocketFrame, TypeInv, TypeOK, Threads
<1>13. ASSUME NEW t \in Threads, teardownState(t)
      PROVE  SocketFrame
  BY <1>13 DEF teardownState, Goto, bridge, starting, speaker, asked, SocketFrame,
     TypeInv, TypeOK, Threads
<1>14. ASSUME NEW t \in Threads, teardownClose(t)
      PROVE  SocketInv'
  <2>1. /\ udp' = 0 /\ open' = open \ {udp}
        /\ \A c \in Conns : /\ pc[c] = "bound" => pc'[c] = "bound" /\ job'[c] = job[c]
                            /\ pc'[c] = "bound" => pc[c] = "bound"
    BY <1>14 DEF teardownClose, Goto, Done, AfterCloseUDP, TypeInv, TypeOK, Threads
  <2>2. ASSUME NEW s \in open', NEW c \in Conns, pc[c] = "bound", job[c] = s
        PROVE  pc'[c] = "bound" /\ job'[c] = s
    BY <2>1, <2>2
  <2>3. \A s \in open' : \E c \in Conns : pc[c] = "bound" /\ job[c] = s
    BY <2>1 DEF SocketInv
  <2> QED
    BY <2>1, <2>2, <2>3 DEF SocketInv
<1>15. ASSUME NEW t \in Threads, Stop(t)
      PROVE  SocketFrame
  BY <1>15 DEF Stop, Goto, Done, WasPlaying, receiver, starting, speaker, asked,
     counts, SocketFrame, TypeInv, TypeOK, Threads
<1>16. ASSUME NEW t \in Threads, StopCall(t)
      PROVE  SocketFrame
  BY <1>16 DEF StopCall, Goto, Done, Call, receiver, bridge, starting, asked,
     SocketFrame, TypeInv, TypeOK, Threads
<1>17. ASSUME NEW g \in Starts, StartNonce(g)
      PROVE  SocketFrame
  BY <1>17 DEF StartNonce, Advance, NewNonce, Proceed, GiveUp, receiver, thread, speaker, asked,
     SocketFrame, TypeInv, TypeOK, Threads
<1>18. ASSUME NEW g \in Starts, StartURI(g)
      PROVE  SocketFrame
  BY <1>18 DEF StartURI, Advance, Call, GiveUp, Proceed, receiver, bridge, thread,
     asked, SocketFrame, TypeInv, TypeOK, Threads
<1>19. ASSUME NEW g \in Starts, StartPlay(g)
      PROVE  SocketFrame
  BY <1>19 DEF StartPlay, Advance, Call, GiveUp, Proceed, receiver, bridge, thread,
     asked, SocketFrame, TypeInv, TypeOK, Threads
<1>20. ASSUME NEW g \in Starts, StartMark(g)
      PROVE  SocketFrame
  BY <1>20 DEF StartMark, Advance, receiver, thread, speaker, asked, SocketFrame,
     TypeInv, TypeOK, Threads
<1>21. CASE UNCHANGED vars
  <2>1. SocketFrame
    BY <1>21 DEF vars, receiver, bridge, thread, starting, speaker, counts, asked,
       SocketFrame
  <2> QED
    BY <2>1, SocketFramed
<1> QED
  BY <1>1, <1>2, <1>3, <1>4, <1>5, <1>6, <1>7, <1>8, <1>9, <1>10, <1>11, <1>12, <1>13,
     <1>14, <1>15, <1>16, <1>17, <1>18, <1>19, <1>20, <1>21, SocketFramed DEF Next,
     Request, Serve, Teardown, Start

LEMMA VolumeKept ==
    ASSUME OneConnection, SoapFaults = FALSE, IInv, VolumeInv, [Next]_vars
    PROVE  VolumeInv'
<1> USE DEF IInv
<1>1. ASSUME NEW c \in Conns, announce(c)
      PROVE  VolumeFrame
  BY <1>1 DEF announce, Refuse, bridge, thread, starting, speaker, VolumeFrame, TypeInv,
     TypeOK, Threads
<1>2. ASSUME NEW c \in Conns, setupBind(c)
      PROVE  VolumeFrame
  BY <1>2 DEF setupBind, Goto, AfterCloseUDP, bridge, starting, speaker, asked,
     VolumeFrame, TypeInv, TypeOK, Threads
<1>3. ASSUME NEW c \in Conns, setupFail(c)
      PROVE  VolumeFrame
  BY <1>3 DEF setupFail, AfterCloseUDP, bridge, thread, starting, speaker, asked,
     VolumeFrame, TypeInv, TypeOK, Threads
<1>4. ASSUME NEW c \in Conns, setupPublish(c)
      PROVE  VolumeFrame
  BY <1>4 DEF setupPublish, Goto, bridge, starting, speaker, asked, counts,
     VolumeFrame, TypeInv, TypeOK, Threads
<1>5. ASSUME NEW c \in Conns, record(c)
      PROVE  VolumeFrame
  BY <1>5 DEF record, Goto, Already, bridge, starting, speaker, asked, VolumeFrame,
     TypeInv, TypeOK, Threads
<1>6. ASSUME NEW c \in Conns, recordLaunch(c)
      PROVE  VolumeFrame
  BY <1>6 DEF recordLaunch, Goto, Advance, receiver, bridge, speaker, asked,
     VolumeFrame, TypeInv, TypeOK, Threads
<1>7. ASSUME NEW c \in Conns, requestTeardown(c)
      PROVE  VolumeFrame
  BY <1>7 DEF requestTeardown, Goto, receiver, bridge, starting, speaker, asked,
     counts, VolumeFrame, TypeInv, TypeOK, Threads
<1>8. ASSUME NEW c \in Conns, disconnect(c)
      PROVE  VolumeFrame
  BY <1>8 DEF disconnect, Goto, receiver, bridge, starting, speaker, asked, counts,
     VolumeFrame, TypeInv, TypeOK, Threads
<1>9. ASSUME NEW c \in Conns, closeIfOwner(c)
      PROVE  VolumeFrame
  BY <1>9 DEF closeIfOwner, Goto, receiver, bridge, starting, speaker, asked, counts,
     VolumeFrame, TypeInv, TypeOK, Threads
<1>10. ASSUME NEW c \in Conns, setParameter(c)
      PROVE  VolumeInv'
  <2>1. /\ pc'[c] = "volume" /\ job'[c] = VolumeToSonos(wanted')
    BY <1>10 DEF setParameter, Goto, TypeInv, TypeOK, Threads
  <2> QED
    BY <2>1 DEF VolumeInv
<1>11. ASSUME NEW c \in Conns, SetVolume(c)
      PROVE  VolumeInv'
  <2>1. /\ pc[c] = "volume" /\ \A d \in Conns : pc'[d] # "volume"
        /\ UNCHANGED <<volumes, wanted>>
        /\ volume' = IF job[c] < 0 THEN 0 ELSE IF job[c] > 100 THEN 100 ELSE job[c]
    BY <1>11 DEF SetVolume, Call, Goto, asked, OneConnection, TypeInv, TypeOK, Threads
  <2>2. volumes > 0 => job[c] = VolumeToSonos(wanted)
    BY <2>1 DEF VolumeInv, OneConnection
  <2>3. VolumeToSonos(wanted) \in 0 .. 100
    BY VolumeConverted DEF TypeInv
  <2> QED
    BY <2>1, <2>2, <2>3 DEF VolumeInv, TypeInv, TypeOK
<1>12. ASSUME NEW t \in Closers, Close(t)
      PROVE  VolumeFrame
  BY <1>12 DEF Close, Goto, receiver, bridge, starting, speaker, asked, counts,
     VolumeFrame, TypeInv, TypeOK, Threads
<1>13. ASSUME NEW t \in Threads, teardownState(t)
      PROVE  VolumeFrame
  BY <1>13 DEF teardownState, Goto, bridge, starting, speaker, asked, VolumeFrame,
     TypeInv, TypeOK, Threads
<1>14. ASSUME NEW t \in Threads, teardownClose(t)
      PROVE  VolumeFrame
  BY <1>14 DEF teardownClose, Goto, Done, AfterCloseUDP, bridge, starting, speaker,
     asked, VolumeFrame, TypeInv, TypeOK, Threads
<1>15. ASSUME NEW t \in Threads, Stop(t)
      PROVE  VolumeFrame
  BY <1>15 DEF Stop, Goto, Done, WasPlaying, receiver, starting, speaker, asked,
     counts, VolumeFrame, TypeInv, TypeOK, Threads
<1>16. ASSUME NEW t \in Threads, StopCall(t)
      PROVE  VolumeFrame
  BY <1>16 DEF StopCall, Goto, Done, Call, receiver, bridge, starting, asked,
     VolumeFrame, TypeInv, TypeOK, Threads
<1>17. ASSUME NEW g \in Starts, StartNonce(g)
      PROVE  VolumeFrame
  BY <1>17 DEF StartNonce, Advance, NewNonce, Proceed, GiveUp, receiver, thread, speaker, asked,
     VolumeFrame, TypeInv, TypeOK, Threads
<1>18. ASSUME NEW g \in Starts, StartURI(g)
      PROVE  VolumeFrame
  BY <1>18 DEF StartURI, Advance, Call, GiveUp, Proceed, receiver, bridge, thread,
     asked, VolumeFrame, TypeInv, TypeOK, Threads
<1>19. ASSUME NEW g \in Starts, StartPlay(g)
      PROVE  VolumeFrame
  BY <1>19 DEF StartPlay, Advance, Call, GiveUp, Proceed, receiver, bridge, thread,
     asked, VolumeFrame, TypeInv, TypeOK, Threads
<1>20. ASSUME NEW g \in Starts, StartMark(g)
      PROVE  VolumeFrame
  BY <1>20 DEF StartMark, Advance, receiver, thread, speaker, asked, VolumeFrame,
     TypeInv, TypeOK, Threads
<1>21. CASE UNCHANGED vars
  <2>1. VolumeFrame
    BY <1>21 DEF vars, receiver, bridge, thread, starting, speaker, counts, asked,
       VolumeFrame
  <2> QED
    BY <2>1, VolumeFramed
<1> QED
  BY <1>1, <1>2, <1>3, <1>4, <1>5, <1>6, <1>7, <1>8, <1>9, <1>10, <1>11, <1>12, <1>13,
     <1>14, <1>15, <1>16, <1>17, <1>18, <1>19, <1>20, <1>21, VolumeFramed DEF Next,
     Request, Serve, Teardown, Start

\* With one connection, and no bind that fails: whatever SETUPs, TEARDOWNs and
\* closes there were, at rest no socket is open but those the receiver knows.
THEOREM SocketsNotLeaked ==
    ASSUME OneConnection, BindFaults = FALSE
    PROVE  Spec => []NoSocketLeak
<1>1. Init => SocketInv
  BY DEF Init, SocketInv, Threads
<1>2. IInv /\ SocketInv /\ [Next]_vars => SocketInv'
  BY SocketKept
<1>3. IInv /\ SocketInv => NoSocketLeak
  BY DEF IInv, TypeInv, TypeOK, SocketInv, NoSocketLeak, Quiet, Threads
<1> QED
  BY <1>1, <1>2, <1>3, Invariance, PTL DEF Spec

\* With one connection, and SOAP calls that are answered: at rest the speaker is
\* as loud as the sender last asked, silent when muted, within half a percent.
THEOREM VolumeIsFollowed ==
    ASSUME OneConnection, SoapFaults = FALSE
    PROVE  Spec => []VolumeFollowsSender
<1>1. Init => VolumeInv
  BY DEF Init, VolumeInv
<1>2. IInv /\ VolumeInv /\ [Next]_vars => VolumeInv'
  BY VolumeKept
<1>3. IInv /\ VolumeInv => VolumeFollowsSender
  <2> SUFFICES ASSUME IInv, VolumeInv, Quiet, volumes > 0
               PROVE  CASE wanted <= -3000 -> volume = 0
                        [] wanted >= 0     -> volume = 100
                        [] OTHER -> 30 * volume - (wanted + 3000) \in -15 .. 15
    BY DEF VolumeFollowsSender
  <2>1. volume = VolumeToSonos(wanted) /\ wanted \in Int
    BY DEF VolumeInv, Quiet, Threads, IInv, TypeInv
  <2> QED
    BY <2>1, VolumeConverted
<1> QED
  BY <1>1, <1>2, <1>3, Invariance, PTL DEF Spec

\* A connection that is alone finds no other owner.
LEMMA OnlyOwner ==
    ASSUME OneConnection, TypeOK, NEW c \in Conns
    PROVE  owner \in {NoConn, c}
BY DEF OneConnection, TypeOK

LEMMA SpeakerKept ==
    ASSUME OneConnection, Closers = {}, SoapFaults = FALSE, IInv, SpeakerInv, [Next]_vars
    PROVE  SpeakerInv'
<1> USE DEF IInv
<1>1. ASSUME NEW c \in Conns, announce(c)
      PROVE  SpeakerInv'
  BY <1>1 DEF announce, Refuse, bridge, thread, starting, speaker, SpeakerInv, OneConnection,
     InFlight, Flying, Playing, Muted, Silent, TypeInv, TypeOK, Threads
<1>2. ASSUME NEW c \in Conns, setupBind(c)
      PROVE  SpeakerInv'
  BY <1>2 DEF setupBind, Goto, AfterCloseUDP, bridge, starting, speaker, asked,
     SpeakerInv, OneConnection, InFlight, Flying, Playing, Muted, Silent, TypeInv,
     TypeOK, Threads
<1>3. ASSUME NEW c \in Conns, setupFail(c)
      PROVE  SpeakerInv'
  BY <1>3 DEF setupFail, AfterCloseUDP, bridge, thread, starting, speaker, asked,
     SpeakerInv, OneConnection, InFlight, Flying, Playing, Muted, Silent, TypeInv,
     TypeOK, Threads
<1>4. ASSUME NEW c \in Conns, setupPublish(c)
      PROVE  SpeakerInv'
  BY <1>4 DEF setupPublish, Goto, bridge, starting, speaker, asked, counts,
     SpeakerInv, OneConnection, InFlight, Flying, Playing, Muted, Silent, TypeInv,
     TypeOK, Threads
<1>5. ASSUME NEW c \in Conns, record(c)
      PROVE  SpeakerInv'
  BY <1>5 DEF record, Goto, Already, bridge, starting, speaker, asked, SpeakerInv,
     OneConnection, InFlight, Flying, Playing, Muted, Silent, TypeInv, TypeOK, Threads
<1>6. ASSUME NEW c \in Conns, recordLaunch(c)
      PROVE  SpeakerInv'
  <2>1. launched + 1 \in Starts /\ c \in Threads
    BY <1>6, LaunchBound DEF recordLaunch, Launching, Threads
  <2>2. /\ pc[c] = "launch" /\ pc' = [pc EXCEPT ![c] = "idle"]
        /\ phase' = [phase EXCEPT ![launched + 1] = "nonce"]
        /\ UNCHANGED <<running, playing, transport, overtook>>
    BY <1>6 DEF recordLaunch, Goto, Advance, receiver, bridge, speaker
  <2>3. \A g \in Starts : phase'[g] = IF g = launched + 1 THEN "nonce" ELSE phase[g]
    BY <2>1, <2>2 DEF TypeInv, TypeOK
  <2>4. pc'[c] = "idle" /\ \A d \in Conns : d = c
    BY <2>1, <2>2 DEF OneConnection, TypeInv, TypeOK
  <2>5. ~overtook => running /\ Silent /\ ~Flying
    BY <2>2 DEF SpeakerInv
  <2>6. ~overtook => \A g \in Starts : InFlight(g)' <=> g = launched + 1
    BY <2>3, <2>5 DEF InFlight, Flying
  <2> QED
    BY <2>1, <2>2, <2>3, <2>4, <2>5, <2>6
       DEF SpeakerInv, Flying, InFlight, Playing, Muted, Silent
<1>7. ASSUME NEW c \in Conns, requestTeardown(c)
      PROVE  SpeakerInv'
  BY <1>7 DEF requestTeardown, Goto, receiver, bridge, starting, speaker, asked,
     counts, SpeakerInv, OneConnection, InFlight, Flying, Playing, Muted, Silent,
     TypeInv, TypeOK, Threads
<1>8. ASSUME NEW c \in Conns, disconnect(c)
      PROVE  SpeakerInv'
  BY <1>8 DEF disconnect, Goto, receiver, bridge, starting, speaker, asked, counts,
     SpeakerInv, OneConnection, InFlight, Flying, Playing, Muted, Silent, TypeInv,
     TypeOK, Threads
<1>9. ASSUME NEW c \in Conns, closeIfOwner(c)
      PROVE  SpeakerInv'
  BY <1>9, OnlyOwner DEF closeIfOwner, Goto, receiver, bridge, starting, speaker,
     asked, counts, SpeakerInv, OneConnection, InFlight, Flying, Playing, Muted, Silent,
     TypeInv, TypeOK, Threads
<1>10. ASSUME NEW c \in Conns, setParameter(c)
      PROVE  SpeakerInv'
  BY <1>10 DEF setParameter, Goto, receiver, bridge, starting, speaker, counts,
     SpeakerInv, OneConnection, InFlight, Flying, Playing, Muted, Silent, TypeInv,
     TypeOK, Threads
<1>11. ASSUME NEW c \in Conns, SetVolume(c)
      PROVE  SpeakerInv'
  BY <1>11 DEF SetVolume, Goto, Call, receiver, bridge, starting, asked, counts,
     SpeakerInv, OneConnection, InFlight, Flying, Playing, Muted, Silent, TypeInv,
     TypeOK, Threads
<1>12. ASSUME NEW t \in Closers, Close(t)
      PROVE  FALSE
  BY <1>12
<1>13. ASSUME NEW t \in Threads, teardownState(t)
      PROVE  SpeakerInv'
  BY <1>13 DEF teardownState, Goto, bridge, starting, speaker, asked, SpeakerInv,
     OneConnection, InFlight, Flying, Playing, Muted, Silent, TypeInv, TypeOK, Threads
<1>14. ASSUME NEW t \in Threads, teardownClose(t)
      PROVE  SpeakerInv'
  BY <1>14 DEF teardownClose, Goto, Done, AfterCloseUDP, bridge, starting, speaker,
     asked, SpeakerInv, OneConnection, InFlight, Flying, Playing, Muted, Silent, TypeInv,
     TypeOK, Threads
<1>15. ASSUME NEW t \in Threads, Stop(t)
      PROVE  SpeakerInv'
  BY <1>15 DEF Stop, Goto, Done, WasPlaying, receiver, starting, speaker, asked,
     counts, SpeakerInv, OneConnection, InFlight, Flying, Playing, Muted, Silent,
     TypeInv, TypeOK, Threads
<1>16. ASSUME NEW t \in Threads, StopCall(t)
      PROVE  SpeakerInv'
  BY <1>16 DEF StopCall, Goto, Done, Call, receiver, bridge, starting, asked,
     SpeakerInv, OneConnection, InFlight, Flying, Playing, Muted, Silent, TypeInv,
     TypeOK, Threads
<1>17. ASSUME NEW g \in Starts, StartNonce(g)
      PROVE  SpeakerInv'
  BY <1>17 DEF StartNonce, Advance, NewNonce, Proceed, GiveUp, receiver, thread, speaker, asked,
     SpeakerInv, OneConnection, InFlight, Flying, Playing, Muted, Silent, TypeInv,
     TypeOK, Threads
<1>18. ASSUME NEW g \in Starts, StartURI(g)
      PROVE  SpeakerInv'
  BY <1>18 DEF StartURI, Advance, Call, GiveUp, Proceed, receiver, bridge, thread,
     asked, SpeakerInv, OneConnection, InFlight, Flying, Playing, Muted, Silent, TypeInv,
     TypeOK, Threads
<1>19. ASSUME NEW g \in Starts, StartPlay(g)
      PROVE  SpeakerInv'
  BY <1>19 DEF StartPlay, Advance, Call, GiveUp, Proceed, receiver, bridge, thread,
     asked, SpeakerInv, OneConnection, InFlight, Flying, Playing, Muted, Silent, TypeInv,
     TypeOK, Threads
<1>20. ASSUME NEW g \in Starts, StartMark(g)
      PROVE  SpeakerInv'
  BY <1>20 DEF StartMark, Advance, receiver, thread, speaker, asked, SpeakerInv,
     OneConnection, InFlight, Flying, Playing, Muted, Silent, TypeInv, TypeOK, Threads
<1>21. CASE UNCHANGED vars
  BY <1>21 DEF vars, receiver, bridge, thread, starting, speaker, counts, asked,
     SpeakerInv, InFlight, Flying, Playing, Muted, Silent
<1> QED
  BY <1>1, <1>2, <1>3, <1>4, <1>5, <1>6, <1>7, <1>8, <1>9, <1>10, <1>11, <1>12, <1>13,
     <1>14, <1>15, <1>16, <1>17, <1>18, <1>19, <1>20, <1>21 DEF Next, Request, Serve,
     Teardown, Start


\* With one connection, nobody else closing the receiver, and SOAP calls that are
\* answered: as long as no teardown has overtaken a Start in flight, at rest the
\* speaker plays exactly when the session runs.
THEOREM SpeakerIsFollowed ==
    ASSUME OneConnection, Closers = {}, Conns # {}, SoapFaults = FALSE
    PROVE  Spec => []SpeakerFollowsSession
<1>1. Init => SpeakerInv
  BY DEF Init, SpeakerInv, Flying, InFlight, Silent, Threads
<1>2. IInv /\ SpeakerInv /\ [Next]_vars => SpeakerInv'
  BY SpeakerKept
<1>3. IInv /\ SpeakerInv => SpeakerFollowsSession
  <2> SUFFICES ASSUME IInv, SpeakerInv, Quiet, ~overtook
               PROVE  playing = running /\ (transport = "PLAYING") = running
    BY DEF SpeakerFollowsSession
  <2>1. PICK c \in Conns : TRUE
    OBVIOUS
  <2>2. pc[c] \in {"idle", "closed"} /\ ~Flying
    BY DEF Quiet, Flying, Threads
  <2>3. playing \in BOOLEAN /\ running \in BOOLEAN
    BY DEF IInv, TypeInv, TypeOK
  <2>4. CASE running
    BY <2>2, <2>3, <2>4 DEF SpeakerInv, Playing
  <2>5. CASE ~running
    BY <2>2, <2>3, <2>5 DEF SpeakerInv, Silent
  <2> QED
    BY <2>4, <2>5
<1> QED
  BY <1>1, <1>2, <1>3, Invariance, PTL DEF Spec
-----------------------------------------------------------------------------
(* The parser of the announced body.                                       *)

Configs == [FrameLength : Nat, BitDepth : Nat, NumChannels : Nat]
Parsed  == [config : Configs, sawFmtp : BOOLEAN, key : BOOLEAN, iv : BOOLEAN, err : BOOLEAN]

\* The lines a body may have: their value is of the type that the key asks for.
TypedLine(l) ==
    /\ l.key = "fmtp" => l.value \in Seq(Nat \cup {NotANumber})
    /\ l.key \in {"rtpmap", "rsaaeskey", "aesiv"} => l.value \in BOOLEAN

Unparsed == [config |-> NoConfig, sawFmtp |-> FALSE, key |-> FALSE, iv |-> FALSE, err |-> FALSE]

\* A round of the loop of ParseSDP, which does nothing after an error.
Round(s, l) == IF s.err THEN s ELSE Line(s, l)

LEMMA CookieIs ==
    ASSUME NEW f \in Seq(Nat \cup {NotANumber})
    PROVE  /\ parseFmtp(f) <=> /\ Len(f) = 11 /\ \A i \in 1 .. 11 : f[i] >= 0
                               /\ f[1] > 0 /\ f[7] % 256 > 0
           /\ parseFmtp(f) => Config(f) \in Configs
<1>1. CASE Len(f) # 11
  BY <1>1 DEF parseFmtp
<1>2. CASE Len(f) = 11
  <2> DEFINE Numbers == Nat \cup {NotANumber}
  <2>1. \A i \in 1 .. 11 : f[i] \in Nat \/ f[i] = -1
    <3>1. f \in Seq(Numbers)
      OBVIOUS
    <3> HIDE DEF Numbers
    <3>2. \A i \in 1 .. 11 : f[i] \in Numbers
      BY <1>2, <3>1
    <3> QED
      BY <3>2 DEF Numbers, NotANumber
  <2>2. \A i \in 1 .. 11 : f[i] # -1 <=> f[i] >= 0
    <3> SUFFICES ASSUME NEW i \in 1 .. 11 PROVE f[i] # -1 <=> f[i] >= 0
      OBVIOUS
    <3>1. CASE f[i] \in Nat
      BY <3>1
    <3>2. CASE f[i] = -1
      BY <3>2
    <3> QED
      BY <2>1, <3>1, <3>2
  <2>3. CASE \A i \in 1 .. 11 : f[i] # -1
    <3>1. f[1] \in Nat /\ f[3] \in Nat /\ f[7] \in Nat
      <4>1. \A i \in {1, 3, 7} : i \in 1 .. 11
        OBVIOUS
      <4>2. \A i \in {1, 3, 7} : f[i] \in Nat
        BY <2>1, <2>3, <4>1
      <4> QED
        BY <4>2
    <3>2. /\ f[3] % 256 \in Nat /\ f[7] % 256 \in Nat
          /\ f[7] % 256 # 0 <=> f[7] % 256 > 0
          /\ f[1] # 0 <=> f[1] > 0
      BY <3>1
    <3>3. /\ Config(f).FrameLength = f[1] /\ Config(f).NumChannels = f[7] % 256
          /\ Config(f) \in Configs
      BY <3>1, <3>2 DEF Config, Configs, Uint8
    <3> QED
      BY <1>2, <2>2, <2>3, <3>2, <3>3 DEF parseFmtp, NotANumber
  <2>4. CASE ~\A i \in 1 .. 11 : f[i] # -1
    BY <2>2, <2>4 DEF parseFmtp, NotANumber
  <2> QED
    BY <2>3, <2>4
<1> QED
  BY <1>1, <1>2

\* A line that is good is taken note of, any other is an error.
LEMMA LineIs ==
    ASSUME NEW s \in Parsed, ~s.err, NEW l, TypedLine(l)
    PROVE  LET t == Line(s, l) IN
           /\ t \in Parsed
           /\ t.err <=> ~GoodLine(l)
           /\ ~t.err => /\ t.sawFmtp <=> s.sawFmtp \/ l.key = "fmtp"
                        /\ t.key <=> s.key \/ l.key = "rsaaeskey"
                        /\ t.iv <=> s.iv \/ l.key = "aesiv"
<1>1. CASE l.key = "fmtp"
  <2>1. l.value \in Seq(Nat \cup {NotANumber})
    BY <1>1 DEF TypedLine
  <2>2. /\ parseFmtp(l.value) <=> GoodLine(l)
        /\ parseFmtp(l.value) => Config(l.value) \in Configs
    BY <1>1, <2>1, CookieIs DEF GoodLine
  <2>3. Line(s, l) = IF parseFmtp(l.value)
                     THEN [s EXCEPT !.config = Config(l.value), !.sawFmtp = TRUE]
                     ELSE [s EXCEPT !.err = TRUE]
    BY <1>1 DEF Line
  <2>4. CASE parseFmtp(l.value)
    <3>1. Line(s, l) = [s EXCEPT !.config = Config(l.value), !.sawFmtp = TRUE]
      BY <2>3, <2>4
    <3> QED
      BY <1>1, <2>2, <2>4, <3>1 DEF Parsed
  <2>5. CASE ~parseFmtp(l.value)
    <3>1. Line(s, l) = [s EXCEPT !.err = TRUE]
      BY <2>3, <2>5
    <3> QED
      BY <2>2, <2>5, <3>1 DEF Parsed
  <2> QED
    BY <2>4, <2>5
<1>2. CASE l.key = "rtpmap"
  <2>1. Line(s, l) = [s EXCEPT !.err = ~l.value] /\ l.value \in BOOLEAN
    BY <1>2 DEF Line, TypedLine
  <2>2. GoodLine(l) <=> l.value
    BY <1>2 DEF GoodLine
  <2> QED
    BY <1>2, <2>1, <2>2 DEF Parsed
<1>3. CASE l.key = "rsaaeskey"
  <2>1. /\ Line(s, l) = IF l.value THEN [s EXCEPT !.key = TRUE] ELSE [s EXCEPT !.err = TRUE]
        /\ l.value \in BOOLEAN
    BY <1>3 DEF Line, TypedLine
  <2>2. GoodLine(l) <=> l.value
    BY <1>3 DEF GoodLine
  <2> QED
    BY <1>3, <2>1, <2>2 DEF Parsed
<1>4. CASE l.key = "aesiv"
  <2>1. /\ Line(s, l) = IF l.value THEN [s EXCEPT !.iv = TRUE] ELSE [s EXCEPT !.err = TRUE]
        /\ l.value \in BOOLEAN
    BY <1>4 DEF Line, TypedLine
  <2>2. GoodLine(l) <=> l.value
    BY <1>4 DEF GoodLine
  <2> QED
    BY <1>4, <2>1, <2>2 DEF Parsed
<1>5. CASE l.key \notin {"fmtp", "rtpmap", "rsaaeskey", "aesiv"}
  <2>1. Line(s, l) = s
    BY <1>5 DEF Line
  <2>2. GoodLine(l)
    BY <1>5 DEF GoodLine
  <2> QED
    BY <1>5, <2>1, <2>2 DEF Parsed
<1> QED
  BY <1>1, <1>2, <1>3, <1>4, <1>5

\* The loop, as a function: what it made of the first i lines.
LEMMA LinesAre ==
    ASSUME NEW body, Len(body) \in Nat, \A i \in 1 .. Len(body) : TypedLine(body[i])
    PROVE  \E after :
              /\ after = [i \in 0 .. Len(body) |->
                             IF i = 0 THEN Unparsed ELSE Round(after[i - 1], body[i])]
              /\ Lines(body) = after[Len(body)]
<1> DEFINE n == Len(body)
           Loop(f) == [i \in 0 .. n |-> IF i = 0 THEN Unparsed ELSE Round(f[i - 1], body[i])]
           step == [i \in 1 .. n |-> [s \in Parsed |-> Round(s, body[i])]]
<1>1. Unparsed \in Parsed
  BY DEF Unparsed, Parsed, NoConfig, Configs
<1>2. step \in [1 .. n -> [Parsed -> Parsed]]
  <2>1. \A i \in 1 .. n : \A s \in Parsed : Round(s, body[i]) \in Parsed
    BY LineIs DEF Round
  <2> QED
    BY <2>1
<1>3. \E f : f = Loop(f)
  <2>1. PICK f : IsRun(f, n, Parsed, Unparsed, step)
    <3> HIDE DEF step, n
    <3>1. n \in Nat
      BY DEF n
    <3> QED
      BY <1>1, <1>2, <3>1, Rounds
  <2>2. \A i \in 0 .. n : f[i] = IF i = 0 THEN Unparsed ELSE Round(f[i - 1], body[i])
    <3>1. \A i \in 1 .. n : i - 1 \in 0 .. n
      OBVIOUS
    <3>2. \A i \in 1 .. n : f[i] = Round(f[i - 1], body[i])
      BY <2>1, <3>1 DEF IsRun
    <3>3. \A i \in 0 .. n : i = 0 \/ i \in 1 .. n
      OBVIOUS
    <3> QED
      BY <2>1, <3>2, <3>3 DEF IsRun
  <2>3. f = Loop(f)
    BY <2>1, <2>2 DEF IsRun
  <2> QED
    BY <2>3
<1>4. Lines(body) = (CHOOSE f : f = Loop(f))[n]
  BY DEF Lines, Round, Unparsed
<1> DEFINE g == CHOOSE f : f = Loop(f)
<1>5. g = Loop(g)
  <2> HIDE DEF Loop
  <2> QED
    BY <1>3
<1> HIDE DEF g
<1> QED
  BY <1>4, <1>5 DEF g

\* After i lines of a body: an error if one of them was wrong, else what they had.
Scanned(body, s, i) ==
    /\ s \in Parsed
    /\ s.err <=> \E j \in 1 .. i : ~GoodLine(body[j])
    /\ ~s.err => /\ s.sawFmtp <=> \E j \in 1 .. i : body[j].key = "fmtp"
                 /\ s.key <=> \E j \in 1 .. i : body[j].key = "rsaaeskey"
                 /\ s.iv <=> \E j \in 1 .. i : body[j].key = "aesiv"

LEMMA RoundScans ==
    ASSUME NEW body, NEW i \in Nat \ {0}, TypedLine(body[i]),
           NEW s, Scanned(body, s, i - 1)
    PROVE  Scanned(body, Round(s, body[i]), i)
<1>1. \A j : j \in 1 .. i <=> j \in 1 .. i - 1 \/ j = i
  OBVIOUS
<1>2. CASE s.err
  <2>1. Round(s, body[i]) = s
    BY <1>2 DEF Round
  <2>2. \E j \in 1 .. i : ~GoodLine(body[j])
    BY <1>1, <1>2 DEF Scanned
  <2> QED
    BY <1>2, <2>1, <2>2 DEF Scanned
<1>3. CASE ~s.err
  <2> DEFINE t == Line(s, body[i])
  <2>1. Round(s, body[i]) = t
    BY <1>3 DEF Round
  <2>2. /\ t \in Parsed
        /\ t.err <=> ~GoodLine(body[i])
        /\ ~t.err => /\ t.sawFmtp <=> s.sawFmtp \/ body[i].key = "fmtp"
                     /\ t.key <=> s.key \/ body[i].key = "rsaaeskey"
                     /\ t.iv <=> s.iv \/ body[i].key = "aesiv"
    BY <1>3, LineIs DEF Scanned
  <2> HIDE DEF t
  <2>3. t.err <=> \E j \in 1 .. i : ~GoodLine(body[j])
    BY <1>1, <1>3, <2>2 DEF Scanned
  <2>4. ~t.err => /\ t.sawFmtp <=> \E j \in 1 .. i : body[j].key = "fmtp"
                  /\ t.key <=> \E j \in 1 .. i : body[j].key = "rsaaeskey"
                  /\ t.iv <=> \E j \in 1 .. i : body[j].key = "aesiv"
    BY <1>1, <1>3, <2>2 DEF Scanned
  <2> QED
    BY <2>1, <2>2, <2>3, <2>4 DEF Scanned
<1> QED
  BY <1>2, <1>3

\* ParseSDP and announce accept exactly the bodies that are complete: whatever their
\* length, whatever their order, whatever they repeat.
THEOREM AcceptsComplete ==
    ASSUME NEW body, Len(body) \in Nat, \A i \in 1 .. Len(body) : TypedLine(body[i])
    PROVE  Accepts(body) <=> Complete(body)
<1> DEFINE n == Len(body)
<1>1. PICK after : /\ after = [i \in 0 .. n |-> IF i = 0 THEN Unparsed
                                                ELSE Round(after[i - 1], body[i])]
                   /\ Lines(body) = after[n]
  BY LinesAre
<1>2. after[0] = Unparsed /\ \A i \in 1 .. n : after[i] = Round(after[i - 1], body[i])
  <2>1. \A i \in 0 .. n : after[i] = IF i = 0 THEN Unparsed ELSE Round(after[i - 1], body[i])
    BY <1>1
  <2>2. 0 \in 0 .. n /\ \A i \in 1 .. n : i \in 0 .. n /\ i # 0
    OBVIOUS
  <2> QED
    BY <2>1, <2>2
<1> DEFINE P == {i \in 0 .. n : Scanned(body, after[i], i)}
<1>3. 0 \in P
  <2>1. Unparsed \in Parsed /\ Unparsed.err = FALSE /\ Unparsed.sawFmtp = FALSE
        /\ Unparsed.key = FALSE /\ Unparsed.iv = FALSE
    BY DEF Unparsed, Parsed, NoConfig, Configs
  <2>2. Scanned(body, Unparsed, 0)
    BY <2>1 DEF Scanned
  <2> QED
    BY <1>2, <2>2
<1>4. ASSUME NEW i \in 1 .. n, i - 1 \in P PROVE i \in P
  <2>1. Scanned(body, after[i - 1], i - 1) /\ TypedLine(body[i]) /\ i \in Nat \ {0}
    BY <1>4
  <2>2. Scanned(body, Round(after[i - 1], body[i]), i)
    BY <2>1, RoundScans
  <2> QED
    BY <1>2, <2>2
<1>5. Scanned(body, after[n], n)
  <2>1. n \in 0 .. n /\ n \in Nat
    OBVIOUS
  <2>2. \A i \in 0 .. n : i \in P
    <3> HIDE DEF P, n
    <3> QED
      BY <1>3, <1>4, <2>1, UpTo
  <2> QED
    BY <2>1, <2>2
<1> DEFINE s == after[n]
<1>6. /\ s.err \in BOOLEAN /\ s.sawFmtp \in BOOLEAN /\ s.key \in BOOLEAN /\ s.iv \in BOOLEAN
      /\ Lines(body) = s
  BY <1>1, <1>5 DEF Scanned, Parsed
<1>7. Accepts(body) <=> ~s.err /\ s.sawFmtp /\ s.key /\ s.iv
  BY <1>6 DEF Accepts, Refused
<1>8. ~s.err <=> \A j \in 1 .. n : GoodLine(body[j])
  BY <1>5 DEF Scanned
<1>9. ~s.err => (s.sawFmtp /\ s.key /\ s.iv <=>
                   \A k \in {"fmtp", "rsaaeskey", "aesiv"} :
                      \E j \in 1 .. n : body[j].key = k)
  BY <1>5 DEF Scanned
<1> QED
  BY <1>7, <1>8, <1>9 DEF Complete

\* An ANNOUNCE makes a session exactly when its body is complete; one that is refused
\* leaves the decoder and the owner of the session as they were.
THEOREM OnlyCompleteAnnounce == Spec => OnlyCompleteAnnounces
<1>1. IInv /\ [Next]_vars =>
         [announces' > announces =>
             IF complete' THEN dec' = announces' ELSE UNCHANGED <<dec, owner>>]_vars
  <2> SUFFICES ASSUME IInv, Next, announces' > announces
               PROVE  IF complete' THEN dec' = announces' ELSE UNCHANGED <<dec, owner>>
    OBVIOUS
  <2>1. announces \in Nat
    BY DEF IInv, TypeInv, TypeOK
  <2>2. PICK c \in Conns : announce(c)
    <3>1. announces' # announces
      BY <2>1
    <3>2. ASSUME NEW c \in Conns, Request(c), ~announce(c)
          PROVE  announces' = announces
      BY <3>2 DEF Request, setupBind, setupFail, record, requestTeardown, disconnect,
         setParameter, counts
    <3>3. ASSUME NEW c \in Conns, Serve(c)
          PROVE  announces' = announces
      BY <3>3 DEF Serve, setupPublish, recordLaunch, closeIfOwner, SetVolume, counts
    <3>4. ASSUME NEW t \in Closers, Close(t)
          PROVE  announces' = announces
      BY <3>4 DEF Close, counts
    <3>5. ASSUME NEW t \in Threads, Teardown(t)
          PROVE  announces' = announces
      BY <3>5 DEF Teardown, teardownState, teardownClose, Stop, StopCall, counts
    <3>6. ASSUME NEW g \in Starts, Start(g)
          PROVE  announces' = announces
      BY <3>6 DEF Start, StartNonce, StartURI, StartPlay, StartMark
    <3> QED
      BY <3>1, <3>2, <3>3, <3>4, <3>5, <3>6 DEF Next
  <2>3. PICK body \in Bodies :
           /\ IF Accepts(body) THEN dec' = announces' /\ owner' = c
              ELSE UNCHANGED <<dec, owner>>
           /\ complete' = Complete(body)
    BY <2>2 DEF announce, Refuse
  <2>4. Accepts(body) <=> Complete(body)
    <3>1. Len(body) \in Nat /\ \A i \in 1 .. Len(body) : TypedLine(body[i])
      BY BodiesAssumption DEF TypedLine
    <3> QED
      BY <3>1, AcceptsComplete
  <2> QED
    BY <2>3, <2>4
<1> QED
  BY <1>1, Invariance, PTL DEF Spec, OnlyCompleteAnnounces
=============================================================================

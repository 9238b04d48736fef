-------------------------------- MODULE Zones -------------------------------
(***************************************************************************)
(* Startup: internal/sonos finds the players and folds them with the group *)
(* topology into zones, and cmd/sonospoof advertises a target per zone.    *)
(*                                                                         *)
(* A player stands for its UUID, its address and its description; Room is  *)
(* its room name.  Groups change at any time while the program looks.      *)
(***************************************************************************)
EXTENDS Naturals, Sequences, SequencesExt, FiniteSets, Bags

CONSTANTS Players,
          Rooms,
          Room,          \* [Players -> Rooms]
          House,         \* the player's household, [Players -> ...]
          Nameless,      \* players whose UUID holds no MAC: RAOPID fails
          Hosts,         \* the values of -hosts; <<>> searches by SSDP
          Everything,    \* the value of -zone that bridges all zones
          MaxAnswers,    \* bound on the answers to the searches
          MaxRegroups    \* bound on changes of the groups

ASSUME RoomAssumption == Room \in [Players -> Rooms] /\ Everything \notin Rooms
ASSUME HostsAssumption == \A h \in Hosts : h \in Seq(Players)
ASSUME BoundsAssumption == MaxAnswers \in Nat /\ MaxRegroups \in Nat

VARIABLES
    coordinator,    \* the speakers: whom each player follows
    regroups,       \* bound
    pc,
    only,           \* -zone
    ips,            \* addresses still to describe
    answers,        \* bound
    players,        \* described
    groups,         \* read from the topology
    zones,          \* a bag of zones, from discover's result to main's loop
    targets         \* advertised

household == <<coordinator, regroups>>
found     == <<ips, answers, players>>
vars      == <<household, pc, only, found, groups, zones, targets>>

\* A group follows one of its members, within one household.
Valid(c) == \A p \in Players : c[c[p]] = c[p] /\ House[c[p]] = House[p]

Group(p) == [coordinator |-> p, members |-> {q \in Players : coordinator[q] = p}]

Init ==
    /\ coordinator \in {c \in [Players -> Players] : Valid(c)}
    /\ regroups = 0
    /\ only \in Rooms \cup {Everything}
    /\ ips \in Hosts
    /\ pc = IF ips = <<>> THEN "search" ELSE "describe"
    /\ answers = 0 /\ players = <<>>
    /\ groups = {} /\ zones = EmptyBag /\ targets = {}

\* A player leaves its group or joins another; who is left behind follows one
\* of their own.
Regroup ==
    /\ regroups < MaxRegroups
    /\ regroups' = regroups + 1
    /\ \E c \in {d \in [Players -> Players] : Valid(d)} :
          c # coordinator /\ coordinator' = c
    /\ UNCHANGED <<pc, only, found, groups, zones, targets>>

-----------------------------------------------------------------------------
(* Discover, DescribeAll                                                   *)

\* Seeded fault: every answer counts.
Seen_Never(p) == FALSE
Seen(p) == p \in ToSet(ips)

\* A player answers one of the three searches.  The addresses are sorted at the
\* end; here they are in any order.
Answer(p) ==
    /\ pc = "search" /\ answers < MaxAnswers
    /\ answers' = answers + 1
    /\ ips' = IF Seen(p) THEN ips ELSE Append(ips, p)
    /\ UNCHANGED <<household, pc, only, players, groups, zones, targets>>

\* The deadline of the search, or a failure to search at all.
EndSearch ==
    /\ pc = "search"
    /\ pc' \in {"describe", "failed"}
    /\ UNCHANGED <<household, only, found, groups, zones, targets>>

\* A player is described, or skipped when that fails.
Describe ==
    /\ pc = "describe" /\ ips # <<>>
    /\ ips' = Tail(ips)
    /\ \/ players' = Append(players, Head(ips))
       \/ UNCHANGED players
    /\ UNCHANGED <<household, pc, only, answers, groups, zones, targets>>

Described == ToSet(players)

-----------------------------------------------------------------------------
(* Topology, Zones                                                         *)

\* The first player is asked for the groups of its household.  Without players
\* or without an answer the program ends.
Topology ==
    /\ pc = "describe" /\ ips = <<>>
    /\ \/ /\ players # <<>>
          /\ groups' = {Group(p) : p \in {q \in Players : /\ coordinator[q] = q
                                                          /\ House[q] = House[Head(players)]}}
          /\ pc' = "fold"
       \/ pc' = "failed" /\ UNCHANGED groups
    /\ UNCHANGED <<household, only, found, zones, targets>>

Zone(p, members) == [uuid |-> p, members |-> members]

\* Seeded fault: a target for each member.
FromGroups_PerMember ==
    UNION {{Zone(m, g.members) : m \in g.members \cap Described} : g \in groups}

Driven == {g \in groups : g.coordinator \in Described}

\* Seeded fault: only coordinators are claimed.
Claimed_Coordinators == {g.coordinator : g \in Driven}

\* One zone for each group whose coordinator was described, and one for each
\* player that is in none of those.
FromGroups == {Zone(g.coordinator, g.members) : g \in Driven}
Claimed == UNION {g.members : g \in Driven}
Alone(p) == p \notin Claimed

\* A player that was described twice has its zone twice.
Copies(z) == Cardinality({i \in DOMAIN players : players[i] = z.uuid})

OfTheirOwn == {Zone(p, {p}) : p \in {q \in Described : Alone(q)}}

Folded == SetToBag(FromGroups) (+) [z \in OfTheirOwn |-> Copies(z)]

Kept(zs) ==
    IF only = Everything THEN zs
    ELSE [z \in {y \in BagToSet(zs) : Room[y.uuid] = only} |-> zs[z]]

Fold ==
    /\ pc = "fold"
    /\ zones' = Kept(Folded)
    /\ pc' = IF zones' = EmptyBag THEN "failed" ELSE "listen"
    /\ UNCHANGED <<household, only, found, groups, targets>>

-----------------------------------------------------------------------------
(* main                                                                    *)

\* Our address, the listener of the streams, the mDNS responder.
Listen ==
    /\ pc = "listen"
    /\ pc' \in {"advertise", "failed"}
    /\ UNCHANGED <<household, only, found, groups, zones, targets>>

\* A bridge, its receiver and its path are added for a zone.  The receiver may
\* find no port; the advertiser refuses a zone with no id; the multiplexer
\* panics on a path it has.
Advertise(z) ==
    /\ pc = "advertise" /\ BagIn(z, zones)
    /\ zones' = zones (-) SetToBag({z})
    /\ \/ pc' = "failed" /\ UNCHANGED targets
       \/ /\ z.uuid \notin Nameless
          /\ IF z.uuid \in {t.uuid : t \in targets}
             THEN pc' = "panic" /\ UNCHANGED targets
             ELSE pc' = pc /\ targets' = targets \cup {z}
    /\ UNCHANGED <<household, only, found, groups>>

Serve ==
    /\ pc = "advertise" /\ zones = EmptyBag
    /\ pc' = "serving"
    /\ UNCHANGED <<household, only, found, groups, zones, targets>>

Next ==
    \/ Regroup
    \/ \E p \in Players : Answer(p)
    \/ EndSearch \/ Describe \/ Topology \/ Fold \/ Listen
    \/ \E z \in BagToSet(zones) : Advertise(z)
    \/ Serve

Spec == Init /\ [][Next]_vars

-----------------------------------------------------------------------------
(* Properties                                                              *)

ZoneType == [uuid : Players, members : SUBSET Players]

\* Type invariant; what a search found holds no address twice.
TypeOK ==
    /\ Valid(coordinator) /\ regroups \in 0 .. MaxRegroups
    /\ pc \in {"search", "describe", "fold", "listen", "advertise", "serving",
               "failed", "panic"}
    /\ only \in Rooms \cup {Everything}
    /\ ips \in Seq(Players) /\ answers \in 0 .. MaxAnswers /\ players \in Seq(Players)
    /\ answers > 0 => \A i, j \in DOMAIN ips : ips[i] = ips[j] => i = j
    /\ groups \subseteq [coordinator : Players, members : SUBSET Players]
    /\ IsABag(zones) /\ BagToSet(zones) \subseteq ZoneType
    /\ targets \subseteq ZoneType

Covers(t, p) == p \in t.members

\* Whatever the groups did meanwhile, in a program that serves all zones every
\* player that was described is played through exactly one target.
OneTargetPerPlayer ==
    pc = "serving" /\ only = Everything =>
        \A p \in Described : Cardinality({t \in targets : Covers(t, p)}) = 1

\* "Exactly one Sonos group, addressed through its coordinator": a group whose
\* coordinator was described has one target, the coordinator's, with all its
\* members.
OneTargetPerGroup ==
    pc = "serving" /\ only = Everything =>
        \A g \in Driven :
            {t \in targets : \E m \in g.members : Covers(t, m)}
                = {Zone(g.coordinator, g.members)}

\* A search never makes the program register a path twice and panic, however
\* often players answer; only -hosts that repeat a player can.
SearchNeverPanics == pc = "panic" => answers = 0
=============================================================================

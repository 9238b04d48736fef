---------------------------- MODULE ZonesProofs -----------------------------
(***************************************************************************)
(* Theorems about Zones, for every household, every number of answers to   *)
(* the search, every list of hosts and every regrouping meanwhile.         *)
(***************************************************************************)
EXTENDS Zones, FiniteSetTheorems, TLAPS

-----------------------------------------------------------------------------
(* The inductive invariant.                                                *)

Distinct(s) == \A i, j \in DOMAIN s : s[i] = s[j] => i = j

TypeInv ==
    /\ Valid(coordinator) /\ regroups \in 0 .. MaxRegroups
    /\ pc \in {"search", "describe", "fold", "listen", "advertise", "serving",
               "failed", "panic"}
    /\ only \in Rooms \cup {Everything}
    /\ ips \in Seq(Players) /\ answers \in 0 .. MaxAnswers /\ players \in Seq(Players)
    /\ groups \subseteq [coordinator : Players, members : SUBSET Players]
    /\ IsABag(zones) /\ BagToSet(zones) \subseteq ZoneType
    /\ targets \subseteq ZoneType

\* No player is found, or described, twice by a search.
SearchInv ==
    /\ pc = "search" => players = <<>>
    /\ pc = "search" \/ answers > 0 =>
          Distinct(ips) /\ Distinct(players) /\ ToSet(ips) \cap ToSet(players) = {}

\* The groups are disjoint, each with its coordinator in it.
GroupsInv ==
    /\ \A g \in groups : g.coordinator \in g.members
    /\ \A g, h \in groups : g.members \cap h.members # {} => g = h

\* The zones to be advertised.
Wanted == {z \in FromGroups \cup OfTheirOwn : only = Everything \/ Room[z.uuid] = only}

\* What is advertised and what is still to be make up the zones wanted; after a
\* search none is both.
TargetsInv ==
    /\ pc \in {"search", "describe", "fold", "listen"} => targets = {}
    /\ pc \in {"listen", "advertise", "serving"} =>
          /\ targets \cup DOMAIN zones = Wanted
          /\ answers > 0 => /\ targets \cap DOMAIN zones = {}
                            /\ \A z \in DOMAIN zones : zones[z] = 1
    /\ pc = "serving" => DOMAIN zones = {}
    /\ SearchNeverPanics

IInv == TypeInv /\ SearchInv /\ GroupsInv /\ TargetsInv

-----------------------------------------------------------------------------
(* The zones of a household.                                               *)

LEMMA InDescribed ==
    ASSUME NEW p
    PROVE  p \in Described <=> \E i \in DOMAIN players : players[i] = p
BY DEF Described, ToSet

\* A zone's coordinator is named by no other zone.
LEMMA OneZonePerName ==
    ASSUME GroupsInv, NEW t \in FromGroups \cup OfTheirOwn,
           NEW z \in FromGroups \cup OfTheirOwn, t.uuid = z.uuid
    PROVE  t = z
<1>1. ASSUME NEW y \in FromGroups
      PROVE  \E g \in Driven : y = Zone(g.coordinator, g.members) /\ y.uuid = g.coordinator
  BY DEF FromGroups, Zone
<1>2. ASSUME NEW y \in OfTheirOwn
      PROVE  y = Zone(y.uuid, {y.uuid}) /\ Alone(y.uuid)
  BY DEF OfTheirOwn, Zone
<1>3. \A g \in Driven : g \in groups /\ g.coordinator \in Claimed
  BY DEF Driven, Claimed, GroupsInv
<1>4. CASE t \in FromGroups /\ z \in FromGroups
  <2>1. PICK g \in Driven : t = Zone(g.coordinator, g.members) /\ t.uuid = g.coordinator
    BY <1>1, <1>4
  <2>2. PICK h \in Driven : z = Zone(h.coordinator, h.members) /\ z.uuid = h.coordinator
    BY <1>1, <1>4
  <2>3. g.coordinator = h.coordinator
    BY <2>1, <2>2
  <2>4. g.coordinator \in g.members /\ h.coordinator \in h.members
    BY <1>3 DEF GroupsInv
  <2>5. g.members \cap h.members # {}
    BY <2>3, <2>4
  <2>6. g = h
    BY <1>3, <2>5 DEF GroupsInv
  <2> QED
    BY <2>1, <2>2, <2>6
<1>5. CASE t \in FromGroups /\ z \in OfTheirOwn
  BY <1>1, <1>2, <1>3, <1>5 DEF Alone
<1>6. CASE t \in OfTheirOwn /\ z \in FromGroups
  BY <1>1, <1>2, <1>3, <1>6 DEF Alone
<1>7. CASE t \in OfTheirOwn /\ z \in OfTheirOwn
  BY <1>2, <1>7
<1> QED
  BY <1>4, <1>5, <1>6, <1>7

LEMMA ZoneTypes ==
    ASSUME TypeInv
    PROVE  FromGroups \subseteq ZoneType /\ OfTheirOwn \subseteq ZoneType
<1>1. Described \subseteq Players
  <2>1. \A i \in DOMAIN players : players[i] \in Players
    BY DEF TypeInv
  <2> QED
    BY <2>1, InDescribed
<1>2. \A g \in groups : g.coordinator \in Players /\ g.members \subseteq Players
  BY DEF TypeInv
<1> QED
  BY <1>1, <1>2 DEF FromGroups, OfTheirOwn, Driven, Zone, ZoneType

\* A described player has its own zone as often as it was described.
LEMMA CopiesCount ==
    ASSUME players \in Seq(Players), NEW z \in OfTheirOwn
    PROVE  Copies(z) \in Nat /\ Copies(z) > 0 /\ (Distinct(players) => Copies(z) = 1)
<1> DEFINE S == {i \in DOMAIN players : players[i] = z.uuid}
<1>1. IsFiniteSet(S)
  <2>1. DOMAIN players = 1 .. Len(players) /\ Len(players) \in Nat
    OBVIOUS
  <2>2. IsFiniteSet(1 .. Len(players))
    BY <2>1, FS_Interval
  <2> QED
    BY <2>1, <2>2, FS_Subset
<1>2. PICK k \in DOMAIN players : players[k] = z.uuid
  <2>1. z.uuid \in Described
    BY DEF OfTheirOwn, Zone
  <2> QED
    BY <2>1, InDescribed
<1>3. S # {}
  BY <1>2
<1>4. Cardinality(S) \in Nat /\ Cardinality(S) # 0
  <2> HIDE DEF S
  <2> QED
    BY <1>1, <1>3, FS_CardinalityType, FS_EmptySet
<1>5. ASSUME Distinct(players) PROVE Cardinality(S) = 1
  <2>1. S = {k}
    BY <1>2, <1>5 DEF Distinct
  <2> HIDE DEF S
  <2> QED
    BY <2>1, FS_Singleton
<1> QED
  BY <1>4, <1>5 DEF Copies

\* Zones, as a bag: every zone once, except those of players described twice.
LEMMA FoldedBag ==
    ASSUME TypeInv, GroupsInv
    PROVE  /\ DOMAIN Folded = FromGroups \cup OfTheirOwn
           /\ \A z \in DOMAIN Folded : Folded[z] \in Nat /\ Folded[z] > 0
           /\ Distinct(players) => \A z \in DOMAIN Folded : Folded[z] = 1
<1>1. /\ DOMAIN Folded = FromGroups \cup OfTheirOwn
      /\ \A z \in DOMAIN Folded :
            Folded[z] = (IF z \in FromGroups THEN 1 ELSE 0)
                      + (IF z \in OfTheirOwn THEN Copies(z) ELSE 0)
  BY DEF Folded, (+), SetToBag
<1>2. ASSUME NEW z \in OfTheirOwn
      PROVE  Copies(z) \in Nat /\ Copies(z) > 0 /\ (Distinct(players) => Copies(z) = 1)
  BY CopiesCount DEF TypeInv
<1>3. ASSUME NEW z \in FromGroups PROVE z \notin OfTheirOwn
  <2>1. SUFFICES ASSUME z \in OfTheirOwn PROVE FALSE
    OBVIOUS
  <2>2. PICK g \in Driven : z = Zone(g.coordinator, g.members)
    BY DEF FromGroups
  <2>3. z.uuid = g.coordinator /\ Alone(z.uuid)
    BY <2>1, <2>2 DEF OfTheirOwn, Zone
  <2>4. g.coordinator \in Claimed
    BY DEF Driven, Claimed, GroupsInv
  <2> QED
    BY <2>3, <2>4 DEF Alone
<1>4. ASSUME NEW z \in DOMAIN Folded
      PROVE  /\ Folded[z] \in Nat /\ Folded[z] > 0
             /\ Distinct(players) => Folded[z] = 1
  <2>1. CASE z \in FromGroups
    <3>1. Folded[z] = 1 + 0
      BY <1>1, <1>3, <2>1
    <3> QED
      BY <3>1
  <2>2. CASE z \notin FromGroups
    <3>1. z \in OfTheirOwn /\ Folded[z] = 0 + Copies(z)
      BY <1>1, <2>2
    <3> QED
      BY <1>2, <3>1
  <2> QED
    BY <2>1, <2>2
<1> QED
  BY <1>1, <1>4

\* -zone keeps the zones of one room.
LEMMA KeptBag ==
    ASSUME TypeInv, GroupsInv
    PROVE  /\ DOMAIN Kept(Folded) = Wanted /\ IsABag(Kept(Folded))
           /\ BagToSet(Kept(Folded)) \subseteq ZoneType
           /\ Distinct(players) => \A z \in DOMAIN Kept(Folded) : Kept(Folded)[z] = 1
<1> DEFINE F == Folded
           K == Kept(F)
<1>1. /\ DOMAIN F = FromGroups \cup OfTheirOwn
      /\ \A z \in DOMAIN F : F[z] \in Nat /\ F[z] > 0
      /\ Distinct(players) => \A z \in DOMAIN F : F[z] = 1
      /\ F = [z \in DOMAIN F |-> F[z]]
  <2>1. F = [z \in DOMAIN F |-> F[z]]
    BY DEF Folded, (+)
  <2> QED
    BY <2>1, FoldedBag
<1> HIDE DEF F
<1>2. /\ DOMAIN K = Wanted /\ \A z \in DOMAIN K : z \in DOMAIN F /\ K[z] = F[z]
      /\ K = [z \in DOMAIN K |-> K[z]]
  BY <1>1 DEF Kept, Wanted, BagToSet
<1> HIDE DEF K
<1>3. IsABag(K)
  BY <1>1, <1>2 DEF IsABag
<1>4. BagToSet(K) \subseteq ZoneType
  BY <1>2, ZoneTypes DEF BagToSet, Wanted
<1> QED
  BY <1>1, <1>2, <1>3, <1>4 DEF F, K

-----------------------------------------------------------------------------
(* The steps.                                                              *)

LEMMA InitInv == Init => IInv
<1> SUFFICES ASSUME Init PROVE IInv
  OBVIOUS
<1>1. ips \in Seq(Players)
  BY HostsAssumption DEF Init
<1>2. IsABag(zones) /\ DOMAIN zones = {}
  BY DEF Init, IsABag, EmptyBag, SetToBag
<1>3. TypeInv
  BY <1>1, <1>2, BoundsAssumption DEF Init, TypeInv, BagToSet
<1>4. SearchInv
  BY DEF Init, SearchInv, Distinct, ToSet
<1>5. GroupsInv /\ TargetsInv
  BY DEF Init, GroupsInv, TargetsInv, SearchNeverPanics
<1> QED
  BY <1>3, <1>4, <1>5 DEF IInv

\* Appending what is not there yet.
LEMMA DistinctAppend ==
    ASSUME NEW s \in Seq(Players), NEW p \in Players, Distinct(s), p \notin ToSet(s)
    PROVE  Distinct(Append(s, p))
<1> DEFINE t == Append(s, p)
<1>1. /\ DOMAIN t = 1 .. Len(s) + 1 /\ Len(s) \in Nat /\ DOMAIN s = 1 .. Len(s)
      /\ t[Len(s) + 1] = p /\ \A i \in 1 .. Len(s) : t[i] = s[i]
  OBVIOUS
<1>2. \A i \in 1 .. Len(s) : s[i] # p
  BY <1>1 DEF ToSet
<1> HIDE DEF t
<1> SUFFICES ASSUME NEW i \in 1 .. Len(s) + 1, NEW j \in 1 .. Len(s) + 1, t[i] = t[j]
             PROVE  i = j
  BY <1>1 DEF t, Distinct
<1>3. CASE i \in 1 .. Len(s) /\ j \in 1 .. Len(s)
  BY <1>1, <1>3 DEF Distinct
<1>4. CASE i = Len(s) + 1 /\ j \in 1 .. Len(s)
  BY <1>1, <1>2, <1>4
<1>5. CASE j = Len(s) + 1 /\ i \in 1 .. Len(s)
  BY <1>1, <1>2, <1>5
<1> QED
  BY <1>1, <1>3, <1>4, <1>5

LEMMA ToSetAppend ==
    ASSUME NEW s \in Seq(Players), NEW p \in Players
    PROVE  ToSet(Append(s, p)) = ToSet(s) \cup {p}
<1>1. /\ DOMAIN Append(s, p) = 1 .. Len(s) + 1 /\ Len(s) \in Nat /\ DOMAIN s = 1 .. Len(s)
      /\ Append(s, p)[Len(s) + 1] = p /\ \A i \in 1 .. Len(s) : Append(s, p)[i] = s[i]
  OBVIOUS
<1>2. 1 .. Len(s) + 1 = 1 .. Len(s) \cup {Len(s) + 1}
  BY <1>1
<1> QED
  BY <1>1, <1>2 DEF ToSet

\* Taking the first.
LEMMA DistinctTail ==
    ASSUME NEW s \in Seq(Players), s # <<>>
    PROVE  /\ Tail(s) \in Seq(Players) /\ Head(s) \in Players
           /\ ToSet(Tail(s)) \subseteq ToSet(s) /\ Head(s) \in ToSet(s)
           /\ Distinct(s) => Distinct(Tail(s)) /\ Head(s) \notin ToSet(Tail(s))
<1> DEFINE t == Tail(s)
<1>1. /\ t \in Seq(Players) /\ DOMAIN t = 1 .. Len(s) - 1
      /\ Len(s) \in Nat /\ Len(s) >= 1 /\ DOMAIN s = 1 .. Len(s)
      /\ \A i \in 1 .. Len(s) - 1 : t[i] = s[i + 1]
      /\ Head(s) = s[1] /\ s[1] \in Players
  OBVIOUS
<1> HIDE DEF t
<1>2. ToSet(t) \subseteq ToSet(s) /\ Head(s) \in ToSet(s)
  <2>1. ASSUME NEW x \in ToSet(t) PROVE x \in ToSet(s)
    <3>1. PICK i \in 1 .. Len(s) - 1 : x = t[i]
      BY <1>1, <2>1 DEF ToSet
    <3>2. x = s[i + 1] /\ i + 1 \in DOMAIN s
      BY <1>1, <3>1
    <3> QED
      BY <3>2 DEF ToSet
  <2>2. 1 \in DOMAIN s
    BY <1>1
  <2> QED
    BY <1>1, <2>1, <2>2 DEF ToSet
<1>3. ASSUME Distinct(s) PROVE Distinct(t) /\ Head(s) \notin ToSet(t)
  <2>1. ASSUME NEW i \in 1 .. Len(s) - 1, NEW j \in 1 .. Len(s) - 1, t[i] = t[j]
        PROVE  i = j
    <3>1. /\ i + 1 \in DOMAIN s /\ j + 1 \in DOMAIN s /\ s[i + 1] = s[j + 1]
      BY <1>1, <2>1
    <3>2. i + 1 = j + 1
      BY <1>3, <3>1 DEF Distinct
    <3> QED
      BY <3>2
  <2>2. ASSUME NEW i \in 1 .. Len(s) - 1 PROVE t[i] # s[1]
    <3>1. i + 1 \in DOMAIN s /\ 1 \in DOMAIN s /\ t[i] = s[i + 1] /\ i + 1 # 1
      BY <1>1
    <3> QED
      BY <1>3, <3>1 DEF Distinct
  <2> QED
    BY <1>1, <2>1, <2>2 DEF Distinct, ToSet
<1> QED
  BY <1>1, <1>2, <1>3 DEF t
\* What is wanted depends on the players, the groups and -zone only.
LEMMA WantedStays ==
    ASSUME players' = players, groups' = groups, only' = only
    PROVE  Wanted' = Wanted
<1>1. Described' = Described
  BY DEF Described
<1>2. Driven' = Driven
  BY <1>1 DEF Driven
<1>3. FromGroups' = FromGroups /\ Claimed' = Claimed
  BY <1>2 DEF FromGroups, Claimed
<1>4. OfTheirOwn' = OfTheirOwn
  BY <1>1, <1>3 DEF OfTheirOwn, Alone
<1> QED
  BY <1>3, <1>4 DEF Wanted

\* Taking one copy out of a bag.
LEMMA BagTake ==
    ASSUME NEW b, IsABag(b), NEW z \in DOMAIN b, NEW c, c = b (-) SetToBag({z})
    PROVE  /\ IsABag(c)
           /\ DOMAIN c \subseteq DOMAIN b /\ DOMAIN b \subseteq DOMAIN c \cup {z}
           /\ \A y \in DOMAIN c : b[y] = 1 => y # z /\ c[y] = 1
<1> DEFINE less == [e \in DOMAIN b |-> IF e \in DOMAIN SetToBag({z})
                                       THEN b[e] - SetToBag({z})[e] ELSE b[e]]
<1>1. \A e \in DOMAIN b : b[e] \in Nat /\ b[e] > 0
  BY DEF IsABag
<1>2. /\ DOMAIN less = DOMAIN b
      /\ \A e \in DOMAIN b : less[e] = IF e = z THEN b[e] - 1 ELSE b[e]
  BY DEF SetToBag
<1>3. /\ DOMAIN c = {d \in DOMAIN less : less[d] > 0}
      /\ \A e \in DOMAIN c : c[e] = less[e]
      /\ c = [e \in DOMAIN c |-> c[e]]
  BY DEF (-)
<1> HIDE DEF less
<1>4. \A e \in DOMAIN c : c[e] \in Nat /\ c[e] > 0
  BY <1>1, <1>2, <1>3
<1>5. IsABag(c)
  BY <1>3, <1>4 DEF IsABag
<1>6. \A e \in DOMAIN b : e # z => e \in DOMAIN c
  BY <1>1, <1>2, <1>3
<1>7. \A y \in DOMAIN c : b[y] = 1 => y # z /\ c[y] = 1
  BY <1>2, <1>3
<1> QED
  BY <1>2, <1>3, <1>5, <1>6, <1>7

LEMMA RegroupInv == IInv /\ Regroup => IInv'
<1> SUFFICES ASSUME IInv, Regroup PROVE IInv'
  OBVIOUS
<1>1. /\ pc' = pc /\ only' = only /\ ips' = ips /\ answers' = answers
      /\ players' = players /\ groups' = groups /\ zones' = zones /\ targets' = targets
  BY DEF Regroup, found
<1>2. Valid(coordinator') /\ regroups' \in 0 .. MaxRegroups
  BY BoundsAssumption DEF Regroup, IInv, TypeInv
<1>3. Valid(coordinator)'
  BY <1>2 DEF Valid
<1>4. TypeInv'
  BY <1>1, <1>2, <1>3 DEF IInv, TypeInv
<1>5. SearchInv' /\ GroupsInv'
  BY <1>1 DEF IInv, SearchInv, GroupsInv
<1>6. TargetsInv'
  BY <1>1, WantedStays DEF IInv, TargetsInv, SearchNeverPanics
<1> QED
  BY <1>4, <1>5, <1>6 DEF IInv

LEMMA AnswerInv == ASSUME IInv, NEW p \in Players, Answer(p) PROVE IInv'
<1>1. /\ pc = "search" /\ pc' = pc /\ only' = only /\ players' = players
      /\ groups' = groups /\ zones' = zones /\ targets' = targets
      /\ coordinator' = coordinator /\ regroups' = regroups
      /\ answers' = answers + 1 /\ answers < MaxAnswers
      /\ ips' = IF p \in ToSet(ips) THEN ips ELSE Append(ips, p)
  BY DEF Answer, household, Seen
<1>2. TypeInv'
  <2>1. answers' \in 0 .. MaxAnswers
    BY <1>1, BoundsAssumption DEF IInv, TypeInv
  <2>2. ips' \in Seq(Players)
    BY <1>1 DEF IInv, TypeInv
  <2>3. Valid(coordinator)'
    BY <1>1 DEF IInv, TypeInv, Valid
  <2> QED
    BY <1>1, <2>1, <2>2, <2>3 DEF IInv, TypeInv
<1>3. SearchInv'
  <2>1. players = <<>> /\ Distinct(ips) /\ ips \in Seq(Players)
    BY <1>1 DEF IInv, SearchInv, TypeInv
  <2>2. Distinct(ips')
    BY <1>1, <2>1, DistinctAppend
  <2>3. Distinct(players') /\ ToSet(players') = {}
    BY <1>1, <2>1 DEF Distinct, ToSet
  <2> QED
    BY <1>1, <2>1, <2>2, <2>3 DEF SearchInv, Distinct, ToSet
<1>4. GroupsInv'
  BY <1>1 DEF IInv, GroupsInv
<1>5. TargetsInv'
  BY <1>1 DEF IInv, TargetsInv, SearchNeverPanics
<1> QED
  BY <1>2, <1>3, <1>4, <1>5 DEF IInv

LEMMA EndSearchInv == IInv /\ EndSearch => IInv'
<1> SUFFICES ASSUME IInv, EndSearch PROVE IInv'
  OBVIOUS
<1>1. /\ pc = "search" /\ pc' \in {"describe", "failed"}
      /\ only' = only /\ ips' = ips /\ answers' = answers
      /\ players' = players /\ groups' = groups /\ zones' = zones /\ targets' = targets
      /\ coordinator' = coordinator /\ regroups' = regroups
  BY DEF EndSearch, found, household
<1>2. TypeInv'
  <2>1. Valid(coordinator)'
    BY <1>1 DEF IInv, TypeInv, Valid
  <2> QED
    BY <1>1, <2>1 DEF IInv, TypeInv
<1>3. SearchInv' /\ GroupsInv'
  BY <1>1 DEF IInv, SearchInv, GroupsInv
<1>4. TargetsInv'
  BY <1>1 DEF IInv, TargetsInv, SearchNeverPanics
<1> QED
  BY <1>2, <1>3, <1>4 DEF IInv

LEMMA DescribeInv == IInv /\ Describe => IInv'
<1> SUFFICES ASSUME IInv, Describe PROVE IInv'
  OBVIOUS
<1>1. /\ pc = "describe" /\ pc' = pc /\ ips # <<>> /\ ips' = Tail(ips)
      /\ players' = Append(players, Head(ips)) \/ players' = players
      /\ only' = only /\ answers' = answers
      /\ groups' = groups /\ zones' = zones /\ targets' = targets
      /\ coordinator' = coordinator /\ regroups' = regroups
  BY DEF Describe, household
<1>2. ips \in Seq(Players) /\ players \in Seq(Players)
  BY DEF IInv, TypeInv
<1>3. /\ ips' \in Seq(Players) /\ Head(ips) \in Players
      /\ ToSet(ips') \subseteq ToSet(ips) /\ Head(ips) \in ToSet(ips)
      /\ Distinct(ips) => Distinct(ips') /\ Head(ips) \notin ToSet(ips')
  BY <1>1, <1>2, DistinctTail
<1>4. players' \in Seq(Players)
  <2>1. Append(players, Head(ips)) \in Seq(Players)
    BY <1>2, <1>3
  <2> QED
    BY <1>1, <1>2, <2>1
<1>5. TypeInv'
  <2>1. Valid(coordinator)'
    BY <1>1 DEF IInv, TypeInv, Valid
  <2> QED
    BY <1>1, <1>3, <1>4, <2>1 DEF IInv, TypeInv
<1>6. SearchInv'
  <2>1. SUFFICES ASSUME answers > 0
                 PROVE  /\ Distinct(ips') /\ Distinct(players')
                        /\ ToSet(ips') \cap ToSet(players') = {}
    BY <1>1 DEF SearchInv, Distinct, ToSet
  <2>2. Distinct(ips) /\ Distinct(players) /\ ToSet(ips) \cap ToSet(players) = {}
    BY <2>1 DEF IInv, SearchInv
  <2>3. CASE players' = players
    BY <1>3, <2>2, <2>3
  <2>4. CASE players' = Append(players, Head(ips))
    <3>1. Head(ips) \notin ToSet(players)
      BY <1>3, <2>2
    <3>2. ToSet(players') = ToSet(players) \cup {Head(ips)}
      BY <1>2, <1>3, <2>4, ToSetAppend
    <3>3. Distinct(players')
      BY <1>2, <1>3, <2>2, <2>4, <3>1, DistinctAppend
    <3> QED
      BY <1>3, <2>2, <3>2, <3>3
  <2> QED
    BY <1>1, <2>3, <2>4
<1>7. GroupsInv'
  BY <1>1 DEF IInv, GroupsInv
<1>8. TargetsInv'
  BY <1>1 DEF IInv, TargetsInv, SearchNeverPanics
<1> QED
  BY <1>5, <1>6, <1>7, <1>8 DEF IInv

LEMMA TopologyInv == IInv /\ Topology => IInv'
<1> SUFFICES ASSUME IInv, Topology PROVE IInv'
  OBVIOUS
<1>1. /\ pc = "describe" /\ pc' \in {"fold", "failed"}
      /\ only' = only /\ ips' = ips /\ answers' = answers
      /\ players' = players /\ zones' = zones /\ targets' = targets
      /\ coordinator' = coordinator /\ regroups' = regroups
  BY DEF Topology, found, household
<1>2. \/ groups' = groups
      \/ groups' = {Group(p) : p \in {q \in Players : /\ coordinator[q] = q
                                                      /\ House[q] = House[Head(players)]}}
  BY DEF Topology
<1>3. CASE groups' = groups
  <2>1. TypeInv'
    <3>1. Valid(coordinator)'
      BY <1>1 DEF IInv, TypeInv, Valid
    <3> QED
      BY <1>1, <1>3, <3>1 DEF IInv, TypeInv
  <2>2. SearchInv' /\ GroupsInv' /\ TargetsInv'
    BY <1>1, <1>3 DEF IInv, SearchInv, GroupsInv, TargetsInv, SearchNeverPanics
  <2> QED
    BY <2>1, <2>2 DEF IInv
<1>4. CASE groups' = {Group(p) : p \in {q \in Players : /\ coordinator[q] = q
                                                        /\ House[q] = House[Head(players)]}}
  <2>1. ASSUME NEW g \in groups'
        PROVE  /\ g = Group(g.coordinator)
               /\ g.coordinator \in Players /\ coordinator[g.coordinator] = g.coordinator
    <3>1. PICK p \in Players : g = Group(p) /\ coordinator[p] = p
      BY <1>4
    <3> QED
      BY <3>1 DEF Group
  <2>2. ASSUME NEW g \in groups'
        PROVE  /\ g.members = {q \in Players : coordinator[q] = g.coordinator}
               /\ g.coordinator \in g.members
               /\ g \in [coordinator : Players, members : SUBSET Players]
    BY <2>1 DEF Group
  <2>3. TypeInv'
    <3>1. Valid(coordinator)'
      BY <1>1 DEF IInv, TypeInv, Valid
    <3> QED
      BY <1>1, <2>2, <3>1 DEF IInv, TypeInv
  <2>4. GroupsInv'
    <3>1. ASSUME NEW g \in groups', NEW h \in groups', g.members \cap h.members # {}
          PROVE  g = h
      <4>1. g.coordinator = h.coordinator
        BY <2>2, <3>1
      <4> QED
        BY <2>1, <4>1
    <3> QED
      BY <2>2, <3>1 DEF GroupsInv
  <2>5. SearchInv' /\ TargetsInv'
    BY <1>1 DEF IInv, SearchInv, TargetsInv, SearchNeverPanics
  <2> QED
    BY <2>3, <2>4, <2>5 DEF IInv
<1> QED
  BY <1>2, <1>3, <1>4

LEMMA FoldInv == IInv /\ Fold => IInv'
<1> SUFFICES ASSUME IInv, Fold PROVE IInv'
  OBVIOUS
<1>1. /\ pc = "fold" /\ zones' = Kept(Folded) /\ pc' \in {"failed", "listen"}
      /\ only' = only /\ ips' = ips /\ answers' = answers /\ groups' = groups
      /\ players' = players /\ targets' = targets
      /\ coordinator' = coordinator /\ regroups' = regroups
  BY DEF Fold, found, household
<1>2. /\ DOMAIN zones' = Wanted /\ IsABag(zones')
      /\ BagToSet(zones') \subseteq ZoneType
      /\ Distinct(players) => \A z \in DOMAIN zones' : zones'[z] = 1
  BY <1>1, KeptBag DEF IInv
<1>3. TypeInv'
  <2>1. Valid(coordinator)'
    BY <1>1 DEF IInv, TypeInv, Valid
  <2>2. IsABag(zones)' /\ (BagToSet(zones) \subseteq ZoneType)'
    BY <1>2 DEF IsABag, BagToSet
  <2> QED
    BY <1>1, <2>1, <2>2 DEF IInv, TypeInv
<1>4. SearchInv' /\ GroupsInv'
  BY <1>1 DEF IInv, SearchInv, GroupsInv
<1>5. TargetsInv'
  <2>1. targets = {} /\ (answers > 0 => Distinct(players))
    BY <1>1 DEF IInv, SearchInv, TargetsInv
  <2>2. Wanted' = Wanted
    BY <1>1, WantedStays
  <2> QED
    BY <1>1, <1>2, <2>1, <2>2 DEF TargetsInv, SearchNeverPanics
<1> QED
  BY <1>3, <1>4, <1>5 DEF IInv

LEMMA ListenInv == IInv /\ (Listen \/ Serve) => IInv'
<1> SUFFICES ASSUME IInv, Listen \/ Serve PROVE IInv'
  OBVIOUS
<1>1. /\ only' = only /\ ips' = ips /\ answers' = answers /\ groups' = groups
      /\ players' = players /\ targets' = targets /\ zones' = zones
      /\ coordinator' = coordinator /\ regroups' = regroups
      /\ \/ pc = "listen" /\ pc' \in {"advertise", "failed"}
         \/ pc = "advertise" /\ zones = EmptyBag /\ pc' = "serving"
  BY DEF Listen, Serve, found, household
<1>2. TypeInv'
  <2>1. Valid(coordinator)'
    BY <1>1 DEF IInv, TypeInv, Valid
  <2> QED
    BY <1>1, <2>1 DEF IInv, TypeInv
<1>3. SearchInv' /\ GroupsInv'
  BY <1>1 DEF IInv, SearchInv, GroupsInv
<1>4. TargetsInv'
  <2>1. Wanted' = Wanted
    BY <1>1, WantedStays
  <2>2. pc' = "serving" => DOMAIN zones = {}
    BY <1>1 DEF EmptyBag, SetToBag
  <2> QED
    BY <1>1, <2>1, <2>2 DEF IInv, TargetsInv, SearchNeverPanics
<1> QED
  BY <1>2, <1>3, <1>4 DEF IInv

LEMMA AdvertiseInv ==
    ASSUME IInv, NEW z \in BagToSet(zones), Advertise(z)
    PROVE  IInv'
<1>1. /\ pc = "advertise" /\ zones' = zones (-) SetToBag({z})
      /\ only' = only /\ ips' = ips /\ answers' = answers /\ groups' = groups
      /\ players' = players /\ coordinator' = coordinator /\ regroups' = regroups
      /\ \/ pc' = "failed" /\ targets' = targets
         \/ /\ z.uuid \in {t.uuid : t \in targets}
            /\ pc' = "panic" /\ targets' = targets
         \/ pc' = pc /\ targets' = targets \cup {z}
  BY DEF Advertise, found, household
<1>2. z \in DOMAIN zones /\ IsABag(zones) /\ z \in ZoneType /\ targets \subseteq ZoneType
  BY DEF BagToSet, IInv, TypeInv
<1>3. /\ IsABag(zones')
      /\ DOMAIN zones' \subseteq DOMAIN zones /\ DOMAIN zones \subseteq DOMAIN zones' \cup {z}
      /\ \A y \in DOMAIN zones' : zones[y] = 1 => y # z /\ zones'[y] = 1
  BY <1>1, <1>2, BagTake
<1>4. TypeInv'
  <2>1. Valid(coordinator)'
    BY <1>1 DEF IInv, TypeInv, Valid
  <2>2. IsABag(zones)' /\ (BagToSet(zones) \subseteq ZoneType)'
    BY <1>3 DEF IInv, TypeInv, IsABag, BagToSet
  <2> QED
    BY <1>1, <1>2, <2>1, <2>2 DEF IInv, TypeInv
<1>5. SearchInv' /\ GroupsInv'
  BY <1>1 DEF IInv, SearchInv, GroupsInv
<1>6. /\ targets \cup DOMAIN zones = Wanted
      /\ answers > 0 => /\ targets \cap DOMAIN zones = {}
                        /\ \A y \in DOMAIN zones : zones[y] = 1
      /\ answers \in Nat
  BY <1>1, BoundsAssumption DEF IInv, TargetsInv, TypeInv
<1>7. Wanted' = Wanted
  BY <1>1, WantedStays
<1>8. CASE pc' = "failed" /\ targets' = targets
  BY <1>4, <1>5, <1>8 DEF TargetsInv, SearchNeverPanics, IInv
<1>9. CASE z.uuid \in {t.uuid : t \in targets} /\ pc' = "panic" /\ targets' = targets
  <2>1. PICK t \in targets : t.uuid = z.uuid
    BY <1>9
  <2>2. t \in FromGroups \cup OfTheirOwn /\ z \in FromGroups \cup OfTheirOwn
    BY <1>2, <1>6 DEF Wanted
  <2>3. t = z
    BY <2>1, <2>2, OneZonePerName DEF IInv
  <2>4. answers = 0
    BY <1>2, <1>6, <2>3
  <2>5. TargetsInv'
    BY <1>1, <1>9, <2>4 DEF TargetsInv, SearchNeverPanics
  <2> QED
    BY <1>4, <1>5, <2>5 DEF IInv
<1>10. CASE pc' = pc /\ targets' = targets \cup {z}
  <2>1. targets' \cup DOMAIN zones' = Wanted
    BY <1>2, <1>3, <1>6, <1>10
  <2>2. answers > 0 => /\ targets' \cap DOMAIN zones' = {}
                       /\ \A y \in DOMAIN zones' : zones'[y] = 1
    BY <1>3, <1>6, <1>10
  <2>3. TargetsInv'
    BY <1>1, <1>7, <1>10, <2>1, <2>2 DEF TargetsInv, SearchNeverPanics
  <2> QED
    BY <1>4, <1>5, <2>3 DEF IInv
<1> QED
  BY <1>1, <1>8, <1>9, <1>10

LEMMA NextInv == IInv /\ [Next]_vars => IInv'
<1> SUFFICES ASSUME IInv, [Next]_vars PROVE IInv'
  OBVIOUS
<1>1. CASE Next
  <2>1. CASE \E p \in Players : Answer(p)
    BY <2>1, AnswerInv
  <2>2. CASE \E z \in BagToSet(zones) : Advertise(z)
    BY <2>2, AdvertiseInv
  <2> QED
    BY <1>1, <2>1, <2>2, RegroupInv, EndSearchInv, DescribeInv, TopologyInv, FoldInv,
       ListenInv DEF Next
<1>2. CASE UNCHANGED vars
  <2>1. /\ pc' = pc /\ only' = only /\ ips' = ips /\ answers' = answers
        /\ players' = players /\ groups' = groups /\ zones' = zones
        /\ targets' = targets /\ coordinator' = coordinator /\ regroups' = regroups
    BY <1>2 DEF vars, found, household
  <2>2. TypeInv'
    <3>1. Valid(coordinator)'
      BY <2>1 DEF IInv, TypeInv, Valid
    <3> QED
      BY <2>1, <3>1 DEF IInv, TypeInv
  <2>3. SearchInv' /\ GroupsInv'
    BY <2>1 DEF IInv, SearchInv, GroupsInv
  <2>4. TargetsInv'
    BY <2>1, WantedStays DEF IInv, TargetsInv, SearchNeverPanics
  <2> QED
    BY <2>2, <2>3, <2>4 DEF IInv
<1> QED
  BY <1>1, <1>2

\* The inductive invariant holds in every reachable state of the startup.
THEOREM Invariance == Spec => []IInv
BY InitInv, NextInv, PTL DEF Spec

-----------------------------------------------------------------------------
(* The theorems.                                                           *)

\* The variables stay within their types, and a search keeps no address twice.
THEOREM TypeCorrect == Spec => []TypeOK
<1>1. IInv => TypeOK
  BY DEF IInv, TypeInv, SearchInv, Distinct, TypeOK
<1> QED
  BY <1>1, Invariance, PTL

\* The program never registers a path twice after a search, however often
\* players answer it and whatever the topology says.
THEOREM NoPanicAfterSearch == Spec => []SearchNeverPanics
<1>1. IInv => SearchNeverPanics
  BY DEF IInv, TargetsInv
<1> QED
  BY <1>1, Invariance, PTL

\* Once all zones are served, the targets are the zones that Zones makes.
LEMMA Serving ==
    ASSUME IInv, pc = "serving", only = Everything
    PROVE  targets = FromGroups \cup OfTheirOwn
BY DEF IInv, TargetsInv, Wanted

\* Every player that was described is in exactly one target, also when -hosts
\* names a player twice and when the groups change while the program starts.
THEOREM PlayersHaveOneTarget == Spec => []OneTargetPerPlayer
<1>1. IInv => OneTargetPerPlayer
  <2> SUFFICES ASSUME IInv, pc = "serving", only = Everything, NEW p \in Described
               PROVE  Cardinality({t \in targets : Covers(t, p)}) = 1
    BY DEF OneTargetPerPlayer
  <2>1. targets = FromGroups \cup OfTheirOwn
    BY Serving
  <2>2. \E t : {u \in targets : Covers(u, p)} = {t}
    <3>1. CASE p \in Claimed
      <4>1. PICK g \in Driven : p \in g.members
        BY <3>1 DEF Claimed
      <4> DEFINE t == Zone(g.coordinator, g.members)
      <4>2. t \in targets /\ Covers(t, p)
        BY <2>1, <4>1 DEF FromGroups, Covers, Zone
      <4>3. ASSUME NEW u \in FromGroups, Covers(u, p) PROVE u = t
        <5>1. PICK h \in Driven : u = Zone(h.coordinator, h.members)
          BY DEF FromGroups
        <5>2. p \in h.members
          BY <4>3, <5>1 DEF Covers, Zone
        <5>3. g \in groups /\ h \in groups /\ g.members \cap h.members # {}
          BY <4>1, <5>2 DEF Driven
        <5>4. g = h
          BY <5>3 DEF IInv, GroupsInv
        <5> QED
          BY <5>1, <5>4
      <4>4. ASSUME NEW u \in OfTheirOwn PROVE ~Covers(u, p)
        BY <3>1 DEF OfTheirOwn, Covers, Zone, Alone
      <4> HIDE DEF t
      <4> QED
        BY <2>1, <4>2, <4>3, <4>4
    <3>2. CASE p \notin Claimed
      <4> DEFINE t == Zone(p, {p})
      <4>1. t \in targets /\ Covers(t, p)
        BY <2>1, <3>2 DEF OfTheirOwn, Covers, Zone, Alone
      <4>2. ASSUME NEW u \in FromGroups PROVE ~Covers(u, p)
        BY <3>2 DEF FromGroups, Covers, Zone, Claimed
      <4>3. ASSUME NEW u \in OfTheirOwn, Covers(u, p) PROVE u = t
        BY <4>3 DEF OfTheirOwn, Covers, Zone
      <4> HIDE DEF t
      <4> QED
        BY <2>1, <4>1, <4>2, <4>3
    <3> QED
      BY <3>1, <3>2
  <2> QED
    BY <2>2, FS_Singleton
<1> QED
  BY <1>1, Invariance, PTL

\* A group whose coordinator was described has one target, with all its members
\* and through its coordinator.
THEOREM GroupsHaveOneTarget == Spec => []OneTargetPerGroup
<1>1. IInv => OneTargetPerGroup
  <2> SUFFICES ASSUME IInv, pc = "serving", only = Everything, NEW g \in Driven
               PROVE  {t \in targets : \E m \in g.members : Covers(t, m)}
                         = {Zone(g.coordinator, g.members)}
    BY DEF OneTargetPerGroup
  <2> DEFINE t == Zone(g.coordinator, g.members)
  <2>1. targets = FromGroups \cup OfTheirOwn
    BY Serving
  <2>2. t \in targets /\ \E m \in g.members : Covers(t, m)
    BY <2>1 DEF FromGroups, Covers, Zone, Driven, IInv, GroupsInv
  <2>3. ASSUME NEW u \in FromGroups, NEW m \in g.members, Covers(u, m) PROVE u = t
    <3>1. PICK h \in Driven : u = Zone(h.coordinator, h.members)
      BY DEF FromGroups
    <3>2. m \in h.members
      BY <2>3, <3>1 DEF Covers, Zone
    <3>3. g \in groups /\ h \in groups /\ g.members \cap h.members # {}
      BY <3>2 DEF Driven
    <3>4. g = h
      BY <3>3 DEF IInv, GroupsInv
    <3> QED
      BY <3>1, <3>4
  <2>4. ASSUME NEW u \in OfTheirOwn, NEW m \in g.members PROVE ~Covers(u, m)
    BY DEF OfTheirOwn, Covers, Zone, Alone, Claimed
  <2> HIDE DEF t
  <2>5. {u \in targets : \E m \in g.members : Covers(u, m)} = {t}
    BY <2>1, <2>2, <2>3, <2>4
  <2> QED
    BY <2>5 DEF t
<1> QED
  BY <1>1, Invariance, PTL
=============================================================================

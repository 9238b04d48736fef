------------------------------ MODULE MCZones -------------------------------
(* Model checking of Zones: two households, two players with one room name, *)
(* and a player without an id.                                              *)
EXTENDS Zones

CONSTANTS p1, p2, p3, p4, den, hall, yard

MCPlayers  == {p1, p2, p3, p4}
MCRooms    == {den, hall, yard}
MCRoom     == [p \in MCPlayers |-> CASE p = p1 -> den [] p = p2 -> hall
                                     [] p = p3 -> hall [] p = p4 -> yard]
MCHouse    == [p \in MCPlayers |-> IF p = p4 THEN 2 ELSE 1]
MCNameless == {p3}
MCHosts    == {<<>>, <<p2, p1>>, <<p4, p1, p3>>, <<p1, p2, p2>>}
=============================================================================

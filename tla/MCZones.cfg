SPECIFICATION Spec
CONSTANTS
    p1 = p1
    p2 = p2
    p3 = p3
    p4 = p4
    den = den
    hall = hall
    yard = yard
    Players <- MCPlayers
    Rooms <- MCRooms
    Room <- MCRoom
    House <- MCHouse
    Nameless <- MCNameless
    Hosts <- MCHosts
    Everything = Everything
    MaxAnswers = 4
    MaxRegroups = 1
CHECK_DEADLOCK FALSE
INVARIANTS TypeOK OneTargetPerPlayer OneTargetPerGroup SearchNeverPanics

SPECIFICATION Spec
CONSTANTS
    c1 = c1
    c2 = c2
    main = main
    NoConn = NoConn
    Conns = {c1}
    Closers = {}
    SoapFaults = FALSE
    BindFaults = FALSE
    Bodies <- Announced
    Volumes <- NoVolumes
    MaxVolumes = 0
    MaxAnnounces = 1
    MaxSetups = 1
    MaxStarts = 1
CHECK_DEADLOCK FALSE
INVARIANT StoppedAfterTeardown

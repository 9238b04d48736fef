SPECIFICATION Spec
CONSTANTS
    c1 = c1
    c2 = c2
    main = main
    NoConn = NoConn
    Conns = {c1, c2}
    Closers = {main}
    SoapFaults = TRUE
    BindFaults = TRUE
    Bodies <- Announced
    Volumes <- NoVolumes
    MaxVolumes = 0
    MaxAnnounces = 1
    MaxSetups = 1
    MaxStarts = 2
CHECK_DEADLOCK FALSE
SYMMETRY Symmetry
INVARIANTS TypeOK OneStartPerRun StopsAnswerPlays
PROPERTY UrlsAreFresh

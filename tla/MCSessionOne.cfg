SPECIFICATION FairSpec
CONSTANTS
    c1 = c1
    c2 = c2
    main = main
    NoConn = NoConn
    Conns = {c1}
    Closers = {}
    SoapFaults = FALSE
    BindFaults = FALSE
    Bodies <- AnyBody
    Volumes <- AirPlayVolumes
    MaxVolumes = 1
    MaxAnnounces = 2
    MaxSetups = 2
    MaxStarts = 2
CHECK_DEADLOCK FALSE
INVARIANTS NoSocketLeak SpeakerFollowsSession VolumeFollowsSender
PROPERTIES RecordedSessionPlays OnlyCompleteAnnounces

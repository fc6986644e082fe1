SPECIFICATION Spec
CONSTANTS
    main = main
    sub = sub
    c1 = c1
    c2 = c2
    Nobody = Nobody
    Streams = {main, sub}
    Clients = {c1, c2}
    QueueSize = 1
    MaxClients = 1
    MaxFrames = 2
    MaxNals = 1
    MaxSources = 2
SYMMETRY MCSymmetry
INVARIANTS
    NoStuckSource
    SessionsMatchSources
CHECK_DEADLOCK FALSE

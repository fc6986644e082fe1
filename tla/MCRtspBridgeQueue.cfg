SPECIFICATION FairSpec
CONSTANTS
    main = main
    sub = sub
    c1 = c1
    c2 = c2
    Nobody = Nobody
    Streams = {main}
    Clients = {c1, c2}
    QueueSize = 2
    MaxClients = 1
    MaxFrames = 3
    MaxNals = 2
    MaxSources = 2
PROPERTIES
    PoppedInOrder
    ReaderServed
CHECK_DEADLOCK FALSE

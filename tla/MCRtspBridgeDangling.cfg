SPECIFICATION Spec
CONSTANTS
    main = main
    sub = sub
    c1 = c1
    c2 = c2
    Nobody = Nobody
    Streams = {main}
    Clients = {c1}
    QueueSize = 2
    MaxClients = 1
    MaxFrames = 2
    MaxNals = 1
    MaxSources = 2
INVARIANTS
    NoDanglingTask
CHECK_DEADLOCK FALSE

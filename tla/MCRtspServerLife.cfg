SPECIFICATION FairSpec
CONSTANTS
    main_ = main_
    sub = sub
    w1 = w1
    w2 = w2
    Streams = {main_, sub}
    Workers = {w1, w2}
    MaxStarts = 3
INVARIANTS
    LoopServes
    StoppedIsClean
    RacesOnlyAtExit
PROPERTIES
    StopReturns
CHECK_DEADLOCK FALSE

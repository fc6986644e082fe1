SPECIFICATION FairSpec
CONSTANTS
    t1 = t1
    t2 = t2
    Threads = {t1, t2}
    Channel = t1
    MaxClock = 1
    MaxFrames = 4
    QueueSize = 2
INVARIANTS
    EntriesAccountedFor
PROPERTIES
    StampsIncrease
    WrittenInOrder
    QueueWritten
    DestructorReturnsUnlessParking
CHECK_DEADLOCK FALSE

SPECIFICATION FairSpec
CONSTANTS
    f1 = f1
    f2 = f2
    NoFetcher = NoFetcher
    BufferSize <- MCBufferSize
    Fetchers = {f1, f2}
INVARIANTS
    StreamsBalanced
    NoPushToDestroyed
    AbortsOnlyAfterFailedOpen
PROPERTIES
    StopReturns
    EncoderServed
CHECK_DEADLOCK FALSE

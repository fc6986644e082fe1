SPECIFICATION FairSpec
CONSTANTS
    c1 = c1
    Controllers = {c1}
    MaxConsumers = 2
    MaxFrames = 3
    ConfigSize <- MCConfigSize
INVARIANTS
    NoOrphanWorker
    NoSleepOverFrame
    FrontExists
    NoFrameSkipped
    QueueBounded
    FramesAccountedFor
PROPERTIES
    DeliveredInOrder
    FeedRefined
    QueuesDrain
    RemovalReturnsUnlessParking
CHECK_DEADLOCK FALSE

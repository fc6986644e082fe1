SPECIFICATION FairSpec
CONSTANTS
    c1 = c1
    Controllers = {c1}
    MaxConsumers = 1
    MaxFrames = 2
    ConfigSize <- MCConfigSize
PROPERTIES
    RemovalReturns
CHECK_DEADLOCK FALSE

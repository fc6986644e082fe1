SPECIFICATION Spec
CONSTANT
    Frames <- MCFrames
INVARIANTS
    NoStartCodeInNal
    FrameIngested
CHECK_DEADLOCK FALSE

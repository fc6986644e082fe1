SPECIFICATION Spec
INVARIANTS
    NeedsMet
    
    NoWriteToClosedFile
    LoggerOutlivesThreads
    AbortsOnlyOverThread
PROPERTIES
    JoinsEnd
CHECK_DEADLOCK FALSE

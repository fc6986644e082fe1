SPECIFICATION Spec
CONSTANTS
    Threads = {t1, t2}
    LogCategoryNames <- MCNames
    MaxVersion = 2
INVARIANTS
    NoUseAfterFini
    LookupsFindCategory
PROPERTIES
    UpdateApplied
CHECK_DEADLOCK FALSE

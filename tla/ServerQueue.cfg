SPECIFICATION FairSpec
CONSTANTS
    Capacity = 2
    MaxBytes = 2
    NodeSize = 1
    Uninitialized = Uninitialized
    ClientIds = {c1, c2}
    WindowSize = 1
    MaxMessages = 3
    Limits <- MCLimits
    Items <- MCItems
    LenOf <- MCLenOf
INVARIANTS
    HandledOnce
    OrderPerSession
    FreshRun
PROPERTIES
    
    StopReturns
CHECK_DEADLOCK FALSE

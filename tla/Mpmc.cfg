SPECIFICATION UseSpec
CONSTANTS
    Capacity = 2
    MaxBytes = 4
    NodeSize = 1
    Items <- MCItems
    LenOf <- MCLenOf
    Uninitialized = Uninitialized
    Readers = {r1, r2}
    Timeout = 1
    MaxPushes = 7
    MaxWakes = 2
    MaxReceived = 3
INVARIANTS
    QueueInv
    
    NoLostWakeup
    WakeAllReachesAll
PROPERTIES
    QueueSpec
    SleepersServed
    WakeAllReleases
CHECK_DEADLOCK FALSE

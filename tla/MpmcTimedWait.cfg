SPECIFICATION UseSpec
CONSTANTS
    Capacity = 2
    MaxBytes = 7
    NodeSize = 1
    Items <- MCItems
    LenOf <- MCLenOf
    Uninitialized = Uninitialized
    Readers = {r1, r2}
    Timeout = 1
    MaxPushes = 3
    MaxWakes = 2
    MaxReceived = 3
INVARIANTS
    TimedCallBounded
CHECK_DEADLOCK FALSE

SPECIFICATION Spec
CONSTANTS
    SeqMod = 8
    CountMod = 1
    SackBits = 2
    NoPayload = NoPayload
    Capacity = 2
    MaxBytes = 2
    NodeSize = 1
    Uninitialized = Uninitialized
    WindowSize = 2
    NoSession = NoSession
    MaxMessages = 3
    Limits <- MCLimits
    Items <- MCItems
    LenOf <- MCLenOf
    ModeOf <- MCModeOf
INVARIANTS
    GuaranteedDelivery
CHECK_DEADLOCK FALSE

SPECIFICATION AutoSpec
CONSTANTS
    SeqMod = 8
    CountMod = 1
    SackBits = 2
    NoPayload = NoPayload
    Capacity = 2
    MaxBytes = 2
    NodeSize = 1
    Uninitialized = Uninitialized
    WindowSize = 2
    NoSession = NoSession
    MaxMessages = 1
    Limits <- MCLiveLimits
    Items <- MCItems
    LenOf <- MCLenOf
    ModeOf <- MCModeOf
PROPERTIES
    EventuallyAgree
    EventuallyArrives
    DisconnectReturns
CHECK_DEADLOCK FALSE

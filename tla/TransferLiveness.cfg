SPECIFICATION FairSpec
CONSTANTS
    SeqMod = 8
    CountMod = 1
    SackBits = 2
    NoPayload = NoPayload
    SendCapacity = 2
    RecvCapacity = 2
    InitSeq = 1
    MaxReady = 1
    MaxExpired = 1
    Lifetime = 2
    MaxReliable = 3
    MaxUnreliable = 0
PROPERTIES
    EventuallyDelivered

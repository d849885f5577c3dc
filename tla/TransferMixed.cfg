SPECIFICATION Spec
CONSTANTS
    SeqMod = 16
    CountMod = 1
    SackBits = 2
    NoPayload = NoPayload
    SendCapacity = 4
    RecvCapacity = 2
    InitSeq = 1
    MaxReady = 1
    MaxExpired = 2
    Lifetime = 4
    MaxReliable = 3
    MaxUnreliable = 2
INVARIANTS
    NothingStuck
    UnreliableInOrder
PROPERTIES
    LinkSpec

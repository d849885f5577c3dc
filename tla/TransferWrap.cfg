SPECIFICATION Spec
CONSTANTS
    SeqMod = 8
    CountMod = 1
    SackBits = 2
    NoPayload = NoPayload
    SendCapacity = 2
    RecvCapacity = 2
    InitSeq = 1
    MaxReady = 1
    MaxExpired = 1
    Lifetime = 2
    MaxReliable = 8
    MaxUnreliable = 0
INVARIANTS
    SendWindowInv
    RecvWindowInv
    NoFalseAck
PROPERTIES
    LinkSpec

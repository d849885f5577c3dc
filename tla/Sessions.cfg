SPECIFICATION Spec
CONSTANTS
    MaxClients = 2
    Addrs = {a1, a2, a3}
    NoAddr = NoAddr
    InactivityTimeout = 2
    MaxTime = 4
    MaxSessions = 4
INVARIANTS
    TypeOK
    ActiveCountExact
    OneSessionPerClient
    
    FreshStart
PROPERTIES
    EvictsLeastRecent
    RejectsOnlyWhenFull
SYMMETRY AddrSymmetry

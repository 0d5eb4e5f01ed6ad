CONSTANTS
    Peers = {p1}
    Inbound = {i1}
    Outbound = {o1}
    MaxConns = 1
    None = None
SPECIFICATION FairSpec
INVARIANTS
    NoDeadEntry
    PendingExact
PROPERTIES
    EvictOnlySelf
    StopReturns
    NoLoopLeak
    DeadPeerEvicted

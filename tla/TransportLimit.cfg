CONSTANTS
    Peers = {p1, p2}
    Inbound = {i1, i2}
    Outbound = {}
    MaxConns = 1
    None = None
SPECIFICATION Spec
INVARIANTS
    LimitEnforced

CONSTANTS
    Peers = {p1}
    Inbound = {i1}
    Outbound = {o1}
    MaxConns = 2
    None = None
SPECIFICATION Spec
INVARIANTS
    LiveMeansConnected

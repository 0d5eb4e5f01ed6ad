CONSTANTS
    r1 = r1
    r2 = r2
    p1 = p1
    p2 = p2
    Requests = {r1, r2}
    Loops = {l1, l2}
    Peers = {p1, p2}
    Registered = {p1, p2}
    Target <- MCTarget
    Op <- MCOp
    ReplyIds = {1, 2}
    ReplyTypes = {"miner_ack", "pong"}
    None = None
SPECIFICATION FairSpec
INVARIANTS
    SingleDelivery
    OkMeansAnswered
    NoPendingLeak
PROPERTIES
    CallsReturn

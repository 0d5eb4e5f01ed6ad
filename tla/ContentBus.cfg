CONSTANTS
    Subs = {s1, s2}
    Local = {e1}
    Remote = {r1}
    Closers = {k1, k2}
    Topics = {t1, t2}
    Buffers = {1, 2}
    None = None
SPECIFICATION BusSpec
INVARIANTS
    NoSendOnClosed
    AllClosed
    InOrder
    NoSilentLoss
    OkMeansReleased
PROPERTIES
    CloseReturns

CONSTANTS
    Base = 64
    Widths <- MCWidths
    MaxPayloadSize = 40
    ConnMaxPayload = 27
    Writers = {w1, w2}
    Programs <- MCPrograms
    Cuts = {0, 1, 20}
    Free = Free
    Registrars = {g1, g2}
    Scenarios <- MCScenarios
    Secret = s1
    ByteValues = 16
    MaxValue = 3
    ThreatScoreThreshold = 40
    NoHandler = NoHandler
    w1 = w1
    w2 = w2
    g1 = g1
    g2 = g2
    h1 = h1
    h2 = h2
    h3 = h3
    s1 = s1
    s2 = s2
SPECIFICATION WireSpec
\* The calls come to an end.
CHECK_DEADLOCK FALSE
INVARIANTS
    StorageExact
    ReadsMatchPackets
    HandledInBounds
    IterationIsSnapshot
PROPERTIES
    FramesArriveWhole
    WrittenIsReturned
    DispatcherProgress

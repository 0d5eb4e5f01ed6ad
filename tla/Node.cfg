CONSTANTS
    Managers = {m1}
    MaxKeys = 5
    Absent = Absent
    Torn = Torn
    Ids = {p1, p2}
    Calls = {c1}
    ScoreMaximum = 2
    ScoreDefault = 1
    ScoreSuccessIncrement = 1
    ScoreFailureDecrement = 2
    ScoreTimeoutDecrement = 1
    Scores = {0, 3}
    Announced <- MCAnnounced
    Metrics = {0, 1}
    None = None
    Loops = {l1, l2}
    Watched = l1
    MaxTokens = 2
    RefillRate = 1
    Second = 2
    MaxTime = 3
    MessageIds = {i1}
    TTL = 1
    NoEntry = NoEntry
SPECIFICATION NodeSpec
SYMMETRY PeersAlike
INVARIANTS
    NoResurrection
    IdentityKept
    ScoreAsAnnounced
    TreeFresh
    BestAreSelected
    WindowBound
    OncePerConnection
PROPERTIES
    DropsOnlyHandled

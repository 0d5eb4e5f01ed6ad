CONSTANTS
    Callers = {c1, c2}
    Timers = {t1, t2}
    Closers = {e1}
    MaxChanges = 3
    None = None
    Keys = {k1, k2}
    Peers = {p1}
    Writers = {w1, w2}
    Checkers = {q1}
    NoArg = NoArg
SPECIFICATION FilesSpec
INVARIANTS
    NoLostChange
    TrueIsJustified
    SteadyRuleAdmits
    SequentialPersisted
PROPERTIES
    EventuallySaved

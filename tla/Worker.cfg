CONSTANTS
    Peers = {p1, p2}
    Scenarios <- MCScenarios
    Dirs = {d1}
    Files = {f1, f2}
    Absent = Absent
    Mixed = Mixed
    p1 = p1
    p2 = p2
    d1 = d1
    f1 = f1
    f2 = f2
    worker = worker
    stranger = stranger
SPECIFICATION Spec
\* The requests come to an end.
CHECK_DEADLOCK FALSE
INVARIANTS
    AckedIsInstalled
    OnlyVerifiedIsKept
    AnsweredOnce
PROPERTIES
    EveryRequestAnswered

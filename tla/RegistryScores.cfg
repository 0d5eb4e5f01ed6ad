CONSTANTS
    Ids = {p1, p2}
    Calls = {c1}
    ScoreMaximum = 2
    ScoreDefault = 1
    ScoreSuccessIncrement = 1
    ScoreFailureDecrement = 2
    ScoreTimeoutDecrement = 1
    Scores = {0, 3}
    Announced = {0, 3}
    Metrics = {0, 1}
    None = None
SPECIFICATION Spec
INVARIANT
    ScoreInRange

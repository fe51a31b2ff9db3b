SPECIFICATION Spec
CONSTANTS
    None = None
    Calls = {c1, c2}
    Stamps = {1, 3}
    ModelCutoff = 2
    K3Cutoff = 3
    TurnIds = {t1, t2}
    MaxLines = 4
    MaxUsages = 2
    Models = {m1, m2}
    Subscribed = FALSE
    LongContext = 3
    MaxWritten = 5
    MaxRequests = 2
    MaxWork = 3
    MaxMarks = 3
SYMMETRY Names
INVARIANTS
    LatencyFromOwnPrompt
    TraceOnePerTurn
    BilledOnce
    ChurnByTurn
CHECK_DEADLOCK FALSE

CONSTANTS
    Threads = {t1}
    t1 = t1
    Queries = {q1, q2}
    q1 = q1
    q2 = q2
    MaxCalls = 4
    MaxTokens = 1
    MaxUsd = 1
    InRate = 1
    OutRate = 1
SPECIFICATION Spec
INVARIANTS
    FailuresDegrade
CHECK_DEADLOCK FALSE

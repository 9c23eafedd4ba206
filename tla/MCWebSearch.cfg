CONSTANTS
    Threads = {t1, t2}
    t1 = t1
    t2 = t2
    Queries = {q1, q2}
    q1 = q1
    q2 = q2
    MaxCalls = 2
    MaxTokens = 1
    MaxUsd = 1
    InRate = 1
    OutRate = 1
SPECIFICATION Spec
INVARIANTS
    TypeOK
    AnsweredOncePerThread
    CachedIsCharged
    SearchOvershoot
CHECK_DEADLOCK FALSE

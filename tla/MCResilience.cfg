CONSTANTS
    Callers = {c1, c2, c3}
    c1 = c1
    c2 = c2
    c3 = c3
    Providers = {p1}
    p1 = p1
    Retries = 1
    Threshold = 2
    MaxCalls = 1
    MaxTokens = 4
    MaxUsd = 9
    InRate = 1
    OutRate = 2
    Estimates <- MixedEstimates
    Actuals <- MixedActuals
    MaxSent = 4
SPECIFICATION FairSpec
INVARIANTS
    TypeOK
    OvershootBound
    ExceededIsLatched
    BreakerStreak
    HammeringBounded
PROPERTIES
    DeadStaysDead
    EveryCallEnds
CHECK_DEADLOCK FALSE

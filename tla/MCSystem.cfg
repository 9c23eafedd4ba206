CONSTANTS
    Rounds = 1
    MaxRestarts = 1
    Retries = 1
    Threshold = 1
    MaxCalls = 3
    None = None
    Debates = 2
    MaxHangs = 1
SPECIFICATION Spec
INVARIANTS
    OvershootIsAbandoned
    UnpaidBounded
    AllPaid
PROPERTIES
    PlaysDebate
    SpentForGood

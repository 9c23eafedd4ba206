CONSTANTS
    Calls = 2
    MaxRestarts = 2
SPECIFICATION FairSpec
INVARIANTS
    TypeOK
    NoStaleResult
    GivesUpOnlyWhenSpent
    FatalIsLast
PROPERTY
    HangIsContained

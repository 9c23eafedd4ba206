CONSTANTS
    Rounds = 3
    MaxRestarts = 1
    None = None
SPECIFICATION Spec
INVARIANTS
    TypeOK
    Routed
    MutualResponse
    EqualVoice
    IntervenesOnConcession
PROPERTY
    KeepsPromise

CONSTANTS
    Topics = {cats, dogs}
    cats = cats
    dogs = dogs
    DefaultTopic = cats
    DefaultRounds = 1
    RoundInputs = {0, 2}
    Junk = Junk
    None = None
    MaxCalls = 9
    MaxRuns = 3
    MaxStrays = 2
SPECIFICATION Spec
INVARIANTS
    TypeOK
    ResultIsComplete
PROPERTY
    ExhaustedForGood

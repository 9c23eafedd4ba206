CONSTANTS
    Rounds = 2
    MaxRestarts = 1
    None = None
SPECIFICATION Spec
INVARIANT RestartedBeforeGivingUp

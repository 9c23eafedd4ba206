CONSTANTS
    Search = 2
    Request = 6
    Retries = 5
    Backoff = 1
    Threshold = 8
    Keepalive = 15
    MaxRestarts = 3
    Latency = 1
    Searches = {0, 1, 2, 4}
    Window = 6
    Turns = 2
    Longest = 30
SPECIFICATION Spec
INVARIANTS
    TypeOK
    RateWindowInTurn
    OutageWeathered

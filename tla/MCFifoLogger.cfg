CONSTANTS
    Threads = {t1, t2}
    t1 = t1
    t2 = t2
    MaxFiles = 2
    MaxLines = 2
    MaxEntries = 9
    MaxCrashes = 3
SPECIFICATION Spec
INVARIANTS
    TypeOK
    LinesBounded
    FilesBounded
    FilesCapped
    OldestDeletedFirst
CHECK_DEADLOCK FALSE

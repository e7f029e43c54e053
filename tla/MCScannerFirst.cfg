SPECIFICATION Spec
CONSTANTS
    Repos = {r1}
    Backfilled = {r1}
    Users = {u1}
    MaxTag = 2
    Concurrency = 1
    Window = 3
    MaxCopies = 1
    RedisFaults = FALSE
PROPERTIES
    FirstSightingMissesNobody
CHECK_DEADLOCK FALSE

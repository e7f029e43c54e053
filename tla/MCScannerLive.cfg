SPECIFICATION FairSpec
CONSTANTS
    Repos = {r1}
    Backfilled = {r1}
    Users = {u1}
    MaxTag = 3
    Concurrency = 1
    Window = 1
    MaxCopies = 1
    RedisFaults = TRUE
PROPERTIES
    ReleaseReachesSubscriber
CHECK_DEADLOCK FALSE

SPECIFICATION FairPipeline
CONSTANTS
    Repos = {r1}
    Backfilled = {r1}
    Users = {u1}
    MaxTag = 1
    Concurrency = 1
    Window = 1
    MaxCopies = 1
    RedisFaults = FALSE
    MaxDeliver = 2
PROPERTIES
    ImplementsNotifications
    ReleaseIsMailed
CHECK_DEADLOCK FALSE

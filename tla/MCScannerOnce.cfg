SPECIFICATION Spec
CONSTANTS
    Repos = {r1}
    Backfilled = {r1}
    Users = {u1, u2}
    MaxTag = 2
    Concurrency = 1
    Window = 3
    MaxCopies = 2
    RedisFaults = FALSE
INVARIANTS
    ExactlyOneEmail
CHECK_DEADLOCK FALSE

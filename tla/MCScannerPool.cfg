SPECIFICATION Spec
CONSTANTS
    Repos = {r1, r2, r3}
    Backfilled = {}
    Users = {u1}
    MaxTag = 1
    Concurrency = 2
    Window = 1
    MaxCopies = 1
    RedisFaults = FALSE
SYMMETRY Permutation
INVARIANTS
    TypeOK
    PoolBounded
    RateLimitStopsCalls
CHECK_DEADLOCK FALSE

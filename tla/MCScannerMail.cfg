SPECIFICATION Spec
CONSTANTS
    Repos = {r1}
    Backfilled = {r1}
    Users = {u1, u2}
    MaxTag = 2
    Concurrency = 2
    Window = 3
    MaxCopies = 1
    RedisFaults = TRUE
SYMMETRY Permutation
PROPERTIES
    CursorOnlyAfterMail
    CursorMovesForward
    NoCopyInsideWindow
    NoMailBehindCursor
CHECK_DEADLOCK FALSE

SPECIFICATION FairSpec
CONSTANTS
    Rows = {1, 2}
    Emails = {e1, e2}
    Repos = {r1}
    MaxTag = 2
    Rank <- AsStrings
    Intervals <- Minutes
INVARIANTS
    TypeOK
    WindowFollowsInterval
    ServesEverySubscriber
    DirtyHasCause
PROPERTIES
    BothStart
CHECK_DEADLOCK FALSE

SPECIFICATION FairSpec
CONSTANTS
    good = good
    bad = bad
    Msgs = {good, bad}
    Malformed = {bad}
    MaxDeliver = 3
INVARIANTS
    TypeOK
    SettledMeansHandled
    ParkedOnlyWhenDue
PROPERTIES
    HealthyMeansMailed
    LastChanceKept
CHECK_DEADLOCK FALSE

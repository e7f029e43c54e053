SPECIFICATION Spec
CONSTANTS
    good = good
    bad = bad
    Msgs = {good}
    Malformed = {}
    MaxDeliver = 2
PROPERTIES
    FailedParkIsRetried
CHECK_DEADLOCK FALSE

SPECIFICATION Spec
CONSTANTS
    s1 = s1
    s2 = s2
    s3 = s3
    p1 = p1
    p2 = p2
    Subs = {s1, s2}
    Pairs = {p1, p2}
    PairOf <- OnePair
    Clicks = {c1}
    Faults = FALSE
INVARIANTS
    DuplicateIsConflict
CHECK_DEADLOCK FALSE

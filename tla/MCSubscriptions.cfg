SPECIFICATION Spec
CONSTANTS
    s1 = s1
    s2 = s2
    s3 = s3
    p1 = p1
    p2 = p2
    Subs = {s1, s2, s3}
    Pairs = {p1, p2}
    PairOf <- TwoPairs
    Clicks = {c1, c2, c3}
    Faults = TRUE
SYMMETRY Permutation
INVARIANTS
    TypeOK
    PendingHasToken
    AnswersAreFinal
PROPERTIES
    ImplementsLifecycle
CHECK_DEADLOCK FALSE

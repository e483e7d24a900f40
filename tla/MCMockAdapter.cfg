SPECIFICATION Spec
CONSTANTS
    c1 = c1
    c2 = c2
    c3 = c3
    none = none
    bad = bad
    Call = {c1, c2, c3}
    Seed = {"s1", "s2"}
    Scale = 2
    Rate = {0, 1, 2}
    Draw <- TwoStreams
    None = none
    Bad = bad
    FirstSeed = "s1"
SYMMETRY Symmetry
INVARIANTS
    TypeOK
    FailureSequence
    RateLimitsAreExact
CHECK_DEADLOCK FALSE

SPECIFICATION Spec
CONSTANTS
    a1 = a1
    r1 = r1
    p1 = p1
    p2 = p2
    Attempt = {a1}
    Reader = {r1}
    Provider = {p1, p2}
    Field = {"ok"}
    KnownField = {"ok"}
    BucketSeconds = 2
    WindowSeconds = 4
    SampleCap = 2
    BoxTicks = 1
    MaxSends = 2
    Epoch = 9
    ClockSteps <- BothSteps
    MaxSteps = 1
    MaxElapsed = 8
    MaxWall = 20
SYMMETRY Symmetry
INVARIANTS
    WindowEdges
    ReadIsExact
CHECK_DEADLOCK FALSE

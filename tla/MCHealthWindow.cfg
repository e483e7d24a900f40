SPECIFICATION Spec
CONSTANTS
    a1 = a1
    a2 = a2
    r1 = r1
    p1 = p1
    Attempt = {a1, a2}
    Reader = {r1}
    Provider = {p1}
    Field = {"ok", "err_new"}
    KnownField = {"ok"}
    BucketSeconds = 1
    WindowSeconds = 2
    SampleCap = 1
    BoxTicks = 1
    MaxSends = 1
    Epoch = 2
    ClockSteps <- NoSteps
    MaxSteps = 0
    MaxElapsed = 6
    MaxWall = 8
SYMMETRY Symmetry
INVARIANTS
    TypeOK
    EveryKeyExpires
    SamplesMatchCounts
    ReadIsExact
    SamplesCoverCounts
PROPERTY
    ImplementsLedger
CHECK_DEADLOCK FALSE

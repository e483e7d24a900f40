SPECIFICATION Spec
CONSTANTS
    malformed = malformed
    none = none
    b1 = b1
    b2 = b2
    Malformed = malformed
    None = none
    Bucket = {b1, b2}
    Adapter = {"cohere", "bedrock"}
    Milliseconds = {1, 2}
    SampleCap = 2
    MaxAttempts = 2
    MaxForeign = 2
SYMMETRY Symmetry
INVARIANTS
    TypeOK
    EvidenceIsTrue
    BreakerAndClientAgree
    PercentilesAreNearestRank
CHECK_DEADLOCK FALSE

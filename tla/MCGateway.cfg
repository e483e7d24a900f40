SPECIFICATION Spec
CONSTANTS
    q1 = q1
    q2 = q2
    t1 = t1
    t2 = t2
    other = other
    Request = {q1, q2}
    Provider = {"cohere", "mock"}
    Class = {"interactive", "chaos"}
    Preference <- TwoClasses
    Deadline = {"cohere"}
    Mock = {"mock"}
    ErrorClass = {"timeout", "server_error"}
    Tenant = {t1, t2}
    LabelCap = 1
    Other = other
    MaxSends = 1
INVARIANTS
    TypeOK
    AnsweredMeansSettled
    CountersAgree
    DropsExplainLosses
    TenantSeriesWhole
PROPERTY
    CallsAreAnswered
CHECK_DEADLOCK FALSE

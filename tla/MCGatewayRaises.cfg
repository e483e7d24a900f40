SPECIFICATION Spec
CONSTANTS
    q1 = q1
    q2 = q2
    t1 = t1
    other = other
    Request = {q1, q2}
    Provider = {"mock"}
    Class = {"chaos"}
    Preference <- OneClass
    Deadline = {}
    Mock = {"mock"}
    ErrorClass = {"timeout"}
    Tenant = {t1}
    LabelCap = 1
    Other = other
    MaxSends = 1
INVARIANT
    ExecutorNeverRaises
CHECK_DEADLOCK FALSE

SPECIFICATION Spec
CONSTANTS
    absent = absent
    blank = blank
    wrong = wrong
    Field = {"tenant", "request_id", "request_class", "idempotency_key"}
    Required = {"tenant", "request_id", "request_class"}
    TextOf <- Texts
    Class = {"chat", "jobs"}
    Deferrable = {"jobs"}
    Absent = absent
    Blank = blank
    Wrong = wrong
INVARIANTS
    TypeOK
    OneRoundTripFixes
    AcceptedIsSound
    RejectionEchoesId
CHECK_DEADLOCK FALSE

\* Two requests, a deadline shorter than the import of litellm, one clock step.
SPECIFICATION Spec
CONSTANTS
    None = None
    q1 = q1
    q2 = q2
    Request = {q1, q2}
    Timeout = 2
    ErrorClass = {"timeout", "server_error"}
    ImportTicks = 3
    ClockSteps <- MCSteps
    MaxTime = 6
INVARIANTS
    TypeOK
    OverheadIsOurs
    OutcomeIsTrue
CHECK_DEADLOCK FALSE

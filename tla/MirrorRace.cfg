SPECIFICATION Spec
CONSTANTS
    hourly = hourly
    nightly = nightly
    alias = alias
    None = None
    MaxRunners = 1
    Cron <- Plain
    Schedulable <- Plain
    Request = {q1, q2}
    CanCascade = FALSE
INVARIANTS
    ScheduleMirrors
CHECK_DEADLOCK FALSE

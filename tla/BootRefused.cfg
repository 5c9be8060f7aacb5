SPECIFICATION Spec
CONSTANTS
    hourly = hourly
    nightly = nightly
    alias = alias
    None = None
    MaxRunners = 1
    Cron <- All
    Schedulable <- Plain
    Request = {q1}
    CanCascade = FALSE
INVARIANTS
    BootSucceeds
CHECK_DEADLOCK FALSE

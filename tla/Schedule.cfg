SPECIFICATION FairSpec
CONSTANTS
    hourly = hourly
    nightly = nightly
    alias = alias
    None = None
    MaxRunners = 2
    Cron <- All
    Schedulable <- Plain
    Request = {q1}
    CanCascade = TRUE
INVARIANTS
    TypeOK
    JobsAreCurrent
PROPERTIES
    StaleJobsHeal
CHECK_DEADLOCK FALSE

SPECIFICATION FairSpec
CONSTANTS
    skipper = skipper
    queuer = queuer
    killer = killer
    None = None
    Runner <- KillRunners
    Policy <- KillPolicy
    MaxExec = 2
    MaxJobs = 1
    MaxCalls = 2
    MaxFaults = 1
    MaxRestarts = 1
    CanStop = TRUE
    CanDelete = TRUE
INVARIANTS
    PermitConservation
PROPERTIES
    WorkersEnd
    ConsumerSurvives
CHECK_DEADLOCK FALSE

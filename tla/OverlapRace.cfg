SPECIFICATION Spec
CONSTANTS
    skipper = skipper
    queuer = queuer
    killer = killer
    None = None
    Runner <- SkipRunners
    Policy <- SkipPolicy
    MaxExec = 2
    MaxJobs = 1
    MaxCalls = 2
    MaxFaults = 0
    MaxRestarts = 0
    CanStop = FALSE
    CanDelete = FALSE
INVARIANTS
    SkipExclusive
CHECK_DEADLOCK FALSE

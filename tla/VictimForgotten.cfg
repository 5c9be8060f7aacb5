SPECIFICATION Spec
CONSTANTS
    skipper = skipper
    queuer = queuer
    killer = killer
    None = None
    Runner <- KillRunners
    Policy <- KillPolicy
    MaxExec = 2
    MaxJobs = 1
    MaxCalls = 1
    MaxFaults = 0
    MaxRestarts = 0
    CanStop = FALSE
    CanDelete = FALSE
INVARIANTS
    RunningIsOwned
CHECK_DEADLOCK FALSE

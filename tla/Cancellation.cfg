SPECIFICATION Spec
CONSTANTS
    skipper = skipper
    queuer = queuer
    killer = killer
    None = None
    Runner <- KillRunners
    Policy <- KillPolicy
    MaxExec = 3
    MaxJobs = 1
    MaxCalls = 2
    MaxFaults = 0
    MaxRestarts = 0
    CanStop = TRUE
    CanDelete = FALSE
INVARIANTS
    PermitConservation
    NoLostWakeup
    DispatchedOnce
    QueuedIsOwned
    StopQuiesces
CHECK_DEADLOCK FALSE

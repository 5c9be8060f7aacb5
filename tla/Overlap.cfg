SPECIFICATION FairSpec
CONSTANTS
    skipper = skipper
    queuer = queuer
    killer = killer
    None = None
    Runner <- PoliteRunners
    Policy <- PolitePolicy
    MaxExec = 3
    MaxJobs = 1
    MaxCalls = 1
    MaxFaults = 0
    MaxRestarts = 0
    CanStop = FALSE
    CanDelete = FALSE
INVARIANTS
    TypeOK
    RunningIsOwned
    SkipExclusive
    FailedIsNotified
PROPERTIES
    TerminalIsFinal
    EventuallyTerminal
    ImplementsLifecycle
CHECK_DEADLOCK FALSE

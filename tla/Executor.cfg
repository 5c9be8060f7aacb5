SPECIFICATION FairSpec
CONSTANTS
    m1 = m1
    m2 = m2
    None = None
    MaxRuns = 2
    Manifest = {m1, m2}
    MaxFaults = 1
    MaxCancels = 1
    OneAtATime = TRUE
INVARIANTS
    TypeOK
    NothingLeftRunning
    InstallerRemoved
    MarkerHonest
    SuccessIsReal
    WorkspaceRemoved
PROPERTIES
    RunEnds
CHECK_DEADLOCK FALSE

SPECIFICATION ServicesSpec
CONSTANTS
    Subjects = {"access", "tail", "logs", "masker", "limiter", "env", "cron", "report",
                "catalog"}
    None = None
    MaxUsers = 2
    MaxKeys = 2
    MaxSecrets = 5
    Request = {q1, q2}
    MaxBytes = 3
    Joined = {2}
    MaxPolls = 4
    MaxFlight = 2
    MaxRows = 2
    MaxMishaps = 2
    Letter = {a, b}
    Wide = {b}
    Garbled = Garbled
    SecretSets <- SmallSecretSets
    Mask = Mask
    MinLength = 2
    MaxText = 5
    Caller = {c1, c2}
    MaxAttempts = 2
    Window = 3
    Second = 2
    Horizon = 6
    Runner = {r1}
    Key = {A}
    Value = {v1, v2}
    OwnKeys = {e1}
    MaxVars = 2
    FileKeys = {k1, k2}
    Date = {1, 2}
    All = All
    MaxPosts = 2
    Name = {n1, n2}
    Text = {t1}
    MaxItems = 2
    MaxEdits = 4
INVARIANTS
    PartsTypeOK
    NoOrphans
    StaleSessionsRaced
    BootstrapConfined
    TextFaithful
    NoOrphanLog
    MaskingSound
    QuotaKept
    SecretsResolve
    DaysAgree
    ReportTruthful
PROPERTIES
    RevivedByResolve
    RetentionSparesLive
    OldRowsGo
    CatalogFaithful
CHECK_DEADLOCK FALSE

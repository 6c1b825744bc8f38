SPECIFICATION FairSpec
CONSTANTS
    None = None
    MaxJobs = 2
    AgeCap = 2
    ApprovalTimeout = 1
    CleanupAfter = 1
    RetryInterval = 1
    EscalationWindow = 1
    RateWindow = 1
    Ceiling = 1
    Modes = {"approval", "auto"}
    FireDelays = {0}
    FirstAttest = TRUE
    Faults = {}
    MaxCrashes = 0
INVARIANTS
    OnePostEach
    CeilingOnFile
    RetryLinked
PROPERTIES
    NoLostUpdate
    EveryBriefSettles

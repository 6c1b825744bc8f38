SPECIFICATION Spec
CONSTANTS
    None = None
    MaxJobs = 1
    AgeCap = 3
    ApprovalTimeout = 1
    CleanupAfter = 2
    RetryInterval = 1
    EscalationWindow = 2
    RateWindow = 1
    Ceiling = 1
    Modes = {"approval", "auto"}
    FireDelays = {0, 1}
    FirstAttest = TRUE
    Faults = {"mkdir", "rmtree", "raise", "lost-ack"}
    MaxCrashes = 2
INVARIANTS
    TypeOK
    PostedOnlyOnceDecided
    PublishedMeansPosted
    PostLeavesMarker
    ArticleKept
    NothingLost
PROPERTIES
    NoBlindPublish
    KeepsPromise

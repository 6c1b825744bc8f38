SPECIFICATION Spec
CONSTANTS
    None = None
    Ticket = {t1, t2}
    MaxConcurrent = 1
    MaxAttempts = 2
    Window = 1
    Policy = "auto-with-veto"
    Faults = {"kaneo", "raise", "lost-ack", "disk"}
    MaxTasks = 2
    MaxMoves = 1
    MaxCrashes = 1
INVARIANTS
    TypeOK
    OneTaskPerTicket
    AttemptsBounded
PROPERTIES
    SettledNotRerun
    MergedAfterWindow
    KeepsMergePromise
    KeepsRunPromise

SPECIFICATION FairSpec
CONSTANTS
    None = None
    Ticket = {t1, t2}
    MaxConcurrent = 1
    MaxAttempts = 2
    Window = 0
    Policy = "full-auto"
    Faults = {}
    MaxTasks = 2
    MaxMoves = 1
    MaxCrashes = 1
PROPERTIES
    EveryTicketServed

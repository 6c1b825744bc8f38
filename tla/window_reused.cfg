SPECIFICATION Spec
CONSTANTS
    None = None
    Ticket = {t1}
    MaxConcurrent = 1
    MaxAttempts = 1
    Window = 1
    Policy = "auto-with-veto"
    Faults = {}
    MaxTasks = 1
    MaxMoves = 3
    MaxCrashes = 0
PROPERTIES
    WindowEachRound

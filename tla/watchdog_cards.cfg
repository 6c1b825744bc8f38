SPECIFICATION Spec
CONSTANTS
    Nil = Nil
    Run = {timer}
    Timer = timer
    Ttl = 2
    BatchOver = 1
    Faults = {"crash", "read", "search", "lost-ack"}
    Configs <- SomeConfigs
    MaxFaults = 1
    MaxChanges = 1
    MaxByHand = 0
    MaxCommands = 3
INVARIANTS
    TypeOK
PROPERTIES
    OneCardPerAlert

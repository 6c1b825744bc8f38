SPECIFICATION FairSpec
CONSTANTS
    Nil = Nil
    Run = {timer, manual}
    Timer = timer
    Ttl = 2
    BatchOver = 1
    Faults = {"cancel", "slow", "telegram", "crash", "read"}
    Configs <- SomeConfigs
    MaxFaults = 1
    MaxChanges = 1
    MaxByHand = 1
    MaxCommands = 0
INVARIANTS
    PostedIsRecorded
PROPERTIES
    RepeatedOnlyUnseen
    OutageReported

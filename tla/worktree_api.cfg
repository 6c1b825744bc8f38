SPECIFICATION Spec
CONSTANTS
    Nil = Nil
    Task = {t1, t2, t3}
    Request = {r1, r2}
    Capacity = 2
    Faults = {"vault", "disk", "read", "git", "crash"}
INVARIANTS
    TypeOK
    CapacityKept
    OnePostPerTask
PROPERTIES
    KeepsRegistry
    NoStraySecret
    NothingUnregistered
CONSTRAINT FewDrafts
SYMMETRY Symmetry

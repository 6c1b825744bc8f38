SPECIFICATION Spec
CONSTANTS
    Nil = Nil
    Task = {t1}
    Request = {r1}
    Capacity = 1
    Faults = {}
INVARIANTS
    PostSucceeds

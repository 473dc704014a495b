CONSTANTS
    Tasks = {t1}
    Callers = {c1}
    RunSlots = {k1}
    MaxVersion = 2
    Faults = {}
SPECIFICATION Spec
INVARIANTS
    DeletedStaysDeleted
CHECK_DEADLOCK FALSE

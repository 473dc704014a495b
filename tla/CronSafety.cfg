CONSTANTS
    Tasks = {t1}
    Callers = {c1, c2}
    RunSlots = {k1, k2}
    MaxVersion = 3
    Faults = {"save", "restart"}
SYMMETRY Symmetry
SPECIFICATION Spec
INVARIANTS
    OneEntryPerTask
    RestingTasksAgree

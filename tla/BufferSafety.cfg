CONSTANTS
    Prompts = {p1, p2}
    Sessions = {s1, s2}
    Workers = {w1, w2}
    MaxBuffer = 2
    TriggerEvery = 2
    MaxRenewals = 1
    None = None
SPECIFICATION ScopedSpec
INVARIANTS
    LossesAreExplained
    MaintenanceIsTimely
PROPERTIES
    MaintenanceEnds

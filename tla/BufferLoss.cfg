CONSTANTS
    Prompts = {p1}
    Sessions = {s1, s2}
    Workers = {w1, w2}
    MaxBuffer = 2
    TriggerEvery = 2
    MaxRenewals = 1
    None = None
SPECIFICATION Spec
INVARIANTS
    ClearedMeansSummarised

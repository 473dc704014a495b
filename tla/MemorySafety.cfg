CONSTANTS
    t1 = t1
    r1 = r1
    r2 = r2
    w1 = w1
    k1 = k1
    k2 = k2
    Doc <- Docs
    Topic = {t1}
    Retrievals = {r1, r2}
    Writers = {w1}
    Compactions = {k1, k2}
    Seeds <- SmallSeeds
    DedupAbove = 1
    ConsolidateAbove = 1
    BatchSize = 2
    TopK = 2
    MaxPromoted = 1
    MaxCrashes = 1
    None = None
SPECIFICATION Spec
INVARIANTS
    ExposedOnlyIfRestored
    DuplicatesWereRaced
    OnlyResultsAreMisfiled
    NoMarkIsLeft
PROPERTIES
    KnowledgeKept
    RetrievedIsSpared
CHECK_DEADLOCK FALSE

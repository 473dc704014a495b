CONSTANTS
    PoolRuns = {p1}
    ToolRuns = {t1}
    MaxSteps = 2
    MaxSubtasks = 1
    Faults = {"save", "crash"}
SPECIFICATION FairSpec
PROPERTIES
    ImplementsLifecycle
    AcceptedRunSettles

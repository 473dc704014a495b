CONSTANTS
    PoolRuns = {p1, p2}
    ToolRuns = {t1, t2}
    MaxSteps = 2
    MaxSubtasks = 2
    Faults = {"save", "log", "crash"}
SYMMETRY Symmetry
SPECIFICATION PartsSpec
INVARIANTS
    CancelMapExact
    CanceledOnlyIfAsked
    FactHasDoneRecord
    DoneHasTranscript
    OutcomeHasTranscript
    JoinedSwarmIsComplete

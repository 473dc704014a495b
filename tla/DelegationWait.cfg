CONSTANTS
    Runs = {r1}
    MaxSteps = 2
    MaxSubtasks = 1
    Faults = {}
SPECIFICATION FairSpec
PROPERTIES
    OutcomeReleasesWaiter
CHECK_DEADLOCK FALSE

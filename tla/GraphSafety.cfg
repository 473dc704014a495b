CONSTANTS
    Session = {s1, s2}
    Analyses <- SomeAnalyses
    Cap = 2
    MinExtra = 1
    Share = 10
    MaxDepth = 3
    MaxNodes = 5
    MaxCrashes = 1
    None = None
SPECIFICATION Spec
INVARIANTS
    SessionsAreCapped
    QuietStoreMatches
    TailIsNewest
    EdgesHaveEnds
    PathFollowsBonds
CHECK_DEADLOCK FALSE

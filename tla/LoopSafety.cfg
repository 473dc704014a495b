CONSTANTS
    Prompts = {p1, p2}
    Calls = {manager, other}
    Intercepted = {manager}
    MaxCalls = 2
    MaxSteps = 2
    MaxAttempts = 2
    MaxBuffer = 3
SPECIFICATION Spec
SYMMETRY Symmetry
INVARIANTS
    CallsAreAnswered
    QuestionIsPresent
    BufferHoldsTheEnd
    OpenCallsHaveAReason

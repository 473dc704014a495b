CONSTANTS
    MaxEvents = 3
    VerboseCap = 1
    OutCap = 2
    ProxyCap = 4
SPECIFICATION FairSpec
INVARIANTS
    ReceivedInOrder
    NoSendAfterClose
    ServedMeansResult
PROPERTIES
    StreamEnds
    AnswerIsCounted
CHECK_DEADLOCK FALSE

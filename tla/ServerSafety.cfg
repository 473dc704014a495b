CONSTANTS
    bob = bob
    Configs <- MCConfigs
    Sender <- MCSender
    Updates = {u1, u2}
    MaxClients = 4
    Truncated = Truncated
    None = None
    Conn = {c1, c2, c3}
    Reports = {r1, r2}
    MaxPrompts = 1
    Pid = {p1, p2, p3}
    Absent = Absent
    Empty = Empty
    Garbled = Garbled
    Requests = {q1, q2}
    Calls = {a1, a2, a3}
    Lists = {l1}
    Missing = Missing
    Torn = Torn
    Pending = Pending
CONSTRAINT Bounds
SPECIFICATION PartsSpec
INVARIANTS
    ChannelsMatchConfig
    StrangersComeByOldClients
    ReportsReachAll
    CrashNeedsARace
    FileNamesTheServer
    AcceptedAnswerStands
CHECK_DEADLOCK FALSE

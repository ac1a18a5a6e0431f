SPECIFICATION ClientSpec
CONSTANTS
    Node = {"a", "b"}
    Host = {"a"}
    Round = {"k1"}
    kAutoPruneFailures = 2
    MAX_SEQUENCE_GAP = 1
    MAX_MSG_HISTORY = 3
    MAX_SEEN = 10
    RATE_MAX = 2
    RATE_WINDOW = 1
    VIEW_CHANGE_TIMEOUT = 0
    ROUND_TTL = 1
    Message <- MCRestarted
    MaxNodes = 2
    MaxView = 1
    Threads = 2
    Churn = {}
    LivenessRound = {"k1"}
    MaxFailed = 2
INVARIANT EquivocationRecorded
PROPERTY NoRecount

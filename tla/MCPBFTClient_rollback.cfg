SPECIFICATION UntimedSpec
CONSTANTS
    Node = {"a", "b", "c", "d"}
    Host = {"a"}
    Round = {"k1"}
    kAutoPruneFailures = 100
    MAX_SEQUENCE_GAP = 100
    MAX_MSG_HISTORY = 10
    MAX_SEEN = 100
    RATE_MAX = 3
    RATE_WINDOW = 1
    VIEW_CHANGE_TIMEOUT = 0
    ROUND_TTL = 1
    Message <- MCFourPeers
    Churn = {}
    LivenessRound = {}
    MaxNodes = 4
    MaxView = 0
    Threads = 1
    MaxFailed = 0
INVARIANT RollbackKeepsProgress

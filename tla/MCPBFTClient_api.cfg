SPECIFICATION ApiSpec
CONSTANTS
    Node = {"a", "b"}
    Host = {"a"}
    Round = {"k1"}
    kAutoPruneFailures = 2
    MAX_SEQUENCE_GAP = 1
    MAX_MSG_HISTORY = 3
    MAX_SEEN = 2
    RATE_MAX = 2
    RATE_WINDOW = 1
    VIEW_CHANGE_TIMEOUT = 0
    ROUND_TTL = 1
    Message <- MCOneVoter
    MaxNodes = 2
    MaxView = 0
    Threads = 1
    Churn = {"a", "b"}
    LivenessRound = {}
    MaxFailed = 2
INVARIANTS ClientTypeOK VotesHaveKeys VotesHaveRounds
PROPERTIES RoundsMoveForward BannedGainNoVote

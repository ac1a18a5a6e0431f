SPECIFICATION MeshSpec
CONSTANTS
    Node = {"a", "b"}
    Host = {"a", "b"}
    Round = {"k1", "bana"}
    kAutoPruneFailures = 1
    MAX_SEQUENCE_GAP = 100
    MAX_MSG_HISTORY = 10
    MAX_SEEN = 20
    RATE_MAX = 5
    RATE_WINDOW = 10
    VIEW_CHANGE_TIMEOUT = 1
    ROUND_TTL = 1
    Proposal <- MCOneProposal
    Target <- MCTarget
    BanOf <- MCBan
    Callers = {"ipc"}
    InOrder = FALSE
    MaxSeq = 6
INVARIANTS MeshTypeOK VotesWereCast ExecutesOnce BansHaveCause
CHECK_DEADLOCK FALSE

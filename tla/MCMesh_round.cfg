SPECIFICATION MeshSpec
CONSTANTS
    Node = {"a", "b", "c", "d"}
    Host = {"a", "b", "c"}
    Round = {"k1"}
    kAutoPruneFailures = 100
    MAX_SEQUENCE_GAP = 100
    MAX_MSG_HISTORY = 10
    MAX_SEEN = 20
    RATE_MAX = 5
    RATE_WINDOW = 10
    VIEW_CHANGE_TIMEOUT = 1
    ROUND_TTL = 1
    Proposal <- MCOneProposal
    Target <- MCTarget
    BanOf <- MCNoBan
    Callers = {"ipc"}
    InOrder = FALSE
    MaxSeq = 3
PROPERTIES ImplementsVoting
CHECK_DEADLOCK FALSE

SPECIFICATION MCSpec
CONSTANTS
    Peer = {"p", "q", "r"}
    Key = {"k1", "k2"}
    Cert = {"c1", "c2"}
    Fd = {3, 4}
    MAX_ACTIVE = 2
    provisioned <- MCProvisioned
    Traffic <- MCTraffic
    MaxNodes = 4
    MaxQueue = 1
    Target = {"alpha", "10.0.0.10"}
    Upper <- MCUpper
    Addr = {"10.0.0.1", "10.0.0.10", "127.0.0.1"}
    Loopback = {"127.0.0.1"}
    TextPrefix <- MCTextPrefix
    MaxRules = 2
    Caller = {"listener", "ipc"}
    Evidence <- MCEvidence
    Scene <- MCScene
    Pid = {1, 2, 5}
    SelfPid = 2
    PidWidth = 8
    MaxResponses = 2
    Writer = {w1, w2}
    MAX_LINES = 1
    MaxSeq = 3
    MaxBoots = 2
    Data = {d1, d2}
    MAX_CHAIN = 5
    MaxLinks = 6
    MaxKeys = 4
INVARIANTS
    RegisteredKeysAgree MembersListed CountIsExact
      
    IsolatedIsDropped  
    RotationKeepsRecords NumbersAreUnique
    ExportedProofVerifies
    IdentityIsStable TlsPairMatches
CHECK_DEADLOCK FALSE

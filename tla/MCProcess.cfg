SPECIFICATION MCSpec
CONSTANTS
    Pusher = {"heartbeat", "listener"}
    Line = {"long", "peer"}
    Size <- MCSize
    Report <- MCReport
    OwnId = "self"
    known_peers = {"p"}
    PIPE_CAP = 2
    BUFFER_CAP = 2
    Score = {0, 300}
    QUEUE_MAX = 2
    WINDOW = 2
    PERIOD = 5
    ECHO = 3
    MaxTasks = 1
INVARIANTS
    LinesArriveWhole  ShutdownLeavesNoChild
    SelfRoundHasCause
      
PROPERTIES
    AcceptedIsPublished EofEndsChild
    
    
CHECK_DEADLOCK FALSE

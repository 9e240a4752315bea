SPECIFICATION Spec
CONSTANTS
    Peers = {"A"}
    Workers = {"w1", "w2"}
    MaxSeq = 1
    MsgnoSpace = 2
    RetryDelays <- MCRetryDelays
    TxWait = 1
    PeerNos = {}
    Texts = {}
    DupeWindow = 2
    DupeWindowUnnumbered = 1
    AckHoldoff = 1
    MaxRestarts = 0
    Horizon = 3
    None = None
PROPERTY ScheduleKept

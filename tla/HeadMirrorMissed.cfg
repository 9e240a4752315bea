SPECIFICATION HeadSpec
CONSTANTS
    HeadPeers = {"p"}
    MaxRows = 2
    QueueSize = 6
    History = 2
INVARIANT NothingMissed
CHECK_DEADLOCK FALSE

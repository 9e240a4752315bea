SPECIFICATION AllSpec
CONSTANTS
    Nodes = {"n1"}
    DiscoverWindow = 2
    EchoWindow = 1
    Interval = 1
    AdvertEvery = 1
    RxKeep = 1
    Threads = {1, 2}
    MaxSessions = 2
    MaxPings = 2
    MaxObs = 2
    MaxAge = 1
    Places = {"p1", "p2"}
    NoPlace = "nowhere"
    SyncRetry = 1
    ContactsRefresh = 2
    PositionMaxAge = 2
    MaxConns = 2
INVARIANT CountersMatchTables
INVARIANT StrayPingsGoForward
INVARIANT OneOpenSession
PROPERTY Settles
PROPERTY WindowsClose
CHECK_DEADLOCK FALSE

SPECIFICATION SyncSpec
CONSTANTS
    Places = {p1, p2}
    NoPlace = NoPlace
    SyncRetry = 1
    ContactsRefresh = 2
    PositionMaxAge = 2
    MaxConns = 3
INVARIANT SyncedIsComplete

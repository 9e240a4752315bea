SPECIFICATION AllSpec
CONSTANTS
    Senders = {"post"}
    Loop = "loop"
    MaxDm = 2
    DmTries = 2
    MinAckWait = 2
    TxWait = 2
    Suggested = {0}
    SendLag = 1
    TickLag = 1
    MaxRestarts = 1
    None = None
INVARIANT TypeOK
INVARIANT FailedAfterTries
INVARIANT OneLateTry
INVARIANT RetryWaits
PROPERTY CodesKept
PROPERTY EventuallySettled
PROPERTY EventuallyResolved

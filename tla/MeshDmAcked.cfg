SPECIFICATION Spec
CONSTANTS
    Senders = {"post"}
    Loop = "loop"
    MaxDm = 2
    DmTries = 2
    MinAckWait = 2
    TxWait = 2
    Suggested = {1}
    SendLag = 1
    TickLag = 1
    MaxRestarts = 0
    None = None
PROPERTY AckedStays

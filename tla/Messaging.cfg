SPECIFICATION AllSpec
CONSTANTS
    A = A
    B = B
    w1 = w1
    w2 = w2
    Peers = {A, B}
    Workers = {w1, w2}
    MaxSeq = 2
    MsgnoSpace = 3
    RetryDelays <- MCRetryDelays
    TxWait = 1
    PeerNos = {"7"}
    Texts = {"x"}
    DupeWindow = 7
    DupeWindowUnnumbered = 2
    AckHoldoff = 2
    MaxRestarts = 1
    Horizon = 3
    None = None
    Numbered = {A}
    PeerRetry = 3
    PeerLife = 6
    CopySpread = 1
    UnnumberedGap = 4
    PeerTries = 3
SYMMETRY WorkerSymmetry
INVARIANT XTypeOK
INVARIANT TriesCounted
INVARIANT IInv
INVARIANT OneAckPerTransmission
INVARIANT HeardIsStoredOnce
INVARIANT HeardIsAcked
PROPERTY TickSpaced
PROPERTY Lifecycle

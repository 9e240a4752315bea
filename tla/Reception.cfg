SPECIFICATION AllSpec
CONSTANTS
    Packets <- MCPackets
    OnAir <- MCOnAir
    Stations = {"a", "b", "x"}
    Nobody = "nobody"
    GateDupe = 2
    Local = 1
    Sticky = 2
    Limits <- MCLimits
    MaxSent = 3
    Bytes = {0, 1, 192, 219, 220, 221}
    MaxChunk = 2
    Payloads <- MCPayloads
    MaxWire = 5
    RadioPackets = {"p", "q"}
    MaxUnread = 8
    HeadPeers = {"p"}
    MaxRows = 2
    QueueSize = 1
    History = 2
    Peers = {"p", "q"}
    MaxId = 3
    Contacts = {}
    Channels = {}
    MaxMeshId = 0
    Times = {1, 2}
    WindowS = 0
INVARIANT TypeOK
INVARIANT GatedOnce
INVARIANT RateKept
INVARIANT NoEcho
INVARIANT FramesAsWritten
INVARIANT PacketsWhole
INVARIANT RefreshRepairs
INVARIANT ViewInStep
INVARIANT CardsShowMessages

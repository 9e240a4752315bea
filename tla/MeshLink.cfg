SPECIFICATION FairSpec
CONSTANTS
    usb0 = usb0
    usb1 = usb1
    Devices <- MCDevices
    MaxTasks = 4
    MaxPuts = 3
    NoTask = NoTask
INVARIANT TypeOK
INVARIANT OneRunner
INVARIANT ConnectedIsUsable
PROPERTY FollowsSettings
PROPERTY OffMeansOff

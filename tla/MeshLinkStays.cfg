SPECIFICATION Spec
CONSTANTS
    usb0 = usb0
    usb1 = usb1
    Devices <- MCDevices
    MaxTasks = 4
    MaxPuts = 3
    NoTask = NoTask
INVARIANT StaysConnected

SPECIFICATION AllSpec
CONSTANTS
    Configs <- MCConfigs
    NoModem = 0
    Requests = {"put1", "put2"}
    Boot = "boot"
    MaxJobs = 2
    Tcp = {"kiss", "gpsd"}
    Kiss = "kiss"
    Ftm = "ftm200"
    Places = {"a", "b"}
    Motions <- MCMotions
    NoCourse <- MCNoCourse
    MaxSpeed = 10
    Stale = 1
    Retry = 2
    Startup = 1
    BeaconConfigs <- MCBeaconConfigs
INVARIANT OneBackend
INVARIANT LinksFollowSettings
INVARIANT DirewolfAsSet
PROPERTY FtmReadsWhereSet
PROPERTY BeaconsSpaced
PROPERTY BeaconsGoOn

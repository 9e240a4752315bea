SPECIFICATION ClientsSpec
CONSTANTS
    Tcp = {"kiss", "gpsd"}
    Kiss = "kiss"
    Ftm = "ftm200"
    Places = {"a", "b"}
INVARIANT ConnectedWhereSet

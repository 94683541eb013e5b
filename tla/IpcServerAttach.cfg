\* A client that only reads, as dbwatch attach does.
SPECIFICATION Spec
CONSTANTS
    Capacity = 1
    SubChanCap = 1
    SockCap = 1
    Conns = {c1}
    MaxPush = 2
    MaxAsk = 0
    MaxTick = 2
PROPERTIES OnlyDeadClientsAreCutOff
CHECK_DEADLOCK FALSE

\* Buffers of one: every send may block.
SPECIFICATION FairSpec
CONSTANTS
    Capacity = 1
    SubChanCap = 1
    SockCap = 1
    Conns = {c1}
    MaxPush = 2
    MaxAsk = 1
    MaxTick = 1
PROPERTIES AcceptedIsRead ConnectionsEnd
CHECK_DEADLOCK FALSE

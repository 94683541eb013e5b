\* A client that connects while events are pushed; no buffer is ever full.
SPECIFICATION Spec
CONSTANTS
    Capacity = 3
    SubChanCap = 3
    SockCap = 6
    Conns = {c1}
    MaxPush = 3
    MaxAsk = 0
    MaxTick = 0
INVARIANTS NoGapAfterSnapshot
CHECK_DEADLOCK FALSE

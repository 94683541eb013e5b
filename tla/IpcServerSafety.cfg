\* One client, every interleaving of its three goroutines.
SPECIFICATION Spec
CONSTANTS
    Capacity = 2
    SubChanCap = 2
    SockCap = 2
    Conns = {c1}
    MaxPush = 4
    MaxAsk = 1
    MaxTick = 2
INVARIANTS TypeOK StreamInOrder  HandlerCleansUp
CHECK_DEADLOCK FALSE

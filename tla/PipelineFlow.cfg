\* Two transactions, an ALTER and a side event.
SPECIFICATION FairSpec
CONSTANTS
    Txs = {x1, x2}
    BufferSize = 1
    MaxLsn = 4
    MaxVer = 2
    MaxSide = 1
INVARIANTS TypeOK StoredAsWritten  ReturnsDrained AckNeverSkips
PROPERTIES AckNeverGoesBack  CommittedIsAcked
CHECK_DEADLOCK FALSE

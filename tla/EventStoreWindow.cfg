\* Two subscribers that come, go and read at their own pace, over more than two
\* laps of the ring.
SPECIFICATION Spec
CONSTANTS
    Capacity = 2
    SubChanCap = 2
    Tables = {t1, t2}
    Chans = {c1, c2}
    MaxPush = 5
SYMMETRY Symmetry
INVARIANTS TypeOK SnapshotIsWindow FeedInOrder 
PROPERTY ImplementsWindow
CHECK_DEADLOCK FALSE

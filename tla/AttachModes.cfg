\* Both modes, with every buffer small enough to fill.
SPECIFICATION FairSpec
CONSTANTS
    Capacity = 2
    SubChanCap = 2
    EventsCap = 2
    MaxEvent = 5
INVARIANTS TypeOK HistoryJoinsStream DropsAreCounted
PROPERTY JsonEnds
CHECK_DEADLOCK FALSE

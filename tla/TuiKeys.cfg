\* Every sequence of keys and arrivals on a small feed.
SPECIFICATION Spec
CONSTANTS
    Tables <- MCTables
    MaxHistory = 3
    MaxItems = 5
INVARIANTS TypeOK IndexesInRange HiddenOnlyByFilter
PROPERTIES HeldIsLatest
CHECK_DEADLOCK FALSE

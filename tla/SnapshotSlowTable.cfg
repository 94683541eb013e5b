\* One take of two tables; a migration may lock one.
SPECIFICATION Spec
CONSTANTS
    Procs = {p1}
    Tables = {1, 2}
    Columns = {1, 2}
    TableStates <- MCTableStates
    FirstDbs <- MCFirstDbs
    Filters <- MCFilters
    Labels = {l1}
    NoMin = {"boolean"}
    None = None
    LargeTableThreshold = 2
    MaxChanges = 1
    MaxCommands = 1
INVARIANT SlowTableIsSkipped
CHECK_DEADLOCK FALSE

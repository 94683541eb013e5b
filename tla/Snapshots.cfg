\* One process, two tables, two commands.
SPECIFICATION FairSpec
CONSTANTS
    Procs = {p1}
    Tables = {1, 2}
    Columns = {1, 2}
    TableStates <- MCTableStates
    FirstDbs <- MCFirstDbs
    Filters <- MCFilters
    Labels = {l1}
    NoMin = {"boolean"}
    None = None
    LargeTableThreshold = 2
    MaxChanges = 2
    MaxCommands = 2
INVARIANTS TypeOK SnapshotsAreWhole SchemaReportIsTrue 
 
CHECK_DEADLOCK FALSE

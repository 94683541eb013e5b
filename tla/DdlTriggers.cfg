\* Two processes, each a daemon in any mode or a ddl-tools command.
SPECIFICATION FairSpec
CONSTANTS
    Procs = {p1, p2}
    MaxCommands = 3
INVARIANTS TypeOK 
PROPERTY DmlStarts
CHECK_DEADLOCK FALSE

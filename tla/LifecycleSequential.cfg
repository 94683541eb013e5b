\* One command at a time: starts, stops, failures, kills and stale files.
SPECIFICATION SequentialSpec
CONSTANTS
    Procs = {p1, p2, p3}
    Stops = {s1}
    Names = {n1}
    None = None
INVARIANTS TypeOK PidFileHonest FilesLeadToDaemon
PROPERTIES StopIsComplete 
CHECK_DEADLOCK FALSE

CONSTANTS
    NumWorkers = 2
    Worlds <- LiveWorlds
    MaxRequests = 2
    MaxServers = 4
    MaxSpawns = 4
    MaxSignals = 2
    SignalWhen = {"monitor", "busy", "join", "terminate", "cleanup"}
    MaxFailures = 1
    Threshold = 1
SPECIFICATION LiveSpec
INVARIANTS TypeOK Accounted
PROPERTIES AckedFirst Converges
CHECK_DEADLOCK FALSE

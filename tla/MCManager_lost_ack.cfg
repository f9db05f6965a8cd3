CONSTANTS
    NumWorkers = 2
    Worlds <- LateWorlds
    MaxRequests = 0
    MaxServers = 2
    MaxSpawns = 2
    MaxSignals = 0
    SignalWhen = {}
    MaxFailures = 0
    Threshold = 1
SPECIFICATION FairSpec
PROPERTIES KillJustified
CHECK_DEADLOCK FALSE

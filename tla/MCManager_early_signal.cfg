CONSTANTS
    NumWorkers = 1
    Worlds <- CalmWorlds
    MaxRequests = 0
    MaxServers = 1
    MaxSpawns = 1
    MaxSignals = 1
    SignalWhen = {"ack"}
    MaxFailures = 0
    Threshold = 1
SPECIFICATION FairSpec
PROPERTIES ShutdownEnds
CHECK_DEADLOCK FALSE

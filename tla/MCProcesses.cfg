CONSTANTS
    Conns = {c1}
    Tasks = {t1}
    NumListeners = 2
    Graceful = 2
    MaxStops = 2
    MayRaise = {"Exception", "RuntimeError"}
    Lingers = TRUE
    Instances = {i1, i2}
    StartWorkers = 1
    MaxWorkers = 2
    MaxOutside = 1
    Apps <- TwoApps
    MaxPrepared = 4
    MaxCalls = 2
    Files = {f1, f2}
    MaxTime = 2
    Launches = {p1, p2, p3}
    Commands = {s1}
    NoFile = NoFile
SPECIFICATION ProcessesSpec
INVARIANTS ProcessesTypeOK ListenersInOrder PathKept  ChangeOnItsWay OneDaemon
PROPERTIES RefusedForAnother QuietAtTheEnd  ChangesLoaded
CHECK_DEADLOCK FALSE

CONSTANTS
    Conns = {c1}
    Tasks = {t1}
    NumListeners = 1
    Graceful = 1
    MaxStops = 1
    MayRaise = {}
    Lingers = TRUE
SPECIFICATION LifeSpec
PROPERTY ShutdownTasksReturns
CHECK_DEADLOCK FALSE

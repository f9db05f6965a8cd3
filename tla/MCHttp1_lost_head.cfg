CONSTANTS
    Kinds <- PlainKinds
    Styles = {"chunked"}
    MaxRequests = 2
    MaxWire = 4
    BufferSize = 3
    MaxSize = 1
    HighWater = 0
    ContentLength = 1
    GiveUp = {}
SPECIFICATION Spec
INVARIANTS WellFramed
CHECK_DEADLOCK FALSE

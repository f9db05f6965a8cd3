CONSTANTS
    Kinds <- HeadKinds
    Styles = {"whole", "sized", "chunked"}
    MaxRequests = 2
    MaxWire = 3
    BufferSize = 3
    MaxSize = 1
    HighWater = 9
    ContentLength = 1
    GiveUp = {}
SPECIFICATION FairSpec
INVARIANTS WellFramed
PROPERTIES NextAfterEnd ConnectionEnds
CHECK_DEADLOCK FALSE

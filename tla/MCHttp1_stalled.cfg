CONSTANTS
    Kinds <- BodyKinds
    Styles = {"whole"}
    MaxRequests = 1
    MaxWire = 2
    BufferSize = 3
    MaxSize = 1
    HighWater = 9
    ContentLength = 1
    GiveUp = {}
SPECIFICATION FairSpec
PROPERTIES ConnectionEnds
CHECK_DEADLOCK FALSE

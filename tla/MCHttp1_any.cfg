CONSTANTS
    Kinds <- MixedKinds
    Styles = {"whole"}
    MaxRequests = 2
    MaxWire = 2
    BufferSize = 3
    MaxSize = 1
    HighWater = 0
    ContentLength = 1
    GiveUp = {"none", "length"}
SPECIFICATION Spec
INVARIANTS TypeOK NeverLeftOpen RequestBoundary NoStarvation
PROPERTIES ImplementsCycle
CHECK_DEADLOCK FALSE

CONSTANTS
    MaxFrames = 4
    MaxRecv = 2
    AfterCancel <- Ends
    MaxPings = 1
    MaxPackets = 1
    HalfClose = TRUE
SPECIFICATION HalvesSpec
INVARIANTS HalvesTypeOK NoFailsafe PausedForMessage ClosesOnce
PROPERTIES ImplementsChannel MessageRead ClosingEnds
CHECK_DEADLOCK FALSE

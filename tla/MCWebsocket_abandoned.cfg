CONSTANTS
    MaxFrames = 2
    MaxRecv = 2
    AfterCancel <- MayCatch
    MaxPings = 0
    MaxPackets = 0
    HalfClose = TRUE
SPECIFICATION HalvesSpec
INVARIANT NoFailsafe
CHECK_DEADLOCK FALSE

CONSTANTS
    w1 = w1
    Workers <- MC_Workers
    Pulse = Pulse
    gSuppressAllUI = TRUE
    NoSlot = NoSlot
    NoStream = NoStream
    Queued = Queued
    Free = Free
    Corrupt = Corrupt
SPECIFICATION Spec
INVARIANT TypeOK
INVARIANT HolderStreamIntact
PROPERTY LeaseRefinement
PROPERTY SlotsReturn

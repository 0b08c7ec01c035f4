SPECIFICATION OrphanSpec
CONSTRAINT OrphanBound
CONSTANTS
    None = None
    Flows = {f1, f2}
    Modes = {"vpn"}
    UI = TRUE
    Entries <- Buttons
    MaxClears = 1
    NoTask = NoTask
    MaxTasks = 3
    MaxQueued = 1
    Base = 2
    MaxLength = 2
    MaxFrames = 2
INVARIANT NoOrphanTunnel
INVARIANT WatchInv
INVARIANT CodecInv
PROPERTY AlertsConfirmed
SYMMETRY Symmetry
CHECK_DEADLOCK FALSE

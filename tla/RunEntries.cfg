SPECIFICATION Spec
CONSTRAINT FourAtOnce
CONSTANTS
    None = None
    Flows = {f1}
    Modes = {"vpn"}
    UI = TRUE
    Entries <- HostEntries
    MaxClears = 1
INVARIANT TypeOK
INVARIANT BindGuarded
INVARIANT PauseBackedUp
CHECK_DEADLOCK FALSE

SPECIFICATION Spec
CONSTANTS
    None = None
    Flows = {f1}
    Modes = {"vpn"}
    UI = FALSE
    Entries <- PauseAuto
    MaxClears = 1
INVARIANTS PausedStaysDown
CHECK_DEADLOCK FALSE

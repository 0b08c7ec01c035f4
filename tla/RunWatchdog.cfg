SPECIFICATION Spec
CONSTANTS
    None = None
    Flows = {f1}
    Modes = {"vpn"}
    UI = TRUE
    Entries <- StartStop
    MaxClears = 1
INVARIANTS WatchdogOnlyWithTun
CHECK_DEADLOCK FALSE

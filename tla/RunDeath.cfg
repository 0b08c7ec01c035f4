SPECIFICATION Spec
CONSTANTS
    None = None
    Flows = {f1}
    Modes = {"vpn"}
    UI = FALSE
    Entries <- PauseCrash
    MaxClears = 1
PROPERTIES PauseSurvivesDeath
CHECK_DEADLOCK FALSE

SPECIFICATION FairSpec
CONSTANTS
    None = None
    Flows = {f1}
    Modes = {"vpn"}
    UI = FALSE
    Entries <- Buttons
    MaxClears = 1
CONSTRAINT FewAtRestart
INVARIANT TimerKept
PROPERTY WaitsEnd
CHECK_DEADLOCK FALSE

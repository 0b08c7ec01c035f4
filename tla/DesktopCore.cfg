SPECIFICATION FairSpec
CONSTANTS
    s1 = s1
    s2 = s2
    k1 = k1
    None = None
    Restarts <- TwoRestarts
    Calls <- OneCall
    MaxCores = 3
    Crashes = 1
    Helpers <- Platforms
INVARIANT DesktopInv
PROPERTY RestartsSettle
 
CONSTRAINT Scenario
CHECK_DEADLOCK FALSE

SPECIFICATION DozeFairSpec
CONSTANTS
    r1 = r1
    r2 = r2
    jvm = jvm
    p1 = p1
    p2 = p2
    None = None
    Callers <- TwoRequests
    Suspenders <- OneSuspender
    Main = jvm
    MaxChanges = 4
    Entries <- SetupEntries
    Ports <- OnePort
    MaxSetups = 1
    SetupMayFail = TRUE
 
PROPERTY RequestsReturn
 
CONSTRAINT Scenario

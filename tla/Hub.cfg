SPECIFICATION HubSpec
CONSTRAINT Limits
CONSTANTS
    r1 = r1
    r2 = r2
    jvm = jvm
    p1 = p1
    p2 = p2
    None = None
    Callers <- TwoRequests
    Suspenders <- OneSuspender
    Main = jvm
    MaxChanges = 0
    Entries <- AllEntries
    Ports <- TwoPorts
    MaxSetups = 2
    SetupMayFail = TRUE
    h1 = h1
    h2 = h2
    h3 = h3
    Absent = Absent
    Hosts <- Names
    LastAddr = 3
    Size = 2
    MaxReloads = 1
    MaxDeaths = 1
INVARIANT TypeOK
INVARIANT StopSticks
INVARIANT ListenersCurrent
INVARIANT ConfigIsLive
INVARIANT ChoiceReachesLive
INVARIANT SuspensionHolds
INVARIANT LostOnlyByFailure
INVARIANT PoolInv
SYMMETRY Symmetry

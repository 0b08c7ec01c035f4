SPECIFICATION FairSpec
CONSTANTS
    app = app
    net1 = net1
    net2 = net2
    cb1 = cb1
    cb2 = cb2
    None = None
    Permits = 2
    ParseMayFail = TRUE
    Threads <- MCThreads
    Starters <- MCStarter
    Stoppers <- MCStoppers
    Dialers <- MCDialers
    Callbacks <- MCCallbacks
INVARIANT TypeOK
INVARIANT NoUseAfterRelease
INVARIANT SessionWhole
INVARIANT LiveRefsOwned
 
PROPERTY ImplementsLease
PROPERTY CallsReturn

SPECIFICATION FairSpec
CONSTANTS
    None = None
    Nil = Nil
    LastEpoch = 2
    KeyIDMask = 7
    AckMax = 2
    AckSize = 3
    Capacity = 2
    ServerNeeds <- Finished
    ClientNeeds <- Hello
    LateMessages = 2
    MaxFaults = 1
    k1 = k1
    k2 = k2
    k3 = k3
    Threads = {1,2,3}
    Keys = {k1, k2, k3}
    Hashes <- Clashing
    Prefill <- Maps
    BucketSize = 1
    MinLen = 2
    ShrinkFraction = 128
    Stride = 1
    MaxHelpers = 1
    MaxCalls = 3
INVARIANT ControlInv
INVARIANT MapInv
PROPERTY EpochsHold
PROPERTY ContentIsKept
CHECK_DEADLOCK FALSE

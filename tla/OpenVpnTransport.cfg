SPECIFICATION FairSpec
CONSTANTS
    ControlWriters = {tls, resend}
    DataWriters = {data}
    Stoppable = {resend}
    LastWrite = 2
    LastDeadline = 2
    Nobody = Nobody
    DataSenders = {s1}
    LastKey = 2
    NoKey = NoKey
    Dials = {d1, d2}
    LastLink = 2
    NoLink = NoLink
INVARIANT WriteInv
INVARIANT DataInv
INVARIANT OutboundInv
PROPERTY CancelsItsOwn
PROPERTY KeysGoForward
PROPERTY TransportEnds
CHECK_DEADLOCK FALSE

SPECIFICATION Spec
CONSTANTS
    m1 = m1
    m2 = m2
    m3 = m3
    Addr <- MCAddr
    This = 0
    Purpose <- MCPurpose
    MaxKeysPerAdd = 1
    Messages = {m1,m2,m3}
    NonceOf <- MCNonceOf
    CallOf <- MCCallOf
    SigsOf <- MCSigsOf
    FirstWallet <- MCWallet
    Loops = {l1}
    MaxCrashes = 1
    MaxFaults = 1
    MaxForeign = 0
INVARIANTS
    TypeOK
    AtMostOnce
    SuccessHasHash
    ResolvedInOrder
    OutcomeIsTrue
PROPERTIES
    OutcomeIsFinal
    EveryMessageResolved
    StopLaterEnds
\* the service may be stopped for good, or have no more to do
CHECK_DEADLOCK FALSE

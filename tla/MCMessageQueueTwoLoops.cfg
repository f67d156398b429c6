SPECIFICATION Spec
CONSTANTS
    m1 = m1
    m2 = m2
    m3 = m3
    Addr <- MCAddr
    This = 0
    Purpose <- MCPurpose
    MaxKeysPerAdd = 1
    Messages = {m1,m2}
    NonceOf <- MCNonceOf
    CallOf <- MCCallOf
    SigsOf <- MCSigsOf
    FirstWallet <- MCWallet
    Loops = {l1,l2}
    MaxCrashes = 0
    MaxFaults = 0
    MaxForeign = 1
INVARIANTS
    AtMostOnce
\* the service may be stopped for good, or have no more to do
CHECK_DEADLOCK FALSE

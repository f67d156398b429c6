SPECIFICATION RelayerSpec
CONSTANTS
    r1 = r1
    r2 = r2
    r3 = r3
    m1 = m1
    m2 = m2
    Addr <- MCAddr
    This = 0
    Purpose <- MCPurpose
    MaxKeysPerAdd = 1
    Messages = {m1, m2}
    Requests = {r1, r2, r3}
    MsgOf <- MCMsgOf
    KeyOf <- MCKeyOf
    NonceOf <- MCNonceOf
    CallOf <- MCCallOf
    SigsOf <- MCSigsOf
    FirstWallet <- MCWallet
    Loops = {l1}
    MaxCrashes = 1
    MaxFaults = 0
    MaxForeign = 1
INVARIANTS
    OneWinnerPerNonce
PROPERTIES
    ImplementsLifecycle
\* all requests may be answered and all messages resolved
CHECK_DEADLOCK FALSE

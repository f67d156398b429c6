SPECIFICATION SdkSpec
CONSTANTS
    c1 = c1
    c2 = c2
    Clients = {c1, c2}
    ContentOf <- MCContentOf
    Nonces = {0, 1}
    MaxPolls = 2
    Addr <- MCAddr
    This = 0
    Purpose <- MCPurpose
    MaxKeysPerAdd = 1
    Messages <- MCMessages
    Requests <- MCRequests
    MsgOf <- MCMsgOf
    KeyOf <- MCKeyOf
    NonceOf <- MCNonceOf
    CallOf <- MCCallOf
    SigsOf <- MCSigsOf
    FirstWallet <- MCWallet
    Loops = {l1}
    MaxCrashes = 1
    MaxFaults = 1
    MaxForeign = 0
INVARIANTS
    SuccessAdvancesNonce
    OneSuccessPerNonce
    ToldIsKept
PROPERTIES
    SufficientIsResolved
\* all calls may have ended
CHECK_DEADLOCK FALSE

SPECIFICATION Spec
CONSTANTS
    r1 = r1
    r2 = r2
    r3 = r3
    r4 = r4
    m1 = m1
    m2 = m2
    Addr <- MCAddr
    This = 0
    Purpose <- MCPurpose
    MaxKeysPerAdd = 1
    Messages = {m1}
    Requests = {r1, r2}
    MsgOf <- MCMsgOf
    KeyOf <- MCSameKeyOf
    FirstWallet <- MCWallet
    WalletCalls <- MCNoCalls
INVARIANTS
    NoSignatureTwice
\* every request is answered and nothing else happens
CHECK_DEADLOCK FALSE

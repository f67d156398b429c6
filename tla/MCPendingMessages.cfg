SPECIFICATION Spec
CONSTANTS
    r1 = r1
    r2 = r2
    r3 = r3
    r4 = r4
    m1 = m1
    m2 = m2
    Addr <- MCAddr
    This = 0
    Purpose <- MCPurpose
    MaxKeysPerAdd = 1
    Messages = {m1, m2}
    Requests = {r1, r2, r3, r4}
    MsgOf <- MCMsgOf
    KeyOf <- MCKeyOf
    FirstWallet <- MCWallet
    WalletCalls <- MCKeyCalls
INVARIANTS
    TypeOK
    SufficientIsQueued
    QueuedIsExecutable
    AcceptedIsKept
\* every request may be answered and the wallet locked
CHECK_DEADLOCK FALSE

SPECIFICATION Spec
CONSTANTS
    Addr <- MCAddr
    This = 0
    Purpose <- MCPurpose
    MaxKeysPerAdd = 1
    FirstKeys <- MCFirstKeys
    Signers <- MCSigners
    Contracts <- MCContracts
    MsgCalls <- MCMsgCalls
    MaxNonce = 2
    MaxDepth = 2
    MaxSigs = 2
INVARIANTS
    RequiredWithinOwned
\* a wallet that has lost all its keys stops
CHECK_DEADLOCK FALSE

SPECIFICATION Spec
CONSTANTS
    Devices = {d1}
    Wallets = {w1, w2}
    LeadingZero = {3}
    MaxKeys = 3
    MaxMessages = 1
    MaxUpsets = 2
    MaxDenials = 2
INVARIANTS
    StoredKeyIsOwned
    NoOrphanRequest
    AddedRequestGoes
PROPERTIES
    StoredKeyIsKept
    ListIsCurrent
\* the users may stop
CHECK_DEADLOCK FALSE

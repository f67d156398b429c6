SPECIFICATION Spec
CONSTANTS
    Keys = {k1, k2, rival}
    Rivals = {rival}
    Names = {alex, bob}
    MaxFaults = 1
INVARIANTS
    NamesAreOwned
    HomeHoldsKey
    CreatedIsDeployed
PROPERTIES
    FutureIsKept
    CreationEnds
\* all flows may have ended
CHECK_DEADLOCK FALSE

SPECIFICATION Spec
CONSTANTS
    Inputs <- MCInputs
    Domains <- MCDomains
    Begins <- MCBegins
    CorrectTlds = {"", "e", "tes"}
    LongTlds = {"tes"}
    BadNodes = {"@", "-"}
    BadSlds = {"@", "m@"}
    MaxTyped = 3
INVARIANTS
    OffersComplete
    ShownIsCurrent
PROPERTIES
    BusyEnds
\* the user may have stopped typing
CHECK_DEADLOCK FALSE

SPECIFICATION Spec
CONSTANTS
    Loops = {l1, l2}
    Contract <- MCContract
    Key <- MCKey
    Filter <- MCFilter
    EventsIn <- MCEventsIn
    MaxFaults = 1
    MaxStarts = 2
INVARIANTS
    NothingMissed
PROPERTIES
    ReportedInOrder
    StopEnds
\* an observer may be stopped for good
CHECK_DEADLOCK FALSE

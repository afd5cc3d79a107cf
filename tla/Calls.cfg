SPECIFICATION Spec
CONSTANTS
    Peers = {a, b}
    MaxCalls = 2
    MaxCands = 1
    MaxCopies = 2
SYMMETRY Swap
INVARIANTS
    ArrivalsOnceAndInTime
    OnlyOvertakenLost
CHECK_DEADLOCK FALSE

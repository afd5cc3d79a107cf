SPECIFICATION CacheSpec
CONSTANTS
    Size = 5
    Seqs = {0, 1}
    MaxPos = 2
    NBatch = 3
    NUbatch = 1
    Windows = {0, 2}
    MaxEdits = 1
INVARIANTS
    Accounting
PROPERTIES
    VisibleKept
    RefusalRestores
CHECK_DEADLOCK FALSE

SPECIFICATION Spec
CONSTANTS
    Calls = {d1, d2}
    NoCall = NoCall
    NoFile = NoFile
    Size = 3
    Plausible = 1
    MaxDeaths = 2
INVARIANTS
    TypeOK
    InstalledIsWhole
    NoGarbage
PROPERTIES
    SuccessIsInstalled
CHECK_DEADLOCK FALSE

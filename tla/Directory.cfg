SPECIFICATION DirSpec
CONSTANTS
    Gossipers = {g}
    Fetchers = {loop}
    MaxClock = 2
    MaxAdds = 1
INVARIANTS
    DirTypeOK
    KeyLostOnlyByAdding
PROPERTIES
    Converges

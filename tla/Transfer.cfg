SPECIFICATION FairSpec
CONSTANTS
    Downloads = {d1, d2}
    NoDownload = NoDownload
    TotalChunks = 1
    SeededChunks = 1
    Attempts = 2
    MaxHits = 1
INVARIANTS
    TypeOK
PROPERTIES
    ImplementsDownload
    GivesUpOnlyAfterAllHits
    DownloadsEnd
CHECK_DEADLOCK FALSE

SPECIFICATION FairSpec
CONSTANTS
    Msgs = {m1}
    hash = hash
    phone = phone
    NoPeer = NoPeer
    Peers = {phone}
    PhoneLike <- MCPhoneLike
    NodeRows <- AllRows
    KoinStarted = TRUE
    PacketsVerify = TRUE
    MaxRetries = 1
    MaxTime = 2
    MaxFaults = 1
    MaxDeaths = 1
INVARIANTS
    TypeOK
    DuplicatesNeedFaults
    FailedNeverLeft
    JobAgreesWithRow
PROPERTIES
    SentIsKept
    PendingIsResolved
    JobsEnd

SPECIFICATION Spec
CONSTANTS
    Msgs = {m1}
    hash = hash
    phone = phone
    NoPeer = NoPeer
    Peers = {hash}
    PhoneLike <- MCPhoneLike
    NodeRows <- ManyRows
    KoinStarted = TRUE
    PacketsVerify = FALSE
    MaxRetries = 2
    MaxTime = 3
    MaxFaults = 0
    MaxDeaths = 0
INVARIANTS
    SmsIsReadable

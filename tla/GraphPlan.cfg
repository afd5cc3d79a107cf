SPECIFICATION Spec
CONSTANTS
    Alignment = 2
    MaxChunkSize = 6
    MaxChunks = 2
    Endless = 40
    Frames <- MCFrames
    MaxNodes = 3
    MaxOutputs = 1
    MaxRounds = 1
    MaxFailures = 2
INVARIANTS
    ReadsIntact
    OutputsKept
    InBuffer
CHECK_DEADLOCK FALSE

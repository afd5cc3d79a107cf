SPECIFICATION FairSpec
CONSTANT MaxStarts = 2
INVARIANTS TypeOK RunningListens 
PROPERTY StopEndsListeners
CHECK_DEADLOCK FALSE

SPECIFICATION Spec
CONSTANTS
    Calls = {c1, c2}
    NoCall = NoCall
    MaxRetries = 3
INVARIANTS
    OneRequest
    HealthyNeverFails
PROPERTIES
    CallsEnd
CHECK_DEADLOCK FALSE

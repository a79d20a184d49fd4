SPECIFICATION Spec
CONSTANTS
    Name <- ShortNames
    Suffix = {"_", "1"}
    Stem = 2
    Full = 3
    MaxRefused = 3
    MaxRetries = 4
INVARIANTS
    RetriesCaught
    RefusedMayRetry
CHECK_DEADLOCK FALSE

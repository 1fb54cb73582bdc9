CONSTANTS
    MaxBytes = 3
    MaxOutput = 4
    MaxAttempts = 4
    Overshoot = 1
    ProviderCap = 2
SPECIFICATION LedgerSpec
INVARIANT NoFreeDeadline
CHECK_DEADLOCK FALSE

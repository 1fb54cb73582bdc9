CONSTANTS
    MaxBytes = 3
    MaxOutput = 4
    MaxAttempts = 4
    Overshoot = 1
    ProviderCap = 2
SPECIFICATION LedgerSpec
INVARIANTS SpentIsGone OverspendStops StoredWithinBudget
CHECK_DEADLOCK FALSE

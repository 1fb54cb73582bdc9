CONSTANTS
    Plans <- AllPlans
    Budgets = {2, 4}
    Errors = {"not_found", "failed", "retryable"}
SPECIFICATION FairSpec
INVARIANTS AttemptBudgetHeld BaselineKept NoOrphanBranch MutatesOnce
PROPERTIES StopIsFinal RunTerminates
CHECK_DEADLOCK FALSE

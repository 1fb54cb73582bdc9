CONSTANTS
    Runs = {run1, run2}
    Boot = Boot
    NoResult = NoResult
    ServeBeforeInit = FALSE
    MaxCrashes = 2
SPECIFICATION FairSpec
INVARIANTS NoStrandedRun RecoveryComplete
PROPERTIES CloseDrains RecoversOnlyLostRuns ImplementsRunContract EveryRunSettles
CHECK_DEADLOCK FALSE

CONSTANTS
    Runs = {run1, run2}
    Boot = Boot
    NoResult = NoResult
    ServeBeforeInit = TRUE
    MaxCrashes = 0
SPECIFICATION Spec
PROPERTIES RecoversOnlyLostRuns
CHECK_DEADLOCK FALSE

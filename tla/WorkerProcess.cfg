CONSTANTS
    Modes = {"portable", "unprofiled", "development", "required"}
    MaxCancels = 3
SPECIFICATION FairSpec
INVARIANTS ContainedBeforeInput NothingLeftBehind CancelNotSwallowed
PROPERTIES CallEnds
CHECK_DEADLOCK FALSE

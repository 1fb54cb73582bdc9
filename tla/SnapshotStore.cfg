CONSTANTS
    Bodies = {x}
    Readers = {c1, c2, c3}
    MaxMeddling = 1
    MaxCrashes = 1
    owner = owner
    Nothing = Nothing
    Requests <- PublicAndPrivate
    Ttls = {1}
    StaleSeconds = {0, 1}
    MaxRecords = 2
    MaxTime = 1
SPECIFICATION Spec
SYMMETRY Interchangeable
INVARIANTS RecordHasBody ServedIsOwn StoredIsSeen
CHECK_DEADLOCK FALSE

CONSTANTS
    Bodies = {x}
    Writers = {w1, w2, w3}
    Readers = {r1}
    MaxMeddling = 2
    MaxCrashes = 2
SPECIFICATION Spec
SYMMETRY Symmetry
INVARIANT AckedSurvives
PROPERTY ImplementsBodyStore
CHECK_DEADLOCK FALSE

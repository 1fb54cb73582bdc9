CONSTANTS
    b1 = b1
    b2 = b2
    Branches = {b1, b2}
    EventsOf <- MCEvents
    Streams = {s1}
SPECIFICATION FairStreamSpec
INVARIANTS CompleteOnReturn OnceInCausalOrder
PROPERTIES StreamEnds
CHECK_DEADLOCK FALSE

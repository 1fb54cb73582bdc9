CONSTANTS
    Runs = {r1, r2}
    MaxTime = 2
    MaxApprovalLifetime = 2
    MaxCsrfForms = 1
    MaxCsrfFields = 2
    HttpRetries = 1
    Nothing = Nothing
    Refs <- AllRefs
    Jobs <- SomeJobs
    Descriptors <- SomeDescriptors
    Stores <- SomeStores
    Proposals <- SomeProposals
    Pages <- SomePages
    Destinations <- SomeDestinations
SPECIFICATION Spec
INVARIANTS SubmittedOnce TokenOfThisRun CredentialLive
CHECK_DEADLOCK FALSE
SYMMETRY Interchangeable

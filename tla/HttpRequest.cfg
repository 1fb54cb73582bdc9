CONSTANTS
    q1 = q1
    q2 = q2
    Requests = {q1, q2}
    Jobs <- MCJobs
    Urls <- MCUrls
    Addresses = {"public", "private"}
    Public = {"public"}
    Capacities = {1, 2}
    Redirects <- MCRedirects
    MaxBytes = 2
    RobotsLimit = 1
    Nothing = Nothing
SPECIFICATION FairSpec
INVARIANTS CredentialScope BodyNeverReplayed HopsChecked
PROPERTIES RequestEnds
CHECK_DEADLOCK FALSE

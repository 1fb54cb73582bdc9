--------------------------- MODULE MCHttpRequest ---------------------------
EXTENDS HttpRequest, TLC

CONSTANTS q1, q2

A1 == [host |-> "a", secure |-> TRUE, path |-> 1]
A2 == [host |-> "a", secure |-> TRUE, path |-> 2]
A0 == [host |-> "a", secure |-> FALSE, path |-> 1]
B1 == [host |-> "b", secure |-> TRUE, path |-> 1]

MCUrls == {A1, A2, A0, B1}

\* the request under study, and another that shares host a and the slot
MCJobs ==
    (q1 :> { j \in Job : /\ j.target = A1 \/ (j.target = A0 /\ j.kind = "get")
                         /\ j.kind = "login" => ~j.auth
                         /\ j.kind = "form" => j.auth })
    @@ (q2 :> { [kind |-> "get", target |-> A1, auth |-> TRUE],
                [kind |-> "crawl", target |-> A1, auth |-> FALSE] })

MCRedirects == (q1 :> 2) @@ (q2 :> 0)
============================================================================

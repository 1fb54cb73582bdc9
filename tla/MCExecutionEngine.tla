------------------------- MODULE MCExecutionEngine -------------------------
EXTENDS ExecutionEngine

P == INSTANCE Planner

\* a public page, no lists, everything installed but the browser
Request ==
    [suffix |-> "web", named |-> FALSE, outputs |-> {}, crawl |-> FALSE,
     authenticated |-> FALSE, deny |-> {}, allow |-> {}, approved |-> TRUE,
     browser |-> FALSE, absent |-> {}]

Requests ==
  { \* a page: readers side by side, the browser if they fail
    [Request EXCEPT !.outputs = {"clean_text", "main_article"}, !.browser = TRUE],
    \* a POST whose answer two extractors read
    [Request EXCEPT !.outputs = {"pdf", "csv", "http_post"}],
    \* a crawl and nothing else, to be kept by an engine without the cache adapter
    [Request EXCEPT !.outputs = {"local_snapshot"}, !.crawl = TRUE, !.absent = {"cache"},
                    !.allow = {"depth_limited_crawl", "local_snapshot"}],
    \* refused: the readers would lose the node they depend on
    [Request EXCEPT !.outputs = {"clean_text"}, !.deny = {"candidate_url_expansion"}],
    \* a snapshot, or else the page, kept twice
    [Request EXCEPT !.outputs = {"previous_successful_snapshot", "local_snapshot",
                                 "search_cache"}],
    \* a form that nobody approved
    [Request EXCEPT !.outputs = {"csrf_token", "form_submit", "http_head"},
                    !.authenticated = TRUE, !.approved = FALSE] }

\* the planner's nodes, or those of a backend that left one out or reordered them
Proposals(nodes) == { nodes, Tail(nodes), Reverse(nodes) }

Planned(nodes, r) ==
    IF P!Refused(nodes, r) THEN {}
    ELSE { P!Plan(P!Coordinated(proposal, nodes), r) : proposal \in Proposals(nodes) }

AllPlans == UNION { Planned(P!Filtered(r), r) : r \in Requests }
============================================================================

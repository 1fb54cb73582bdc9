-------------------------- MODULE TransferAdapters --------------------------
(***************************************************************************)
(* The adapters that acquire: HTTPAdapter.execute, AuthAdapter's form, the *)
(* cache and its connectors (CacheAdapter), and the two that fetch further *)
(* pages with contexts of their own, DiscoveryAdapter and VariantAdapter.  *)
(* The request loop inside a fetch is HttpRequest's subject; here a fetch  *)
(* is what it moved and how it ended.                                      *)
(***************************************************************************)
EXTENDS AdapterContext

(* A body tells its wire bytes and its decoded bytes. *)
Transfers(limit) ==
    [bytes : Sizes(limit.bytes), output : Sizes(limit.output)]
Exceeds(u, limit) == \E f \in Fields : u[f] > limit[f]
Left == [f \in Fields |-> Remaining(f)]

-----------------------------------------------------------------------------
(* HTTPAdapter: all handlers record the usage that was observed. *)

HttpBegins ==
    /\ At("http", "begun")
    /\ Opens("provider", 0)

SomeLeft == Affords("bytes", 1) /\ Affords("output", 1)

HttpExhausted ==
    /\ At("http", "provider") /\ ~SomeLeft
    /\ Ends("budget")

(* A chunk went past one of the budgets, or the headers say that the body   *)
(* will.                                                                    *)
HttpRefuses(u) ==
    /\ At("http", "provider") /\ SomeLeft
    /\ spent' = spent + u.bytes
    /\ Settles(Plus(own, u), "budget")
    /\ UNCHANGED <<count, lost, raw, stored>>

(* Of what moved, u was observed and n bytes were not. *)
HttpEnds(u, n, result) ==
    /\ At("http", "provider") /\ SomeLeft
    /\ spent' = spent + u.bytes + n
    /\ Loses("unreported", n)
    /\ Closes(Plus(own, u), result)
    /\ GoesUnchecked(u)
    /\ UNCHANGED <<count, stored>>

(* The transport, a status code, the policy or a credential ends it.  The   *)
(* robots.txt of a crawl may be past the budget by then: too large an       *)
(* output is a plain failure, and its wire bytes were not compared.  A curl *)
(* that fails does not say what it moved over HTTP/3.                       *)
HttpFails(u, n) ==
    /\ \E r \in {"failed", "dependency", "policy", "deadline"} : HttpEnds(u, n, r)
    /\ UNCHANGED raw

(* The wire bytes are compared when a decoded chunk arrives: those after    *)
(* the last one, and robots.txt before an empty body, are recorded and not  *)
(* refused.                                                                 *)
HttpSucceeds(u) ==
    /\ u.output <= Remaining("output")
    /\ HttpEnds(u, 0, "done")
    /\ raw' = TRUE

-----------------------------------------------------------------------------
(* AuthAdapter._submit_form: a request of the HTTP adapter whose usage is   *)
(* written to no attempt.  When it may be sent is AuthSession's subject.    *)

FormBegins ==
    /\ At("form", "begun")
    /\ Opens("provider", 0)

FormRefused ==
    /\ At("form", "provider")
    /\ \E r \in {"failed", "dependency", "policy"} : Ends(r)

FormExhausted ==
    /\ At("form", "provider") /\ ~SomeLeft
    /\ Ends("budget")

(* A deadline is turned into a failure like any other. *)
FormFails(n) ==
    /\ At("form", "provider") /\ SomeLeft
    /\ \E r \in {"failed", "dependency", "policy", "budget"} :
          EndsUncharged(n, "form", r)
    /\ UNCHANGED raw

FormSubmitted(n) ==
    /\ At("form", "provider") /\ SomeLeft
    /\ EndsUncharged(n, "form", "done")
    /\ raw' = TRUE

-----------------------------------------------------------------------------
(* CacheAdapter: the snapshots of the store. *)

CacheBegins ==
    /\ At("cache", "begun")
    /\ Opens("local", 0)

(* A miss, an entry that is too old, a source that may not be stored. *)
CacheFails ==
    /\ At("cache", "local")
    /\ Ends("failed")

(* A lookup may bring the raw artifact of an earlier run. *)
CacheEnds ==
    /\ At("cache", "local")
    /\ Settles(own, "done")
    /\ raw' \in {raw, TRUE}
    /\ UNCHANGED <<count, stored, spent, lost>>

(* CacheAdapter._execute_connector. *)

ConnectorBegins ==
    /\ At("connector", "begun")
    /\ Opens("source", 0)

(* A private or authenticated request, or a secret in the URL; no connector *)
(* is configured for the capability.                                        *)
ConnectorRefused ==
    /\ At("connector", "source")
    /\ \E r \in {"policy", "dependency"} : Ends(r)

ConnectorAsked ==
    /\ At("connector", "source")
    /\ IF SomeLeft
       THEN GoesOn("provider", Least(Remaining("bytes"), Remaining("output")))
       ELSE Ends("budget")

ConnectorEnds(moved, charged, result) ==
    /\ At("connector", "provider")
    /\ spent' = spent + moved
    /\ Settles(Plus(own, charged), result)
    /\ UNCHANGED <<count, stored, lost>>

(* It raises after it reported u: the finally clause charges it, and turns  *)
(* the error into a budget error when u is more than what was left.         *)
ConnectorFails(u) ==
    /\ ~Exceeds(u, Left)
    /\ \E r \in {"failed", "dependency", "policy", "deadline"} :
          ConnectorEnds(u.bytes, u, r)
    /\ UNCHANGED raw

(* More than what was left, of the redirects or of the time too. *)
ConnectorExceeds(u) ==
    /\ ConnectorEnds(u.bytes, u, "budget")
    /\ UNCHANGED raw

(* A connector without usage report fails or returns something else than a  *)
(* snapshot, or the report is not one: the n bytes it moved are not charged. *)
ConnectorUnreported(n) ==
    /\ At("connector", "provider")
    /\ \E r \in {"failed", "dependency", "policy", "deadline", "budget"} :
          EndsUncharged(n, "unreported", r)
    /\ UNCHANGED raw

(* The result shows a body of b bytes while the report has no wire bytes:   *)
(* the report is raised to the body, charged, and the result refused.       *)
ConnectorUnderReports(b) ==
    /\ b > 0
    /\ ConnectorEnds(b, Use(b, b), IF b > call.limit THEN "budget" ELSE "failed")
    /\ UNCHANGED raw

(* A connector without usage report is charged its body, then measured. *)
ConnectorUnmetered(b) ==
    /\ b > call.limit
    /\ ConnectorEnds(b, Use(b, b), "budget")
    /\ UNCHANGED raw

(* The body is validated, put and appended, then stored as a snapshot: the  *)
(* last step may fail with the artifact in place.                           *)
ConnectorReturns(u) ==
    /\ ~Exceeds(u, Left)
    /\ \E r \in {"done", "failed"} : ConnectorEnds(u.bytes, u, r)
    /\ raw' \in {raw, TRUE}

-----------------------------------------------------------------------------
(* DiscoveryAdapter: batches of pages, each a fetch in a context with an    *)
(* equal part of what is left, and never less than one byte.                *)

CrawlRefused ==
    /\ At("crawl", "begun") /\ ~raw
    /\ Ends("failed")

CrawlBegins ==
    /\ At("crawl", "begun") /\ raw
    /\ Opens("candidates", 0)

PageLimit(pages) ==
    [f \in Fields |-> Most(1, Most(1, Remaining(f)) \div pages)]

(* What pages fetched with these limits consumed together.  A page that was *)
(* refused for its size is in it: its error is caught and the crawl goes on. *)
PagesTotals(pages) ==
    LET g == PageLimit(pages)
    IN  [bytes : 0..(pages * (g.bytes + Overshoot)),
         output : 0..(pages * (g.output + Overshoot))]

(* A page's or a candidate's context is merged.  What goes past the budget  *)
(* was not tested against it.                                               *)
Merges(u, attempts) ==
    /\ count' = count + attempts
    /\ used' = Plus(used, u)
    /\ spent' = spent + u.bytes
    /\ GoesUnchecked(u)
    /\ UNCHANGED <<own, ceiling, batch, call, run, raw, stored, lost>>

CrawlBatch(pages, u) ==
    /\ At("crawl", "candidates")
    /\ count + pages <= MaxAttempts
    /\ Merges(u, pages)

(* gather() without return_exceptions: an error _fetch does not catch (the  *)
(* credential provider's, a timeout, the store's) leaves at once.  None of  *)
(* the batch's contexts is merged, and its other fetches run on.            *)
CrawlBatchDropped(pages, u) ==
    /\ At("crawl", "candidates")
    /\ count + pages <= MaxAttempts
    /\ \E r \in {"dependency", "deadline", "crash"} :
          EndsUncharged(u.bytes, "dropped", r)
    /\ UNCHANGED raw

(* The frontier is empty or a bound is reached: the report of n bytes is    *)
(* stored, unmeasured.  The crawl's own attempt is charged nothing.         *)
CrawlEnds(n) ==
    /\ At("crawl", "candidates")
    /\ Settles(own, "done")
    /\ stored' = stored + n
    /\ Loses("unmetered", n)
    /\ UNCHANGED <<count, raw, spent>>

-----------------------------------------------------------------------------
(* VariantAdapter: the candidates are stored, unmeasured, then fetched one  *)
(* by one until one is usable.                                              *)

VariantsRefused ==
    /\ At("variants", "begun") /\ ~raw
    /\ Ends("failed")

VariantsBegin ==
    /\ At("variants", "begun") /\ raw
    /\ Opens("source", 0)

CandidatesStored(n) ==
    /\ At("variants", "source")
    /\ call' = [call EXCEPT !.phase = "candidates"]
    /\ stored' = stored + n
    /\ Loses("unmetered", n)
    /\ UNCHANGED <<count, used, own, ceiling, batch, run, raw, spent, unchecked>>

(* _remaining_transfer_budget: both budgets must have something left. *)
VariantFetched(u) ==
    /\ At("variants", "candidates")
    /\ count < MaxAttempts /\ SomeLeft
    /\ Merges(u, 1)

(* An error _try_candidates does not catch leaves the context unmerged. *)
VariantDropped(u) ==
    /\ At("variants", "candidates")
    /\ count < MaxAttempts /\ SomeLeft
    /\ \E r \in {"dependency", "deadline", "crash"} :
          EndsUncharged(u.bytes, "dropped", r)
    /\ UNCHANGED raw

VariantsEnd ==
    /\ At("variants", "candidates")
    /\ Ends("done")

Fetches(node, phase, Step(_)) ==
    At(node, phase) /\ \E u \in Transfers(Left) : Step(u)

TransferStep ==
    \/ HttpBegins \/ HttpExhausted
    \/ Fetches("http", "provider", HttpRefuses)
    \/ At("http", "provider")
       /\ \E u \in Transfers(Left), n \in Sizes(0) : HttpFails(u, n)
    \/ Fetches("http", "provider", HttpSucceeds)
    \/ FormBegins \/ FormRefused \/ FormExhausted
    \/ At("form", "provider") /\ \E n \in Sizes(Left.bytes) : FormFails(n)
    \/ At("form", "provider") /\ \E n \in Sizes(Left.bytes) : FormSubmitted(n)
    \/ CacheBegins \/ CacheFails \/ CacheEnds
    \/ ConnectorBegins \/ ConnectorRefused \/ ConnectorAsked
    \/ Fetches("connector", "provider", ConnectorFails)
    \/ Fetches("connector", "provider", ConnectorExceeds)
    \/ Fetches("connector", "provider", ConnectorReturns)
    \/ At("connector", "provider") /\ \E b \in Sizes(call.limit) : ConnectorUnderReports(b)
    \/ At("connector", "provider") /\ \E b \in Sizes(call.limit) : ConnectorUnmetered(b)
    \/ At("connector", "provider") /\ \E n \in Sizes(call.limit) : ConnectorUnreported(n)
    \/ CrawlRefused \/ CrawlBegins
    \/ At("crawl", "candidates") /\ \E n \in Sizes(0) : CrawlEnds(n)
    \/ At("crawl", "candidates")
       /\ \E p \in 1..2 : \E u \in PagesTotals(p) : CrawlBatch(p, u)
    \/ At("crawl", "candidates")
       /\ \E p \in 1..2 : \E u \in PagesTotals(p) : CrawlBatchDropped(p, u)
    \/ VariantsRefused \/ VariantsBegin \/ VariantsEnd
    \/ At("variants", "source") /\ \E n \in Sizes(0) : CandidatesStored(n)
    \/ Fetches("variants", "candidates", VariantFetched)
    \/ Fetches("variants", "candidates", VariantDropped)
=============================================================================

---------------------------- MODULE AuthSession ----------------------------
(***************************************************************************)
(* AuthAdapter (src/fetech/adapters/auth.py) with the providers it asks    *)
(* (src/fetech/auth.py, src/fetech/auth_flows.py) and the part of          *)
(* HTTPAdapter._request that handles credentials                           *)
(* (src/fetech/adapters/http.py).                                          *)
(*                                                                         *)
(* A run executes up to four nodes in the planner's order: a session node, *)
(* the page's http node, csrf_token and form_submit.  Runs are concurrent  *)
(* and share the three providers.  Every step ends at an await; the clock  *)
(* moves and other runs step there: between the expiry check and the       *)
(* request, too, where a crawl waits for robots.txt and for a second slot. *)
(* Redirects are in HttpRequest; here a request answers with the page it   *)
(* ended at.                                                               *)
(***************************************************************************)
EXTENDS AuthFlow

CONSTANTS
    Runs,
    Jobs,         \* [session, embedded, csrf, form, crawl, target, private, ref, approved]
    Refs,         \* opaque references, those of refresh tokens included
    Descriptors,  \* possible contents of the session provider
    Stores,       \* possible contents of the credential provider
    Proposals,    \* possible contents of the form provider
    Pages,        \* what a page may hold: [forms, inputs, nested, repeated, fields]
    Destinations, \* where the page request may end, redirects followed
    HttpRetries   \* retry.maximum of the http node

ASSUME SessionAssumption ==
    /\ Nothing \notin Refs
    /\ \A j \in Jobs : j.ref \in Refs \cup {Nothing} /\ IsUrl(j.target)
    /\ \A g \in Pages : \A f \in g.fields : IsUrl(f.action)
    /\ \A t \in Descriptors : \A r \in Refs : t[r] # Nothing => ValidSessionEntry(t[r], r)
    /\ \A t \in Stores : \A r \in Refs :
          /\ t.credentials[r] # Nothing => ValidMaterial(t.credentials[r])
          /\ t.refreshed[r] # Nothing   => ValidMaterial(t.refreshed[r])
    /\ \A t \in Proposals :
          /\ DOMAIN t = Refs
          /\ \A r \in Refs : t[r] # Nothing => ValidSubmissionEntry(t[r], r, 0)
    /\ HttpRetries \in Nat

VARIABLES
    now,         \* datetime.now(UTC)
    descriptors, \* the session provider's _sessions
    store,       \* the credential provider's _credentials and _refreshed
    proposals,   \* the form provider's _submissions
    run,         \* the runs: their contexts and the locals of the step they are in
    submitted    \* ghost: how often each reference's proposal went out

vars == <<now, descriptors, store, proposals, run, submitted>>

Idle == [ pc |-> "idle",
          job |-> Nothing,
          attempt |-> "none",     \* status of context.attempts[-1]
          failure |-> "none",     \* its failure_code
          session |-> Nothing,    \* origin_scoped_session, or the local before it is stored
          material |-> Nothing,   \* credential_material, likewise
          credential |-> Nothing, \* the local of _request
          refreshed |-> FALSE,    \* refresh_attempted
          checked |-> 0,          \* ghost: when robots.txt was asked for, and the credential checked
          tries |-> 0,            \* retries of the http node
          source |-> Nothing,     \* the page's url
          page |-> Nothing,       \* and its body
          csrf |-> Nothing,       \* csrf_token
          proposal |-> Nothing,   \* submission
          sent |-> Nothing ]      \* ghost: the last request on the wire

Init ==
    /\ now = 0
    /\ descriptors \in Descriptors
    /\ store \in Stores
    /\ proposals \in Proposals
    /\ run = [r \in Runs |-> Idle]
    /\ submitted = [k \in Refs |-> 0]

----------------------------------------------------------------------------
At(r, here) == run[r].pc = here
Becomes(r, q) == run' = [run EXCEPT ![r] = q]
Local(r, q)   == Becomes(r, q) /\ UNCHANGED <<now, descriptors, store, proposals, submitted>>

\* a run that is over: its context is gone, its last attempt is in the result
Ends(pc, attempt, code) ==
    [Idle EXCEPT !.pc = pc, !.attempt = attempt, !.failure = code]

\* _fail_attempt, and the error that ends the run
Fails(q, code) == Ends("failed", "FAILED", code)

\* _anonymous_form_bootstrap: the reference only names the proposal
Anonymous(job) == job.form /\ job.session = "none" /\ ~job.embedded

\* _start_attempt, up to the first await of the node
Starts(q, here) == [q EXCEPT !.pc = here, !.attempt = "RUNNING", !.failure = "none"]

\* the head of _validate_session, and of _submit_form
StartsWithReference(q, here) ==
    IF q.job.ref = Nothing THEN Fails(q, "auth_required") ELSE Starts(q, here)

\* _enforce_approval, then the form node; a job without one is over
AfterCsrf(q) ==
    CASE ~q.job.form                    -> Ends("done", q.attempt, "none")
      [] q.job.form /\ ~q.job.approved  -> Ends("failed", q.attempt, "policy")
      [] OTHER                          -> StartsWithReference(q, "form policy")

AfterPage(q) == IF q.job.csrf THEN Starts(q, "csrf body") ELSE AfterCsrf(q)

\* _request begins: its locals
StartsGet(q) == [Starts(q, "get slot") EXCEPT !.credential = Nothing, !.refreshed = FALSE]

Begin(r, job) ==
    /\ At(r, "idle")
    /\ LET q == [Idle EXCEPT !.job = job] IN
       Local(r, IF job.session # "none" THEN StartsWithReference(q, "session policy")
                                        ELSE StartsGet(q))

----------------------------------------------------------------------------
(* _validate_session *)

\* _evaluate_session_policy; URL policy may refuse the target, too
PolicyAllows(job, capability) ==
    /\ job.target.https
    /\ capability = "private_workspace" => job.private

SessionPolicy(r, allowed) ==
    /\ At(r, "session policy")
    /\ Local(r, IF allowed /\ PolicyAllows(run[r].job, run[r].job.session)
                THEN [run[r] EXCEPT !.pc = "session descriptor"]
                ELSE Fails(run[r], "policy"))

\* _validate_session_descriptor, whatever the provider returned
DescriptorMatches(s, job) ==
    /\ s.ref = job.ref
    /\ s.capability = job.session
    /\ SessionApplies(s, NormalizeUrl(job.target))

\* _resolve_session: the provider answers
SessionResolved(r) ==
    LET q == run[r]
        s == descriptors[q.job.ref]
    IN  /\ At(r, "session descriptor")
        /\ Local(r,
             CASE s = Nothing ->
                    Fails(q, IF q.job.session \in {"sso", "private_workspace"}
                             THEN "dependency_missing" ELSE "auth_required")
               [] s # Nothing /\ ~DescriptorMatches(s, q.job) -> Fails(q, "auth_required")
               [] OTHER -> [q EXCEPT !.session = s, !.pc = "session material"])

\* the context's credential, session and capability are set: the http node is next
Validated(q) == StartsGet([q EXCEPT !.attempt = "SUCCEEDED"])

\* bound material: refreshed when it may be, else it must be live
AfterMaterial(q, c) ==
    LET stale == Expired(q.session, now) \/ Expired(c, now)
        may   == q.session.capability \in Refreshable /\ c.kind = "bearer_token"
                 /\ q.session.refreshRef # Nothing
    IN  CASE may /\ (stale \/ NeedsRefresh(q.session, now)) ->
               [q EXCEPT !.material = c, !.pc = "session refresh"]
          [] ~may /\ stale -> Fails(q, "auth_expired")
          [] OTHER -> Validated([q EXCEPT !.material = c])

\* _resolve_material, _validate_existing_material and what follows
MaterialResolved(r) ==
    LET q == run[r]
        c == store.credentials[q.job.ref]
    IN  /\ At(r, "session material")
        /\ Local(r, IF c = Nothing \/ ~Binds(q.session, c) THEN Fails(q, "auth_required")
                    ELSE AfterMaterial(q, c))

\* any provider may be unavailable or broken
ProviderFails(r) ==
    /\ run[r].pc \in {"session descriptor", "session material", "session refresh",
                      "get credential", "get refresh", "form proposal"}
    /\ Local(r, Fails(run[r], "dependency_missing"))

----------------------------------------------------------------------------
(* Refresh: _refresh_session and HTTPAdapter._refresh_credential *)

\* the checks of the replacement, as a failure code; only _refresh_credential
\* looks at the expiry before the binding
RefreshRefused(q, old, new) ==
    LET unbound == ~Binds(q.session, new) \/ new.kind # old.kind
        late    == Expired(new, now)
    IN  CASE new = Nothing -> "auth_expired"
          [] new # Nothing /\ late /\ (unbound => q.pc = "get refresh") -> "auth_expired"
          [] new # Nothing /\ unbound /\ ~(late /\ q.pc = "get refresh") -> "auth_required"
          [] OTHER -> "none"

\* InMemoryCredentialProvider.refresh: pop, then store under the refresh reference
Refreshed(ref) ==
    IF store.refreshed[ref] = Nothing THEN store
    ELSE [credentials |-> [store.credentials EXCEPT ![ref] = store.refreshed[ref]],
          refreshed   |-> [store.refreshed EXCEPT ![ref] = Nothing]]

\* refresh() answers; Use is what a good replacement is used for
Refresh(r, here, old, Use(_)) ==
    LET q      == run[r]
        new    == store.refreshed[q.session.refreshRef]
        reason == RefreshRefused(q, old, new)
    IN  /\ At(r, here)
        /\ store' = Refreshed(q.session.refreshRef)
        /\ Becomes(r, IF reason = "none" THEN Use([q EXCEPT !.material = new])
                                         ELSE Fails(q, reason))
        /\ UNCHANGED <<now, descriptors, proposals, submitted>>

SessionRefreshed(r) == Refresh(r, "session refresh", run[r].material, Validated)

----------------------------------------------------------------------------
(* HTTPAdapter._request for the page: slot, policy, credential, the wire *)

\* checked: when the credential of a call's first request was found live
Wire(q, what, url, first, checked) ==
    [ what |-> what, url |-> url, first |-> first, checked |-> checked,
      credential |-> IF q.credential # Nothing /\ MaterialApplies(q.credential, url)
                     THEN q.credential ELSE Nothing,
      at |-> now ]

SendsGet(q, first, checked) ==
    [q EXCEPT !.pc = "get answer",
              !.sent = Wire(q, "get", NormalizeUrl(q.job.target), first, checked)]

\* what _refresh_credential asks of the session before it calls the provider
MayRefresh(q, c) ==
    /\ q.session # Nothing
    /\ q.session.ref = q.job.ref
    /\ q.session.capability \in Refreshable
    /\ q.session.refreshRef # Nothing
    /\ c.kind = "bearer_token"

\* mutant of Verdict: cached material was checked when it was stored
VerdictOnScope(q, c, url, safe) == IF MaterialApplies(c, url) THEN "send" ELSE "policy"

\* a credential that was cached or resolved: its scope, its expiry, a refresh
Verdict(q, c, url, safe) ==
    CASE ~MaterialApplies(c, url) -> "policy"
      [] MaterialApplies(c, url) /\ ~Expired(c, now) -> "send"
      [] MaterialApplies(c, url) /\ Expired(c, now) ->
           IF ~safe \/ ~MayRefresh(q, c) THEN "auth_expired"
           ELSE IF Binds(q.session, c) THEN "refresh" ELSE "auth_required"

UsesCredential(q, c, url, safe, Send(_)) ==
    LET verdict == Verdict(q, c, url, safe)
        p       == [q EXCEPT !.credential = c]
    IN  CASE verdict = "send"    -> Send(p)
          [] verdict = "refresh" -> [p EXCEPT !.pc = "get refresh"]
          [] OTHER               -> Fails(q, verdict)

\* a crawl reads the origin's robots.txt first, once per call of _request
AsksRobots(q, here) == [q EXCEPT !.pc = here, !.checked = now]

FirstGet(q) == IF q.job.crawl THEN AsksRobots(q, "get robots") ELSE SendsGet(q, TRUE, now)

\* a slot and the policy's verdict; then the cached credential, or the provider
GetAdmitted(r, allowed) ==
    LET q == run[r] IN
    /\ At(r, "get slot")
    /\ Local(r,
         CASE ~allowed -> Fails(q, "policy")
           [] allowed /\ q.credential # Nothing -> SendsGet(q, FALSE, now)
           [] allowed /\ q.credential = Nothing /\ (Anonymous(q.job) \/ q.job.ref = Nothing) ->
                FirstGet(q)
           [] allowed /\ q.credential = Nothing /\ ~Anonymous(q.job) /\ q.job.ref # Nothing ->
                IF q.material # Nothing THEN UsesCredential(q, q.material, q.job.target, TRUE, FirstGet)
                ELSE [q EXCEPT !.pc = "get credential"])

\* _resolve_credential
CredentialResolved(r) ==
    LET q == run[r]
        c == store.credentials[q.job.ref]
    IN  /\ At(r, "get credential")
        /\ Local(r, IF c = Nothing THEN Fails(q, "auth_required")
                    ELSE UsesCredential(q, c, q.job.target, TRUE, FirstGet))

\* a replacement before the first request is used at once; after a 401, the
\* loop starts over and waits for a slot again, but not for robots.txt
AfterRefresh(q) ==
    LET p == [q EXCEPT !.credential = q.material, !.refreshed = TRUE]
    IN  IF q.sent = Nothing \/ q.sent.credential = Nothing THEN FirstGet(p)
        ELSE [p EXCEPT !.pc = "get slot"]

CredentialRefreshed(r) == Refresh(r, "get refresh", run[r].credential, AfterRefresh)

\* _enforce_robots: a crawl goes on to wait for a slot of its own, ...
RobotsAllows(r) ==
    \/ At(r, "get robots")  /\ Local(r, [run[r] EXCEPT !.pc = "get admission"])
    \/ At(r, "form robots") /\ Local(r, [run[r] EXCEPT !.pc = "form admission"])

\* ... or robots.txt forbids the target, is too large or cannot be read
RobotsRefuses(r, code) ==
    /\ run[r].pc \in {"get robots", "form robots"}
    /\ Local(r, Fails(run[r], code))

\* the second slot; the credential is not looked at again
GetAdmittedAgain(r) ==
    /\ At(r, "get admission")
    /\ Local(r, SendsGet(run[r], TRUE, run[r].checked))

\* the deadline of a slot; _submit_form reports it as any OSError
SlotExpires(r) ==
    \/ run[r].pc \in {"get slot", "get admission"}   /\ Local(r, Fails(run[r], "budget_exhausted"))
    \/ run[r].pc \in {"form slot", "form admission"} /\ Local(r, Fails(run[r], "adapter_failed"))

\* 200, at the end of any redirects
PageReceived(r, url, page) ==
    /\ At(r, "get answer")
    /\ Local(r, AfterPage([run[r] EXCEPT !.source = url, !.page = page,
                                         !.attempt = "SUCCEEDED"]))

\* 401 with evidence of expiry: one refresh per call of _request
GetExpired(r) ==
    LET q == run[r]
        c == q.sent.credential
    IN  /\ At(r, "get answer")
        /\ c # Nothing /\ c.kind = "bearer_token"
        /\ Local(r,
             CASE q.refreshed \/ ~MayRefresh(q, c) -> Fails(q, "auth_expired")
               [] ~q.refreshed /\ MayRefresh(q, c) /\ ~Binds(q.session, c) ->
                    Fails(q, "auth_required")
               [] OTHER -> [q EXCEPT !.pc = "get refresh"])

\* any other 401 or 403, or an error that is not retried
GetRefused(r, code) ==
    /\ At(r, "get answer")
    /\ Local(r, Fails(run[r], code))

\* a lost connection or a 5xx, or a timeout of robots.txt: _with_retries calls
\* execute() again
GetRetried(r) ==
    /\ run[r].pc \in {"get robots", "get answer"}
    /\ Local(r, IF run[r].tries = HttpRetries THEN Fails(run[r], "adapter_failed")
                ELSE StartsGet([run[r] EXCEPT !.tries = @ + 1, !.sent = Nothing]))

----------------------------------------------------------------------------
(* _extract_csrf *)

\* cas.get answers: the token of the page, or the extraction fails
CsrfExtracted(r) ==
    LET q == run[r]
        t == ExtractCsrfToken(q.page, q.source)
    IN  /\ At(r, "csrf body")
        /\ Local(r, IF t = Nothing THEN Fails(q, "adapter_failed")
                    ELSE AfterCsrf([q EXCEPT !.csrf = t, !.attempt = "SUCCEEDED"]))

\* no html artifact with its resource, or it cannot be read back
CsrfUnavailable(r, code) ==
    /\ At(r, "csrf body")
    /\ Local(r, Fails(run[r], code))

----------------------------------------------------------------------------
(* _submit_form *)

FormPolicy(r, allowed) ==
    /\ At(r, "form policy")
    /\ Local(r, IF allowed /\ PolicyAllows(run[r].job, "form_submit")
                THEN [run[r] EXCEPT !.pc = "form proposal"] ELSE Fails(run[r], "policy"))

\* what follows _resolve_submission, up to the await of the action's policy
Proposed(q, p) ==
    CASE p.ref # q.job.ref -> Fails(q, "adapter_failed")
      [] p.ref = q.job.ref /\ ~SameOrigin(p.target, q.job.target) -> Fails(q, "policy")
      [] OTHER -> [q EXCEPT !.proposal = p, !.pc = "form action"]

\* mutant of ProposalConsumed: get() instead of pop()
ProposalRead(r) ==
    LET q == run[r]
        p == proposals[q.job.ref]
    IN  /\ At(r, "form proposal")
        /\ Becomes(r, IF p = Nothing \/ ~Authorized(p, now) THEN Fails(q, "dependency_missing")
                      ELSE Proposed(q, p))
        /\ UNCHANGED <<now, descriptors, store, proposals, submitted>>

\* consume() pops the proposal; one that lost its approval is gone all the same
ProposalConsumed(r) ==
    LET q == run[r]
        p == proposals[q.job.ref]
    IN  /\ At(r, "form proposal")
        /\ proposals' = [proposals EXCEPT ![q.job.ref] = Nothing]
        /\ Becomes(r, IF p = Nothing \/ ~Authorized(p, now) THEN Fails(q, "dependency_missing")
                      ELSE Proposed(q, p))
        /\ UNCHANGED <<now, descriptors, store, submitted>>

\* mutant of SameCsrf: the two tokens are not compared
SameCsrfForm(supplied, extracted) ==
    [supplied EXCEPT !.token = Nothing] = [extracted EXCEPT !.token = Nothing]

\* _same_csrf_material
SameCsrf(supplied, extracted) == supplied = extracted

\* _context_csrf: the token in the context still belongs to the page's resource
SourceBound(q) == q.csrf # Nothing => q.csrf.source = q.source

(* The two ways a token gets into the form: supplied, then it must be the  *)
(* one just extracted; or attached, and the proposal is built, and         *)
(* checked, anew.                                                          *)
WithCsrf(q) ==
    LET p == q.proposal IN
    CASE ~SourceBound(q) -> Nothing
      [] p.csrf # Nothing /\ (q.csrf = Nothing \/ ~SameCsrf(p.csrf, q.csrf)) -> Nothing
      [] p.csrf = Nothing /\ q.csrf # Nothing
           /\ ~TokenApplies(q.csrf, p.target, p.method) -> Nothing
      [] OTHER -> IF p.csrf # Nothing THEN p ELSE [p EXCEPT !.csrf = q.csrf]

\* the policy's verdict on the action; then CSRF, approval, payload
ActionAllowed(r, allowed) ==
    LET q == run[r]
        p == WithCsrf(q)
    IN  /\ At(r, "form action")
        /\ Local(r,
             CASE ~allowed -> Fails(q, "policy")
               [] allowed /\ p = Nothing -> Fails(q, "adapter_failed")
               [] allowed /\ p # Nothing /\ ~Authorized(p, now) -> Fails(q, "policy")
               [] OTHER -> [q EXCEPT !.proposal = p, !.pc = "form slot",
                                     !.credential = Nothing, !.refreshed = FALSE])

SendsForm(q, checked) ==
    [q EXCEPT !.pc = "form answer",
              !.sent = Wire(q, "form", q.proposal.target, TRUE, checked)]

FirstForm(q) == IF q.job.crawl THEN AsksRobots(q, "form robots") ELSE SendsForm(q, now)

\* the body is on the wire when the run waits for its answer
Submits(r, next) ==
    /\ Becomes(r, next)
    /\ submitted' = IF next.pc = "form answer"
                    THEN [submitted EXCEPT ![run[r].job.ref] = @ + 1] ELSE submitted
    /\ UNCHANGED <<now, descriptors, store, proposals>>

\* _request for the form: slot and policy, the session's credential, the body
FormAdmitted(r, allowed) ==
    LET q == run[r] IN
    /\ At(r, "form slot")
    /\ Submits(r,
         CASE ~allowed -> Fails(q, "policy")
           [] allowed /\ q.material = Nothing -> FirstForm(q)
           [] OTHER -> UsesCredential(q, q.material, q.proposal.target, FALSE, FirstForm))

\* a crawl's form after robots.txt; neither credential nor grant is looked at again
FormAdmittedAgain(r) ==
    /\ At(r, "form admission")
    /\ Submits(r, SendsForm(run[r], run[r].checked))

\* the response is stored; or it is an error, or the transport fails
FormAnswered(r) ==
    /\ At(r, "form answer")
    /\ Local(r, Ends("done", "SUCCEEDED", "none"))

FormRefused(r, code) ==
    /\ At(r, "form answer")
    /\ Local(r, Fails(run[r], code))

\* cas.put raises outside the try: the attempt stays RUNNING
FormStoreFails(r) ==
    /\ At(r, "form answer")
    /\ Local(r, Ends("failed", "RUNNING", "none"))

----------------------------------------------------------------------------
Over == {"idle", "done", "failed", "cancelled"}

\* cancel() or the deadline, at whatever await the run is
Cancel(r) ==
    /\ run[r].pc \notin Over
    /\ Local(r, Ends("cancelled", run[r].attempt, "none"))

Tick ==
    /\ now < MaxTime
    /\ now' = now + 1
    /\ UNCHANGED <<descriptors, store, proposals, run, submitted>>

Codes == {"auth_required", "adapter_failed"}

Session(r) ==
    \/ \E a \in BOOLEAN : SessionPolicy(r, a)
    \/ SessionResolved(r) \/ MaterialResolved(r) \/ SessionRefreshed(r)

Get(r) ==
    \/ \E a \in BOOLEAN : GetAdmitted(r, a)
    \/ CredentialResolved(r) \/ CredentialRefreshed(r) \/ GetAdmittedAgain(r)
    \/ \E u \in Destinations, p \in Pages : PageReceived(r, u, p)
    \/ GetExpired(r)
    \/ \E c \in Codes : GetRefused(r, c)
    \/ GetRetried(r)

Form(r) ==
    \/ CsrfExtracted(r)
    \/ \E c \in {"dependency_missing", "adapter_failed"} : CsrfUnavailable(r, c)
    \/ \E a \in BOOLEAN : FormPolicy(r, a) \/ ActionAllowed(r, a) \/ FormAdmitted(r, a)
    \/ ProposalConsumed(r) \/ FormAdmittedAgain(r)
    \/ FormAnswered(r) \/ FormStoreFails(r)
    \/ \E c \in Codes \cup {"auth_expired", "policy"} : FormRefused(r, c)

\* what the page's and the form's request have in common
Waits(r) ==
    \/ RobotsAllows(r)
    \/ \E c \in {"policy", "adapter_failed"} : RobotsRefuses(r, c)
    \/ SlotExpires(r)

Next ==
    \/ \E r \in Runs : \/ \E j \in Jobs : Begin(r, j)
                       \/ Session(r) \/ Get(r) \/ Form(r) \/ Waits(r)
                       \/ ProviderFails(r) \/ Cancel(r)
    \/ Tick

Spec == Init /\ [][Next]_vars

----------------------------------------------------------------------------
(* Properties *)

(* A proposal is used once.  Whatever the runs that share a reference do - *)
(* race for it, fail, retry the page, are cancelled between any two        *)
(* awaits - its body goes out at most once, and only from a run whose      *)
(* request approved form_submit, to the exact URL and with the method the  *)
(* grant names (consume() and _submit_form).                               *)
SubmittedOnce ==
    /\ \A k \in Refs : submitted[k] <= 1
    /\ \A r \in Runs : LET q == run[r] IN
          q.sent # Nothing /\ q.sent.what = "form" =>
             /\ q.job.approved
             /\ q.sent.url = q.proposal.approval.target
             /\ q.proposal.method = q.proposal.approval.method
             /\ SameOrigin(q.sent.url, q.job.target)

(* A form carries the token of the page this run fetched: one of that      *)
(* page's own fields, from the form's origin, for the exact action and     *)
(* method; and none at all when the run did not extract one (_context_csrf *)
(* and _same_csrf_material).                                               *)
TokenOfThisRun ==
    \A r \in Runs : LET q == run[r] IN
       q.sent # Nothing /\ q.sent.what = "form" =>
          IF q.job.csrf
          THEN /\ q.proposal.csrf \in AcceptedTokens(q.page, q.source)
               /\ TokenApplies(q.proposal.csrf, q.sent.url, q.proposal.method)
               /\ SameOrigin(q.source, q.sent.url)
          ELSE q.proposal.csrf = Nothing

(* Credentials are live and bound when they are used.  However long a run  *)
(* waits between its nodes, and whoever refreshes meanwhile, the first     *)
(* request of a call carries only material that was live by the local      *)
(* clock when _request looked (http.py:465).  Unless the run is a crawl it *)
(* is live when it leaves, too; a crawl alone may send what expired while  *)
(* it waited for robots.txt and its second slot (http.py:504, :602, :611), *)
(* where nothing looks again.  What a request carries is scoped to the     *)
(* origin it goes to, and is of a kind the session it validated allows     *)
(* (_validate_session, _request and the two refreshes).                    *)
CredentialLive ==
    \A r \in Runs : LET q == run[r] IN
       q.sent # Nothing /\ q.sent.credential # Nothing =>
          LET c == q.sent.credential IN
          /\ c.origin = CanonicalOrigin(q.sent.url)
          /\ q.sent.first => ~Expired(c, q.sent.checked)
          /\ q.sent.first /\ ~q.job.crawl => ~Expired(c, q.sent.at)
          /\ q.session # Nothing => Binds(q.session, c)

=============================================================================

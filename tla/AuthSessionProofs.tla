------------------------- MODULE AuthSessionProofs -------------------------
(***************************************************************************)
(* Proofs about AuthSession for any number of concurrent runs, references  *)
(* and providers' contents: a proposal is submitted once, a form carries   *)
(* the token of its own run, and credentials are live and bound.           *)
(*                                                                         *)
(* The invariant says what a run carries at each of its awaits, and which  *)
(* run owns a proposal that has left the provider.                         *)
(***************************************************************************)
EXTENDS AuthSession, FiniteSetTheorems, TLAPS

Fields == {"pc", "job", "attempt", "failure", "session", "material", "credential",
           "refreshed", "checked", "tries", "source", "page", "csrf", "proposal", "sent"}
Shaped(q) == DOMAIN q = Fields

InSession == {"session policy", "session descriptor", "session material", "session refresh"}
InGet     == {"get slot", "get credential", "get refresh", "get robots", "get admission",
              "get answer"}
InForm    == {"form policy", "form proposal", "form action", "form slot", "form robots",
              "form admission", "form answer"}

\* What was sent last: its credential is of its origin, bound, was live when it
\* was checked, and is live when it leaves unless a crawl waited in between.
SentInv(q) ==
    q.sent # Nothing /\ q.sent.credential # Nothing =>
      /\ q.sent.credential.origin = CanonicalOrigin(q.sent.url)
      /\ q.sent.first => ~Expired(q.sent.credential, q.sent.checked)
      /\ q.sent.first /\ ~q.job.crawl => ~Expired(q.sent.credential, q.sent.at)
      /\ q.session # Nothing => Binds(q.session, q.sent.credential)

\* A run with a session has material that is bound to it.
Carries(q) ==
    /\ q.job \in Jobs
    /\ q.session # Nothing => q.material # Nothing /\ Binds(q.session, q.material)
    /\ q.session # Nothing /\ q.credential # Nothing => Binds(q.session, q.credential)
    /\ SentInv(q)

\* A crawl that waits for robots.txt or its second slot has checked its credential.
Waiting    == {"get robots", "get admission", "form robots", "form admission"}
Checked(q) == q.job.crawl /\ (q.credential # Nothing => ~Expired(q.credential, q.checked))

NoForm(q) == q.sent # Nothing => q.sent.what # "form"

\* Before the page is asked for.
SessionInv(q) ==
    /\ q.job \in Jobs
    /\ q.sent = Nothing /\ q.credential = Nothing /\ q.csrf = Nothing
    /\ q.pc # "session refresh" => q.material = Nothing

\* While the page is asked for; then its token is looked for.
GetInv(q) ==
    /\ Carries(q) /\ NoForm(q) /\ q.csrf = Nothing
    /\ q.pc = "get credential" => q.material = Nothing
    /\ q.pc \in Waiting => Checked(q)
    /\ q.pc = "csrf body" => q.job.csrf /\ q.page \in Pages

\* The token of the page, if the job has one.
HasToken(q) ==
    IF q.job.csrf THEN q.csrf # Nothing /\ q.page \in Pages /\ q.csrf \in AcceptedTokens(q.page, q.source)
                  ELSE q.csrf = Nothing

\* A proposal as the provider holds it, and as it may be sent.
Sound(p) ==
    /\ IsSubmission(p) /\ IsUrl(p.target) /\ p.target = NormalizeUrl(p.target)
    /\ p.csrf # Nothing => TokenApplies(p.csrf, p.target, p.method)
Sendable(q) ==
    /\ q.proposal.target = q.proposal.approval.target
    /\ q.proposal.method = q.proposal.approval.method
    /\ q.proposal.csrf = q.csrf

\* While the form is prepared, and when it was sent.
FormInv(q) ==
    /\ Carries(q) /\ HasToken(q) /\ q.job.approved /\ q.job.ref \in Refs
    /\ q.pc # "form answer" => NoForm(q)
    /\ q.pc \notin {"form policy", "form proposal"} =>
          Sound(q.proposal) /\ SameOrigin(q.proposal.target, q.job.target)
    /\ q.pc \notin {"form policy", "form proposal", "form action"} => Sendable(q)
    /\ q.pc \in Waiting => Checked(q)
    /\ q.pc = "form slot" => q.credential = Nothing
    /\ q.pc = "form answer" => q.sent.url = q.proposal.target

RunInv(q) ==
    /\ Shaped(q)
    /\ q.pc \in Over \cup InSession \cup InGet \cup {"csrf body"} \cup InForm
    /\ q.pc \in Over => q.sent = Nothing
    /\ q.pc \in InSession => SessionInv(q)
    /\ q.pc \in InGet \cup {"csrf body"} => GetInv(q)
    /\ q.pc \in InForm => FormInv(q)

\* A run owns the proposal of its reference from consume() until it is sent.
Owning == {"form action", "form slot", "form robots", "form admission"}
OwnerInv ==
    /\ DOMAIN proposals = Refs /\ submitted \in [Refs -> {0, 1}]
    /\ \A k \in Refs : proposals[k] # Nothing => submitted[k] = 0 /\ Sound(proposals[k])
    /\ \A r \in Runs : run[r].pc \in Owning =>
          submitted[run[r].job.ref] = 0 /\ proposals[run[r].job.ref] = Nothing
    /\ \A r, s \in Runs : run[r].pc \in Owning /\ run[s].pc \in Owning
                            /\ run[r].job.ref = run[s].job.ref => r = s

AuthInv ==
    /\ DOMAIN run = Runs
    /\ \A r \in Runs : RunInv(run[r])
    /\ OwnerInv

----------------------------------------------------------------------------
\* A run that is over, however it ended, carries nothing.
LEMMA EndsIsGood ==
    ASSUME NEW pc \in Over, NEW attempt, NEW code
    PROVE  RunInv(Ends(pc, attempt, code)) /\ Ends(pc, attempt, code).pc \notin Owning
<1>1. Shaped(Idle) /\ Idle.sent = Nothing
  BY DEF Shaped, Idle, Fields
<1>2. PICK n : n = Ends(pc, attempt, code)
  OBVIOUS
<1>3. Shaped(n) /\ n.pc = pc /\ n.sent = Nothing
  BY <1>1, <1>2 DEF Ends, Shaped, Fields
<1> QED
  BY <1>2, <1>3 DEF RunInv, Over, InSession, InGet, InForm, Owning, Waiting

\* A run that failed carries nothing either.
LEMMA FailsIsGood ==
    ASSUME NEW q, NEW code
    PROVE  RunInv(Fails(q, code)) /\ Fails(q, code).pc \notin Owning
  BY EndsIsGood DEF Fails, Over

\* The page's request begins.
LEMMA StartsGetIsGood ==
    ASSUME NEW q, Shaped(q), q.job \in Jobs, q.csrf = Nothing, q.sent = Nothing,
           q.session # Nothing => q.material # Nothing /\ Binds(q.session, q.material)
    PROVE  RunInv(StartsGet(q)) /\ StartsGet(q).pc \notin Owning
<1>1. PICK s : s = Starts(q, "get slot")
  OBVIOUS
<1>2. /\ Shaped(s) /\ s.pc = "get slot" /\ s.job = q.job /\ s.session = q.session
      /\ s.material = q.material /\ s.csrf = q.csrf /\ s.sent = q.sent
  BY <1>1 DEF Starts, Shaped, Fields
<1>3. PICK n : n = [s EXCEPT !.credential = Nothing, !.refreshed = FALSE]
  OBVIOUS
<1>4. /\ Shaped(n) /\ n.pc = "get slot" /\ n.job = s.job /\ n.session = s.session
      /\ n.material = s.material /\ n.csrf = s.csrf /\ n.sent = s.sent /\ n.credential = Nothing
  BY <1>2, <1>3 DEF Shaped, Fields
<1>5. GetInv(n)
  BY <1>2, <1>4 DEF GetInv, Carries, SentInv, NoForm, Waiting
<1>6. RunInv(n) /\ n.pc \notin Owning
  BY <1>4, <1>5 DEF RunInv, Over, InSession, InGet, InForm, Owning, Waiting
<1> QED
  BY <1>1, <1>3, <1>6 DEF StartsGet

\* The form node is next, or the run is over.
LEMMA AfterCsrfIsGood ==
    ASSUME NEW q, Shaped(q), Carries(q), NoForm(q), HasToken(q)
    PROVE  RunInv(AfterCsrf(q)) /\ AfterCsrf(q).pc \notin Owning
<1>1. AfterCsrf(q) \in {Ends("done", q.attempt, "none"), Ends("failed", q.attempt, "policy")}
         \/ (q.job.approved /\ AfterCsrf(q) = StartsWithReference(q, "form policy"))
  BY DEF AfterCsrf
<1>2. PICK n : n = Starts(q, "form policy")
  OBVIOUS
<1>3. /\ Shaped(n) /\ n.pc = "form policy" /\ n.job = q.job /\ n.session = q.session
      /\ n.material = q.material /\ n.csrf = q.csrf /\ n.sent = q.sent
      /\ n.credential = q.credential /\ n.page = q.page /\ n.source = q.source
  BY <1>2 DEF Starts, Shaped, Fields
<1>4. CASE q.job.approved /\ q.job.ref # Nothing
  <2>1. q.job.ref \in Refs
    BY <1>4, SessionAssumption DEF Carries
  <2>2. FormInv(n)
    BY <1>3, <1>4, <2>1 DEF FormInv, Carries, SentInv, NoForm, HasToken, Waiting
  <2>3. RunInv(n) /\ n.pc \notin Owning
    BY <1>3, <2>2 DEF RunInv, Over, InSession, InGet, InForm, Owning, Waiting
  <2>4. StartsWithReference(q, "form policy") = n
    BY <1>2, <1>4 DEF StartsWithReference
  <2> QED
    BY <1>1, <2>3, <2>4, EndsIsGood DEF Over
<1>5. CASE q.job.ref = Nothing
  BY <1>1, <1>5, EndsIsGood, FailsIsGood DEF Over, StartsWithReference
<1> QED
  BY <1>1, <1>4, <1>5, EndsIsGood DEF Over

\* The page's request leaves: a credential that is of its origin goes along,
\* and a first one was found live.
LEMMA SendsGetIsGood ==
    ASSUME NEW q, Shaped(q), Carries(q), q.csrf = Nothing, NEW first, NEW checked,
           first /\ q.credential # Nothing =>
             ~Expired(q.credential, checked) /\ (q.job.crawl \/ checked = now)
    PROVE  RunInv(SendsGet(q, first, checked)) /\ SendsGet(q, first, checked).pc \notin Owning
<1>1. PICK w : w = Wire(q, "get", NormalizeUrl(q.job.target), first, checked)
  OBVIOUS
<1>2. /\ w.what = "get" /\ w.first = first /\ w.at = now /\ w.checked = checked
      /\ w.credential # Nothing =>
            w.credential = q.credential /\ w.credential.origin = CanonicalOrigin(w.url)
  BY <1>1 DEF Wire, MaterialApplies
<1>3. PICK n : n = [q EXCEPT !.pc = "get answer", !.sent = w]
  OBVIOUS
<1>4. /\ Shaped(n) /\ n.pc = "get answer" /\ n.job = q.job /\ n.session = q.session
      /\ n.material = q.material /\ n.csrf = q.csrf /\ n.sent = w /\ n.credential = q.credential
  BY <1>3 DEF Shaped, Fields
<1>5. GetInv(n)
  BY <1>2, <1>4 DEF GetInv, Carries, SentInv, NoForm, Waiting
<1>6. RunInv(n) /\ n.pc \notin Owning
  BY <1>4, <1>5 DEF RunInv, Over, InSession, InGet, InForm, Owning, Waiting
<1> QED
  BY <1>1, <1>3, <1>6 DEF SendsGet

\* A live credential is sent at once, or after the crawl's robots.txt.
LEMMA FirstGetIsGood ==
    ASSUME NEW q, Shaped(q), Carries(q), NoForm(q), q.csrf = Nothing,
           q.credential # Nothing => ~Expired(q.credential, now)
    PROVE  RunInv(FirstGet(q)) /\ FirstGet(q).pc \notin Owning
<1>1. CASE q.job.crawl
  <2>1. PICK n : n = AsksRobots(q, "get robots")
    OBVIOUS
  <2>2. /\ Shaped(n) /\ n.pc = "get robots" /\ n.job = q.job /\ n.session = q.session
        /\ n.material = q.material /\ n.csrf = q.csrf /\ n.sent = q.sent
        /\ n.credential = q.credential /\ n.checked = now
    BY <2>1 DEF AsksRobots, Shaped, Fields
  <2>3. GetInv(n)
    BY <1>1, <2>2 DEF GetInv, Carries, SentInv, NoForm, Checked
  <2>4. RunInv(n) /\ n.pc \notin Owning
    BY <2>2, <2>3 DEF RunInv, Over, InSession, InGet, InForm, Owning, Waiting
  <2> QED
    BY <1>1, <2>1, <2>4 DEF FirstGet
<1>2. CASE ~q.job.crawl
  BY <1>2, SendsGetIsGood DEF FirstGet
<1> QED
  BY <1>1, <1>2

\* A credential is sent when it is live, refreshed when it may be, or refused.
LEMMA UsesForGetIsGood ==
    ASSUME NEW q, Shaped(q), Carries(q), NoForm(q), q.csrf = Nothing, NEW c,
           q.session # Nothing => Binds(q.session, c)
    PROVE  LET n == UsesCredential(q, c, q.job.target, TRUE, FirstGet)
           IN  RunInv(n) /\ n.pc \notin Owning
<1>1. PICK p : p = [q EXCEPT !.credential = c]
  OBVIOUS
<1>2. /\ Shaped(p) /\ p.job = q.job /\ p.session = q.session /\ p.material = q.material
      /\ p.csrf = q.csrf /\ p.sent = q.sent /\ p.credential = c
  BY <1>1 DEF Shaped, Fields
<1>3. Carries(p) /\ NoForm(p) /\ p.csrf = Nothing
  BY <1>2 DEF Carries, SentInv, NoForm
<1>4. PICK verdict : verdict = Verdict(q, c, q.job.target, TRUE)
  OBVIOUS
<1>5. CASE verdict = "send"
  <2>1. ~Expired(c, now)
    BY <1>4, <1>5 DEF Verdict
  <2>2. RunInv(FirstGet(p)) /\ FirstGet(p).pc \notin Owning
    BY <1>2, <1>3, <2>1, FirstGetIsGood
  <2> QED
    BY <1>1, <1>4, <1>5, <2>2 DEF UsesCredential
<1>6. CASE verdict = "refresh"
  <2>1. PICK n : n = [p EXCEPT !.pc = "get refresh"]
    OBVIOUS
  <2>2. /\ Shaped(n) /\ n.pc = "get refresh" /\ n.job = p.job /\ n.session = p.session
        /\ n.material = p.material /\ n.csrf = p.csrf /\ n.sent = p.sent
        /\ n.credential = p.credential
    BY <1>2, <2>1 DEF Shaped, Fields
  <2>3. GetInv(n)
    BY <1>3, <2>2 DEF GetInv, Carries, SentInv, NoForm, Waiting
  <2>4. RunInv(n) /\ n.pc \notin Owning
    BY <2>2, <2>3 DEF RunInv, Over, InSession, InGet, InForm, Owning, Waiting
  <2> QED
    BY <1>1, <1>4, <1>6, <2>1, <2>4 DEF UsesCredential
<1>7. CASE verdict \notin {"send", "refresh"}
  BY <1>4, <1>7, FailsIsGood DEF UsesCredential
<1> QED
  BY <1>5, <1>6, <1>7

----------------------------------------------------------------------------
\* A run takes a step of its own: the other runs and the proposals are as they were.
LEMMA OwnStepKeepsInv ==
    ASSUME AuthInv, NEW r \in Runs, NEW n, Becomes(r, n), RunInv(n),
           UNCHANGED <<proposals, submitted>>,
           n.pc \in Owning => run[r].pc \in Owning /\ n.job = run[r].job
    PROVE  AuthInv'
<1>1. DOMAIN run' = Runs /\ \A s \in Runs : run'[s] = IF s = r THEN n ELSE run[s]
  BY DEF AuthInv, Becomes
<1>2. \A s \in Runs : RunInv(run'[s])
  BY <1>1 DEF AuthInv
<1>3. OwnerInv'
  BY <1>1 DEF AuthInv, OwnerInv
<1> QED
  BY <1>1, <1>2, <1>3 DEF AuthInv

\* Where a step fails, the run is over.
LEMMA FailureKeepsInv ==
    ASSUME AuthInv, NEW r \in Runs, NEW q, NEW code, Becomes(r, Fails(q, code)),
           UNCHANGED <<proposals, submitted>>
    PROVE  AuthInv'
  BY FailsIsGood, OwnStepKeepsInv

\* A run begins without a session, and owns no proposal.
LEMMA BeginKeepsInv ==
    ASSUME AuthInv, NEW r \in Runs, NEW job \in Jobs, Begin(r, job)
    PROVE  AuthInv'
<1>1. PICK q : q = [Idle EXCEPT !.job = job]
  OBVIOUS
<1>2. /\ Shaped(q) /\ q.job = job /\ q.session = Nothing /\ q.material = Nothing
      /\ q.credential = Nothing /\ q.csrf = Nothing /\ q.sent = Nothing
  BY <1>1 DEF Idle, Shaped, Fields
<1>3. CASE job.session = "none"
  <2>1. Becomes(r, StartsGet(q))
    BY <1>1, <1>3 DEF Begin, Local
  <2> QED
    BY <1>2, <2>1, StartsGetIsGood, OwnStepKeepsInv DEF Begin, Local
<1>4. CASE job.session # "none" /\ job.ref = Nothing
  <2>1. Becomes(r, Fails(q, "auth_required"))
    BY <1>1, <1>2, <1>4 DEF Begin, Local, StartsWithReference
  <2> QED
    BY <2>1, FailureKeepsInv DEF Begin, Local
<1>5. CASE job.session # "none" /\ job.ref # Nothing
  <2>1. PICK n : n = Starts(q, "session policy")
    OBVIOUS
  <2>2. Becomes(r, n)
    BY <1>1, <1>2, <1>5, <2>1 DEF Begin, Local, StartsWithReference
  <2>3. /\ Shaped(n) /\ n.pc = "session policy" /\ n.job = q.job /\ n.material = q.material
        /\ n.credential = q.credential /\ n.csrf = q.csrf /\ n.sent = q.sent
    BY <1>2, <2>1 DEF Starts, Shaped, Fields
  <2>4. SessionInv(n)
    BY <1>2, <2>3 DEF SessionInv
  <2>5. RunInv(n) /\ n.pc \notin Owning
    BY <2>3, <2>4 DEF RunInv, Over, InSession, InGet, InForm, Owning, Waiting
  <2> QED
    BY <2>2, <2>5, OwnStepKeepsInv DEF Begin, Local
<1> QED
  BY <1>3, <1>4, <1>5

\* _validate_session: policy, descriptor, material, refresh.
LEMMA SessionKeepsInv ==
    ASSUME AuthInv, NEW r \in Runs, Session(r)
    PROVE  AuthInv'
<1>1. PICK q : q = run[r]
  OBVIOUS
<1>2. RunInv(q) /\ Shaped(q)
  BY <1>1 DEF AuthInv, RunInv
<1>3. CASE \E a \in BOOLEAN : SessionPolicy(r, a)
  <2>1. PICK n : n = [q EXCEPT !.pc = "session descriptor"]
    OBVIOUS
  <2>2. Becomes(r, n) \/ Becomes(r, Fails(q, "policy"))
    BY <1>1, <1>3, <2>1 DEF SessionPolicy, Local
  <2>3. /\ Shaped(n) /\ n.pc = "session descriptor" /\ n.job = q.job /\ n.material = q.material
        /\ n.credential = q.credential /\ n.csrf = q.csrf /\ n.sent = q.sent
    BY <1>2, <2>1 DEF Shaped, Fields
  <2>4. q.pc = "session policy"
    BY <1>1, <1>3 DEF SessionPolicy, At
  <2>5. SessionInv(n)
    BY <1>2, <2>3, <2>4 DEF RunInv, SessionInv, InSession
  <2>6. RunInv(n) /\ n.pc \notin Owning
    BY <2>3, <2>5 DEF RunInv, Over, InSession, InGet, InForm, Owning, Waiting
  <2>7. UNCHANGED <<proposals, submitted>>
    BY <1>3 DEF SessionPolicy, Local
  <2> QED
    BY <2>2, <2>6, <2>7, FailureKeepsInv, OwnStepKeepsInv
<1>4. CASE SessionResolved(r)
  <2>1. PICK s : s = descriptors[q.job.ref]
    OBVIOUS
  <2>2. PICK n : n = [q EXCEPT !.session = s, !.pc = "session material"]
    OBVIOUS
  <2>3. Becomes(r, n) \/ \E code : Becomes(r, Fails(q, code))
    BY <1>1, <1>4, <2>1, <2>2 DEF SessionResolved, Local
  <2>4. /\ Shaped(n) /\ n.pc = "session material" /\ n.job = q.job /\ n.material = q.material
        /\ n.credential = q.credential /\ n.csrf = q.csrf /\ n.sent = q.sent
    BY <1>2, <2>2 DEF Shaped, Fields
  <2>5. q.pc = "session descriptor"
    BY <1>1, <1>4 DEF SessionResolved, At
  <2>6. SessionInv(n)
    BY <1>2, <2>4, <2>5 DEF RunInv, SessionInv, InSession
  <2>7. RunInv(n) /\ n.pc \notin Owning
    BY <2>4, <2>6 DEF RunInv, Over, InSession, InGet, InForm, Owning, Waiting
  <2>8. UNCHANGED <<proposals, submitted>>
    BY <1>4 DEF SessionResolved, Local
  <2> QED
    BY <2>3, <2>7, <2>8, FailureKeepsInv, OwnStepKeepsInv
<1>5. ASSUME NEW c, c # Nothing, Binds(q.session, c), q.pc \in InSession
      PROVE  LET n == Validated([q EXCEPT !.material = c]) IN RunInv(n) /\ n.pc \notin Owning
  <2>1. PICK m : m = [q EXCEPT !.material = c]
    OBVIOUS
  <2>2. /\ Shaped(m) /\ m.job = q.job /\ m.material = c /\ m.session = q.session
        /\ m.csrf = q.csrf /\ m.sent = q.sent
    BY <1>2, <2>1 DEF Shaped, Fields
  <2>3. PICK n : n = [m EXCEPT !.attempt = "SUCCEEDED"]
    OBVIOUS
  <2>4. /\ Shaped(n) /\ n.job = m.job /\ n.material = m.material /\ n.session = m.session
        /\ n.csrf = m.csrf /\ n.sent = m.sent
    BY <2>2, <2>3 DEF Shaped, Fields
  <2>5. q.job \in Jobs /\ q.csrf = Nothing /\ q.sent = Nothing
    BY <1>2, <1>5 DEF RunInv, SessionInv
  <2>6. RunInv(StartsGet(n)) /\ StartsGet(n).pc \notin Owning
    BY <1>5, <2>2, <2>4, <2>5, StartsGetIsGood
  <2> QED
    BY <2>1, <2>3, <2>6 DEF Validated
<1>6. CASE MaterialResolved(r)
  <2>1. q.pc = "session material" /\ UNCHANGED <<proposals, submitted>>
    BY <1>1, <1>6 DEF MaterialResolved, At, Local
  <2>2. PICK c : c = store.credentials[q.job.ref]
    OBVIOUS
  <2>3. CASE c = Nothing \/ ~Binds(q.session, c)
    BY <1>1, <1>6, <2>1, <2>2, <2>3, FailureKeepsInv DEF MaterialResolved, Local
  <2>4. CASE c # Nothing /\ Binds(q.session, c)
    <3>1. Becomes(r, AfterMaterial(q, c))
      BY <1>1, <1>6, <2>2, <2>4 DEF MaterialResolved, Local
    <3>2. PICK n : n = [q EXCEPT !.material = c, !.pc = "session refresh"]
      OBVIOUS
    <3>3. /\ Shaped(n) /\ n.pc = "session refresh" /\ n.job = q.job
          /\ n.credential = q.credential /\ n.csrf = q.csrf /\ n.sent = q.sent
      BY <1>2, <3>2 DEF Shaped, Fields
    <3>4. SessionInv(n)
      BY <1>2, <2>1, <3>3 DEF RunInv, SessionInv, InSession
    <3>5. RunInv(n) /\ n.pc \notin Owning
      BY <3>3, <3>4 DEF RunInv, Over, InSession, InGet, InForm, Owning, Waiting
    <3>6. AfterMaterial(q, c) \in {n, Fails(q, "auth_expired"), Validated([q EXCEPT !.material = c])}
      BY <3>2 DEF AfterMaterial
    <3>7. q.pc \in InSession
      BY <2>1 DEF InSession
    <3> QED
      BY <1>5, <2>1, <2>4, <3>1, <3>5, <3>6, <3>7, FailsIsGood, OwnStepKeepsInv
  <2> QED
    BY <2>3, <2>4
<1>7. CASE SessionRefreshed(r)
  <2>1. q.pc \in InSession /\ UNCHANGED <<proposals, submitted>>
    BY <1>1, <1>7 DEF SessionRefreshed, Refresh, At, InSession
  <2>2. PICK c : c = store.refreshed[q.session.refreshRef]
    OBVIOUS
  <2>3. PICK reason : reason = RefreshRefused(q, q.material, c)
    OBVIOUS
  <2>4. Becomes(r, IF reason = "none" THEN Validated([q EXCEPT !.material = c]) ELSE Fails(q, reason))
    BY <1>1, <1>7, <2>2, <2>3 DEF SessionRefreshed, Refresh
  <2>5. reason = "none" => c # Nothing /\ Binds(q.session, c)
    BY <2>3 DEF RefreshRefused
  <2> QED
    BY <1>5, <2>1, <2>4, <2>5, FailsIsGood, OwnStepKeepsInv
<1> QED
  BY <1>3, <1>4, <1>6, <1>7 DEF Session

\* A replacement is bound and live: it is sent at once, or after another slot.
LEMMA AfterRefreshIsGood ==
    ASSUME NEW q, Shaped(q), GetInv(q), NEW c, c # Nothing,
           q.session # Nothing => Binds(q.session, c), ~Expired(c, now)
    PROVE  LET n == AfterRefresh([q EXCEPT !.material = c])
           IN  RunInv(n) /\ n.pc \notin Owning
<1>1. PICK m : m = [q EXCEPT !.material = c]
  OBVIOUS
<1>2. /\ Shaped(m) /\ m.job = q.job /\ m.session = q.session /\ m.material = c
      /\ m.csrf = q.csrf /\ m.sent = q.sent
  BY <1>1 DEF Shaped, Fields
<1>3. PICK p : p = [m EXCEPT !.credential = m.material, !.refreshed = TRUE]
  OBVIOUS
<1>4. /\ Shaped(p) /\ p.job = m.job /\ p.session = m.session /\ p.material = m.material
      /\ p.csrf = m.csrf /\ p.sent = m.sent /\ p.credential = m.material
  BY <1>2, <1>3 DEF Shaped, Fields
<1>5. Carries(p) /\ NoForm(p) /\ p.csrf = Nothing /\ p.credential = c
  BY <1>2, <1>4 DEF GetInv, Carries, SentInv, NoForm
<1>6. RunInv(FirstGet(p)) /\ FirstGet(p).pc \notin Owning
  BY <1>4, <1>5, FirstGetIsGood
<1>7. PICK n : n = [p EXCEPT !.pc = "get slot"]
  OBVIOUS
<1>8. /\ Shaped(n) /\ n.pc = "get slot" /\ n.job = p.job /\ n.session = p.session
      /\ n.material = p.material /\ n.csrf = p.csrf /\ n.sent = p.sent
      /\ n.credential = p.credential
  BY <1>4, <1>7 DEF Shaped, Fields
<1>9. GetInv(n)
  BY <1>5, <1>8 DEF GetInv, Carries, SentInv, NoForm, Waiting
<1>10. RunInv(n) /\ n.pc \notin Owning
  BY <1>8, <1>9 DEF RunInv, Over, InSession, InGet, InForm, Owning, Waiting
<1>11. AfterRefresh(m) \in {FirstGet(p), n}
  BY <1>3, <1>7 DEF AfterRefresh
<1> QED
  BY <1>1, <1>6, <1>10, <1>11

\* The page arrived: its token is looked for, or the form is next.
LEMMA AfterPageIsGood ==
    ASSUME NEW q, Shaped(q), GetInv(q), NEW url, NEW page \in Pages
    PROVE  LET n == AfterPage([q EXCEPT !.source = url, !.page = page, !.attempt = "SUCCEEDED"])
           IN  RunInv(n) /\ n.pc \notin Owning
<1>1. PICK m : m = [q EXCEPT !.source = url, !.page = page, !.attempt = "SUCCEEDED"]
  OBVIOUS
<1>2. /\ Shaped(m) /\ m.job = q.job /\ m.session = q.session /\ m.material = q.material
      /\ m.csrf = q.csrf /\ m.sent = q.sent /\ m.credential = q.credential /\ m.page = page
  BY <1>1 DEF Shaped, Fields
<1>3. Carries(m) /\ NoForm(m) /\ m.csrf = Nothing
  BY <1>2 DEF GetInv, Carries, SentInv, NoForm
<1>4. CASE m.job.csrf
  <2>1. PICK n : n = Starts(m, "csrf body")
    OBVIOUS
  <2>2. /\ Shaped(n) /\ n.pc = "csrf body" /\ n.job = m.job /\ n.session = m.session
        /\ n.material = m.material /\ n.csrf = m.csrf /\ n.sent = m.sent
        /\ n.credential = m.credential /\ n.page = m.page
    BY <1>2, <2>1 DEF Starts, Shaped, Fields
  <2>3. GetInv(n)
    BY <1>2, <1>3, <1>4, <2>2 DEF GetInv, Carries, SentInv, NoForm, Waiting
  <2>4. RunInv(n) /\ n.pc \notin Owning
    BY <2>2, <2>3 DEF RunInv, Over, InSession, InGet, InForm, Owning, Waiting
  <2> QED
    BY <1>1, <1>4, <2>1, <2>4 DEF AfterPage
<1>5. CASE ~m.job.csrf
  <2>1. HasToken(m)
    BY <1>3, <1>5 DEF HasToken
  <2>2. RunInv(AfterCsrf(m)) /\ AfterCsrf(m).pc \notin Owning
    BY <1>2, <1>3, <2>1, AfterCsrfIsGood
  <2> QED
    BY <1>1, <1>5, <2>2 DEF AfterPage
<1> QED
  BY <1>4, <1>5

\* HTTPAdapter._request for the page.
LEMMA GetKeepsInv ==
    ASSUME AuthInv, NEW r \in Runs, Get(r)
    PROVE  AuthInv'
<1>1. PICK q : q = run[r]
  OBVIOUS
<1>2. RunInv(q) /\ Shaped(q)
  BY <1>1 DEF AuthInv, RunInv
<1>3. q.pc \in InGet /\ UNCHANGED <<proposals, submitted>>
  BY <1>1 DEF Get, GetAdmitted, CredentialResolved, CredentialRefreshed, Refresh, PageReceived,
     GetExpired, GetRefused, GetRetried, GetAdmittedAgain, At, Local, InGet
<1>4. GetInv(q) /\ Carries(q) /\ NoForm(q) /\ q.csrf = Nothing
  BY <1>2, <1>3 DEF RunInv, GetInv
<1>5. ASSUME NEW n, Becomes(r, n), RunInv(n) /\ n.pc \notin Owning
      PROVE  AuthInv'
  BY <1>3, <1>5, OwnStepKeepsInv
<1>6. ASSUME NEW there \in InGet \ Waiting, there = "get credential" => q.material = Nothing
      PROVE  RunInv([q EXCEPT !.pc = there])
  <2>1. PICK n : n = [q EXCEPT !.pc = there]
    OBVIOUS
  <2>2. /\ Shaped(n) /\ n.pc = there /\ n.job = q.job /\ n.session = q.session
        /\ n.material = q.material /\ n.csrf = q.csrf /\ n.sent = q.sent
        /\ n.credential = q.credential
    BY <1>2, <2>1 DEF Shaped, Fields
  <2>3. GetInv(n)
    BY <1>4, <1>6, <2>2 DEF GetInv, Carries, SentInv, NoForm, InGet, Waiting
  <2> QED
    BY <1>6, <2>1, <2>2, <2>3 DEF RunInv, Over, InSession, InGet, InForm, Waiting
<1>7. CASE \E a \in BOOLEAN : GetAdmitted(r, a)
  <2>1. \/ Becomes(r, Fails(q, "policy"))
        \/ Becomes(r, SendsGet(q, FALSE, now))
        \/ q.credential = Nothing /\ Becomes(r, FirstGet(q))
        \/ q.material # Nothing
             /\ Becomes(r, UsesCredential(q, q.material, q.job.target, TRUE, FirstGet))
        \/ q.material = Nothing /\ Becomes(r, [q EXCEPT !.pc = "get credential"])
    BY <1>1, <1>7 DEF GetAdmitted, Local
  <2>2. RunInv(SendsGet(q, FALSE, now)) /\ SendsGet(q, FALSE, now).pc \notin Owning
    BY <1>2, <1>4, SendsGetIsGood
  <2>3. q.credential = Nothing => RunInv(FirstGet(q)) /\ FirstGet(q).pc \notin Owning
    BY <1>2, <1>4, FirstGetIsGood
  <2>4. q.material # Nothing =>
          LET n == UsesCredential(q, q.material, q.job.target, TRUE, FirstGet)
          IN  RunInv(n) /\ n.pc \notin Owning
    BY <1>2, <1>4, UsesForGetIsGood DEF Carries
  <2>5. q.material = Nothing =>
          RunInv([q EXCEPT !.pc = "get credential"]) /\ [q EXCEPT !.pc = "get credential"].pc \notin Owning
    <3>1. PICK n : n = [q EXCEPT !.pc = "get credential"]
      OBVIOUS
    <3>2. q.material = Nothing => RunInv(n)
      BY <1>6, <3>1 DEF InGet, Waiting
    <3>3. n.pc \notin Owning
      BY <1>2, <3>1 DEF Owning, Shaped, Fields
    <3> QED
      BY <3>1, <3>2, <3>3
  <2> QED
    BY <1>5, <2>1, <2>2, <2>3, <2>4, <2>5, FailsIsGood
<1>8. CASE CredentialResolved(r)
  <2>1. PICK c : c = store.credentials[q.job.ref]
    OBVIOUS
  <2>2. q.session = Nothing
    BY <1>1, <1>4, <1>8 DEF CredentialResolved, At, GetInv, Carries
  <2>3. Becomes(r, Fails(q, "auth_required"))
          \/ Becomes(r, UsesCredential(q, c, q.job.target, TRUE, FirstGet))
    BY <1>1, <1>8, <2>1 DEF CredentialResolved, Local
  <2>4. LET n == UsesCredential(q, c, q.job.target, TRUE, FirstGet)
        IN  RunInv(n) /\ n.pc \notin Owning
    BY <1>2, <1>4, <2>2, UsesForGetIsGood
  <2> QED
    BY <1>5, <2>3, <2>4, FailsIsGood
<1>9. CASE CredentialRefreshed(r)
  <2>1. PICK c : c = store.refreshed[q.session.refreshRef]
    OBVIOUS
  <2>2. PICK reason : reason = RefreshRefused(q, q.credential, c)
    OBVIOUS
  <2>3. Becomes(r, IF reason = "none" THEN AfterRefresh([q EXCEPT !.material = c]) ELSE Fails(q, reason))
    BY <1>1, <1>9, <2>1, <2>2 DEF CredentialRefreshed, Refresh
  <2>4. reason = "none" => c # Nothing /\ Binds(q.session, c) /\ ~Expired(c, now)
    BY <2>2 DEF RefreshRefused
  <2>5. reason = "none" => LET n == AfterRefresh([q EXCEPT !.material = c])
                           IN  RunInv(n) /\ n.pc \notin Owning
    BY <1>2, <1>4, <2>4, AfterRefreshIsGood
  <2> QED
    BY <1>5, <2>3, <2>5, FailsIsGood
<1>10. CASE \E u \in Destinations, p \in Pages : PageReceived(r, u, p)
  <2>1. PICK u \in Destinations, p \in Pages : PageReceived(r, u, p)
    BY <1>10
  <2>2. Becomes(r, AfterPage([q EXCEPT !.source = u, !.page = p, !.attempt = "SUCCEEDED"]))
    BY <1>1, <2>1 DEF PageReceived, Local
  <2> QED
    BY <1>2, <1>4, <1>5, <2>2, AfterPageIsGood
<1>11. CASE GetExpired(r)
  <2>1. Becomes(r, [q EXCEPT !.pc = "get refresh"]) \/ \E code : Becomes(r, Fails(q, code))
    BY <1>1, <1>11 DEF GetExpired, Local
  <2>2. PICK n : n = [q EXCEPT !.pc = "get refresh"]
    OBVIOUS
  <2>3. RunInv(n)
    <3>1. PICK there : there = "get refresh"
      OBVIOUS
    <3>2. there \in InGet \ Waiting /\ there # "get credential"
      BY <3>1 DEF InGet, Waiting
    <3> QED
      BY <1>6, <2>2, <3>1, <3>2
  <2>4. n.pc \notin Owning
    BY <1>2, <2>2 DEF Owning, Shaped, Fields
  <2> QED
    BY <1>5, <2>1, <2>2, <2>3, <2>4, FailsIsGood
<1>12. CASE \E c \in Codes : GetRefused(r, c)
  BY <1>5, <1>12, FailsIsGood DEF GetRefused, Local
<1>13. CASE GetRetried(r)
  <2>1. PICK m : m = [q EXCEPT !.tries = @ + 1, !.sent = Nothing]
    OBVIOUS
  <2>2. /\ Shaped(m) /\ m.job = q.job /\ m.session = q.session /\ m.material = q.material
        /\ m.csrf = q.csrf /\ m.sent = Nothing
    BY <1>2, <2>1 DEF Shaped, Fields
  <2>3. Becomes(r, Fails(q, "adapter_failed")) \/ Becomes(r, StartsGet(m))
    BY <1>1, <1>13, <2>1 DEF GetRetried, Local
  <2>4. RunInv(StartsGet(m)) /\ StartsGet(m).pc \notin Owning
    BY <1>4, <2>2, StartsGetIsGood DEF Carries
  <2> QED
    BY <1>5, <2>3, <2>4, FailsIsGood
<1>14. CASE GetAdmittedAgain(r)
  <2>1. q.pc = "get admission" /\ Becomes(r, SendsGet(q, TRUE, q.checked))
    BY <1>1, <1>14 DEF GetAdmittedAgain, At, Local
  <2>2. Checked(q)
    BY <1>4, <2>1 DEF GetInv, Waiting
  <2>3. RunInv(SendsGet(q, TRUE, q.checked)) /\ SendsGet(q, TRUE, q.checked).pc \notin Owning
    BY <1>2, <1>4, <2>2, SendsGetIsGood DEF Checked
  <2> QED
    BY <1>5, <2>1, <2>3
<1> QED
  BY <1>7, <1>8, <1>9, <1>10, <1>11, <1>12, <1>13, <1>14 DEF Get

----------------------------------------------------------------------------
\* extract_csrf_token returns one of the page's acceptable fields, or nothing.
LEMMA TokenIsAccepted ==
    ASSUME NEW page, NEW source, ExtractCsrfToken(page, source) # Nothing
    PROVE  ExtractCsrfToken(page, source) \in AcceptedTokens(page, source)
<1>1. PICK accepted : accepted = AcceptedTokens(page, source)
  OBVIOUS
<1>2. Cardinality(accepted) = 1 /\ ExtractCsrfToken(page, source) = CHOOSE t \in accepted : TRUE
  BY <1>1 DEF ExtractCsrfToken
<1>3. accepted # {}
  BY <1>2, FS_EmptySet
<1> QED
  BY <1>1, <1>2, <1>3

\* The token is in the context: the form is next.
LEMMA TokenKeepsRun ==
    ASSUME NEW q, Shaped(q), GetInv(q), q.pc = "csrf body", NEW t, t # Nothing,
           t \in AcceptedTokens(q.page, q.source)
    PROVE  LET n == AfterCsrf([q EXCEPT !.csrf = t, !.attempt = "SUCCEEDED"])
           IN  RunInv(n) /\ n.pc \notin Owning
<1>1. PICK m : m = [q EXCEPT !.csrf = t, !.attempt = "SUCCEEDED"]
  OBVIOUS
<1>2. /\ Shaped(m) /\ m.job = q.job /\ m.session = q.session /\ m.material = q.material
      /\ m.csrf = t /\ m.sent = q.sent /\ m.credential = q.credential /\ m.page = q.page
      /\ m.source = q.source
  BY <1>1 DEF Shaped, Fields
<1>3. Carries(m) /\ NoForm(m) /\ HasToken(m)
  BY <1>2 DEF GetInv, Carries, SentInv, NoForm, HasToken
<1> QED
  BY <1>1, <1>2, <1>3, AfterCsrfIsGood

\* _submit_form: a later await of the same proposal, or the first of a new one.
LEMMA FormIsGood ==
    ASSUME NEW q, RunInv(q), q.pc \in {"form policy", "form proposal", "form action"},
           NEW n, Shaped(n), n.pc \in {"form proposal", "form action", "form slot"},
           n.job = q.job /\ n.session = q.session /\ n.material = q.material /\ n.csrf = q.csrf
             /\ n.sent = q.sent /\ n.page = q.page /\ n.source = q.source,
           n.credential \in {q.credential, Nothing},
           n.pc # "form proposal" =>
             Sound(n.proposal) /\ SameOrigin(n.proposal.target, n.job.target),
           n.pc = "form slot" => Sendable(n) /\ n.credential = Nothing
    PROVE  RunInv(n)
<1>1. FormInv(q)
  BY DEF RunInv, InForm
<1>2. Carries(n) /\ HasToken(n) /\ NoForm(n)
  BY <1>1 DEF FormInv, Carries, SentInv, NoForm, HasToken
<1>3. FormInv(n)
  BY <1>1, <1>2 DEF FormInv, Waiting
<1> QED
  BY <1>3 DEF RunInv, Over, InSession, InGet, InForm, Waiting

\* A form that passed the action's checks goes to what was approved, with the
\* run's token and no other.
LEMMA WithCsrfIsSendable ==
    ASSUME NEW q, FormInv(q), q.pc = "form action", NEW p, p = WithCsrf(q), p # Nothing,
           Authorized(p, now)
    PROVE  /\ Sound(p) /\ SameOrigin(p.target, q.job.target)
           /\ p.target = p.approval.target /\ p.method = p.approval.method /\ p.csrf = q.csrf
<1>1. PICK o : o = q.proposal
  OBVIOUS
<1>2. Sound(o) /\ SameOrigin(o.target, q.job.target)
  BY <1>1 DEF FormInv
<1>3. PICK m : m = [o EXCEPT !.csrf = q.csrf]
  OBVIOUS
<1>4. \/ p = o /\ o.csrf = q.csrf
      \/ p = m /\ o.csrf = Nothing /\ (q.csrf # Nothing => TokenApplies(q.csrf, o.target, o.method))
  BY <1>1, <1>3 DEF WithCsrf, SameCsrf
<1>5. IsSubmission(m) /\ m.target = o.target /\ m.method = o.method /\ m.csrf = q.csrf
  BY <1>2, <1>3 DEF Sound, IsSubmission
<1>6. Sound(p) /\ p.target = o.target /\ p.csrf = q.csrf
  BY <1>2, <1>4, <1>5 DEF Sound
<1>7. p.target = p.approval.target /\ p.method = p.approval.method
  BY <1>6 DEF Authorized, Permits, Sound
<1> QED
  BY <1>2, <1>6, <1>7

\* The form leaves, with a credential only if it is of its origin and was live
\* when it was checked.
LEMMA SendsFormIsGood ==
    ASSUME NEW q, RunInv(q), q.pc \in {"form slot", "form admission"}, NEW p, Shaped(p),
           p.job = q.job /\ p.session = q.session /\ p.material = q.material
             /\ p.csrf = q.csrf /\ p.page = q.page /\ p.source = q.source
             /\ p.proposal = q.proposal,
           NEW checked,
           p.credential # Nothing =>
             /\ q.session # Nothing => Binds(q.session, p.credential)
             /\ ~Expired(p.credential, checked) /\ (q.job.crawl \/ checked = now)
    PROVE  RunInv(SendsForm(p, checked)) /\ SendsForm(p, checked).pc = "form answer"
<1>1. Shaped(q) /\ FormInv(q)
  BY DEF RunInv, InForm
<1>2. PICK c : c = p.credential
  OBVIOUS
<1>4. PICK w : w = Wire(p, "form", p.proposal.target, TRUE, checked)
  OBVIOUS
<1>5. /\ w.url = q.proposal.target /\ w.at = now /\ w.checked = checked
      /\ w.credential # Nothing =>
            w.credential = c /\ w.credential.origin = CanonicalOrigin(w.url)
  BY <1>2, <1>4 DEF Wire, MaterialApplies
<1>6. PICK n : n = [p EXCEPT !.pc = "form answer", !.sent = w]
  OBVIOUS
<1>7. /\ Shaped(n) /\ n.pc = "form answer" /\ n.job = q.job /\ n.session = q.session
      /\ n.material = q.material /\ n.csrf = q.csrf /\ n.credential = c /\ n.page = q.page
      /\ n.source = q.source /\ n.proposal = q.proposal /\ n.sent = w
  BY <1>2, <1>6 DEF Shaped, Fields
<1>8. Carries(n) /\ HasToken(n)
  BY <1>1, <1>2, <1>5, <1>7 DEF FormInv, Carries, SentInv, HasToken
<1>9. FormInv(n)
  BY <1>1, <1>5, <1>7, <1>8 DEF FormInv, Sendable, Waiting
<1>10. RunInv(n)
  BY <1>7, <1>9 DEF RunInv, Over, InSession, InGet, InForm
<1>11. n = SendsForm(p, checked)
  BY <1>4, <1>6 DEF SendsForm
<1> QED
  BY <1>7, <1>10, <1>11

\* The form's request is sent at once, or after the crawl's robots.txt, and the
\* proposal stays with its run.
LEMMA FirstFormIsGood ==
    ASSUME NEW q, RunInv(q), q.pc = "form slot", NEW p, Shaped(p),
           p.job = q.job /\ p.session = q.session /\ p.material = q.material
             /\ p.csrf = q.csrf /\ p.page = q.page /\ p.source = q.source
             /\ p.proposal = q.proposal /\ p.sent = q.sent,
           p.credential # Nothing => p.credential = q.material /\ ~Expired(p.credential, now)
    PROVE  /\ RunInv(FirstForm(p))
           /\ FirstForm(p).pc = "form answer" \/ FirstForm(p).job = q.job
<1>1. FormInv(q)
  BY DEF RunInv, InForm
<1>2. p.credential # Nothing /\ q.session # Nothing => Binds(q.session, p.credential)
  BY <1>1 DEF FormInv, Carries
<1>3. CASE q.job.crawl
  <2>1. PICK n : n = AsksRobots(p, "form robots")
    OBVIOUS
  <2>2. /\ Shaped(n) /\ n.pc = "form robots" /\ n.job = q.job /\ n.session = q.session
        /\ n.material = q.material /\ n.csrf = q.csrf /\ n.sent = q.sent
        /\ n.credential = p.credential /\ n.checked = now /\ n.page = q.page
        /\ n.source = q.source /\ n.proposal = q.proposal
    BY <2>1 DEF AsksRobots, Shaped, Fields
  <2>3. Carries(n) /\ HasToken(n) /\ NoForm(n)
    BY <1>1, <1>2, <2>2 DEF FormInv, Carries, SentInv, HasToken, NoForm
  <2>4. Sendable(n) /\ Checked(n)
    BY <1>1, <1>3, <2>2 DEF FormInv, Sendable, Checked
  <2>5. FormInv(n)
    BY <1>1, <2>2, <2>3, <2>4 DEF FormInv
  <2>6. RunInv(n)
    BY <2>2, <2>5 DEF RunInv, Over, InSession, InGet, InForm
  <2> QED
    BY <1>3, <2>1, <2>2, <2>6 DEF FirstForm
<1>4. CASE ~q.job.crawl
  BY <1>2, <1>4, SendsFormIsGood DEF FirstForm
<1> QED
  BY <1>3, <1>4

\* consume(): the proposal leaves the provider, and this run alone may own it.
LEMMA ProposalConsumedKeepsInv ==
    ASSUME AuthInv, NEW r \in Runs, ProposalConsumed(r)
    PROVE  AuthInv'
<1>1. PICK q : q = run[r]
  OBVIOUS
<1>2. RunInv(q) /\ Shaped(q) /\ q.pc = "form proposal"
  BY <1>1 DEF AuthInv, RunInv, ProposalConsumed, At
<1>3. q.job.ref \in Refs
  BY <1>2 DEF RunInv, FormInv, InForm
<1>4. PICK p : p = proposals[q.job.ref]
  OBVIOUS
<1>5. PICK n : n = [q EXCEPT !.proposal = p, !.pc = "form action"]
  OBVIOUS
<1>6. /\ Shaped(n) /\ n.pc = "form action" /\ n.job = q.job /\ n.session = q.session
      /\ n.material = q.material /\ n.csrf = q.csrf /\ n.sent = q.sent
      /\ n.credential = q.credential /\ n.page = q.page /\ n.source = q.source /\ n.proposal = p
  BY <1>2, <1>5 DEF Shaped, Fields
<1>7. PICK m : Becomes(r, m) /\ m = IF p = Nothing \/ ~Authorized(p, now)
                                    THEN Fails(q, "dependency_missing") ELSE Proposed(q, p)
  BY <1>1, <1>4 DEF ProposalConsumed
<1>8. \/ RunInv(m) /\ m.pc \notin Owning
      \/ p # Nothing /\ SameOrigin(p.target, q.job.target) /\ m = n
  BY <1>5, <1>7, FailsIsGood DEF Proposed
<1>9. p # Nothing => Sound(p) /\ submitted[q.job.ref] = 0
  BY <1>3, <1>4 DEF AuthInv, OwnerInv
<1>10. /\ RunInv(m)
       /\ m.pc \in Owning => m.job = q.job /\ p # Nothing
  BY <1>2, <1>6, <1>8, <1>9, FormIsGood
<1>11. /\ DOMAIN run' = Runs /\ \A s \in Runs : run'[s] = IF s = r THEN m ELSE run[s]
       /\ submitted' = submitted /\ DOMAIN proposals' = DOMAIN proposals
       /\ \A k \in DOMAIN proposals :
             proposals'[k] = IF k = q.job.ref THEN Nothing ELSE proposals[k]
  BY <1>1, <1>7 DEF AuthInv, Becomes, ProposalConsumed
<1>12. \A s \in Runs : RunInv(run'[s])
  BY <1>10, <1>11 DEF AuthInv
<1>13. p # Nothing => \A s \in Runs : run[s].pc \in Owning => run[s].job.ref # q.job.ref
  BY <1>4 DEF AuthInv, OwnerInv
<1>14. OwnerInv'
  <2>1. /\ DOMAIN proposals' = Refs /\ submitted' \in [Refs -> {0, 1}]
        /\ \A k \in Refs : proposals'[k] # Nothing => submitted'[k] = 0 /\ Sound(proposals'[k])
    BY <1>3, <1>11 DEF AuthInv, OwnerInv
  <2>2. \A s \in Runs : run'[s].pc \in Owning =>
            submitted'[run'[s].job.ref] = 0 /\ proposals'[run'[s].job.ref] = Nothing
    <3> TAKE s \in Runs
    <3>1. CASE s = r
      BY <1>3, <1>9, <1>10, <1>11, <3>1 DEF AuthInv, OwnerInv
    <3>2. CASE s # r
      <4>1. run[s].pc \in Owning => run[s].job.ref \in Refs
        BY DEF AuthInv, RunInv, FormInv, InForm, Owning, Waiting
      <4> QED
        BY <1>11, <3>2, <4>1 DEF AuthInv, OwnerInv
    <3> QED
      BY <3>1, <3>2
  <2>3. \A s, t \in Runs : run'[s].pc \in Owning /\ run'[t].pc \in Owning
                             /\ run'[s].job.ref = run'[t].job.ref => s = t
    BY <1>10, <1>11, <1>13 DEF AuthInv, OwnerInv
  <2> QED
    BY <2>1, <2>2, <2>3 DEF OwnerInv
<1> QED
  BY <1>11, <1>12, <1>14 DEF AuthInv

\* The form is on the wire: the run that owned the proposal has used it up.
LEMMA FormOnWireKeepsInv ==
    ASSUME AuthInv, NEW r \in Runs, run[r].pc \in Owning, NEW m, Submits(r, m),
           RunInv(m), m.pc = "form answer"
    PROVE  AuthInv'
<1>1. PICK q : q = run[r]
  OBVIOUS
<1>2. RunInv(q) /\ q.pc \in Owning
  BY <1>1 DEF AuthInv
<1>3. q.job.ref \in Refs
  BY <1>2 DEF RunInv, FormInv, InForm, Owning
<1>5. /\ Becomes(r, m) /\ proposals' = proposals
      /\ submitted' = [submitted EXCEPT ![q.job.ref] = @ + 1]
  BY <1>1 DEF Submits
<1>11. RunInv(m) /\ m.pc \notin Owning
  BY DEF Owning
<1>12. DOMAIN run' = Runs /\ \A s \in Runs : run'[s] = IF s = r THEN m ELSE run[s]
  BY <1>5 DEF AuthInv, Becomes
<1>13. \A s \in Runs : RunInv(run'[s])
  BY <1>11, <1>12 DEF AuthInv
<1>14. \A s \in Runs : s # r /\ run[s].pc \in Owning => run[s].job.ref # q.job.ref
  BY <1>1, <1>2 DEF AuthInv, OwnerInv, Owning
<1>15. submitted[q.job.ref] = 0 /\ proposals[q.job.ref] = Nothing
  BY <1>1, <1>2 DEF AuthInv, OwnerInv, Owning
<1>16. /\ submitted' \in [Refs -> {0, 1}]
       /\ \A k \in Refs : k # q.job.ref => submitted'[k] = submitted[k]
  <2>1. PICK k : k = q.job.ref
    OBVIOUS
  <2>2. submitted \in [Refs -> {0, 1}] /\ k \in Refs /\ submitted[k] = 0
    BY <1>3, <1>15, <2>1 DEF AuthInv, OwnerInv
  <2>3. submitted' = [submitted EXCEPT ![k] = 1]
    <3>1. PICK more : more = submitted[k] + 1
      OBVIOUS
    <3>2. more = 1
      BY ONLY <2>2, <3>1
    <3>3. submitted' = [submitted EXCEPT ![k] = more]
      BY ONLY <1>5, <2>1, <3>1
    <3> QED
      BY <3>2, <3>3
  <2>4. [submitted EXCEPT ![k] = 1] \in [Refs -> {0, 1}]
    BY <2>2
  <2> QED
    BY <2>1, <2>2, <2>3, <2>4
<1>17. \A s \in Runs : run[s].pc \in Owning => run[s].job.ref \in Refs
  BY DEF AuthInv, RunInv, FormInv, InForm, Owning, Waiting
<1>18. OwnerInv'
  <2>1. \A k \in Refs : proposals[k] # Nothing => k # q.job.ref
    BY <1>15
  <2>2. \A s \in Runs : run'[s].pc \in Owning => s # r /\ run'[s] = run[s]
    BY <1>11, <1>12
  <2>3. /\ DOMAIN proposals' = Refs
        /\ \A k \in Refs : proposals'[k] # Nothing => submitted'[k] = 0 /\ Sound(proposals'[k])
    BY <1>5, <1>16, <2>1 DEF AuthInv, OwnerInv
  <2>4. \A s \in Runs : run'[s].pc \in Owning =>
            submitted'[run'[s].job.ref] = 0 /\ proposals'[run'[s].job.ref] = Nothing
    <3> SUFFICES ASSUME NEW s \in Runs, run'[s].pc \in Owning
                 PROVE  submitted'[run'[s].job.ref] = 0 /\ proposals'[run'[s].job.ref] = Nothing
      OBVIOUS
    <3>1. PICK k : k = run[s].job.ref
      OBVIOUS
    <3>2. s # r /\ run'[s].job.ref = k /\ run[s].pc \in Owning
      BY <2>2, <3>1
    <3>3. k \in Refs /\ k # q.job.ref /\ submitted[k] = 0 /\ proposals[k] = Nothing
      BY <1>14, <1>17, <3>1, <3>2 DEF AuthInv, OwnerInv
    <3> QED
      BY <1>5, <1>16, <3>2, <3>3
  <2>5. \A s, u \in Runs : run'[s].pc \in Owning /\ run'[u].pc \in Owning
                             /\ run'[s].job.ref = run'[u].job.ref => s = u
    <3>1. \A s, u \in Runs : run[s].pc \in Owning /\ run[u].pc \in Owning
                               /\ run[s].job.ref = run[u].job.ref => s = u
      BY DEF AuthInv, OwnerInv
    <3> QED
      BY ONLY <2>2, <3>1
  <2> QED
    BY <1>16, <2>3, <2>4, <2>5 DEF OwnerInv
<1> QED
  BY <1>12, <1>13, <1>18 DEF AuthInv

\* The form's request waits, fails or leaves: the proposal stays with its run
\* until its body goes out.
LEMMA SubmitsKeepsInv ==
    ASSUME AuthInv, NEW r \in Runs, run[r].pc \in Owning, NEW m, Submits(r, m),
           RunInv(m), m.pc \in Owning => m.job = run[r].job
    PROVE  AuthInv'
<1>1. CASE m.pc = "form answer"
  BY <1>1, FormOnWireKeepsInv
<1>2. CASE m.pc # "form answer"
  <2>1. Becomes(r, m) /\ UNCHANGED <<proposals, submitted>>
    BY <1>2 DEF Submits
  <2> QED
    BY <2>1, OwnStepKeepsInv
<1> QED
  BY <1>1, <1>2

\* A slot, the policy and the session's credential: the form's first request.
LEMMA FormAdmittedKeepsInv ==
    ASSUME AuthInv, NEW r \in Runs, NEW allowed, FormAdmitted(r, allowed)
    PROVE  AuthInv'
<1>1. PICK q : q = run[r]
  OBVIOUS
<1>2. RunInv(q) /\ Shaped(q) /\ q.pc = "form slot" /\ q.pc \in Owning
  BY <1>1 DEF AuthInv, RunInv, FormAdmitted, At, Owning
<1>3. q.credential = Nothing
  BY <1>2 DEF RunInv, FormInv, InForm
<1>4. PICK m : m = CASE ~allowed -> Fails(q, "policy")
                     [] allowed /\ q.material = Nothing -> FirstForm(q)
                     [] OTHER -> UsesCredential(q, q.material, q.proposal.target, FALSE, FirstForm)
  OBVIOUS
<1>5. Submits(r, m)
  BY <1>1, <1>4 DEF FormAdmitted
<1>6. PICK p : p = [q EXCEPT !.credential = q.material]
  OBVIOUS
<1>7. /\ RunInv(FirstForm(q))
      /\ FirstForm(q).pc = "form answer" \/ FirstForm(q).job = q.job
  BY <1>2, <1>3, FirstFormIsGood
<1>8. Verdict(q, q.material, q.proposal.target, FALSE) # "refresh"
  BY DEF Verdict
<1>9. \/ UsesCredential(q, q.material, q.proposal.target, FALSE, FirstForm)
            = Fails(q, Verdict(q, q.material, q.proposal.target, FALSE))
      \/ /\ ~Expired(q.material, now)
         /\ UsesCredential(q, q.material, q.proposal.target, FALSE, FirstForm) = FirstForm(p)
  BY <1>6, <1>8 DEF UsesCredential, Verdict
<1>10. ~Expired(q.material, now) =>
         /\ RunInv(FirstForm(p))
         /\ FirstForm(p).pc = "form answer" \/ FirstForm(p).job = q.job
  <2>1. /\ Shaped(p) /\ p.job = q.job /\ p.session = q.session /\ p.material = q.material
        /\ p.csrf = q.csrf /\ p.page = q.page /\ p.source = q.source
        /\ p.proposal = q.proposal /\ p.credential = q.material /\ p.sent = q.sent
    BY <1>2, <1>6 DEF Shaped, Fields
  <2> QED
    BY <1>2, <2>1, FirstFormIsGood
<1>11. RunInv(m) /\ (m.pc \in Owning => m.job = q.job)
  <2>1. m \in {FirstForm(q), FirstForm(p)} \/ \E code : m = Fails(q, code)
    BY <1>4, <1>9
  <2>2. CASE \E code : m = Fails(q, code)
    BY <2>2, FailsIsGood
  <2>3. CASE m = FirstForm(q)
    BY <1>7, <2>3 DEF Owning
  <2>4. CASE ~Expired(q.material, now) /\ m = FirstForm(p)
    BY <1>10, <2>4 DEF Owning
  <2> QED
    BY <1>4, <1>9, <2>2, <2>3, <2>4
<1> QED
  BY <1>1, <1>2, <1>5, <1>11, SubmitsKeepsInv

\* The crawl's form after robots.txt and its second slot.
LEMMA FormAdmittedAgainKeepsInv ==
    ASSUME AuthInv, NEW r \in Runs, FormAdmittedAgain(r)
    PROVE  AuthInv'
<1>1. PICK q : q = run[r]
  OBVIOUS
<1>2. RunInv(q) /\ Shaped(q) /\ q.pc = "form admission" /\ q.pc \in Owning
  BY <1>1 DEF AuthInv, RunInv, FormAdmittedAgain, At, Owning
<1>3. FormInv(q) /\ Checked(q)
  BY <1>2 DEF RunInv, FormInv, InForm, Waiting
<1>4. q.credential # Nothing =>
        /\ q.session # Nothing => Binds(q.session, q.credential)
        /\ ~Expired(q.credential, q.checked) /\ (q.job.crawl \/ q.checked = now)
  BY <1>3 DEF FormInv, Carries, Checked
<1>5. PICK m : m = SendsForm(q, q.checked)
  OBVIOUS
<1>6. RunInv(m) /\ m.pc = "form answer"
  BY <1>2, <1>4, <1>5, SendsFormIsGood
<1>7. Submits(r, m)
  BY <1>1, <1>5 DEF FormAdmittedAgain
<1> QED
  BY <1>1, <1>2, <1>6, <1>7, FormOnWireKeepsInv

\* robots.txt and slots, of the page's request or the form's.
LEMMA WaitsKeepsInv ==
    ASSUME AuthInv, NEW r \in Runs, Waits(r)
    PROVE  AuthInv'
<1>1. PICK q : q = run[r]
  OBVIOUS
<1>2. RunInv(q) /\ Shaped(q) /\ UNCHANGED <<proposals, submitted>>
  BY <1>1 DEF AuthInv, RunInv, Waits, RobotsAllows, RobotsRefuses, SlotExpires, Local
<1>3. CASE RobotsAllows(r)
  <2>1. PICK there : /\ \/ q.pc = "get robots" /\ there = "get admission"
                        \/ q.pc = "form robots" /\ there = "form admission"
                     /\ Becomes(r, [q EXCEPT !.pc = there])
    BY <1>1, <1>3 DEF RobotsAllows, At, Local
  <2>2. PICK n : n = [q EXCEPT !.pc = there]
    OBVIOUS
  <2>3. /\ Shaped(n) /\ n.pc = there /\ n.job = q.job /\ n.session = q.session
        /\ n.material = q.material /\ n.csrf = q.csrf /\ n.sent = q.sent
        /\ n.credential = q.credential /\ n.checked = q.checked /\ n.page = q.page
        /\ n.source = q.source /\ n.proposal = q.proposal
    BY <1>2, <2>2 DEF Shaped, Fields
  <2>4. CASE q.pc = "get robots"
    <3>1. GetInv(q) /\ Checked(q)
      BY <1>2, <2>4 DEF RunInv, GetInv, InGet, Waiting
    <3>2. GetInv(n)
      BY <2>1, <2>3, <2>4, <3>1 DEF GetInv, Carries, SentInv, NoForm, Checked
    <3>3. RunInv(n) /\ n.pc \notin Owning
      BY <2>1, <2>3, <2>4, <3>2 DEF RunInv, Over, InSession, InGet, InForm, Owning
    <3> QED
      BY <1>2, <2>1, <2>2, <3>3, OwnStepKeepsInv
  <2>5. CASE q.pc = "form robots"
    <3>1. FormInv(q) /\ Checked(q)
      BY <1>2, <2>5 DEF RunInv, FormInv, InForm, Waiting
    <3>2. Carries(n) /\ HasToken(n) /\ NoForm(n) /\ Sendable(n) /\ Checked(n)
      BY <2>3, <2>5, <3>1 DEF FormInv, Carries, SentInv, NoForm, HasToken, Sendable, Checked
    <3>3. FormInv(n)
      BY <2>1, <2>3, <2>5, <3>1, <3>2 DEF FormInv
    <3>4. RunInv(n)
      BY <2>1, <2>3, <2>5, <3>3 DEF RunInv, Over, InSession, InGet, InForm
    <3>5. q.pc \in Owning /\ n.job = q.job
      BY <2>3, <2>5 DEF Owning
    <3> QED
      BY <1>1, <1>2, <2>1, <2>2, <3>4, <3>5, OwnStepKeepsInv
  <2> QED
    BY <2>1, <2>4, <2>5
<1>4. CASE ~RobotsAllows(r)
  <2>1. \E code : Becomes(r, Fails(q, code))
    BY <1>1, <1>4 DEF Waits, RobotsRefuses, SlotExpires, Local
  <2> QED
    BY <1>2, <2>1, FailureKeepsInv
<1> QED
  BY <1>3, <1>4

\* The steps of csrf_token and form_submit.
LEMMA FormKeepsInv ==
    ASSUME AuthInv, NEW r \in Runs, Form(r)
    PROVE  AuthInv'
<1>1. PICK q : q = run[r]
  OBVIOUS
<1>2. RunInv(q) /\ Shaped(q)
  BY <1>1 DEF AuthInv, RunInv
<1>3. CASE CsrfExtracted(r)
  <2>1. q.pc = "csrf body" /\ UNCHANGED <<proposals, submitted>>
    BY <1>1, <1>3 DEF CsrfExtracted, At, Local
  <2>2. GetInv(q)
    BY <1>2, <2>1 DEF RunInv
  <2>3. PICK t : t = ExtractCsrfToken(q.page, q.source)
    OBVIOUS
  <2>4. CASE t = Nothing
    BY <1>1, <1>3, <2>1, <2>3, <2>4, FailureKeepsInv DEF CsrfExtracted, Local
  <2>5. CASE t # Nothing
    <3>1. Becomes(r, AfterCsrf([q EXCEPT !.csrf = t, !.attempt = "SUCCEEDED"]))
      BY <1>1, <1>3, <2>3, <2>5 DEF CsrfExtracted, Local
    <3>2. t \in AcceptedTokens(q.page, q.source)
      BY <2>3, <2>5, TokenIsAccepted
    <3> QED
      BY <1>2, <2>1, <2>2, <2>5, <3>1, <3>2, TokenKeepsRun, OwnStepKeepsInv
  <2> QED
    BY <2>4, <2>5
<1>4. CASE \E c \in {"dependency_missing", "adapter_failed"} : CsrfUnavailable(r, c)
  BY <1>4, FailureKeepsInv DEF CsrfUnavailable, Local
<1>5. CASE \E a \in BOOLEAN : FormPolicy(r, a)
  <2>1. q.pc = "form policy" /\ UNCHANGED <<proposals, submitted>>
    BY <1>1, <1>5 DEF FormPolicy, At, Local
  <2>2. PICK n : n = [q EXCEPT !.pc = "form proposal"]
    OBVIOUS
  <2>3. Becomes(r, n) \/ Becomes(r, Fails(q, "policy"))
    BY <1>1, <1>5, <2>2 DEF FormPolicy, Local
  <2>4. /\ Shaped(n) /\ n.pc = "form proposal" /\ n.job = q.job /\ n.session = q.session
        /\ n.material = q.material /\ n.csrf = q.csrf /\ n.sent = q.sent
        /\ n.credential = q.credential /\ n.page = q.page /\ n.source = q.source
    BY <1>2, <2>2 DEF Shaped, Fields
  <2>5. RunInv(n) /\ n.pc \notin Owning
    BY <1>2, <2>1, <2>4, FormIsGood DEF Owning
  <2> QED
    BY <2>1, <2>3, <2>5, FailureKeepsInv, OwnStepKeepsInv
<1>6. CASE \E a \in BOOLEAN : ActionAllowed(r, a)
  <2>1. q.pc = "form action" /\ UNCHANGED <<proposals, submitted>>
    BY <1>1, <1>6 DEF ActionAllowed, At, Local
  <2>2. FormInv(q)
    BY <1>2, <2>1 DEF RunInv, InForm
  <2>3. PICK p : p = WithCsrf(q)
    OBVIOUS
  <2>4. PICK n : n = [q EXCEPT !.proposal = p, !.pc = "form slot",
                               !.credential = Nothing, !.refreshed = FALSE]
    OBVIOUS
  <2>5. (\E code : Becomes(r, Fails(q, code))) \/ (p # Nothing /\ Authorized(p, now) /\ Becomes(r, n))
    BY <1>1, <1>6, <2>3, <2>4 DEF ActionAllowed, Local
  <2>6. /\ Shaped(n) /\ n.pc = "form slot" /\ n.job = q.job /\ n.session = q.session
        /\ n.material = q.material /\ n.csrf = q.csrf /\ n.sent = q.sent
        /\ n.credential = Nothing /\ n.page = q.page /\ n.source = q.source /\ n.proposal = p
    BY <1>2, <2>4 DEF Shaped, Fields
  <2>7. ASSUME p # Nothing, Authorized(p, now)
        PROVE  RunInv(n)
    <3>1. /\ Sound(p) /\ SameOrigin(p.target, q.job.target)
          /\ p.target = p.approval.target /\ p.method = p.approval.method /\ p.csrf = q.csrf
      BY <2>1, <2>2, <2>3, <2>7, WithCsrfIsSendable
    <3>2. Sendable(n)
      BY <2>6, <3>1 DEF Sendable
    <3> QED
      BY <1>2, <2>1, <2>6, <3>1, <3>2, FormIsGood
  <2>8. q.pc \in Owning
    BY <2>1 DEF Owning
  <2> QED
    BY <1>1, <2>1, <2>5, <2>6, <2>7, <2>8, FailureKeepsInv, OwnStepKeepsInv
<1>7. CASE FormAnswered(r) \/ FormStoreFails(r)
  BY <1>7, EndsIsGood, OwnStepKeepsInv DEF FormAnswered, FormStoreFails, Local, Over
<1>8. CASE \E c \in Codes \cup {"auth_expired", "policy"} : FormRefused(r, c)
  BY <1>8, FailureKeepsInv DEF FormRefused, Local
<1> QED
  BY <1>3, <1>4, <1>5, <1>6, <1>7, <1>8, ProposalConsumedKeepsInv, FormAdmittedKeepsInv,
     FormAdmittedAgainKeepsInv DEF Form

----------------------------------------------------------------------------
\* At first no run has begun.
LEMMA InitHasInv ==
    ASSUME Init
    PROVE  AuthInv
<1>1. RunInv(Idle) /\ Idle.pc = "idle"
  BY DEF RunInv, Idle, Shaped, Fields, Over, InSession, InGet, InForm, Waiting
<1>2. DOMAIN run = Runs /\ \A r \in Runs : run[r] = Idle
  BY DEF Init
<1>3. proposals \in Proposals /\ submitted \in [Refs -> {0, 1}] /\ \A k \in Refs : submitted[k] = 0
  BY DEF Init
<1>4. \A k \in Refs : proposals[k] # Nothing => Sound(proposals[k])
  BY <1>3, SessionAssumption DEF ValidSubmissionEntry, ValidSubmission, Sound
<1>5. DOMAIN proposals = Refs
  BY <1>3, SessionAssumption
<1>6. OwnerInv
  BY <1>1, <1>2, <1>3, <1>4, <1>5 DEF OwnerInv, Owning
<1> QED
  BY <1>1, <1>2, <1>6 DEF AuthInv

\* Every step keeps the invariant.
LEMMA NextKeepsInv ==
    ASSUME AuthInv, [Next]_vars
    PROVE  AuthInv'
<1>1. CASE \E r \in Runs : \E j \in Jobs : Begin(r, j)
  BY <1>1, BeginKeepsInv
<1>2. CASE \E r \in Runs : Session(r) \/ Get(r) \/ Form(r) \/ Waits(r)
  BY <1>2, SessionKeepsInv, GetKeepsInv, FormKeepsInv, WaitsKeepsInv
<1>3. CASE \E r \in Runs : ProviderFails(r)
  BY <1>3, FailureKeepsInv DEF ProviderFails, Local
<1>4. CASE \E r \in Runs : Cancel(r)
  BY <1>4, EndsIsGood, OwnStepKeepsInv DEF Cancel, Local, Over
<1>5. CASE Tick \/ UNCHANGED vars
  <2>1. UNCHANGED <<run, proposals, submitted>>
    BY <1>5 DEF Tick, vars
  <2> QED
    BY <2>1 DEF AuthInv, OwnerInv
<1> QED
  BY <1>1, <1>2, <1>3, <1>4, <1>5 DEF Next

\* Two URLs with the same normal form have the same origin.
LEMMA SameNormalForm ==
    ASSUME NEW u, NEW v, IsUrl(u), IsUrl(v), NormalizeUrl(u) = NormalizeUrl(v)
    PROVE  SameOrigin(u, v)
<1>1. PICK a, b : a = NormalizeUrl(u) /\ b = NormalizeUrl(v)
  OBVIOUS
<1>2. a.host = u.host /\ a.https = u.https /\ b.host = v.host /\ b.https = v.https
  BY <1>1 DEF NormalizeUrl, IsUrl
<1> QED
  BY <1>1, <1>2 DEF SameOrigin, CanonicalOrigin

----------------------------------------------------------------------------
(* What every run carries at each of its awaits, and that a proposal which *)
(* left the provider has one owner until its body goes out, holds for any  *)
(* number of concurrent runs and any contents of the providers.            *)
THEOREM AuthInvariance == Spec => []AuthInv
<1>1. Init => AuthInv
  BY InitHasInv
<1>2. AuthInv /\ [Next]_vars => AuthInv'
  BY NextKeepsInv
<1> QED
  BY <1>1, <1>2, PTL DEF Spec

(* A proposal goes out at most once, from a run that approved it, to the   *)
(* URL and with the method of its grant: consume() and _submit_form.       *)
THEOREM SubmittedOnceCorrect == Spec => []SubmittedOnce
<1>1. ASSUME AuthInv PROVE SubmittedOnce
  <2>1. \A k \in Refs : submitted[k] <= 1
    BY <1>1 DEF AuthInv, OwnerInv
  <2>2. ASSUME NEW r \in Runs, run[r].sent # Nothing, run[r].sent.what = "form"
        PROVE  LET q == run[r] IN
               /\ q.job.approved
               /\ q.sent.url = q.proposal.approval.target
               /\ q.proposal.method = q.proposal.approval.method
               /\ SameOrigin(q.sent.url, q.job.target)
    <3>1. PICK q : q = run[r]
      OBVIOUS
    <3>2. q.pc = "form answer" /\ FormInv(q)
      BY <1>1, <2>2, <3>1 DEF AuthInv, RunInv, SessionInv, GetInv, FormInv, NoForm, InForm
    <3>3. q.sent.url = q.proposal.target
      BY <3>2 DEF FormInv
    <3> QED
      BY <3>1, <3>2, <3>3 DEF FormInv, Sendable
  <2> QED
    BY <2>1, <2>2 DEF SubmittedOnce
<1> QED
  BY <1>1, AuthInvariance, PTL

(* A form carries the token this run extracted from its own page, for the  *)
(* exact action, or none: _context_csrf and _same_csrf_material.           *)
THEOREM TokenCorrect == Spec => []TokenOfThisRun
<1>1. ASSUME AuthInv PROVE TokenOfThisRun
  <2>1. SUFFICES ASSUME NEW r \in Runs, run[r].sent # Nothing, run[r].sent.what = "form"
                 PROVE  LET q == run[r] IN
                        IF q.job.csrf
                        THEN /\ q.proposal.csrf \in AcceptedTokens(q.page, q.source)
                             /\ TokenApplies(q.proposal.csrf, q.sent.url, q.proposal.method)
                             /\ SameOrigin(q.source, q.sent.url)
                        ELSE q.proposal.csrf = Nothing
    BY DEF TokenOfThisRun
  <2>2. PICK q : q = run[r]
    OBVIOUS
  <2>3. q.pc = "form answer" /\ FormInv(q)
    BY <1>1, <2>1, <2>2 DEF AuthInv, RunInv, SessionInv, GetInv, FormInv, NoForm, InForm
  <2>4. PICK u : u = q.proposal.target
    OBVIOUS
  <2>5. q.sent.url = u /\ q.proposal.csrf = q.csrf /\ HasToken(q) /\ IsUrl(u) /\ Sound(q.proposal)
    BY <2>3, <2>4 DEF FormInv, Sendable, Sound
  <2>6. CASE ~q.job.csrf
    BY <2>2, <2>5, <2>6 DEF HasToken
  <2>7. CASE q.job.csrf
    <3>1. q.csrf # Nothing /\ q.page \in Pages /\ q.csrf \in AcceptedTokens(q.page, q.source)
      BY <2>5, <2>7 DEF HasToken
    <3>2. TokenApplies(q.csrf, u, q.proposal.method)
      BY <2>4, <2>5, <3>1 DEF Sound
    <3>3. PICK f \in q.page.fields :
             SameOrigin(f.action, q.source) /\ q.csrf.action = NormalizeUrl(f.action)
      BY <3>1 DEF AcceptedTokens
    <3>4. IsUrl(f.action)
      BY <3>1, <3>3, SessionAssumption
    <3>5. NormalizeUrl(u) = NormalizeUrl(f.action)
      BY <3>2, <3>3 DEF TokenApplies
    <3>6. SameOrigin(u, f.action)
      BY <2>5, <3>4, <3>5, SameNormalForm
    <3>7. SameOrigin(q.source, u)
      BY <3>3, <3>6 DEF SameOrigin
    <3> QED
      BY <2>2, <2>5, <2>7, <3>1, <3>2, <3>7
  <2> QED
    BY <2>6, <2>7
<1> QED
  BY <1>1, AuthInvariance, PTL

(* Whatever a run waits for and whoever refreshes meanwhile, the first     *)
(* request of a call carries only material that was live when _request     *)
(* checked it, and that is live when it leaves unless a crawl's robots.txt *)
(* and second slot lay in between; what it carries is of the origin it     *)
(* goes to and bound to the session: _validate_session, _request and the   *)
(* two refreshes.                                                          *)
THEOREM CredentialLiveCorrect == Spec => []CredentialLive
<1>1. ASSUME AuthInv PROVE CredentialLive
  <2>1. ASSUME NEW r \in Runs PROVE SentInv(run[r])
    BY <1>1 DEF AuthInv, RunInv, SessionInv, GetInv, FormInv, Carries, SentInv
  <2> QED
    BY <2>1 DEF CredentialLive, SentInv
<1> QED
  BY <1>1, AuthInvariance, PTL

=============================================================================

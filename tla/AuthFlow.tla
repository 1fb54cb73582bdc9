------------------------------ MODULE AuthFlow ------------------------------
(***************************************************************************)
(* The values of authenticated flows (src/fetech/auth.py and               *)
(* src/fetech/auth_flows.py): URLs and their origins, credential material, *)
(* session descriptors, approvals, form proposals and CSRF tokens, with    *)
(* the checks their constructors and methods make.                         *)
(*                                                                         *)
(* A secret is abstracted to what the checks can tell apart.  Time is a    *)
(* natural number and Never an expiry that is not set.                     *)
(***************************************************************************)
EXTENDS Naturals, FiniteSets

CONSTANTS
    MaxTime,             \* bound on the clock
    MaxApprovalLifetime, \* MAX_APPROVAL_LIFETIME
    MaxCsrfForms,        \* MAX_CSRF_FORMS
    MaxCsrfFields,       \* MAX_CSRF_FIELDS
    Nothing              \* None

ASSUME FlowAssumption ==
    /\ MaxTime \in Nat
    /\ MaxApprovalLifetime \in Nat \ {0}
    /\ MaxCsrfForms \in Nat
    /\ MaxCsrfFields \in Nat

Never == MaxTime + 1

----------------------------------------------------------------------------
(* URLs: [host, https, port, path]; port 0 is an absent one *)

IsUrl(u) == DOMAIN u = {"host", "https", "port", "path"}

DefaultPort(u) == IF u.https THEN 443 ELSE 80

\* normalize_url and _https_url agree on what they accept: drop the default port
NormalizeUrl(u) == [u EXCEPT !.port = IF @ = DefaultPort(u) THEN 0 ELSE @]

\* canonical_origin
CanonicalOrigin(u) ==
    [host |-> u.host, https |-> u.https, port |-> NormalizeUrl(u).port]

\* _same_exact_origin
SameOrigin(u, v) == CanonicalOrigin(u) = CanonicalOrigin(v)

----------------------------------------------------------------------------
(* Credential material: [origin, kind, parts, expires] *)

\* _validated_headers and _validated_cookies: "forbidden" stands for one they refuse
ValidParts(parts) == parts # {} /\ "forbidden" \notin parts

\* CredentialMaterial.__post_init__
ValidMaterial(c) ==
    /\ c.origin.https
    /\ c.kind \in {"bearer_token", "api_key", "cookie_session"}
    /\ ValidParts(c.parts)
    /\ c.kind = "cookie_session" => "cookie" \in c.parts
    /\ c.kind = "api_key"        => c.parts \cap {"bearer", "header"} # {}
    /\ c.kind = "bearer_token"   => "bearer" \in c.parts

Expired(v, now) == v.expires # Never /\ now >= v.expires

\* CredentialMaterial.applies_to, which decides what request_headers goes to
MaterialApplies(c, u) == c.origin = CanonicalOrigin(u)

----------------------------------------------------------------------------
(* Session descriptors:                                                    *)
(* [origin, capability, ref, expires, refreshRef, refreshAfter, connector] *)

Refreshable == {"oauth", "sso"}

\* OriginScopedSession.__post_init__ (the issuer and the scopes left out)
ValidSession(s) ==
    /\ s.origin.https
    /\ s.refreshAfter # Never => s.refreshRef # Nothing
    /\ s.refreshRef # Nothing => s.capability \in Refreshable
    /\ s.connector => s.capability = "private_workspace"
    /\ s.refreshAfter # Never => s.refreshAfter <= s.expires

\* InMemorySessionProvider.__init__: what may stand under the key ref
ValidSessionEntry(s, ref) ==
    /\ ValidSession(s)
    /\ s.ref = ref
    /\ s.capability = "private_workspace" => s.connector

SessionApplies(s, u) == u.https /\ CanonicalOrigin(u) = s.origin

NeedsRefresh(s, now) ==
    /\ s.refreshRef # Nothing
    /\ IF s.refreshAfter # Never THEN now >= s.refreshAfter ELSE Expired(s, now)

\* _MATERIAL_CAPABILITIES
MaterialKinds(capability) ==
    CASE capability = "login_session"     -> {"cookie_session"}
      [] capability = "oauth"             -> {"bearer_token"}
      [] capability = "sso"               -> {"bearer_token", "cookie_session"}
      [] capability = "private_workspace" -> {"api_key", "bearer_token", "cookie_session"}

\* validate_material_binding
Binds(s, c) == c.origin = s.origin /\ c.kind \in MaterialKinds(s.capability)

----------------------------------------------------------------------------
(* CSRF tokens: [source, action, method, token] *)

Mutating    == {"POST", "PUT", "PATCH", "DELETE"}
FormMethods == Mutating \cup {"GET"}

\* CSRFTokenMaterial.applies_to
TokenApplies(t, u, method) == u.https /\ NormalizeUrl(u) = t.action /\ method = t.method

(* What the parser sees of a page: how many forms and how many inputs in   *)
(* them, whether forms nest or an attribute is repeated, and the hidden    *)
(* fields that look like tokens, each with its form's action and method.   *)
ParserGivesUp(page) ==
    \/ page.nested \/ page.repeated
    \/ page.forms > MaxCsrfForms
    \/ page.inputs > MaxCsrfFields

\* the candidates of extract_csrf_token that it does not pass over
AcceptedTokens(page, source) ==
    { [source |-> NormalizeUrl(source), action |-> NormalizeUrl(f.action),
       method |-> f.method, token |-> f.token] :
          f \in { g \in page.fields : g.action.https /\ SameOrigin(g.action, source) } }

\* extract_csrf_token: exactly one, or it fails
ExtractCsrfToken(page, source) ==
    LET accepted == AcceptedTokens(page, source) IN
    IF ParserGivesUp(page) \/ ~source.https
          \/ (\E t \in accepted : t.method \notin FormMethods)
          \/ Cardinality(accepted) # 1
    THEN Nothing
    ELSE CHOOSE t \in accepted : TRUE

----------------------------------------------------------------------------
(* Approvals [target, method, granted, expires] and form proposals         *)
(* [target, method, ref, csrf, approval]                                   *)

IsSubmission(p) == DOMAIN p = {"target", "method", "ref", "csrf", "approval"}

\* FormSubmissionApproval.__post_init__
ValidApproval(a) ==
    /\ a.target.https
    /\ a.method \in Mutating
    /\ a.granted < a.expires
    /\ a.expires - a.granted <= MaxApprovalLifetime

\* FormSubmissionApproval.permits
Permits(a, target, method, now) ==
    /\ NormalizeUrl(target) = a.target
    /\ method = a.method
    /\ a.granted <= now /\ now < a.expires

\* FormSubmission.assert_authorized; every proposal's method is mutating
Authorized(p, now) == p.approval # Nothing /\ Permits(p.approval, p.target, p.method, now)

\* FormSubmission.__post_init__, which keeps the normalized target
ValidSubmission(p, now) ==
    /\ IsSubmission(p)
    /\ IsUrl(p.target) /\ p.target.https /\ p.target = NormalizeUrl(p.target)
    /\ p.method \in Mutating
    /\ p.csrf # Nothing => TokenApplies(p.csrf, p.target, p.method)
    /\ Authorized(p, now)

\* InMemoryFormSubmissionProvider.__init__
ValidSubmissionEntry(p, ref, now) ==
    /\ ValidSubmission(p, now)
    /\ p.approval = Nothing \/ ValidApproval(p.approval)
    /\ p.ref = ref

=============================================================================

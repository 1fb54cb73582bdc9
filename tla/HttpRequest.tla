----------------------------- MODULE HttpRequest -----------------------------
(***************************************************************************)
(* HTTPAdapter._request and _request_http3 (src/fetech/adapters/http.py)   *)
(* with the URL policy they share (SafeURLPolicy, src/fetech/security.py)  *)
(* and the connection pins of a request (src/fetech/transport.py).         *)
(*                                                                         *)
(* One iteration of the request loop takes a network slot, checks the      *)
(* destination, resolves or refreshes the credential, asks robots.txt in a *)
(* crawl, sends the request and reads the answer; a redirect or a          *)
(* refreshed credential starts the next iteration.  Requests run           *)
(* concurrently and share the slots and the policy's table of validated    *)
(* addresses.  Servers, DNS and the credential provider are environment.   *)
(*                                                                         *)
(* Each step ends at an await.  A credential taken from the context's      *)
(* cache needs none; the model lets other requests run there all the same. *)
(***************************************************************************)
EXTENDS Naturals, FiniteSets

CONSTANTS
    Requests,    \* calls of _request
    Jobs,        \* [Requests -> SUBSET Job]: what each may be called with
    Urls,        \* normalized URLs: [host, secure, path]
    Addresses,   \* what DNS may answer
    Public,      \* those for which is_public_address holds
    Capacities,  \* how many slots the network scheduler may have
    Redirects,   \* [Requests -> Nat]: request.budget.redirects
    MaxBytes,    \* the remaining decompressed_bytes budget
    RobotsLimit, \* 512_000
    Nothing      \* None

Hosts     == { u.host : u \in Urls }
Origin(u) == [host |-> u.host, secure |-> u.secure]
Origins   == { Origin(u) : u \in Urls }

(* form: an approved form with a session's credential; login: one without, *)
(* whose response cookies may follow a redirect; post: http_post, no body. *)
Kinds == {"get", "post", "form", "login", "crawl", "http3"}
Job   == [kind : Kinds, target : Urls, auth : BOOLEAN]

ASSUME RequestAssumption ==
    /\ \A u \in Urls : u.secure \in BOOLEAN
    /\ Public \subseteq Addresses
    /\ Nothing \notin Addresses /\ Nothing \notin Origins /\ Nothing \notin Urls
    /\ Capacities \subseteq Nat \ {0}
    /\ Redirects \in [Requests -> Nat]
    /\ MaxBytes \in Nat \ {0}
    /\ RobotsLimit \in Nat
    /\ \A q \in Requests : \A j \in Jobs[q] :
          j \in Job /\ (j.kind = "login" => ~j.auth) /\ (j.kind = "form" => j.auth)

VARIABLES
    req,       \* the locals of each call, and what it sent last
    validated, \* policy._validated_addresses
    capacity   \* slots of the scheduler

vars   == <<req, validated, capacity>>
shared == <<validated, capacity>>

Idle == [ pc |-> "idle",
          job |-> Nothing,
          url |-> Nothing,        \* current
          previous |-> Nothing,
          visited |-> {},
          left |-> 0,             \* iterations left
          method |-> "GET",       \* GET stands for HEAD too
          body |-> FALSE,         \* request_body is not None
          credential |-> Nothing, \* the origin it is scoped to
          refreshed |-> FALSE,    \* refresh_attempted
          cookies |-> Nothing,    \* ephemeral_cookie_origin
          robots |-> {},          \* robots_checked
          auxiliary |-> 0,        \* auxiliary_bytes
          size |-> 0,             \* decompressed_size (transferred over HTTP/3)
          pin |-> Nothing,        \* transport.pin of the current host
          holds |-> FALSE,        \* it has a slot
          sent |-> Nothing,       \* ghost: the last request on the wire
          requests |-> 0,         \* ghost: how many, robots.txt apart
          bodies |-> 0,           \* ghost: how many with the body
          refreshes |-> 0,        \* ghost: how many credential refreshes
          secured |-> FALSE ]     \* ghost: one went over https

Init ==
    /\ req = [q \in Requests |-> Idle]
    /\ validated = [h \in Hosts |-> Nothing]
    /\ capacity \in Capacities

Becomes(q, r) == req' = [req EXCEPT ![q] = r]
Holders       == { q \in Requests : req[q].holds }

----------------------------------------------------------------------------
(* Leaving an iteration: the exit stacks give the slot back *)

Released(r) == [r EXCEPT !.holds = FALSE]

\* an exception leaves the call, and its locals are gone
Failed == [Idle EXCEPT !.pc = "failed"]

\* continue, or "redirect budget exhausted"
NextHop(r) ==
    IF r.left = 1 THEN Failed
                  ELSE [Released(r) EXCEPT !.left = @ - 1, !.pc = "admit"]

----------------------------------------------------------------------------
(* Sending *)

\* mutant of Applies: a credential once resolved is always sent
AppliesEverywhere(r) == r.credential # Nothing

Applies(r) == r.credential = Origin(r.url)

Wire(r, credential, cookies, body) ==
    [url |-> r.url, address |-> r.pin, credential |-> credential,
     cookies |-> cookies, body |-> body]

Sent(r) ==
    IF r.job.kind = "http3" /\ r.size >= MaxBytes THEN Failed
    ELSE [r EXCEPT
            !.pc = "response",
            !.sent = Wire(r, IF Applies(r) THEN r.credential ELSE Nothing,
                          IF r.cookies = Origin(r.url) THEN r.cookies ELSE Nothing,
                          r.body),
            !.requests = @ + 1,
            !.bodies = IF r.body THEN @ + 1 ELSE @,
            !.secured = @ \/ r.url.secure]

\* robots.txt is asked for without credential, cookies or body
RobotsSent(r) ==
    IF r.auxiliary >= MaxBytes \/ RobotsLimit = 0 THEN Failed
    ELSE [r EXCEPT
            !.pc = "robots",
            !.robots = @ \cup {Origin(r.url)},
            !.sent = Wire(r, Nothing, Nothing, FALSE),
            !.secured = @ \/ r.url.secure]

(* From the policy's verdict and the credential to the first byte: loop    *)
(* check, pin from the shared table, cookies dropped on another origin.    *)
Prepared(r, table) ==
    LET next == [r EXCEPT
                   !.visited = @ \cup {r.url},
                   !.pin = table[r.url.host],
                   !.cookies = IF @ = Origin(r.url) THEN @ ELSE Nothing]
    IN  IF r.url \in r.visited THEN Failed
        ELSE IF r.job.kind = "crawl" /\ Origin(r.url) \notin r.robots
             THEN RobotsSent(next)
             ELSE Sent(next)

----------------------------------------------------------------------------
(* One iteration *)

Call(q) ==
    /\ req[q].pc = "idle"
    /\ \E j \in Jobs[q] :
          Becomes(q, [Idle EXCEPT
              !.pc = "admit",
              !.job = j,
              !.url = j.target,
              !.left = Redirects[q] + 1,
              !.method = IF j.kind \in {"post", "form", "login"} THEN "POST" ELSE "GET",
              !.body = j.kind \in {"form", "login"}])
    /\ UNCHANGED shared

\* scheduler.slot: for the iteration, or again for the request after robots.txt
Admit(q) ==
    /\ req[q].pc \in {"admit", "admit_again"}
    /\ Cardinality(Holders) < capacity
    /\ LET r == [req[q] EXCEPT !.holds = TRUE] IN
       Becomes(q, IF r.pc = "admit" THEN [r EXCEPT !.pc = "policy"] ELSE Sent(r))
    /\ UNCHANGED shared

Downgrade(r) == r.previous # Nothing /\ r.previous.secure /\ ~r.url.secure

\* the credential is resolved on the first iteration; HTTP/3 supports none
NeedsCredential(r) == r.job.auth /\ r.credential = Nothing

Allowed(r, table) ==
    IF r.job.kind = "http3" /\ (r.job.auth \/ ~r.url.secure) THEN Failed
    ELSE IF NeedsCredential(r) THEN [r EXCEPT !.pc = "credential"]
    ELSE Prepared(r, table)

\* mutant of Evaluate: the answer is stored before it is checked
EvaluateStoreFirst(q) ==
    LET r == req[q] IN
    /\ r.pc = "policy"
    /\ \E answer \in Addresses :
          /\ validated' = [validated EXCEPT ![r.url.host] = answer]
          /\ Becomes(q, IF Downgrade(r) \/ answer \notin Public THEN Failed
                        ELSE Allowed(r, validated'))
    /\ UNCHANGED capacity

(* policy.evaluate: DNS answered.  Whatever else the policy refuses (the   *)
(* scheme, the port, the deny-list) looks like a name that did not resolve.*)
Evaluate(q) ==
    LET r == req[q] IN
    /\ r.pc = "policy"
    /\ \/ \E answer \in Public :
            /\ ~Downgrade(r)
            /\ validated' = [validated EXCEPT ![r.url.host] = answer]
            /\ Becomes(q, Allowed(r, validated'))
       \/ Becomes(q, Failed) /\ UNCHANGED validated
    /\ UNCHANGED capacity

(* _resolve_credential.  Material is scoped to an https origin; on another *)
(* origin than the target it blocks the request.  Expired material is      *)
(* refreshed, for safe methods only.                                       *)
Resolve(q) ==
    LET r == req[q] IN
    /\ r.pc = "credential"
    /\ \/ \E o \in { x \in Origins : x.secure } :
            /\ o = Origin(r.url)
            /\ LET known == [r EXCEPT !.credential = o] IN
               \/ Becomes(q, Prepared(known, validated))
               \/ /\ r.method = "GET"
                  /\ Becomes(q, [known EXCEPT !.pc = "refresh_expired"])
       \/ Becomes(q, Failed)
    /\ UNCHANGED shared

(* _refresh_credential: the new material is bound to the session's origin, *)
(* which is the old one's, or the request fails.                           *)
Refresh(q) ==
    LET r == req[q]
        next == [r EXCEPT !.refreshed = TRUE, !.refreshes = @ + 1]
    IN  /\ r.pc \in {"refresh_expired", "refresh_rejected"}
        /\ \/ Becomes(q, IF r.pc = "refresh_expired" THEN Prepared(next, validated)
                         ELSE NextHop([next EXCEPT !.visited = @ \ {r.url}]))
           \/ Becomes(q, Failed)
        /\ UNCHANGED shared

\* mutant of RobotsAllow: the slot is kept while the next one is asked for
RobotsAllowHolding(q) ==
    LET r == req[q] IN
    /\ r.pc = "robots"
    /\ \E n \in 0..(MaxBytes - r.auxiliary) :
          /\ n <= RobotsLimit
          /\ Becomes(q, [r EXCEPT !.auxiliary = @ + n, !.pc = "admit_again"])
    /\ UNCHANGED shared

(* robots.txt permits the target, or is not there (0 bytes): the slot goes *)
(* back before the one for the request proper is asked for.                *)
RobotsAllow(q) ==
    LET r == req[q] IN
    /\ r.pc = "robots"
    /\ \E n \in 0..(MaxBytes - r.auxiliary) :
          /\ n <= RobotsLimit
          /\ Becomes(q, [Released(r) EXCEPT !.auxiliary = @ + n, !.pc = "admit_again"])
    /\ UNCHANGED shared

----------------------------------------------------------------------------
(* The answer *)

\* over HTTP/3 the body of every answer, redirects included, is transferred
Transferred(r) == IF r.job.kind = "http3" THEN 0..(MaxBytes - r.size) ELSE {0}

\* mutant of Redirected: the body follows a 307
RedirectedWithBody(r, status, to, kept) ==
    LET becomesGet == status = 303 \/ (status = 302 /\ r.method = "POST") IN
    NextHop([r EXCEPT
               !.previous = r.url,
               !.url = to,
               !.method = IF becomesGet THEN "GET" ELSE @,
               !.body = IF becomesGet THEN FALSE ELSE @,
               !.cookies = IF kept THEN Origin(r.url) ELSE Nothing])

(* 302 stands for 301 and 302, 307 for 307 and 308.  A body is never sent  *)
(* on: the method becomes GET or the redirect is refused.  `kept': the     *)
(* login's cookies, old and new, leave something for the same origin.      *)
Redirected(r, status, to, kept) ==
    LET becomesGet == status = 303 \/ (status = 302 /\ r.method = "POST") IN
    IF (r.job.kind = "login" /\ status = 307) \/ (r.body /\ ~becomesGet)
    THEN Failed
    ELSE NextHop([r EXCEPT
                    !.previous = r.url,
                    !.url = to,
                    !.method = IF becomesGet THEN "GET" ELSE @,
                    !.body = IF becomesGet THEN FALSE ELSE @,
                    !.cookies = IF kept THEN Origin(r.url) ELSE Nothing])

MayKeepCookies(r, to) ==
    r.job.kind = "login" /\ r.url.secure /\ Origin(r.url) = Origin(to)

Redirect(q) ==
    LET r == req[q] IN
    /\ r.pc = "response"
    /\ \E status \in {302, 303, 307}, to \in Urls, n \in Transferred(r), kept \in BOOLEAN :
          /\ kept => MayKeepCookies(r, to)
          /\ Becomes(q, Redirected([r EXCEPT !.size = @ + n], status, to, kept))
    /\ UNCHANGED shared

\* 401 and the challenge says that the bearer token expired
RejectExpired(q) ==
    LET r == req[q] IN
    /\ r.pc = "response"
    /\ r.sent.credential # Nothing
    /\ Becomes(q, IF ~r.refreshed /\ r.method = "GET"
                  THEN [r EXCEPT !.pc = "refresh_rejected"] ELSE Failed)
    /\ UNCHANGED shared

(* A final status: the body is read chunk by chunk (HTTP/3 has it whole).  *)
Accept(q) ==
    LET r == req[q] IN
    /\ r.pc = "response"
    /\ \E n \in Transferred(r) :
          Becomes(q, IF r.job.kind = "http3"
                     THEN [Released(r) EXCEPT !.size = @ + n, !.pc = "returned"]
                     ELSE [r EXCEPT !.pc = "body"])
    /\ UNCHANGED shared

Chunk(q) ==
    LET r == req[q] IN
    /\ r.pc = "body"
    /\ \E n \in 1..(MaxBytes + 1) :
          LET next == [r EXCEPT !.size = @ + n] IN
          Becomes(q, IF next.size + next.auxiliary > MaxBytes THEN Failed ELSE next)
    /\ UNCHANGED shared

Return(q) ==
    /\ req[q].pc = "body"
    /\ Becomes(q, [Released(req[q]) EXCEPT !.pc = "returned"])
    /\ UNCHANGED shared

(* Any other answer (404, 401, 403, an error status, a robots.txt that     *)
(* forbids, is too long or cannot be had, no Location, too many wire       *)
(* bytes), a transport error, the deadline of the slot, or a cancellation: *)
(* the exit stacks run and the request raises.                             *)
Ended == {"idle", "returned", "failed"}

Interrupt(q) ==
    /\ req[q].pc \notin Ended
    /\ Becomes(q, Failed)
    /\ UNCHANGED shared

----------------------------------------------------------------------------
Progress(q) ==
    \/ Admit(q)
    \/ Evaluate(q)
    \/ Resolve(q)
    \/ Refresh(q)
    \/ RobotsAllow(q)
    \/ Redirect(q)
    \/ RejectExpired(q)
    \/ Accept(q)
    \/ Chunk(q)
    \/ Return(q)

Next == \E q \in Requests : Call(q) \/ Progress(q) \/ Interrupt(q)

Spec == Init /\ [][Next]_vars

(* Every operation a request awaits ends, if only by the deadline slot()   *)
(* puts it under; a free slot is given to someone who waits for it.  That  *)
(* a request waiting for a slot times out is not assumed.                  *)
Fairness == \A q \in Requests : WF_vars(Progress(q))

FairSpec == Spec /\ Fairness

----------------------------------------------------------------------------
(* Properties *)

Wires == [url : Urls, address : Addresses \cup {Nothing},
          credential : Origins \cup {Nothing}, cookies : Origins \cup {Nothing},
          body : BOOLEAN]

TypeOK ==
    /\ validated \in [Hosts -> Addresses \cup {Nothing}]
    /\ capacity \in Capacities
    /\ \A q \in Requests : LET r == req[q] IN
         /\ r.pc \in {"admit", "policy", "credential", "refresh_expired", "refresh_rejected",
                      "robots", "admit_again", "response", "body"} \cup Ended
         /\ r.job \in Jobs[q] \cup {Nothing}
         /\ r.url \in Urls \cup {Nothing} /\ r.previous \in Urls \cup {Nothing}
         /\ r.visited \subseteq Urls
         /\ r.left \in 0..(Redirects[q] + 1)
         /\ r.method \in {"GET", "POST"}
         /\ r.credential \in Origins \cup {Nothing}
         /\ r.cookies \in Origins \cup {Nothing}
         /\ r.robots \subseteq Origins
         /\ r.auxiliary \in 0..MaxBytes
         /\ r.size \in Nat
         /\ r.pin \in Addresses \cup {Nothing}
         /\ r.holds = (r.pc \notin Ended \cup {"admit", "admit_again"})
         /\ r.sent \in Wires \cup {Nothing}
         /\ r.body \in BOOLEAN /\ r.refreshed \in BOOLEAN /\ r.secured \in BOOLEAN

OnTheWire == { req[q] : q \in { p \in Requests : req[p].sent # Nothing } }

(* Secrets stay at their origin.  Whatever redirects, refreshes and        *)
(* robots.txt requests come between, a credential goes only to the origin  *)
(* it is scoped to, and a login's cookies only to the origin that set      *)
(* them; robots.txt gets neither.                                          *)
CredentialScope ==
    \A r \in OnTheWire :
        /\ r.sent.credential \in {Nothing, Origin(r.sent.url)}
        /\ r.sent.cookies \in {Nothing, Origin(r.sent.url)}
        /\ r.pc = "robots" => r.sent.credential = Nothing /\ r.sent.cookies = Nothing

(* A request body is sent once, and to nobody but the approved target: no  *)
(* redirect, no loop and no retry after a refresh repeats it.              *)
BodyNeverReplayed ==
    \A r \in OnTheWire : r.bodies <= 1 /\ (r.sent.body => r.sent.url = r.job.target)

(* Every hop is checked and paid for.  A connection is only made to an     *)
(* address that was validated as public, also when DNS changes its answer  *)
(* between two requests that share the table; once a chain of hops has     *)
(* been on https it never falls back to http; and redirects together with  *)
(* the one retry after a refresh stay within the redirects budget.         *)
HopsChecked ==
    \A q \in Requests : LET r == req[q] IN
        /\ r.sent # Nothing =>
             r.sent.address \in Public /\ (r.secured => r.sent.url.secure)
        /\ r.refreshes <= 1
        /\ r.requests <= Redirects[q] + 1

(* A request that was called ends, without help from its deadline: it      *)
(* never waits for a slot while it holds one, so requests cannot block     *)
(* each other, or themselves, for good.                                    *)
RequestEnds == \A q \in Requests : req[q].pc = "admit" ~> req[q].pc \in {"returned", "failed"}

==============================================================================

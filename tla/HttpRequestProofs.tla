------------------------- MODULE HttpRequestProofs -------------------------
(***************************************************************************)
(* Proofs about HttpRequest for any number of concurrent requests, URLs,   *)
(* addresses and redirects: secrets stay at their origin, a body is sent   *)
(* once, and every hop is checked and paid for.                            *)
(*                                                                         *)
(* The invariant is one predicate on the locals of a call, Good, and one   *)
(* on the table of addresses the calls share.  The lemmas follow a call    *)
(* through one iteration of the loop: what is Ready may be sent, and what  *)
(* is Answered may start the next iteration.                               *)
(***************************************************************************)
EXTENDS HttpRequest, TLAPS

Points == {"admit", "policy", "credential", "refresh_expired", "refresh_rejected",
           "robots", "admit_again", "response", "body"} \cup Ended
MaybeJob     == Job \cup {Nothing}
MaybeUrl     == Urls \cup {Nothing}
MaybeOrigin  == Origins \cup {Nothing}
MaybeAddress == Addresses \cup {Nothing}
MaybeWire    == Wires \cup {Nothing}
UrlSets      == SUBSET Urls
OriginSets   == SUBSET Origins
Methods      == {"GET", "POST"}
Sizes        == 0..MaxBytes

Calls == [pc : Points, job : MaybeJob, url : MaybeUrl, previous : MaybeUrl,
          visited : UrlSets, left : Nat, method : Methods, body : BOOLEAN,
          credential : MaybeOrigin, refreshed : BOOLEAN, cookies : MaybeOrigin,
          robots : OriginSets, auxiliary : Sizes, size : Nat, pin : MaybeAddress,
          holds : BOOLEAN, sent : MaybeWire, requests : Nat, bodies : Nat,
          refreshes : Nat, secured : BOOLEAN]

\* Where the request of the current iteration is still to be sent, or was.
Before == {"admit", "policy", "credential", "refresh_expired", "robots", "admit_again"}
After  == {"response", "refresh_rejected", "body"}

\* What a call is about; when it is not running, its locals are gone.
CallInv(q, r) ==
    /\ r.pc \in Before \cup After \cup {"returned"} => r.url \in Urls /\ r.job \in Jobs[q]
    /\ r.pc \in {"idle", "failed"} =>
          r.sent = Nothing /\ r.job = Nothing /\ r.requests = 0
    /\ r.holds = (r.pc \notin Ended \cup {"admit", "admit_again"})

\* Each iteration left is paid for by a request not yet sent.
CountInv(q, r) ==
    /\ r.left <= Redirects[q] + 1
    /\ r.requests <= Redirects[q] + 1
    /\ r.pc \in Before => r.left >= 1 /\ r.requests + r.left <= Redirects[q] + 1
    /\ r.pc \in After  => r.left >= 1 /\ r.requests + r.left <= Redirects[q] + 2

\* A credential is resolved once, and refreshed once.
RefreshInv(r) ==
    /\ r.refreshes <= 1
    /\ ~r.refreshed => r.refreshes = 0
    /\ r.credential = Nothing => ~r.refreshed
    /\ r.pc = "credential" => r.credential = Nothing
    /\ r.pc \in {"refresh_expired", "refresh_rejected"} =>
          ~r.refreshed /\ ~r.body /\ r.credential # Nothing
    /\ r.pc \in After /\ r.sent.credential # Nothing => r.credential # Nothing

\* The body is there until it was sent to the target.
BodyInv(r) ==
    /\ r.bodies <= 1
    /\ r.body => /\ r.method = "POST" /\ r.url = r.job.target
                 /\ r.job.kind \in {"form", "login"}
                 /\ r.pc \in {"admit", "policy", "credential"} \cup After \cup {"returned"}
                 /\ r.pc \in Before => r.bodies = 0
    /\ r.sent # Nothing /\ r.sent.body => r.sent.url = r.job.target

\* What was sent last.
SentInv(r) ==
    r.sent # Nothing =>
      /\ r.sent.credential \in {Nothing, Origin(r.sent.url)}
      /\ r.sent.cookies \in {Nothing, Origin(r.sent.url)}
      /\ r.pc = "robots" => r.sent.credential = Nothing /\ r.sent.cookies = Nothing
      /\ r.sent.address \in Public
      /\ r.secured => r.sent.url.secure

\* Where a chain that has been on https is, and the address it is pinned to.
HopInv(r) ==
    /\ r.pc \in {"robots", "admit_again"} => r.pin \in Public
    /\ r.secured /\ r.pc \in {"admit", "policy"} =>
          r.url.secure \/ (r.previous # Nothing /\ r.previous.secure)
    /\ r.secured /\ r.pc \in (Before \ {"admit", "policy"}) \cup After => r.url.secure

Good(q, r) ==
    /\ r \in Calls
    /\ CallInv(q, r) /\ CountInv(q, r) /\ RefreshInv(r) /\ BodyInv(r) /\ SentInv(r) /\ HopInv(r)

\* The shared table holds public addresses, and one for each host that the
\* policy has just allowed and a credential is asked for.
Asking == {"credential", "refresh_expired"}
TableInv ==
    /\ validated \in [Hosts -> Public \cup {Nothing}]
    /\ \A q \in Requests : req[q].pc \in Asking =>
          validated[req[q].url.host] \in Public

RequestInv ==
    /\ capacity \in Capacities
    /\ req = [q \in Requests |-> req[q]]
    /\ \A q \in Requests : Good(q, req[q])
    /\ TableInv

\* What a step leaves alone that only moves a call on.
Same(n, r) ==
    /\ n.url = r.url /\ n.job = r.job /\ n.previous = r.previous /\ n.left = r.left
    /\ n.method = r.method /\ n.body = r.body /\ n.credential = r.credential
    /\ n.refreshed = r.refreshed /\ n.pin = r.pin /\ n.sent = r.sent
    /\ n.requests = r.requests /\ n.bodies = r.bodies /\ n.refreshes = r.refreshes
    /\ n.secured = r.secured

\* A call whose next step may be to send its request.
Ready(q, r) ==
    /\ r \in Calls
    /\ r.url \in Urls /\ r.job \in Jobs[q] /\ r.holds = TRUE
    /\ r.left >= 1 /\ r.left <= Redirects[q] + 1 /\ r.requests + r.left <= Redirects[q] + 1
    /\ r.refreshes <= 1
    /\ ~r.refreshed => r.refreshes = 0
    /\ r.credential = Nothing => ~r.refreshed
    /\ r.bodies <= 1
    /\ r.body => /\ r.method = "POST" /\ r.url = r.job.target
                 /\ r.job.kind \in {"form", "login"} /\ r.bodies = 0
    /\ r.secured => r.url.secure

\* A call that has its answer and may start the next iteration.
Answered(q, r) ==
    /\ r \in Calls
    /\ r.url \in Urls /\ r.job \in Jobs[q]
    /\ r.left >= 1 /\ r.left <= Redirects[q] + 1
    /\ r.requests <= Redirects[q] + 1 /\ r.requests + r.left <= Redirects[q] + 2
    /\ r.refreshes <= 1
    /\ ~r.refreshed => r.refreshes = 0
    /\ r.credential = Nothing => ~r.refreshed
    /\ r.bodies <= 1 /\ r.body = FALSE
    /\ r.sent # Nothing /\ r.sent.body => r.sent.url = r.job.target
    /\ SentInv(r)
    /\ r.secured => r.url.secure \/ (r.previous # Nothing /\ r.previous.secure)

----------------------------------------------------------------------------
\* A call that has not begun, and one that raised, are calls.
LEMMA IdleIsCall == Idle \in Calls /\ Failed \in Calls
<1> PICK no \in BOOLEAN : no = FALSE
  BY Zenon
<1> PICK start \in Points : start = "idle"
  BY DEF Points, Ended
<1>1. /\ Nothing \in MaybeJob /\ Nothing \in MaybeUrl /\ Nothing \in MaybeOrigin
      /\ Nothing \in MaybeAddress /\ Nothing \in MaybeWire
      /\ {} \in UrlSets /\ {} \in OriginSets /\ "GET" \in Methods /\ 0 \in Sizes
  BY RequestAssumption
     DEF MaybeUrl, MaybeOrigin, MaybeAddress, MaybeWire, MaybeJob, UrlSets, OriginSets, Methods, Sizes
<1>2. [ pc |-> start, job |-> Nothing, url |-> Nothing, previous |-> Nothing,
        visited |-> {}, left |-> 0, method |-> "GET", body |-> no, credential |-> Nothing,
        refreshed |-> no, cookies |-> Nothing, robots |-> {}, auxiliary |-> 0, size |-> 0,
        pin |-> Nothing, holds |-> no, sent |-> Nothing, requests |-> 0, bodies |-> 0,
        refreshes |-> 0, secured |-> no ] \in Calls
  BY <1>1 DEF Calls
<1>3. Idle \in Calls
  BY <1>2, Zenon DEF Idle
<1> QED
  BY <1>3 DEF Failed, Calls, Points, Ended

\* A call that has not begun, or that raised, has nothing to be wrong.
LEMMA FailedIsGood ==
    ASSUME NEW q \in Requests
    PROVE  Good(q, Idle) /\ Good(q, Failed) /\ Failed.pc \notin Asking
<1>1. ASSUME NEW r \in Calls, r.pc \in {"idle", "failed"}, r.sent = Nothing, r.job = Nothing,
             r.requests = 0, r.left = 0, r.refreshes = 0, r.refreshed = FALSE, r.bodies = 0,
             r.body = FALSE, r.holds = FALSE
      PROVE  Good(q, r)
  <2>1. r.holds = (r.pc \notin Ended \cup {"admit", "admit_again"})
    <3>1. r.pc \in Ended
      BY <1>1 DEF Ended
    <3> QED
      BY <1>1, <3>1, Zenon
  <2>3. CallInv(q, r) /\ CountInv(q, r)
    BY <1>1, <2>1, RequestAssumption DEF CallInv, CountInv, Before, After
  <2>2. RefreshInv(r) /\ BodyInv(r) /\ SentInv(r) /\ HopInv(r)
    BY <1>1 DEF RefreshInv, BodyInv, SentInv, HopInv, Before, After
  <2> QED
    BY <1>1, <2>2, <2>3 DEF Good
<1>2. Good(q, Idle)
  BY <1>1, IdleIsCall DEF Idle
<1>3. /\ Failed.pc = "failed" /\ Failed.sent = Idle.sent /\ Failed.job = Idle.job
      /\ Failed.requests = Idle.requests /\ Failed.left = Idle.left
      /\ Failed.refreshes = Idle.refreshes /\ Failed.refreshed = Idle.refreshed
      /\ Failed.bodies = Idle.bodies /\ Failed.body = Idle.body /\ Failed.holds = Idle.holds
  BY IdleIsCall DEF Failed, Calls
<1>4. Good(q, Failed) /\ Failed.pc \notin Asking
  BY <1>1, <1>3, IdleIsCall DEF Idle, Asking
<1> QED
  BY <1>2, <1>4

\* The request leaves, to the pinned address, with what its origin may see.
LEMMA SentIsGood ==
    ASSUME NEW q \in Requests, NEW r, Ready(q, r), r.pin \in Public
    PROVE  Good(q, Sent(r)) /\ Sent(r).pc \notin Asking
<1> PICK c \in MaybeOrigin : c = IF Applies(r) THEN r.credential ELSE Nothing
  BY DEF Ready, Calls, MaybeOrigin
<1> PICK k \in MaybeOrigin : k = IF r.cookies = Origin(r.url) THEN r.cookies ELSE Nothing
  BY DEF Ready, Calls, MaybeOrigin
<1> PICK w \in Wires : w = [url |-> r.url, address |-> r.pin, credential |-> c, cookies |-> k,
                            body |-> r.body]
  BY DEF Wires, Ready, Calls, MaybeOrigin, MaybeAddress
<1>1. PICK s \in BOOLEAN : s = (r.secured \/ r.url.secure)
  BY Zenon
<1>2. PICK b \in Nat : b = IF r.body THEN r.bodies + 1 ELSE r.bodies
  BY DEF Ready, Calls
<1>3. PICK n : n = [r EXCEPT !.pc = "response", !.sent = w, !.requests = @ + 1,
                             !.bodies = b, !.secured = s]
  OBVIOUS
<1>4. /\ n \in Calls
      /\ n.pc = "response" /\ n.sent = w /\ n.requests = r.requests + 1 /\ n.bodies = b
      /\ n.secured = s /\ n.url = r.url /\ n.job = r.job /\ n.holds = r.holds /\ n.left = r.left
      /\ n.refreshes = r.refreshes /\ n.refreshed = r.refreshed /\ n.credential = r.credential
      /\ n.body = r.body /\ n.method = r.method
  <2>1. r \in Calls /\ "response" \in Points /\ w \in MaybeWire /\ r.requests + 1 \in Nat
    BY DEF Ready, Calls, Points, MaybeWire
  <2> QED
    BY <1>3, <2>1, ZenonT(30) DEF Calls
<1>5. w.url = r.url /\ w.address = r.pin /\ w.credential = c /\ w.cookies = k /\ w.body = r.body
  OBVIOUS
<1>6. CallInv(q, n) /\ CountInv(q, n)
  BY <1>4, RequestAssumption DEF Ready, CallInv, CountInv, Before, After, Ended, Calls
<1>7. RefreshInv(n)
  BY <1>4, <1>5 DEF Ready, RefreshInv, After
<1>8. BodyInv(n)
  BY <1>2, <1>4, <1>5 DEF Ready, BodyInv, Before, After
<1>9. SentInv(n) /\ HopInv(n)
  BY <1>1, <1>4, <1>5, ZenonT(30) DEF Ready, SentInv, HopInv, Applies, Before
<1>10. Sent(r) \in {Failed, n}
  BY <1>1, <1>2, <1>3 DEF Sent, Wire
<1> QED
  BY <1>4, <1>6, <1>7, <1>8, <1>9, <1>10, FailedIsGood DEF Good, Asking

\* robots.txt is asked for, with nothing that belongs to the call.
LEMMA RobotsIsGood ==
    ASSUME NEW q \in Requests, NEW r, Ready(q, r), r.pin \in Public, r.job.kind = "crawl"
    PROVE  Good(q, RobotsSent(r)) /\ RobotsSent(r).pc \notin Asking
<1>0. PICK no \in BOOLEAN : no = FALSE
  BY Zenon
<1> PICK w \in Wires : w = [url |-> r.url, address |-> r.pin, credential |-> Nothing,
                            cookies |-> Nothing, body |-> no]
  BY DEF Wires, Ready, Calls, MaybeAddress
<1>1. PICK s \in BOOLEAN : s = (r.secured \/ r.url.secure)
  BY Zenon
<1>2. PICK o \in OriginSets : o = r.robots \cup {Origin(r.url)}
  BY DEF Ready, Calls, OriginSets, Origins
<1>3. PICK n : n = [r EXCEPT !.pc = "robots", !.robots = o, !.sent = w, !.secured = s]
  OBVIOUS
<1>4. /\ n \in Calls
      /\ n.pc = "robots" /\ n.sent = w /\ n.requests = r.requests /\ n.bodies = r.bodies
      /\ n.secured = s /\ n.url = r.url /\ n.job = r.job /\ n.holds = r.holds /\ n.left = r.left
      /\ n.refreshes = r.refreshes /\ n.refreshed = r.refreshed /\ n.credential = r.credential
      /\ n.body = r.body /\ n.method = r.method /\ n.pin = r.pin
  <2>1. r \in Calls /\ "robots" \in Points /\ w \in MaybeWire
    BY DEF Ready, Points, MaybeWire
  <2> QED
    BY <1>3, <2>1, ZenonT(30) DEF Calls
<1>5. /\ w.url = r.url /\ w.address = r.pin /\ w.credential = Nothing /\ w.cookies = Nothing
      /\ w.body = FALSE
  BY <1>0
<1>6. CallInv(q, n) /\ CountInv(q, n)
  BY <1>4, RequestAssumption DEF Ready, CallInv, CountInv, Before, After, Ended, Calls
<1>7. RefreshInv(n) /\ BodyInv(n)
  BY <1>4, <1>5 DEF Ready, RefreshInv, BodyInv, Before, After
<1>8. SentInv(n) /\ HopInv(n)
  BY <1>1, <1>4, <1>5 DEF Ready, SentInv, HopInv
<1>9. RobotsSent(r) \in {Failed, n}
  <2>1. Wire(r, Nothing, Nothing, FALSE) = w
    BY <1>0, Zenon DEF Wire
  <2> QED
    BY <1>1, <1>2, <1>3, <2>1 DEF RobotsSent
<1> QED
  BY <1>4, <1>6, <1>7, <1>8, <1>9, FailedIsGood DEF Good, Asking

\* After the policy's verdict and the credential.
LEMMA PreparedIsGood ==
    ASSUME NEW q \in Requests, NEW r, Ready(q, r), NEW table, table[r.url.host] \in Public
    PROVE  Good(q, Prepared(r, table)) /\ Prepared(r, table).pc \notin Asking
<1>1. PICK k \in MaybeOrigin : k = IF r.cookies = Origin(r.url) THEN r.cookies ELSE Nothing
  BY DEF Ready, Calls, MaybeOrigin
<1>2. PICK v \in UrlSets : v = r.visited \cup {r.url}
  BY DEF Ready, Calls, UrlSets
<1>3. PICK a \in MaybeAddress : a = table[r.url.host]
  BY RequestAssumption DEF MaybeAddress
<1>4. PICK n : n = [r EXCEPT !.visited = v, !.pin = a, !.cookies = k]
  OBVIOUS
<1>5. /\ n \in Calls
      /\ n.pin = a /\ n.sent = r.sent /\ n.requests = r.requests /\ n.bodies = r.bodies
      /\ n.secured = r.secured /\ n.url = r.url /\ n.job = r.job /\ n.holds = r.holds
      /\ n.left = r.left /\ n.refreshes = r.refreshes /\ n.refreshed = r.refreshed
      /\ n.credential = r.credential /\ n.body = r.body /\ n.method = r.method
  BY <1>4 DEF Ready, Calls
<1>6. Ready(q, n) /\ n.pin \in Public
  BY <1>3, <1>5 DEF Ready
<1>7. Prepared(r, table) \in {Failed, Sent(n)} \/ (r.job.kind = "crawl" /\ Prepared(r, table) = RobotsSent(n))
  BY <1>1, <1>2, <1>3, <1>4 DEF Prepared
<1> QED
  BY <1>5, <1>6, <1>7, FailedIsGood, SentIsGood, RobotsIsGood

\* The next iteration, unless the redirects budget is used up.
LEMMA NextHopIsGood ==
    ASSUME NEW q \in Requests, NEW r, Answered(q, r)
    PROVE  Good(q, NextHop(r)) /\ NextHop(r).pc \notin Asking
<1>0. PICK no \in BOOLEAN : no = FALSE
  BY Zenon
<1>1. CASE r.left = 1
  BY <1>1, FailedIsGood DEF NextHop
<1>2. CASE r.left # 1
  <2>1. PICK m : m = [r EXCEPT !.holds = no]
    OBVIOUS
  <2>2. PICK n : n = [m EXCEPT !.left = @ - 1, !.pc = "admit"]
    OBVIOUS
  <2>3. NextHop(r) = n
    BY <1>0, <1>2, <2>1, <2>2 DEF NextHop, Released
  <2>4. m \in Calls /\ r.left - 1 \in Nat /\ m.left = r.left /\ m.holds = FALSE
    BY <1>0, <1>2, <2>1 DEF Answered, Calls
  <2>5. /\ m.sent = r.sent /\ m.requests = r.requests /\ m.bodies = r.bodies
        /\ m.secured = r.secured /\ m.url = r.url /\ m.job = r.job /\ m.previous = r.previous
        /\ m.refreshes = r.refreshes /\ m.refreshed = r.refreshed
        /\ m.credential = r.credential /\ m.body = r.body /\ m.method = r.method
    BY <2>1 DEF Answered, Calls
  <2>6. n \in Calls /\ n.left = r.left - 1 /\ n.pc = "admit" /\ n.holds = FALSE
    <3>1. "admit" \in Points
      BY DEF Points
    <3> QED
      BY <2>2, <2>4, <3>1 DEF Calls
  <2>7. /\ n.sent = r.sent /\ n.requests = r.requests /\ n.bodies = r.bodies
        /\ n.secured = r.secured /\ n.url = r.url /\ n.job = r.job /\ n.previous = r.previous
        /\ n.refreshes = r.refreshes /\ n.refreshed = r.refreshed
        /\ n.credential = r.credential /\ n.body = r.body /\ n.method = r.method
    BY <2>2, <2>4, <2>5 DEF Calls
  <2>8. CallInv(q, n)
    BY <2>6, <2>7 DEF Answered, CallInv, Before, After, Ended
  <2>9. CountInv(q, n)
    BY <1>2, <2>6, <2>7, RequestAssumption DEF Answered, CountInv, Before, After, Calls
  <2>10. RefreshInv(n) /\ BodyInv(n)
    BY <2>6, <2>7 DEF Answered, RefreshInv, BodyInv, After
  <2>11. SentInv(n) /\ HopInv(n)
    BY <2>6, <2>7 DEF Answered, SentInv, HopInv, After
  <2> QED
    BY <2>3, <2>6, <2>8, <2>9, <2>10, <2>11 DEF Good, Asking
<1> QED
  BY <1>1, <1>2

\* A call moves on within its iteration.
LEMMA MovedIsGood ==
    ASSUME NEW q \in Requests, NEW r, Good(q, r), NEW n \in Calls, Same(n, r),
           n.holds = (n.pc \notin Ended \cup {"admit", "admit_again"}),
           \/ r.pc = "admit" /\ n.pc = "policy"
           \/ r.pc = "policy" /\ n.pc = "credential" /\ r.credential = Nothing /\ ~Downgrade(r)
           \/ r.pc = "robots" /\ n.pc = "admit_again"
           \/ r.pc \in {"response", "body"} /\ n.pc \in {"body", "returned"}
           \/ /\ r.pc = "response" /\ n.pc = "refresh_rejected"
              /\ ~r.refreshed /\ r.method = "GET" /\ r.sent.credential # Nothing
    PROVE  Good(q, n)
<1>1. CallInv(q, n)
  BY DEF Good, CallInv, Before, After, Same
<1>2. CountInv(q, n)
  BY RequestAssumption DEF Good, CountInv, Before, After, Same, Calls
<1>3. RefreshInv(n)
  BY DEF Good, RefreshInv, BodyInv, After, Same
<1>4. BodyInv(n)
  BY DEF Good, BodyInv, Before, After, Same
<1>5. SentInv(n)
  BY DEF Good, SentInv, Same
<1>6. HopInv(n)
  BY DEF Good, HopInv, Before, After, Same, Downgrade
<1> QED
  BY <1>1, <1>2, <1>3, <1>4, <1>5, <1>6 DEF Good

\* A good call takes its step: the others and the shared table are as they were.
LEMMA StepKeepsInv ==
    ASSUME RequestInv, NEW q \in Requests, NEW n, Becomes(q, n), Good(q, n), UNCHANGED shared,
           n.pc \in Asking => validated[n.url.host] \in Public
    PROVE  RequestInv'
<1>1. /\ req' = [p \in Requests |-> req'[p]]
      /\ \A p \in Requests : req'[p] = IF p = q THEN n ELSE req[p]
  BY DEF RequestInv, Becomes
<1>2. \A p \in Requests : Good(p, req'[p])
  BY <1>1 DEF RequestInv
<1>3. TableInv'
  BY <1>1 DEF RequestInv, TableInv, shared
<1> QED
  BY <1>1, <1>2, <1>3 DEF RequestInv, shared

\* A call that raises gives everything back.
LEMMA FailureKeepsInv ==
    ASSUME RequestInv, NEW q \in Requests, Becomes(q, Failed), UNCHANGED shared
    PROVE  RequestInv'
  BY FailedIsGood, StepKeepsInv

\* A request begins with the locals fetch() gives it.
LEMMA CallKeepsInv ==
    ASSUME RequestInv, NEW q \in Requests, Call(q)
    PROVE  RequestInv'
<1>1. PICK j \in Jobs[q] :
          Becomes(q, [Idle EXCEPT
              !.pc = "admit",
              !.job = j,
              !.url = j.target,
              !.left = Redirects[q] + 1,
              !.method = IF j.kind \in {"post", "form", "login"} THEN "POST" ELSE "GET",
              !.body = j.kind \in {"form", "login"}])
  BY DEF Call
<1>2. j \in Job /\ j \in MaybeJob /\ j.target \in Urls /\ j.target \in MaybeUrl
  BY RequestAssumption DEF Job, MaybeJob, MaybeUrl
<1>3. PICK m \in Methods : m = IF j.kind \in {"post", "form", "login"} THEN "POST" ELSE "GET"
  BY DEF Methods
<1>4. PICK b \in BOOLEAN : b = (j.kind \in {"form", "login"})
  <2>1. (j.kind \in {"form", "login"}) \in BOOLEAN
    BY SMT
  <2> QED
    BY <2>1, Zenon
<1>5. PICK k \in Nat : k = Redirects[q] + 1
  BY RequestAssumption
<1>6. PICK n : n = [Idle EXCEPT !.pc = "admit", !.job = j, !.url = j.target, !.left = k,
                                !.method = m, !.body = b]
  OBVIOUS
<1>7. /\ n \in Calls
      /\ n.pc = "admit" /\ n.job = j /\ n.url = j.target /\ n.left = k /\ n.method = m
      /\ n.body = b /\ n.credential = Idle.credential /\ n.refreshed = Idle.refreshed
      /\ n.sent = Idle.sent /\ n.requests = Idle.requests /\ n.bodies = Idle.bodies
      /\ n.refreshes = Idle.refreshes /\ n.secured = Idle.secured /\ n.holds = Idle.holds
  <2>1. "admit" \in Points
    BY DEF Points
  <2> QED
    BY <1>2, <1>6, <2>1, IdleIsCall DEF Calls
<1>8. /\ Idle.credential = Nothing /\ Idle.refreshed = FALSE /\ Idle.sent = Nothing
      /\ Idle.requests = 0 /\ Idle.bodies = 0 /\ Idle.refreshes = 0 /\ Idle.secured = FALSE
      /\ Idle.holds = FALSE
  BY DEF Idle
<1>9. Becomes(q, n)
  BY <1>1, <1>3, <1>4, <1>5, <1>6
<1>10. CallInv(q, n) /\ CountInv(q, n)
  <2>1. n.holds = (n.pc \notin Ended \cup {"admit", "admit_again"})
    <3>1. n.pc \in Ended \cup {"admit", "admit_again"} /\ n.holds = FALSE
      BY <1>7, <1>8
    <3> QED
      BY <3>1, Zenon
  <2>2. CallInv(q, n)
    BY <1>2, <1>7, <2>1 DEF CallInv
  <2>3. CountInv(q, n)
    BY <1>5, <1>7, <1>8, RequestAssumption DEF CountInv, Before, After
  <2> QED
    BY <2>2, <2>3
<1>11. RefreshInv(n)
  BY <1>7, <1>8 DEF RefreshInv, After
<1>12. BodyInv(n)
  <2>1. b => j.kind \in {"form", "login"} /\ m = "POST"
    BY <1>3, <1>4
  <2> QED
    BY <1>7, <1>8, <2>1 DEF BodyInv, Before, After
<1>13. SentInv(n) /\ HopInv(n)
  BY <1>7, <1>8 DEF SentInv, HopInv, Before, After
<1> QED
  BY <1>7, <1>9, <1>10, <1>11, <1>12, <1>13, StepKeepsInv DEF Good, Call, Asking

\* A request is given its slot.
LEMMA AdmitKeepsInv ==
    ASSUME RequestInv, NEW q \in Requests, Admit(q)
    PROVE  RequestInv'
<1>0. PICK yes \in BOOLEAN : yes = TRUE
  BY Zenon
<1>1. PICK r : r = req[q]
  OBVIOUS
<1>2. Good(q, r) /\ r \in Calls
  BY <1>1 DEF RequestInv, Good
<1>3. PICK h : h = [r EXCEPT !.holds = yes]
  OBVIOUS
<1>4. h \in Calls /\ Same(h, r) /\ h.holds = TRUE /\ h.pc = r.pc
  BY <1>0, <1>2, <1>3 DEF Calls, Same
<1>5. UNCHANGED shared
  BY DEF Admit
<1>6. CASE r.pc = "admit"
  <2>1. PICK n : n = [h EXCEPT !.pc = "policy"]
    OBVIOUS
  <2>2. Becomes(q, n)
    BY <1>0, <1>1, <1>3, <1>4, <1>6, <2>1 DEF Admit
  <2>3. n \in Calls /\ Same(n, h) /\ n.holds = TRUE /\ n.pc = "policy"
    BY <1>4, <2>1 DEF Calls, Points, Same
  <2>4. Same(n, r)
    BY <1>4, <2>3 DEF Same
  <2>5. n.holds = (n.pc \notin Ended \cup {"admit", "admit_again"})
    BY <2>3 DEF Ended
  <2>6. Good(q, n)
    BY <1>2, <1>6, <2>3, <2>4, <2>5, MovedIsGood
  <2> QED
    BY <1>5, <2>2, <2>3, <2>6, StepKeepsInv DEF Asking
<1>7. CASE r.pc = "admit_again"
  <2>1. Becomes(q, Sent(h))
    BY <1>0, <1>1, <1>3, <1>4, <1>7 DEF Admit
  <2>2. Ready(q, h) /\ h.pin \in Public
    BY <1>2, <1>4, <1>7, RequestAssumption
       DEF Ready, Good, CallInv, CountInv, RefreshInv, BodyInv, HopInv, Before, After, Same, Calls
  <2> QED
    BY <1>5, <2>1, <2>2, SentIsGood, StepKeepsInv
<1> QED
  BY <1>1, <1>6, <1>7 DEF Admit

\* robots.txt allows the page, whose own request comes next.
LEMMA RobotsAllowKeepsInv ==
    ASSUME RequestInv, NEW q \in Requests, RobotsAllow(q)
    PROVE  RequestInv'
<1>0. PICK no \in BOOLEAN : no = FALSE
  BY Zenon
<1>1. PICK r : r = req[q]
  OBVIOUS
<1>2. Good(q, r) /\ r \in Calls /\ r.pc = "robots"
  BY <1>1 DEF RequestInv, Good, RobotsAllow
<1>3. PICK h : h = [r EXCEPT !.holds = no]
  OBVIOUS
<1>4. h \in Calls /\ Same(h, r) /\ h.holds = FALSE /\ h.auxiliary = r.auxiliary
  BY <1>0, <1>2, <1>3 DEF Calls, Same
<1>5. PICK k \in 0..(MaxBytes - r.auxiliary) :
          Becomes(q, [h EXCEPT !.auxiliary = @ + k, !.pc = "admit_again"])
  BY <1>0, <1>1, <1>3 DEF RobotsAllow, Released
<1>6. PICK n : n = [h EXCEPT !.auxiliary = @ + k, !.pc = "admit_again"]
  OBVIOUS
<1>7. n \in Calls /\ Same(n, h) /\ n.holds = FALSE /\ n.pc = "admit_again"
  <2>1. r.auxiliary + k \in Sizes /\ "admit_again" \in Points
    BY <1>2, RequestAssumption DEF Calls, Sizes, Points
  <2> QED
    BY <1>4, <1>6, <2>1 DEF Calls, Same
<1>8. Good(q, n)
  <2>1. Same(n, r)
    BY <1>4, <1>7 DEF Same
  <2>2. n.holds = (n.pc \notin Ended \cup {"admit", "admit_again"})
    BY <1>7
  <2> QED
    BY <1>2, <1>7, <2>1, <2>2, MovedIsGood
<1> QED
  BY <1>5, <1>6, <1>7, <1>8, StepKeepsInv DEF RobotsAllow, Asking

\* The verdict of the policy enters the shared table before it is used.
LEMMA EvaluateKeepsInv ==
    ASSUME RequestInv, NEW q \in Requests, Evaluate(q)
    PROVE  RequestInv'
<1>1. PICK r : r = req[q]
  OBVIOUS
<1>2. Good(q, r) /\ r \in Calls /\ r.pc = "policy"
  BY <1>1 DEF RequestInv, Good, Evaluate
<1>3. ASSUME NEW answer \in Public, ~Downgrade(r),
             validated' = [validated EXCEPT ![r.url.host] = answer],
             Becomes(q, Allowed(r, validated'))
      PROVE  RequestInv'
  <2>1. r.url \in Urls /\ r.url.host \in Hosts
    BY <1>2 DEF Good, CallInv, Before, Hosts
  <2>2. Ready(q, r)
    BY <1>2, <1>3, RequestAssumption
       DEF Ready, Good, CallInv, CountInv, RefreshInv, BodyInv, HopInv, Before, After, Ended, Calls,
           Downgrade
  <2>3. PICK table : table = validated'
    OBVIOUS
  <2>4. /\ table \in [Hosts -> Public \cup {Nothing}] /\ table[r.url.host] \in Public
        /\ \A h \in Hosts : table[h] = validated[h] \/ table[h] \in Public
    BY <1>3, <2>1, <2>3 DEF RequestInv, TableInv
  <2>5. PICK n : n = Allowed(r, table)
    OBVIOUS
  <2>6. Good(q, n) /\ (n.pc \in Asking => n.url = r.url)
    <3>1. CASE n = Failed
      BY <3>1, FailedIsGood
    <3>2. CASE n = Prepared(r, table)
      BY <2>2, <2>4, <3>2, PreparedIsGood
    <3>3. CASE n = [r EXCEPT !.pc = "credential"] /\ NeedsCredential(r)
      <4>1. n \in Calls /\ Same(n, r) /\ n.pc = "credential" /\ n.holds = r.holds
        BY <1>2, <3>3 DEF Calls, Points, Same
      <4>2. r.credential = Nothing /\ r.holds = TRUE
        BY <2>2, <3>3 DEF NeedsCredential, Ready
      <4> QED
        BY <1>2, <1>3, <4>1, <4>2, MovedIsGood DEF Same, Ended
    <3> QED
      BY <2>5, <3>1, <3>2, <3>3 DEF Allowed
  <2>7. /\ req' = [p \in Requests |-> req'[p]]
        /\ \A p \in Requests : req'[p] = IF p = q THEN n ELSE req[p]
    BY <1>3, <2>3, <2>5 DEF RequestInv, Becomes
  <2>8. \A p \in Requests : Good(p, req'[p])
    BY <2>6, <2>7 DEF RequestInv
  <2>9. ASSUME NEW p \in Requests, req'[p].pc \in Asking
        PROVE  table[req'[p].url.host] \in Public
    <3>1. CASE p = q
      BY <2>4, <2>6, <2>7, <2>9, <3>1
    <3>2. CASE p # q
      <4>1. req[p].pc \in Asking /\ req'[p] = req[p]
        BY <2>7, <2>9, <3>2
      <4>2. validated[req[p].url.host] \in Public /\ req[p].url.host \in Hosts
        BY <4>1 DEF RequestInv, TableInv, Good, CallInv, Before, Hosts, Asking
      <4> QED
        BY <2>4, <4>1, <4>2
    <3> QED
      BY <3>1, <3>2
  <2>10. TableInv'
    BY <2>3, <2>4, <2>9 DEF TableInv
  <2> QED
    BY <2>7, <2>8, <2>10 DEF RequestInv, Evaluate
<1>4. CASE Becomes(q, Failed) /\ UNCHANGED validated
  BY <1>4, FailureKeepsInv DEF Evaluate, shared
<1> QED
  BY <1>1, <1>3, <1>4 DEF Evaluate

\* The credential is resolved for the origin the request goes to.
LEMMA ResolveKeepsInv ==
    ASSUME RequestInv, NEW q \in Requests, Resolve(q)
    PROVE  RequestInv'
<1>1. PICK r : r = req[q]
  OBVIOUS
<1>2. Good(q, r) /\ r \in Calls /\ r.pc = "credential"
  BY <1>1 DEF RequestInv, Good, Resolve
<1>3. PICK table : table = validated
  OBVIOUS
<1>4. table[r.url.host] \in Public
  BY <1>1, <1>2, <1>3 DEF RequestInv, TableInv, Asking
<1>5. ASSUME NEW o \in Origins,
             NEW known, known = [r EXCEPT !.credential = o],
             \/ Becomes(q, Prepared(known, table))
             \/ r.method = "GET" /\ Becomes(q, [known EXCEPT !.pc = "refresh_expired"])
      PROVE  RequestInv'
  <2>1. /\ known \in Calls /\ known.credential = o /\ known.pc = r.pc /\ known.url = r.url
        /\ known.job = r.job /\ known.previous = r.previous /\ known.left = r.left
        /\ known.method = r.method /\ known.body = r.body /\ known.refreshed = r.refreshed
        /\ known.pin = r.pin /\ known.sent = r.sent /\ known.requests = r.requests
        /\ known.bodies = r.bodies /\ known.refreshes = r.refreshes /\ known.secured = r.secured
        /\ known.holds = r.holds
    BY <1>2, <1>5 DEF Calls, MaybeOrigin
  <2>2. o # Nothing /\ r.holds = TRUE
    BY <1>2, RequestAssumption DEF Good, CallInv, Ended
  <2>3. CASE Becomes(q, Prepared(known, table))
    <3>1. Ready(q, known)
      BY <1>2, <2>1, <2>2, RequestAssumption
         DEF Ready, Good, CallInv, CountInv, RefreshInv, BodyInv, HopInv, Before, After, Calls
    <3> QED
      BY <1>4, <2>1, <2>3, <3>1, PreparedIsGood, StepKeepsInv DEF Resolve
  <2>4. CASE r.method = "GET" /\ Becomes(q, [known EXCEPT !.pc = "refresh_expired"])
    <3>1. PICK n : n = [known EXCEPT !.pc = "refresh_expired"]
      OBVIOUS
    <3>2. n \in Calls /\ Same(n, known) /\ n.pc = "refresh_expired" /\ n.holds = TRUE
      BY <2>1, <2>2, <3>1 DEF Calls, Points, Same
    <3>3. CallInv(q, n) /\ CountInv(q, n)
      BY <1>2, <2>1, <3>2, RequestAssumption
         DEF Good, CallInv, CountInv, Before, After, Ended, Same, Calls
    <3>4. RefreshInv(n) /\ BodyInv(n)
      BY <1>2, <2>1, <2>2, <2>4, <3>2 DEF Good, RefreshInv, BodyInv, Before, After, Same
    <3>5. SentInv(n) /\ HopInv(n)
      BY <1>2, <2>1, <3>2 DEF Good, SentInv, HopInv, Before, After, Same
    <3>6. Good(q, n)
      BY <3>2, <3>3, <3>4, <3>5 DEF Good
    <3>7. validated[n.url.host] \in Public
      BY <1>3, <1>4, <2>1, <3>2 DEF Same
    <3> QED
      BY <2>4, <3>1, <3>6, <3>7, StepKeepsInv DEF Resolve
  <2> QED
    BY <1>5, <2>3, <2>4
<1>6. CASE Becomes(q, Failed)
  BY <1>6, FailureKeepsInv DEF Resolve
<1> QED
  BY <1>1, <1>3, <1>5, <1>6 DEF Resolve

\* One refresh: before the first request, or instead of giving up after it.
LEMMA RefreshKeepsInv ==
    ASSUME RequestInv, NEW q \in Requests, Refresh(q)
    PROVE  RequestInv'
<1>0. PICK yes \in BOOLEAN : yes = TRUE
  BY Zenon
<1>1. PICK r : r = req[q]
  OBVIOUS
<1>2. Good(q, r) /\ r \in Calls /\ r.pc \in {"refresh_expired", "refresh_rejected"}
  BY <1>1 DEF RequestInv, Good, Refresh
<1>3. PICK table : table = validated
  OBVIOUS
<1>4. PICK next : next = [r EXCEPT !.refreshed = yes, !.refreshes = @ + 1]
  OBVIOUS
<1>5. /\ next \in Calls /\ next.refreshed = TRUE /\ next.refreshes = r.refreshes + 1
      /\ next.pc = r.pc /\ next.url = r.url /\ next.job = r.job /\ next.previous = r.previous
      /\ next.left = r.left /\ next.method = r.method /\ next.body = r.body
      /\ next.credential = r.credential /\ next.sent = r.sent /\ next.requests = r.requests
      /\ next.bodies = r.bodies /\ next.secured = r.secured /\ next.holds = r.holds
      /\ next.visited = r.visited
  <2>1. r.refreshes + 1 \in Nat
    BY <1>2 DEF Calls
  <2> QED
    BY <1>0, <1>2, <1>4, <2>1 DEF Calls
<1>6. /\ next.refreshes <= 1 /\ next.credential # Nothing /\ next.body = FALSE
      /\ next.holds = TRUE
  BY <1>2, <1>5 DEF Good, CallInv, RefreshInv, Ended, Calls
<1>7. CASE r.pc = "refresh_expired" /\ Becomes(q, Prepared(next, table))
  <2>1. Ready(q, next)
    BY <1>2, <1>5, <1>6, <1>7, RequestAssumption
       DEF Ready, Good, CallInv, CountInv, BodyInv, HopInv, Before, After, Calls
  <2>2. table[next.url.host] \in Public
    BY <1>1, <1>3, <1>5, <1>7 DEF RequestInv, TableInv, Asking
  <2> QED
    BY <1>7, <2>1, <2>2, PreparedIsGood, StepKeepsInv DEF Refresh
<1>8. CASE /\ r.pc = "refresh_rejected"
           /\ Becomes(q, NextHop([next EXCEPT !.visited = @ \ {r.url}]))
  <2>1. PICK n : n = [next EXCEPT !.visited = @ \ {r.url}]
    OBVIOUS
  <2>2. n \in Calls /\ Same(n, next)
    BY <1>5, <2>1 DEF Calls, UrlSets, Same
  <2>3. SentInv(n)
    BY <1>2, <1>5, <1>8, <2>1, <2>2 DEF Good, SentInv, Same, Calls
  <2>4. Answered(q, n)
    BY <1>2, <1>5, <1>6, <1>8, <2>2, <2>3, RequestAssumption
       DEF Answered, Good, CallInv, CountInv, BodyInv, HopInv, Before, After, Same, Calls
  <2> QED
    BY <1>8, <2>1, <2>4, NextHopIsGood, StepKeepsInv DEF Refresh
<1>9. CASE Becomes(q, Failed)
  BY <1>9, FailureKeepsInv DEF Refresh
<1> QED
  BY <1>0, <1>1, <1>2, <1>3, <1>4, <1>7, <1>8, <1>9 DEF Refresh

\* A redirect takes the call to its next iteration, without the body.
LEMMA RedirectedIsGood ==
    ASSUME NEW q \in Requests, NEW r, Good(q, r), r.pc = "response", NEW m \in Nat,
           NEW status, NEW to \in Urls, NEW kept \in BOOLEAN
    PROVE  LET n == Redirected([r EXCEPT !.size = m], status, to, kept)
           IN  Good(q, n) /\ n.pc \notin Asking
<1>1. r \in Calls /\ r.url \in Urls
  BY DEF Good, CallInv, After
<1>2. PICK s : s = [r EXCEPT !.size = m]
  OBVIOUS
<1>3. s \in Calls /\ Same(s, r) /\ s.pc = "response"
  BY <1>1, <1>2 DEF Calls, Same
<1>4. PICK get \in BOOLEAN : get = (status = 303 \/ (status = 302 /\ s.method = "POST"))
  BY Zenon
<1>5. CASE ~((s.job.kind = "login" /\ status = 307) \/ (s.body /\ ~get))
  <2>1. PICK method \in Methods : method = IF get THEN "GET" ELSE s.method
    BY <1>3 DEF Methods, Calls
  <2>2. PICK body \in BOOLEAN : body = IF get THEN FALSE ELSE s.body
    BY <1>3 DEF Calls
  <2>3. body = FALSE
    BY <1>3, <1>5, <2>2 DEF Calls
  <2>4. PICK cookies \in MaybeOrigin : cookies = IF kept THEN Origin(s.url) ELSE Nothing
    BY <1>1, <1>3 DEF MaybeOrigin, Origins, Same
  <2>5. PICK n : n = [s EXCEPT !.previous = s.url, !.url = to, !.method = method, !.body = body,
                               !.cookies = cookies]
    OBVIOUS
  <2>6. /\ n \in Calls /\ n.previous = s.url /\ n.url = to /\ n.body = body
        /\ n.job = s.job /\ n.left = s.left /\ n.credential = s.credential
        /\ n.refreshed = s.refreshed /\ n.sent = s.sent /\ n.requests = s.requests
        /\ n.bodies = s.bodies /\ n.refreshes = s.refreshes /\ n.secured = s.secured
        /\ n.pc = s.pc
    <3>1. to \in MaybeUrl /\ s.url \in MaybeUrl
      BY <1>1, <1>3 DEF MaybeUrl, Same
    <3> QED
      BY <1>3, <2>5, <3>1 DEF Calls
  <2>7. SentInv(n)
    BY <1>3, <2>6 DEF Good, SentInv, Same
  <2>8. r.secured => r.url # Nothing /\ r.url.secure
    BY <1>1, RequestAssumption DEF Good, HopInv, After
  <2>9. Answered(q, n)
    BY <1>3, <2>3, <2>6, <2>7, <2>8, RequestAssumption
       DEF Answered, Good, CallInv, CountInv, RefreshInv, BodyInv, Before, After, Same, Calls
  <2>10. Redirected(s, status, to, kept) = NextHop(n)
    BY <1>4, <1>5, <2>1, <2>2, <2>4, <2>5 DEF Redirected
  <2> QED
    BY <1>2, <2>9, <2>10, NextHopIsGood
<1>6. CASE (s.job.kind = "login" /\ status = 307) \/ (s.body /\ ~get)
  <2>1. Redirected(s, status, to, kept) = Failed
    BY <1>4, <1>6 DEF Redirected
  <2> QED
    BY <1>2, <2>1, FailedIsGood
<1> QED
  BY <1>5, <1>6

\* What the answers of a server do to a call.
LEMMA AnswerKeepsInv ==
    ASSUME RequestInv, NEW q \in Requests,
           Redirect(q) \/ RejectExpired(q) \/ Accept(q) \/ Chunk(q) \/ Return(q)
    PROVE  RequestInv'
<1>0. PICK no \in BOOLEAN : no = FALSE
  BY Zenon
<1>1. PICK r : r = req[q]
  OBVIOUS
<1>2. Good(q, r) /\ r \in Calls /\ r.pc \in {"response", "body"}
  BY <1>1 DEF RequestInv, Good, Redirect, RejectExpired, Accept, Chunk, Return
<1>3. r.holds = TRUE
  BY <1>2 DEF Good, CallInv, Ended
<1>4. UNCHANGED shared
  BY DEF Redirect, RejectExpired, Accept, Chunk, Return
<1>5. \A k \in Transferred(r) : r.size + k \in Nat
  BY <1>2 DEF Transferred, Calls
<1>6. ASSUME NEW n, Becomes(q, n), n \in Calls, Same(n, r), n.pc \in {"body", "returned"},
             n.holds = (n.pc = "body")
      PROVE  RequestInv'
  <2>1. Good(q, n)
    BY <1>2, <1>6, MovedIsGood DEF Ended
  <2> QED
    BY <1>4, <1>6, <2>1, StepKeepsInv DEF Asking
<1>7. ASSUME NEW m \in Nat
      PROVE  LET n == [Released(r) EXCEPT !.size = m, !.pc = "returned"]
             IN  n \in Calls /\ Same(n, r) /\ n.pc = "returned" /\ n.holds = FALSE
  <2>1. PICK h : h = [r EXCEPT !.holds = no]
    OBVIOUS
  <2>2. h \in Calls /\ Same(h, r) /\ h.holds = FALSE
    BY <1>0, <1>2, <2>1 DEF Calls, Same
  <2>3. PICK n : n = [h EXCEPT !.size = m, !.pc = "returned"]
    OBVIOUS
  <2>4. n \in Calls /\ Same(n, h) /\ n.pc = "returned" /\ n.holds = FALSE
    BY <2>2, <2>3 DEF Calls, Points, Ended, Same
  <2>5. Released(r) = h
    BY <1>0, <2>1 DEF Released
  <2> QED
    BY <2>2, <2>3, <2>4, <2>5 DEF Same
<1>8. CASE Redirect(q)
  <2>1. PICK status \in {302, 303, 307}, to \in Urls, k \in Transferred(r), kept \in BOOLEAN :
            Becomes(q, Redirected([r EXCEPT !.size = @ + k], status, to, kept))
    BY <1>1, <1>8 DEF Redirect
  <2>2. PICK m \in Nat : m = r.size + k
    BY <1>5
  <2>3. PICK n : n = Redirected([r EXCEPT !.size = m], status, to, kept)
    OBVIOUS
  <2>4. r.pc = "response"
    BY <1>1, <1>8 DEF Redirect
  <2>5. Good(q, n) /\ n.pc \notin Asking
    BY <1>2, <2>3, <2>4, RedirectedIsGood
  <2> QED
    BY <1>4, <2>1, <2>2, <2>3, <2>5, StepKeepsInv
<1>9. CASE RejectExpired(q)
  <2>1. PICK n : n = [r EXCEPT !.pc = "refresh_rejected"]
    OBVIOUS
  <2>2. n \in Calls /\ Same(n, r) /\ n.pc = "refresh_rejected" /\ n.holds = TRUE
    BY <1>2, <1>3, <2>1 DEF Calls, Points, Same
  <2>3. CASE ~r.refreshed /\ r.method = "GET"
    <3>1. Good(q, n)
      BY <1>1, <1>2, <1>9, <2>2, <2>3, MovedIsGood DEF RejectExpired, Ended
    <3>2. Becomes(q, n)
      BY <1>1, <1>9, <2>1, <2>3 DEF RejectExpired
    <3> QED
      BY <1>4, <2>2, <3>1, <3>2, StepKeepsInv DEF Asking
  <2>4. CASE ~(~r.refreshed /\ r.method = "GET")
    BY <1>1, <1>4, <1>9, <2>4, FailureKeepsInv DEF RejectExpired
  <2> QED
    BY <2>3, <2>4
<1>10. CASE Accept(q)
  <2>1. PICK k \in Transferred(r) :
            Becomes(q, IF r.job.kind = "http3"
                       THEN [Released(r) EXCEPT !.size = @ + k, !.pc = "returned"]
                       ELSE [r EXCEPT !.pc = "body"])
    BY <1>1, <1>10 DEF Accept
  <2>2. CASE r.job.kind = "http3"
    <3>1. Released(r).size = r.size
      BY <1>2 DEF Released, Calls
    <3>2. PICK m \in Nat : m = r.size + k
      BY <1>5
    <3> QED
      BY <1>6, <1>7, <2>1, <2>2, <3>1, <3>2
  <2>3. CASE r.job.kind # "http3"
    <3>1. PICK n : n = [r EXCEPT !.pc = "body"]
      OBVIOUS
    <3>2. n \in Calls /\ Same(n, r) /\ n.pc = "body" /\ n.holds = TRUE
      BY <1>2, <1>3, <3>1 DEF Calls, Points, Same
    <3> QED
      BY <1>6, <2>1, <2>3, <3>1, <3>2
  <2> QED
    BY <2>2, <2>3
<1>11. CASE Chunk(q)
  <2>1. PICK k \in 1..(MaxBytes + 1) :
            LET next == [r EXCEPT !.size = @ + k] IN
            Becomes(q, IF next.size + next.auxiliary > MaxBytes THEN Failed ELSE next)
    BY <1>1, <1>11 DEF Chunk
  <2>2. PICK m \in Nat : m = r.size + k
    BY <1>2 DEF Calls
  <2>3. PICK n : n = [r EXCEPT !.size = m]
    OBVIOUS
  <2>4. n \in Calls /\ Same(n, r) /\ n.pc = "body" /\ n.holds = TRUE
    BY <1>1, <1>2, <1>3, <1>11, <2>3 DEF Calls, Same, Chunk
  <2>5. Becomes(q, Failed) \/ Becomes(q, n)
    BY <2>1, <2>2, <2>3
  <2> QED
    BY <1>4, <1>6, <2>4, <2>5, FailureKeepsInv
<1>12. CASE Return(q)
  <2>1. PICK h : h = [r EXCEPT !.holds = no]
    OBVIOUS
  <2>2. h \in Calls /\ Same(h, r) /\ h.holds = FALSE
    BY <1>0, <1>2, <2>1 DEF Calls, Same
  <2>3. PICK n : n = [h EXCEPT !.pc = "returned"]
    OBVIOUS
  <2>4. n \in Calls /\ Same(n, h) /\ n.pc = "returned" /\ n.holds = FALSE
    BY <2>2, <2>3 DEF Calls, Points, Ended, Same
  <2>5. Becomes(q, n)
    BY <1>0, <1>1, <1>12, <2>1, <2>3 DEF Return, Released
  <2> QED
    BY <1>6, <2>2, <2>4, <2>5 DEF Same
<1> QED
  BY <1>8, <1>9, <1>10, <1>11, <1>12

----------------------------------------------------------------------------
\* RequestInv is inductive.
THEOREM RequestInvariance == Spec => []RequestInv
<1>1. Init => RequestInv
  <2> SUFFICES ASSUME Init PROVE RequestInv
    OBVIOUS
  <2>1. \A q \in Requests : req[q] = Idle
    BY DEF Init
  <2>2. \A q \in Requests : Good(q, req[q])
    BY <2>1, FailedIsGood
  <2>3. Idle.pc = "idle"
    BY DEF Idle
  <2>4. TableInv
    BY <2>1, <2>3 DEF Init, TableInv, Asking
  <2> QED
    BY <2>2, <2>4 DEF Init, RequestInv
<1>2. RequestInv /\ [Next]_vars => RequestInv'
  <2> SUFFICES ASSUME RequestInv, [Next]_vars PROVE RequestInv'
    OBVIOUS
  <2>1. CASE UNCHANGED vars
    BY <2>1 DEF vars, RequestInv, TableInv
  <2>2. ASSUME NEW q \in Requests, Interrupt(q)
        PROVE  RequestInv'
    BY <2>2, FailureKeepsInv DEF Interrupt
  <2> QED
    BY <2>1, <2>2, CallKeepsInv, AdmitKeepsInv, EvaluateKeepsInv, ResolveKeepsInv, RefreshKeepsInv,
       RobotsAllowKeepsInv, AnswerKeepsInv DEF Next, Progress
<1> QED
  BY <1>1, <1>2, PTL DEF Spec

(* The locals of every call keep their types, and a call holds a slot      *)
(* exactly while it is between the scheduler's grant and the exit stack.   *)
THEOREM TypeCorrect == Spec => []TypeOK
<1>1. RequestInv => TypeOK
  <2> SUFFICES ASSUME RequestInv PROVE TypeOK
    OBVIOUS
  <2>1. validated \in [Hosts -> Addresses \cup {Nothing}]
    BY RequestAssumption DEF RequestInv, TableInv
  <2>2. ASSUME NEW q \in Requests, NEW r, r = req[q]
        PROVE  /\ r.job \in Jobs[q] \cup {Nothing}
               /\ r.left \in 0..(Redirects[q] + 1)
               /\ r.holds = (r.pc \notin Ended \cup {"admit", "admit_again"})
    BY <2>2, RequestAssumption
       DEF RequestInv, Good, CallInv, CountInv, Calls, Points, Before, After, Ended
  <2>3. \A q \in Requests : req[q] \in Calls
    BY DEF RequestInv, Good
  <2> QED
    BY <2>1, <2>2, <2>3
       DEF TypeOK, RequestInv, Calls, Points, MaybeUrl, MaybeOrigin, MaybeAddress, MaybeWire,
           UrlSets, OriginSets, Methods, Sizes
<1> QED
  BY <1>1, RequestInvariance, PTL

(* Whatever redirects, refreshes and robots.txt requests come between, a   *)
(* credential and a login's cookies leave only for their own origin.       *)
THEOREM CredentialScopeCorrect == Spec => []CredentialScope
<1>1. RequestInv => CredentialScope
  BY DEF RequestInv, Good, SentInv, CredentialScope, OnTheWire
<1> QED
  BY <1>1, RequestInvariance, PTL

(* A request body is sent at most once, and only to the approved target.   *)
THEOREM BodyCorrect == Spec => []BodyNeverReplayed
<1>1. RequestInv => BodyNeverReplayed
  BY DEF RequestInv, Good, BodyInv, BodyNeverReplayed, OnTheWire
<1> QED
  BY <1>1, RequestInvariance, PTL

(* Each connection goes to an address that was validated as public, a      *)
(* chain never leaves https, and requests stay within the redirects budget.*)
THEOREM HopsCorrect == Spec => []HopsChecked
<1>1. RequestInv => HopsChecked
  BY DEF RequestInv, Good, SentInv, RefreshInv, CountInv, HopsChecked
<1> QED
  BY <1>1, RequestInvariance, PTL

=============================================================================

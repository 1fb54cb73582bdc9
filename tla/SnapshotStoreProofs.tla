------------------------ MODULE SnapshotStoreProofs ------------------------
(***************************************************************************)
(* Proofs about SnapshotStore for any sets of bodies, calls and requests,  *)
(* any clock and any number of removals, damages and power losses: a       *)
(* snapshot never outlives its body, what is served is the asker's own,    *)
(* and what was stored is seen.                                            *)
(***************************************************************************)
EXTENDS SnapshotStore, TLAPS

Scopes  == { Scope(q.ref) : q \in Requests }
Records == [digest : Digests, scope : Scopes,
            node : {"cache", Nothing}, body : Bodies, at : Nat, expires : Nat,
            successful : BOOLEAN, parses : BOOLEAN]

Calls == [op : {"none", "store", "lookup", "not_modified", "restore"},
          step : {"idle", "records", "verify", "verified", "sync", "served", "miss",
                  "stored", "stale", "failed", "integrity_error", "gone"},
          request : Requests \cup {Nothing}, node : {"cache", Nothing},
          body : Bodies \cup {Nothing}, at : Nat, ttl : Nat,
          record : Records \cup {Nothing}, accepted : BOOLEAN, floor : SUBSET Records]

\* Types, of the content store and of the index.
BodyTypes ==
    /\ held \in [Bodies -> {"none", "good", "bad"}]
    /\ acked \subseteq Bodies /\ meddled \subseteq Bodies
    /\ answer \in [Readers -> {"none", "good", "refused"}]
IndexTypes ==
    /\ clock \in Nat
    /\ records \in [Digests -> SUBSET Records]
    /\ kept \in [Digests -> SUBSET Records]
    /\ call \in [Readers -> Calls]

\* What the content store acknowledged is there.
AckedGood == \A b \in acked \ meddled : held[b] = "good"

\* A record names an acknowledged body and was stored in the past.
RecordsInv == \A d \in Digests : \A r \in records[d] : r.body \in acked /\ r.at <= clock

\* A record is still in its directory, or the directory fails every lookup.
Broken(d)   == \E s \in records[d] : ~s.parses
Holds(d, r) == r \in records[d] \/ Broken(d)

KeptInv == \A d \in Digests : \A r \in kept[d] : r.at <= clock /\ Holds(d, r)

\* The body a call is about was acknowledged, and once verified was read back.
VerifyInv(c) ==
    /\ call[c].step \in {"records", "verify", "verified", "sync", "served", "miss"} =>
         call[c].request \in Requests
    /\ call[c].step \in {"verify", "verified", "sync"} => call[c].body \in acked
    /\ call[c].step \in {"verified", "sync", "served"} => answer[c] = "good"
    /\ call[c].op \in {"lookup", "not_modified", "restore"} => call[c].accepted
    /\ call[c].at <= clock

\* The record a lookup goes on with is its own and no older than any that was
\* kept when it began.
Own(c) ==
    /\ call[c].record \in Records
    /\ call[c].record.digest = DirOf(c)
    /\ call[c].record.scope = Scope(call[c].request.ref)
    /\ call[c].record.successful
    /\ \A r \in call[c].floor : r.successful => call[c].record.at >= r.at
OwnInv(c) ==
    /\ call[c].op \in {"lookup", "not_modified"}
         /\ call[c].step \in {"verify", "verified"} => Own(c)
    /\ call[c].step = "served" => Own(c)

\* A record that is being stored.
StoreInv(c) ==
    /\ call[c].op = "restore" => \A r \in call[c].floor : call[c].at >= r.at
    /\ call[c].step = "sync" =>
         /\ call[c].op \in {"store", "restore"}
         /\ call[c].record \in Records
         /\ call[c].record.digest = DirOf(c)
         /\ call[c].record.scope = Scope(call[c].request.ref)
         /\ call[c].record.successful = call[c].accepted
         /\ call[c].record.at = call[c].at
         /\ Holds(DirOf(c), call[c].record)

\* What was kept when a lookup began.
FloorInv(c) ==
    /\ \A r \in call[c].floor : r.at <= clock
    /\ call[c].step = "records" =>
         /\ call[c].op \in {"lookup", "not_modified"}
         /\ \A r \in call[c].floor : Holds(DirOf(c), r)
    /\ call[c].step = "miss" => \A r \in call[c].floor : ~r.successful

CallInv(c) == VerifyInv(c) /\ OwnInv(c) /\ StoreInv(c) /\ FloorInv(c)

SnapshotInv ==
    /\ BodyTypes /\ IndexTypes
    /\ AckedGood /\ RecordsInv /\ KeptInv
    /\ \A c \in Readers : CallInv(c)

----------------------------------------------------------------------------
(* Records and calls *)

\* A damaged record is a record: only parses changes.
LEMMA DamagedRecord ==
    ASSUME NEW r \in Records
    PROVE  /\ [r EXCEPT !.parses = FALSE] \in Records
           /\ [r EXCEPT !.parses = FALSE].parses = FALSE
           /\ [r EXCEPT !.parses = FALSE].body = r.body
           /\ [r EXCEPT !.parses = FALSE].at = r.at
<1>1. ASSUME NEW no \in BOOLEAN
      PROVE  [r EXCEPT !.parses = no] =
               [digest |-> r.digest, scope |-> r.scope, node |-> r.node, body |-> r.body,
                at |-> r.at, expires |-> r.expires, successful |-> r.successful,
                parses |-> no]
  BY DEF Records
<1>2. /\ r.digest \in Digests /\ r.scope \in Scopes
      /\ r.node \in {"cache", Nothing} /\ r.body \in Bodies /\ r.at \in Nat
      /\ r.expires \in Nat /\ r.successful \in BOOLEAN
  BY DEF Records
<1>3. ASSUME NEW no \in BOOLEAN
      PROVE  /\ [r EXCEPT !.parses = no] \in Records
             /\ [r EXCEPT !.parses = no].parses = no
             /\ [r EXCEPT !.parses = no].body = r.body
             /\ [r EXCEPT !.parses = no].at = r.at
  BY <1>1, <1>2 DEF Records
<1> QED
  BY <1>3

\* A call that has ended, or has not begun, holds nothing.
Ended == {"idle", "stored", "stale", "failed", "integrity_error", "gone"}

\* So it keeps the invariant.
LEMMA EndedCall ==
    ASSUME NEW c \in Readers, NEW s \in Ended, clock' \in Nat,
           call'[c] = [Idle EXCEPT !.step = s]
    PROVE  call'[c] \in Calls /\ CallInv(c)'
<1>1. [Idle EXCEPT !.step = s] =
        [op |-> "none", step |-> s, request |-> Nothing, node |-> Nothing, body |-> Nothing,
         at |-> 0, ttl |-> 0, record |-> Nothing, accepted |-> TRUE, floor |-> {}]
  BY DEF Idle
<1>2. call'[c] \in Calls
  <2>1. 0 \in Nat /\ {} \in SUBSET Records /\ TRUE \in BOOLEAN
    OBVIOUS
  <2>2. s \in {"idle", "records", "verify", "verified", "sync", "served", "miss",
                "stored", "stale", "failed", "integrity_error", "gone"}
    BY DEF Ended
  <2>3. [op |-> "none", step |-> s, request |-> Nothing, node |-> Nothing, body |-> Nothing,
         at |-> 0, ttl |-> 0, record |-> Nothing, accepted |-> TRUE, floor |-> {}] \in Calls
    BY <2>1, <2>2 DEF Calls
  <2> QED
    BY <1>1, <2>3
<1>3. CallInv(c)'
  BY <1>1 DEF Ended, CallInv, VerifyInv, OwnInv, StoreInv, FloorInv
<1> QED
  BY <1>2, <1>3

\* A call that takes no step keeps its invariant, whatever the others do.
LEMMA OtherCall ==
    ASSUME SnapshotInv, NEW c \in Readers, call'[c] = call[c], answer'[c] = answer[c],
           acked \subseteq acked', clock' \in Nat, clock <= clock',
           \A d \in Digests : \A r \in Records : Holds(d, r) => Holds(d, r)'
    PROVE  CallInv(c)'
<1> USE DEF SnapshotInv
<1>1. call[c] \in Calls /\ CallInv(c)
  BY DEF IndexTypes
<1>2. DirOf(c)' = DirOf(c)
  BY DEF DirOf
<1>3. call[c].request \in Requests => DirOf(c) \in Digests
  BY DEF DirOf, Digests
<1>4. VerifyInv(c)'
  BY <1>1 DEF CallInv, VerifyInv, IndexTypes, Calls
<1>5. OwnInv(c)'
  BY <1>1, <1>2 DEF CallInv, OwnInv, Own
<1>6. StoreInv(c)'
  BY <1>1, <1>2, <1>3 DEF CallInv, StoreInv, VerifyInv
<1>7. FloorInv(c)'
  <2>1. \A r \in call[c].floor : r \in Records /\ r.at \in Nat
    BY <1>1 DEF Calls, Records
  <2> QED
    BY <1>1, <1>2, <1>3, <2>1 DEF CallInv, FloorInv, VerifyInv, IndexTypes
<1> QED
  BY <1>4, <1>5, <1>6, <1>7 DEF CallInv

\* Step(c, s) changes the step of one call and nothing else.
LEMMA StepCall ==
    ASSUME IndexTypes, NEW c \in Readers,
           NEW s \in {"verified", "served", "miss", "sync"}, Step(c, s)
    PROVE  /\ call' \in [Readers -> Calls]
           /\ \A k \in Readers \ {c} : call'[k] = call[k]
           /\ call'[c].step = s
           /\ call'[c].op = call[c].op /\ call'[c].request = call[c].request
           /\ call'[c].body = call[c].body /\ call'[c].at = call[c].at
           /\ call'[c].record = call[c].record /\ call'[c].accepted = call[c].accepted
           /\ call'[c].floor = call[c].floor
<1>1. [call[c] EXCEPT !.step = s] =
        [op |-> call[c].op, step |-> s, request |-> call[c].request, node |-> call[c].node,
         body |-> call[c].body, at |-> call[c].at, ttl |-> call[c].ttl,
         record |-> call[c].record, accepted |-> call[c].accepted, floor |-> call[c].floor]
  BY DEF IndexTypes, Calls
<1>2. [call[c] EXCEPT !.step = s] \in Calls
  BY <1>1 DEF IndexTypes, Calls
<1>3. call' = [call EXCEPT ![c] = [call[c] EXCEPT !.step = s]]
  BY DEF Step
<1> QED
  BY <1>1, <1>2, <1>3 DEF IndexTypes

\* A step of one call that leaves the index and the content store alone.
LEMMA CallOnly ==
    ASSUME SnapshotInv, NEW c \in Readers,
           UNCHANGED <<held, acked, meddled, clock, records, kept>>,
           answer' \in [Readers -> {"none", "good", "refused"}],
           \A k \in Readers \ {c} : call'[k] = call[k] /\ answer'[k] = answer[k],
           call' \in [Readers -> Calls], CallInv(c)'
    PROVE  SnapshotInv'
<1>1. \A d \in Digests : \A r \in Records : Holds(d, r) => Holds(d, r)'
  BY DEF Holds, Broken
<1>2. \A k \in Readers \ {c} : CallInv(k)'
  BY <1>1, OtherCall DEF SnapshotInv, IndexTypes
<1> QED
  BY <1>2 DEF SnapshotInv, BodyTypes, IndexTypes, AckedGood, RecordsInv, KeptInv, Holds, Broken

\* A call that ends.
LEMMA EndOnly ==
    ASSUME SnapshotInv, NEW c \in Readers, NEW s \in Ended, End(c, s),
           UNCHANGED <<held, acked, meddled, clock, records, kept>>,
           answer' \in [Readers -> {"none", "good", "refused"}],
           \A k \in Readers \ {c} : answer'[k] = answer[k]
    PROVE  SnapshotInv'
<1>1. call'[c] = [Idle EXCEPT !.step = s] /\ \A k \in Readers \ {c} : call'[k] = call[k]
  BY DEF End, SnapshotInv, IndexTypes
<1>2. call'[c] \in Calls /\ CallInv(c)'
  BY <1>1, EndedCall DEF SnapshotInv, IndexTypes
<1>3. call' \in [Readers -> Calls]
  BY <1>1, <1>2 DEF End, SnapshotInv, IndexTypes
<1> QED
  BY <1>1, <1>2, <1>3, CallOnly

----------------------------------------------------------------------------
(* The steps of a call *)

\* A call begins.
LEMMA AskInv ==
    ASSUME SnapshotInv, NEW c \in Readers, NEW q \in Requests,
           \/ \E b \in Bodies, t \in Ttls, ok \in BOOLEAN : AskStore(c, q, b, t, ok)
           \/ AskLookup(c, q)
           \/ \E t \in Ttls : AskNotModified(c, q, t)
    PROVE  SnapshotInv'
<1> USE DEF SnapshotInv
<1>0. Digest(q) \in Digests
  BY DEF Digests
<1>1. ASSUME NEW new \in Calls, call' = [call EXCEPT ![c] = new],
             UNCHANGED <<bodyVars, clock, index, kept>>,
             /\ new.request = q
             /\ new.at = clock
             /\ \/ new.op = "store" /\ new.step = "verify" /\ new.body \in acked
                  /\ new.floor = {}
                \/ new.op \in {"lookup", "not_modified"} /\ new.step = "records"
                  /\ new.floor = kept[Digest(q)] /\ new.accepted
      PROVE  SnapshotInv'
  <2>1. call'[c] = new /\ (\A k \in Readers \ {c} : call'[k] = call[k])
          /\ call' \in [Readers -> Calls]
    BY <1>1 DEF IndexTypes
  <2>2. UNCHANGED <<held, acked, meddled, answer, clock, records, kept>>
    BY <1>1 DEF bodyVars, index
  <2>3. VerifyInv(c)'
    BY <1>1, <2>1, <2>2 DEF VerifyInv, IndexTypes
  <2>4. OwnInv(c)'
    BY <1>1, <2>1, <2>2 DEF OwnInv
  <2>5. StoreInv(c)'
    BY <1>1, <2>1, <2>2 DEF StoreInv
  <2>6. FloorInv(c)'
    BY <1>0, <1>1, <2>1, <2>2 DEF FloorInv, KeptInv, DirOf, Holds, Broken
  <2> QED
    BY <2>1, <2>2, <2>3, <2>4, <2>5, <2>6, CallOnly DEF CallInv, BodyTypes
<1>2. Idle \in Calls
  BY DEF Idle, Calls
<1>3. ASSUME NEW b \in Bodies, NEW t \in Ttls, NEW ok \in BOOLEAN, AskStore(c, q, b, t, ok)
      PROVE  SnapshotInv'
  <2>1. PICK new : new = [Idle EXCEPT !.op = "store", !.step = "verify", !.request = q,
                                      !.node = "cache", !.body = b, !.at = clock,
                                      !.ttl = t, !.accepted = ok]
    OBVIOUS
  <2>2. new \in Calls
    BY <1>2, <2>1, SnapshotAssumption DEF Calls, IndexTypes
  <2>3. /\ new.op = "store" /\ new.step = "verify" /\ new.request = q
        /\ new.body = b /\ new.at = clock /\ new.floor = {}
    BY <2>1 DEF Idle
  <2>4. b \in acked /\ call' = [call EXCEPT ![c] = new]
    BY <1>3, <2>1 DEF AskStore, Sources, Begin
  <2> QED
    BY <1>1, <1>3, <2>2, <2>3, <2>4 DEF AskStore
<1>4. CASE AskLookup(c, q)
  <2>1. PICK new : new = [Idle EXCEPT !.op = "lookup", !.step = "records", !.request = q,
                                      !.at = clock, !.floor = kept[Digest(q)]]
    OBVIOUS
  <2>2. new \in Calls
    BY <1>0, <1>2, <2>1 DEF Calls, IndexTypes
  <2>3. /\ new.op = "lookup" /\ new.step = "records" /\ new.request = q
        /\ new.at = clock /\ new.floor = kept[Digest(q)] /\ new.accepted
    BY <2>1 DEF Idle
  <2>4. call' = [call EXCEPT ![c] = new]
    BY <1>4, <2>1 DEF AskLookup, Begin
  <2> QED
    BY <1>1, <1>4, <2>2, <2>3, <2>4 DEF AskLookup
<1>5. ASSUME NEW t \in Ttls, AskNotModified(c, q, t)
      PROVE  SnapshotInv'
  <2>1. PICK new : new = [Idle EXCEPT !.op = "not_modified", !.step = "records",
                                      !.request = q, !.at = clock, !.ttl = t,
                                      !.floor = kept[Digest(q)]]
    OBVIOUS
  <2>2. new \in Calls
    BY <1>0, <1>2, <2>1, SnapshotAssumption DEF Calls, IndexTypes
  <2>3. /\ new.op = "not_modified" /\ new.step = "records" /\ new.request = q
        /\ new.at = clock /\ new.floor = kept[Digest(q)] /\ new.accepted
    BY <2>1 DEF Idle
  <2>4. call' = [call EXCEPT ![c] = new]
    BY <1>5, <2>1 DEF AskNotModified, Begin
  <2> QED
    BY <1>1, <1>5, <2>2, <2>3, <2>4 DEF AskNotModified
<1> QED
  BY <1>3, <1>4, <1>5

\* A lookup goes on with the latest successful record of its directory, and
\* only if every file there is a record of its partition.
LEMMA ReadRecordsInv ==
    ASSUME SnapshotInv, NEW c \in Readers, ReadRecords(c)
    PROVE  SnapshotInv'
<1> USE DEF SnapshotInv
<1> DEFINE found  == records[DirOf(c)]
           usable == { r \in found : r.successful }
<1>0. /\ call[c] \in Calls /\ CallInv(c)
      /\ call[c].step = "records" /\ call[c].request \in Requests
      /\ DirOf(c) \in Digests
      /\ UNCHANGED <<held, acked, meddled, answer, clock, records, kept>>
      /\ answer \in [Readers -> {"none", "good", "refused"}]
  BY DEF ReadRecords, IndexTypes, BodyTypes, CallInv, VerifyInv, DirOf, Digests, bodyVars, index
<1>1. CASE End(c, "integrity_error")
  BY <1>0, <1>1, EndOnly DEF Ended
<1>2. ASSUME \A r \in found : InPartition(r, call[c].request)
      PROVE  \A r \in call[c].floor : r \in Records /\ r \in found
  BY <1>0, <1>2 DEF CallInv, FloorInv, Holds, Broken, InPartition, Calls
<1>3. CASE /\ \A r \in found : InPartition(r, call[c].request)
           /\ usable = {} /\ Step(c, "miss")
  <2>1. /\ call' \in [Readers -> Calls]
        /\ \A k \in Readers \ {c} : call'[k] = call[k]
        /\ call'[c].step = "miss"
        /\ call'[c].op = call[c].op /\ call'[c].request = call[c].request
        /\ call'[c].at = call[c].at /\ call'[c].accepted = call[c].accepted
        /\ call'[c].floor = call[c].floor
    BY <1>3, StepCall
  <2>2. \A r \in call[c].floor : ~r.successful
    BY <1>2, <1>3
  <2>3. CallInv(c)'
    BY <1>0, <2>1, <2>2 DEF CallInv, VerifyInv, OwnInv, StoreInv, FloorInv
  <2> QED
    BY <1>0, <2>1, <2>3, CallOnly
<1>4. ASSUME NEW r \in Latest(usable), \A s \in found : InPartition(s, call[c].request),
             call' = [call EXCEPT ![c].step = "verify", ![c].record = r, ![c].body = r.body]
      PROVE  SnapshotInv'
  <2>1. r \in found /\ r \in Records /\ r.successful
    BY <1>0, <1>4 DEF Latest, IndexTypes
  <2>2. r.body \in Bodies /\ r.body \in acked
    BY <1>0, <2>1 DEF Records, RecordsInv
  <2>3. PICK new : new = [[[call[c] EXCEPT !.step = "verify"] EXCEPT !.record = r]
                             EXCEPT !.body = r.body]
    OBVIOUS
  <2>4. new \in Calls
    BY <1>0, <2>1, <2>2, <2>3 DEF Calls
  <2>5. /\ new.step = "verify" /\ new.record = r /\ new.body = r.body
        /\ new.op = call[c].op /\ new.request = call[c].request /\ new.at = call[c].at
        /\ new.accepted = call[c].accepted /\ new.floor = call[c].floor
    BY <1>0, <2>3 DEF Calls
  <2>6. call' = [call EXCEPT ![c] = new]
    BY <1>4, <2>3
  <2>7. /\ call'[c] = new /\ call' \in [Readers -> Calls]
        /\ \A k \in Readers \ {c} : call'[k] = call[k]
    BY <2>4, <2>6 DEF IndexTypes
  <2>8. \A s \in call[c].floor : s.successful => r.at >= s.at
    BY <1>2, <1>4 DEF Latest, NotBefore
  <2>9. InPartition(r, call[c].request)
    BY <1>4, <2>1
  <2>10. CallInv(c)'
    BY <1>0, <2>1, <2>2, <2>5, <2>7, <2>8, <2>9
       DEF CallInv, VerifyInv, OwnInv, Own, StoreInv, FloorInv, DirOf, InPartition
  <2> QED
    BY <1>0, <2>7, <2>10, CallOnly
<1> QED
  BY <1>1, <1>3, <1>4 DEF ReadRecords

\* The body of a call is read back, and the call goes on only if it is good.
LEMMA VerifyBodyInv ==
    ASSUME SnapshotInv, NEW c \in Readers, VerifyBody(c)
    PROVE  SnapshotInv'
<1> USE DEF SnapshotInv
<1>0. /\ call[c] \in Calls /\ CallInv(c) /\ call[c].step = "verify"
      /\ UNCHANGED <<held, acked, meddled, clock, records, kept>>
      /\ answer' \in [Readers -> {"none", "good", "refused"}]
      /\ \A k \in Readers \ {c} : answer'[k] = answer[k]
  BY DEF VerifyBody, Get, IndexTypes, BodyTypes, index
<1>1. CASE End(c, "integrity_error")
  BY <1>0, <1>1, EndOnly DEF Ended
<1>2. CASE answer'[c] = "good" /\ Step(c, "verified")
  <2>1. /\ call' \in [Readers -> Calls]
        /\ \A k \in Readers \ {c} : call'[k] = call[k]
        /\ call'[c].step = "verified"
        /\ call'[c].op = call[c].op /\ call'[c].request = call[c].request
        /\ call'[c].body = call[c].body /\ call'[c].at = call[c].at
        /\ call'[c].record = call[c].record /\ call'[c].accepted = call[c].accepted
        /\ call'[c].floor = call[c].floor
    BY <1>2, StepCall
  <2>2. CallInv(c)'
    BY <1>0, <1>2, <2>1 DEF CallInv, VerifyInv, OwnInv, Own, StoreInv, FloorInv, DirOf
  <2> QED
    BY <1>0, <2>1, <2>2, CallOnly
<1> QED
  BY <1>1, <1>2 DEF VerifyBody

\* A verified record is served, or its age is held against it.
LEMMA FinishLookupInv ==
    ASSUME SnapshotInv, NEW c \in Readers, NEW node, NEW stale, FinishLookup(c, node, stale)
    PROVE  SnapshotInv'
<1> USE DEF SnapshotInv
<1>0. /\ call[c] \in Calls /\ CallInv(c)
      /\ call[c].op = "lookup" /\ call[c].step = "verified"
      /\ UNCHANGED <<held, acked, meddled, answer, clock, records, kept>>
      /\ answer \in [Readers -> {"none", "good", "refused"}]
  BY DEF FinishLookup, Found, IndexTypes, BodyTypes, index, bodyVars
<1>1. CASE End(c, "stale")
  BY <1>0, <1>1, EndOnly DEF Ended
<1>2. CASE Step(c, "served")
  <2>1. /\ call' \in [Readers -> Calls]
        /\ \A k \in Readers \ {c} : call'[k] = call[k]
        /\ call'[c].step = "served"
        /\ call'[c].op = call[c].op /\ call'[c].request = call[c].request
        /\ call'[c].body = call[c].body /\ call'[c].at = call[c].at
        /\ call'[c].record = call[c].record /\ call'[c].accepted = call[c].accepted
        /\ call'[c].floor = call[c].floor
    BY <1>2, StepCall
  <2>2. CallInv(c)'
    BY <1>0, <2>1 DEF CallInv, VerifyInv, OwnInv, Own, StoreInv, FloorInv, DirOf
  <2> QED
    BY <1>0, <2>1, <2>2, CallOnly
<1> QED
  BY <1>1, <1>2 DEF FinishLookup

\* A revalidated body is stored again, as of now.
LEMMA RevalidatedInv ==
    ASSUME SnapshotInv, NEW c \in Readers, Revalidated(c)
    PROVE  SnapshotInv'
<1> USE DEF SnapshotInv
<1>0. /\ call[c] \in Calls /\ CallInv(c) /\ clock \in Nat
      /\ call[c].op = "not_modified" /\ call[c].step = "verified"
      /\ UNCHANGED <<held, acked, meddled, clock, records, kept>>
      /\ answer' \in [Readers -> {"none", "good", "refused"}]
      /\ \A k \in Readers \ {c} : answer'[k] = answer[k]
  BY DEF Revalidated, Found, IndexTypes, BodyTypes, index
<1>1. call[c].record \in Records /\ call[c].record.node \in {"cache", Nothing}
  BY <1>0 DEF CallInv, OwnInv, Own, Records
<1>2. PICK new : new = [[[[call[c] EXCEPT !.op = "restore"] EXCEPT !.step = "verify"]
                           EXCEPT !.at = clock] EXCEPT !.node = call[c].record.node]
  OBVIOUS
<1>3. new \in Calls
  BY <1>0, <1>1, <1>2 DEF Calls
<1>4. /\ new.op = "restore" /\ new.step = "verify" /\ new.at = clock
      /\ new.request = call[c].request /\ new.body = call[c].body
      /\ new.accepted = call[c].accepted /\ new.floor = call[c].floor
  BY <1>0, <1>2 DEF Calls
<1>5. call' = [call EXCEPT ![c] = new]
  BY <1>2 DEF Revalidated
<1>6. /\ call'[c] = new /\ call' \in [Readers -> Calls]
      /\ \A k \in Readers \ {c} : call'[k] = call[k]
  BY <1>3, <1>5 DEF IndexTypes
<1>7. CallInv(c)'
  BY <1>0, <1>4, <1>6 DEF CallInv, VerifyInv, OwnInv, StoreInv, FloorInv
<1> QED
  BY <1>0, <1>6, <1>7, CallOnly

\* A store fails: the record is not published, or stays.
LEMMA StoreFailsInv ==
    ASSUME SnapshotInv, NEW c \in Readers, StoreFails(c)
    PROVE  SnapshotInv'
<1>1. /\ UNCHANGED <<held, acked, meddled, answer, clock, records, kept>>
      /\ answer \in [Readers -> {"none", "good", "refused"}]
      /\ End(c, "failed")
  BY DEF StoreFails, SnapshotInv, BodyTypes, bodyVars, index
<1> QED
  BY <1>1, EndOnly DEF Ended

----------------------------------------------------------------------------
(* Storing *)

\* What a call of store() writes is a record of its own partition.
LEMMA NewRecord ==
    ASSUME SnapshotInv, NEW c \in Readers, Found(c, "store") \/ Found(c, "restore")
    PROVE  /\ DirOf(c) \in Digests /\ call[c] \in Calls /\ CallInv(c)
           /\ Record(c) \in Records
           /\ Record(c).body \in acked /\ Record(c).at = call[c].at
           /\ Record(c).digest = DirOf(c)
           /\ Record(c).scope = Scope(call[c].request.ref)
           /\ Record(c).successful = call[c].accepted
<1>1. /\ call[c] \in Calls /\ CallInv(c) /\ call[c].request \in Requests
      /\ call[c].body \in acked /\ call[c].body \in Bodies
  BY DEF SnapshotInv, IndexTypes, BodyTypes, Found, CallInv, VerifyInv
<1>2. DirOf(c) \in Digests /\ Scope(call[c].request.ref) \in Scopes
  BY <1>1 DEF DirOf, Digests, Scopes
<1>3. /\ call[c].node \in {"cache", Nothing} /\ call[c].at \in Nat
      /\ call[c].at + call[c].ttl \in Nat /\ call[c].accepted \in BOOLEAN
  BY <1>1 DEF Calls
<1>4. Record(c) \in Records
  BY <1>1, <1>2, <1>3 DEF Record, Records
<1> QED
  BY <1>1, <1>2, <1>4 DEF Record

\* A call whose store() returns: it ends, or serves what it stored.
LEMMA ReturnCall ==
    ASSUME SnapshotInv, NEW c \in Readers, NEW new \in Records, Return(c, new),
           NEW e \in Digests, e = DirOf(c), Holds(e, new)', new.at <= clock,
           UNCHANGED <<acked, meddled, clock>>, answer'[c] = "good",
           call[c].request \in Requests,
           new.digest = DirOf(c), new.scope = Scope(call[c].request.ref),
           new.at = call[c].at, new.successful = call[c].accepted,
           KeptInv => \A d \in Digests : \A r \in kept[d] : Holds(d, r)'
    PROVE  /\ kept' \in [Digests -> SUBSET Records] /\ KeptInv'
           /\ call' \in [Readers -> Calls] /\ CallInv(c)'
           /\ \A k \in Readers \ {c} : call'[k] = call[k]
<1> USE DEF SnapshotInv
<1>0. /\ kept' = [kept EXCEPT ![DirOf(c)] = @ \cup {new}]
      /\ call[c] \in Calls /\ CallInv(c)
  BY DEF Return, IndexTypes
<1>1. kept' \in [Digests -> SUBSET Records]
  BY <1>0 DEF IndexTypes
<1>2. KeptInv'
  <2>1. ASSUME NEW d \in Digests, NEW r \in kept'[d]
        PROVE  r.at <= clock /\ Holds(d, r)'
    <3>1. r \in kept[d] \/ (r = new /\ d = e)
      BY <1>0, <2>1 DEF IndexTypes
    <3> QED
      BY <3>1 DEF KeptInv
  <2> QED
    BY <2>1 DEF KeptInv
<1>3. CASE End(c, "stored")
  <2>1. call'[c] = [Idle EXCEPT !.step = "stored"] /\ \A k \in Readers \ {c} : call'[k] = call[k]
    BY <1>3 DEF End, IndexTypes
  <2>2. call'[c] \in Calls /\ CallInv(c)'
    BY <2>1, EndedCall DEF IndexTypes, Ended
  <2>3. call' \in [Readers -> Calls]
    BY <1>3, <2>1, <2>2 DEF End, IndexTypes
  <2> QED
    BY <1>1, <1>2, <2>1, <2>2, <2>3
<1>4. CASE /\ call[c].op = "restore"
           /\ call' = [call EXCEPT ![c].record = new, ![c].step = "served"]
  <2>1. PICK k : k = [[call[c] EXCEPT !.record = new] EXCEPT !.step = "served"]
    OBVIOUS
  <2>2. k \in Calls
    BY <1>0, <2>1 DEF Calls
  <2>3. /\ k.op = "restore" /\ k.step = "served" /\ k.at = call[c].at /\ k.record = new
        /\ k.request = call[c].request /\ k.body = call[c].body
        /\ k.accepted = call[c].accepted /\ k.floor = call[c].floor
    BY <1>0, <1>4, <2>1 DEF Calls
  <2>4. call' = [call EXCEPT ![c] = k]
    BY <1>4, <2>1
  <2>5. /\ call'[c] = k /\ call' \in [Readers -> Calls]
        /\ \A j \in Readers \ {c} : call'[j] = call[j]
    BY <2>2, <2>4 DEF IndexTypes
  <2>6. CallInv(c)'
    BY <1>0, <1>4, <2>3, <2>5
       DEF CallInv, VerifyInv, OwnInv, Own, StoreInv, FloorInv, DirOf
  <2> QED
    BY <1>1, <1>2, <2>5, <2>6
<1> QED
  BY <1>3, <1>4 DEF Return

\* A step of one call that adds to the index.
LEMMA IndexStep ==
    ASSUME SnapshotInv, NEW c \in Readers,
           UNCHANGED <<held, acked, meddled, answer, clock>>,
           records' \in [Digests -> SUBSET Records], RecordsInv',
           kept' \in [Digests -> SUBSET Records], KeptInv',
           \A d \in Digests : \A r \in Records : Holds(d, r) => Holds(d, r)',
           call' \in [Readers -> Calls], CallInv(c)',
           \A k \in Readers \ {c} : call'[k] = call[k]
    PROVE  SnapshotInv'
<1>1. \A k \in Readers \ {c} : CallInv(k)'
  BY OtherCall DEF SnapshotInv, IndexTypes
<1> QED
  BY <1>1 DEF SnapshotInv, BodyTypes, IndexTypes, AckedGood

\* A record is linked where none of its name is, or its name is taken.
LEMMA LinkRecordInv ==
    ASSUME SnapshotInv, NEW c \in Readers, LinkRecord(c)
    PROVE  SnapshotInv'
<1> USE DEF SnapshotInv
<1>0. /\ Found(c, "store") \/ Found(c, "restore")
      /\ UNCHANGED <<held, acked, meddled, answer, clock>>
      /\ answer[c] = "good" /\ answer \in [Readers -> {"none", "good", "refused"}]
      /\ call[c].request \in Requests /\ clock \in Nat
  BY DEF LinkRecord, bodyVars, Found, CallInv, VerifyInv, BodyTypes, IndexTypes
<1>1. PICK new \in Records, d \in Digests : new = Record(c) /\ d = DirOf(c)
  BY <1>0, NewRecord
<1>2. /\ call[c] \in Calls /\ CallInv(c)
      /\ new.body \in acked /\ new.at = call[c].at /\ new.digest = d
      /\ new.scope = Scope(call[c].request.ref) /\ new.successful = call[c].accepted
  BY <1>0, <1>1, NewRecord
<1>3. new.at <= clock /\ new.at \in Nat
  BY <1>2 DEF CallInv, VerifyInv, Calls
<1>4. CASE /\ records' = [records EXCEPT ![d] = @ \cup {new}]
           /\ call' = [call EXCEPT ![c].record = new, ![c].step = "sync"]
           /\ UNCHANGED kept
  <2>1. PICK k : k = [[call[c] EXCEPT !.record = new] EXCEPT !.step = "sync"]
    OBVIOUS
  <2>2. k \in Calls
    BY <1>2, <2>1 DEF Calls
  <2>3. /\ k.op = call[c].op /\ k.step = "sync" /\ k.at = call[c].at /\ k.record = new
        /\ k.request = call[c].request /\ k.body = call[c].body
        /\ k.accepted = call[c].accepted /\ k.floor = call[c].floor
    BY <1>2, <2>1 DEF Calls
  <2>4. call' = [call EXCEPT ![c] = k]
    BY <1>4, <2>1
  <2>5. /\ call'[c] = k /\ call' \in [Readers -> Calls]
        /\ \A j \in Readers \ {c} : call'[j] = call[j]
    BY <2>2, <2>4 DEF IndexTypes
  <2>6. /\ records' \in [Digests -> SUBSET Records]
        /\ \A e \in Digests : records[e] \subseteq records'[e]
        /\ \A e \in Digests : \A r \in records'[e] : r \in records[e] \/ r = new
        /\ new \in records'[d]
    BY <1>4 DEF IndexTypes
  <2>7. RecordsInv'
    BY <1>0, <1>2, <1>3, <2>6 DEF RecordsInv
  <2>8. \A e \in Digests : \A r : Holds(e, r) => Holds(e, r)'
    BY <2>6 DEF Holds, Broken
  <2>9. KeptInv' /\ kept' \in [Digests -> SUBSET Records]
    BY <1>0, <1>4, <2>8 DEF KeptInv, IndexTypes
  <2>10. Holds(d, new)'
    BY <2>6 DEF Holds
  <2>11. DirOf(c)' = d
    BY <1>1, <2>3, <2>5 DEF DirOf
  <2>12. StoreInv(c)'
    BY <1>0, <1>2, <2>3, <2>5, <2>10, <2>11 DEF CallInv, StoreInv, Found
  <2>13. VerifyInv(c)' /\ OwnInv(c)' /\ FloorInv(c)'
    BY <1>0, <1>2, <2>3, <2>5 DEF CallInv, VerifyInv, OwnInv, FloorInv, Found
  <2> QED
    BY <1>0, <2>5, <2>6, <2>7, <2>8, <2>9, <2>12, <2>13, IndexStep DEF CallInv
<1>5. CASE new \in records[d] /\ Return(c, new) /\ UNCHANGED records
  <2>1. \A e \in Digests : \A r : Holds(e, r) => Holds(e, r)'
    BY <1>5 DEF Holds, Broken
  <2>2. Holds(d, new)'
    BY <1>5 DEF Holds
  <2>3. KeptInv => \A e \in Digests : \A r \in kept[e] : Holds(e, r)'
    BY <2>1 DEF KeptInv
  <2>4. /\ kept' \in [Digests -> SUBSET Records] /\ KeptInv'
        /\ call' \in [Readers -> Calls] /\ CallInv(c)'
        /\ \A k \in Readers \ {c} : call'[k] = call[k]
    BY <1>0, <1>1, <1>2, <1>3, <1>5, <2>2, <2>3, ReturnCall
  <2>5. RecordsInv' /\ records' \in [Digests -> SUBSET Records]
    BY <1>0, <1>5 DEF RecordsInv, IndexTypes
  <2> QED
    BY <1>0, <2>1, <2>4, <2>5, IndexStep
<1>6. CASE End(c, "integrity_error") /\ UNCHANGED <<records, kept>>
  BY <1>0, <1>6, EndOnly DEF Ended
<1> QED
  BY <1>1, <1>4, <1>5, <1>6 DEF LinkRecord, SameBytes

\* The directory is synced and store() returns.
LEMMA SyncInv ==
    ASSUME SnapshotInv, NEW c \in Readers, SyncKeyDirectory(c)
    PROVE  SnapshotInv'
<1> USE DEF SnapshotInv
<1>0. /\ call[c].step = "sync" /\ CallInv(c)
      /\ UNCHANGED <<held, acked, meddled, answer, clock, records>>
      /\ answer[c] = "good"
      /\ call[c].request \in Requests
      /\ Return(c, call[c].record)
  BY DEF SyncKeyDirectory, bodyVars, CallInv, VerifyInv
<1>1. PICK new \in Records, d \in Digests : new = call[c].record /\ d = DirOf(c)
  BY <1>0 DEF CallInv, StoreInv, DirOf, Digests
<1>2. /\ new.at = call[c].at /\ new.digest = d /\ Holds(d, new) /\ new.at <= clock
      /\ new.scope = Scope(call[c].request.ref) /\ new.successful = call[c].accepted
  BY <1>0, <1>1 DEF CallInv, StoreInv, VerifyInv
<1>3. \A e \in Digests : \A r : Holds(e, r) => Holds(e, r)'
  BY <1>0 DEF Holds, Broken
<1>4. KeptInv => \A e \in Digests : \A r \in kept[e] : Holds(e, r)'
  BY <1>3 DEF KeptInv
<1>5. Return(c, new)
  BY <1>0, <1>1 DEF Return
<1>6. /\ kept' \in [Digests -> SUBSET Records] /\ KeptInv'
      /\ call' \in [Readers -> Calls] /\ CallInv(c)'
      /\ \A k \in Readers \ {c} : call'[k] = call[k]
  BY <1>0, <1>1, <1>2, <1>3, <1>4, <1>5, ReturnCall
<1>7. RecordsInv' /\ records' \in [Digests -> SUBSET Records]
  BY <1>0 DEF RecordsInv, IndexTypes
<1> QED
  BY <1>0, <1>3, <1>6, <1>7, IndexStep

----------------------------------------------------------------------------
(* Around the store *)

\* A step that takes no call further and loses no record.
LEMMA Around ==
    ASSUME SnapshotInv, UNCHANGED <<call, kept>>,
           acked \subseteq acked', clock' \in Nat, clock <= clock', answer' = answer,
           BodyTypes', AckedGood',
           records' \in [Digests -> SUBSET Records], RecordsInv',
           \A d \in Digests : \A r \in Records : Holds(d, r) => Holds(d, r)'
    PROVE  SnapshotInv'
<1>1. \A c \in Readers : CallInv(c)'
  BY OtherCall
<1>2. IndexTypes'
  BY DEF SnapshotInv, IndexTypes
<1>3. ASSUME NEW d \in Digests, NEW r \in kept[d]
      PROVE  r.at <= clock' /\ Holds(d, r)'
  <2>1. r \in Records /\ r.at \in Nat /\ r.at <= clock /\ Holds(d, r)
    BY DEF SnapshotInv, IndexTypes, KeptInv, Records
  <2> QED
    BY <2>1 DEF SnapshotInv, IndexTypes
<1> QED
  BY <1>1, <1>2, <1>3 DEF SnapshotInv, KeptInv

\* The clock, the bodies that runs put, and what happens to them outside.
LEMMA TickInv ==
    ASSUME SnapshotInv, Tick \/ \E b \in Bodies : BodyStep(b)
    PROVE  SnapshotInv'
<1> USE DEF SnapshotInv
<1>1. CASE Tick
  <2>1. /\ clock' = clock + 1
        /\ UNCHANGED <<held, acked, meddled, answer, records, call, kept>>
    BY <1>1 DEF Tick, bodyVars, index
  <2>2. BodyTypes' /\ AckedGood'
    BY <2>1 DEF BodyTypes, AckedGood
  <2>3. RecordsInv'
    <3>1. \A d \in Digests : \A r \in records[d] : r.at \in Nat
      BY DEF IndexTypes, Records
    <3> QED
      BY <2>1, <3>1 DEF RecordsInv, IndexTypes
  <2>4. \A d \in Digests : \A r \in Records : Holds(d, r) => Holds(d, r)'
    BY <2>1 DEF Holds, Broken
  <2> QED
    BY <2>1, <2>2, <2>3, <2>4, Around DEF IndexTypes
<1>2. ASSUME NEW b \in Bodies, BodyStep(b)
      PROVE  SnapshotInv'
  <2>1. /\ UNCHANGED <<answer, clock, records, call, kept>>
        /\ acked \subseteq acked'
    BY <1>2 DEF BodyStep, Appear, Promise, Outside, snapshotVars, index
  <2>2. BodyTypes'
    BY <1>2 DEF BodyStep, Appear, Promise, Outside, BodyTypes
  <2>3. AckedGood'
    BY <1>2 DEF BodyStep, Appear, Promise, Outside, BodyTypes, AckedGood
  <2>4. RecordsInv'
    BY <2>1 DEF RecordsInv
  <2>5. \A d \in Digests : \A r \in Records : Holds(d, r) => Holds(d, r)'
    BY <2>1 DEF Holds, Broken
  <2> QED
    BY <2>1, <2>2, <2>3, <2>4, <2>5, Around DEF IndexTypes
<1> QED
  BY <1>1, <1>2

\* A damaged record breaks its directory; a copied one adds to another.
LEMMA MeddleRecordInv ==
    ASSUME SnapshotInv, MeddleRecord
    PROVE  SnapshotInv'
<1> USE DEF SnapshotInv
<1>0. UNCHANGED <<held, acked, meddled, answer, clock, call, kept>>
  BY DEF MeddleRecord
<1>a. PICK d \in Digests : \E r \in records[d] :
        \/ records' = [records EXCEPT ![d] = (@ \ {r}) \cup {[r EXCEPT !.parses = FALSE]}]
        \/ \E e \in Digests \ {d} : records' = [records EXCEPT ![e] = @ \cup {r}]
  BY DEF MeddleRecord
<1>1. PICK r \in records[d] :
        \/ records' = [records EXCEPT ![d] = (@ \ {r}) \cup {[r EXCEPT !.parses = FALSE]}]
        \/ \E e \in Digests \ {d} : records' = [records EXCEPT ![e] = @ \cup {r}]
  BY <1>a
<1>2. BodyTypes' /\ AckedGood'
  BY <1>0 DEF BodyTypes, AckedGood
<1>3. r \in Records /\ r.body \in acked /\ r.at <= clock
  BY DEF IndexTypes, RecordsInv
<1>4. ASSUME records' \in [Digests -> SUBSET Records], RecordsInv',
             \A e \in Digests : \A q \in Records : Holds(e, q) => Holds(e, q)'
      PROVE  SnapshotInv'
  BY <1>0, <1>2, <1>4, Around DEF IndexTypes
<1>5. CASE records' = [records EXCEPT ![d] = (@ \ {r}) \cup {[r EXCEPT !.parses = FALSE]}]
  <2>1. PICK s : s = [r EXCEPT !.parses = FALSE]
    OBVIOUS
  <2>2. s \in Records /\ ~s.parses /\ s.body = r.body /\ s.at = r.at
    BY <1>3, <2>1, DamagedRecord
  <2>3. /\ records' \in [Digests -> SUBSET Records]
        /\ records'[d] = (records[d] \ {r}) \cup {s}
        /\ \A e \in Digests \ {d} : records'[e] = records[e]
    BY <1>5, <2>1, <2>2 DEF IndexTypes
  <2>4. RecordsInv'
    BY <1>0, <1>3, <2>2, <2>3 DEF RecordsInv
  <2>5. \A e \in Digests : \A q \in Records : Holds(e, q) => Holds(e, q)'
    BY <2>2, <2>3 DEF Holds, Broken
  <2> QED
    BY <1>4, <2>3, <2>4, <2>5
<1>6. ASSUME NEW e \in Digests, records' = [records EXCEPT ![e] = @ \cup {r}]
      PROVE  SnapshotInv'
  <2>1. /\ records' \in [Digests -> SUBSET Records]
        /\ records'[e] = records[e] \cup {r}
        /\ \A f \in Digests \ {e} : records'[f] = records[f]
    BY <1>3, <1>6 DEF IndexTypes
  <2>2. RecordsInv'
    BY <1>0, <1>3, <2>1 DEF RecordsInv
  <2>3. \A f \in Digests : \A q \in Records : Holds(f, q) => Holds(f, q)'
    BY <2>1 DEF Holds, Broken
  <2> QED
    BY <1>4, <2>1, <2>2, <2>3
<1> QED
  BY <1>1, <1>5, <1>6

\* A power loss takes records and bodies that were not acknowledged, and ends
\* every call.
LEMMA PowerLossInv ==
    ASSUME SnapshotInv, PowerLoss
    PROVE  SnapshotInv'
<1> USE DEF SnapshotInv
<1>0. UNCHANGED <<acked, meddled, answer, clock>>
  BY DEF PowerLoss, LosePower
<1>1. \A d \in Digests : records'[d] \subseteq records[d]
  BY DEF PowerLoss, SurvivingRecords
<1>2. records' \in [Digests -> SUBSET Records] /\ RecordsInv'
  BY <1>0, <1>1 DEF PowerLoss, IndexTypes, RecordsInv
<1>3. kept' \in [Digests -> SUBSET Records] /\ KeptInv'
  BY <1>0, <1>1 DEF PowerLoss, IndexTypes, KeptInv, Holds
<1>4. PICK lost \in SUBSET Fragile, torn \in SUBSET Fragile :
         held' = [b \in Bodies |-> CASE b \in lost -> "none"
                                     [] b \in torn /\ held[b] # "none" -> "bad"
                                     [] OTHER -> held[b]]
  BY DEF PowerLoss, LosePower
<1>5. BodyTypes'
  BY <1>0, <1>4 DEF BodyTypes
<1>6. AckedGood'
  BY <1>0, <1>4 DEF BodyTypes, AckedGood, Fragile
<1>7. ASSUME NEW c \in Readers
      PROVE  call'[c] \in Calls /\ CallInv(c)'
  <2>1. PICK s \in Ended : call'[c] = [Idle EXCEPT !.step = s]
    <3>1. [Idle EXCEPT !.step = "idle"] = Idle
      <4>1. Idle.step = "idle"
        BY DEF Idle
      <4>2. Idle = [x \in DOMAIN Idle |-> Idle[x]]
        BY Zenon DEF Idle
      <4> QED
        BY <4>1, <4>2, Zenon
    <3> QED
      BY <3>1 DEF PowerLoss, Ended
  <2> QED
    BY <1>0, <2>1, EndedCall DEF IndexTypes
<1>8. call' \in [Readers -> Calls]
  BY <1>7 DEF PowerLoss
<1> QED
  BY <1>0, <1>2, <1>3, <1>5, <1>6, <1>7, <1>8 DEF IndexTypes

\* SnapshotInv is inductive.
THEOREM SnapshotInvariance == Spec => []SnapshotInv
<1>1. Init => SnapshotInv
  <2> SUFFICES ASSUME Init PROVE SnapshotInv
    OBVIOUS
  <2>1. BodyTypes /\ AckedGood
    BY DEF Init, BodyInit, BodyTypes, AckedGood
  <2>2. RecordsInv /\ KeptInv
    BY DEF Init, RecordsInv, KeptInv
  <2>3. Idle \in Calls
    BY DEF Idle, Calls
  <2>4. IndexTypes
    BY <2>3 DEF Init, IndexTypes
  <2>5. ASSUME NEW c \in Readers PROVE CallInv(c)
    BY DEF Init, Idle, CallInv, VerifyInv, OwnInv, StoreInv, FloorInv
  <2> QED
    BY <2>1, <2>2, <2>4, <2>5 DEF SnapshotInv
<1>2. SnapshotInv /\ [Next]_vars => SnapshotInv'
  <2> SUFFICES ASSUME SnapshotInv, [Next]_vars PROVE SnapshotInv'
    OBVIOUS
  <2>1. CASE UNCHANGED vars
    <3>1. UNCHANGED <<held, acked, meddled, answer, clock, records, call, kept>>
      BY <2>1 DEF vars, bodyVars, snapshotVars, index
    <3>2. BodyTypes' /\ AckedGood' /\ RecordsInv'
      BY <3>1 DEF SnapshotInv, BodyTypes, AckedGood, RecordsInv
    <3>3. \A d \in Digests : \A r \in Records : Holds(d, r) => Holds(d, r)'
      BY <3>1 DEF Holds, Broken
    <3> QED
      BY <3>1, <3>2, <3>3, Around DEF SnapshotInv, IndexTypes
  <2>2. ASSUME NEW c \in Readers, NEW q \in Requests,
               \/ \E b \in Bodies, t \in Ttls, ok \in BOOLEAN : AskStore(c, q, b, t, ok)
               \/ AskLookup(c, q)
               \/ \E t \in Ttls : AskNotModified(c, q, t)
        PROVE  SnapshotInv'
    BY <2>2, AskInv
  <2>3. ASSUME NEW c \in Readers,
               \/ \E node \in {"cache", "previous_successful_snapshot"}, stale \in StaleSeconds :
                    FinishLookup(c, node, stale)
               \/ ReadRecords(c) \/ VerifyBody(c)
               \/ Revalidated(c) \/ LinkRecord(c) \/ SyncKeyDirectory(c) \/ StoreFails(c)
        PROVE  SnapshotInv'
    BY <2>3, FinishLookupInv, ReadRecordsInv, VerifyBodyInv, RevalidatedInv, LinkRecordInv,
       SyncInv, StoreFailsInv
  <2>4. CASE Tick \/ MeddleRecord \/ PowerLoss \/ \E b \in Bodies : BodyStep(b)
    BY <2>4, TickInv, MeddleRecordInv, PowerLossInv
  <2> QED
    BY <2>1, <2>2, <2>3, <2>4 DEF Next
<1> QED
  BY <1>1, <1>2, PTL DEF Spec

(* A snapshot never outlives its body: every record in the index names a   *)
(* body the content store holds intact, through any number of power        *)
(* losses, unless someone outside took the body away.                      *)
THEOREM RecordHasBodyCorrect == Spec => []RecordHasBody
<1>1. SnapshotInv => RecordHasBody
  BY DEF SnapshotInv, AckedGood, RecordsInv, RecordHasBody
<1> QED
  BY <1>1, SnapshotInvariance, PTL

(* What is served is the asker's own: of its key and authentication scope, *)
(* successful, and read back intact, wherever record files were moved.     *)
THEOREM ServedIsOwnCorrect == Spec => []ServedIsOwn
<1>1. SnapshotInv => ServedIsOwn
  BY DEF SnapshotInv, CallInv, VerifyInv, OwnInv, Own, ServedIsOwn
<1> QED
  BY <1>1, SnapshotInvariance, PTL

(* What was stored is seen: a lookup that began after store() returned     *)
(* neither misses it nor serves an older one, as long as it is there.      *)
THEOREM StoredIsSeenCorrect == Spec => []StoredIsSeen
<1>1. SnapshotInv => StoredIsSeen
  BY DEF SnapshotInv, CallInv, OwnInv, Own, FloorInv, NotBefore, StoredIsSeen
<1> QED
  BY <1>1, SnapshotInvariance, PTL

=============================================================================

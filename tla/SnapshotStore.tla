--------------------------- MODULE SnapshotStore ---------------------------
(***************************************************************************)
(* The snapshot index (SnapshotStore) and the storage operations of        *)
(* CacheAdapter, src/fetech/adapters/cache.py, composed with the content   *)
(* store whose bodies the snapshots name, as BodyStore specifies it.       *)
(*                                                                         *)
(* A snapshot is an immutable file in the directory of its cache key.      *)
(* Calls of store(), lookup() and record_not_modified() interleave with    *)
(* each other and with the runs that put bodies; each call checks a body   *)
(* with a get() of its own, so the calls are the content store's readers.  *)
(* A caller that is cancelled leaves its thread running: that is a call    *)
(* whose answer nobody waits for.                                          *)
(***************************************************************************)
EXTENDS BodyStore

CONSTANTS
    Requests,      \* [part, ref]: what is asked for, the authentication reference
    Nothing,       \* no reference, no record
    Ttls,          \* lifetimes a request may ask for
    StaleSeconds,  \* the stale_while_revalidate_seconds a node may ask for
    MaxRecords,    \* _MAX_RECORDS_PER_KEY
    MaxTime        \* bound on the clock

ASSUME SnapshotAssumption ==
    /\ Ttls \subseteq Nat /\ StaleSeconds \subseteq Nat
    /\ MaxRecords \in Nat /\ MaxTime \in Nat

----------------------------------------------------------------------------
(* Cache keys *)

\* authentication_cache_scope: a digest of the reference, never the reference
Scope(ref) == IF ref = Nothing THEN <<"public">> ELSE <<"auth", ref>>

\* CacheKey.for_request and its digest, which names the directory
Digest(request) == <<request.part, Scope(request.ref)>>
Digests == { Digest(q) : q \in Requests }

VARIABLES
    clock,
    records,   \* the record files in a key's directory
    listed,    \* those whose entry is on disk (the directory was fsynced)
    keyDir,    \* a key's directory: "absent", "created", or "durable"
    call,      \* a call of the store: what it was asked and how far it is
    kept       \* ghost: records whose store() returned, per directory

index == <<records, listed, keyDir>>
snapshotVars == <<clock, index, call, kept>>
vars == <<bodyVars, snapshotVars>>

Idle == [op |-> "none", step |-> "idle", request |-> Nothing, node |-> Nothing,
         body |-> Nothing, at |-> 0, ttl |-> 0, record |-> Nothing,
         accepted |-> TRUE, floor |-> {}]   \* floor, a ghost: kept when it began

Init ==
    /\ BodyInit
    /\ clock = 0
    /\ records = [d \in Digests |-> {}]
    /\ listed = [d \in Digests |-> {}]
    /\ keyDir = [d \in Digests |-> "absent"]
    /\ call = [c \in Readers |-> Idle]
    /\ kept = [d \in Digests |-> {}]

DirOf(c) == Digest(call[c].request)
Step(c, s) == call' = [call EXCEPT ![c].step = s]

\* what execute() makes of a result or an exception
End(c, s)  == call' = [call EXCEPT ![c] = [Idle EXCEPT !.step = s]]

----------------------------------------------------------------------------
(* Records *)

\* the file name is a hash of key, body, time and source capability
Id(record) == <<record.digest, record.body, record.at, record.node>>

Record(c) ==
    [digest |-> DirOf(c), scope |-> Scope(call[c].request.ref), node |-> call[c].node,
     body |-> call[c].body, at |-> call[c].at, expires |-> call[c].at + call[c].ttl,
     successful |-> call[c].accepted, parses |-> TRUE]

FreshAt(record, now) == record.expires > now

\* mutant of InPartition: whatever lies in the directory is the key's
InDirectory(record, request) == record.parses

\* what _records demands of every file it finds
InPartition(record, request) ==
    /\ record.parses
    /\ record.digest = Digest(request)
    /\ record.scope = Scope(request.ref)

\* max by (stored_at, snapshot_id); hashes order equal times arbitrarily
NotBefore(a, b) == a.at >= b.at

\* mutant of Latest: the first one that is found
AnyFound(set) == set

Latest(set) == { r \in set : \A s \in set : NotBefore(r, s) }

\* _read_existing_immutable found the bytes that were to be written
SameBytes(taken, new) == taken = {new}

----------------------------------------------------------------------------
(* Asking *)

Begin(c, what) == call[c].step = "idle" /\ call' = [call EXCEPT ![c] = what]

\* mutant of Sources: an artifact counts as soon as its file can be read
Readable == { b \in Bodies : held[b] = "good" }

\* _validated_source: an artifact of this run, whose put() has returned
Sources == acked

\* the store operation of a node, or a connector's capture, which may be
\* stored as unsuccessful; the adapter takes the time and checks the body
AskStore(c, q, body, ttl, accepted) ==
    /\ body \in Sources
    /\ Begin(c, [Idle EXCEPT !.op = "store", !.step = "verify", !.request = q,
                             !.node = "cache", !.body = body, !.at = clock,
                             !.ttl = ttl, !.accepted = accepted])
    /\ UNCHANGED <<bodyVars, clock, index, kept>>

AskLookup(c, q) ==
    /\ Begin(c, [Idle EXCEPT !.op = "lookup", !.step = "records", !.request = q,
                             !.at = clock, !.floor = kept[Digest(q)]])
    /\ UNCHANGED <<bodyVars, clock, index, kept>>

\* not_modified, after a 304: starts with the same lookup, and ignores its age
AskNotModified(c, q, ttl) ==
    /\ Begin(c, [Idle EXCEPT !.op = "not_modified", !.step = "records", !.request = q,
                             !.at = clock, !.ttl = ttl, !.floor = kept[Digest(q)]])
    /\ UNCHANGED <<bodyVars, clock, index, kept>>

----------------------------------------------------------------------------
(* lookup *)

\* _records and latest_successful: one bad file, or too many, fails the key
ReadRecords(c) ==
    LET found == records[DirOf(c)]
        usable == { r \in found : r.successful }
    IN
    /\ call[c].step = "records"
    /\ IF \/ Cardinality(found) > MaxRecords
          \/ \E r \in found : ~InPartition(r, call[c].request)
       THEN End(c, "integrity_error")
       ELSE IF usable = {}
       THEN Step(c, "miss")
       ELSE \E r \in Latest(usable) :
              call' = [call EXCEPT ![c].step = "verify", ![c].record = r, ![c].body = r.body]
    /\ UNCHANGED <<bodyVars, clock, index, kept>>

\* _verify_artifact: a get() of the content store
VerifyBody(c) ==
    /\ call[c].step = "verify"
    /\ Get(c, call[c].body)
    /\ IF answer'[c] = "good" THEN Step(c, "verified") ELSE End(c, "integrity_error")
    /\ UNCHANGED <<clock, index, kept>>

Disposition(record, now, stale) ==
    CASE FreshAt(record, now)                          -> "fresh"
      [] ~FreshAt(record, now) /\ stale > 0
         /\ now <= record.expires + stale              -> "stale_while_revalidate"
      [] OTHER                                         -> "revalidate"

Found(c, op) == call[c].op = op /\ call[c].step = "verified"

\* the record is merged into the context, or its age is held against it;
\* previous_successful_snapshot is served however stale
FinishLookup(c, node, stale) ==
    /\ Found(c, "lookup")
    /\ IF /\ Disposition(call[c].record, call[c].at, stale) = "revalidate"
          /\ node # "previous_successful_snapshot"
       THEN End(c, "stale") ELSE Step(c, "served")
    /\ UNCHANGED <<bodyVars, clock, index, kept>>

\* record_not_modified: the body found is stored again, as of now
Revalidated(c) ==
    /\ Found(c, "not_modified")
    /\ call' = [call EXCEPT ![c].op = "restore", ![c].step = "verify", ![c].at = clock,
                            ![c].node = call[c].record.node]
    /\ answer' = [answer EXCEPT ![c] = "none"]
    /\ UNCHANGED <<held, acked, meddled, meddling, crashes, clock, index, kept>>

----------------------------------------------------------------------------
(* store *)

\* store() returns; a revalidation then serves what it stored
Return(c, record) ==
    /\ kept' = [kept EXCEPT ![DirOf(c)] = @ \cup {record}]
    /\ IF call[c].op = "restore"
       THEN call' = [call EXCEPT ![c].record = record, ![c].step = "served"]
       ELSE End(c, "stored")

\* _record_path makes the directory, _write_immutable links the record, or
\* finds one of that name, which must have the same bytes
LinkRecord(c) ==
    LET d == DirOf(c)
        new == Record(c)
        taken == { r \in records[d] : Id(r) = Id(new) }
    IN
    /\ Found(c, "store") \/ Found(c, "restore")
    /\ keyDir' = [keyDir EXCEPT ![d] = IF @ = "absent" THEN "created" ELSE @]
    /\ \/ /\ taken = {}
          /\ records' = [records EXCEPT ![d] = @ \cup {new}]
          /\ call' = [call EXCEPT ![c].record = new, ![c].step = "sync"]
          /\ UNCHANGED kept
       \/ taken # {} /\ SameBytes(taken, new) /\ Return(c, new) /\ UNCHANGED records
       \/ /\ taken # {} /\ ~SameBytes(taken, new)
          /\ End(c, "integrity_error")
          /\ UNCHANGED <<records, kept>>
    /\ UNCHANGED <<bodyVars, clock, listed>>

\* the key's directory is fsynced by the call that linked the record; the
\* directories above it are not
SyncKeyDirectory(c) ==
    /\ call[c].step = "sync"
    /\ listed' = [listed EXCEPT ![DirOf(c)] = records[DirOf(c)]]
    /\ Return(c, call[c].record)
    /\ UNCHANGED <<bodyVars, clock, records, keyDir>>

\* mkstemp, write, fsync or link fail and nothing is published; or the fsync
\* of the directory fails, and the record stays
StoreFails(c) ==
    /\ Found(c, "store") \/ Found(c, "restore") \/ call[c].step = "sync"
    /\ End(c, "failed")
    /\ UNCHANGED <<bodyVars, clock, index, kept>>

----------------------------------------------------------------------------
(* Around the store *)

Tick ==
    /\ clock < MaxTime /\ clock' = clock + 1
    /\ UNCHANGED <<bodyVars, index, call, kept>>

\* a record file damaged from outside, or copied into another directory
MeddleRecord ==
    /\ meddling < MaxMeddling /\ meddling' = meddling + 1
    /\ \E d \in Digests : \E r \in records[d] :
         \/ records' = [records EXCEPT ![d] = (@ \ {r}) \cup {[r EXCEPT !.parses = FALSE]}]
         \/ \E e \in Digests \ {d} :
              keyDir[e] # "absent" /\ records' = [records EXCEPT ![e] = @ \cup {r}]
    /\ UNCHANGED <<held, acked, meddled, answer, crashes, clock, listed, keyDir, call, kept>>

\* what may be left in a key's directory after a power loss
SurvivingRecords(d) ==
    (IF keyDir[d] = "durable" THEN {} ELSE {{}}) \cup
    { (listed[d] \cap records[d]) \cup s : s \in SUBSET (records[d] \ listed[d]) }

PowerLoss ==
    /\ LosePower
    /\ records' \in [Digests -> UNION { SurvivingRecords(d) : d \in Digests }]
    /\ \A d \in Digests : records'[d] \in SurvivingRecords(d)
    /\ listed' = records'
    /\ keyDir' = [d \in Digests |-> IF records'[d] = {} THEN keyDir[d] ELSE "durable"]
    /\ call' = [c \in Readers |-> IF call[c].step = "idle" THEN Idle
                                  ELSE [Idle EXCEPT !.step = "gone"]]
    /\ kept' = [d \in Digests |-> kept[d] \cap records'[d]]
    /\ UNCHANGED clock

\* runs put bodies, and something outside takes them away
BodyStep(b) == (Appear(b) \/ Promise(b) \/ Outside(b)) /\ UNCHANGED snapshotVars

Next ==
    \/ \E c \in Readers :
         \/ \E q \in Requests :
              \/ \E b \in Bodies, t \in Ttls, ok \in BOOLEAN : AskStore(c, q, b, t, ok)
              \/ AskLookup(c, q)
              \/ \E t \in Ttls : AskNotModified(c, q, t)
         \/ \E node \in {"cache", "previous_successful_snapshot"}, stale \in StaleSeconds :
              FinishLookup(c, node, stale)
         \/ ReadRecords(c) \/ VerifyBody(c)
         \/ Revalidated(c) \/ LinkRecord(c) \/ SyncKeyDirectory(c) \/ StoreFails(c)
    \/ Tick \/ MeddleRecord \/ PowerLoss
    \/ \E b \in Bodies : BodyStep(b)

Spec == Init /\ [][Next]_vars

----------------------------------------------------------------------------
(* Properties *)

(* A snapshot never outlives its body.  Every record in the index, also    *)
(* after a power loss at any moment, names a body that the content store   *)
(* holds intact, unless someone outside took the body away.                *)
RecordHasBody ==
    \A d \in Digests : \A r \in records[d] :
        r.body \in meddled \/ held[r.body] = "good"

(* What a lookup or a revalidation serves belongs to the asker's partition *)
(* (same key, same authentication scope), was stored as successful, and    *)
(* its body was read back intact, even when files were moved between       *)
(* directories.                                                            *)
ServedIsOwn ==
    \A c \in Readers : call[c].step = "served" =>
        /\ call[c].record.digest = DirOf(c)
        /\ call[c].record.scope = Scope(call[c].request.ref)
        /\ call[c].record.successful
        /\ answer[c] = "good"

(* A snapshot that was stored is seen: a lookup that began after store()   *)
(* returned neither reports a miss nor serves an older snapshot, as long   *)
(* as the stored record is there.                                          *)
StoredIsSeen ==
    \A c \in Readers :
        LET still == { r \in call[c].floor \cap records[DirOf(c)] : r.successful } IN
        /\ call[c].step = "miss" => still = {}
        /\ call[c].step = "served" => \A r \in still : NotBefore(call[c].record, r)

=============================================================================

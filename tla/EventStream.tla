----------------------------- MODULE EventStream -----------------------------
(***************************************************************************)
(* The provenance events of one run and the clients that follow them:      *)
(* EventLedger.append, update_run and stream (src/fetech/ledger.py), the   *)
(* generator behind GET /v1/runs/{id}/events and FetchHandle.events().     *)
(*                                                                         *)
(* A run emits plan.started, then its plan nodes emit, up to several at a  *)
(* time in a parallel batch, then it emits run.finished and stores its     *)
(* final state.  append and update_run commit first and hand the event to  *)
(* the subscribers' queues when their coroutine resumes, so a stream may   *)
(* read the table or the run's state between the two, and a cancellation   *)
(* may arrive between the two: the row is then in the table and in no      *)
(* queue.  When the execution raises, the gateway emits run.failed and     *)
(* stores the final state (again); that may be interrupted as well.        *)
(*                                                                         *)
(* planning.completed, which submit() appends before the client learns the *)
(* run's id, is in the table before any stream opens and is left out.      *)
(***************************************************************************)
EXTENDS Naturals, Sequences, SequencesExt, FiniteSets

CONSTANTS
    Branches,         \* concurrently executing plan nodes
    EventsOf,         \* the most events each of them emits
    Streams           \* clients, each opening one stream

Main == "main"
Root == [by |-> Main, n |-> 1]         \* plan.started
Final == [by |-> Main, n |-> 2]        \* run.finished
Failed == [by |-> "gateway", n |-> 1]  \* run.failed, which has no parents
End == [by |-> "none", n |-> 0]        \* the None that ends a queue

First(b) == [by |-> b, n |-> 1]        \* attempt.started of a node
BranchEvents == UNION { { [by |-> b, n |-> k] : k \in 1..EventsOf[b] } : b \in Branches }
Events == {Root, Final, Failed} \cup BranchEvents

ASSUME StreamAssumption ==
    /\ EventsOf \in [Branches -> Nat]
    /\ Branches \cap {Main, "gateway", "none"} = {}

VARIABLES
    rows,       \* provenance_events of the run, in sequence order
    status,     \* of each event: "none", "adrift" (left to a task of its own),
                \* "committed", "published" or "silent" (never to be published)
    ended,      \* nodes that have returned or raised
    job,        \* the run's task: "executing", "failing" (_record_terminal_failure),
                \* "over" or "lost" (the failure could not be recorded)
    run,        \* the stored state of the run: "RUNNING" or "FINISHED"
    finishing,  \* update_run(FINISHED) has committed and not resumed yet
    subscribed, \* streams whose queue is registered
    queue,      \* a stream's asyncio.Queue
    place,      \* where a stream's generator is
    replay,     \* rows a stream read and has yet to yield
    seen,       \* event ids it has yielded
    out,        \* what the client received
    \* ghosts
    read,       \* how many rows a stream found in the table
    settled     \* events published before FINISHED was stored

ledger == <<rows, status, ended, job, run, finishing, settled>>
client == <<subscribed, queue, place, replay, seen, out, read>>
streamVars == <<rows, status, ended, job, run, finishing, settled,
                subscribed, queue, place, replay, seen, out, read>>

StreamInit ==
    /\ rows = <<>>
    /\ status = [e \in Events |-> "none"]
    /\ ended = {}
    /\ job = "executing"
    /\ run = "RUNNING"
    /\ finishing = FALSE
    /\ settled = {}
    /\ subscribed = {}
    /\ queue = [s \in Streams |-> <<>>]
    /\ place = [s \in Streams |-> "closed"]
    /\ replay = [s \in Streams |-> <<>>]
    /\ seen = [s \in Streams |-> {}]
    /\ out = [s \in Streams |-> <<>>]
    /\ read = [s \in Streams |-> 0]

----------------------------------------------------------------------------
(* The run *)

StatusTo(e, st) == status' = [status EXCEPT ![e] = st]

(* plan.started comes first.  A node emits attempt.started and, when that  *)
(* has returned, its other events; those of a cancelled node may overlap,  *)
(* one of them being written by a shielded task.  run.finished comes when  *)
(* the nodes are done.                                                     *)
MayEmit(e) ==
    \/ e = Root /\ job = "executing"
    \/ /\ e \in BranchEvents
       /\ job = "executing" /\ status[Root] = "published" /\ e.by \notin ended
       /\ e # First(e.by) => status[First(e.by)] = "published"
    \/ /\ e = Final
       /\ job = "executing" /\ status[Root] = "published" /\ ended = Branches
       /\ \A f \in Events : status[f] # "committed"
    \/ e = Failed /\ job = "failing"

\* append: the row is committed
AppendCommit(e) ==
    /\ (status[e] = "none" /\ MayEmit(e)) \/ status[e] = "adrift"
    /\ rows' = Append(rows, e)
    /\ StatusTo(e, "committed")
    /\ UNCHANGED <<ended, job, run, finishing, settled, client>>

Publish(item) ==
    queue' = [s \in Streams |->
                IF s \in subscribed THEN Append(queue[s], item) ELSE queue[s]]

\* append: its coroutine resumes and fills the queues registered by now
AppendPublish(e) ==
    /\ status[e] = "committed"
    /\ Publish(e)
    /\ StatusTo(e, "published")
    /\ UNCHANGED <<rows, ended, job, run, finishing, settled,
                   subscribed, place, replay, seen, out, read>>

\* append is cancelled, or fails, after the commit: its caller goes on without it
AppendAborted(e) ==
    /\ status[e] = "committed"
    /\ StatusTo(e, "silent")
    /\ UNCHANGED <<rows, ended, job, run, finishing, settled, client>>

\* _execute_node returns or raises: nothing of it is being written
BranchEnds(b) ==
    /\ job = "executing" /\ status[Root] = "published"
    /\ b \notin ended
    /\ \A e \in BranchEvents : e.by = b => status[e] # "committed"
    /\ ended' = ended \cup {b}
    /\ UNCHANGED <<rows, status, job, run, finishing, settled, client>>

\* attempt.cancelled, which a cancelled node emits under asyncio.shield
Shielded ==
    { e \in BranchEvents :
        /\ e.by \notin ended /\ e # First(e.by)
        /\ status[First(e.by)] = "published" /\ status[e] \in {"none", "committed"} }

(* The execution raises, or is cancelled, up to the moment update_run      *)
(* resumes.  The nodes are cancelled and awaited, and what they were       *)
(* writing is aborted; a second cancellation leaves the shielded emits to  *)
(* their own tasks.                                                        *)
RunRaises ==
    /\ job = "executing"
    /\ \E left \in SUBSET Shielded :
          /\ \A e, f \in left : e.by = f.by => e = f
          /\ \A e \in Events : status[e] = "committed" => e \in left
          /\ status' = [e \in Events |-> IF e \in left /\ status[e] = "none"
                                         THEN "adrift" ELSE status[e]]
    /\ job' = "failing"
    /\ ended' = Branches
    /\ finishing' = FALSE
    /\ UNCHANGED <<rows, run, settled, client>>

\* _record_terminal_failure is cancelled or fails in its turn
FailureLost ==
    /\ job = "failing"
    /\ status[Failed] # "committed"
    /\ job' = "lost"
    /\ finishing' = FALSE
    /\ UNCHANGED <<rows, status, ended, run, settled, client>>

\* update_run(FINISHED): the row is committed
FinishCommit ==
    /\ ~finishing
    /\ \/ job = "executing" /\ status[Final] = "published"
       \/ job = "failing" /\ status[Failed] = "published"
    /\ run' = "FINISHED"
    /\ finishing' = TRUE
    /\ settled' = IF run = "FINISHED" THEN settled
                  ELSE { e \in Events : status[e] = "published" }
    /\ UNCHANGED <<rows, status, ended, job, client>>

\* update_run(FINISHED): None goes to the queues
FinishPublish ==
    /\ finishing
    /\ finishing' = FALSE
    /\ job' = "over"
    /\ Publish(End)
    /\ UNCHANGED <<rows, status, ended, run, settled,
                   subscribed, place, replay, seen, out, read>>

----------------------------------------------------------------------------
(* stream() *)

StreamTo(s, p) == place' = [place EXCEPT ![s] = p]

\* mutant of Open: the queue is not registered before the table is read
OpenUnregistered(s) ==
    /\ place[s] = "closed"
    /\ StreamTo(s, "reading")
    /\ UNCHANGED <<ledger, subscribed, queue, replay, seen, out, read>>

\* the queue is registered before the table is read
Open(s) ==
    /\ place[s] = "closed"
    /\ subscribed' = subscribed \cup {s}
    /\ StreamTo(s, "reading")
    /\ UNCHANGED <<ledger, queue, replay, seen, out, read>>

\* mutant of ReadRows: ORDER BY sequence DESC
ReadRowsDescending(s) ==
    /\ place[s] = "reading"
    /\ replay' = [replay EXCEPT ![s] = Reverse(rows)]
    /\ read' = [read EXCEPT ![s] = Len(rows)]
    /\ StreamTo(s, "replaying")
    /\ UNCHANGED <<ledger, subscribed, queue, seen, out>>

ReadRows(s) ==
    /\ place[s] = "reading"
    /\ replay' = [replay EXCEPT ![s] = rows]
    /\ read' = [read EXCEPT ![s] = Len(rows)]
    /\ StreamTo(s, "replaying")
    /\ UNCHANGED <<ledger, subscribed, queue, seen, out>>

Yield(s, e) ==
    /\ seen' = [seen EXCEPT ![s] = @ \cup {e}]
    /\ out' = [out EXCEPT ![s] = Append(@, e)]

ReplayRow(s) ==
    /\ place[s] = "replaying"
    /\ replay[s] # <<>>
    /\ Yield(s, Head(replay[s]))
    /\ replay' = [replay EXCEPT ![s] = Tail(@)]
    /\ UNCHANGED <<ledger, subscribed, queue, place, read>>

\* mutant of Snapshot: the stream always waits on its queue
SnapshotAlwaysFollows(s) ==
    /\ place[s] = "replaying"
    /\ replay[s] = <<>>
    /\ StreamTo(s, "following")
    /\ UNCHANGED <<ledger, subscribed, queue, replay, seen, out, read>>

\* run_snapshot decides between draining the queue and following it
Snapshot(s) ==
    /\ place[s] = "replaying"
    /\ replay[s] = <<>>
    /\ StreamTo(s, IF run = "RUNNING" THEN "following" ELSE "draining")
    /\ UNCHANGED <<ledger, subscribed, queue, replay, seen, out, read>>

\* an event from the queue is yielded unless the replay already yielded it
TakeEvent(s) ==
    /\ place[s] \in {"draining", "following"}
    /\ queue[s] # <<>>
    /\ Head(queue[s]) # End
    /\ queue' = [queue EXCEPT ![s] = Tail(@)]
    /\ IF Head(queue[s]) \in seen[s]
       THEN UNCHANGED <<seen, out>>
       ELSE Yield(s, Head(queue[s]))
    /\ UNCHANGED <<ledger, subscribed, place, replay, read>>

\* None, or an empty queue when draining, ends the stream; the finally unsubscribes
StreamReturns(s) ==
    /\ \/ place[s] \in {"draining", "following"} /\ queue[s] # <<>> /\ Head(queue[s]) = End
       \/ place[s] = "draining" /\ queue[s] = <<>>
    /\ StreamTo(s, "returned")
    /\ subscribed' = subscribed \ {s}
    /\ UNCHANGED <<ledger, queue, replay, seen, out, read>>

\* the client goes away while the generator is suspended: the same finally
Disconnect(s) ==
    /\ place[s] \in {"reading", "replaying", "draining", "following"}
    /\ StreamTo(s, "disconnected")
    /\ subscribed' = subscribed \ {s}
    /\ UNCHANGED <<ledger, queue, replay, seen, out, read>>

----------------------------------------------------------------------------
RunStep ==
    \/ \E e \in Events : AppendCommit(e) \/ AppendPublish(e) \/ AppendAborted(e)
    \/ \E b \in Branches : BranchEnds(b)
    \/ RunRaises
    \/ FailureLost
    \/ FinishCommit
    \/ FinishPublish

StreamStep(s) ==
    \/ ReadRows(s)
    \/ ReplayRow(s)
    \/ Snapshot(s)
    \/ TakeEvent(s)
    \/ StreamReturns(s)

StreamNext ==
    \/ RunStep
    \/ \E s \in Streams : Open(s) \/ StreamStep(s) \/ Disconnect(s)

StreamSpec == StreamInit /\ [][StreamNext]_streamVars

(* The event loop resumes the run's tasks and a stream that has something  *)
(* to do.  Nothing need be cancelled or fail, and clients need not open or *)
(* leave streams.                                                          *)
StreamFairness ==
    /\ WF_streamVars(RunStep)
    /\ \A s \in Streams : WF_streamVars(StreamStep(s))

FairStreamSpec == StreamSpec /\ StreamFairness

----------------------------------------------------------------------------
(* Properties *)

StreamTypeOK ==
    /\ rows \in Seq(Events)
    /\ status \in [Events -> {"none", "adrift", "committed", "published", "silent"}]
    /\ ended \subseteq Branches
    /\ job \in {"executing", "failing", "over", "lost"}
    /\ run \in {"RUNNING", "FINISHED"}
    /\ finishing \in BOOLEAN
    /\ settled \subseteq Events
    /\ subscribed \subseteq Streams
    /\ queue \in [Streams -> Seq(Events \cup {End})]
    /\ place \in [Streams -> {"closed", "reading", "replaying", "following",
                              "draining", "returned", "disconnected"}]
    /\ replay \in [Streams -> Seq(Events)]
    /\ seen \in [Streams -> SUBSET Events]
    /\ out \in [Streams -> Seq(Events)]
    /\ read \in [Streams -> Nat]

(* A stream that ends by itself has delivered rows of the table only, every *)
(* row that was there when it read the table, and every event published    *)
(* before the run was stored as finished.  When the execution did not      *)
(* raise, that is the whole table but for rows whose emitter was cut off   *)
(* before it published them.                                               *)
CompleteOnReturn ==
    \A s \in Streams : place[s] = "returned" =>
        /\ ToSet(out[s]) \subseteq ToSet(rows)
        /\ \A i \in 1..read[s] : rows[i] \in ToSet(out[s])
        /\ settled \subseteq ToSet(out[s])
        /\ job \in {"executing", "over"} /\ status[Failed] = "none" =>
              \A e \in ToSet(rows) \ ToSet(out[s]) : status[e] = "silent"

(* Causes come before effects and no event comes twice: plan.started first, *)
(* attempt.started before the node's other events, run.finished after what *)
(* the nodes emitted, although an event that was committed before the table *)
(* was read may also arrive through the queue.  (run.failed has no causes, *)
(* and events of nodes that run in parallel may be swapped with respect to *)
(* the ledger.)                                                            *)
Precedes(e, f) ==
    \/ e = Root /\ f \in BranchEvents \cup {Final}
    \/ e \in BranchEvents /\ f \in BranchEvents /\ e = First(f.by) /\ f # e
    \/ e \in BranchEvents /\ f = Final

OnceInCausalOrder ==
    \A s \in Streams :
        /\ IsInjective(out[s])
        /\ \A i, j \in DOMAIN out[s] : Precedes(out[s][i], out[s][j]) => i < j

(* A stream that was opened ends, by itself after the run has finished or  *)
(* because its client left, unless the run's task was interrupted while it *)
(* recorded its failure.                                                   *)
StreamEnds ==
    \A s \in Streams :
        place[s] = "reading" ~>
            place[s] \in {"returned", "disconnected"} \/ job = "lost"

=============================================================================

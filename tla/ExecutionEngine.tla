-------------------------- MODULE ExecutionEngine --------------------------
(***************************************************************************)
(* The plan executor (src/fetech/executor.py) and the execution context    *)
(* its adapters write to (src/fetech/adapters/base.py).                    *)
(*                                                                         *)
(* execute() walks the plan's nodes.  A node whose dependencies are        *)
(* complete runs alone on the run's context, or with its neighbours of the *)
(* same parallel group, each as a task on a copy of the context with a     *)
(* share of the budget.  A winner or a stopping result cancels the others; *)
(* the copies are then merged.  A node that runs alone is a batch of one.  *)
(*                                                                         *)
(* An adapter is the environment: it may append attempts, store artifacts, *)
(* return, raise any of the errors of base.py, or hang.  Each step of a    *)
(* branch ends at an await.  A pending cancellation is delivered at the    *)
(* branch's next step, whatever it was awaiting.                           *)
(***************************************************************************)
EXTENDS Integers, Sequences, FiniteSets, SequencesExt, FiniteSetsExt

CONSTANTS
    Plans,     \* plans the planner may hand over: sequences of nodes
    Budgets,   \* values of request.budget.attempts
    Errors     \* what adapters raise: handled kinds, and "retryable"

MaxNodes == 9                          \* bound on the length of a plan
Groups   == {"none", "static-readers", "document-extractors", "media-extractors",
             "cache-strategies"}
NodeSet  == [ deps : SUBSET (1..MaxNodes),    \* node.dependencies, as plan indexes
             group : Groups,           \* node.parallel_group
             fallback : BOOLEAN,       \* node.fallback_for is set
             stops : BOOLEAN,          \* node.stop_on_acceptance
             approval : {"free", "granted", "missing"},  \* _enforce_approval
             adapter : BOOLEAN,        \* self.adapters has node.adapter
             logs : BOOLEAN,           \* the adapter appends an attempt (core does not)
             expands : BOOLEAN,        \* and one per page it fetches (discovery)
             settles : BOOLEAN,        \* and ends it itself when it fails (http, cache,
                                       \* media; not reader, browser, discovery)
             mutates : BOOLEAN,        \* the capability changes something at the origin
             retries : Nat ]           \* node.retry.maximum

VARIABLES
    plan,        \* the FetchPlan
    budget,      \* its request's attempts budget
    pc,          \* where execute() is
    index,       \* node_index, from 1
    completed,   \* indexes of completed nodes
    flags,       \* the dependency_missing ... failed locals that are True
    context,     \* the run's ExecutionContext
    batch,       \* the branches of the last batch
    expired,     \* deadline_seconds have passed since execution_started
    status       \* the result's status, once finished

vars == <<plan, budget, pc, index, completed, flags, context, batch, expired,
          status>>

StopKinds == {"budget_exhausted", "policy_blocked", "auth_required", "not_found"}
Failures  == StopKinds \cup {"dependency_missing", "failed"}

ASSUME PlansAssumption ==
    /\ \A p \in Plans : /\ p \in Seq(NodeSet) /\ Len(p) <= MaxNodes
                        /\ \A k \in DOMAIN p : p[k].deps \subseteq 1..(k - 1)
    /\ Budgets \subseteq Nat \ {0}
    /\ Errors \subseteq Failures \cup {"retryable"}

Settled   == {"returned", "cancelled", "crashed"}  \* task.done()
Ended     == {"finished", "raised"}

Contexts  == [ attempts : Seq({"RUNNING", "SUCCEEDED", "FAILED", "CANCELLED"}),
               accepted : BOOLEAN,
               artifacts : BOOLEAN ]

----------------------------------------------------------------------------
(* Attempt bookkeeping *)

SetLast(att, s) == [att EXCEPT ![Len(att)] = s]

\* mutant of MarkRunning: the last attempt is marked whatever its status
MarkLast(att, s) == IF att # <<>> THEN SetLast(att, s) ELSE att

\* _mark_running_attempt_failed, _mark_running_attempt_cancelled: only the last
MarkRunning(att, s) ==
    IF att # <<>> /\ Last(att) = "RUNNING" THEN SetLast(att, s) ELSE att

\* _ensure_deadline_attempt_failed
EnsureDeadlineAttemptFailed(att, count) ==
    CASE Len(att) = count -> Append(att, "FAILED")
      [] Len(att) # count /\ Last(att) \in {"CANCELLED", "RUNNING"} -> SetLast(att, "FAILED")
      [] OTHER -> att

\* the adapter's own bookkeeping: context.attempts[attempt_index] = ...
SetOwn(b, s) ==
    IF b.own = 0 THEN b ELSE [b EXCEPT !.context.attempts[b.own] = s]

\* what an adapter that is interrupted by an exception leaves behind
Interrupted(b, s) ==
    IF b.pc = "adapter" /\ plan[b.node].settles THEN SetOwn(b, s) ELSE b

----------------------------------------------------------------------------
(* Batches *)

Ready(k)       == plan[k].deps \subseteq completed
Unnecessary(k) == context.accepted /\ plan[k].fallback
Remaining      == Max({0, budget - Len(context.attempts)})

\* candidate k may run in parallel with the batch that starts at index
Joins(k) ==
    /\ plan[k].group = plan[index].group
    /\ plan[k].approval = "free"
    /\ Ready(k)
    /\ ~Unnecessary(k)

\* the length of _parallel_batch
BatchSize ==
    IF plan[index].group = "none" \/ plan[index].approval # "free" \/ Remaining <= 1
    THEN 1
    ELSE Max({ n \in 1..Min({Remaining, Len(plan) - index + 1}) :
                 \A k \in index..(index + n - 1) : Joins(k) })

\* mutant of AttemptShare: the remainder is given to every branch
AttemptShareRoundedUp(i, n) ==
    Len(context.attempts) + (Remaining \div n) + (IF Remaining % n > 0 THEN 1 ELSE 0)

\* _partition_parallel_budgets: the attempts ceiling of the i-th of n branches
AttemptShare(i, n) ==
    Len(context.attempts) + (Remaining \div n) + (IF i <= Remaining % n THEN 1 ELSE 0)

NewBranch(i, n) ==
    [ node    |-> index + i - 1,
      context |-> context,                                        \* _parallel_contexts
      budget  |-> IF n = 1 THEN budget ELSE AttemptShare(i, n),
      pc      |-> "created",
      own     |-> 0,          \* the adapter's attempt_index, 0 before it appends
      tries   |-> 0,          \* retry_index
      result  |-> "none",     \* "completed" or the failure being reported
      cancelling |-> FALSE,   \* task.cancel() was called
      collected  |-> FALSE ]  \* its result was read

Node(b)       == plan[b.node]
IsParallel    == Len(batch) > 1
LiveBranches  == { i \in DOMAIN batch : batch[i].pc \notin Settled }
CancelLive    == [i \in DOMAIN batch |->
                    IF i \in LiveBranches THEN [batch[i] EXCEPT !.cancelling = TRUE]
                    ELSE batch[i]]

----------------------------------------------------------------------------
Init ==
    /\ plan \in Plans
    /\ budget \in Budgets
    /\ pc = "loop"
    /\ index = 1
    /\ completed = {}
    /\ flags = {}
    /\ context = [attempts |-> <<>>, accepted |-> FALSE, artifacts |-> FALSE]
    /\ batch = <<>>
    /\ expired = FALSE
    /\ status = "none"

(* execute(): the while loop *)

AtNode == pc = "loop" /\ index <= Len(plan)

\* "dependency_skipped"
SkipNotReady ==
    /\ AtNode
    /\ ~Ready(index)
    /\ index' = index + 1
    /\ UNCHANGED <<plan, budget, pc, completed, flags, context, batch, expired, status>>

\* an accepted artifact made this fallback unnecessary
SkipFallback ==
    /\ AtNode
    /\ Ready(index)
    /\ Unnecessary(index)
    /\ completed' = completed \cup {index}
    /\ index' = index + 1
    /\ UNCHANGED <<plan, budget, pc, flags, context, batch, expired, status>>

StartBatch ==
    /\ AtNode
    /\ Ready(index)
    /\ ~Unnecessary(index)
    /\ batch' = [i \in 1..BatchSize |-> NewBranch(i, BatchSize)]
    /\ pc' = "executing"
    /\ UNCHANGED <<plan, budget, index, completed, flags, context, expired, status>>

\* _status: the first of its tests that applies
Status ==
    IF context.accepted THEN (IF flags # {} THEN "PARTIAL" ELSE "SUCCEEDED")
    ELSE IF "policy_blocked"   \in flags THEN "BLOCKED_BY_POLICY"
    ELSE IF "auth_required"    \in flags THEN "AUTH_REQUIRED"
    ELSE IF "not_found"        \in flags THEN "NOT_FOUND"
    ELSE IF "budget_exhausted" \in flags THEN "BUDGET_EXHAUSTED"
    ELSE IF context.artifacts THEN (IF flags # {} THEN "PARTIAL" ELSE "LOW_QUALITY")
    ELSE IF "dependency_missing" \in flags THEN "DEPENDENCY_MISSING"
    ELSE "FAILED"

\* the plan is exhausted or a result stopped it: status, result, update_run
Finish ==
    /\ pc = "stopped" \/ (pc = "loop" /\ index > Len(plan))
    /\ status' = Status
    /\ pc' = "finished"
    /\ UNCHANGED <<plan, budget, index, completed, flags, context, batch, expired>>

----------------------------------------------------------------------------
(* _execute_node, one branch *)

Set(i, b) ==
    /\ batch' = [batch EXCEPT ![i] = b]
    /\ UNCHANGED <<plan, budget, pc, index, completed, flags, context, expired, status>>

Runs(i, here) == i \in DOMAIN batch /\ batch[i].pc \in here /\ ~batch[i].cancelling

\* an except clause up to its await of _emit
Handled(b, kind) ==
    [b EXCEPT !.pc = "reporting", !.result = kind,
              !.context.attempts = MarkRunning(@, "FAILED")]

\* _with_retries at the head of its for loop
Try(b) ==
    IF Len(b.context.attempts) >= b.budget
    THEN Handled(b, "budget_exhausted")
    ELSE [b EXCEPT !.pc = "adapter", !.own = 0]

DeadlineHandled(b) ==
    Handled([b EXCEPT !.context.attempts =
                EnsureDeadlineAttemptFailed(@, Len(context.attempts))],
            "budget_exhausted")

\* no adapter is registered, or "attempt.started" is emitted
BranchBegin(i) ==
    /\ Runs(i, {"created"})
    /\ Set(i, IF Node(batch[i]).adapter
              THEN [batch[i] EXCEPT !.pc = "starting"]
              ELSE [batch[i] EXCEPT !.pc = "returned", !.result = "dependency_missing"])

\* _enforce_approval, the deadline check, and the first try
BranchEnter(i) ==
    /\ Runs(i, {"starting"})
    /\ Set(i, CASE Node(batch[i]).approval = "missing" -> Handled(batch[i], "policy_blocked")
                [] Node(batch[i]).approval # "missing" /\ expired -> DeadlineHandled(batch[i])
                [] OTHER -> Try(batch[i]))

\* the adapter appends its attempt
BeginAttempt(i) ==
    /\ Runs(i, {"adapter"})
    /\ Node(batch[i]).logs
    /\ batch[i].own = 0
    /\ Set(i, [batch[i] EXCEPT !.context.attempts = Append(@, "RUNNING"),
                               !.own = Len(batch[i].context.attempts) + 1])

\* DiscoveryAdapter merges the attempt of a page it fetched, within its budget
SubAttempt(i, outcome) ==
    /\ Runs(i, {"adapter"})
    /\ Node(batch[i]).expands
    /\ batch[i].own # 0
    /\ Len(batch[i].context.attempts) < batch[i].budget
    /\ Set(i, [batch[i] EXCEPT !.context.attempts = Append(@, outcome)])

\* the adapter stores an artifact, which may pass the quality gate
AdapterStores(i, accepted) ==
    /\ Runs(i, {"adapter"})
    /\ batch[i].own # 0
    /\ Set(i, [batch[i] EXCEPT !.context.artifacts = TRUE,
                               !.context.accepted = @ \/ accepted])

AdapterReturns(i) ==
    /\ Runs(i, {"adapter"})
    /\ Node(batch[i]).logs => batch[i].own # 0
    /\ Set(i, [SetOwn(batch[i], "SUCCEEDED") EXCEPT !.pc = "reporting", !.result = "completed"])

\* the adapter raises; _with_retries may try again
AdapterRaises(i, kind) ==
    LET b == Interrupted(batch[i], "FAILED")
    IN  /\ Runs(i, {"adapter"})
        /\ Set(i, CASE kind # "retryable" -> Handled(b, kind)
                    [] kind = "retryable" /\ b.tries >= Node(b).retries -> Handled(b, "failed")
                    [] OTHER -> [b EXCEPT !.pc = "backoff"])

\* the backoff ends: the next iteration of _with_retries
Retry(i) ==
    /\ Runs(i, {"backoff"})
    /\ Set(i, Try([batch[i] EXCEPT !.tries = @ + 1]))

\* mutant of DeadlineHits: only the first try runs under the timeout
DeadlineHitsFirstTry(i) ==
    /\ expired
    /\ Runs(i, {"adapter", "backoff"})
    /\ batch[i].tries = 0
    /\ Set(i, DeadlineHandled(Interrupted(batch[i], "CANCELLED")))

\* asyncio.timeout(remaining_deadline) cancels the adapter or the backoff
DeadlineHits(i) ==
    /\ expired
    /\ Runs(i, {"adapter", "backoff"})
    /\ Set(i, DeadlineHandled(Interrupted(batch[i], "CANCELLED")))

\* the last _emit returns
BranchReturns(i) ==
    /\ Runs(i, {"reporting"})
    /\ Set(i, [batch[i] EXCEPT !.pc = "returned"])

\* an exception _execute_node does not handle (the ledger, the store, a bug)
BranchCrashes(i) ==
    /\ Runs(i, {"starting", "adapter", "reporting"})
    /\ Set(i, [batch[i] EXCEPT !.pc = "crashed"])

\* CancelledError arrives; inside the try, the handler marks the last attempt
BranchCancelled(i) ==
    LET b == Interrupted(batch[i], "CANCELLED")
    IN  /\ i \in LiveBranches
        /\ b.cancelling
        /\ Set(i, [b EXCEPT !.pc = "cancelled",
                            !.context.attempts = IF b.pc \in {"adapter", "backoff"}
                                                 THEN MarkRunning(@, "CANCELLED") ELSE @])

----------------------------------------------------------------------------
(* _execute_parallel_batch and the merge *)

\* the _NodeExecution of a settled branch; a cancelled loser counts as completed
Outcome(b) == IF b.pc = "cancelled" THEN "completed" ELSE b.result

Appended(b) == SubSeq(b.context.attempts, Len(context.attempts) + 1, Len(b.context.attempts))

\* _merge_parallel_context for every branch, in plan order
MergedAttempts(bs) ==
    IF Len(bs) = 1 THEN bs[1].context.attempts
    ELSE context.attempts \o FlattenSeq([i \in DOMAIN bs |-> Appended(bs[i])])

Merge(bs) ==
    LET outcomes == { Outcome(bs[i]) : i \in DOMAIN bs } IN
    /\ context' = [ attempts  |-> MergedAttempts(bs),
                    accepted  |-> \E i \in DOMAIN bs : bs[i].context.accepted,
                    artifacts |-> \E i \in DOMAIN bs : bs[i].context.artifacts ]
    /\ completed' = completed \cup { bs[i].node : i \in { j \in DOMAIN bs : Outcome(bs[j]) = "completed" } }
    /\ flags' = flags \cup (outcomes \ {"completed"})
    /\ index' = index + Len(bs)
    /\ pc' = IF outcomes \cap StopKinds # {} THEN "stopped" ELSE "loop"
    /\ batch' = bs

Done == { i \in DOMAIN batch : batch[i].pc \in Settled /\ ~batch[i].collected }

Winner(i) ==
    /\ batch[i].result = "completed"
    /\ Node(batch[i]).stops
    /\ ~context.accepted
    /\ batch[i].context.accepted

\* asyncio.wait returns the branches that are done by now
Collecting == pc = "executing" /\ Done # {}
Collected  == [i \in DOMAIN batch |-> [batch[i] EXCEPT !.collected = @ \/ i \in Done]]
MustStop   == \E i \in Done : Winner(i) \/ batch[i].result \in StopKinds

\* mutant of CollectWait: only a winner stops its siblings
CollectIgnoringStops ==
    LET won == \E i \in Done : Winner(i) IN
    /\ Collecting
    /\ \A i \in Done : batch[i].pc = "returned"
    /\ LiveBranches # {}
    /\ batch' = IF won
                THEN [i \in DOMAIN batch |->
                        [Collected[i] EXCEPT !.cancelling = @ \/ i \in LiveBranches]]
                ELSE Collected
    /\ pc' = IF won THEN "reaping" ELSE "executing"
    /\ UNCHANGED <<plan, budget, index, completed, flags, context, expired, status>>

CollectWait ==
    /\ Collecting
    /\ \A i \in Done : batch[i].pc = "returned"
    /\ LiveBranches # {}
    /\ batch' = IF MustStop
                THEN [i \in DOMAIN batch |->
                        [Collected[i] EXCEPT !.cancelling = @ \/ i \in LiveBranches]]
                ELSE Collected
    /\ pc' = IF MustStop THEN "reaping" ELSE "executing"
    /\ UNCHANGED <<plan, budget, index, completed, flags, context, expired, status>>

CollectLast ==
    /\ Collecting
    /\ \A i \in Done : batch[i].pc = "returned"
    /\ LiveBranches = {}
    /\ Merge(Collected)
    /\ UNCHANGED <<plan, budget, expired, status>>

\* task.result() re-raises: the except BaseException clause cancels the rest
CollectCrash ==
    /\ Collecting
    /\ \E i \in Done : batch[i].pc = "crashed"
    /\ batch' = CancelLive
    /\ pc' = "aborting"
    /\ UNCHANGED <<plan, budget, index, completed, flags, context, expired, status>>

\* gather(*losers) returns
Reap ==
    /\ pc = "reaping"
    /\ LiveBranches = {}
    /\ IF \E i \in DOMAIN batch : batch[i].pc = "crashed"
       THEN /\ pc' = "aborting"
            /\ UNCHANGED <<index, completed, flags, context, batch>>
       ELSE Merge(batch)
    /\ UNCHANGED <<plan, budget, expired, status>>

\* the run's task is cancelled while it awaits a node or a batch
CancelRun ==
    /\ pc \in {"executing", "reaping"}
    /\ batch' = CancelLive
    /\ pc' = "aborting"
    /\ UNCHANGED <<plan, budget, index, completed, flags, context, expired, status>>

\* mutant of Abort: the exception leaves without waiting for the branches
AbortAtOnce ==
    /\ pc = "aborting"
    /\ pc' = "raised"
    /\ UNCHANGED <<plan, budget, index, completed, flags, context, batch, expired, status>>

\* gather(*tasks) returns and the exception leaves execute()
Abort ==
    /\ pc = "aborting"
    /\ LiveBranches = {}
    /\ pc' = "raised"
    /\ UNCHANGED <<plan, budget, index, completed, flags, context, batch, expired, status>>

DeadlinePasses ==
    /\ ~expired
    /\ pc \notin Ended
    /\ expired' = TRUE
    /\ UNCHANGED <<plan, budget, pc, index, completed, flags, context, batch, status>>

----------------------------------------------------------------------------
Adapter(i) ==
    \/ BeginAttempt(i)
    \/ \E s \in {"SUCCEEDED", "FAILED"} : SubAttempt(i, s)
    \/ \E a \in BOOLEAN : AdapterStores(i, a)
    \/ AdapterReturns(i)
    \/ \E k \in Errors : AdapterRaises(i, k)

\* steps the event loop takes without the adapter's or the network's help
Progress(i) ==
    \/ BranchBegin(i)
    \/ BranchEnter(i)
    \/ Retry(i)
    \/ DeadlineHits(i)
    \/ BranchReturns(i)
    \/ BranchCancelled(i)

Loop ==
    \/ SkipNotReady \/ SkipFallback \/ StartBatch \/ Finish
    \/ CollectWait \/ CollectLast \/ CollectCrash \/ Reap \/ Abort

Next ==
    \/ Loop
    \/ \E i \in DOMAIN batch : Adapter(i) \/ Progress(i) \/ BranchCrashes(i)
    \/ CancelRun
    \/ DeadlinePasses

Spec == Init /\ [][Next]_vars

(* The event loop runs every ready callback and the clock reaches the      *)
(* deadline.  Nothing is assumed of the adapters: they may hang.           *)
Fairness ==
    /\ WF_vars(Loop)
    /\ \A i \in 1..MaxNodes : WF_vars(i \in DOMAIN batch /\ Progress(i))
    /\ WF_vars(DeadlinePasses)

FairSpec == Spec /\ Fairness

----------------------------------------------------------------------------
(* Properties *)

BranchOK(b) ==
    /\ b.node \in DOMAIN plan
    /\ b.context \in Contexts
    /\ b.budget \in Nat
    /\ b.pc \in {"created", "starting", "adapter", "backoff", "reporting"} \cup Settled
    /\ b.own \in 0..Len(b.context.attempts)
    /\ b.tries \in 0..Node(b).retries
    /\ b.result \in Failures \cup {"none", "completed"}
    /\ b.cancelling \in BOOLEAN
    /\ b.collected \in BOOLEAN

TypeOK ==
    /\ plan \in Plans
    /\ budget \in Budgets
    /\ pc \in {"loop", "stopped", "executing", "reaping", "aborting"} \cup Ended
    /\ index \in 1..(Len(plan) + 1)
    /\ completed \subseteq DOMAIN plan
    /\ flags \subseteq Failures
    /\ context \in Contexts
    /\ \A i \in DOMAIN batch : BranchOK(batch[i])
    /\ expired \in BOOLEAN
    /\ status \in {"none", "SUCCEEDED", "PARTIAL", "LOW_QUALITY", "FAILED",
                   "BLOCKED_BY_POLICY", "AUTH_REQUIRED", "NOT_FOUND",
                   "BUDGET_EXHAUSTED", "DEPENDENCY_MISSING"}

\* every attempt of the run so far, those of unmerged branches included
InFlight      == pc \in {"executing", "reaping", "aborting"}
TotalAttempts ==
    IF InFlight THEN Len(MergedAttempts(batch)) ELSE Len(context.attempts)

(* The attempts budget is cumulative.  Parallel branches, retries and a    *)
(* crawl's pages together never make more attempts than the request        *)
(* allows: the shares partition what is left.  Only the synthetic record   *)
(* of an expired deadline may come on top, once, and it ends the run.      *)
AttemptBudgetHeld ==
    \/ TotalAttempts <= budget
    \/ /\ TotalAttempts = budget + 1
       /\ expired
       /\ IF InFlight THEN ~IsParallel /\ batch[1].result = "budget_exhausted"
                      ELSE "budget_exhausted" \in flags \/ pc = "raised"

(* Branches are isolated.  While a batch runs, the run's own attempts are  *)
(* a prefix of every branch's copy: no failure, deadline or cancellation   *)
(* handler of a branch rewrites the attempt of an earlier node, so taking  *)
(* the suffix at the merge loses nothing.                                  *)
BaselineKept ==
    InFlight => \A i \in DOMAIN batch : IsPrefix(context.attempts, batch[i].context.attempts)

(* No task outlives its batch: whether the batch ends by completion, by an *)
(* early stop, by a crash or by the cancellation of the run, every branch  *)
(* has settled before execute() goes on or raises.                         *)
NoOrphanBranch == ~InFlight => LiveBranches = {}

(* A stop is final.  Once execute() has read a stopping result, or an      *)
(* accepted winner of a parallel group, no branch makes another attempt,   *)
(* and a fallback is not attempted after an artifact was accepted.         *)
StopObserved ==
    \/ flags \cap StopKinds # {}
    \/ InFlight /\ \E i \in DOMAIN batch :
          batch[i].collected /\ (batch[i].result \in StopKinds \/ Winner(i))

StopIsFinal ==
    [][ TotalAttempts' > TotalAttempts =>
          /\ ~StopObserved
          /\ context.accepted =>
               \A i \in DOMAIN batch :
                  Len(batch'[i].context.attempts) > Len(batch[i].context.attempts)
                     => ~Node(batch[i]).fallback ]_vars

(* What changes something at the origin (an HTTP POST, a form) is asked    *)
(* for once: the adapter of such a node is entered only when the request   *)
(* approved it, alone, and never for a second try, whatever the planner    *)
(* grouped and however its first try failed.                               *)
MutatesOnce ==
    \A i \in DOMAIN batch :
        Node(batch[i]).mutates /\ batch[i].pc \in {"adapter", "backoff"} =>
            Node(batch[i]).approval = "granted" /\ ~IsParallel /\ batch[i].tries = 0

(* The run ends: whatever hangs, the deadline reaches every branch, and    *)
(* the loop, the collector and the reaper then finish.                     *)
RunTerminates == <>(pc \in Ended)

============================================================================

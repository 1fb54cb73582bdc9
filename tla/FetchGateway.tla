---------------------------- MODULE FetchGateway ----------------------------
(***************************************************************************)
(* The life of a fetch run in UniversalFetchGateway (src/fetech/gateway.py)*)
(* over the durable ledger (src/fetech/ledger.py): initialize() with its   *)
(* start-up recovery, submit(), the background task of a run, cancellation *)
(* (a caller awaiting fetch() or wait() is cancelled, or the gateway is    *)
(* closed), close(), crash and restart.                                    *)
(*                                                                         *)
(* The process is one asyncio event loop, so every step below is the code  *)
(* between two awaits.  A ledger write is two steps where the difference   *)
(* shows: the commit, and the task resuming after it; a cancellation may   *)
(* arrive between the two.  Appending a provenance event changes nothing   *)
(* of this state and is part of the step that follows it.                  *)
(***************************************************************************)
EXTENDS Naturals, FiniteSets

CONSTANTS
    Runs,            \* run ids; each is submitted by one call of submit()
    Boot,            \* the caller of initialize() at start-up (daemon lifespan,
                     \* FetechClient.__aenter__)
    NoResult,
    ServeBeforeInit, \* TRUE: submit() may be called on a gateway nobody has
                     \* initialized (a bare FetechClient, the MCP server)
    MaxCrashes       \* bound on process crashes

Callers == Runs \cup {Boot}

Results == {"executed", "planning_failed", "run_cancelled", "internal_error",
            "run_interrupted"}

ASSUME GatewayAssumption ==
    /\ Boot \notin Runs
    /\ NoResult \notin Results
    /\ ServeBeforeInit \in BOOLEAN
    /\ MaxCrashes \in Nat

VARIABLES
    \* durable: the fetch_runs table
    runState,     \* [Runs -> absent, QUEUED, RUNNING or FINISHED]
    result,       \* result_json
    \* in memory
    up,           \* the process is running
    initialized,  \* self._initialized
    pc,           \* where a caller is in initialize() and submit()
    todo,         \* the rest of unfinished_runs() in a caller's recovery loop
    task,         \* the state of a run's asyncio task
    draining,     \* the tasks close() waits for
    closing,      \* close() is in progress
    crashes,      \* number of crashes so far
    \* ghosts
    thisProcess,  \* runs created by the current process
    abandoned     \* runs that lost their task or submit() to a cancellation
                  \* or a ledger error before a terminal state was stored

durable == <<runState, result>>
vars == <<runState, result, up, initialized, pc, todo, task, draining, closing,
          crashes, thisProcess, abandoned>>

Unfinished(r) == runState[r] \in {"QUEUED", "RUNNING"}

\* a task that still has steps to take
LiveTask == {"created", "starting", "started", "executing", "finishing",
             "committed", "cancelled", "erred", "projecting"}

Init ==
    /\ runState = [r \in Runs |-> "absent"]
    /\ result = [r \in Runs |-> NoResult]
    /\ up = TRUE
    /\ initialized = FALSE
    /\ pc = [c \in Callers |-> "idle"]
    /\ todo = [c \in Callers |-> {}]
    /\ task = [r \in Runs |-> "none"]
    /\ draining = {}
    /\ closing = FALSE
    /\ crashes = 0
    /\ thisProcess = {}
    /\ abandoned = {}

Goto(c, place) == pc' = [pc EXCEPT ![c] = place]
TaskTo(r, place) == task' = [task EXCEPT ![r] = place]

\* ledger.update_run(r, FINISHED, result): one commit, whatever the row holds
StoreResult(r, outcome) ==
    /\ runState' = [runState EXCEPT ![r] = "FINISHED"]
    /\ result' = [result EXCEPT ![r] = outcome]

----------------------------------------------------------------------------
(* initialize() *)

\* mutant of CallSubmit: requests are served before start-up recovery is done
SubmitDuringRecovery(r) ==
    /\ up
    /\ pc[r] = "idle"
    /\ Goto(r, IF initialized THEN "create" ELSE "open_ledger")
    /\ UNCHANGED <<durable, up, initialized, todo, task, draining, closing,
                   crashes, thisProcess, abandoned>>

\* a caller of submit() enters initialize(); the daemon serves only afterwards
CallSubmit(r) ==
    /\ up
    /\ pc[r] = "idle"
    /\ ServeBeforeInit \/ initialized
    /\ Goto(r, IF initialized THEN "create" ELSE "open_ledger")
    /\ UNCHANGED <<durable, up, initialized, todo, task, draining, closing,
                   crashes, thisProcess, abandoned>>

CallInitialize ==
    /\ up
    /\ pc[Boot] = "idle"
    /\ Goto(Boot, IF initialized THEN "returned" ELSE "open_ledger")
    /\ UNCHANGED <<durable, up, initialized, todo, task, draining, closing,
                   crashes, thisProcess, abandoned>>

\* mutants of ScanUnfinished: queued runs are missed; finished runs are taken
ScanRunningOnly(c) ==
    /\ pc[c] = "open_ledger"
    /\ todo' = [todo EXCEPT ![c] = { r \in Runs : runState[r] = "RUNNING" }]
    /\ Goto(c, "recover")
    /\ UNCHANGED <<durable, up, initialized, task, draining, closing, crashes,
                   thisProcess, abandoned>>

ScanEveryRun(c) ==
    /\ pc[c] = "open_ledger"
    /\ todo' = [todo EXCEPT ![c] = { r \in Runs : runState[r] # "absent" }]
    /\ Goto(c, "recover")
    /\ UNCHANGED <<durable, up, initialized, task, draining, closing, crashes,
                   thisProcess, abandoned>>

\* ledger.initialize() returned; unfinished_runs() reads the table
ScanUnfinished(c) ==
    /\ pc[c] = "open_ledger"
    /\ todo' = [todo EXCEPT ![c] = { r \in Runs : Unfinished(r) }]
    /\ Goto(c, "recover")
    /\ UNCHANGED <<durable, up, initialized, task, draining, closing, crashes,
                   thisProcess, abandoned>>

\* one iteration of _recover_interrupted_runs
RecoverRun(c, r) ==
    /\ pc[c] = "recover"
    /\ r \in todo[c]
    /\ StoreResult(r, "run_interrupted")
    /\ todo' = [todo EXCEPT ![c] = @ \ {r}]
    /\ UNCHANGED <<up, initialized, pc, task, draining, closing, crashes,
                   thisProcess, abandoned>>

InitializeDone(c) ==
    /\ pc[c] = "recover"
    /\ todo[c] = {}
    /\ initialized' = TRUE
    /\ Goto(c, IF c = Boot THEN "returned" ELSE "create")
    /\ UNCHANGED <<durable, up, todo, task, draining, closing, crashes,
                   thisProcess, abandoned>>

----------------------------------------------------------------------------
(* submit() after initialize() *)

CreateRun(r) ==
    /\ pc[r] = "create"
    /\ runState' = [runState EXCEPT ![r] = "QUEUED"]
    /\ thisProcess' = thisProcess \cup {r}
    /\ Goto(r, "plan")
    /\ UNCHANGED <<result, up, initialized, todo, task, draining, closing,
                   crashes, abandoned>>

PlanSucceeds(r) ==
    /\ pc[r] = "plan"
    /\ Goto(r, "record_plan")
    /\ UNCHANGED <<durable, up, initialized, todo, task, draining, closing,
                   crashes, thisProcess, abandoned>>

PlanFails(r) ==
    /\ pc[r] = "plan"
    /\ Goto(r, "planning_failed")
    /\ UNCHANGED <<durable, up, initialized, todo, task, draining, closing,
                   crashes, thisProcess, abandoned>>

RecordPlanningFailure(r) ==
    /\ pc[r] = "planning_failed"
    /\ StoreResult(r, "planning_failed")
    /\ Goto(r, "returned")
    /\ UNCHANGED <<up, initialized, todo, task, draining, closing, crashes,
                   thisProcess, abandoned>>

\* _record_plan returned: create_task and return the QUEUED run
LaunchTask(r) ==
    /\ pc[r] = "record_plan"
    /\ TaskTo(r, "created")
    /\ Goto(r, "returned")
    /\ UNCHANGED <<durable, up, initialized, todo, draining, closing, crashes,
                   thisProcess, abandoned>>

(* The caller of submit() is cancelled, or a ledger write in it raises:    *)
(* neither is caught, and a run that was already created keeps no task.    *)
SubmitAborted(r) ==
    /\ pc[r] \in {"open_ledger", "recover", "create", "plan", "planning_failed",
                  "record_plan"}
    /\ Goto(r, "aborted")
    /\ todo' = [todo EXCEPT ![r] = {}]
    /\ abandoned' = IF Unfinished(r) THEN abandoned \cup {r} ELSE abandoned
    /\ UNCHANGED <<durable, up, initialized, task, draining, closing, crashes,
                   thisProcess>>

----------------------------------------------------------------------------
(* The task of a run: _execute_and_project around ExecutionEngine.execute  *)

TaskBegins(r) ==
    /\ task[r] = "created"
    /\ TaskTo(r, "starting")
    /\ UNCHANGED <<durable, up, initialized, pc, todo, draining, closing,
                   crashes, thisProcess, abandoned>>

\* update_run(run_id, RUNNING) commits
CommitRunning(r) ==
    /\ task[r] = "starting"
    /\ runState' = [runState EXCEPT ![r] = "RUNNING"]
    /\ TaskTo(r, "started")
    /\ UNCHANGED <<result, up, initialized, pc, todo, draining, closing,
                   crashes, thisProcess, abandoned>>

ResumeExecution(r) ==
    /\ task[r] = "started"
    /\ TaskTo(r, "executing")
    /\ UNCHANGED <<durable, up, initialized, pc, todo, draining, closing,
                   crashes, thisProcess, abandoned>>

\* the plan ran to its end and run.finished was emitted
ExecutionEnds(r) ==
    /\ task[r] = "executing"
    /\ TaskTo(r, "finishing")
    /\ UNCHANGED <<durable, up, initialized, pc, todo, draining, closing,
                   crashes, thisProcess, abandoned>>

\* an Exception escapes execute(), in the plan or in a ledger write
ExecutionRaises(r) ==
    /\ task[r] \in {"starting", "started", "executing", "finishing"}
    /\ TaskTo(r, "erred")
    /\ UNCHANGED <<durable, up, initialized, pc, todo, draining, closing,
                   crashes, thisProcess, abandoned>>

CommitFinished(r) ==
    /\ task[r] = "finishing"
    /\ StoreResult(r, "executed")
    /\ TaskTo(r, "committed")
    /\ UNCHANGED <<up, initialized, pc, todo, draining, closing, crashes,
                   thisProcess, abandoned>>

\* update_run returned, the artifacts are published, the runtime graph is built
ResumeFinished(r) ==
    /\ task[r] = "committed"
    /\ TaskTo(r, "projecting")
    /\ UNCHANGED <<durable, up, initialized, pc, todo, draining, closing,
                   crashes, thisProcess, abandoned>>

TaskReturns(r) ==
    /\ task[r] = "projecting"
    /\ TaskTo(r, "done")
    /\ UNCHANGED <<durable, up, initialized, pc, todo, draining, closing,
                   crashes, thisProcess, abandoned>>

\* mutant of RecordTerminalFailure: an internal error is not stored
InternalErrorUnsaved(r) ==
    /\ \/ /\ task[r] = "cancelled"
          /\ StoreResult(r, "run_cancelled")
          /\ TaskTo(r, "done")
       \/ /\ task[r] = "erred"
          /\ TaskTo(r, "projecting")
          /\ UNCHANGED durable
    /\ UNCHANGED <<up, initialized, pc, todo, draining, closing, crashes,
                   thisProcess, abandoned>>

\* _record_terminal_failure, then raise (cancelled) or go on (internal error)
RecordTerminalFailure(r) ==
    /\ \/ /\ task[r] = "cancelled"
          /\ StoreResult(r, "run_cancelled")
          /\ TaskTo(r, "done")
       \/ /\ task[r] = "erred"
          /\ StoreResult(r, "internal_error")
          /\ TaskTo(r, "projecting")
    /\ UNCHANGED <<up, initialized, pc, todo, draining, closing, crashes,
                   thisProcess, abandoned>>

\* the ledger raises while the terminal failure is being recorded
TerminalFailureLost(r) ==
    /\ task[r] \in {"cancelled", "erred"}
    /\ TaskTo(r, "done")
    /\ abandoned' = IF Unfinished(r) THEN abandoned \cup {r} ELSE abandoned
    /\ UNCHANGED <<durable, up, initialized, pc, todo, draining, closing,
                   crashes, thisProcess>>

----------------------------------------------------------------------------
(* Cancellation *)

(* What task.cancel() makes of a task.  One that has not taken its first   *)
(* step ends before the try of _execute_and_project; one inside the try    *)
(* goes to the except clause; one in the except clauses or past them ends. *)
AfterCancel(t) ==
    CASE t \in {"starting", "started", "executing", "finishing", "committed"}
           -> "cancelled"
      [] t \in {"created", "cancelled", "erred", "projecting"} -> "done"
      [] OTHER -> t

CancelTasks(R) ==
    /\ task' = [r \in Runs |-> IF r \in R THEN AfterCancel(task[r]) ELSE task[r]]
    /\ abandoned' = abandoned \cup
         { r \in R : AfterCancel(task[r]) = "done" /\ Unfinished(r) }

\* a caller awaiting fetch() or wait() is cancelled, and its await cancels the task
CancelRun(r) ==
    /\ task[r] \in LiveTask
    /\ CancelTasks({r})
    /\ UNCHANGED <<durable, up, initialized, pc, todo, draining, closing,
                   crashes, thisProcess>>

\* close() up to its gather
Close ==
    /\ up
    /\ initialized
    /\ ~closing
    /\ closing' = TRUE
    /\ draining' = { r \in Runs : task[r] \in LiveTask }
    /\ CancelTasks({ r \in Runs : task[r] \in LiveTask })
    /\ UNCHANGED <<durable, up, initialized, pc, todo, crashes, thisProcess>>

\* mutant of CloseReturns: close() does not wait for the tasks it cancelled
CloseAtOnce ==
    /\ closing
    /\ closing' = FALSE
    /\ draining' = {}
    /\ initialized' = FALSE
    /\ UNCHANGED <<durable, up, pc, todo, task, crashes, thisProcess, abandoned>>

\* the gather returned; ledger.close()
CloseReturns ==
    /\ closing
    /\ \A r \in draining : task[r] = "done"
    /\ closing' = FALSE
    /\ draining' = {}
    /\ initialized' = FALSE
    /\ UNCHANGED <<durable, up, pc, todo, task, crashes, thisProcess, abandoned>>

----------------------------------------------------------------------------
(* Crash and restart: the durable table survives, nothing else does.       *)

Crash ==
    /\ up
    /\ crashes < MaxCrashes
    /\ crashes' = crashes + 1
    /\ up' = FALSE
    /\ initialized' = FALSE
    /\ pc' = [c \in Callers |-> IF pc[c] = "idle" THEN "idle" ELSE "gone"]
    /\ todo' = [c \in Callers |-> {}]
    /\ task' = [r \in Runs |-> "none"]
    /\ draining' = {}
    /\ closing' = FALSE
    /\ thisProcess' = {}
    /\ abandoned' = {}
    /\ UNCHANGED durable

Restart ==
    /\ ~up
    /\ up' = TRUE
    /\ Goto(Boot, "idle")
    /\ UNCHANGED <<durable, initialized, todo, task, draining, closing, crashes,
                   thisProcess, abandoned>>

----------------------------------------------------------------------------
CallerStep(c) ==
    \/ ScanUnfinished(c)
    \/ \E r \in Runs : RecoverRun(c, r)
    \/ InitializeDone(c)

SubmitStep(r) ==
    \/ CreateRun(r)
    \/ PlanSucceeds(r)
    \/ PlanFails(r)
    \/ RecordPlanningFailure(r)
    \/ LaunchTask(r)

TaskStep(r) ==
    \/ TaskBegins(r)
    \/ CommitRunning(r)
    \/ ResumeExecution(r)
    \/ ExecutionEnds(r)
    \/ ExecutionRaises(r)
    \/ CommitFinished(r)
    \/ ResumeFinished(r)
    \/ RecordTerminalFailure(r)
    \/ TerminalFailureLost(r)
    \/ TaskReturns(r)

Next ==
    \/ CallInitialize
    \/ \E c \in Callers : CallerStep(c)
    \/ \E r \in Runs :
         \/ CallSubmit(r)
         \/ SubmitStep(r)
         \/ SubmitAborted(r)
         \/ TaskStep(r)
         \/ CancelRun(r)
    \/ Close
    \/ CloseReturns
    \/ Crash
    \/ Restart

Spec == Init /\ [][Next]_vars

(* The event loop runs every ready step; a crashed daemon is restarted and *)
(* initializes itself.  Nobody need submit, cancel, close or crash.        *)
Fairness ==
    /\ WF_vars(CallInitialize)
    /\ WF_vars(Restart)
    /\ WF_vars(CloseReturns)
    /\ \A c \in Callers : WF_vars(CallerStep(c))
    /\ \A r \in Runs : WF_vars(SubmitStep(r)) /\ WF_vars(TaskStep(r))

FairSpec == Spec /\ Fairness

----------------------------------------------------------------------------
(* Properties *)

TypeOK ==
    /\ runState \in [Runs -> {"absent", "QUEUED", "RUNNING", "FINISHED"}]
    /\ result \in [Runs -> Results \cup {NoResult}]
    /\ up \in BOOLEAN
    /\ initialized \in BOOLEAN
    /\ pc \in [Callers -> {"idle", "open_ledger", "recover", "create", "plan",
                           "planning_failed", "record_plan", "returned",
                           "aborted", "gone"}]
    /\ todo \in [Callers -> SUBSET Runs]
    /\ task \in [Runs -> LiveTask \cup {"none", "done"}]
    /\ draining \subseteq Runs
    /\ closing \in BOOLEAN
    /\ crashes \in 0..MaxCrashes
    /\ thisProcess \subseteq Runs
    /\ abandoned \subseteq Runs

\* some coroutine of the running process will still take run r further
Owned(r) ==
    \/ pc[r] \in {"plan", "planning_failed", "record_plan"}
    \/ task[r] \in LiveTask

(* No run is stranded: while the process that created it is up, a run that *)
(* is not finished has a coroutine driving it, unless it was abandoned by  *)
(* one of the three routes the code leaves open (submit() aborted after    *)
(* create_run, a task cancelled before its first step, a terminal failure  *)
(* that could not be stored).                                              *)
NoStrandedRun ==
    \A r \in thisProcess : Unfinished(r) => Owned(r) \/ r \in abandoned

(* Recovery is complete: once the gateway serves, every unfinished run in  *)
(* the ledger belongs to the current process; those a crash interrupted,   *)
(* at whatever step, have been finalized.                                  *)
RecoveryComplete ==
    initialized => \A r \in Runs : Unfinished(r) => r \in thisProcess

(* close() leaves nothing running behind it that it saw: when it returns,  *)
(* the runs it cancelled are finished or abandoned.                        *)
CloseDrains ==
    [][ \A r \in draining :
          r \notin draining' /\ up' => ~Unfinished(r) \/ r \in abandoned ]_vars

(* The durable run record implements RunContract: it never leaves FINISHED *)
(* and never replaces a result except by a cancellation that arrived while *)
(* it was stored.                                                          *)
Contract == INSTANCE RunContract WITH
    Runs     <- Runs,
    NoResult <- NoResult,
    Results  <- Results,
    runState <- runState,
    result   <- result
ImplementsRunContract == Contract!Spec

(* _recover_interrupted_runs: "Finalize durable runs whose in-memory task  *)
(* was lost on restart."  Recovery finalizes no run that a coroutine of    *)
(* this process is still driving.                                          *)
RecoversOnlyLostRuns ==
    [][ \A r \in Runs :
          result[r] # "run_interrupted" /\ result'[r] = "run_interrupted"
            => ~Owned(r) ]_vars

(* Every run that was created is eventually finished, across cancellations *)
(* and crashes, or was abandoned.                                          *)
EveryRunSettles ==
    \A r \in Runs : Unfinished(r) ~> (runState[r] = "FINISHED" \/ r \in abandoned)

=============================================================================

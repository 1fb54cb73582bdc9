------------------------- MODULE FetchGatewayProofs -------------------------
(***************************************************************************)
(* Proofs about FetchGateway for any number of runs and crashes: recovery  *)
(* is complete, no run is stranded and close() drains, whoever initializes *)
(* the gateway.  When it serves only after start-up (the daemon, and       *)
(* FetechClient as a context manager), recovery disturbs no live run and   *)
(* the run record implements RunContract.                                  *)
(*                                                                         *)
(* The second half is about the event streams of the gateway's ledger      *)
(* (EventStream), for any number of nodes, events and clients.             *)
(***************************************************************************)
EXTENDS FetchGateway, EventStream, TLAPS

----------------------------------------------------------------------------
(* Types *)

\* Cancelling tasks keeps their types.
LEMMA CancelTypeOK ==
    ASSUME TypeOK, NEW R \in SUBSET Runs, CancelTasks(R)
    PROVE  /\ task' \in [Runs -> LiveTask \cup {"none", "done"}]
           /\ abandoned' \subseteq Runs
<1>1. \A r \in Runs : AfterCancel(task[r]) \in LiveTask \cup {"none", "done"}
  BY DEF AfterCancel, TypeOK, LiveTask
<1> QED
  BY <1>1 DEF CancelTasks, TypeOK

\* initialize() keeps the types.
LEMMA CallerTypeOK ==
    ASSUME TypeOK, NEW c \in Callers, CallInitialize \/ CallerStep(c)
    PROVE  TypeOK'
<1> USE DEF TypeOK, Goto, durable, Callers
<1>1. CASE CallInitialize
  BY <1>1 DEF CallInitialize
<1>2. CASE ScanUnfinished(c)
  BY <1>2 DEF ScanUnfinished
<1>3. ASSUME NEW r \in Runs, RecoverRun(c, r)
      PROVE  TypeOK'
  BY <1>3 DEF RecoverRun, StoreResult, Results
<1>4. CASE InitializeDone(c)
  BY <1>4 DEF InitializeDone
<1> QED
  BY <1>1, <1>2, <1>3, <1>4 DEF CallerStep

\* submit() keeps the types.
LEMMA SubmitTypeOK ==
    ASSUME TypeOK, NEW r \in Runs, CallSubmit(r) \/ SubmitStep(r) \/ SubmitAborted(r)
    PROVE  TypeOK'
<1> USE DEF TypeOK, Goto, durable, Callers
<1>1. CASE CallSubmit(r)
  BY <1>1 DEF CallSubmit
<1>2. CASE CreateRun(r)
  BY <1>2 DEF CreateRun
<1>3. CASE PlanSucceeds(r)
  BY <1>3 DEF PlanSucceeds
<1>4. CASE PlanFails(r)
  BY <1>4 DEF PlanFails
<1>5. CASE RecordPlanningFailure(r)
  BY <1>5 DEF RecordPlanningFailure, StoreResult, Results
<1>6. CASE LaunchTask(r)
  BY <1>6 DEF LaunchTask, TaskTo, LiveTask
<1>7. CASE SubmitAborted(r)
  BY <1>7 DEF SubmitAborted
<1> QED
  BY <1>1, <1>2, <1>3, <1>4, <1>5, <1>6, <1>7 DEF SubmitStep

\* The task of a run keeps the types.
LEMMA TaskTypeOK ==
    ASSUME TypeOK, NEW r \in Runs, TaskStep(r)
    PROVE  TypeOK'
<1> USE DEF TypeOK, TaskTo, LiveTask, durable
<1>1. CASE TaskBegins(r)
  BY <1>1 DEF TaskBegins
<1>2. CASE CommitRunning(r)
  BY <1>2 DEF CommitRunning
<1>3. CASE ResumeExecution(r)
  BY <1>3 DEF ResumeExecution
<1>4. CASE ExecutionEnds(r)
  BY <1>4 DEF ExecutionEnds
<1>5. CASE ExecutionRaises(r)
  BY <1>5 DEF ExecutionRaises
<1>6. CASE CommitFinished(r)
  BY <1>6 DEF CommitFinished, StoreResult, Results
<1>7. CASE ResumeFinished(r)
  BY <1>7 DEF ResumeFinished
<1>8. CASE RecordTerminalFailure(r)
  BY <1>8 DEF RecordTerminalFailure, StoreResult, Results
<1>9. CASE TerminalFailureLost(r)
  BY <1>9 DEF TerminalFailureLost
<1>10. CASE TaskReturns(r)
  BY <1>10 DEF TaskReturns
<1> QED
  BY <1>1, <1>2, <1>3, <1>4, <1>5, <1>6, <1>7, <1>8, <1>9, <1>10 DEF TaskStep

\* Cancellation, close(), a crash and a restart keep the types.
LEMMA OtherTypeOK ==
    ASSUME TypeOK, (\E r \in Runs : CancelRun(r)) \/ Close \/ CloseReturns \/ Crash \/ Restart
    PROVE  TypeOK'
<1> USE GatewayAssumption
<1>1. CASE \E r \in Runs : CancelRun(r)
  BY <1>1, CancelTypeOK DEF CancelRun, TypeOK, durable
<1>2. CASE Close
  BY <1>2, CancelTypeOK DEF Close, TypeOK, durable
<1>3. CASE CloseReturns
  BY <1>3 DEF CloseReturns, TypeOK, durable
<1>4. CASE Crash
  <2>1. pc' \in [Callers -> {"idle", "gone"}]
    BY <1>4 DEF Crash
  <2>2. crashes' \in 0..MaxCrashes
    BY <1>4 DEF Crash, TypeOK
  <2>3. /\ todo' \in [Callers -> SUBSET Runs]
        /\ task' \in [Runs -> LiveTask \cup {"none", "done"}]
    BY <1>4 DEF Crash
  <2> QED
    BY <1>4, <2>1, <2>2, <2>3 DEF Crash, TypeOK, durable
<1>5. CASE Restart
  BY <1>5 DEF Restart, TypeOK, durable, Goto, Callers
<1> QED
  BY <1>1, <1>2, <1>3, <1>4, <1>5

----------------------------------------------------------------------------
(* Whoever initializes the gateway *)

\* What is true of a run of this process.  A second recovery may store a
\* result under a live task, so little is known of the record itself.
DrivenInv ==
    \A r \in Runs :
        /\ task[r] # "none" => pc[r] = "returned" /\ r \in thisProcess
        /\ pc[r] \in {"plan", "planning_failed", "record_plan"} => r \in thisProcess
        /\ r \in thisProcess =>
             pc[r] \in {"plan", "planning_failed", "record_plan", "returned", "aborted"}
        /\ task[r] \in {"committed", "projecting"} => ~Unfinished(r)
        /\ r \in thisProcess /\ Unfinished(r) =>
             \/ pc[r] \in {"plan", "planning_failed", "record_plan"}
             \/ task[r] \in LiveTask
             \/ r \in abandoned

\* Every recovery loop still has to do all runs of earlier processes.
ScannedInv ==
    \A c \in Callers : pc[c] = "recover" =>
        \A r \in Runs : Unfinished(r) /\ r \notin thisProcess => r \in todo[c]

ServingInv ==
    /\ TypeOK /\ DrivenInv /\ ScannedInv /\ RecoveryComplete
    /\ ~closing => draining = {}

\* initialize(), by start-up or by a first caller of submit().
LEMMA CallerServingInv ==
    ASSUME ServingInv, NEW c \in Callers, CallInitialize \/ CallerStep(c)
    PROVE  ServingInv'
<1> USE DEF ServingInv
<1>0. TypeOK'
  BY CallerTypeOK
<1> USE GatewayAssumption DEF TypeOK, DrivenInv, ScannedInv, RecoveryComplete, Unfinished, Goto,
                              durable, Callers
<1>1. CASE CallInitialize
  BY <1>0, <1>1 DEF CallInitialize
<1>2. CASE ScanUnfinished(c)
  BY <1>0, <1>2 DEF ScanUnfinished
<1>3. ASSUME NEW r \in Runs, RecoverRun(c, r)
      PROVE  ServingInv'
  BY <1>0, <1>3 DEF RecoverRun, StoreResult
<1>4. CASE InitializeDone(c)
  BY <1>0, <1>4 DEF InitializeDone
<1> QED
  BY <1>1, <1>2, <1>3, <1>4 DEF CallerStep

\* submit(): a run it created has a driver until its task is launched.
LEMMA SubmitServingInv ==
    ASSUME ServingInv, NEW r \in Runs, CallSubmit(r) \/ SubmitStep(r) \/ SubmitAborted(r)
    PROVE  ServingInv'
<1> USE DEF ServingInv
<1>0. TypeOK'
  BY SubmitTypeOK
<1> USE GatewayAssumption DEF TypeOK, DrivenInv, ScannedInv, RecoveryComplete, Unfinished, Goto,
                              durable, Callers
<1>1. CASE CallSubmit(r)
  BY <1>0, <1>1 DEF CallSubmit
<1>2. CASE CreateRun(r)
  BY <1>0, <1>2 DEF CreateRun
<1>3. CASE PlanSucceeds(r)
  BY <1>0, <1>3 DEF PlanSucceeds
<1>4. CASE PlanFails(r)
  BY <1>0, <1>4 DEF PlanFails
<1>5. CASE RecordPlanningFailure(r)
  BY <1>0, <1>5 DEF RecordPlanningFailure, StoreResult
<1>6. CASE LaunchTask(r)
  BY <1>0, <1>6 DEF LaunchTask, TaskTo, LiveTask
<1>7. CASE SubmitAborted(r)
  BY <1>0, <1>7 DEF SubmitAborted
<1> QED
  BY <1>1, <1>2, <1>3, <1>4, <1>5, <1>6, <1>7 DEF SubmitStep

\* The task of a run ends with its record finished or the run abandoned.
LEMMA TaskServingInv ==
    ASSUME ServingInv, NEW r \in Runs, TaskStep(r)
    PROVE  ServingInv'
<1> USE DEF ServingInv
<1>0. TypeOK'
  BY TaskTypeOK
<1> USE GatewayAssumption DEF TypeOK, DrivenInv, ScannedInv, RecoveryComplete, Unfinished, TaskTo,
                              durable, LiveTask
<1>1. CASE TaskBegins(r)
  BY <1>0, <1>1 DEF TaskBegins
<1>2. CASE CommitRunning(r)
  BY <1>0, <1>2 DEF CommitRunning
<1>3. CASE ResumeExecution(r)
  BY <1>0, <1>3 DEF ResumeExecution
<1>4. CASE ExecutionEnds(r)
  BY <1>0, <1>4 DEF ExecutionEnds
<1>5. CASE ExecutionRaises(r)
  BY <1>0, <1>5 DEF ExecutionRaises
<1>6. CASE CommitFinished(r)
  BY <1>0, <1>6 DEF CommitFinished, StoreResult
<1>7. CASE ResumeFinished(r)
  BY <1>0, <1>7 DEF ResumeFinished
<1>8. CASE RecordTerminalFailure(r)
  BY <1>0, <1>8 DEF RecordTerminalFailure, StoreResult
<1>9. CASE TerminalFailureLost(r)
  BY <1>0, <1>9 DEF TerminalFailureLost
<1>10. CASE TaskReturns(r)
  BY <1>0, <1>10 DEF TaskReturns
<1> QED
  BY <1>1, <1>2, <1>3, <1>4, <1>5, <1>6, <1>7, <1>8, <1>9, <1>10 DEF TaskStep

\* A cancelled task goes on to store its cancellation, or its run is abandoned.
LEMMA CancelDrivenInv ==
    ASSUME ServingInv, NEW R \in SUBSET Runs, CancelTasks(R),
           \A r \in R : task[r] \in LiveTask,
           UNCHANGED <<durable, pc, thisProcess>>
    PROVE  DrivenInv'
<1> USE DEF ServingInv
<1> SUFFICES ASSUME NEW r \in Runs
             PROVE  DrivenInv!(r)'
  BY DEF DrivenInv
<1>1. CASE r \in R
  BY <1>1 DEF CancelTasks, AfterCancel, LiveTask, TypeOK, DrivenInv, Unfinished, durable
<1>2. CASE r \notin R
  BY <1>2 DEF CancelTasks, TypeOK, DrivenInv, Unfinished, durable
<1> QED
  BY <1>1, <1>2

\* Cancellation, close(), a crash and a restart.
LEMMA OtherServingInv ==
    ASSUME ServingInv, (\E r \in Runs : CancelRun(r)) \/ Close \/ CloseReturns \/ Crash \/ Restart
    PROVE  ServingInv'
<1> USE DEF ServingInv
<1>0. TypeOK'
  BY OtherTypeOK
<1> USE GatewayAssumption DEF ScannedInv, RecoveryComplete, Unfinished, durable
<1>1. ASSUME NEW r \in Runs, CancelRun(r)
      PROVE  ServingInv'
  <2>1. DrivenInv'
    BY <1>1, CancelDrivenInv DEF CancelRun
  <2> QED
    BY <1>0, <1>1, <2>1 DEF CancelRun
<1>2. CASE Close
  <2>1. DrivenInv'
    BY <1>2, CancelDrivenInv DEF Close
  <2> QED
    BY <1>0, <1>2, <2>1 DEF Close
<1>3. CASE CloseReturns
  BY <1>0, <1>3 DEF CloseReturns, DrivenInv
<1>4. CASE Crash
  BY <1>0, <1>4 DEF Crash, DrivenInv, Callers
<1>5. CASE Restart
  BY <1>0, <1>5 DEF Restart, Goto, Callers, DrivenInv, TypeOK
<1> QED
  BY <1>1, <1>2, <1>3, <1>4, <1>5

\* The initial state is well-typed.
LEMMA InitTypeOK == Init => TypeOK
<1> SUFFICES ASSUME Init PROVE TypeOK
  OBVIOUS
<1>1. 0 \in 0..MaxCrashes
  BY GatewayAssumption
<1>2. /\ runState \in [Runs -> {"absent", "QUEUED", "RUNNING", "FINISHED"}]
      /\ result \in [Runs -> Results \cup {NoResult}]
      /\ task \in [Runs -> LiveTask \cup {"none", "done"}]
      /\ todo \in [Callers -> SUBSET Runs]
  BY DEF Init
<1> QED
  BY <1>1, <1>2 DEF Init, TypeOK

\* ServingInv is inductive, with a first caller initializing or start-up.
THEOREM ServingInvariance == Spec => []ServingInv
<1>1. Init => ServingInv
  <2> SUFFICES ASSUME Init PROVE ServingInv
    OBVIOUS
  <2>1. TypeOK
    BY InitTypeOK
  <2>2. \A c \in Callers : pc[c] = "idle"
    BY DEF Init
  <2>3. \A r \in Runs : pc[r] = "idle" /\ task[r] = "none" /\ r \notin thisProcess
    BY <2>2 DEF Init, Callers
  <2>4. ~initialized /\ draining = {}
    BY DEF Init
  <2> QED
    BY <2>1, <2>2, <2>3, <2>4 DEF ServingInv, DrivenInv, ScannedInv, RecoveryComplete
<1>2. ServingInv /\ [Next]_vars => ServingInv'
  <2> SUFFICES ASSUME ServingInv, [Next]_vars PROVE ServingInv'
    OBVIOUS
  <2>1. CASE UNCHANGED vars
    BY <2>1 DEF vars, ServingInv, TypeOK, DrivenInv, ScannedInv, RecoveryComplete, Unfinished
  <2>2. Boot \in Callers
    BY DEF Callers
  <2> QED
    BY <2>1, <2>2, CallerServingInv, SubmitServingInv, TaskServingInv, OtherServingInv
       DEF Next
<1> QED
  BY <1>1, <1>2, PTL DEF Spec

(* Type correctness for any number of runs and crashes.                    *)
THEOREM TypeCorrect == Spec => []TypeOK
<1>1. ServingInv => TypeOK
  BY DEF ServingInv
<1> QED
  BY <1>1, ServingInvariance, PTL

(* No run is stranded: while its process is up, an unfinished run has a    *)
(* coroutine driving it or was abandoned by a route the code leaves open.  *)
THEOREM NoStrandedRunCorrect == Spec => []NoStrandedRun
<1>1. ServingInv => NoStrandedRun
  BY DEF ServingInv, TypeOK, DrivenInv, NoStrandedRun, Owned
<1> QED
  BY <1>1, ServingInvariance, PTL

(* Recovery is complete: once the gateway serves, every unfinished run in  *)
(* the ledger was created by the current process.                          *)
THEOREM RecoveryCorrect == Spec => []RecoveryComplete
<1>1. ServingInv => RecoveryComplete
  BY DEF ServingInv
<1> QED
  BY <1>1, ServingInvariance, PTL

\* The only steps that take a run out of draining are the last one of
\* close() and a crash.
LEMMA StepDrains ==
    ASSUME ServingInv, [Next]_vars, NEW r \in draining, r \notin draining', up'
    PROVE  ~Unfinished(r) \/ r \in abandoned
<1>1. CloseReturns
  <2>1. draining' # draining /\ draining # {}
    OBVIOUS
  <2>2. ~Close
    BY <2>1 DEF ServingInv, Close
  <2>3. ~Crash
    BY DEF Crash
  <2> QED
    BY <2>1, <2>2, <2>3
       DEF Next, vars, CallInitialize, CallerStep, ScanUnfinished, RecoverRun, InitializeDone,
           CallSubmit, SubmitStep, CreateRun, PlanSucceeds, PlanFails, RecordPlanningFailure,
           LaunchTask, SubmitAborted, TaskStep, TaskBegins, CommitRunning, ResumeExecution,
           ExecutionEnds, ExecutionRaises, CommitFinished, ResumeFinished,
           RecordTerminalFailure, TerminalFailureLost, TaskReturns, CancelRun, Restart
<1>2. r \in Runs /\ task[r] = "done"
  BY <1>1 DEF CloseReturns, ServingInv, TypeOK
<1> QED
  BY <1>2 DEF ServingInv, DrivenInv, LiveTask

(* close() drains: when it returns, every run whose task it cancelled is   *)
(* finished or abandoned.                                                  *)
THEOREM CloseDrainsCorrect == Spec => CloseDrains
<1>1. ServingInv /\ [Next]_vars =>
        [ \A r \in draining :
            r \notin draining' /\ up' => ~Unfinished(r) \/ r \in abandoned ]_vars
  BY StepDrains
<1> QED
  BY <1>1, ServingInvariance, PTL DEF Spec, CloseDrains

----------------------------------------------------------------------------
(* When nothing is served before start-up recovery *)

\* Start-up recovery has not finished, or the process is down.
Recovering == ~up \/ pc[Boot] \in {"idle", "open_ledger", "recover"}

\* Until recovery is done nothing of this process is running, and what the
\* recovery loop still has to do is every unfinished run there is.
StartInv ==
    /\ pc[Boot] \in {"idle", "open_ledger", "recover", "returned", "gone"}
    /\ up => pc[Boot] # "gone"
    /\ ~up => pc[Boot] \in {"idle", "gone"}
    /\ Recovering => /\ ~initialized /\ ~closing
                     /\ thisProcess = {}
                     /\ \A r \in Runs : pc[r] \in {"idle", "gone"} /\ task[r] = "none"
    /\ pc[Boot] = "recover" => todo[Boot] = { r \in Runs : Unfinished(r) }

\* Once it is done, an unfinished run was created by this process.
RecoveredInv == ~Recovering => \A r \in Runs : Unfinished(r) => r \in thisProcess

\* What the caller of submit() knows of its run.
SubmitInv ==
    \A r \in Runs :
        /\ pc[r] \notin {"open_ledger", "recover"}
        /\ pc[r] \in {"idle", "create"} => runState[r] = "absent"
        /\ pc[r] \in {"plan", "planning_failed", "record_plan"} => runState[r] = "QUEUED"
        /\ pc[r] = "aborted" => (Unfinished(r) => r \in abandoned)
        /\ pc[r] = "returned" /\ task[r] = "none" => runState[r] = "FINISHED"
        /\ task[r] # "none" => pc[r] = "returned"

\* What the task of a run knows of its record.
TaskInv ==
    \A r \in Runs :
        /\ task[r] \in {"created", "starting"} => runState[r] = "QUEUED"
        /\ task[r] \in {"started", "executing", "finishing"} => runState[r] = "RUNNING"
        /\ task[r] = "erred" => Unfinished(r)
        /\ task[r] = "committed" => runState[r] = "FINISHED" /\ result[r] = "executed"
        /\ task[r] = "cancelled" =>
             Unfinished(r) \/ (runState[r] = "FINISHED" /\ result[r] = "executed")
        /\ task[r] = "projecting" => runState[r] = "FINISHED"
        /\ task[r] = "done" => (Unfinished(r) => r \in abandoned)

\* A run of this process was created, and is not one a crash interrupted.
ProcessInv ==
    /\ \A r \in thisProcess : pc[r] \notin {"idle", "create", "gone"}
    /\ ~closing => draining = {}

GatewayInv == TypeOK /\ StartInv /\ RecoveredInv /\ SubmitInv /\ TaskInv /\ ProcessInv

\* initialize(): recovery takes exactly the runs nobody drives.
LEMMA CallerGatewayInv ==
    ASSUME GatewayInv, NEW c \in Callers, CallInitialize \/ CallerStep(c)
    PROVE  GatewayInv'
<1> USE DEF GatewayInv
<1>0. TypeOK'
  BY CallerTypeOK
<1> USE GatewayAssumption DEF TypeOK, StartInv, RecoveredInv, SubmitInv, TaskInv, ProcessInv,
            Recovering, Unfinished, Goto, durable, Callers
<1>1. CASE CallInitialize
  BY <1>0, <1>1 DEF CallInitialize
<1>2. CASE ScanUnfinished(c)
  BY <1>0, <1>2 DEF ScanUnfinished
<1>3. ASSUME NEW r \in Runs, RecoverRun(c, r)
      PROVE  GatewayInv'
  BY <1>0, <1>3 DEF RecoverRun, StoreResult
<1>4. CASE InitializeDone(c)
  BY <1>0, <1>4 DEF InitializeDone
<1> QED
  BY <1>1, <1>2, <1>3, <1>4 DEF CallerStep

\* submit(): a run is created after recovery, and has a driver until its task
\* is launched or it is abandoned.
LEMMA SubmitGatewayInv ==
    ASSUME ~ServeBeforeInit, GatewayInv, NEW r \in Runs,
           CallSubmit(r) \/ SubmitStep(r) \/ SubmitAborted(r)
    PROVE  GatewayInv'
<1> USE DEF GatewayInv
<1>0. TypeOK'
  BY SubmitTypeOK
<1> USE GatewayAssumption DEF TypeOK, StartInv, RecoveredInv, SubmitInv, TaskInv, ProcessInv,
            Recovering, Unfinished, Goto, durable, Callers
<1>1. CASE CallSubmit(r)
  BY <1>0, <1>1 DEF CallSubmit
<1>2. CASE CreateRun(r)
  BY <1>0, <1>2 DEF CreateRun
<1>3. CASE PlanSucceeds(r)
  BY <1>0, <1>3 DEF PlanSucceeds
<1>4. CASE PlanFails(r)
  BY <1>0, <1>4 DEF PlanFails
<1>5. CASE RecordPlanningFailure(r)
  BY <1>0, <1>5 DEF RecordPlanningFailure, StoreResult
<1>6. CASE LaunchTask(r)
  BY <1>0, <1>6 DEF LaunchTask, TaskTo
<1>7. CASE SubmitAborted(r)
  BY <1>0, <1>7 DEF SubmitAborted
<1> QED
  BY <1>1, <1>2, <1>3, <1>4, <1>5, <1>6, <1>7 DEF SubmitStep

\* The task of a run keeps what it knows of its record true.
LEMMA TaskGatewayInv ==
    ASSUME GatewayInv, NEW r \in Runs, TaskStep(r)
    PROVE  GatewayInv'
<1> USE DEF GatewayInv
<1>0. TypeOK'
  BY TaskTypeOK
<1> USE GatewayAssumption DEF TypeOK, StartInv, RecoveredInv, SubmitInv, TaskInv, ProcessInv,
            Recovering, Unfinished, TaskTo, durable
<1>1. CASE TaskBegins(r)
  BY <1>0, <1>1 DEF TaskBegins
<1>2. CASE CommitRunning(r)
  BY <1>0, <1>2 DEF CommitRunning
<1>3. CASE ResumeExecution(r)
  BY <1>0, <1>3 DEF ResumeExecution
<1>4. CASE ExecutionEnds(r)
  BY <1>0, <1>4 DEF ExecutionEnds
<1>5. CASE ExecutionRaises(r)
  BY <1>0, <1>5 DEF ExecutionRaises
<1>6. CASE CommitFinished(r)
  BY <1>0, <1>6 DEF CommitFinished, StoreResult
<1>7. CASE ResumeFinished(r)
  BY <1>0, <1>7 DEF ResumeFinished
<1>8. CASE RecordTerminalFailure(r)
  BY <1>0, <1>8 DEF RecordTerminalFailure, StoreResult
<1>9. CASE TerminalFailureLost(r)
  BY <1>0, <1>9 DEF TerminalFailureLost
<1>10. CASE TaskReturns(r)
  BY <1>0, <1>10 DEF TaskReturns
<1> QED
  BY <1>1, <1>2, <1>3, <1>4, <1>5, <1>6, <1>7, <1>8, <1>9, <1>10 DEF TaskStep

\* A cancelled task stores its cancellation, or its run is abandoned.
LEMMA CancelTaskInv ==
    ASSUME GatewayInv, NEW R \in SUBSET Runs, CancelTasks(R),
           \A r \in R : task[r] \in LiveTask,
           UNCHANGED <<durable, pc>>
    PROVE  TaskInv' /\ SubmitInv'
<1> USE DEF GatewayInv
<1> SUFFICES ASSUME NEW r \in Runs
             PROVE  TaskInv!(r)' /\ SubmitInv!(r)'
  BY DEF TaskInv, SubmitInv
<1>1. CASE r \in R
  BY <1>1 DEF CancelTasks, AfterCancel, LiveTask, TypeOK, TaskInv, SubmitInv, Unfinished, durable
<1>2. CASE r \notin R
  BY <1>2 DEF CancelTasks, TypeOK, TaskInv, SubmitInv, Unfinished, durable
<1> QED
  BY <1>1, <1>2

\* Cancellation, close(), a crash and a restart.
LEMMA OtherGatewayInv ==
    ASSUME GatewayInv, (\E r \in Runs : CancelRun(r)) \/ Close \/ CloseReturns \/ Crash \/ Restart
    PROVE  GatewayInv'
<1> USE DEF GatewayInv
<1>0. TypeOK'
  BY OtherTypeOK
<1> USE GatewayAssumption DEF TypeOK, StartInv, RecoveredInv, ProcessInv, Recovering, Unfinished, durable
<1>1. ASSUME NEW r \in Runs, CancelRun(r)
      PROVE  GatewayInv'
  <2>1. TaskInv' /\ SubmitInv'
    BY <1>1, CancelTaskInv DEF CancelRun
  <2>2. ~Recovering
    BY <1>1 DEF CancelRun, LiveTask
  <2> QED
    BY <1>0, <1>1, <2>1, <2>2 DEF CancelRun
<1>2. CASE Close
  <2>1. TaskInv' /\ SubmitInv'
    BY <1>2, CancelTaskInv DEF Close
  <2>2. ~Recovering
    BY <1>2 DEF Close
  <2> QED
    BY <1>0, <1>2, <2>1, <2>2 DEF Close
<1>3. CASE CloseReturns
  BY <1>0, <1>3 DEF CloseReturns, TaskInv, SubmitInv
<1>4. CASE Crash
  BY <1>0, <1>4 DEF Crash, TaskInv, SubmitInv, Callers
<1>5. CASE Restart
  BY <1>0, <1>5 DEF Restart, Goto, Callers, TaskInv, SubmitInv
<1> QED
  BY <1>1, <1>2, <1>3, <1>4, <1>5

\* GatewayInv is inductive when nothing is served before start-up recovery.
THEOREM GatewayInvariance ==
    ASSUME ~ServeBeforeInit
    PROVE  Spec => []GatewayInv
<1>1. Init => GatewayInv
  <2> SUFFICES ASSUME Init PROVE GatewayInv
    OBVIOUS
  <2>1. TypeOK
    BY InitTypeOK
  <2>2. pc[Boot] = "idle" /\ \A r \in Runs : pc[r] = "idle" /\ task[r] = "none"
    BY DEF Init, Callers
  <2>3. up /\ ~initialized /\ ~closing /\ thisProcess = {} /\ draining = {}
    BY DEF Init
  <2>4. RecoveredInv /\ ProcessInv
    BY <2>2, <2>3 DEF RecoveredInv, Recovering, ProcessInv
  <2>5. SubmitInv /\ TaskInv
    BY <2>2 DEF Init, SubmitInv, TaskInv
  <2>6. StartInv
    BY <2>2, <2>3 DEF StartInv
  <2> QED
    BY <2>1, <2>4, <2>5, <2>6 DEF GatewayInv
<1>2. GatewayInv /\ [Next]_vars => GatewayInv'
  <2> SUFFICES ASSUME GatewayInv, [Next]_vars PROVE GatewayInv'
    OBVIOUS
  <2>1. CASE UNCHANGED vars
    BY <2>1 DEF vars, GatewayInv, TypeOK, StartInv, RecoveredInv, SubmitInv, TaskInv,
                ProcessInv, Recovering, Unfinished
  <2>2. Boot \in Callers
    BY DEF Callers
  <2> QED
    BY <2>1, <2>2, CallerGatewayInv, SubmitGatewayInv, TaskGatewayInv, OtherGatewayInv
       DEF Next
<1> QED
  BY <1>1, <1>2, PTL DEF Spec

----------------------------------------------------------------------------
(* An action property *)

\* Only recovery stores that a run was interrupted, and it runs before this
\* process has created a run.
LEMMA StepRecoversLost ==
    ASSUME GatewayInv, [Next]_vars, NEW r \in Runs,
           result[r] # "run_interrupted", result'[r] = "run_interrupted"
    PROVE  ~Owned(r)
<1>1. \E c \in Callers : \E s \in Runs : RecoverRun(c, s)
  <2>1. result' # result
    OBVIOUS
  <2>2. ASSUME NEW s \in Runs, NEW outcome, StoreResult(s, outcome),
               outcome # "run_interrupted"
        PROVE  FALSE
    BY <2>2 DEF StoreResult, GatewayInv, TypeOK
  <2>3. ~ \E s \in Runs : RecordPlanningFailure(s) \/ CommitFinished(s) \/ RecordTerminalFailure(s)
    BY <2>2 DEF RecordPlanningFailure, CommitFinished, RecordTerminalFailure
  <2> QED
    BY <2>1, <2>3
       DEF Next, vars, durable, CallInitialize, CallerStep, ScanUnfinished, InitializeDone,
           CallSubmit, SubmitStep, CreateRun, PlanSucceeds, PlanFails, LaunchTask,
           SubmitAborted, TaskStep, TaskBegins, CommitRunning, ResumeExecution, ExecutionEnds,
           ExecutionRaises, ResumeFinished, TerminalFailureLost, TaskReturns, CancelRun, Close,
           CloseReturns, Crash, Restart
<1>2. pc[Boot] = "recover"
  BY <1>1 DEF RecoverRun, GatewayInv, SubmitInv, Callers
<1> QED
  BY <1>2 DEF GatewayInv, StartInv, Recovering, Owned, LiveTask

(* Recovery finalizes no run that a coroutine of this process is driving.  *)
THEOREM RecoversOnlyLostCorrect ==
    ASSUME ~ServeBeforeInit
    PROVE  Spec => RecoversOnlyLostRuns
<1>1. GatewayInv /\ [Next]_vars =>
        [ \A r \in Runs :
            result[r] # "run_interrupted" /\ result'[r] = "run_interrupted"
              => ~Owned(r) ]_vars
  BY StepRecoversLost
<1> QED
  BY <1>1, GatewayInvariance, PTL DEF Spec, RecoversOnlyLostRuns

----------------------------------------------------------------------------
(* Refinement *)

\* A ledger write is a step of the contract, every other step leaves the
\* record alone.
LEMMA StepRefines ==
    ASSUME GatewayInv, [Next]_vars
    PROVE  [Contract!Next]_(Contract!contract)
<1> USE DEF GatewayInv
<1>1. CASE UNCHANGED <<runState, result>>
  BY <1>1 DEF Contract!contract
<1>2. ASSUME NEW r \in Runs, CreateRun(r)
      PROVE  Contract!Next
  <2>1. Contract!Queue(r)
    BY <1>2 DEF CreateRun, SubmitInv, Contract!Queue
  <2> QED
    BY <2>1 DEF Contract!Next
<1>3. ASSUME NEW r \in Runs, CommitRunning(r)
      PROVE  Contract!Next
  <2>1. Contract!Start(r)
    BY <1>3 DEF CommitRunning, TaskInv, Contract!Start
  <2> QED
    BY <2>1 DEF Contract!Next
<1>4. ASSUME NEW r \in Runs, NEW outcome \in Results, StoreResult(r, outcome), Unfinished(r)
      PROVE  Contract!Next
  <2>1. Contract!Finish(r, outcome)
    BY <1>4 DEF StoreResult, Unfinished, Contract!Finish
  <2> QED
    BY <2>1 DEF Contract!Next
<1>5. ASSUME NEW r \in Runs, StoreResult(r, "run_cancelled"), runState[r] = "FINISHED",
             result[r] = "executed"
      PROVE  Contract!Next
  <2>1. Contract!Retract(r)
    BY <1>5 DEF StoreResult, TypeOK, Contract!Retract
  <2> QED
    BY <2>1 DEF Contract!Next
<1>6. ASSUME NEW c \in Callers, NEW r \in Runs, RecoverRun(c, r)
      PROVE  Contract!Next
  <2>1. Unfinished(r)
    BY <1>6 DEF RecoverRun, SubmitInv, StartInv, Callers
  <2> QED
    BY <1>4, <1>6, <2>1 DEF RecoverRun, Results
<1>7. ASSUME NEW r \in Runs, RecordPlanningFailure(r)
      PROVE  Contract!Next
  BY <1>4, <1>7 DEF RecordPlanningFailure, SubmitInv, Unfinished, Results
<1>8. ASSUME NEW r \in Runs, CommitFinished(r)
      PROVE  Contract!Next
  BY <1>4, <1>8 DEF CommitFinished, TaskInv, Unfinished, Results
<1>9. ASSUME NEW r \in Runs, RecordTerminalFailure(r)
      PROVE  Contract!Next
  BY <1>4, <1>5, <1>9 DEF RecordTerminalFailure, TaskInv, Results
<1> QED
  BY <1>1, <1>2, <1>3, <1>6, <1>7, <1>8, <1>9
     DEF Next, vars, durable, CallInitialize, CallerStep, ScanUnfinished, InitializeDone,
         CallSubmit, SubmitStep, PlanSucceeds, PlanFails, LaunchTask, SubmitAborted, TaskStep,
         TaskBegins, ResumeExecution, ExecutionEnds, ExecutionRaises, ResumeFinished,
         TerminalFailureLost, TaskReturns, CancelRun, Close, CloseReturns, Crash, Restart

(* Refinement: the durable record of a run, written by submit(), by its    *)
(* task, by its cancellation and by recovery after a crash, implements     *)
(* RunContract.                                                            *)
THEOREM ContractCorrect ==
    ASSUME ~ServeBeforeInit
    PROVE  Spec => ImplementsRunContract
<1>1. Init => Contract!Init
  BY DEF Init, Contract!Init
<1>2. GatewayInv /\ [Next]_vars => [Contract!Next]_(Contract!contract)
  BY StepRefines
<1> QED
  BY <1>1, <1>2, GatewayInvariance, PTL DEF Spec, ImplementsRunContract, Contract!Spec

----------------------------------------------------------------------------
(* The event streams of a run (EventStream): the ledger's rows, the queues *)
(* of its subscribers and what their clients have received.                *)

\* No event of q comes before one of its causes.
Ordered(q) ==
    \A i, j \in DOMAIN q : Precedes(q[i], q[j]) => i < j

\* How far the run is: the nodes emit between plan.started and run.finished,
\* and run.failed comes when the execution has raised.
EmitterInv ==
    /\ \A e \in BranchEvents :
          /\ status[e] # "none" => status[Root] = "published"
          /\ status[e] # "none" /\ e # First(e.by) => status[First(e.by)] = "published"
    /\ status[Final] # "none" =>
          /\ status[Root] = "published" /\ ended = Branches
          /\ \A e \in BranchEvents : status[e] \notin {"committed", "adrift"}
    /\ \A e \in Events : status[e] = "adrift" => e \in BranchEvents /\ job # "executing"
    /\ job = "executing" => status[Failed] = "none" /\ (run = "FINISHED" => finishing)
    /\ finishing => \/ job = "executing"
                    \/ job = "failing" /\ status[Failed] # "none"
    /\ finishing => run = "FINISHED"
    /\ \A e \in settled : status[e] = "published"

\* A run that was stored as finished and did not raise has nothing under way.
CleanInv ==
    run = "FINISHED" /\ job \in {"executing", "over"} /\ status[Failed] = "none" =>
        /\ status[Final] = "published"
        /\ \A e \in Events : /\ status[e] \in {"none", "published", "silent"}
                             /\ status[e] = "published" => e \in settled

\* The table holds what was committed, once and in causal order.
RowsInv ==
    /\ ToSet(rows) = { e \in Events : status[e] \notin {"none", "adrift"} }
    /\ IsInjective(rows)
    /\ Ordered(rows)

Listening == {"reading", "replaying", "following", "draining"}

\* What a stream has yielded or will yield from the table.
Replayed(s) ==
    IF place[s] = "reading" THEN ToSet(rows)
    ELSE ToSet(out[s]) \cup ToSet(replay[s])

\* What a subscriber's queue holds: rows of the table and the end, which
\* nothing that was published before FINISHED was stored comes after.
BufferInv(s) ==
    /\ ToSet(queue[s]) \subseteq ToSet(rows) \cup {End}
    /\ \A k \in DOMAIN queue[s] : queue[s][k] = End =>
          /\ run = "FINISHED"
          /\ \A j \in DOMAIN queue[s] : j > k => queue[s][j] \notin settled
    /\ place[s] = "closed" => queue[s] = <<>>

\* Between them, the replay and the queue hold every published event; the
\* queue is in causal order, and what it holds comes after none of its
\* effects in the replay, unless the replay has it too.
CoverInv(s) ==
    place[s] \in Listening =>
        /\ \A e \in Events : status[e] = "published" =>
              e \in Replayed(s) \cup ToSet(queue[s])
        /\ Ordered(queue[s])
        /\ \A e \in ToSet(queue[s]), f \in Replayed(s) :
              Precedes(e, f) => e \in Replayed(s)

\* Where the generator is in its replay of the rows it read.
ReplayInv(s) ==
    /\ place[s] \in {"closed", "reading"} => out[s] = <<>>
    /\ place[s] \notin {"replaying", "disconnected"} => replay[s] = <<>>
    /\ place[s] = "replaying" =>
          /\ Len(out[s]) + Len(replay[s]) = read[s] /\ read[s] <= Len(rows)
          /\ \A i \in 1..Len(out[s]) : out[s][i] = rows[i]
          /\ \A i \in 1..Len(replay[s]) : replay[s][i] = rows[Len(out[s]) + i]
    /\ place[s] \in {"following", "draining", "returned"} =>
          /\ read[s] <= Len(rows)
          /\ \A i \in 1..read[s] : rows[i] \in ToSet(out[s])

\* What the client has received.
OutputInv(s) ==
    /\ s \in subscribed <=> place[s] \in Listening
    /\ seen[s] = ToSet(out[s])
    /\ ToSet(out[s]) \subseteq ToSet(rows)
    /\ IsInjective(out[s]) /\ Ordered(out[s])
    /\ place[s] \in {"draining", "returned"} => run = "FINISHED"
    /\ place[s] = "returned" => settled \subseteq ToSet(out[s])

OneStream(s) == BufferInv(s) /\ CoverInv(s) /\ ReplayInv(s) /\ OutputInv(s)

StreamInv ==
    /\ StreamTypeOK /\ EmitterInv /\ CleanInv /\ RowsInv
    /\ \A s \in Streams : OneStream(s)

----------------------------------------------------------------------------
\* What Append and Tail do to a sequence and to the set of its elements.
LEMMA AppendElements ==
    ASSUME NEW S, NEW s \in Seq(S), NEW e \in S
    PROVE  /\ Append(s, e) \in Seq(S)
           /\ Len(Append(s, e)) = Len(s) + 1
           /\ DOMAIN Append(s, e) = 1..(Len(s) + 1)
           /\ Append(s, e)[Len(s) + 1] = e
           /\ \A i \in 1..Len(s) : Append(s, e)[i] = s[i]
           /\ ToSet(Append(s, e)) = ToSet(s) \cup {e}
<1>1. /\ Append(s, e) \in Seq(S)
      /\ Len(Append(s, e)) = Len(s) + 1
      /\ DOMAIN Append(s, e) = 1..(Len(s) + 1)
      /\ Append(s, e)[Len(s) + 1] = e
      /\ \A i \in 1..Len(s) : Append(s, e)[i] = s[i]
      /\ DOMAIN s = 1..Len(s) /\ Len(s) \in Nat
  OBVIOUS
<1>2. ASSUME NEW x \in ToSet(Append(s, e))
      PROVE  x \in ToSet(s) \cup {e}
  <2>1. PICK i \in 1..(Len(s) + 1) : x = Append(s, e)[i]
    BY <1>1, <1>2 DEF ToSet
  <2>2. CASE i = Len(s) + 1
    BY <1>1, <2>1, <2>2
  <2>3. CASE i # Len(s) + 1
    <3>1. i \in 1..Len(s)
      BY <1>1, <2>3
    <3> QED
      BY <1>1, <2>1, <3>1 DEF ToSet
  <2> QED
    BY <2>2, <2>3
<1>3. ASSUME NEW x \in ToSet(s) \cup {e}
      PROVE  x \in ToSet(Append(s, e))
  <2>1. PICK i \in 1..(Len(s) + 1) : x = Append(s, e)[i]
    <3>1. CASE x = e
      <4>1. Len(s) + 1 \in 1..(Len(s) + 1)
        BY <1>1
      <4> QED
        BY <1>1, <3>1, <4>1
    <3>2. CASE x # e
      <4>1. PICK i \in 1..Len(s) : x = s[i]
        BY <1>1, <1>3, <3>2 DEF ToSet
      <4>2. i \in 1..(Len(s) + 1)
        BY <1>1
      <4> QED
        BY <1>1, <4>1, <4>2
    <3> QED
      BY <3>1, <3>2
  <2> QED
    BY <1>1, <2>1 DEF ToSet
<1> QED
  BY <1>1, <1>2, <1>3

\* What Head and Tail take a queue apart into.
LEMMA TailElements ==
    ASSUME NEW S, NEW s \in Seq(S), s # <<>>
    PROVE  /\ Head(s) \in S /\ Head(s) = s[1]
           /\ Tail(s) \in Seq(S)
           /\ Len(Tail(s)) = Len(s) - 1
           /\ DOMAIN Tail(s) = 1..(Len(s) - 1)
           /\ \A i \in 1..(Len(s) - 1) : Tail(s)[i] = s[i + 1]
           /\ ToSet(s) = ToSet(Tail(s)) \cup {Head(s)}
<1>1. /\ Head(s) \in S /\ Head(s) = s[1]
      /\ Tail(s) \in Seq(S)
      /\ Len(Tail(s)) = Len(s) - 1
      /\ DOMAIN Tail(s) = 1..(Len(s) - 1)
      /\ \A i \in 1..(Len(s) - 1) : Tail(s)[i] = s[i + 1]
      /\ DOMAIN s = 1..Len(s) /\ Len(s) \in Nat /\ Len(s) >= 1
  OBVIOUS
<1>2. ASSUME NEW x \in ToSet(s)
      PROVE  x \in ToSet(Tail(s)) \cup {Head(s)}
  <2>1. PICK i \in 1..Len(s) : x = s[i]
    BY <1>1, <1>2 DEF ToSet
  <2>2. CASE i # 1
    <3>1. i - 1 \in 1..(Len(s) - 1) /\ (i - 1) + 1 = i
      BY <1>1, <2>2
    <3>2. Tail(s)[i - 1] = x
      BY <1>1, <2>1, <3>1
    <3> QED
      BY <1>1, <3>1, <3>2 DEF ToSet
  <2> QED
    BY <1>1, <2>1, <2>2
<1>3. ASSUME NEW x \in ToSet(Tail(s)) \cup {Head(s)}
      PROVE  x \in ToSet(s)
  <2>1. CASE x = Head(s)
    <3>1. 1 \in DOMAIN s
      BY <1>1
    <3> QED
      BY <1>1, <2>1, <3>1 DEF ToSet
  <2>2. CASE x # Head(s)
    <3>1. PICK i \in 1..(Len(s) - 1) : x = Tail(s)[i]
      BY <1>1, <1>3, <2>2 DEF ToSet
    <3>2. i + 1 \in DOMAIN s /\ x = s[i + 1]
      BY <1>1, <3>1
    <3> QED
      BY <3>2 DEF ToSet
  <2> QED
    BY <2>1, <2>2
<1> QED
  BY <1>1, <1>2, <1>3

\* An event may be appended when none of its effects is there.
LEMMA OrderedAppend ==
    ASSUME NEW S, NEW s \in Seq(S), NEW e \in S, Ordered(s),
           \A f \in ToSet(s) \cup {e} : ~Precedes(e, f)
    PROVE  Ordered(Append(s, e))
<1> DEFINE t == Append(s, e)
<1>1. /\ DOMAIN s = 1..Len(s) /\ Len(s) \in Nat
      /\ DOMAIN t = 1..(Len(s) + 1)
      /\ t[Len(s) + 1] = e
      /\ \A i \in 1..Len(s) : t[i] = s[i]
  BY AppendElements
<1> HIDE DEF t
<1> SUFFICES ASSUME NEW i \in DOMAIN t, NEW j \in DOMAIN t, Precedes(t[i], t[j])
             PROVE  i < j
  BY DEF Ordered, t
<1>2. CASE i = Len(s) + 1
  <2>1. t[j] \in ToSet(s) \cup {e}
    BY <1>1 DEF ToSet
  <2> QED
    BY <1>1, <1>2, <2>1
<1>3. CASE i # Len(s) + 1 /\ j = Len(s) + 1
  BY <1>1, <1>3
<1>4. CASE i # Len(s) + 1 /\ j # Len(s) + 1
  <2>1. i \in DOMAIN s /\ j \in DOMAIN s /\ t[i] = s[i] /\ t[j] = s[j]
    BY <1>1, <1>4
  <2> QED
    BY <2>1 DEF Ordered
<1> QED
  BY <1>2, <1>3, <1>4

\* What is taken off the front of an ordered queue has no cause behind it.
LEMMA OrderedTail ==
    ASSUME NEW S, NEW s \in Seq(S), s # <<>>, Ordered(s)
    PROVE  /\ Ordered(Tail(s))
           /\ \A e \in ToSet(Tail(s)) : ~Precedes(e, Head(s))
<1> DEFINE t == Tail(s)
<1>1. /\ DOMAIN s = 1..Len(s) /\ Len(s) \in Nat /\ Head(s) = s[1]
      /\ DOMAIN t = 1..(Len(s) - 1)
      /\ \A i \in 1..(Len(s) - 1) : t[i] = s[i + 1]
      /\ 1 \in DOMAIN s
  BY TailElements
<1> HIDE DEF t
<1>2. ASSUME NEW i \in DOMAIN t
      PROVE  i + 1 \in DOMAIN s /\ t[i] = s[i + 1] /\ i \in Nat /\ i >= 1
  BY <1>1
<1>3. ASSUME NEW i \in DOMAIN t, NEW j \in DOMAIN t, Precedes(t[i], t[j])
      PROVE  i < j
  <2>1. i + 1 < j + 1
    BY <1>2, <1>3 DEF Ordered
  <2> QED
    BY <1>2, <2>1
<1>4. ASSUME NEW i \in DOMAIN t, Precedes(t[i], s[1])
      PROVE  FALSE
  <2>1. i + 1 < 1
    BY <1>1, <1>2, <1>4 DEF Ordered
  <2> QED
    BY <1>2, <2>1
<1> QED
  BY <1>1, <1>3, <1>4 DEF Ordered, ToSet, t

\* A new element keeps a sequence without repetitions.
LEMMA InjectiveAppend ==
    ASSUME NEW S, NEW s \in Seq(S), NEW e \in S, IsInjective(s),
           e \notin ToSet(s)
    PROVE  IsInjective(Append(s, e))
<1> DEFINE t == Append(s, e)
<1>1. /\ DOMAIN s = 1..Len(s) /\ Len(s) \in Nat
      /\ DOMAIN t = 1..(Len(s) + 1)
      /\ t[Len(s) + 1] = e
      /\ \A i \in 1..Len(s) : t[i] = s[i]
  BY AppendElements
<1>2. \A i \in 1..Len(s) : s[i] # e
  BY <1>1 DEF ToSet
<1> HIDE DEF t
<1>3. ASSUME NEW a \in DOMAIN t, NEW b \in DOMAIN t, t[a] = t[b]
      PROVE  a = b
  <2>1. CASE a \in 1..Len(s) /\ b \in 1..Len(s)
    BY <1>1, <1>3, <2>1 DEF IsInjective
  <2>2. CASE a = Len(s) + 1 \/ b = Len(s) + 1
    BY <1>1, <1>2, <1>3, <2>2
  <2> QED
    BY <1>1, <2>1, <2>2
<1> QED
  BY <1>3 DEF IsInjective, t

----------------------------------------------------------------------------
\* The events are what they look like.
LEMMA EventFacts ==
    /\ Root \in Events /\ Final \in Events /\ Failed \in Events
    /\ End \notin Events
    /\ Root # Final /\ Root # Failed /\ Final # Failed
    /\ \A e \in BranchEvents :
          /\ e \in Events /\ e \notin {Root, Final, Failed}
          /\ e.by \in Branches
    /\ \A e \in Events : e \in BranchEvents \/ e \in {Root, Final, Failed}
<1>1. ASSUME NEW e \in BranchEvents
      PROVE  /\ e \notin {Root, Final, Failed, End}
             /\ e.by \in Branches
  <2>1. PICK b \in Branches : \E k \in 1..EventsOf[b] : e = [by |-> b, n |-> k]
    BY DEF BranchEvents
  <2>2. e.by = b
    BY <2>1
  <2>3. Root.by = Main /\ Final.by = Main /\ Failed.by = "gateway" /\ End.by = "none"
    BY DEF Root, Final, Failed, End
  <2> QED
    BY <2>2, <2>3, StreamAssumption
<1>2. /\ Root # Final /\ Root # Failed /\ Final # Failed
      /\ End \notin {Root, Final, Failed}
  BY DEF Root, Final, Failed, End, Main
<1> QED
  BY <1>1, <1>2 DEF Events

\* An event whose first event is another one of its node.
LEMMA FirstFacts ==
    ASSUME NEW e \in BranchEvents
    PROVE  First(e.by) \in BranchEvents /\ First(e.by).by = e.by
<1>1. PICK b \in Branches : \E k \in 1..EventsOf[b] : e = [by |-> b, n |-> k]
  BY DEF BranchEvents
<1>2. EventsOf[b] \in Nat /\ e.by = b
  BY <1>1, StreamAssumption
<1>3. 1 \in 1..EventsOf[b]
  BY <1>1, <1>2
<1> QED
  BY <1>2, <1>3 DEF First, BranchEvents

\* Causes and effects are different events of the run.
LEMMA PrecedesFacts ==
    ASSUME NEW e, NEW f, Precedes(e, f)
    PROVE  e \in Events /\ f \in Events /\ e # f
BY EventFacts DEF Precedes

\* While an event is still to be published, its effects are not in the table.
LEMMA EffectFacts ==
    ASSUME StreamTypeOK, EmitterInv, RowsInv, NEW e \in Events,
           \/ status[e] = "none" /\ MayEmit(e)
           \/ status[e] \in {"adrift", "committed"}
    PROVE  \A f \in ToSet(rows) \cup {e} : ~Precedes(e, f)
<1> SUFFICES ASSUME NEW f \in Events, Precedes(e, f), f # e
             PROVE  status[f] = "none"
  BY PrecedesFacts DEF RowsInv
<1>0. status[e] # "published"
  OBVIOUS
<1>1. CASE e = Root
  BY <1>0, <1>1, EventFacts DEF EmitterInv, Precedes
<1>2. CASE e \in BranchEvents /\ f \in BranchEvents
  <2>1. e = First(f.by)
    BY <1>2, EventFacts DEF Precedes
  <2> QED
    BY <1>0, <1>2, <2>1 DEF EmitterInv
<1>3. CASE e \in BranchEvents /\ f = Final
  <2>1. CASE status[e] = "none" /\ MayEmit(e)
    <3>1. e.by \in Branches /\ e.by \notin ended
      BY <1>3, <2>1, EventFacts DEF MayEmit
    <3> QED
      BY <1>3, <3>1 DEF EmitterInv
  <2>2. CASE status[e] \in {"adrift", "committed"}
    BY <1>3, <2>2 DEF EmitterInv
  <2> QED
    BY <2>1, <2>2
<1> QED
  BY <1>1, <1>2, <1>3, EventFacts DEF Precedes

\* A stream's own steps leave the run and its ledger alone.
LEMMA ClientSteps ==
    ASSUME NEW s \in Streams, Open(s) \/ StreamStep(s) \/ Disconnect(s)
    PROVE  UNCHANGED ledger
BY DEF Open, StreamStep, Disconnect, ReadRows, ReplayRow, Snapshot, TakeEvent,
       StreamReturns

\* The run goes through its stages in order.
LEMMA EmitterStep ==
    ASSUME StreamInv, [StreamNext]_streamVars
    PROVE  EmitterInv'
<1>0. StreamTypeOK /\ EmitterInv
  BY DEF StreamInv
<1>t. status \in [Events -> {"none", "adrift", "committed", "published", "silent"}]
  BY <1>0 DEF StreamTypeOK
<1>1. ASSUME NEW e \in Events, AppendCommit(e)
      PROVE  EmitterInv'
  <2>1. /\ (status[e] = "none" /\ MayEmit(e)) \/ status[e] = "adrift"
        /\ status' = [status EXCEPT ![e] = "committed"]
        /\ UNCHANGED <<ended, job, run, finishing, settled>>
    BY <1>1 DEF AppendCommit, StatusTo
  <2>2. /\ status'[e] = "committed" /\ status[e] # "published" /\ status[e] # "committed"
        /\ \A f \in Events : f # e => status'[f] = status[f]
    BY <1>t, <2>1
  <2>3. CASE e = Root
    BY <1>0, <2>1, <2>2, <2>3, EventFacts, FirstFacts DEF EmitterInv, MayEmit
  <2>4. CASE e \in BranchEvents
    <3>1. /\ status[Root] = "published" /\ status[Final] = "none"
          /\ e # First(e.by) => status[First(e.by)] = "published"
      <4>1. CASE status[e] = "none"
        BY <1>0, <2>1, <2>4, <4>1, EventFacts DEF EmitterInv, MayEmit
      <4>2. CASE status[e] = "adrift"
        BY <1>0, <2>4, <4>2 DEF EmitterInv
      <4> QED
        BY <2>1, <4>1, <4>2
    <3> QED
      BY <1>0, <2>1, <2>2, <2>4, <3>1, EventFacts, FirstFacts DEF EmitterInv
  <2>5. CASE e = Final
    BY <1>0, <2>1, <2>2, <2>5, EventFacts, FirstFacts DEF EmitterInv, MayEmit
  <2>6. CASE e = Failed
    BY <1>0, <2>1, <2>2, <2>6, EventFacts, FirstFacts DEF EmitterInv, MayEmit
  <2> QED
    BY <2>3, <2>4, <2>5, <2>6, EventFacts
<1>2. ASSUME NEW e \in Events, AppendPublish(e) \/ AppendAborted(e)
      PROVE  EmitterInv'
  <2>1. /\ status[e] = "committed"
        /\ \/ status' = [status EXCEPT ![e] = "published"]
           \/ status' = [status EXCEPT ![e] = "silent"]
        /\ UNCHANGED <<ended, job, run, finishing, settled>>
    BY <1>2 DEF AppendPublish, AppendAborted, StatusTo
  <2>2. /\ status'[e] \in {"published", "silent"}
        /\ \A f \in Events : f # e => status'[f] = status[f]
    BY <1>t, <2>1
  <2>3. \A f \in Events :
          /\ status[f] = "published" => status'[f] = "published"
          /\ status'[f] = "none" <=> status[f] = "none"
          /\ status'[f] \in {"committed", "adrift"} => status'[f] = status[f]
    BY <2>1, <2>2
  <2>4. \A f \in BranchEvents :
          /\ status'[f] # "none" => status'[Root] = "published"
          /\ status'[f] # "none" /\ f # First(f.by) => status'[First(f.by)] = "published"
    BY <1>0, <2>3, EventFacts, FirstFacts DEF EmitterInv
  <2>5. status'[Final] # "none" =>
          /\ status'[Root] = "published" /\ ended' = Branches
          /\ \A f \in BranchEvents : status'[f] \notin {"committed", "adrift"}
    BY <1>0, <2>1, <2>3, EventFacts DEF EmitterInv
  <2>6. /\ \A f \in Events : status'[f] = "adrift" => f \in BranchEvents /\ job' # "executing"
        /\ \A f \in settled' : status'[f] = "published"
    BY <1>0, <2>1, <2>3 DEF EmitterInv, StreamTypeOK
  <2>7. /\ job' = "executing" => status'[Failed] = "none" /\ (run' = "FINISHED" => finishing')
        /\ finishing' => \/ job' = "executing"
                         \/ job' = "failing" /\ status'[Failed] # "none"
        /\ finishing' => run' = "FINISHED"
    BY <1>0, <2>1, <2>3, EventFacts DEF EmitterInv
  <2> QED
    BY <2>4, <2>5, <2>6, <2>7 DEF EmitterInv
<1>3. ASSUME NEW b \in Branches, BranchEnds(b)
      PROVE  EmitterInv'
  BY <1>0, <1>3 DEF BranchEnds, EmitterInv, StreamTypeOK
<1>4. CASE RunRaises
  <2>1. PICK left \in SUBSET Shielded :
           status' = [e \in Events |-> IF e \in left /\ status[e] = "none"
                                      THEN "adrift" ELSE status[e]]
    BY <1>4 DEF RunRaises
  <2>2. /\ job = "executing" /\ job' = "failing" /\ ended' = Branches /\ finishing' = FALSE
        /\ UNCHANGED <<run, settled>>
    BY <1>4 DEF RunRaises
  <2>3. ASSUME NEW e \in left
        PROVE  /\ e \in BranchEvents /\ e.by \notin ended /\ e # First(e.by)
               /\ status[First(e.by)] = "published"
               /\ status[Root] = "published" /\ status[Final] = "none"
    <3>1. /\ e \in BranchEvents /\ e.by \notin ended /\ e # First(e.by)
          /\ status[First(e.by)] = "published"
      BY <2>1 DEF Shielded
    <3>2. e.by \in Branches /\ First(e.by) \in BranchEvents
      BY <3>1, EventFacts, FirstFacts
    <3> QED
      BY <1>0, <3>1, <3>2 DEF EmitterInv
  <2>4. \A e \in Events :
          \/ status'[e] = status[e]
          \/ e \in left /\ status[e] = "none" /\ status'[e] = "adrift"
    <3> SUFFICES ASSUME NEW e \in Events
                 PROVE  \/ status'[e] = status[e]
                        \/ e \in left /\ status[e] = "none" /\ status'[e] = "adrift"
      OBVIOUS
    <3>1. status'[e] = IF e \in left /\ status[e] = "none" THEN "adrift" ELSE status[e]
      BY <2>1
    <3> QED
      BY <3>1
  <2>5. \A e \in BranchEvents :
          /\ status'[e] # "none" => status'[Root] = "published"
          /\ status'[e] # "none" /\ e # First(e.by) => status'[First(e.by)] = "published"
    <3> SUFFICES ASSUME NEW e \in BranchEvents, status'[e] # "none"
                 PROVE  /\ status'[Root] = "published"
                        /\ e # First(e.by) => status'[First(e.by)] = "published"
      OBVIOUS
    <3>1. /\ status[Root] = "published"
          /\ e # First(e.by) => status[First(e.by)] = "published"
      BY <1>0, <2>3, <2>4, EventFacts DEF EmitterInv
    <3> QED
      BY <2>4, <3>1, EventFacts, FirstFacts
  <2>6. status'[Final] = status[Final] /\ status'[Failed] = status[Failed]
    BY <2>3, <2>4, EventFacts
  <2>7. status'[Final] # "none" =>
          /\ status'[Root] = "published" /\ ended' = Branches
          /\ \A e \in BranchEvents : status'[e] \notin {"committed", "adrift"}
    BY <1>0, <2>2, <2>3, <2>4, <2>6, EventFacts DEF EmitterInv
  <2>8. /\ \A e \in Events : status'[e] = "adrift" => e \in BranchEvents
        /\ \A e \in settled' : status'[e] = "published"
    BY <1>0, <2>2, <2>3, <2>4 DEF EmitterInv, StreamTypeOK
  <2> QED
    BY <2>2, <2>5, <2>7, <2>8 DEF EmitterInv
<1>5. CASE FailureLost
  BY <1>0, <1>5 DEF FailureLost, EmitterInv
<1>6. CASE FinishCommit
  BY <1>0, <1>6, EventFacts DEF FinishCommit, EmitterInv
<1>7. CASE FinishPublish
  BY <1>0, <1>7 DEF FinishPublish, EmitterInv
<1>8. CASE UNCHANGED ledger
  BY <1>0, <1>8 DEF ledger, EmitterInv
<1>9. UNCHANGED streamVars => UNCHANGED ledger
  BY DEF streamVars, ledger
<1> QED
  BY <1>1, <1>2, <1>3, <1>4, <1>5, <1>6, <1>7, <1>8, <1>9, ClientSteps DEF StreamNext, RunStep

\* Once a run that did not raise is stored as finished, nothing moves.
LEMMA CleanStep ==
    ASSUME StreamInv, [StreamNext]_streamVars
    PROVE  CleanInv'
<1>0. StreamTypeOK /\ EmitterInv /\ CleanInv
  BY DEF StreamInv
<1>t. status \in [Events -> {"none", "adrift", "committed", "published", "silent"}]
  BY <1>0 DEF StreamTypeOK
<1>1. ASSUME NEW e \in Events, AppendCommit(e), run' = "FINISHED",
             job' \in {"executing", "over"}, status'[Failed] = "none"
      PROVE  FALSE
  <2>1. /\ (status[e] = "none" /\ MayEmit(e)) \/ status[e] = "adrift"
        /\ status' = [status EXCEPT ![e] = "committed"]
        /\ run = "FINISHED" /\ job \in {"executing", "over"}
    BY <1>1 DEF AppendCommit, StatusTo
  <2>2. status[Failed] = "none"
    BY <1>1, <1>t, <2>1, EventFacts
  <2>3. /\ status[Final] = "published" /\ status[e] # "adrift"
    BY <1>0, <2>1, <2>2 DEF CleanInv
  <2>4. status[Root] = "published" /\ ended = Branches
    BY <1>0, <2>3 DEF EmitterInv
  <2> QED
    BY <2>1, <2>3, <2>4, EventFacts DEF MayEmit
<1>2. ASSUME NEW e \in Events, AppendPublish(e) \/ AppendAborted(e), run' = "FINISHED",
             job' \in {"executing", "over"}, status'[Failed] = "none"
      PROVE  FALSE
  <2>1. /\ status[e] = "committed"
        /\ \/ status' = [status EXCEPT ![e] = "published"]
           \/ status' = [status EXCEPT ![e] = "silent"]
        /\ run = "FINISHED" /\ job \in {"executing", "over"}
    BY <1>2 DEF AppendPublish, AppendAborted, StatusTo
  <2>2. status[Failed] = "none"
    BY <1>2, <1>t, <2>1, EventFacts
  <2> QED
    BY <1>0, <2>1, <2>2 DEF CleanInv
<1>3. ASSUME NEW b \in Branches, BranchEnds(b)
      PROVE  CleanInv'
  BY <1>0, <1>3 DEF BranchEnds, CleanInv
<1>4. CASE RunRaises \/ FailureLost
  BY <1>4 DEF RunRaises, FailureLost, CleanInv
<1>5. CASE FinishCommit
  <2>1. CASE job = "failing"
    BY <1>5, <2>1 DEF FinishCommit, CleanInv
  <2>2. CASE job # "failing"
    <3>1. /\ job = "executing" /\ status[Final] = "published" /\ run # "FINISHED"
          /\ status' = status /\ settled' = { e \in Events : status[e] = "published" }
      BY <1>0, <1>5, <2>2 DEF FinishCommit, EmitterInv
    <3>2. /\ status[Failed] = "none" /\ status[Root] = "published"
          /\ \A e \in BranchEvents : status[e] \in {"none", "published", "silent"}
      BY <1>0, <1>t, <3>1, EventFacts DEF EmitterInv
    <3>3. \A e \in Events : status[e] \in {"none", "published", "silent"}
      BY <3>1, <3>2, EventFacts
    <3> QED
      BY <3>1, <3>3 DEF CleanInv
  <2> QED
    BY <2>1, <2>2
<1>6. CASE FinishPublish
  BY <1>0, <1>6 DEF FinishPublish, EmitterInv, CleanInv
<1>7. CASE UNCHANGED ledger
  BY <1>0, <1>7 DEF ledger, CleanInv
<1>8. UNCHANGED streamVars => UNCHANGED ledger
  BY DEF streamVars, ledger
<1>9. ASSUME NEW e \in Events, AppendCommit(e) \/ AppendPublish(e) \/ AppendAborted(e)
      PROVE  CleanInv'
  BY <1>1, <1>2, <1>9 DEF CleanInv
<1> QED
  BY <1>3, <1>4, <1>5, <1>6, <1>7, <1>8, <1>9, ClientSteps DEF StreamNext, RunStep

\* A commit adds to the table an event none of whose effects is there.
LEMMA RowsStep ==
    ASSUME StreamInv, [StreamNext]_streamVars
    PROVE  RowsInv'
<1>0. StreamTypeOK /\ EmitterInv /\ RowsInv /\ rows \in Seq(Events)
  BY DEF StreamInv, StreamTypeOK
<1>t. status \in [Events -> {"none", "adrift", "committed", "published", "silent"}]
  BY <1>0 DEF StreamTypeOK
<1>1. ASSUME NEW e \in Events, AppendCommit(e)
      PROVE  RowsInv'
  <2>1. /\ (status[e] = "none" /\ MayEmit(e)) \/ status[e] = "adrift"
        /\ rows' = Append(rows, e)
        /\ status' = [status EXCEPT ![e] = "committed"]
    BY <1>1 DEF AppendCommit, StatusTo
  <2>2. \A f \in ToSet(rows) \cup {e} : ~Precedes(e, f)
    BY <1>0, <2>1, EffectFacts
  <2>3. e \notin ToSet(rows)
    BY <1>0, <2>1 DEF RowsInv
  <2>4. ToSet(rows') = ToSet(rows) \cup {e}
    BY <1>0, <2>1, AppendElements
  <2>5. /\ status'[e] = "committed" /\ \A f \in Events : f # e => status'[f] = status[f]
    BY <1>t, <2>1
  <2>6. ToSet(rows') = { f \in Events : status'[f] \notin {"none", "adrift"} }
    BY <1>0, <2>4, <2>5 DEF RowsInv
  <2>7. IsInjective(rows')
    BY <1>0, <2>1, <2>3, InjectiveAppend DEF RowsInv
  <2>8. Ordered(rows')
    BY <1>0, <2>1, <2>2, OrderedAppend DEF RowsInv
  <2> QED
    BY <2>6, <2>7, <2>8 DEF RowsInv
<1>2. ASSUME rows' = rows,
             \A e \in Events : status'[e] \in {"none", "adrift"}
                                 <=> status[e] \in {"none", "adrift"}
      PROVE  RowsInv'
  BY <1>0, <1>2 DEF RowsInv
<1>3. ASSUME NEW e \in Events, AppendPublish(e) \/ AppendAborted(e)
      PROVE  RowsInv'
  <2>1. /\ rows' = rows /\ status[e] = "committed"
        /\ \/ status' = [status EXCEPT ![e] = "published"]
           \/ status' = [status EXCEPT ![e] = "silent"]
    BY <1>3 DEF AppendPublish, AppendAborted, StatusTo
  <2> QED
    BY <1>2, <1>t, <2>1
<1>4. CASE RunRaises
  BY <1>2, <1>4 DEF RunRaises
<1>5. CASE UNCHANGED <<rows, status>>
  BY <1>2, <1>5
<1>6. CASE FailureLost \/ FinishCommit \/ FinishPublish \/ \E b \in Branches : BranchEnds(b)
  BY <1>5, <1>6 DEF FailureLost, FinishCommit, FinishPublish, BranchEnds
<1>7. UNCHANGED streamVars \/ UNCHANGED ledger => UNCHANGED <<rows, status>>
  BY DEF streamVars, ledger
<1> QED
  BY <1>1, <1>3, <1>4, <1>5, <1>6, <1>7, ClientSteps DEF StreamNext, RunStep

----------------------------------------------------------------------------
\* Every step keeps every variable in its type.
LEMMA StreamTypeStep ==
    ASSUME StreamInv, [StreamNext]_streamVars
    PROVE  StreamTypeOK'
<1>0. StreamTypeOK
  BY DEF StreamInv
<1>p. ASSUME NEW item \in Events \cup {End}, Publish(item)
      PROVE  queue' \in [Streams -> Seq(Events \cup {End})]
  <2>1. \A s \in Streams : queue[s] \in Seq(Events \cup {End})
    BY <1>0 DEF StreamTypeOK
  <2>2. \A s \in Streams : Append(queue[s], item) \in Seq(Events \cup {End})
    BY <2>1, AppendElements
  <2> QED
    BY <1>p, <2>1, <2>2 DEF Publish
<1>1. ASSUME NEW e \in Events, AppendCommit(e)
      PROVE  StreamTypeOK'
  <2>1. rows' \in Seq(Events)
    BY <1>0, <1>1, AppendElements DEF AppendCommit, StreamTypeOK
  <2> QED
    BY <1>0, <1>1, <2>1 DEF AppendCommit, StatusTo, client, StreamTypeOK
<1>2. ASSUME NEW e \in Events, AppendPublish(e)
      PROVE  StreamTypeOK'
  <2>1. queue' \in [Streams -> Seq(Events \cup {End})]
    BY <1>2, <1>p DEF AppendPublish
  <2> QED
    BY <1>0, <1>2, <2>1 DEF AppendPublish, StatusTo, StreamTypeOK
<1>3. ASSUME NEW e \in Events, AppendAborted(e)
      PROVE  StreamTypeOK'
  BY <1>0, <1>3 DEF AppendAborted, StatusTo, client, StreamTypeOK
<1>4. CASE FailureLost \/ FinishCommit \/ \E b \in Branches : BranchEnds(b)
  BY <1>0, <1>4 DEF FailureLost, FinishCommit, BranchEnds, client, StreamTypeOK
<1>5. CASE RunRaises
  BY <1>0, <1>5 DEF RunRaises, client, StreamTypeOK
<1>6. CASE FinishPublish
  <2>1. queue' \in [Streams -> Seq(Events \cup {End})]
    BY <1>6, <1>p DEF FinishPublish
  <2> QED
    BY <1>0, <1>6, <2>1 DEF FinishPublish, StreamTypeOK
<1>7. ASSUME NEW s \in Streams, Open(s) \/ Snapshot(s)
                                \/ StreamReturns(s) \/ Disconnect(s)
      PROVE  StreamTypeOK'
  BY <1>0, <1>7 DEF Open, Snapshot, StreamReturns,
     Disconnect, StreamTo, ledger, StreamTypeOK
<1>8. ASSUME NEW s \in Streams, ReadRows(s)
      PROVE  StreamTypeOK'
  <2>1. Len(rows) \in Nat
    BY <1>0 DEF StreamTypeOK
  <2> QED
    BY <1>0, <1>8, <2>1 DEF ReadRows, StreamTo, ledger, StreamTypeOK
<1>y. ASSUME NEW s \in Streams, NEW e \in Events, Yield(s, e)
      PROVE  seen' \in [Streams -> SUBSET Events] /\ out' \in [Streams -> Seq(Events)]
  <2>1. out[s] \in Seq(Events) /\ seen[s] \subseteq Events
    BY <1>0 DEF StreamTypeOK
  <2>2. Append(out[s], e) \in Seq(Events)
    BY <2>1, AppendElements
  <2> QED
    BY <1>0, <1>y, <2>1, <2>2 DEF Yield, StreamTypeOK
<1>9. ASSUME NEW s \in Streams, ReplayRow(s)
      PROVE  StreamTypeOK'
  <2>1. replay[s] \in Seq(Events) /\ replay[s] # <<>>
    BY <1>0, <1>9 DEF ReplayRow, StreamTypeOK
  <2>2. Head(replay[s]) \in Events /\ Tail(replay[s]) \in Seq(Events)
    BY <2>1, TailElements
  <2>3. seen' \in [Streams -> SUBSET Events] /\ out' \in [Streams -> Seq(Events)]
    BY <1>9, <1>y, <2>2 DEF ReplayRow
  <2> QED
    BY <1>0, <1>9, <2>2, <2>3 DEF ReplayRow, ledger, StreamTypeOK
<1>10. ASSUME NEW s \in Streams, TakeEvent(s)
      PROVE  StreamTypeOK'
  <2>1. queue[s] \in Seq(Events \cup {End}) /\ queue[s] # <<>>
    BY <1>0, <1>10 DEF TakeEvent, StreamTypeOK
  <2>2. /\ Head(queue[s]) \in Events \cup {End}
        /\ Tail(queue[s]) \in Seq(Events \cup {End})
    BY <2>1, TailElements
  <2>3. Head(queue[s]) \in Events
    BY <1>10, <2>2 DEF TakeEvent
  <2>4. seen' \in [Streams -> SUBSET Events] /\ out' \in [Streams -> Seq(Events)]
    BY <1>0, <1>10, <1>y, <2>3 DEF TakeEvent, StreamTypeOK
  <2> QED
    BY <1>0, <1>10, <2>2, <2>4 DEF TakeEvent, ledger, StreamTypeOK
<1>11. CASE UNCHANGED streamVars
  BY <1>0, <1>11 DEF streamVars, StreamTypeOK
<1> QED
  BY <1>1, <1>2, <1>3, <1>4, <1>5, <1>6, <1>7, <1>8, <1>9, <1>10, <1>11
     DEF StreamNext, RunStep, StreamStep

\* A stream that nothing happens to stays as it is.
LEMMA StreamUntouched ==
    ASSUME NEW s \in Streams, OneStream(s),
           UNCHANGED <<rows, run, settled>>,
           \A e \in Events : status'[e] = "published" => status[e] = "published",
           queue'[s] = queue[s], place'[s] = place[s], replay'[s] = replay[s],
           seen'[s] = seen[s], out'[s] = out[s], read'[s] = read[s],
           s \in subscribed' <=> s \in subscribed
    PROVE  OneStream(s)'
<1>1. Replayed(s)' = Replayed(s)
  BY DEF Replayed
<1>2. BufferInv(s)'
  BY DEF OneStream, BufferInv
<1>3. CoverInv(s)'
  BY <1>1 DEF OneStream, CoverInv, Ordered
<1>4. ReplayInv(s)'
  BY DEF OneStream, ReplayInv
<1>5. OutputInv(s)'
  BY DEF OneStream, OutputInv, Ordered
<1> QED
  BY <1>2, <1>3, <1>4, <1>5 DEF OneStream

\* A commit, as a stream s meets it.
LEMMA CommitStream ==
    ASSUME StreamInv, NEW e \in Events, AppendCommit(e), NEW s \in Streams
    PROVE  OneStream(s)'
<1>0. StreamTypeOK /\ BufferInv(s) /\ CoverInv(s) /\ ReplayInv(s) /\ OutputInv(s)
  BY DEF StreamInv, OneStream
<1>t. /\ rows \in Seq(Events) /\ out[s] \in Seq(Events) /\ replay[s] \in Seq(Events)
      /\ read[s] \in Nat
  BY <1>0 DEF StreamTypeOK
<1>1. /\ rows' = Append(rows, e)
      /\ UNCHANGED <<run, settled, subscribed, queue, place, replay, seen, out, read>>
  BY DEF AppendCommit, client
<1>2. \A f \in Events : status'[f] = "published" => status[f] = "published"
  BY <1>0 DEF AppendCommit, StatusTo, StreamTypeOK
<1>3. /\ Len(rows') = Len(rows) + 1
      /\ \A i \in 1..Len(rows) : rows'[i] = rows[i]
      /\ ToSet(rows') = ToSet(rows) \cup {e}
  BY <1>t, <1>1, AppendElements
<1>4. BufferInv(s)'
  BY <1>0, <1>1, <1>3 DEF BufferInv
<1>5. CoverInv(s)'
  <2>1. CASE place[s] = "reading"
    <3>1. Replayed(s) = ToSet(rows) /\ Replayed(s)' = ToSet(rows) \cup {e}
      BY <1>1, <1>3, <2>1 DEF Replayed
    <3>2. ASSUME NEW x \in ToSet(queue[s]), NEW f, Precedes(x, f)
          PROVE  x \in ToSet(rows)
      BY <1>0, <3>2, PrecedesFacts, EventFacts DEF BufferInv
    <3> QED
      BY <1>0, <1>1, <1>2, <3>1, <3>2 DEF CoverInv, Ordered
  <2>2. CASE place[s] # "reading"
    <3>1. Replayed(s)' = Replayed(s)
      BY <1>1, <2>2 DEF Replayed
    <3> QED
      BY <1>0, <1>1, <1>2, <3>1 DEF CoverInv, Ordered
  <2> QED
    BY <2>1, <2>2
<1>6. ReplayInv(s)'
  <2>1. PICK k \in Nat, l \in Nat, m \in Nat, r \in Nat :
           k = Len(out[s]) /\ l = Len(replay[s]) /\ m = Len(rows) /\ r = read[s]
    BY <1>t
  <2>2. ASSUME place[s] = "replaying"
        PROVE  /\ k + l = r /\ r <= m + 1
               /\ \A i \in 1..k : out[s][i] = rows'[i]
               /\ \A i \in 1..l : replay[s][i] = rows'[k + i]
    <3>1. /\ k + l = r /\ r <= m
          /\ \A i \in 1..k : out[s][i] = rows[i]
          /\ \A i \in 1..l : replay[s][i] = rows[k + i]
      BY <1>0, <2>1, <2>2 DEF ReplayInv
    <3>2. /\ r <= m + 1
          /\ \A i \in 1..k : i \in 1..m
          /\ \A i \in 1..l : k + i \in 1..m
      BY <3>1
    <3>3. \A i \in 1..m : rows'[i] = rows[i]
      BY <1>3, <2>1
    <3> QED
      BY <3>1, <3>2, <3>3
  <2>3. ASSUME place[s] \in {"following", "draining", "returned"}
        PROVE  /\ r <= m + 1
               /\ \A i \in 1..r : rows'[i] \in ToSet(out[s])
    <3>1. r <= m /\ \A i \in 1..r : rows[i] \in ToSet(out[s])
      BY <1>0, <2>1, <2>3 DEF ReplayInv
    <3>2. r <= m + 1 /\ \A i \in 1..r : i \in 1..m
      BY <3>1
    <3>3. \A i \in 1..m : rows'[i] = rows[i]
      BY <1>3, <2>1
    <3> QED
      BY <3>1, <3>2, <3>3
  <2>4. Len(rows') = m + 1
    BY <1>3, <2>1
  <2> QED
    BY <1>0, <1>1, <2>1, <2>2, <2>3, <2>4 DEF ReplayInv
<1>7. OutputInv(s)'
  BY <1>0, <1>1, <1>3 DEF OutputInv, Ordered
<1> QED
  BY <1>4, <1>5, <1>6, <1>7 DEF OneStream

\* What a stream yields from the table is in the table.
LEMMA ReplayedRows ==
    ASSUME StreamTypeOK, NEW s \in Streams, ReplayInv(s), OutputInv(s), place[s] \in Listening
    PROVE  Replayed(s) \subseteq ToSet(rows)
<1>t. /\ rows \in Seq(Events) /\ out[s] \in Seq(Events) /\ replay[s] \in Seq(Events)
      /\ DOMAIN rows = 1..Len(rows) /\ DOMAIN replay[s] = 1..Len(replay[s])
      /\ read[s] \in Nat
  BY DEF StreamTypeOK
<1>1. CASE place[s] = "reading"
  BY <1>1 DEF Replayed
<1>2. CASE place[s] = "replaying"
  <2>1. PICK k \in Nat, l \in Nat, m \in Nat, r \in Nat :
           k = Len(out[s]) /\ l = Len(replay[s]) /\ m = Len(rows) /\ r = read[s]
    <3>1. Len(out[s]) \in Nat /\ Len(replay[s]) \in Nat /\ Len(rows) \in Nat /\ read[s] \in Nat
      BY <1>t
    <3> QED
      BY <3>1, Zenon
  <2>2. k + l = r /\ r <= m /\ \A i \in 1..l : replay[s][i] = rows[k + i]
    BY <1>2, <2>1 DEF ReplayInv
  <2>3. \A i \in 1..l : k + i \in 1..m
    BY <2>2
  <2>4. ASSUME NEW x \in ToSet(replay[s])
        PROVE  x \in ToSet(rows)
    <3>1. PICK i \in 1..l : x = replay[s][i]
      BY <1>t, <2>1 DEF ToSet
    <3>2. k + i \in DOMAIN rows /\ x = rows[k + i]
      BY <1>t, <2>1, <2>2, <2>3, <3>1
    <3> QED
      BY <3>2 DEF ToSet
  <2> QED
    BY <1>2, <2>4 DEF Replayed, OutputInv
<1>3. CASE place[s] \notin {"reading", "replaying"}
  <2>1. replay[s] = <<>> /\ ToSet(<<>>) = {}
    BY <1>3 DEF ReplayInv, Listening, ToSet
  <2> QED
    BY <1>3, <2>1 DEF Replayed, OutputInv
<1> QED
  BY <1>1, <1>2, <1>3

\* A publication, as a stream s meets it.
LEMMA PublishStream ==
    ASSUME StreamInv, NEW e \in Events, AppendPublish(e), NEW s \in Streams
    PROVE  OneStream(s)'
<1>0. /\ StreamTypeOK /\ EmitterInv /\ RowsInv
      /\ BufferInv(s) /\ CoverInv(s) /\ ReplayInv(s) /\ OutputInv(s)
  BY DEF StreamInv, OneStream
<1>t. /\ queue[s] \in Seq(Events \cup {End}) /\ e \in Events \cup {End}
      /\ DOMAIN queue[s] = 1..Len(queue[s]) /\ Len(queue[s]) \in Nat
  BY <1>0 DEF StreamTypeOK
<1>1. /\ status[e] = "committed"
      /\ queue'[s] = IF s \in subscribed THEN Append(queue[s], e) ELSE queue[s]
      /\ status' = [status EXCEPT ![e] = "published"]
      /\ UNCHANGED <<rows, run, settled, subscribed, place, replay, seen, out, read>>
  BY DEF AppendPublish, Publish, StatusTo
<1>2. \A f \in Events : status'[f] = "published" => status[f] = "published" \/ f = e
  BY <1>0, <1>1 DEF StreamTypeOK
<1>3. e \in ToSet(rows) /\ e \notin settled /\ e # End
  BY <1>0, <1>1, EventFacts DEF RowsInv, EmitterInv
<1>4. \A f \in ToSet(rows) \cup {e} : ~Precedes(e, f)
  BY <1>0, <1>1, EffectFacts
<1>5. Replayed(s)' = Replayed(s)
  BY <1>1 DEF Replayed
<1>6. ReplayInv(s)' /\ OutputInv(s)'
  BY <1>0, <1>1 DEF ReplayInv, OutputInv, Ordered
<1>7. CASE s \notin subscribed
  <2>1. place[s] \notin Listening /\ queue'[s] = queue[s]
    BY <1>0, <1>1, <1>7 DEF OutputInv
  <2> QED
    BY <1>0, <1>1, <1>6, <2>1 DEF OneStream, BufferInv, CoverInv
<1>8. CASE s \in subscribed
  <2>1. place[s] \in Listening /\ queue'[s] = Append(queue[s], e)
    BY <1>0, <1>1, <1>8 DEF OutputInv
  <2>2. PICK q \in Nat : q = Len(queue[s])
    BY <1>t
  <2>3. /\ DOMAIN queue'[s] = 1..(q + 1)
        /\ queue'[s][q + 1] = e
        /\ \A i \in 1..q : queue'[s][i] = queue[s][i]
        /\ ToSet(queue'[s]) = ToSet(queue[s]) \cup {e}
    BY <1>t, <2>1, <2>2, AppendElements
  <2>4. BufferInv(s)'
    <3>1. ToSet(queue'[s]) \subseteq ToSet(rows') \cup {End}
      BY <1>0, <1>1, <1>3, <2>3 DEF BufferInv
    <3>2. place'[s] # "closed"
      BY <1>1, <2>1 DEF Listening
    <3>3. ASSUME NEW k \in DOMAIN queue'[s], queue'[s][k] = End
          PROVE  /\ run = "FINISHED"
                 /\ \A j \in DOMAIN queue'[s] : j > k => queue'[s][j] \notin settled
      <4>1. k \in 1..q /\ queue[s][k] = End
        <5>1. k # q + 1
          BY <1>3, <2>3, <3>3
        <5>2. k \in 1..q
          BY <2>3, <5>1
        <5> QED
          BY <2>3, <3>3, <5>2
      <4>2. /\ run = "FINISHED"
            /\ \A j \in 1..q : j > k => queue[s][j] \notin settled
        BY <1>0, <1>t, <2>2, <4>1 DEF BufferInv
      <4>3. \A j \in DOMAIN queue'[s] : j \in 1..q \/ j = q + 1
        BY <2>3
      <4> QED
        BY <1>3, <2>3, <4>2, <4>3
    <3> QED
      BY <1>1, <3>1, <3>2, <3>3 DEF BufferInv
  <2>5. /\ \A f \in Events : status[f] = "published" => f \in Replayed(s) \cup ToSet(queue[s])
        /\ Ordered(queue[s])
        /\ \A x \in ToSet(queue[s]), f \in Replayed(s) :
              Precedes(x, f) => x \in Replayed(s)
    BY <1>0, <2>1 DEF CoverInv
  <2>6. \A f \in Events : status'[f] = "published" => f \in Replayed(s) \cup ToSet(queue'[s])
    BY <1>2, <2>3, <2>5
  <2>7. Ordered(queue'[s])
    <3>1. \A f \in ToSet(queue[s]) \cup {e} : ~Precedes(e, f)
      BY <1>0, <1>4, PrecedesFacts, EventFacts DEF BufferInv
    <3>2. Ordered(Append(queue[s], e))
      BY <1>t, <2>5, <3>1, OrderedAppend
    <3> QED
      BY <2>1, <3>2
  <2>8. Replayed(s) \subseteq ToSet(rows)
    BY <1>0, <2>1, ReplayedRows
  <2>9. \A x \in ToSet(queue'[s]), f \in Replayed(s) : Precedes(x, f) => x \in Replayed(s)
    BY <1>4, <2>3, <2>5, <2>8
  <2>10. CoverInv(s)'
    BY <1>5, <2>6, <2>7, <2>9 DEF CoverInv, Ordered
  <2> QED
    BY <1>6, <2>4, <2>10 DEF OneStream
<1> QED
  BY <1>7, <1>8

\* The end marker, as a stream s meets it.
LEMMA FinishStream ==
    ASSUME StreamInv, FinishPublish, NEW s \in Streams
    PROVE  OneStream(s)'
<1>0. /\ StreamTypeOK /\ EmitterInv
      /\ BufferInv(s) /\ CoverInv(s) /\ ReplayInv(s) /\ OutputInv(s)
  BY DEF StreamInv, OneStream
<1>t. /\ queue[s] \in Seq(Events \cup {End})
      /\ DOMAIN queue[s] = 1..Len(queue[s]) /\ Len(queue[s]) \in Nat
  BY <1>0 DEF StreamTypeOK
<1>1. /\ queue'[s] = IF s \in subscribed THEN Append(queue[s], End) ELSE queue[s]
      /\ UNCHANGED <<rows, status, run, settled, subscribed, place, replay, seen, out, read>>
      /\ run = "FINISHED"
  BY <1>0 DEF FinishPublish, Publish, EmitterInv
<1>2. Replayed(s)' = Replayed(s)
  BY <1>1 DEF Replayed
<1>3. ReplayInv(s)' /\ OutputInv(s)'
  BY <1>0, <1>1 DEF ReplayInv, OutputInv, Ordered
<1>4. CASE s \notin subscribed
  <2>1. place[s] \notin Listening /\ queue'[s] = queue[s]
    BY <1>0, <1>1, <1>4 DEF OutputInv
  <2> QED
    BY <1>0, <1>1, <1>3, <2>1 DEF OneStream, BufferInv, CoverInv
<1>5. CASE s \in subscribed
  <2>1. place[s] \in Listening /\ queue'[s] = Append(queue[s], End)
    BY <1>0, <1>1, <1>5 DEF OutputInv
  <2>2. PICK q \in Nat : q = Len(queue[s])
    BY <1>t
  <2>z. PICK z \in Events \cup {End} : z = End
    OBVIOUS
  <2>3. /\ DOMAIN queue'[s] = 1..(q + 1)
        /\ queue'[s][q + 1] = End
        /\ \A i \in 1..q : queue'[s][i] = queue[s][i]
        /\ ToSet(queue'[s]) = ToSet(queue[s]) \cup {End}
    <3>1. /\ DOMAIN Append(queue[s], z) = 1..(q + 1)
          /\ Append(queue[s], z)[q + 1] = z
          /\ \A i \in 1..q : Append(queue[s], z)[i] = queue[s][i]
          /\ ToSet(Append(queue[s], z)) = ToSet(queue[s]) \cup {z}
      BY <1>t, <2>2, AppendElements
    <3> QED
      BY <2>1, <2>z, <3>1
  <2>4. End \notin settled
    BY <1>0, EventFacts DEF StreamTypeOK
  <2>5. BufferInv(s)'
    <3>1. ToSet(queue'[s]) \subseteq ToSet(rows') \cup {End}
      BY <1>0, <1>1, <2>3 DEF BufferInv
    <3>2. place'[s] # "closed"
      BY <1>1, <2>1 DEF Listening
    <3>3. ASSUME NEW k \in DOMAIN queue'[s], queue'[s][k] = End,
                 NEW j \in DOMAIN queue'[s], j > k
          PROVE  queue'[s][j] \notin settled
      <4>1. CASE j = q + 1
        BY <2>3, <2>4, <4>1
      <4>2. CASE j # q + 1
        <5>1. j \in 1..q /\ k \in 1..q
          BY <2>3, <3>3, <4>2
        <5>2. queue[s][k] = End /\ queue'[s][j] = queue[s][j]
          BY <2>3, <3>3, <5>1
        <5> QED
          BY <1>0, <1>t, <2>2, <3>3, <5>1, <5>2 DEF BufferInv
      <4> QED
        BY <4>1, <4>2
    <3> QED
      BY <1>1, <3>1, <3>2, <3>3 DEF BufferInv
  <2>6. /\ \A f \in Events : status[f] = "published" => f \in Replayed(s) \cup ToSet(queue[s])
        /\ Ordered(queue[s])
        /\ \A x \in ToSet(queue[s]), f \in Replayed(s) :
              Precedes(x, f) => x \in Replayed(s)
    BY <1>0, <2>1 DEF CoverInv
  <2>7. \A f : ~Precedes(End, f)
    BY PrecedesFacts, EventFacts
  <2>8. Ordered(queue'[s])
    <3>1. Ordered(Append(queue[s], z))
      BY <1>t, <2>6, <2>7, <2>z, OrderedAppend
    <3> QED
      BY <2>1, <2>z, <3>1
  <2>9. CoverInv(s)'
    BY <1>1, <1>2, <2>3, <2>6, <2>7, <2>8 DEF CoverInv, Ordered
  <2> QED
    BY <1>3, <2>5, <2>9 DEF OneStream
<1> QED
  BY <1>4, <1>5

\* The steps of the run, as a stream s meets them.
LEMMA RunStepStream ==
    ASSUME StreamInv, RunStep, NEW s \in Streams
    PROVE  OneStream(s)'
<1>0. StreamTypeOK /\ EmitterInv /\ OneStream(s)
  BY DEF StreamInv
<1>1. ASSUME NEW e \in Events, AppendAborted(e)
      PROVE  OneStream(s)'
  <2>1. \A f \in Events : status'[f] = "published" => status[f] = "published"
    BY <1>0, <1>1 DEF AppendAborted, StatusTo, StreamTypeOK
  <2>2. UNCHANGED <<rows, run, settled, subscribed, queue, place, replay, seen, out, read>>
    BY <1>1 DEF AppendAborted, client
  <2> QED
    BY <1>0, <2>1, <2>2, StreamUntouched
<1>2. CASE RunRaises
  <2>1. \A f \in Events : status'[f] = "published" => status[f] = "published"
    BY <1>2 DEF RunRaises
  <2>2. UNCHANGED <<rows, run, settled, subscribed, queue, place, replay, seen, out, read>>
    BY <1>2 DEF RunRaises, client
  <2> QED
    BY <1>0, <2>1, <2>2, StreamUntouched
<1>3. CASE FailureLost \/ \E b \in Branches : BranchEnds(b)
  <2>1. UNCHANGED <<rows, status, run, settled,
                    subscribed, queue, place, replay, seen, out, read>>
    BY <1>3 DEF FailureLost, BranchEnds, client
  <2> QED
    BY <1>0, <2>1, StreamUntouched
<1>4. CASE FinishCommit
  <2>1. /\ run' = "FINISHED"
        /\ UNCHANGED <<rows, status, subscribed, queue, place, replay, seen, out, read>>
        /\ run = "FINISHED" => settled' = settled
    BY <1>4 DEF FinishCommit, client
  <2>2. CASE run = "FINISHED"
    BY <1>0, <2>1, <2>2, StreamUntouched
  <2>3. CASE run # "FINISHED"
    <3>1. Replayed(s)' = Replayed(s)
      BY <2>1 DEF Replayed
    <3>2. CoverInv(s)'
      BY <1>0, <2>1, <3>1 DEF OneStream, CoverInv, Ordered
    <3>3. BufferInv(s)' /\ ReplayInv(s)'
      BY <1>0, <2>1, <2>3 DEF OneStream, BufferInv, ReplayInv
    <3>4. OutputInv(s)'
      BY <1>0, <2>1, <2>3 DEF OneStream, OutputInv, Ordered
    <3> QED
      BY <3>2, <3>3, <3>4 DEF OneStream
  <2> QED
    BY <2>2, <2>3
<1> QED
  BY <1>1, <1>2, <1>3, <1>4, CommitStream, PublishStream, FinishStream DEF RunStep

\* A stream replays the next row.
LEMMA ReplayRowStream ==
    ASSUME StreamInv, NEW s \in Streams, ReplayRow(s)
    PROVE  OneStream(s)'
<1>0. /\ StreamTypeOK /\ RowsInv
      /\ BufferInv(s) /\ CoverInv(s) /\ ReplayInv(s) /\ OutputInv(s)
  BY DEF StreamInv, OneStream
<1>t. /\ rows \in Seq(Events) /\ out[s] \in Seq(Events) /\ replay[s] \in Seq(Events)
      /\ read[s] \in Nat
  BY <1>0 DEF StreamTypeOK
<1> DEFINE e == Head(replay[s])
<1>1. /\ place[s] = "replaying" /\ replay[s] # <<>>
      /\ replay'[s] = Tail(replay[s]) /\ out'[s] = Append(out[s], e)
      /\ seen'[s] = seen[s] \cup {e}
      /\ UNCHANGED <<rows, status, run, settled, subscribed, queue, place, read>>
  BY <1>0 DEF ReplayRow, Yield, ledger, StreamTypeOK
<1>2. PICK k \in Nat, l \in Nat, m \in Nat, r \in Nat :
         k = Len(out[s]) /\ l = Len(replay[s]) /\ m = Len(rows) /\ r = read[s]
  BY <1>t
<1>3. /\ e \in Events /\ e = replay[s][1] /\ l >= 1
      /\ Len(Tail(replay[s])) = l - 1
      /\ \A i \in 1..(l - 1) : Tail(replay[s])[i] = replay[s][i + 1]
      /\ ToSet(replay[s]) = ToSet(Tail(replay[s])) \cup {e}
  BY <1>t, <1>1, <1>2, TailElements
<1> HIDE DEF e
<1>4. /\ Len(Append(out[s], e)) = k + 1
      /\ Append(out[s], e)[k + 1] = e
      /\ \A i \in 1..k : Append(out[s], e)[i] = out[s][i]
      /\ ToSet(Append(out[s], e)) = ToSet(out[s]) \cup {e}
  BY <1>t, <1>2, <1>3, AppendElements
<1>5. /\ k + l = r /\ r <= m
      /\ \A i \in 1..k : out[s][i] = rows[i]
      /\ \A i \in 1..l : replay[s][i] = rows[k + i]
  BY <1>0, <1>1, <1>2 DEF ReplayInv
<1>6. k + 1 \in 1..m /\ 1 \in 1..l
  BY <1>3, <1>5
<1>7. e = rows[k + 1]
  BY <1>3, <1>5, <1>6
<1>d. DOMAIN rows = 1..m /\ DOMAIN out[s] = 1..k
  BY <1>t, <1>2
<1>8. e \in ToSet(rows)
  BY <1>6, <1>7, <1>d DEF ToSet
<1>9. ASSUME NEW i \in 1..k
      PROVE  out[s][i] # e /\ ~Precedes(e, out[s][i])
  <2>1. i \in DOMAIN rows /\ k + 1 \in DOMAIN rows /\ i # k + 1 /\ ~(k + 1 < i)
    BY <1>5, <1>6, <1>d
  <2>2. rows[i] # rows[k + 1]
    BY <1>0, <2>1 DEF RowsInv, IsInjective
  <2>3. ~Precedes(rows[k + 1], rows[i])
    BY <1>0, <2>1 DEF RowsInv, Ordered
  <2> QED
    BY <1>5, <1>7, <2>2, <2>3
<1>10. e \notin ToSet(out[s]) /\ \A f \in ToSet(out[s]) \cup {e} : ~Precedes(e, f)
  BY <1>9, <1>d, PrecedesFacts DEF ToSet
<1>11. IsInjective(Append(out[s], e)) /\ Ordered(Append(out[s], e))
  BY <1>0, <1>t, <1>3, <1>10, InjectiveAppend, OrderedAppend DEF OutputInv
<1>12. OutputInv(s)'
  BY <1>0, <1>1, <1>4, <1>8, <1>11 DEF OutputInv, Ordered
<1>13. Replayed(s)' = Replayed(s)
  BY <1>1, <1>3, <1>4 DEF Replayed
<1>14. CoverInv(s)'
  BY <1>0, <1>1, <1>13 DEF CoverInv, Ordered
<1>15. BufferInv(s)'
  BY <1>0, <1>1 DEF BufferInv
<1>16. /\ Len(out'[s]) + Len(replay'[s]) = read'[s] /\ read'[s] <= Len(rows')
       /\ \A i \in 1..Len(out'[s]) : out'[s][i] = rows'[i]
       /\ \A i \in 1..Len(replay'[s]) : replay'[s][i] = rows'[Len(out'[s]) + i]
  <2>1. Len(out'[s]) = k + 1 /\ Len(replay'[s]) = l - 1 /\ Len(rows') = m /\ read'[s] = r
    BY <1>1, <1>2, <1>3, <1>4
  <2>2. (k + 1) + (l - 1) = r
    BY <1>5
  <2>3. ASSUME NEW i \in 1..(k + 1)
        PROVE  Append(out[s], e)[i] = rows[i]
    <3>1. i \in 1..k \/ i = k + 1
      OBVIOUS
    <3> QED
      BY <1>4, <1>5, <1>7, <3>1
  <2>4. ASSUME NEW i \in 1..(l - 1)
        PROVE  Tail(replay[s])[i] = rows[(k + 1) + i]
    <3>1. i + 1 \in 1..l /\ k + (i + 1) = (k + 1) + i
      OBVIOUS
    <3>2. replay[s][i + 1] = rows[k + (i + 1)]
      BY <1>5, <3>1
    <3> QED
      BY <1>3, <3>1, <3>2
  <2> QED
    BY <1>1, <1>5, <2>1, <2>2, <2>3, <2>4
<1>17. ReplayInv(s)'
  BY <1>1, <1>16 DEF ReplayInv
<1> QED
  BY <1>12, <1>14, <1>15, <1>17 DEF OneStream

\* A stream takes an event from its queue.
LEMMA TakeEventStream ==
    ASSUME StreamInv, NEW s \in Streams, TakeEvent(s)
    PROVE  OneStream(s)'
<1>0. /\ StreamTypeOK /\ RowsInv
      /\ BufferInv(s) /\ CoverInv(s) /\ ReplayInv(s) /\ OutputInv(s)
  BY DEF StreamInv, OneStream
<1>t. /\ out[s] \in Seq(Events) /\ queue[s] \in Seq(Events \cup {End})
      /\ DOMAIN queue[s] = 1..Len(queue[s]) /\ Len(queue[s]) \in Nat
  BY <1>0 DEF StreamTypeOK
<1>z. ToSet(<<>>) = {}
  BY DEF ToSet
<1> DEFINE e == Head(queue[s])
<1>1. /\ place[s] \in {"draining", "following"} /\ queue[s] # <<>> /\ e # End
      /\ queue'[s] = Tail(queue[s])
      /\ IF e \in seen[s] THEN UNCHANGED <<seen, out>> ELSE Yield(s, e)
      /\ UNCHANGED <<rows, status, run, settled, subscribed, place, replay, read>>
  BY <1>0 DEF TakeEvent, ledger, StreamTypeOK
<1>q. PICK q \in Nat : q = Len(queue[s])
  BY <1>t
<1>2. /\ e \in Events \cup {End} /\ e = queue[s][1]
      /\ DOMAIN Tail(queue[s]) = 1..(q - 1)
      /\ \A i \in 1..(q - 1) : Tail(queue[s])[i] = queue[s][i + 1]
      /\ ToSet(queue[s]) = ToSet(Tail(queue[s])) \cup {e}
  BY <1>t, <1>1, <1>q, TailElements
<1>c. /\ place[s] \in Listening /\ place[s] # "reading" /\ place[s] # "closed"
      /\ place[s] # "replaying" /\ place[s] # "returned" /\ place[s] # "disconnected"
  BY <1>1 DEF Listening
<1>3. PICK base : base = ToSet(out[s])
  OBVIOUS
<1>4. Replayed(s) = base /\ replay[s] = <<>> /\ seen[s] = base
  BY <1>0, <1>c, <1>z, <1>3 DEF Replayed, ReplayInv, OutputInv
<1>5. /\ \A f \in Events : status[f] = "published" => f \in base \cup ToSet(queue[s])
      /\ Ordered(queue[s])
      /\ \A x \in ToSet(queue[s]), f \in base : Precedes(x, f) => x \in base
  BY <1>0, <1>c, <1>4 DEF CoverInv
<1>6. Ordered(Tail(queue[s])) /\ \A x \in ToSet(Tail(queue[s])) : ~Precedes(x, e)
  BY <1>t, <1>1, <1>5, OrderedTail
<1> HIDE DEF e
<1>7. e \in Events /\ e \in ToSet(rows)
  BY <1>0, <1>1, <1>2 DEF BufferInv
<1>8. BufferInv(s)'
  <2>1. ToSet(queue'[s]) \subseteq ToSet(rows') \cup {End}
    BY <1>0, <1>1, <1>2 DEF BufferInv
  <2>2. ASSUME NEW k \in DOMAIN queue'[s], queue'[s][k] = End
        PROVE  /\ run = "FINISHED"
               /\ \A j \in DOMAIN queue'[s] : j > k => queue'[s][j] \notin settled
    <3>1. k \in 1..(q - 1) /\ queue[s][k + 1] = End
      BY <1>1, <1>2, <2>2
    <3>2. k + 1 \in DOMAIN queue[s]
      BY <1>t, <1>q, <3>1
    <3>3. /\ run = "FINISHED"
          /\ \A j \in DOMAIN queue[s] : j > k + 1 => queue[s][j] \notin settled
      BY <1>0, <3>1, <3>2 DEF BufferInv
    <3>4. ASSUME NEW j \in 1..(q - 1), j > k
          PROVE  queue'[s][j] \notin settled
      <4>1. j + 1 \in DOMAIN queue[s] /\ j + 1 > k + 1 /\ queue'[s][j] = queue[s][j + 1]
        BY <1>t, <1>q, <1>1, <1>2, <3>1, <3>4
      <4> QED
        BY <3>3, <4>1
    <3> QED
      BY <1>1, <1>2, <3>3, <3>4
  <2>3. place'[s] # "closed"
    BY <1>1, <1>c
  <2> QED
    BY <1>1, <2>1, <2>2, <2>3 DEF BufferInv
<1>9. ToSet(out'[s]) = base \cup {e} => CoverInv(s)'
  <2> SUFFICES ASSUME ToSet(out'[s]) = base \cup {e}
               PROVE  CoverInv(s)'
    OBVIOUS
  <2>1. Replayed(s)' = base \cup {e}
    BY <1>c, <1>z, <1>1, <1>4 DEF Replayed
  <2>2. \A f \in Events : status[f] = "published" => f \in base \cup {e} \cup ToSet(Tail(queue[s]))
    BY <1>2, <1>5
  <2>3. \A x \in ToSet(Tail(queue[s])), f \in base \cup {e} :
           Precedes(x, f) => x \in base \cup {e}
    BY <1>2, <1>5, <1>6
  <2> QED
    BY <1>1, <1>6, <2>1, <2>2, <2>3 DEF CoverInv, Ordered
<1>10. CASE e \in seen[s]
  <2>1. out' = out /\ seen' = seen
    BY <1>1, <1>10
  <2>2. ToSet(out'[s]) = base \cup {e}
    BY <1>3, <1>4, <1>10, <2>1
  <2>3. ReplayInv(s)' /\ OutputInv(s)'
    BY <1>0, <1>1, <2>1 DEF ReplayInv, OutputInv, Ordered
  <2> QED
    BY <1>8, <1>9, <2>2, <2>3 DEF OneStream
<1>11. CASE e \notin seen[s]
  <2>1. out'[s] = Append(out[s], e) /\ seen'[s] = seen[s] \cup {e}
    BY <1>0, <1>1, <1>11 DEF Yield, StreamTypeOK
  <2>2. ToSet(out'[s]) = base \cup {e}
    BY <1>t, <1>3, <1>7, <2>1, AppendElements
  <2>3. IsInjective(Append(out[s], e))
    BY <1>0, <1>t, <1>3, <1>4, <1>7, <1>11, InjectiveAppend DEF OutputInv
  <2>4. Ordered(Append(out[s], e))
    <3>1. \A f \in ToSet(out[s]) \cup {e} : ~Precedes(e, f)
      BY <1>2, <1>3, <1>4, <1>5, <1>11, PrecedesFacts
    <3>2. Ordered(out[s])
      BY <1>0 DEF OutputInv
    <3> QED
      BY <1>t, <1>7, <3>1, <3>2, OrderedAppend
  <2>5. OutputInv(s)'
    BY <1>0, <1>c, <1>1, <1>3, <1>4, <1>7, <2>1, <2>2, <2>3, <2>4 DEF OutputInv, Ordered
  <2>6. ReplayInv(s)'
    BY <1>0, <1>c, <1>1, <1>3, <2>2 DEF ReplayInv
  <2> QED
    BY <1>8, <1>9, <2>2, <2>5, <2>6 DEF OneStream
<1> QED
  BY <1>10, <1>11

\* The steps of a stream s, as s itself sees them.
LEMMA StreamStepOwn ==
    ASSUME StreamInv, NEW s \in Streams,
           Open(s) \/ StreamStep(s) \/ Disconnect(s)
    PROVE  OneStream(s)'
<1>0. /\ StreamTypeOK /\ EmitterInv /\ RowsInv
      /\ BufferInv(s) /\ CoverInv(s) /\ ReplayInv(s) /\ OutputInv(s)
  BY DEF StreamInv, OneStream
<1>t. /\ rows \in Seq(Events) /\ out[s] \in Seq(Events)
      /\ replay[s] \in Seq(Events)
      /\ queue[s] \in Seq(Events \cup {End})
      /\ DOMAIN queue[s] = 1..Len(queue[s])
  BY <1>0 DEF StreamTypeOK
<1>e. ToSet(<<>>) = {}
  BY DEF ToSet
<1>l. UNCHANGED ledger => UNCHANGED <<rows, status, run, settled>>
  BY DEF ledger
<1>1. CASE Open(s)
  <2>1. /\ place[s] = "closed" /\ place'[s] = "reading" /\ s \in subscribed'
        /\ UNCHANGED <<rows, status, run, settled, queue, replay, seen, out, read>>
    BY <1>0, <1>1, <1>l DEF Open, StreamTo, StreamTypeOK
  <2>2. queue[s] = <<>> /\ replay[s] = <<>> /\ out[s] = <<>>
    BY <1>0, <2>1 DEF BufferInv, ReplayInv
  <2>3. Replayed(s)' = ToSet(rows)
    BY <2>1 DEF Replayed
  <2>4. \A e \in Events : status[e] = "published" => e \in ToSet(rows)
    BY <1>0 DEF RowsInv
  <2>5. CoverInv(s)'
    BY <1>e, <2>1, <2>2, <2>3, <2>4 DEF CoverInv, Ordered
  <2>6. BufferInv(s)'
    BY <1>0, <2>1, <2>2 DEF BufferInv
  <2>7. ReplayInv(s)'
    BY <1>0, <2>1, <2>2 DEF ReplayInv
  <2>8. OutputInv(s)'
    BY <1>0, <2>1 DEF OutputInv, Listening, Ordered
  <2> QED
    BY <2>5, <2>6, <2>7, <2>8 DEF OneStream
<1>2. CASE ReadRows(s)
  <2>1. /\ place[s] = "reading" /\ place'[s] = "replaying" /\ replay'[s] = rows
        /\ read'[s] = Len(rows)
        /\ UNCHANGED <<rows, status, run, settled, subscribed, queue, seen, out>>
    BY <1>0, <1>2, <1>l DEF ReadRows, StreamTo, StreamTypeOK
  <2>2. out[s] = <<>>
    BY <1>0, <2>1 DEF ReplayInv
  <2>3. Replayed(s)' = Replayed(s)
    BY <1>e, <2>1, <2>2 DEF Replayed
  <2>4. CoverInv(s)'
    BY <1>0, <2>1, <2>3 DEF CoverInv, Listening, Ordered
  <2>5. BufferInv(s)'
    BY <1>0, <2>1 DEF BufferInv
  <2>6. /\ Len(out'[s]) + Len(replay'[s]) = read'[s] /\ read'[s] <= Len(rows')
        /\ \A i \in 1..Len(out'[s]) : out'[s][i] = rows'[i]
        /\ \A i \in 1..Len(replay'[s]) : replay'[s][i] = rows'[Len(out'[s]) + i]
    BY <1>t, <2>1, <2>2
  <2>7. ReplayInv(s)'
    BY <2>1, <2>6 DEF ReplayInv
  <2>8. OutputInv(s)'
    BY <1>0, <2>1 DEF OutputInv, Listening, Ordered
  <2> QED
    BY <2>4, <2>5, <2>7, <2>8 DEF OneStream
<1>3. CASE Snapshot(s)
  <2>1. /\ place[s] = "replaying" /\ replay[s] = <<>>
        /\ place'[s] = IF run = "RUNNING" THEN "following" ELSE "draining"
        /\ UNCHANGED <<rows, status, run, settled, subscribed, queue, replay, seen, out, read>>
    BY <1>0, <1>3, <1>l DEF Snapshot, StreamTo, StreamTypeOK
  <2>2. Replayed(s)' = Replayed(s)
    BY <2>1 DEF Replayed
  <2>3. CoverInv(s)'
    BY <1>0, <2>1, <2>2 DEF CoverInv, Listening, Ordered
  <2>4. BufferInv(s)'
    BY <1>0, <2>1 DEF BufferInv
  <2>5. OutputInv(s)'
    BY <1>0, <2>1 DEF OutputInv, Listening, Ordered, StreamTypeOK
  <2>6. PICK k \in Nat, r \in Nat : k = Len(out[s]) /\ r = read[s]
    BY <1>0, <1>t DEF StreamTypeOK
  <2>7. /\ r = k /\ r <= Len(rows) /\ DOMAIN out[s] = 1..k
        /\ \A i \in 1..k : out[s][i] = rows[i]
    BY <1>0, <1>t, <2>1, <2>6 DEF ReplayInv
  <2>8. \A i \in 1..r : rows[i] \in ToSet(out[s])
    BY <2>7 DEF ToSet
  <2>9. ReplayInv(s)'
    BY <2>1, <2>6, <2>7, <2>8 DEF ReplayInv
  <2> QED
    BY <2>3, <2>4, <2>5, <2>9 DEF OneStream
<1>4. CASE StreamReturns(s)
  <2>1. /\ \/ place[s] \in {"draining", "following"} /\ queue[s] # <<>> /\ Head(queue[s]) = End
           \/ place[s] = "draining" /\ queue[s] = <<>>
        /\ place'[s] = "returned" /\ s \notin subscribed'
        /\ UNCHANGED <<rows, status, run, settled, queue, replay, seen, out, read>>
    BY <1>0, <1>4, <1>l DEF StreamReturns, StreamTo, StreamTypeOK
  <2>2. place[s] \in Listening /\ place[s] \in {"draining", "following"}
    BY <2>1 DEF Listening
  <2>3. replay[s] = <<>> /\ Replayed(s) = ToSet(out[s])
    BY <1>0, <1>e, <2>2 DEF ReplayInv, Replayed
  <2>4. run = "FINISHED" /\ \A e \in ToSet(queue[s]) : e \notin settled
    <3>1. CASE queue[s] = <<>>
      BY <1>0, <1>e, <2>1, <3>1 DEF OutputInv
    <3>2. CASE queue[s] # <<>>
      <4>1. 1 \in DOMAIN queue[s] /\ queue[s][1] = End
        BY <1>t, <2>1, <3>2
      <4>2. /\ run = "FINISHED"
            /\ \A j \in DOMAIN queue[s] : j > 1 => queue[s][j] \notin settled
        BY <1>0, <4>1 DEF BufferInv
      <4>3. End \notin settled
        BY <1>0, EventFacts DEF StreamTypeOK
      <4>4. \A j \in DOMAIN queue[s] : j = 1 \/ j > 1
        BY <1>t
      <4> QED
        BY <4>1, <4>2, <4>3, <4>4 DEF ToSet
    <3> QED
      BY <3>1, <3>2
  <2>5. settled \subseteq ToSet(out[s])
    <3>1. \A e \in settled : e \in Events /\ status[e] = "published"
      BY <1>0 DEF EmitterInv, StreamTypeOK
    <3> QED
      BY <1>0, <2>2, <2>3, <2>4, <3>1 DEF CoverInv
  <2>6. BufferInv(s)' /\ CoverInv(s)'
    BY <1>0, <2>1 DEF BufferInv, CoverInv, Listening
  <2>7. ReplayInv(s)'
    BY <1>0, <2>1, <2>2, <2>3 DEF ReplayInv
  <2>8. OutputInv(s)'
    BY <1>0, <2>1, <2>4, <2>5 DEF OutputInv, Listening, Ordered
  <2> QED
    BY <2>6, <2>7, <2>8 DEF OneStream
<1>5. CASE Disconnect(s)
  <2>1. /\ place[s] # "closed" /\ place'[s] = "disconnected" /\ s \notin subscribed'
        /\ UNCHANGED <<rows, status, run, settled, queue, replay, seen, out, read>>
    BY <1>0, <1>5, <1>l DEF Disconnect, StreamTo, StreamTypeOK
  <2>2. BufferInv(s)' /\ CoverInv(s)' /\ ReplayInv(s)' /\ OutputInv(s)'
    BY <1>0, <2>1 DEF BufferInv, CoverInv, ReplayInv, OutputInv, Listening, Ordered
  <2> QED
    BY <2>2 DEF OneStream
<1> QED
  BY <1>1, <1>2, <1>3, <1>4, <1>5, ReplayRowStream, TakeEventStream DEF StreamStep

\* A stream's step is nothing to the others.
LEMMA StreamStepOthers ==
    ASSUME StreamInv, NEW s \in Streams, NEW t \in Streams, t # s,
           Open(s) \/ StreamStep(s) \/ Disconnect(s)
    PROVE  OneStream(t)'
<1>0. StreamTypeOK /\ OneStream(t)
  BY DEF StreamInv
<1>l. UNCHANGED <<rows, status, run, settled>>
  BY ClientSteps DEF ledger
<1>1. CASE Open(s) \/ ReadRows(s) \/ Snapshot(s)
           \/ StreamReturns(s) \/ Disconnect(s)
  <2>1. /\ queue'[t] = queue[t] /\ place'[t] = place[t] /\ replay'[t] = replay[t]
        /\ seen'[t] = seen[t] /\ out'[t] = out[t] /\ read'[t] = read[t]
        /\ t \in subscribed' <=> t \in subscribed
    BY <1>0, <1>1 DEF StreamTypeOK, Open, ReadRows, Snapshot,
       StreamReturns, Disconnect, StreamTo
  <2> QED
    BY <1>0, <1>l, <2>1, StreamUntouched
<1>2. CASE ReplayRow(s) \/ TakeEvent(s)
  <2>1. /\ queue'[t] = queue[t] /\ place'[t] = place[t] /\ replay'[t] = replay[t]
        /\ seen'[t] = seen[t] /\ out'[t] = out[t] /\ read'[t] = read[t]
        /\ t \in subscribed' <=> t \in subscribed
    BY <1>0, <1>2 DEF StreamTypeOK, ReplayRow, TakeEvent, Yield
  <2> QED
    BY <1>0, <1>l, <2>1, StreamUntouched
<1> QED
  BY <1>1, <1>2 DEF StreamStep

----------------------------------------------------------------------------
(* What the table, the queues and the clients of a run hold, wherever each *)
(* emitter is between commit and publication, whoever of them was cut off  *)
(* there, and wherever each stream is in its replay.                       *)
THEOREM StreamInvariance ==
    StreamSpec => []StreamInv
<1>1. StreamInit => StreamInv
  <2> SUFFICES ASSUME StreamInit
               PROVE  StreamInv
    OBVIOUS
  <2>0. ToSet(<<>>) = {} /\ IsInjective(<<>>) /\ Ordered(<<>>)
    BY DEF ToSet, IsInjective, Ordered
  <2>1. StreamTypeOK
    <3>1. finishing \in BOOLEAN
      BY Zenon DEF StreamInit
    <3>2. /\ rows \in Seq(Events) /\ queue \in [Streams -> Seq(Events \cup {End})]
          /\ replay \in [Streams -> Seq(Events)] /\ out \in [Streams -> Seq(Events)]
      BY DEF StreamInit
    <3>3. /\ status \in [Events -> {"none", "adrift", "committed", "published", "silent"}]
          /\ read \in [Streams -> Nat] /\ seen \in [Streams -> SUBSET Events]
          /\ settled \subseteq Events /\ subscribed \subseteq Streams /\ ended \subseteq Branches
      BY DEF StreamInit
    <3>4. place \in [Streams -> {"closed", "reading", "replaying", "following",
                                 "draining", "returned", "disconnected"}]
      BY DEF StreamInit
    <3> QED
      BY <3>1, <3>2, <3>3, <3>4 DEF StreamInit, StreamTypeOK
  <2>2. EmitterInv /\ CleanInv
    BY EventFacts DEF StreamInit, EmitterInv, CleanInv
  <2>3. RowsInv
    BY <2>0 DEF StreamInit, RowsInv
  <2>4. ASSUME NEW s \in Streams
        PROVE  OneStream(s)
    BY <2>0 DEF StreamInit, OneStream, BufferInv, CoverInv, ReplayInv, OutputInv, Listening
  <2> QED
    BY <2>1, <2>2, <2>3, <2>4 DEF StreamInv
<1>2. StreamInv /\ [StreamNext]_streamVars => StreamInv'
  <2> SUFFICES ASSUME StreamInv, [StreamNext]_streamVars
               PROVE  StreamInv'
    OBVIOUS
  <2>1. StreamTypeOK' /\ EmitterInv' /\ CleanInv' /\ RowsInv'
    BY StreamTypeStep, EmitterStep, CleanStep, RowsStep
  <2>2. \A t \in Streams : OneStream(t)'
    <3>1. CASE RunStep
      BY <3>1, RunStepStream
    <3>2. ASSUME NEW s \in Streams, Open(s) \/ StreamStep(s) \/ Disconnect(s)
          PROVE  \A t \in Streams : OneStream(t)'
      BY <3>2, StreamStepOwn, StreamStepOthers
    <3>3. CASE UNCHANGED streamVars
      BY <3>3, StreamUntouched DEF StreamInv, streamVars
    <3> QED
      BY <3>1, <3>2, <3>3 DEF StreamNext
  <2> QED
    BY <2>1, <2>2 DEF StreamInv
<1> QED
  BY <1>1, <1>2, PTL DEF StreamSpec

(* A stream that returns by itself has delivered every row that was in the *)
(* table when it read it and every event published before the run was      *)
(* stored as finished, and when the execution did not raise, all but the   *)
(* rows whose emitter was cut off before publishing them: for any number   *)
(* of nodes, events and clients.                                           *)
THEOREM CompleteOnReturnCorrect ==
    StreamSpec => []CompleteOnReturn
<1>1. StreamInv => CompleteOnReturn
  <2> SUFFICES ASSUME StreamInv, NEW s \in Streams, place[s] = "returned"
               PROVE  /\ ToSet(out[s]) \subseteq ToSet(rows)
                      /\ \A i \in 1..read[s] : rows[i] \in ToSet(out[s])
                      /\ settled \subseteq ToSet(out[s])
                      /\ job \in {"executing", "over"} /\ status[Failed] = "none" =>
                            \A e \in ToSet(rows) \ ToSet(out[s]) : status[e] = "silent"
    BY DEF CompleteOnReturn
  <2>1. /\ ToSet(out[s]) \subseteq ToSet(rows) /\ settled \subseteq ToSet(out[s])
        /\ run = "FINISHED"
    BY DEF StreamInv, OneStream, OutputInv
  <2>2. \A i \in 1..read[s] : rows[i] \in ToSet(out[s])
    BY DEF StreamInv, OneStream, ReplayInv
  <2>3. ASSUME job \in {"executing", "over"}, status[Failed] = "none",
               NEW e \in ToSet(rows), e \notin ToSet(out[s])
        PROVE  status[e] = "silent"
    <3>1. e \in Events /\ status[e] # "none"
      BY <2>3 DEF StreamInv, RowsInv
    <3>2. status[e] \in {"none", "published", "silent"} /\ (status[e] = "published" => e \in settled)
      BY <2>1, <2>3, <3>1 DEF StreamInv, CleanInv
    <3> QED
      BY <2>1, <2>3, <3>1, <3>2
  <2> QED
    BY <2>1, <2>2, <2>3
<1> QED
  BY <1>1, StreamInvariance, PTL

(* Every client receives each event once, causes before effects, although  *)
(* an event committed before the table was read may reach it twice and     *)
(* parallel nodes may publish in another order than they committed.        *)
THEOREM CausalOrderCorrect ==
    StreamSpec => []OnceInCausalOrder
<1>1. StreamInv => OnceInCausalOrder
  BY DEF StreamInv, OneStream, OutputInv, OnceInCausalOrder, Ordered
<1> QED
  BY <1>1, StreamInvariance, PTL

=============================================================================

--------------------------- MODULE WorkerProcess ---------------------------
(***************************************************************************)
(* One call of run_bounded (logic/process.py): the parent coroutine, the    *)
(* child it starts through process_bootstrap.py and, when containment is    *)
(* required, Bubblewrap and worker_isolation_bootstrap.py, the processes    *)
(* the child leaves behind, and the cgroup leased by worker_isolation.py.   *)
(*                                                                          *)
(* The caller may cancel at every await, time may run out in every one of   *)
(* them, and the child may stop, hang, fail or fork at any point.  Bytes,   *)
(* limits and diagnostics are abstracted; which process is signalled, what  *)
(* the parent has read and in which order things happen is kept.            *)
(***************************************************************************)
EXTENDS Naturals, FiniteSets

CONSTANTS Modes,         \* ways of starting a worker that are explored
          MaxCancels     \* bound on the cancellations of one call

(* "portable" is a system without process groups, "unprofiled" a call       *)
(* without isolation request (the logic backends), "development" and         *)
(* "required" the two modes of WorkerIsolationRuntime.                       *)
ASSUME ModesAssumption ==
    Modes \subseteq {"portable", "unprofiled", "development", "required"}
ASSUME MaxCancelsAssumption == MaxCancels \in Nat

VARIABLES
    mode,      \* how this call starts its worker
    pc,        \* where the parent coroutine is
    stage,     \* how far the child came: see Stages
    said,      \* markers the child wrote to the parent
    guards,    \* containment the child really has
    alive,     \* processes of this call that still run
    killed,    \* those that were sent SIGKILL
    holders,   \* those that keep the output pipes open
    cgroup,    \* "none", "made", "swept" (cgroup.kill written), "removed"
    given,     \* the worker's input was written
    outcome,   \* what run_bounded is about to return or raise
    deferred,  \* a cancellation held back during cleanup
    partial,   \* the interrupted spawn killed the leader alone
    cancels    \* cancellations so far

vars == <<mode, pc, stage, said, guards, alive, killed, holders, cgroup, given,
          outcome, deferred, partial, cancels>>
childVars == <<stage, said, guards, holders>>

(* The group leader, a descendant in its process group, and a process       *)
(* outside the group: a descendant with a session of its own or, under       *)
(* Bubblewrap's --new-session, everything inside the sandbox.                *)
Procs == {"leader", "helper", "outside"}

(* "boot": the bootstrap runs; "ready": it wrote its marker; "launcher":     *)
(* Bubblewrap runs; "inside": the inner bootstrap runs in the sandbox;       *)
(* "attested": it wrote its marker; "target": the worker itself runs;        *)
(* "gone": a bootstrap or the launcher gave up.                              *)
Stages == {"none", "boot", "ready", "launcher", "inside", "attested",
           "target", "gone"}
Markers == {"limits_ready", "child_pid", "attested", "failed", "inner_failed"}
AllGuards == {"cgroup", "limits", "namespaces", "inner_limits", "seccomp"}
Failures == {"startup_failed", "timed_out", "output_bound", "cancelled",
             "cleanup_failed", "unprepared"}

(* The processes os.killpg reaches; without groups, the child alone.         *)
Group == IF mode = "portable" THEN {"leader"} ELSE {"leader", "helper"}

(* Everything the child starts after it joined its cgroup stays in it.       *)
Members == IF "cgroup" \in guards THEN alive ELSE alive \ {"leader"}

Enforced == mode = "required"
Prepared == mode \in {"development", "required"}
LeaderRuns == "leader" \in alive \ killed
OutputOpen == alive \cap holders # {}

TypeOK ==
    /\ mode \in Modes
    /\ pc \in {"call", "spawn", "spawnkill", "marker", "inner", "diagnose",
               "talk", "killing", "closing", "ended"}
    /\ stage \in Stages
    /\ said \subseteq Markers
    /\ guards \subseteq AllGuards
    /\ alive \subseteq Procs /\ killed \subseteq Procs /\ holders \subseteq Procs
    /\ cgroup \in {"none", "made", "swept", "removed"}
    /\ outcome \in {"none", "result"} \cup Failures
    /\ given \in BOOLEAN /\ deferred \in BOOLEAN /\ partial \in BOOLEAN
    /\ cancels \in 0..MaxCancels

Init ==
    /\ mode \in Modes
    /\ pc = "call" /\ stage = "none" /\ said = {} /\ guards = {}
    /\ alive = {} /\ killed = {} /\ holders = {}
    /\ cgroup = "none" /\ given = FALSE /\ outcome = "none"
    /\ deferred = FALSE /\ partial = FALSE /\ cancels = 0

-----------------------------------------------------------------------------
(* The parent coroutine. *)

(* The exception in flight reaches the finally clause of run_bounded, which  *)
(* has nothing to close without an isolation request.                        *)
Leave(result) ==
    /\ outcome' = result
    /\ pc' = IF Prepared THEN "closing" ELSE "ended"

(* _kill_process_tree: the signal is sent at once, then the leader is        *)
(* awaited if it was not reaped yet.                                         *)
KillTree(result) ==
    /\ killed' = killed \cup (Group \cap alive)
    /\ IF "leader" \in alive
       THEN /\ pc' = "killing"
            /\ outcome' = result
       ELSE Leave(result)

(* prepare() is synchronous: the deployment, the profile and the read-only   *)
(* roots are validated and the cgroup is created and limited, or the call    *)
(* fails closed.  A half-made cgroup is removed again if its state can be    *)
(* read, and ignored otherwise.                                              *)
Prepare ==
    /\ pc = "call"
    /\ pc' = "spawn"
    /\ cgroup' = IF Enforced THEN "made" ELSE cgroup
    /\ UNCHANGED <<mode, alive, killed, given, outcome, deferred, partial,
                   cancels, childVars>>

PrepareFails ==
    /\ pc = "call" /\ Enforced
    /\ pc' = "ended"
    /\ outcome' = "unprepared"
    /\ cgroup' \in {"none", "made"}
    /\ UNCHANGED <<mode, alive, killed, given, deferred, partial, cancels,
                   childVars>>

(* create_subprocess_exec forks; its coroutine still has to connect the      *)
(* pipes while the child already runs.                                       *)
Fork ==
    /\ pc = "spawn" /\ stage = "none"
    /\ stage' = IF mode = "portable" THEN "target" ELSE "boot"
    /\ alive' = {"leader"}
    /\ holders' = {"leader"}
    /\ UNCHANGED <<mode, pc, said, guards, killed, cgroup, given, outcome,
                   deferred, partial, cancels>>

ForkFails ==
    /\ pc = "spawn" /\ stage = "none"
    /\ Leave("startup_failed")
    /\ UNCHANGED <<mode, alive, killed, cgroup, given, deferred, partial,
                   cancels, childVars>>

SpawnReturns ==
    /\ pc = "spawn" /\ stage # "none"
    /\ pc' = IF mode = "portable" THEN "talk" ELSE "marker"
    /\ UNCHANGED <<mode, alive, killed, cgroup, given, outcome, deferred,
                   partial, cancels, childVars>>

(* What _read_startup_marker returns: a line of Bubblewrap's status, or all  *)
(* that was written until exec or an exit closed the readiness pipe.         *)
ReadinessEnded == stage \in {"target", "gone"} \/ "leader" \notin alive
MarkerArrives ==
    IF Enforced THEN "child_pid" \in said
                ELSE ReadinessEnded /\ said = {"limits_ready"}
MarkerBroken == ~MarkerArrives /\ ReadinessEnded

(* Mutant: the launcher's status line is taken for the attestation. *)
ReadStatusOnly ==
    /\ pc = "marker" /\ MarkerArrives
    /\ pc' = "talk"
    /\ UNCHANGED <<mode, alive, killed, cgroup, given, outcome, deferred,
                   partial, cancels, childVars>>

ReadMarker ==
    /\ pc = "marker" /\ MarkerArrives
    /\ pc' = IF Enforced THEN "inner" ELSE "talk"
    /\ UNCHANGED <<mode, alive, killed, cgroup, given, outcome, deferred,
                   partial, cancels, childVars>>

MarkerRejected ==
    /\ pc = "marker" /\ MarkerBroken
    /\ KillTree("startup_failed")
    /\ UNCHANGED <<mode, alive, cgroup, given, deferred, partial, cancels,
                   childVars>>

(* The inner bootstrap attests on the worker's own output stream.            *)
InnerAttested == "attested" \in said

ReadInnerMarker ==
    /\ pc = "inner" /\ InnerAttested
    /\ pc' = "talk"
    /\ UNCHANGED <<mode, alive, killed, cgroup, given, outcome, deferred,
                   partial, cancels, childVars>>

(* The stream ended before the marker: _isolation_startup_diagnostic kills   *)
(* the group before it waits for the launcher's status and error output.     *)
InnerMissing ==
    /\ pc = "inner" /\ ~InnerAttested /\ ~OutputOpen
    /\ pc' = "diagnose"
    /\ killed' = killed \cup (Group \cap alive)
    /\ UNCHANGED <<mode, alive, cgroup, given, outcome, deferred, partial,
                   cancels, childVars>>

(* Another marker than the expected one: the bootstrap reports its failure.  *)
InnerRejected ==
    /\ pc = "inner" /\ ~InnerAttested /\ "inner_failed" \in said
    /\ KillTree("startup_failed")
    /\ UNCHANGED <<mode, alive, cgroup, given, deferred, partial, cancels,
                   childVars>>

DiagnosisRead ==
    /\ pc = "diagnose" /\ "leader" \notin alive /\ ~OutputOpen
    /\ KillTree("startup_failed")
    /\ UNCHANGED <<mode, alive, cgroup, given, deferred, partial, cancels,
                   childVars>>

(* Startup used up the whole budget although it succeeded. *)
StartedTooLate ==
    /\ pc = "talk" /\ ~given
    /\ KillTree("timed_out")
    /\ UNCHANGED <<mode, alive, cgroup, given, deferred, partial, cancels,
                   childVars>>

(* _communicate_bounded writes the request; a worker that is already dead    *)
(* breaks the pipe, which is ignored.                                        *)
WriteInput ==
    /\ pc = "talk" /\ ~given
    /\ given' = TRUE
    /\ UNCHANGED <<mode, pc, alive, killed, cgroup, outcome, deferred, partial,
                   cancels, childVars>>

(* Mutant: the group is not reaped after a regular end. *)
CollectWithoutKill ==
    /\ pc = "talk" /\ given /\ "leader" \notin alive /\ ~OutputOpen
    /\ Leave("result")
    /\ UNCHANGED <<mode, alive, killed, cgroup, given, deferred, partial,
                   cancels, childVars>>

(* Both streams ended and the leader exited: the rest of its group is killed *)
(* before the result is returned.                                            *)
Collect ==
    /\ pc = "talk" /\ given /\ "leader" \notin alive /\ ~OutputOpen
    /\ KillTree("result")
    /\ UNCHANGED <<mode, alive, cgroup, given, deferred, partial, cancels,
                   childVars>>

OutputExceeded ==
    /\ pc = "talk" /\ given /\ stage = "target"
    /\ KillTree("output_bound")
    /\ UNCHANGED <<mode, alive, cgroup, given, deferred, partial, cancels,
                   childVars>>

Reaped ==
    /\ pc = "killing" /\ "leader" \notin alive
    /\ Leave(outcome)
    /\ UNCHANGED <<mode, alive, killed, cgroup, given, deferred, partial,
                   cancels, childVars>>

(* asyncio closes the transport of an interrupted create_subprocess_exec:    *)
(* it kills and awaits the child alone.                                      *)
AbortSpawn(result) ==
    /\ killed' = killed \cup (alive \cap {"leader"})
    /\ partial' = (stage # "none")
    /\ IF stage = "none" \/ "leader" \notin alive
       THEN Leave(result)
       ELSE pc' = "spawnkill" /\ outcome' = result

SpawnReaped ==
    /\ pc = "spawnkill" /\ "leader" \notin alive
    /\ Leave(outcome)
    /\ UNCHANGED <<mode, alive, killed, cgroup, given, deferred, partial,
                   cancels, childVars>>

(* Mutant: only the startup is bounded. *)
ExpireAtStartup ==
    /\ \/ pc = "spawn" /\ AbortSpawn("startup_failed")
       \/ /\ pc \in {"marker", "inner", "diagnose"}
          /\ KillTree("startup_failed")
          /\ UNCHANGED partial
    /\ UNCHANGED <<mode, alive, cgroup, given, deferred, cancels, childVars>>

(* asyncio.timeout() ends the startup or the conversation. *)
Expire ==
    /\ \/ pc = "spawn" /\ AbortSpawn("startup_failed")
       \/ /\ pc \in {"marker", "inner", "diagnose"}
          /\ KillTree("startup_failed")
          /\ UNCHANGED partial
       \/ pc = "talk" /\ given /\ KillTree("timed_out") /\ UNCHANGED partial
    /\ UNCHANGED <<mode, alive, cgroup, given, deferred, cancels, childVars>>

(* The caller's task is cancelled at the await the parent is suspended in.   *)
Cancel ==
    /\ cancels < MaxCancels
    /\ cancels' = cancels + 1
    /\ \/ pc = "spawn" /\ AbortSpawn("cancelled") /\ UNCHANGED deferred
       \/ /\ pc \in {"marker", "inner", "diagnose"} \/ (pc = "talk" /\ given)
          /\ KillTree("cancelled")
          /\ UNCHANGED <<deferred, partial>>
       \/ /\ pc \in {"killing", "spawnkill"}
          /\ Leave("cancelled")
          /\ UNCHANGED <<killed, deferred, partial>>
       \/ /\ pc = "closing"
          /\ deferred' = TRUE
          /\ UNCHANGED <<pc, killed, outcome, partial>>
    /\ UNCHANGED <<mode, alive, cgroup, given, childVars>>

-----------------------------------------------------------------------------
(* _close_prepared_without_abandoning and _CgroupLease.close. *)

(* Mutant: the held back cancellation is forgotten. *)
EndedAsPlanned == pc' = "ended" /\ outcome' = outcome

Ended ==
    /\ pc' = "ended"
    /\ outcome' = IF deferred THEN "cancelled" ELSE outcome

CloseWithoutCgroup ==
    /\ pc = "closing" /\ cgroup = "none"
    /\ Ended
    /\ UNCHANGED <<mode, alive, killed, cgroup, given, deferred, partial,
                   cancels, childVars>>

CgroupKill ==
    /\ pc = "closing" /\ cgroup = "made"
    /\ cgroup' = "swept"
    /\ killed' = killed \cup Members
    /\ UNCHANGED <<mode, pc, alive, given, outcome, deferred, partial, cancels,
                   childVars>>

CgroupRemoved ==
    /\ pc = "closing" /\ cgroup = "swept" /\ Members = {}
    /\ cgroup' = "removed"
    /\ Ended
    /\ UNCHANGED <<mode, alive, killed, given, deferred, partial, cancels,
                   childVars>>

(* cgroup.kill cannot be written, the members outlive a hundred polls, or    *)
(* rmdir fails: the cleanup error replaces what was in flight, a held back   *)
(* cancellation included.                                                    *)
CleanupFails ==
    /\ pc = "closing" /\ cgroup \in {"made", "swept"}
    /\ pc' = "ended"
    /\ outcome' = "cleanup_failed"
    /\ UNCHANGED <<mode, alive, killed, cgroup, given, deferred, partial,
                   cancels, childVars>>

-----------------------------------------------------------------------------
(* The child and the kernel. *)

parentVars == <<mode, pc, killed, cgroup, given, outcome, deferred, partial,
                cancels>>

(* process_bootstrap.main: join the cgroup, then the limits, then the marker *)
(* or Bubblewrap.  Limits are strict only under containment.                 *)
BootstrapJoins ==
    /\ stage = "boot" /\ LeaderRuns /\ Enforced
    /\ "cgroup" \notin guards /\ cgroup = "made"
    /\ guards' = guards \cup {"cgroup"}
    /\ UNCHANGED <<stage, said, alive, holders, parentVars>>

BootstrapLimits ==
    /\ stage = "boot" /\ LeaderRuns
    /\ Enforced => "cgroup" \in guards
    /\ \/ guards' = guards \cup {"limits"}
       \/ ~Enforced /\ guards' = guards
    /\ IF Enforced
       THEN stage' = "launcher" /\ said' = said
       ELSE stage' = "ready" /\ said' = said \cup {"limits_ready"}
    /\ UNCHANGED <<alive, holders, parentVars>>

BootstrapExecs ==
    /\ stage = "ready" /\ LeaderRuns
    /\ \/ stage' = "target" /\ said' = said
       \/ stage' = "gone" /\ said' = said \cup {"failed"}
    /\ UNCHANGED <<guards, alive, holders, parentVars>>

(* Bubblewrap creates the namespaces and reports the process inside them.    *)
LauncherEnters ==
    /\ stage = "launcher" /\ LeaderRuns
    /\ stage' = "inside"
    /\ said' = said \cup {"child_pid"}
    /\ guards' = guards \cup {"namespaces"}
    /\ alive' = alive \cup {"outside"}
    /\ holders' = holders \cup {"outside"}
    /\ UNCHANGED parentVars

(* worker_isolation_bootstrap.main: limits, seccomp, marker, exec. *)
InsideRuns == "outside" \in alive \ killed
InnerBootstrap ==
    /\ stage = "inside" /\ InsideRuns
    /\ stage' = "attested"
    /\ said' = said \cup {"attested"}
    /\ guards' = guards \cup {"inner_limits", "seccomp"}
    /\ UNCHANGED <<alive, holders, parentVars>>

InnerExecs ==
    /\ stage = "attested" /\ InsideRuns
    /\ \/ stage' = "target" /\ said' = said
       \/ stage' = "gone" /\ said' = said \cup {"inner_failed"}
    /\ UNCHANGED <<guards, alive, holders, parentVars>>

(* A bootstrap or the launcher gives up; the bootstraps say so. *)
StartupGivesUp ==
    /\ \/ stage = "boot" /\ LeaderRuns /\ said' = said \cup {"failed"}
       \/ stage = "launcher" /\ LeaderRuns /\ said' = said
       \/ stage = "inside" /\ InsideRuns /\ said' = said \cup {"inner_failed"}
    /\ stage' = "gone"
    /\ UNCHANGED <<guards, alive, holders, parentVars>>

(* The worker forks a process that stays in the group, or leaves it, and     *)
(* keeps the output pipes or closes them.  Under containment every process   *)
(* of the sandbox is "outside" already.                                      *)
TargetForks ==
    /\ stage = "target" /\ LeaderRuns /\ ~Enforced
    /\ \E p \in {"helper", "outside"} \ alive :
          /\ alive' = alive \cup {p}
          /\ holders' \in {holders \cup {p}, holders \ {p}}
    /\ UNCHANGED <<stage, said, guards, parentVars>>

(* A process ends, by itself or by the kernel's hand. *)
Exit(p) ==
    /\ p \in alive
    /\ alive' = alive \ {p}
    /\ UNCHANGED <<childVars, parentVars>>

(* SIGKILL takes effect. *)
Die(p) ==
    /\ p \in killed
    /\ Exit(p)

(* --die-with-parent and the PID namespace take the sandbox down with the    *)
(* launcher, and the launcher ends with its sandbox.                         *)
DieWithParent ==
    /\ "namespaces" \in guards
    /\ Cardinality(alive) = 1
    /\ alive' = {}
    /\ UNCHANGED <<childVars, parentVars>>

ParentStep ==
    \/ Prepare \/ PrepareFails \/ Fork \/ ForkFails \/ SpawnReturns
    \/ ReadMarker \/ MarkerRejected \/ ReadInnerMarker \/ InnerMissing
    \/ InnerRejected \/ DiagnosisRead \/ StartedTooLate \/ WriteInput
    \/ Collect \/ OutputExceeded \/ Reaped \/ SpawnReaped
Cleanup ==
    CloseWithoutCgroup \/ CgroupKill \/ CgroupRemoved \/ CleanupFails
ChildStep ==
    \/ BootstrapJoins \/ BootstrapLimits \/ BootstrapExecs \/ LauncherEnters
    \/ InnerBootstrap \/ InnerExecs \/ StartupGivesUp \/ TargetForks
    \/ \E p \in Procs : Exit(p)
Kernel == DieWithParent \/ \E p \in Procs : Die(p)

Next == ParentStep \/ Expire \/ Cancel \/ Cleanup \/ ChildStep \/ Kernel

Spec == Init /\ [][Next]_vars

(* The event loop runs the parent and the cleanup task, its clock advances,  *)
(* and SIGKILL ends a process.  Nothing is assumed of the worker.            *)
FairSpec ==
    /\ Spec
    /\ WF_vars(ParentStep) /\ WF_vars(Expire) /\ WF_vars(Cleanup)
    /\ WF_vars(Kernel)
-----------------------------------------------------------------------------
(* Properties. *)

(* The input reaches a worker only after its guarded startup: the parent     *)
(* writes it (_communicate_bounded) only if, under containment, the child    *)
(* really joined its cgroup and runs in its namespaces with limits and       *)
(* seccomp installed, and otherwise only if the bootstrap finished without   *)
(* reporting a failure.  A result labelled linux_enforced comes from such a  *)
(* worker.                                                                   *)
ContainedBeforeInput ==
    given => CASE Enforced -> guards = AllGuards
               [] mode = "portable" -> stage = "target"
               [] OTHER -> said = {"limits_ready"} /\ stage # "boot"

(* However the call ended, every process it started is dead or was sent      *)
(* SIGKILL, and its cgroup is gone, unless the cleanup reports that it       *)
(* failed.  Under containment there is no exception.  Without a cgroup the   *)
(* code signals process groups, so a process outside the group is left out.  *)
(* So is, though SECURITY.md:113 and :174 promise that timeout and           *)
(* cancellation terminate the group, the rest of the group when one of them  *)
(* arrives while create_subprocess_exec is pending: _spawn_limited has no    *)
(* process to kill yet.  Such a survivor was not given the worker's input,   *)
(* and the call does not return a result.                                    *)
OutOfReach ==
    IF Enforced THEN {}
    ELSE (Procs \ Group) \cup (IF partial THEN {"helper"} ELSE {})
NothingLeftBehind ==
    pc = "ended" /\ outcome # "cleanup_failed" =>
        /\ alive \ killed \subseteq OutOfReach
        /\ partial => ~given /\ outcome \in {"startup_failed", "cancelled"}
        /\ outcome # "unprepared" => cgroup \in {"none", "removed"}

(* A cancellation is never lost: a call that was cancelled, once or again    *)
(* while it cleaned up, does not return a result and does not report another *)
(* failure, unless the cleanup itself failed.                                *)
CancelNotSwallowed ==
    pc = "ended" /\ cancels > 0 => outcome \in {"cancelled", "cleanup_failed"}

(* Every call ends, whatever the worker does: it may hang before or after    *)
(* any marker, ignore its input or keep the pipes open.                      *)
CallEnds == <>(pc = "ended")

=============================================================================

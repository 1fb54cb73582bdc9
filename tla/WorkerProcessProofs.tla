------------------------ MODULE WorkerProcessProofs ------------------------
(***************************************************************************)
(* Proofs about WorkerProcess for every mode of starting a worker and any  *)
(* number of cancellations: the input reaches only a contained worker,     *)
(* nothing is left behind, and no cancellation is lost.                    *)
(*                                                                         *)
(* The second part proves AdapterRun, the ledger that these workers and    *)
(* the adapters which start them share: for any budgets, and any number    *)
(* and order of nodes and groups, what one of them took no other is given, *)
(* and what all of them store together stays within the run's budget.      *)
(***************************************************************************)
EXTENDS WorkerProcess, AdapterRun, Integers, TLAPS

\* What is there before the child was forked, and how far it can come.
StageInv ==
    /\ pc = "call" => stage = "none" /\ cgroup = "none" /\ outcome = "none"
    /\ stage = "none" => alive = {} /\ said = {} /\ guards = {}
    /\ mode = "portable" => stage \in {"none", "target"}
    /\ ~Enforced => stage \notin {"launcher", "inside", "attested"} /\ cgroup = "none"
    /\ Enforced => stage # "ready" /\ (pc # "call" => cgroup # "none" \/ pc = "ended")
    /\ pc \in {"marker", "inner", "diagnose", "talk"} => stage # "none"
    /\ ~Enforced => pc \notin {"inner", "diagnose"}
    /\ given => stage # "none" /\ pc \notin {"call", "spawn"}

\* The markers of a contained child mean what they say.
GuardInv ==
    Enforced =>
      /\ stage \in {"launcher", "inside", "attested", "target"} => {"cgroup", "limits"} \subseteq guards
      /\ stage \in {"inside", "attested", "target"} => "namespaces" \in guards
      /\ "attested" \in said \/ stage \in {"attested", "target"} => guards = AllGuards
      /\ pc = "talk" \/ given => "attested" \in said

\* The marker of an uncontained child was read after its startup had ended.
MarkerInv ==
    mode \in {"unprofiled", "development"} =>
      /\ stage = "boot" => said = {}
      /\ stage = "ready" => said = {"limits_ready"}
      /\ pc = "talk" \/ given => ReadinessEnded /\ said = {"limits_ready"}

\* From the signal on, the leader is dead or dying, and so is its group,
\* unless the spawn itself was interrupted.
KilledInv ==
    pc \in {"spawnkill", "killing", "closing", "ended"} =>
      /\ ~LeaderRuns
      /\ "helper" \in alive \ killed => Enforced \/ mode = "portable" \/ partial

\* What a contained call has cleaned up when it ends.
EndInv ==
    Enforced /\ pc = "ended" /\ outcome # "cleanup_failed" =>
      /\ alive \subseteq killed
      /\ outcome # "unprepared" => cgroup = "removed"

\* Where a cancellation is remembered.
CancelInv ==
    cancels > 0 =>
      /\ pc \in {"spawnkill", "killing", "closing", "ended"}
      /\ \/ outcome = "cancelled"
         \/ deferred /\ pc = "closing"
         \/ outcome = "cleanup_failed" /\ pc = "ended"

WorkerInv == TypeOK /\ StageInv /\ GuardInv /\ MarkerInv /\ KilledInv /\ EndInv /\ CancelInv

----------------------------------------------------------------------------
\* The parent coroutine keeps the invariant: whatever ends the call first kills
\* the group.
LEMMA ParentWorkerInv ==
    ASSUME WorkerInv, ParentStep
    PROVE  WorkerInv'
<1> USE DEF WorkerInv, TypeOK, StageInv, GuardInv, MarkerInv, KilledInv, EndInv, CancelInv,
            Enforced, ReadinessEnded, LeaderRuns, childVars, Failures
<1>1. CASE Prepare
  BY <1>1 DEF Prepare
<1>2. CASE PrepareFails
  BY <1>2 DEF PrepareFails
<1>3. CASE Fork
  BY <1>3 DEF Fork, Stages, Procs
<1>4. CASE ForkFails
  BY <1>4 DEF ForkFails, Leave, Prepared
<1>5. CASE SpawnReturns
  BY <1>5 DEF SpawnReturns
<1>6. CASE ReadMarker
  BY <1>6 DEF ReadMarker, MarkerArrives
<1>7. CASE MarkerRejected
  BY <1>7 DEF MarkerRejected, KillTree, Leave, Group, Prepared, Stages
<1>8. CASE ReadInnerMarker
  BY <1>8 DEF ReadInnerMarker, InnerAttested
<1>9. CASE InnerMissing
  BY <1>9 DEF InnerMissing, Group
<1>10. CASE InnerRejected
  BY <1>10 DEF InnerRejected, KillTree, Leave, Group, Prepared
<1>11. CASE DiagnosisRead
  BY <1>11 DEF DiagnosisRead, KillTree, Leave, Group, Prepared
<1>12. CASE StartedTooLate
  BY <1>12 DEF StartedTooLate, KillTree, Leave, Group, Prepared
<1>13. CASE WriteInput
  BY <1>13 DEF WriteInput
<1>14. CASE Collect
  BY <1>14 DEF Collect, KillTree, Leave, Group, Prepared
<1>15. CASE OutputExceeded
  BY <1>15 DEF OutputExceeded, KillTree, Leave, Group, Prepared
<1>16. CASE Reaped
  BY <1>16 DEF Reaped, Leave, Prepared
<1>17. CASE SpawnReaped
  BY <1>17 DEF SpawnReaped, Leave, Prepared
<1> QED
  BY <1>1, <1>2, <1>3, <1>4, <1>5, <1>6, <1>7, <1>8, <1>9, <1>10, <1>11, <1>12, <1>13, <1>14, <1>15, <1>16, <1>17 DEF ParentStep

\* A timeout or a cancellation, at any await.
LEMMA InterruptWorkerInv ==
    ASSUME WorkerInv, Expire \/ Cancel
    PROVE  WorkerInv'
<1> USE DEF WorkerInv, TypeOK, StageInv, GuardInv, MarkerInv, KilledInv, EndInv, CancelInv,
            Enforced, ReadinessEnded, LeaderRuns, childVars, KillTree, AbortSpawn, Leave, Group, Prepared, Failures
<1>1. CASE Expire
  <2>1. CASE pc = "spawn"
    BY <1>1, <2>1 DEF Expire
  <2>2. CASE pc \in {"marker", "inner", "diagnose"}
    BY <1>1, <2>2 DEF Expire
  <2>3. CASE pc = "talk"
    BY <1>1, <2>3 DEF Expire
  <2> QED
    BY <1>1, <2>1, <2>2, <2>3 DEF Expire
<1>2. CASE Cancel
  <2>1. CASE pc = "spawn"
    <3>1. TypeOK'
      BY <1>2, <2>1, MaxCancelsAssumption DEF Cancel
    <3>2. StageInv' /\ GuardInv' /\ MarkerInv'
      BY <1>2, <2>1 DEF Cancel
    <3>3. KilledInv' /\ EndInv'
      BY <1>2, <2>1 DEF Cancel
    <3>4. CancelInv'
      BY <1>2, <2>1 DEF Cancel
    <3> QED
      BY <3>1, <3>2, <3>3, <3>4
  <2>2. CASE pc \in {"marker", "inner", "diagnose", "talk"}
    BY <1>2, <2>2, MaxCancelsAssumption DEF Cancel
  <2>3. CASE pc \in {"killing", "spawnkill"}
    BY <1>2, <2>3, MaxCancelsAssumption DEF Cancel
  <2>4. CASE pc = "closing"
    BY <1>2, <2>4, MaxCancelsAssumption DEF Cancel
  <2> QED
    BY <1>2, <2>1, <2>2, <2>3, <2>4 DEF Cancel
<1> QED
  BY <1>1, <1>2

\* The cleanup sweeps the cgroup before it removes it.
LEMMA CleanupWorkerInv ==
    ASSUME WorkerInv, Cleanup
    PROVE  WorkerInv'
<1> USE DEF WorkerInv, TypeOK, StageInv, GuardInv, MarkerInv, KilledInv, EndInv, CancelInv,
            Enforced, ReadinessEnded, LeaderRuns, childVars, Ended, Members, Failures
<1>1. CASE CloseWithoutCgroup
  BY <1>1 DEF CloseWithoutCgroup
<1>2. CASE CgroupKill
  BY <1>2 DEF CgroupKill
<1>3. CASE CgroupRemoved
  BY <1>3 DEF CgroupRemoved
<1>4. CASE CleanupFails
  BY <1>4 DEF CleanupFails
<1> QED
  BY <1>1, <1>2, <1>3, <1>4 DEF Cleanup

\* The child installs its guards before it says so, and a dead or dying leader
\* starts nothing.
LEMMA ChildWorkerInv ==
    ASSUME WorkerInv, ChildStep \/ Kernel
    PROVE  WorkerInv'
<1> USE DEF WorkerInv, TypeOK, StageInv, GuardInv, MarkerInv, KilledInv, EndInv, CancelInv,
            Enforced, ReadinessEnded, LeaderRuns, childVars, parentVars, Stages, Markers, AllGuards, Procs, InsideRuns
<1>1. CASE BootstrapJoins
  BY <1>1 DEF BootstrapJoins
<1>2. CASE BootstrapLimits
  <2>1. TypeOK' /\ StageInv' /\ KilledInv' /\ EndInv' /\ CancelInv'
    BY <1>2, ZenonT(30) DEF BootstrapLimits
  <2>2. GuardInv'
    BY <1>2 DEF BootstrapLimits
  <2>3. MarkerInv'
    BY <1>2 DEF BootstrapLimits
  <2> QED
    BY <2>1, <2>2, <2>3
<1>3. CASE BootstrapExecs
  BY <1>3 DEF BootstrapExecs
<1>4. CASE LauncherEnters
  BY <1>4 DEF LauncherEnters
<1>5. CASE InnerBootstrap
  <2>1. TypeOK' /\ StageInv' /\ KilledInv' /\ EndInv' /\ CancelInv'
    BY <1>5 DEF InnerBootstrap
  <2>2. GuardInv'
    BY <1>5 DEF InnerBootstrap
  <2>3. MarkerInv'
    BY <1>5 DEF InnerBootstrap
  <2> QED
    BY <2>1, <2>2, <2>3
<1>6. CASE InnerExecs
  <2>1. TypeOK'
    <3>1. said' \subseteq Markers /\ stage' \in Stages
      BY <1>6 DEF InnerExecs
    <3> QED
      BY <1>6, <3>1 DEF InnerExecs
  <2>2. StageInv'
    BY <1>6 DEF InnerExecs
  <2>3. KilledInv' /\ EndInv' /\ CancelInv'
    BY <1>6 DEF InnerExecs
  <2>4. GuardInv'
    BY <1>6 DEF InnerExecs
  <2>5. MarkerInv'
    BY <1>6 DEF InnerExecs
  <2> QED
    BY <2>1, <2>2, <2>3, <2>4, <2>5
<1>7. CASE StartupGivesUp
  <2>1. TypeOK'
    <3>1. said' \subseteq Markers /\ stage' \in Stages
      BY <1>7 DEF StartupGivesUp
    <3> QED
      BY <1>7, <3>1 DEF StartupGivesUp
  <2>2. StageInv'
    BY <1>7 DEF StartupGivesUp
  <2>3. KilledInv' /\ EndInv' /\ CancelInv'
    BY <1>7 DEF StartupGivesUp
  <2>4. GuardInv'
    BY <1>7 DEF StartupGivesUp
  <2>5. MarkerInv'
    BY <1>7 DEF StartupGivesUp
  <2> QED
    BY <2>1, <2>2, <2>3, <2>4, <2>5
<1>8. CASE TargetForks
  BY <1>8 DEF TargetForks
<1>9. ASSUME NEW p \in Procs, Exit(p)
      PROVE  WorkerInv'
  BY <1>9 DEF Exit
<1>10. CASE DieWithParent
  BY <1>10 DEF DieWithParent
<1> QED
  BY <1>1, <1>2, <1>3, <1>4, <1>5, <1>6, <1>7, <1>8, <1>9, <1>10 DEF ChildStep, Kernel, Die

\* WorkerInv is inductive.
THEOREM WorkerInvariance == Spec => []WorkerInv
<1>1. Init => WorkerInv
  <2> SUFFICES ASSUME Init PROVE WorkerInv
    OBVIOUS
  <2>1. TypeOK
    <3>1. given \in BOOLEAN /\ deferred \in BOOLEAN /\ partial \in BOOLEAN
      BY Zenon DEF Init
    <3> QED
      BY <3>1, MaxCancelsAssumption DEF Init, TypeOK, Stages
  <2>2. StageInv /\ GuardInv /\ MarkerInv
    BY DEF Init, StageInv, GuardInv, MarkerInv, Enforced
  <2>3. KilledInv /\ EndInv /\ CancelInv
    BY DEF Init, KilledInv, EndInv, CancelInv
  <2> QED
    BY <2>1, <2>2, <2>3 DEF WorkerInv
<1>2. WorkerInv /\ [Next]_vars => WorkerInv'
  <2> SUFFICES ASSUME WorkerInv, [Next]_vars PROVE WorkerInv'
    OBVIOUS
  <2>1. CASE UNCHANGED vars
    BY <2>1 DEF vars, WorkerInv, TypeOK, StageInv, GuardInv, MarkerInv, KilledInv, EndInv,
                CancelInv, Enforced, ReadinessEnded, LeaderRuns
  <2> QED
    BY <2>1, ParentWorkerInv, InterruptWorkerInv, CleanupWorkerInv, ChildWorkerInv DEF Next
<1> QED
  BY <1>1, <1>2, PTL DEF Spec

(* Type correctness, for any number of cancellations.                      *)
THEOREM TypeCorrect == Spec => []TypeOK
<1>1. WorkerInv => TypeOK
  BY DEF WorkerInv
<1> QED
  BY <1>1, WorkerInvariance, PTL

(* The input is written only to a worker whose startup was completed: all  *)
(* guards are installed under containment, and no failure was reported     *)
(* otherwise.                                                              *)
THEOREM ContainmentCorrect == Spec => []ContainedBeforeInput
<1>1. WorkerInv => ContainedBeforeInput
  BY ModesAssumption
     DEF WorkerInv, TypeOK, StageInv, GuardInv, MarkerInv, ContainedBeforeInput, Enforced,
         ReadinessEnded
<1> QED
  BY <1>1, WorkerInvariance, PTL

\* After an interrupted spawn the input is never written, and the call fails.
PartialInv ==
    partial =>
      /\ pc \in {"spawnkill", "closing", "ended"} /\ ~given
      /\ outcome \in {"startup_failed", "cancelled"} \/ (outcome = "cleanup_failed" /\ pc = "ended")

\* PartialInv is inductive relative to WorkerInv.
LEMMA PartialInvariance == Spec => []PartialInv
<1>1. Init => PartialInv
  BY DEF Init, PartialInv
<1>2. WorkerInv /\ PartialInv /\ [Next]_vars => PartialInv'
  <2> SUFFICES ASSUME WorkerInv, PartialInv, [Next]_vars PROVE PartialInv'
    OBVIOUS
  <2>1. partial \in BOOLEAN /\ deferred \in BOOLEAN /\ given \in BOOLEAN
    BY DEF WorkerInv, TypeOK
  <2>2. pc = "spawn" => ~given
    BY DEF WorkerInv, StageInv
  <2>3. CASE ParentStep
    BY <2>1, <2>3 DEF PartialInv, ParentStep, Prepare, PrepareFails, Fork, ForkFails, SpawnReturns,
       ReadMarker, MarkerRejected, ReadInnerMarker, InnerMissing, InnerRejected, DiagnosisRead,
       StartedTooLate, WriteInput, Collect, OutputExceeded, Reaped, SpawnReaped, Leave, Prepared
  <2>4. CASE Expire
    BY <2>1, <2>2, <2>4 DEF PartialInv, Expire, AbortSpawn, Leave, Prepared
  <2>5. CASE Cancel
    BY <2>1, <2>2, <2>5 DEF PartialInv, Cancel, AbortSpawn, Leave, Prepared
  <2>6. CASE Cleanup
    BY <2>1, <2>6 DEF PartialInv, Cleanup, CloseWithoutCgroup, CgroupKill, CgroupRemoved,
       CleanupFails, Ended
  <2>7. CASE ChildStep \/ Kernel
    BY <2>7 DEF PartialInv, ChildStep, Kernel, BootstrapJoins, BootstrapLimits, BootstrapExecs,
       LauncherEnters, InnerBootstrap, InnerExecs, StartupGivesUp, TargetForks, Exit, Die,
       DieWithParent, parentVars
  <2>8. CASE UNCHANGED vars
    BY <2>8 DEF PartialInv, vars
  <2> QED
    BY <2>3, <2>4, <2>5, <2>6, <2>7, <2>8 DEF Next
<1> QED
  BY <1>1, <1>2, WorkerInvariance, PTL DEF Spec

(* However the call ends, what it started is dead or was killed and its    *)
(* cgroup is removed, up to processes outside the group and to the group   *)
(* of an interrupted spawn, which saw no input.                            *)
THEOREM NothingLeftCorrect == Spec => []NothingLeftBehind
<1>1. WorkerInv /\ PartialInv => NothingLeftBehind
  <2> SUFFICES ASSUME WorkerInv, PartialInv, pc = "ended", outcome # "cleanup_failed"
               PROVE  /\ alive \ killed \subseteq OutOfReach
                      /\ partial => ~given /\ outcome \in {"startup_failed", "cancelled"}
                      /\ outcome # "unprepared" => cgroup \in {"none", "removed"}
    BY Zenon DEF NothingLeftBehind
  <2>1. alive \ killed \subseteq OutOfReach
    BY ModesAssumption
       DEF WorkerInv, TypeOK, StageInv, KilledInv, EndInv, OutOfReach, Enforced,
           LeaderRuns, Group, Procs
  <2>2. partial => ~given /\ outcome \in {"startup_failed", "cancelled"}
    BY DEF PartialInv
  <2>3. outcome # "unprepared" => cgroup \in {"none", "removed"}
    BY DEF WorkerInv, TypeOK, StageInv, EndInv, Enforced
  <2> QED
    BY <2>1, <2>2, <2>3
<1> QED
  BY <1>1, WorkerInvariance, PartialInvariance, PTL

(* A cancelled call ends as cancelled, or reports that its cleanup failed. *)
THEOREM CancelCorrect == Spec => []CancelNotSwallowed
<1>1. WorkerInv => CancelNotSwallowed
  BY DEF WorkerInv, CancelInv, CancelNotSwallowed
<1> QED
  BY <1>1, WorkerInvariance, PTL

----------------------------------------------------------------------------
(* What the adapters and workers of one run may take together (AdapterRun). *)

Amounts == [Fields -> Nat]

CallRecord ==
    [node : Nodes \cup {"none"}, phase : Phases, limit : Nat,
     grouped : BOOLEAN, puts : Seq(Nat), sofar : Nat]

Grouped == {"document", "git_lfs", "media", "youtube", "reader", "remote_reader",
            "cache"}
Branch == [node : Grouped, share : Amounts]

LedgerType ==
    /\ count \in Nat
    /\ used \in Amounts /\ own \in Amounts /\ ceiling \in Amounts
    /\ unchecked \in Amounts
    /\ batch \in Seq(Branch)
    /\ call \in CallRecord
    /\ run \in {"running", "stopped"} /\ raw \in BOOLEAN
    /\ stored \in Nat /\ spent \in Nat
    /\ lost \in [Causes -> Nat]

\* Transfers no record holds.
Missing(l) ==
    l["cancelled"] + l["dropped"] + l["unreported"] + l["form"] + l["deadline"]
Lost == Missing(lost)

\* What was measured before it was stored.
Metered == stored - lost["unmetered"]

\* A call that asked yt-dlp: its worker's transfers are not charged yet.
Reading(c) == c.node = "youtube" /\ c.phase = "provider"
InFlight(c) == IF Reading(c) THEN c.sofar ELSE 0
\* What a call has put into the store and not charged yet.
Kept(c) == IF Reading(c) THEN 0 ELSE c.sofar

(* What is known of a call in progress when the budgets have rem left: its *)
(* limit was not raised, and what it is about to store was measured.       *)
CallInv(c, rem) ==
    /\ c.node # "none"
    /\ c.grouped => c.node \in Grouped
    /\ c.sofar # 0 =>
          Reading(c) \/ (c.node \in {"archive", "browser"} /\ c.phase = "store")
    /\ Reading(c) => c.sofar <= c.limit /\ c.sofar <= ProviderCap
    /\ \/ c.node = "youtube" /\ c.phase \in {"local", "provider"}
       \/ c.node \in {"git_lfs", "connector"} /\ c.phase = "provider"
       => \A f \in Fields : c.limit <= rem[f]
    /\ c.phase = "stream" =>
          /\ c.node = "remote_reader" /\ Len(c.puts) <= 1
          /\ Total(c.puts) <= c.limit
          /\ c.limit <= rem["bytes"] + Total(c.puts)
    /\ c.phase = "store" => c.sofar + Total(c.puts) <= rem["output"]
    /\ c.phase \notin {"stream", "store"} => c.puts = <<>>
    /\ c.phase = "store" /\ c.node \notin {"media", "youtube"} => c.puts # <<>>
    /\ Len(c.puts) <= 2
    /\ Len(c.puts) = 2 => c.node \in {"archive", "browser"}

Room == [f \in Fields |-> Remaining(f)]

(* The branches that have not run yet fit into what the running one, or    *)
(* the run so far, leaves.                                                 *)
Fits(b, base) ==
    \A f \in Fields :
        /\ Len(b) = 1 => \/ b[1].share[f] = 0
                         \/ base[f] + b[1].share[f] <= Limits[f]
        /\ Len(b) = 2 => \/ b[1].share[f] = 0 /\ b[2].share[f] = 0
                         \/ base[f] + b[1].share[f] + b[2].share[f] <= Limits[f]

\* What a run that may go on has recorded.
AccountInv ==
    run = "running" =>
        /\ spent <= Consumed("bytes") + Lost + InFlight(call)
        /\ Metered <= Consumed("output") + Kept(call)
        /\ \A f \in Fields :
              Consumed(f) <= Limits[f] + unchecked[f]

IdleInv ==
    /\ call = NoCall => own = Nothing /\ Len(batch) <= 2 /\ Fits(batch, used)
    /\ run = "stopped" => call = NoCall /\ batch = <<>>

BusyInv ==
    call # NoCall =>
        /\ CallInv(call, Room)
        /\ \A f \in Fields :
              ceiling[f] <= Limits[f] \/ ceiling[f] <= Consumed(f)
        /\ call.grouped => \A f \in Fields : Consumed(f) <= ceiling[f]
        /\ ~call.grouped => batch = <<>>
        /\ Len(batch) <= 1 /\ Fits(batch, ceiling)
        /\ call.node = "http" => own = Nothing

LedgerInv ==
    LedgerType /\ Metered <= MaxOutput /\ AccountInv /\ IdleInv /\ BusyInv

----------------------------------------------------------------------------
\* What AdapterRun assumes of its constants.
LEMMA LedgerConstants ==
    /\ MaxBytes \in Nat /\ MaxOutput \in Nat /\ MaxAttempts \in Nat
    /\ Overshoot \in Nat /\ ProviderCap \in Nat
  BY BudgetAssumption, OvershootAssumption, ProviderCapAssumption

\* What is missing for any cause is an amount.
LEMMA MissingFacts ==
    ASSUME NEW l \in [Causes -> Nat]
    PROVE  Missing(l) \in Nat /\ l["unmetered"] \in Nat
<1>1. \A c \in Causes : l[c] \in Nat
  OBVIOUS
<1>2. /\ l["cancelled"] \in Nat /\ l["dropped"] \in Nat /\ l["unreported"] \in Nat
      /\ l["form"] \in Nat /\ l["deadline"] \in Nat /\ l["unmetered"] \in Nat
  BY <1>1 DEF Causes
<1> QED
  BY <1>2 DEF Missing

WithLoss(l, cause, n) == [l EXCEPT ![cause] = @ + n]

\* What is lost for one cause is missing, or was stored unmeasured.
LEMMA LosingFacts ==
    ASSUME NEW l \in [Causes -> Nat], NEW cause \in Causes, NEW n \in Nat,
           NEW k, k = WithLoss(l, cause, n)
    PROVE  /\ k \in [Causes -> Nat]
           /\ cause # "unmetered" => /\ Missing(k) = Missing(l) + n
                                     /\ k["unmetered"] = l["unmetered"]
           /\ cause = "unmetered" => /\ Missing(k) = Missing(l)
                                     /\ k["unmetered"] = l["unmetered"] + n
<1>1. \A c \in Causes : l[c] \in Nat
  OBVIOUS
<1>2. /\ l["cancelled"] \in Nat /\ l["dropped"] \in Nat /\ l["unreported"] \in Nat
      /\ l["form"] \in Nat /\ l["deadline"] \in Nat /\ l["unmetered"] \in Nat
  BY <1>1 DEF Causes
<1>3. k \in [Causes -> Nat]
  BY <1>1 DEF WithLoss
<1>4. \A c \in Causes : k[c] = IF c = cause THEN l[c] + n ELSE l[c]
  BY DEF WithLoss
<1>5. /\ k["cancelled"] = IF "cancelled" = cause THEN l["cancelled"] + n ELSE l["cancelled"]
      /\ k["dropped"] = IF "dropped" = cause THEN l["dropped"] + n ELSE l["dropped"]
      /\ k["unreported"] = IF "unreported" = cause THEN l["unreported"] + n ELSE l["unreported"]
      /\ k["form"] = IF "form" = cause THEN l["form"] + n ELSE l["form"]
      /\ k["deadline"] = IF "deadline" = cause THEN l["deadline"] + n ELSE l["deadline"]
      /\ k["unmetered"] = IF "unmetered" = cause THEN l["unmetered"] + n ELSE l["unmetered"]
  BY <1>4 DEF Causes
<1>6. \/ cause = "cancelled" \/ cause = "dropped" \/ cause = "unreported"
      \/ cause = "form" \/ cause = "deadline" \/ cause = "unmetered"
  BY DEF Causes
<1>7. /\ cause # "unmetered" => /\ Missing(k) = Missing(l) + n
                                /\ k["unmetered"] = l["unmetered"]
      /\ cause = "unmetered" => /\ Missing(k) = Missing(l)
                                /\ k["unmetered"] = l["unmetered"] + n
  BY <1>2, <1>5, <1>6 DEF Missing
<1> QED
  BY <1>3, <1>7

\* How a loss changes what is missing.
LEMMA LostFacts ==
    ASSUME LedgerType, NEW cause \in Causes, NEW n \in Nat, Loses(cause, n)
    PROVE  /\ lost' \in [Causes -> Nat]
           /\ cause # "unmetered" => /\ Lost' = Lost + n
                                     /\ lost'["unmetered"] = lost["unmetered"]
           /\ cause = "unmetered" => /\ Lost' = Lost
                                     /\ lost'["unmetered"] = lost["unmetered"] + n
<1>1. PICK l \in [Causes -> Nat] : l = lost
  BY DEF LedgerType
<1>2. PICK k : k = WithLoss(l, cause, n)
  OBVIOUS
<1>3. k = lost'
  BY <1>1, <1>2 DEF Loses, WithLoss
<1>4. /\ k \in [Causes -> Nat]
      /\ cause # "unmetered" => /\ Missing(k) = Missing(l) + n
                                /\ k["unmetered"] = l["unmetered"]
      /\ cause = "unmetered" => /\ Missing(k) = Missing(l)
                                /\ k["unmetered"] = l["unmetered"] + n
  BY <1>2, LosingFacts
<1> QED
  BY <1>1, <1>3, <1>4 DEF Lost

\* The two budgets, and amounts of them.
LEMMA AmountFacts ==
    /\ Fields = {"bytes", "output"}
    /\ Limits \in Amounts /\ Limits["bytes"] = MaxBytes
    /\ Limits["output"] = MaxOutput
    /\ Nothing \in Amounts
    /\ \A f \in Fields : Nothing[f] = 0
    /\ \A b, o \in Nat : /\ Use(b, o) \in Amounts
                         /\ Use(b, o)["bytes"] = b
                         /\ Use(b, o)["output"] = o
    /\ \A u, v \in Amounts : /\ Plus(u, v) \in Amounts
                             /\ \A f \in Fields : Plus(u, v)[f] = u[f] + v[f]
<1>1. Fields = {"bytes", "output"}
  BY DEF Fields
<1>2. /\ Limits \in Amounts /\ Limits["bytes"] = MaxBytes
      /\ Limits["output"] = MaxOutput
  BY <1>1, LedgerConstants DEF Limits, Amounts
<1>3. Nothing \in Amounts /\ \A f \in Fields : Nothing[f] = 0
  BY <1>1 DEF Nothing, Amounts
<1>4. ASSUME NEW b \in Nat, NEW o \in Nat
      PROVE  /\ Use(b, o) \in Amounts
             /\ Use(b, o)["bytes"] = b
             /\ Use(b, o)["output"] = o
  BY <1>1 DEF Use, Amounts
<1>5. ASSUME NEW u \in Amounts, NEW v \in Amounts
      PROVE  /\ Plus(u, v) \in Amounts
             /\ \A f \in Fields : Plus(u, v)[f] = u[f] + v[f]
  BY DEF Plus, Amounts
<1> QED
  BY <1>1, <1>2, <1>3, <1>4, <1>5

\* The record of a call with some of its fields replaced.
Update(c, phase, limit, puts, sofar) ==
    [node |-> c.node, phase |-> phase, limit |-> limit, grouped |-> c.grouped,
     puts |-> puts, sofar |-> sofar]

\* A call with other phase, limit and sizes has them, and its node.
LEMMA UpdateFacts ==
    ASSUME NEW c \in CallRecord, NEW phase \in Phases, NEW limit \in Nat,
           NEW puts \in Seq(Nat), NEW sofar \in Nat,
           NEW d, d = Update(c, phase, limit, puts, sofar)
    PROVE  /\ d \in CallRecord
           /\ d.node = c.node /\ d.grouped = c.grouped /\ d.phase = phase
           /\ d.limit = limit /\ d.puts = puts /\ d.sofar = sofar
<1>1. c.node \in Nodes \cup {"none"} /\ c.grouped \in BOOLEAN
  BY DEF CallRecord
<1>2. d \in CallRecord
  BY <1>1 DEF CallRecord, Update
<1>3. /\ d.node = c.node /\ d.phase = phase
      /\ d.limit = limit /\ d.puts = puts /\ d.sofar = sofar
  BY DEF Update
<1>4. d.grouped = c.grouped
  BY Zenon DEF Update
<1> QED
  BY <1>2, <1>3, <1>4

Moved(c, phase, limit) == [c EXCEPT !.phase = phase, !.limit = limit]
Measured(c, phase, puts) == [c EXCEPT !.phase = phase, !.puts = puts]
Returned(c, phase, sofar) == [c EXCEPT !.phase = phase, !.sofar = sofar]
WithPuts(c, puts) == [c EXCEPT !.puts = puts]
WithSofar(c, sofar) == [c EXCEPT !.sofar = sofar]
WithBoth(c, puts, sofar) == [c EXCEPT !.puts = puts, !.sofar = sofar]

\* Each way in which a step changes the call is such an update.
LEMMA ExceptFacts ==
    ASSUME NEW c \in CallRecord, NEW phase \in Phases, NEW limit \in Nat,
           NEW puts \in Seq(Nat), NEW sofar \in Nat
    PROVE  /\ Moved(c, phase, limit) = Update(c, phase, limit, c.puts, c.sofar)
           /\ Measured(c, phase, puts) = Update(c, phase, c.limit, puts, c.sofar)
           /\ Returned(c, phase, sofar) = Update(c, phase, c.limit, c.puts, sofar)
           /\ WithPuts(c, puts) = Update(c, c.phase, c.limit, puts, c.sofar)
           /\ WithSofar(c, sofar) = Update(c, c.phase, c.limit, c.puts, sofar)
           /\ WithBoth(c, puts, sofar) = Update(c, c.phase, c.limit, puts, sofar)
<1> DEFINE e == [node |-> c.node, phase |-> c.phase, limit |-> c.limit,
                 grouped |-> c.grouped, puts |-> c.puts, sofar |-> c.sofar]
<1>0. c = e
  BY DEF CallRecord
<1>1. Moved(c, phase, limit) = Update(c, phase, limit, c.puts, c.sofar)
  <2>1. ASSUME NEW d, d = [e EXCEPT !.phase = phase, !.limit = limit] PROVE d = Update(c, phase, limit, c.puts, c.sofar)
    BY <2>1 DEF Update
  <2> HIDE DEF e
  <2> QED
    BY <1>0, <2>1, Zenon DEF Moved
<1>2. Measured(c, phase, puts) = Update(c, phase, c.limit, puts, c.sofar)
  <2>1. ASSUME NEW d, d = [e EXCEPT !.phase = phase, !.puts = puts] PROVE d = Update(c, phase, c.limit, puts, c.sofar)
    BY <2>1 DEF Update
  <2> HIDE DEF e
  <2> QED
    BY <1>0, <2>1, Zenon DEF Measured
<1>3. Returned(c, phase, sofar) = Update(c, phase, c.limit, c.puts, sofar)
  <2>1. ASSUME NEW d, d = [e EXCEPT !.phase = phase, !.sofar = sofar] PROVE d = Update(c, phase, c.limit, c.puts, sofar)
    BY <2>1 DEF Update
  <2> HIDE DEF e
  <2> QED
    BY <1>0, <2>1, Zenon DEF Returned
<1>4. WithPuts(c, puts) = Update(c, c.phase, c.limit, puts, c.sofar)
  <2>1. ASSUME NEW d, d = [e EXCEPT !.puts = puts] PROVE d = Update(c, c.phase, c.limit, puts, c.sofar)
    BY <2>1 DEF Update
  <2> HIDE DEF e
  <2> QED
    BY <1>0, <2>1, Zenon DEF WithPuts
<1>5. WithSofar(c, sofar) = Update(c, c.phase, c.limit, c.puts, sofar)
  <2>1. ASSUME NEW d, d = [e EXCEPT !.sofar = sofar] PROVE d = Update(c, c.phase, c.limit, c.puts, sofar)
    BY <2>1 DEF Update
  <2> HIDE DEF e
  <2> QED
    BY <1>0, <2>1, Zenon DEF WithSofar
<1>6. WithBoth(c, puts, sofar) = Update(c, c.phase, c.limit, puts, sofar)
  <2>1. ASSUME NEW d, d = [e EXCEPT !.puts = puts, !.sofar = sofar] PROVE d = Update(c, c.phase, c.limit, puts, sofar)
    BY <2>1 DEF Update
  <2> HIDE DEF e
  <2> QED
    BY <1>0, <2>1, Zenon DEF WithBoth
<1> HIDE DEF e
<1> QED
  BY <1>1, <1>2, <1>3, <1>4, <1>5, <1>6

\* The sizes a call has still to store.
LEMMA TotalFacts ==
    ASSUME NEW puts \in Seq(Nat), Len(puts) \in 0..2
    PROVE  /\ Total(puts) \in Nat /\ Len(puts) <= 2
           /\ Len(puts) = 0 => puts = <<>> /\ Total(puts) = 0
           /\ Len(puts) = 1 => /\ puts # <<>> /\ puts[1] \in Nat
                               /\ Total(puts) = puts[1]
           /\ Len(puts) = 2 => /\ puts # <<>> /\ puts[1] \in Nat /\ puts[2] \in Nat
                               /\ Total(puts) = puts[1] + puts[2]
<1>1. CASE Len(puts) = 0
  <2>1. puts = <<>>
    BY <1>1
  <2> QED
    BY <1>1, <2>1 DEF Total
<1>2. CASE Len(puts) = 1
  <2>1. puts # <<>> /\ puts[1] \in Nat
    BY <1>2
  <2> QED
    BY <1>2, <2>1 DEF Total
<1>3. CASE Len(puts) = 2
  <2>1. puts # <<>> /\ puts[1] \in Nat
    BY <1>3
  <2>2. 2 \in 1..Len(puts)
    BY <1>3
  <2>3. puts[2] \in Nat
    BY <2>2
  <2>4. Total(puts) = puts[1] + puts[2]
    BY <1>3, <2>1 DEF Total
  <2> QED
    BY <1>3, <2>1, <2>3, <2>4
<1> QED
  BY <1>1, <1>2, <1>3

\* Of one or two sizes, when there are not two there is one.
LEMMA LastSize ==
    ASSUME NEW puts \in Seq(Nat), puts # <<>>, Len(puts) <= 2, Len(puts) # 2
    PROVE  Len(puts) = 1 /\ puts[1] \in Nat /\ Total(puts) = puts[1]
<1>1. PICK k \in Nat : k = Len(puts)
  OBVIOUS
<1>2. k # 0
  BY <1>1
<1>3. k = 1 /\ k \in 0..2
  BY <1>1, <1>2
<1> QED
  BY <1>1, <1>3, TotalFacts

\* The total of at most one size is a size.
LEMMA FewSizes ==
    ASSUME NEW puts \in Seq(Nat), Len(puts) <= 1
    PROVE  Total(puts) \in Nat
<1>1. PICK k \in Nat : k = Len(puts)
  OBVIOUS
<1>2. k \in 0..2
  BY <1>1
<1> QED
  BY <1>1, <1>2, TotalFacts

\* The total of one size is that size.
LEMMA OneLeft ==
    ASSUME NEW puts \in Seq(Nat), Len(puts) = 1
    PROVE  puts[1] \in Nat /\ Total(puts) = puts[1]
<1>1. PICK k \in Nat : k = Len(puts) /\ k = 1
  OBVIOUS
<1>2. k \in 0..2
  BY <1>1
<1> QED
  BY <1>1, <1>2, TotalFacts

\* Two sizes, for an artifact and its derived text.
LEMMA TwoSizes ==
    ASSUME NEW m \in Nat, NEW n \in Nat
    PROVE  \E puts \in Seq(Nat) :
               /\ puts = <<m, n>> /\ Len(puts) = 2 /\ Len(puts) \in 1..2
               /\ Total(puts) = m + n
<1>0. <<m, n>> \in Seq(Nat)
  OBVIOUS
<1>1. PICK puts \in Seq(Nat) : puts = <<m, n>>
  BY <1>0, Zenon
<1>2. Len(puts) = 2 /\ puts[1] = m /\ puts[2] = n
  BY <1>1
<1>3. Len(puts) \in 0..2 /\ Len(puts) \in 1..2
  BY <1>2
<1> QED
  BY <1>1, <1>2, <1>3, TotalFacts

\* After the first of two was stored the second is left.
LEMMA RestSize ==
    ASSUME NEW puts \in Seq(Nat), Len(puts) = 2, NEW rest, rest = Tail(puts)
    PROVE  /\ rest \in Seq(Nat) /\ Len(rest) = 1 /\ rest # <<>>
           /\ Total(rest) = puts[2]
<1>1. rest \in Seq(Nat) /\ Len(rest) = 1
  OBVIOUS
<1>2. rest[1] = puts[2]
  BY <1>1
<1>3. Len(rest) \in 0..2
  BY <1>1
<1> QED
  BY <1>1, <1>2, <1>3, TotalFacts

\* The initial call, and how it is told from one in progress.
LEMMA NoCallFacts ==
    /\ NoCall \in CallRecord
    /\ NoCall.node = "none" /\ NoCall.sofar = 0
    /\ NoCall.puts = <<>> /\ NoCall.phase = "idle"
    /\ ~NoCall.grouped /\ NoCall.limit = 0
    /\ InFlight(NoCall) = 0 /\ Kept(NoCall) = 0
<1>1. PICK no \in BOOLEAN : no = FALSE
  BY Zenon
<1>e. <<>> \in Seq(Nat)
  OBVIOUS
<1>0. PICK none \in Seq(Nat) : none = <<>>
  BY <1>e, Zenon
<1>2. PICK c \in CallRecord :
         c = [node |-> "none", phase |-> "idle", limit |-> 0, grouped |-> no,
              puts |-> none, sofar |-> 0]
  BY DEF CallRecord, Phases
<1>3. c = NoCall
  BY <1>0, <1>1, <1>2, Zenon DEF NoCall
<1>4. c.node = "none" /\ c.sofar = 0 /\ c.puts = <<>> /\ c.phase = "idle" /\ c.limit = 0
  BY <1>0, <1>2
<1>5. ~c.grouped
  BY <1>1, <1>2
<1>6. InFlight(c) = 0 /\ Kept(c) = 0
  BY <1>4 DEF InFlight, Kept, Reading
<1> QED
  BY <1>3, <1>4, <1>5, <1>6

\* What remains: as much as fits under the ceiling, or nothing.
LEMMA RoomFacts ==
    ASSUME LedgerType, NEW f \in Fields
    PROVE  /\ Consumed(f) \in Nat /\ ceiling[f] \in Nat /\ unchecked[f] \in Nat
           /\ Limits[f] \in Nat
           /\ Remaining(f) \in Nat /\ Room[f] = Remaining(f)
           /\ \A n \in Nat : n <= Remaining(f) =>
                 n = 0 \/ Consumed(f) + n <= ceiling[f]
           /\ \A n \in Nat : n > Remaining(f) =>
                 ceiling[f] + n - Remaining(f) <= Consumed(f) + n
<1>0. /\ ceiling[f] \in Nat /\ Limits[f] \in Nat /\ unchecked[f] \in Nat
      /\ Consumed(f) \in Nat
  <2>1. Limits \in Amounts
    BY AmountFacts
  <2>2. used[f] \in Nat /\ own[f] \in Nat /\ ceiling[f] \in Nat /\ unchecked[f] \in Nat
    BY DEF LedgerType, Amounts
  <2>3. Consumed(f) = used[f] + own[f]
    BY DEF Consumed
  <2> QED
    BY <2>1, <2>2, <2>3 DEF Amounts
<1>1. PICK c \in Nat, k \in Nat : c = Consumed(f) /\ k = ceiling[f]
  BY <1>0
<1>2. PICK r \in Nat : r = Remaining(f) /\ r = IF k > c THEN k - c ELSE 0
  BY <1>1 DEF Remaining, Above
<1>3. Room[f] = Remaining(f)
  BY DEF Room
<1>4. /\ \A n \in Nat : n <= r => n = 0 \/ c + n <= k
      /\ \A n \in Nat : n > r => k + n - r <= c + n
  BY <1>2
<1> QED
  BY <1>0, <1>1, <1>2, <1>3, <1>4


(* The attempts' consumption grows by u, which the budgets have left or    *)
(* which no test looked at and is noted as such.                           *)
Charged(u) ==
    \A f \in Fields :
        /\ Consumed(f)' = Consumed(f) + u[f]
        /\ \/ u[f] <= Remaining(f) /\ unchecked'[f] = unchecked[f]
           \/ /\ ~call.grouped /\ u[f] > Remaining(f)
              /\ unchecked'[f] = unchecked[f] + u[f] - Remaining(f)

\* A charge within what remains stays within the limits and the share.
LEMMA ChargeFacts ==
    ASSUME LedgerInv, call # NoCall, NEW u \in Amounts, Charged(u)
    PROVE  /\ run = "running"
           /\ \A f \in Fields :
                /\ Consumed(f)' <= Limits[f] + unchecked'[f]
                /\ Consumed(f) <= Consumed(f)'
                /\ call.grouped => Consumed(f)' <= ceiling[f]
<1>1. run = "running"
  BY DEF LedgerInv, IdleInv, LedgerType
<1> SUFFICES ASSUME NEW f \in Fields
             PROVE  /\ Consumed(f)' <= Limits[f] + unchecked'[f]
                    /\ Consumed(f) <= Consumed(f)'
                    /\ call.grouped => Consumed(f)' <= ceiling[f]
  BY <1>1
<1>2. PICK c \in Nat, k \in Nat, l \in Nat, q \in Nat, r \in Nat, n \in Nat :
         /\ c = Consumed(f) /\ k = ceiling[f] /\ l = Limits[f]
         /\ q = unchecked[f] /\ r = Remaining(f) /\ n = u[f]
  BY RoomFacts DEF LedgerInv, Amounts
<1>3. /\ n <= r => n = 0 \/ c + n <= k
      /\ n > r => k + n - r <= c + n
  BY <1>2, RoomFacts DEF LedgerInv
<1>4. r = IF k > c THEN k - c ELSE 0
  BY <1>2 DEF Remaining, Above
<1>5. /\ Consumed(f)' = c + n
      /\ \/ n <= r /\ unchecked'[f] = q
         \/ ~call.grouped /\ n > r /\ unchecked'[f] = q + n - r
  BY <1>2 DEF Charged
<1>6. /\ c <= l + q /\ (k <= l \/ k <= c) /\ (call.grouped => c <= k)
  BY <1>1, <1>2 DEF LedgerInv, AccountInv, BusyInv
<1>7. CASE n <= r
  <2>1. unchecked'[f] = q
    BY <1>5, <1>7
  <2>2. c + n <= l + q /\ c <= c + n /\ (call.grouped => c + n <= k)
    BY <1>3, <1>4, <1>6, <1>7
  <2> QED
    BY <1>2, <1>5, <2>1, <2>2
<1>8. CASE n > r
  <2>1. unchecked'[f] = q + n - r /\ ~call.grouped
    BY <1>5, <1>8
  <2>2. c + n <= l + (q + n - r) /\ c <= c + n
    BY <1>4, <1>6, <1>8
  <2> QED
    BY <1>2, <1>5, <2>1, <2>2
<1> QED
  BY <1>7, <1>8

\* The running attempt's record grows by u.
OwnGrows(u) == own' = Plus(own, u) /\ UNCHANGED <<used, ceiling, unchecked>>

\* Usage the running attempt records within what remains is such a charge.
LEMMA OwnFacts ==
    ASSUME LedgerType, NEW u \in Amounts, OwnGrows(u),
           \A f \in Fields : u[f] <= Remaining(f)
    PROVE  own' \in Amounts /\ used' \in Amounts /\ Charged(u)
<1>1. used \in Amounts /\ own \in Amounts
  BY DEF LedgerType
<1>2. own' \in Amounts /\ \A f \in Fields : own'[f] = own[f] + u[f]
  BY <1>1, AmountFacts DEF OwnGrows
<1>3. \A f \in Fields : Consumed(f)' = Consumed(f) + u[f]
  <2> SUFFICES ASSUME NEW f \in Fields
               PROVE  Consumed(f)' = Consumed(f) + u[f]
    OBVIOUS
  <2>1. used[f] \in Nat /\ own[f] \in Nat /\ u[f] \in Nat
    BY <1>1 DEF Amounts
  <2>2. Consumed(f)' = used[f] + (own[f] + u[f]) /\ Consumed(f) = used[f] + own[f]
    BY <1>2 DEF Consumed, OwnGrows
  <2> QED
    BY <2>1, <2>2
<1> QED
  BY <1>1, <1>2, <1>3 DEF Charged, OwnGrows

\* A smaller base leaves the waiting branches as much.
LEMMA FitsBelow ==
    ASSUME NEW b \in Seq(Branch), NEW base \in Amounts, NEW lower \in Amounts,
           Fits(b, base), \A f \in Fields : lower[f] <= base[f]
    PROVE  Fits(b, lower)
<1> SUFFICES ASSUME NEW f \in Fields
             PROVE  /\ Len(b) = 1 => \/ b[1].share[f] = 0
                                     \/ lower[f] + b[1].share[f] <= Limits[f]
                    /\ Len(b) = 2 => \/ b[1].share[f] = 0 /\ b[2].share[f] = 0
                                     \/ lower[f] + b[1].share[f] + b[2].share[f] <= Limits[f]
  BY DEF Fits
<1>1. lower[f] \in Nat /\ base[f] \in Nat /\ lower[f] <= base[f] /\ Limits[f] \in Nat
  <2>1. Limits \in Amounts
    BY AmountFacts
  <2> QED
    BY <2>1 DEF Amounts
<1>2. CASE Len(b) = 1
  <2>1. b[1] \in Branch
    BY <1>2
  <2>2. b[1].share[f] \in Nat
    BY <2>1 DEF Branch, Amounts
  <2> QED
    BY <1>1, <1>2, <2>2 DEF Fits
<1>3. CASE Len(b) = 2
  <2>1. b[1] \in Branch /\ b[2] \in Branch
    BY <1>3
  <2>2. PICK x \in Nat, y \in Nat : x = b[1].share[f] /\ y = b[2].share[f]
    BY <2>1 DEF Branch, Amounts
  <2>3. (x = 0 /\ y = 0) \/ base[f] + x + y <= Limits[f]
    BY <1>3, <2>2 DEF Fits
  <2>4. (x = 0 /\ y = 0) \/ lower[f] + x + y <= Limits[f]
    BY ONLY <1>1, <2>3, x \in Nat, y \in Nat
  <2> QED
    BY <1>3, <2>2, <2>4
<1> QED
  BY <1>2, <1>3

\* The variables a step of a call leaves in their types.
RestTyped ==
    /\ count' \in Nat /\ raw' \in BOOLEAN /\ stored' \in Nat /\ spent' \in Nat
    /\ lost' \in [Causes -> Nat] /\ unchecked' \in Amounts

(* A call ends.  Its record and its side effects are accounted for, unless *)
(* the result stops the run.                                               *)
LEMMA SettledInv ==
    ASSUME LedgerInv, call # NoCall,
           NEW u \in Amounts, NEW result, RestTyped,
           \A f \in Fields : used'[f] = Consumed(f) + u[f],
           used' \in Amounts, own' = Nothing, call' = NoCall,
           run' = IF result \in Stopping THEN "stopped" ELSE run,
           batch' = IF result \in Stopping THEN <<>> ELSE batch,
           ceiling' = ceiling, Metered' <= MaxOutput,
           result \notin Stopping =>
               /\ \A f \in Fields :
                    \/ u[f] <= Remaining(f) /\ unchecked'[f] = unchecked[f]
                    \/ /\ ~call.grouped /\ u[f] > Remaining(f)
                       /\ unchecked'[f] = unchecked[f] + u[f] - Remaining(f)
               /\ spent' <= Consumed("bytes") + u["bytes"] + Lost'
               /\ Metered' <= Consumed("output") + u["output"]
    PROVE  LedgerInv'
<1>0. /\ LedgerType /\ batch \in Seq(Branch) /\ <<>> \in Seq(Branch)
      /\ "bytes" \in Fields /\ "output" \in Fields
  BY AmountFacts DEF LedgerInv, LedgerType
<1>1. own' \in Amounts /\ \A f \in Fields : own'[f] = 0
  BY AmountFacts
<1>2. \A f \in Fields : Consumed(f)' = Consumed(f) + u[f]
  <2> SUFFICES ASSUME NEW f \in Fields
               PROVE  Consumed(f)' = Consumed(f) + u[f]
    OBVIOUS
  <2>1. Consumed(f)' = used'[f] + 0
    BY <1>1 DEF Consumed
  <2>2. used'[f] \in Nat
    BY DEF Amounts
  <2> QED
    BY <2>1, <2>2
<1>3. call' \in CallRecord /\ InFlight(call') = 0 /\ Kept(call') = 0
  BY NoCallFacts
<1>4. run = "running"
  BY DEF LedgerInv, IdleInv, LedgerType
<1>5. LedgerType'
  <2>1. run' \in {"running", "stopped"} /\ batch' \in Seq(Branch)
    BY <1>0, <1>4
  <2>2. ceiling' \in Amounts
    BY <1>0 DEF LedgerType
  <2> QED
    BY <1>1, <1>3, <2>1, <2>2 DEF LedgerType, RestTyped
<1>6. BusyInv'
  BY DEF BusyInv
<1>7. CASE result \in Stopping
  <2>1. run' = "stopped" /\ batch' = <<>>
    BY <1>7
  <2>2. AccountInv'
    BY <2>1 DEF AccountInv
  <2>3. IdleInv'
    BY <2>1 DEF IdleInv, Fits
  <2> QED
    BY <1>5, <1>6, <2>2, <2>3 DEF LedgerInv
<1>8. CASE result \notin Stopping
  <2>1. run' = "running" /\ batch' = batch
    BY <1>4, <1>8
  <2>2. Charged(u)
    BY <1>2, <1>8 DEF Charged
  <2>3. \A f \in Fields :
           /\ Consumed(f)' <= Limits[f] + unchecked'[f]
           /\ call.grouped => Consumed(f)' <= ceiling[f]
    BY <2>2, ChargeFacts
  <2>4. AccountInv'
    <3>1. spent' <= Consumed("bytes")' + Lost' /\ Metered' <= Consumed("output")'
      BY <1>0, <1>2, <1>8
    <3>2. /\ Consumed("bytes")' + Lost' \in Nat /\ Consumed("output")' \in Nat
      <4>1. Lost' \in Nat
        BY MissingFacts DEF RestTyped, Lost
      <4>2. Consumed("bytes") + u["bytes"] \in Nat /\ Consumed("output") + u["output"] \in Nat
        BY <1>0, RoomFacts DEF Amounts
      <4> QED
        BY <1>0, <1>2, <4>1, <4>2
    <3>3. /\ spent' <= Consumed("bytes")' + Lost' + InFlight(call')
          /\ Metered' <= Consumed("output")' + Kept(call')
      BY <1>3, <3>1, <3>2
    <3> QED
      BY <2>3, <3>3 DEF AccountInv
  <2>5. IdleInv'
    <3>1. CASE call.grouped
      <4>1. Len(batch) <= 1 /\ Fits(batch, ceiling)
        BY DEF LedgerInv, BusyInv
      <4>2. \A f \in Fields : used'[f] <= ceiling[f]
        BY <1>2, <2>3, <3>1
      <4>3. PICK b \in Seq(Branch) : b = batch
        BY <1>0
      <4>4. PICK base \in Amounts : base = ceiling
        BY <1>0 DEF LedgerType
      <4>5. PICK lower \in Amounts : lower = used'
        OBVIOUS
      <4>6. Fits(b, lower)
        BY <4>1, <4>2, <4>3, <4>4, <4>5, FitsBelow
      <4> QED
        BY <2>1, <4>1, <4>3, <4>5, <4>6, <1>0 DEF IdleInv
    <3>2. CASE ~call.grouped
      <4>1. batch = <<>>
        BY <3>2 DEF LedgerInv, BusyInv
      <4> QED
        BY <2>1, <4>1 DEF IdleInv, Fits
    <3> QED
      BY <3>1, <3>2
  <2> QED
    BY <1>5, <1>6, <2>4, <2>5 DEF LedgerInv
<1> QED
  BY <1>7, <1>8

(* A call goes on with what it knows; nothing it did is left out. *)
LEMMA ProceedsInv ==
    ASSUME LedgerInv, call # NoCall,
           NEW u \in Amounts, RestTyped, Charged(u),
           used' \in Amounts, own' \in Amounts, UNCHANGED <<ceiling, batch, run>>,
           call.node # "http" \/ own' = own,
           call' \in CallRecord, call'.node = call.node, call'.grouped = call.grouped,
           CallInv(call', Room'), Metered' <= MaxOutput,
           spent' <= Consumed("bytes") + u["bytes"] + Lost' + InFlight(call'),
           Metered' <= Consumed("output") + u["output"] + Kept(call')
    PROVE  LedgerInv'
<1>0. /\ LedgerType /\ "bytes" \in Fields /\ "output" \in Fields
  BY AmountFacts DEF LedgerInv
<1>1. run = "running" /\ run' = "running"
  BY ChargeFacts
<1>2. \A f \in Fields :
         /\ Consumed(f)' <= Limits[f] + unchecked'[f]
         /\ Consumed(f) <= Consumed(f)'
         /\ call.grouped => Consumed(f)' <= ceiling[f]
  BY ChargeFacts
<1>3. call' # NoCall
  BY NoCallFacts DEF CallInv
<1>4. LedgerType'
  BY <1>0, <1>1 DEF LedgerType, RestTyped
<1>5. AccountInv'
  <2>1. /\ Consumed("bytes")' = Consumed("bytes") + u["bytes"]
        /\ Consumed("output")' = Consumed("output") + u["output"]
    BY <1>0 DEF Charged
  <2> QED
    BY <1>2, <2>1 DEF AccountInv
<1>6. IdleInv'
  BY <1>1, <1>3 DEF IdleInv
<1>7. BusyInv'
  <2>1. /\ ~call.grouped => batch = <<>>
        /\ Len(batch) <= 1 /\ Fits(batch, ceiling)
        /\ call.node = "http" => own = Nothing
    BY DEF LedgerInv, BusyInv
  <2>2. \A f \in Fields :
           ceiling[f] <= Limits[f] \/ ceiling[f] <= Consumed(f)'
    <3> SUFFICES ASSUME NEW f \in Fields, ~(ceiling[f] <= Limits[f])
                 PROVE  ceiling[f] <= Consumed(f)'
      OBVIOUS
    <3>1. ceiling[f] <= Consumed(f)
      BY DEF LedgerInv, BusyInv
    <3>2. ceiling[f] \in Nat /\ Consumed(f) \in Nat /\ u[f] \in Nat
          /\ Consumed(f)' = Consumed(f) + u[f]
      BY <1>0, RoomFacts DEF Amounts, Charged
    <3> QED
      BY <3>1, <3>2
  <2> QED
    BY <1>2, <2>1, <2>2 DEF BusyInv
<1> QED
  BY <1>4, <1>5, <1>6, <1>7 DEF LedgerInv

----------------------------------------------------------------------------
\* What every step of a call may rely on.
LEMMA CallFacts ==
    ASSUME LedgerInv, call.node # "none"
    PROVE  /\ call # NoCall /\ run = "running"
           /\ LedgerType /\ call \in CallRecord /\ CallInv(call, Room)
           /\ call.phase \notin {"stream", "store"} => call.puts = <<>>
           /\ ~Reading(call) /\ call.phase # "store" => call.sofar = 0
           /\ call.node \notin {"youtube", "archive", "browser"} => call.sofar = 0
           /\ call.sofar \in Nat /\ call.limit \in Nat /\ call.puts \in Seq(Nat)
           /\ spent <= Consumed("bytes") + Lost + InFlight(call)
           /\ Metered <= Consumed("output") + Kept(call)
           /\ Metered <= MaxOutput /\ Lost \in Nat /\ Metered \in Int
<1>1. call # NoCall
  BY NoCallFacts
<1>2. run = "running"
  BY <1>1 DEF LedgerInv, IdleInv, LedgerType
<1>3. LedgerType /\ call \in CallRecord /\ CallInv(call, Room)
  BY <1>1 DEF LedgerInv, LedgerType, BusyInv
<1>4. call.sofar \in Nat /\ call.limit \in Nat /\ call.puts \in Seq(Nat)
  BY <1>3 DEF CallRecord
<1>5. /\ call.phase \notin {"stream", "store"} => call.puts = <<>>
      /\ ~Reading(call) /\ call.phase # "store" => call.sofar = 0
      /\ call.node \notin {"youtube", "archive", "browser"} => call.sofar = 0
  BY <1>3 DEF CallInv, Reading
<1>6. /\ spent <= Consumed("bytes") + Lost + InFlight(call)
      /\ Metered <= Consumed("output") + Kept(call)
      /\ Metered <= MaxOutput
  BY <1>2 DEF LedgerInv, AccountInv
<1>7. Lost \in Nat /\ Metered \in Int
  <2>1. PICK l \in [Causes -> Nat] : l = lost
    BY <1>3 DEF LedgerType
  <2>2. Missing(l) \in Nat /\ l["unmetered"] \in Nat /\ stored \in Nat
    BY <1>3, <2>1, MissingFacts DEF LedgerType
  <2> QED
    BY <2>1, <2>2 DEF Lost, Metered
<1> QED
  BY <1>1, <1>2, <1>3, <1>4, <1>5, <1>6, <1>7

\* How Settles changes the ledger.
LEMMA SettlesFacts ==
    ASSUME LedgerType, NEW u \in Amounts, NEW recorded, NEW result,
           (recorded = own /\ u = Nothing) \/ recorded = Plus(own, u),
           Settles(recorded, result)
    PROVE  /\ used' \in Amounts
           /\ \A f \in Fields : used'[f] = Consumed(f) + u[f]
           /\ own' = Nothing /\ call' = NoCall
           /\ run' = IF result \in Stopping THEN "stopped" ELSE run
           /\ batch' = IF result \in Stopping THEN <<>> ELSE batch
           /\ ceiling' = ceiling /\ unchecked' = unchecked /\ unchecked' \in Amounts
<1>1. used \in Amounts /\ own \in Amounts
  BY DEF LedgerType
<1>2. recorded \in Amounts /\ \A f \in Fields : recorded[f] = own[f] + u[f]
  <2>1. CASE recorded = own /\ u = Nothing
    BY <1>1, <2>1, AmountFacts DEF Amounts
  <2>2. CASE recorded = Plus(own, u)
    BY <1>1, <2>2, AmountFacts
  <2> QED
    BY <2>1, <2>2
<1>3. used' = Plus(used, recorded)
  BY DEF Settles, Closes
<1>4. used' \in Amounts /\ \A f \in Fields : used'[f] = used[f] + recorded[f]
  BY <1>1, <1>2, <1>3, AmountFacts
<1>5. \A f \in Fields : used'[f] = Consumed(f) + u[f]
  <2> SUFFICES ASSUME NEW f \in Fields
               PROVE  used'[f] = Consumed(f) + u[f]
    OBVIOUS
  <2>1. used[f] \in Nat /\ own[f] \in Nat /\ u[f] \in Nat
    BY <1>1 DEF Amounts
  <2> QED
    BY <1>2, <1>4, <2>1 DEF Consumed
<1> QED
  BY <1>4, <1>5 DEF Settles, Closes, LedgerType

\* A call ends with what it has recorded, and nothing is open.
LEMMA EndsInv ==
    ASSUME LedgerInv, call.node # "none", NEW result,
           Ends(result), call.sofar = 0 \/ result \in Stopping
    PROVE  LedgerInv'
<1> DEFINE u == Nothing
<1>0. /\ call # NoCall /\ LedgerType /\ Metered <= MaxOutput /\ Lost \in Nat /\ Metered \in Int
      /\ spent <= Consumed("bytes") + Lost + InFlight(call)
      /\ Metered <= Consumed("output") + Kept(call)
  BY CallFacts
<1>1. /\ u \in Amounts /\ \A f \in Fields : u[f] = 0
      /\ "bytes" \in Fields /\ "output" \in Fields
  BY AmountFacts
<1>2. Settles(own, result) /\ UNCHANGED <<count, raw, stored, spent, lost>>
  BY DEF Ends
<1> HIDE DEF u
<1>3. /\ used' \in Amounts
      /\ \A f \in Fields : used'[f] = Consumed(f) + u[f]
      /\ own' = Nothing /\ call' = NoCall
      /\ run' = IF result \in Stopping THEN "stopped" ELSE run
      /\ batch' = IF result \in Stopping THEN <<>> ELSE batch
      /\ ceiling' = ceiling /\ unchecked' = unchecked /\ unchecked' \in Amounts
  <2>1. PICK recorded : recorded = own
    OBVIOUS
  <2> QED
    BY <1>0, <1>1, <1>2, <2>1, SettlesFacts DEF u
<1>4. RestTyped /\ Lost' = Lost /\ Metered' = Metered
  BY <1>0, <1>2, <1>3 DEF RestTyped, LedgerType, Lost, Metered
<1>5. \A f \in Fields : u[f] <= Remaining(f)
  BY <1>0, <1>1, RoomFacts
<1>6. result \notin Stopping =>
         /\ spent' <= Consumed("bytes") + u["bytes"] + Lost'
         /\ Metered' <= Consumed("output") + u["output"]
  <2> SUFFICES ASSUME call.sofar = 0
               PROVE  /\ spent' <= Consumed("bytes") + u["bytes"] + Lost'
                      /\ Metered' <= Consumed("output") + u["output"]
    OBVIOUS
  <2>1. InFlight(call) = 0 /\ Kept(call) = 0
    BY DEF InFlight, Kept
  <2>2. Consumed("bytes") \in Nat /\ Consumed("output") \in Nat
    BY <1>0, <1>1, RoomFacts
  <2> QED
    BY <1>0, <1>1, <1>2, <1>4, <2>1, <2>2
<1>7. Metered' <= MaxOutput
  BY <1>0, <1>4
<1> QED
  BY <1>0, <1>1, <1>3, <1>4, <1>5, <1>6, <1>7, SettledInv

(* A call ends with u charged, m more bytes moved than were known of, and  *)
(* nothing stored.                                                         *)
LEMMA ChargesInv ==
    ASSUME LedgerInv, call.node # "none", call.phase # "store",
           NEW u \in Amounts, NEW m \in Nat, NEW result,
           Settles(Plus(own, u), result),
           spent' = spent + m, raw' \in BOOLEAN, UNCHANGED <<count, stored, lost>>,
           result \notin Stopping =>
               /\ InFlight(call) + m <= u["bytes"]
               /\ \A f \in Fields : u[f] <= Remaining(f)
    PROVE  LedgerInv'
<1>0. /\ call # NoCall /\ LedgerType /\ Metered <= MaxOutput /\ Lost \in Nat /\ Metered \in Int
      /\ spent <= Consumed("bytes") + Lost + InFlight(call)
      /\ Metered <= Consumed("output") + Kept(call)
  BY CallFacts
<1>1. "bytes" \in Fields /\ "output" \in Fields
  BY AmountFacts
<1>3. /\ used' \in Amounts
      /\ \A f \in Fields : used'[f] = Consumed(f) + u[f]
      /\ own' = Nothing /\ call' = NoCall
      /\ run' = IF result \in Stopping THEN "stopped" ELSE run
      /\ batch' = IF result \in Stopping THEN <<>> ELSE batch
      /\ ceiling' = ceiling /\ unchecked' = unchecked /\ unchecked' \in Amounts
  <2>1. PICK recorded : recorded = Plus(own, u)
    OBVIOUS
  <2> QED
    BY <1>0, <2>1, SettlesFacts
<1>4. RestTyped /\ Lost' = Lost /\ Metered' = Metered
  BY <1>0, <1>3 DEF RestTyped, LedgerType, Lost, Metered
<1>5. result \notin Stopping =>
         /\ spent' <= Consumed("bytes") + u["bytes"] + Lost'
         /\ Metered' <= Consumed("output") + u["output"]
  <2> SUFFICES ASSUME InFlight(call) + m <= u["bytes"]
               PROVE  /\ spent' <= Consumed("bytes") + u["bytes"] + Lost'
                      /\ Metered' <= Consumed("output") + u["output"]
    OBVIOUS
  <2>1. Kept(call) = 0 /\ InFlight(call) \in Nat
    BY CallFacts DEF Kept, InFlight
  <2>2. /\ Consumed("bytes") \in Nat /\ Consumed("output") \in Nat
        /\ u["bytes"] \in Nat /\ u["output"] \in Nat /\ spent \in Nat /\ stored \in Nat
    BY <1>0, <1>1, RoomFacts DEF Amounts, LedgerType
  <2>3. Metered <= Consumed("output") + u["output"]
    BY <1>0, <2>1, <2>2
  <2>4. spent + m <= Consumed("bytes") + u["bytes"] + Lost
    BY <1>0, <2>1, <2>2
  <2> QED
    BY <1>4, <2>3, <2>4
<1>7. Metered' <= MaxOutput
  BY <1>0, <1>4
<1> QED
  BY <1>0, <1>1, <1>3, <1>4, <1>5, <1>7, SettledInv

\* What was measured before it is stored fits the request.
LEMMA StoreFits ==
    ASSUME LedgerInv, call.node # "none", NEW p \in Nat,
           Kept(call) + p <= Remaining("output")
    PROVE  /\ Metered + p <= MaxOutput
           /\ Metered + p <= Consumed("output") + (Kept(call) + p)
<1>0. /\ call # NoCall /\ LedgerType /\ Metered <= MaxOutput
      /\ Metered <= Consumed("output") + Kept(call)
      /\ "output" \in Fields /\ Limits["output"] = MaxOutput
      /\ call.sofar \in Nat /\ Metered \in Int
  BY CallFacts, AmountFacts
<1>1. PICK c \in Nat, k \in Nat, q \in Nat, s \in Int, m \in Nat :
         /\ c = Consumed("output") /\ k = ceiling["output"] /\ q = Kept(call)
         /\ s = Metered /\ m = MaxOutput
  BY <1>0, RoomFacts, LedgerConstants DEF Kept, LedgerType
<1>2. \A n \in Nat : n <= Remaining("output") => n = 0 \/ c + n <= k
  BY <1>0, <1>1, RoomFacts
<1>3. q + p = 0 \/ c + (q + p) <= k
  BY <1>1, <1>2
<1>4. k <= m \/ k <= c
  BY <1>0, <1>1 DEF LedgerInv, BusyInv
<1>5. s <= m /\ s <= c + q
  BY <1>0, <1>1
<1>6. s + p <= m /\ s + p <= c + (q + p)
  BY <1>3, <1>4, <1>5
<1> QED
  BY <1>1, <1>6

\* What was measured grows with what is stored, if nothing is lost.
LEMMA MeteredGrows ==
    ASSUME stored \in Nat, lost \in [Causes -> Nat], NEW p \in Nat,
           stored' = stored + p, UNCHANGED lost
    PROVE  Metered' = Metered + p
<1>1. PICK l \in [Causes -> Nat] : l = lost /\ l = lost'
  OBVIOUS
<1>2. PICK k \in Nat : k = l["unmetered"]
  BY MissingFacts
<1> QED
  BY <1>1, <1>2 DEF Metered

\* A call stores the last of its artifacts and charges all of them.
LEMMA StoresLastInv ==
    ASSUME LedgerInv, call.node # "none", call.phase = "store",
           NEW p \in Nat, NEW q \in Nat, q = Kept(call) + p,
           q <= Remaining("output"), NEW result, NEW recorded,
           recorded = Plus(own, Use(0, q)),
           Settles(recorded, result),
           stored' = stored + p, UNCHANGED <<count, raw, spent, lost>>
    PROVE  LedgerInv'
<1>0. /\ call # NoCall /\ LedgerType /\ Lost \in Nat /\ Metered \in Int /\ call.sofar \in Nat
      /\ spent <= Consumed("bytes") + Lost + InFlight(call)
  BY CallFacts
<1>1. "bytes" \in Fields /\ "output" \in Fields
      /\ \A f \in Fields : f = "bytes" \/ f = "output"
  BY AmountFacts
<1>3. PICK u \in Amounts : u = Use(0, q) /\ u["bytes"] = 0 /\ u["output"] = q
  BY AmountFacts
<1>4. /\ used' \in Amounts
      /\ \A f \in Fields : used'[f] = Consumed(f) + u[f]
      /\ own' = Nothing /\ call' = NoCall
      /\ run' = IF result \in Stopping THEN "stopped" ELSE run
      /\ batch' = IF result \in Stopping THEN <<>> ELSE batch
      /\ ceiling' = ceiling /\ unchecked' = unchecked /\ unchecked' \in Amounts
  BY <1>0, <1>3, SettlesFacts
<1>5. /\ Metered' <= MaxOutput
      /\ Metered' <= Consumed("output") + u["output"]
  <2>1. Metered' = Metered + p
    BY <1>0, MeteredGrows DEF LedgerType
  <2> QED
    BY <1>3, <2>1, StoreFits
<1>6. RestTyped /\ Lost' = Lost
  BY <1>0, <1>4 DEF RestTyped, LedgerType, Lost
<1>7. spent' <= Consumed("bytes") + u["bytes"] + Lost'
  <2>1. InFlight(call) = 0
    BY DEF InFlight, Reading
  <2>2. Consumed("bytes") \in Nat
    BY <1>0, <1>1, RoomFacts
  <2> QED
    BY <1>0, <1>3, <1>6, <2>1, <2>2
<1>8. \A f \in Fields : u[f] <= Remaining(f)
  <2>1. u["bytes"] <= Remaining("bytes")
    BY <1>0, <1>1, <1>3, RoomFacts
  <2>2. u["output"] <= Remaining("output")
    BY <1>3
  <2> QED
    BY <1>1, <2>1, <2>2
<1> QED
  BY <1>0, <1>1, <1>4, <1>5, <1>6, <1>7, <1>8, SettledInv

(* A call ends with nothing but its record, and what it moved is lost for  *)
(* the stated cause.                                                       *)
LEMMA LosesInv ==
    ASSUME LedgerInv, call.node # "none", Kept(call) = 0, NEW result,
           Settles(own, result), NEW cause \in Causes \ {"unmetered"},
           NEW l \in Nat, NEW m \in Nat, InFlight(call) + m <= l,
           spent' = spent + m, Loses(cause, l), raw' \in BOOLEAN,
           UNCHANGED <<count, stored>>
    PROVE  LedgerInv'
<1>0. /\ call # NoCall /\ LedgerType /\ Metered <= MaxOutput /\ Lost \in Nat /\ Metered \in Int
      /\ spent <= Consumed("bytes") + Lost + InFlight(call)
      /\ Metered <= Consumed("output") + Kept(call)
      /\ call.sofar \in Nat
  BY CallFacts
<1>1. PICK u \in Amounts : u = Nothing
  BY AmountFacts
<1>2. /\ \A f \in Fields : u[f] = 0
      /\ "bytes" \in Fields /\ "output" \in Fields
  BY <1>1, AmountFacts
<1>3. /\ used' \in Amounts
      /\ \A f \in Fields : used'[f] = Consumed(f) + u[f]
      /\ own' = Nothing /\ call' = NoCall
      /\ run' = IF result \in Stopping THEN "stopped" ELSE run
      /\ batch' = IF result \in Stopping THEN <<>> ELSE batch
      /\ ceiling' = ceiling /\ unchecked' = unchecked /\ unchecked' \in Amounts
  <2>1. PICK recorded : recorded = own
    OBVIOUS
  <2> QED
    BY <1>0, <1>1, <2>1, SettlesFacts
<1>4. lost' \in [Causes -> Nat] /\ Lost' = Lost + l /\ Metered' = Metered
  <2>1. /\ lost' \in [Causes -> Nat] /\ Lost' = Lost + l
        /\ lost'["unmetered"] = lost["unmetered"]
    BY <1>0, LostFacts
  <2> QED
    BY <2>1 DEF Metered
<1>5. RestTyped
  BY <1>0, <1>3, <1>4 DEF RestTyped, LedgerType
<1>6. \A f \in Fields : u[f] <= Remaining(f)
  BY <1>0, <1>2, RoomFacts
<1>7. /\ spent' <= Consumed("bytes") + u["bytes"] + Lost'
      /\ Metered' <= Consumed("output") + u["output"]
  <2>1. /\ Consumed("bytes") \in Nat /\ Consumed("output") \in Nat
        /\ InFlight(call) \in Nat /\ spent \in Nat /\ stored \in Nat
    BY <1>0, <1>2, RoomFacts DEF InFlight, LedgerType
  <2> QED
    BY <1>0, <1>2, <1>4, <2>1
<1>8. Metered' <= MaxOutput
  BY <1>0, <1>4
<1> QED
  BY <1>0, <1>2, <1>3, <1>5, <1>6, <1>7, <1>8, SettledInv

----------------------------------------------------------------------------
\* A call takes a step that touches nothing but its own record.
LEMMA QuietInv ==
    ASSUME LedgerInv, call.node # "none",
           NEW c \in CallRecord, call' = c, c.node = call.node, c.grouped = call.grouped,
           InFlight(c) = InFlight(call), Kept(c) = Kept(call), CallInv(c, Room),
           count' \in Nat,
           UNCHANGED <<used, own, ceiling, batch, run, raw, stored, spent, lost, unchecked>>
    PROVE  LedgerInv'
<1>0. /\ call # NoCall /\ LedgerType /\ Metered <= MaxOutput /\ Lost \in Nat /\ Metered \in Int
      /\ spent <= Consumed("bytes") + Lost + InFlight(call)
      /\ Metered <= Consumed("output") + Kept(call)
  BY CallFacts
<1>1. PICK u \in Amounts : /\ \A f \in Fields : u[f] = 0
                           /\ "bytes" \in Fields /\ "output" \in Fields
  BY AmountFacts
<1>2. \A f \in Fields : Consumed(f)' = Consumed(f)
  BY DEF Consumed
<1>3. Charged(u)
  BY <1>0, <1>1, <1>2, RoomFacts DEF Charged
<1>4. RestTyped /\ used' \in Amounts /\ own' \in Amounts /\ Lost' = Lost /\ Metered' = Metered
  BY <1>0 DEF LedgerType, RestTyped, Lost, Metered
<1>5. Room' = Room
  BY DEF Room, Remaining, Consumed
<1>6. /\ spent' <= Consumed("bytes") + u["bytes"] + Lost' + InFlight(call')
      /\ Metered' <= Consumed("output") + u["output"] + Kept(call')
  <2>1. Consumed("bytes") \in Nat /\ Consumed("output") \in Nat
    BY <1>0, <1>1, RoomFacts
  <2> QED
    BY <1>0, <1>1, <1>4, <2>1
<1> QED
  BY <1>0, <1>3, <1>4, <1>5, <1>6, ProceedsInv

\* A call enters another phase with another limit.
LEMMA GoesOnInv ==
    ASSUME LedgerInv, call.node # "none",
           NEW phase \in Phases, NEW limit \in Nat,
           Opens(phase, limit) \/ GoesOn(phase, limit),
           call.sofar = 0, call.puts = <<>>,
           phase = "stream" => call.node = "remote_reader" /\ limit <= Remaining("bytes"),
           phase = "store" => call.node \in {"media", "youtube"},
           \/ call.node = "youtube" /\ phase \in {"local", "provider"}
           \/ call.node \in {"git_lfs", "connector"} /\ phase = "provider"
           => \A f \in Fields : limit <= Remaining(f)
    PROVE  LedgerInv'
<1>0. /\ LedgerType /\ call \in CallRecord /\ CallInv(call, Room)
      /\ "bytes" \in Fields /\ "output" \in Fields
  BY CallFacts, AmountFacts
<1>o. PICK old \in CallRecord : old = call /\ old.puts \in Seq(Nat) /\ old.sofar \in Nat
  BY <1>0 DEF CallRecord
<1>1. PICK c \in CallRecord :
         /\ c = Update(old, phase, limit, old.puts, old.sofar)
         /\ c.node = call.node /\ c.grouped = call.grouped /\ c.sofar = 0
         /\ c.puts = <<>> /\ c.phase = phase /\ c.limit = limit
  BY <1>o, UpdateFacts
<1>2. /\ call' = c /\ count' \in Nat
      /\ UNCHANGED <<used, own, ceiling, batch, run, raw, stored, spent, lost, unchecked>>
  <2>1. /\ call' = [call EXCEPT !.phase = phase, !.limit = limit] /\ count' \in Nat
        /\ UNCHANGED <<used, own, ceiling, batch, run, raw, stored, spent, lost, unchecked>>
    BY <1>0 DEF Opens, GoesOn, LedgerType
  <2>2. Moved(old, phase, limit) = c
    BY <1>o, <1>1, ExceptFacts
  <2> QED
    BY <1>o, <2>1, <2>2 DEF Moved
<1>3. InFlight(c) = InFlight(call) /\ Kept(c) = Kept(call)
  BY <1>1 DEF InFlight, Kept
<1>4. \A f \in Fields : Room[f] = Remaining(f) /\ Room[f] \in Nat
  BY <1>0, RoomFacts
<1>5. Total(c.puts) = 0 /\ Len(c.puts) = 0
  BY <1>1 DEF Total
<1>6. CallInv(c, Room)
  <2>1. c.grouped => c.node \in Grouped
    BY <1>0, <1>1 DEF CallInv
  <2>2. Reading(c) => c.sofar <= c.limit /\ c.sofar <= ProviderCap
    BY <1>1, LedgerConstants
  <2>3. c.phase = "stream" => c.limit <= Room["bytes"] + 0 /\ 0 <= c.limit
    BY <1>0, <1>1, <1>4
  <2>4. c.phase = "store" => 0 + 0 <= Room["output"]
    BY <1>0, <1>4
  <2>5. /\ \/ c.node = "youtube" /\ c.phase \in {"local", "provider"}
           \/ c.node \in {"git_lfs", "connector"} /\ c.phase = "provider"
        => \A f \in Fields : c.limit <= Room[f]
    BY <1>1, <1>4
  <2>6. c.phase = "stream" => /\ c.node = "remote_reader" /\ Len(c.puts) <= 1
                              /\ Total(c.puts) <= c.limit
                              /\ c.limit <= Room["bytes"] + Total(c.puts)
    BY <1>1, <1>5, <2>3
  <2>7. c.phase = "store" => c.sofar + Total(c.puts) <= Room["output"]
    BY <1>1, <1>5, <2>4
  <2>8. c.phase = "store" => c.node \in {"media", "youtube"}
    BY <1>1
  <2> QED
    BY <1>1, <1>5, <2>1, <2>2, <2>5, <2>6, <2>7, <2>8 DEF CallInv
<1> QED
  BY <1>1, <1>2, <1>3, <1>6, QuietInv

\* What is to be stored was measured.
LEMMA MeasuredInv ==
    ASSUME LedgerInv, call.node # "none",
           NEW puts \in Seq(Nat), Len(puts) \in 1..2,
           Len(puts) = 2 => call.node \in {"archive", "browser"},
           Total(puts) <= Remaining("output"), call.sofar = 0,
           call' = [call EXCEPT !.phase = "store", !.puts = puts],
           UNCHANGED <<count, used, own, ceiling, batch, run, raw, stored, spent, lost, unchecked>>
    PROVE  LedgerInv'
<1>0. /\ LedgerType /\ call \in CallRecord /\ CallInv(call, Room)
      /\ "bytes" \in Fields /\ "output" \in Fields
  BY CallFacts, AmountFacts
<1>o. PICK old \in CallRecord : old = call /\ old.limit \in Nat /\ old.sofar \in Nat
  BY <1>0 DEF CallRecord
<1>s. PICK store \in Phases : store = "store"
  BY DEF Phases
<1>1. PICK c \in CallRecord :
         /\ c = Update(old, store, old.limit, puts, old.sofar)
         /\ c.node = call.node /\ c.grouped = call.grouped /\ c.sofar = 0
         /\ c.puts = puts /\ c.phase = "store" /\ c.limit = call.limit
  BY <1>o, <1>s, UpdateFacts
<1>2. call' = c /\ count' \in Nat
  <2>1. Measured(old, store, puts) = c
    BY <1>o, <1>1, ExceptFacts
  <2> QED
    BY <1>0, <1>o, <1>s, <2>1 DEF LedgerType, Measured
<1>3. InFlight(c) = InFlight(call) /\ Kept(c) = Kept(call)
  BY <1>1 DEF InFlight, Kept
<1>4. Room["output"] = Remaining("output") /\ Room["output"] \in Nat
  BY <1>0, RoomFacts
<1>5. Total(puts) \in Nat /\ puts # <<>> /\ Len(puts) <= 2
  <2>1. Len(puts) \in 0..2 /\ (Len(puts) = 1 \/ Len(puts) = 2)
    OBVIOUS
  <2>2. Len(puts) <= 2
    BY <2>1, TotalFacts, Zenon
  <2>3. Total(puts) \in Nat
    BY <2>1, TotalFacts, Zenon
  <2>4. puts # <<>>
    BY <2>1, TotalFacts, Zenon
  <2> QED
    BY <2>2, <2>3, <2>4
<1>6. CallInv(c, Room)
  <2>1. c.grouped => c.node \in Grouped
    BY <1>0, <1>1 DEF CallInv
  <2>2. c.sofar + Total(c.puts) <= Room["output"]
    BY <1>1, <1>4, <1>5
  <2> QED
    BY <1>1, <1>5, <2>1, <2>2 DEF CallInv, Reading
<1> QED
  BY <1>1, <1>2, <1>3, <1>6, QuietInv

----------------------------------------------------------------------------
\* A call that is not of the provider's or a storing kind has nothing open.
LEMMA Plain ==
    ASSUME LedgerInv, call.node # "none",
           \/ call.node \notin {"youtube", "archive", "browser"}
           \/ call.node = "youtube" /\ call.phase # "provider"
           \/ call.phase \notin {"provider", "store"}
    PROVE  call.sofar = 0 /\ InFlight(call) = 0 /\ Kept(call) = 0
<1>1. CallInv(call, Room)
  BY CallFacts
<1> QED
  BY <1>1 DEF CallInv, Reading, InFlight, Kept

\* A call ends, and what its provider moved is charged to nobody.
LEMMA UnchargedInv ==
    ASSUME LedgerInv, call.node # "none", InFlight(call) = 0, Kept(call) = 0,
           NEW n \in Nat, NEW cause \in Causes \ {"unmetered"}, NEW result,
           EndsUncharged(n, cause, result), raw' \in BOOLEAN
    PROVE  LedgerInv'
<1>1. /\ Settles(own, result) /\ spent' = spent + n /\ Loses(cause, n)
      /\ UNCHANGED <<count, stored>>
  BY DEF EndsUncharged
<1>2. InFlight(call) + n <= n
  OBVIOUS
<1> QED
  BY <1>1, <1>2, LosesInv

(* The artifact nobody measured is missing from the ledger, and from what  *)
(* was measured.                                                           *)
LEMMA UnmeteredFacts ==
    ASSUME LedgerType, NEW n \in Nat, stored' = stored + n, Loses("unmetered", n)
    PROVE  /\ lost' \in [Causes -> Nat] /\ stored' \in Nat
           /\ Lost' = Lost /\ Metered' = Metered
<1>1. PICK cause \in Causes : cause = "unmetered" /\ Loses(cause, n)
  BY DEF Causes
<1>2. /\ lost' \in [Causes -> Nat] /\ Lost' = Lost
      /\ lost'["unmetered"] = lost["unmetered"] + n
  BY <1>1, LostFacts
<1>3. PICK w \in Nat, g \in Nat : w = stored /\ g = lost["unmetered"]
  BY DEF LedgerType, Causes
<1>4. (w + n) - (g + n) = w - g /\ w + n \in Nat
  OBVIOUS
<1> QED
  BY <1>2, <1>3, <1>4 DEF Metered

\* A call ends with an artifact nobody measured.
LEMMA UnmeteredInv ==
    ASSUME LedgerInv, call.node # "none", InFlight(call) = 0, Kept(call) = 0,
           NEW n \in Nat, NEW result, Settles(own, result),
           stored' = stored + n, Loses("unmetered", n),
           UNCHANGED <<count, raw, spent>>
    PROVE  LedgerInv'
<1>0. /\ call # NoCall /\ LedgerType /\ Metered <= MaxOutput /\ Lost \in Nat /\ Metered \in Int
      /\ spent <= Consumed("bytes") + Lost + InFlight(call)
      /\ Metered <= Consumed("output") + Kept(call)
  BY CallFacts
<1>1. PICK u \in Amounts : u = Nothing
  BY AmountFacts
<1>2. /\ \A f \in Fields : u[f] = 0
      /\ "bytes" \in Fields /\ "output" \in Fields
  BY <1>1, AmountFacts
<1>3. /\ used' \in Amounts
      /\ \A f \in Fields : used'[f] = Consumed(f) + u[f]
      /\ own' = Nothing /\ call' = NoCall
      /\ run' = IF result \in Stopping THEN "stopped" ELSE run
      /\ batch' = IF result \in Stopping THEN <<>> ELSE batch
      /\ ceiling' = ceiling /\ unchecked' = unchecked /\ unchecked' \in Amounts
  <2>1. PICK recorded : recorded = own
    OBVIOUS
  <2> QED
    BY <1>0, <1>1, <2>1, SettlesFacts
<1>4. /\ lost' \in [Causes -> Nat] /\ stored' \in Nat
      /\ Lost' = Lost /\ Metered' = Metered
  BY <1>0, UnmeteredFacts
<1>5. RestTyped
  BY <1>0, <1>3, <1>4 DEF RestTyped, LedgerType
<1>6. \A f \in Fields : u[f] <= Remaining(f)
  BY <1>0, <1>2, RoomFacts
<1>7. /\ spent' <= Consumed("bytes") + u["bytes"] + Lost'
      /\ Metered' <= Consumed("output") + u["output"]
  <2>1. Consumed("bytes") \in Nat /\ Consumed("output") \in Nat /\ spent \in Nat
    BY <1>0, <1>2, RoomFacts DEF LedgerType
  <2> QED
    BY <1>0, <1>2, <1>4, <2>1
<1> QED
  BY <1>0, <1>2, <1>3, <1>4, <1>5, <1>6, <1>7, SettledInv

\* The smaller of two budgets is within each.
LEMMA LeastFacts ==
    ASSUME LedgerType
    PROVE  /\ Least(Remaining("bytes"), Remaining("output")) \in Nat
           /\ \A f \in Fields :
                 Least(Remaining("bytes"), Remaining("output"))
                     <= Remaining(f)
<1>1. /\ "bytes" \in Fields /\ "output" \in Fields
      /\ \A f \in Fields : f = "bytes" \/ f = "output"
  BY AmountFacts
<1>2. Remaining("bytes") \in Nat /\ Remaining("output") \in Nat
  BY <1>1, RoomFacts
<1> QED
  BY <1>1, <1>2 DEF Least

\* One artifact of n bytes.
LEMMA OneSize ==
    ASSUME NEW n \in Nat
    PROVE  <<n>> \in Seq(Nat) /\ Len(<<n>>) = 1 /\ Total(<<n>>) = n
  BY DEF Total

\* One artifact was measured and is stored next.
LEMMA OneMeasuredInv ==
    ASSUME LedgerInv, call.node # "none", call.sofar = 0,
           NEW n \in Nat, Affords("output", n),
           \/ call' = [call EXCEPT !.phase = "store", !.puts = <<n>>]
           \/ call.phase = "store" /\ call' = [call EXCEPT !.puts = <<n>>],
           UNCHANGED <<count, used, own, ceiling, batch, run, raw, stored, spent, lost, unchecked>>
    PROVE  LedgerInv'
<1>1. PICK puts \in Seq(Nat) : puts = <<n>> /\ Len(puts) = 1 /\ Total(puts) = n
  BY OneSize
<1>2. Total(puts) <= Remaining("output")
  BY <1>1 DEF Affords
<1>3. PICK old \in CallRecord : old = call
  BY CallFacts
<1>4. PICK store \in Phases : store = "store"
  BY DEF Phases
<1>5. call' = Measured(old, store, puts)
  <2>1. CASE call' = [call EXCEPT !.phase = "store", !.puts = <<n>>]
    BY <1>1, <1>3, <1>4, <2>1 DEF Measured
  <2>2. CASE call.phase = "store" /\ call' = [call EXCEPT !.puts = <<n>>]
    <3>1. call' = WithPuts(old, puts) /\ old.phase = store
      BY <1>1, <1>3, <1>4, <2>2 DEF WithPuts
    <3>2. old.limit \in Nat /\ old.sofar \in Nat
      BY DEF CallRecord
    <3>3. WithPuts(old, puts) = Update(old, old.phase, old.limit, puts, old.sofar)
      BY <3>2, ExceptFacts
    <3>4. Measured(old, store, puts) = Update(old, store, old.limit, puts, old.sofar)
      BY <3>2, ExceptFacts
    <3> QED
      BY <3>1, <3>3, <3>4
  <2> QED
    BY <2>1, <2>2
<1>6. call' = [call EXCEPT !.phase = "store", !.puts = puts]
  BY <1>3, <1>4, <1>5 DEF Measured
<1>7. Len(puts) \in 1..2 /\ Len(puts) # 2
  BY <1>1
<1> QED
  BY <1>2, <1>6, <1>7, MeasuredInv

----------------------------------------------------------------------------
\* A size within an overshoot of a limit.
LEMMA SizesFacts ==
    ASSUME NEW m \in Nat, NEW n \in Sizes(m)
    PROVE  n \in Nat
  BY LedgerConstants DEF Sizes

\* The resolver's body is recorded before it is measured.
LEMMA ResolverInv ==
    ASSUME LedgerInv, At("git_lfs", "provider"),
           NEW n \in Nat, NEW valid \in BOOLEAN, ResolverReturns(n, valid)
    PROVE  LedgerInv'
<1>0. call.node = "git_lfs" /\ call.phase = "provider" /\ call.node # "none"
  BY DEF At
<1>1. /\ call.sofar = 0 /\ InFlight(call) = 0 /\ Kept(call) = 0
  BY <1>0, Plain
<1>2. /\ LedgerType /\ call \in CallRecord /\ call.limit \in Nat
      /\ call.puts \in Seq(Nat) /\ call.puts = <<>>
      /\ CallInv(call, Room) /\ call # NoCall
      /\ spent <= Consumed("bytes") + Lost + InFlight(call)
      /\ Metered <= Consumed("output") + Kept(call)
      /\ Metered <= MaxOutput /\ Lost \in Nat /\ Metered \in Int
  BY <1>0, CallFacts
<1>3. /\ "bytes" \in Fields /\ "output" \in Fields
      /\ \A f \in Fields : f = "bytes" \/ f = "output"
  BY AmountFacts
<1>4. PICK u \in Amounts : u = Use(n, n) /\ u["bytes"] = n /\ u["output"] = n
  BY AmountFacts
<1>5. n <= call.limit => \A f \in Fields : u[f] <= Remaining(f)
  <2>1. \A f \in Fields : call.limit <= Room[f]
    BY <1>0, <1>2 DEF CallInv
  <2>2. \A f \in Fields : u[f] = n /\ Room[f] = Remaining(f) /\ Remaining(f) \in Nat
    BY <1>2, <1>3, <1>4, RoomFacts
  <2> QED
    BY <1>2, <2>1, <2>2
<1>6. spent' = spent + n /\ UNCHANGED <<count, raw, stored, lost>>
  BY DEF ResolverReturns
<1>7. CASE n <= call.limit /\ valid /\ Remaining("output") > n
  <2>1. /\ own' = Plus(own, u)
        /\ call' = [call EXCEPT !.phase = "local", !.limit = Remaining("output") - n]
        /\ UNCHANGED <<used, ceiling, batch, run, unchecked>>
    BY <1>4, <1>7 DEF ResolverReturns
  <2>2. PICK limit \in Nat, local \in Phases :
           limit = Remaining("output") - n /\ local = "local"
    <3>1. Remaining("output") - n \in Nat
      BY <1>2, <1>3, <1>7, RoomFacts
    <3> QED
      BY <3>1 DEF Phases
  <2>3. PICK old \in CallRecord : old = call /\ old.puts \in Seq(Nat) /\ old.sofar \in Nat
    BY <1>2 DEF CallRecord
  <2>4. PICK c \in CallRecord :
           /\ c = Update(old, local, limit, old.puts, old.sofar)
           /\ c.node = call.node /\ c.grouped = call.grouped /\ c.sofar = 0
           /\ c.puts = <<>> /\ c.phase = "local" /\ c.limit = limit
    BY <1>1, <1>2, <2>2, <2>3, UpdateFacts, SMTT(20)
  <2>5. call' = c
    <3>1. Moved(old, local, limit) = c
      BY <2>3, <2>4, ExceptFacts
    <3> QED
      BY <2>1, <2>2, <2>3, <3>1 DEF Moved
  <2>6. CallInv(c, Room')
    BY <1>0, <1>2, <2>4 DEF CallInv, Reading
  <2>7. InFlight(c) = 0 /\ Kept(c) = 0
    BY <2>4 DEF InFlight, Kept
  <2>8. OwnGrows(u)
    BY <2>1 DEF OwnGrows
  <2>9. own' \in Amounts /\ used' \in Amounts /\ Charged(u)
    BY <1>2, <1>5, <1>7, <2>1, <2>8, OwnFacts
  <2>10. RestTyped /\ Lost' = Lost /\ Metered' = Metered
    BY <1>2, <1>6, <2>1 DEF RestTyped, LedgerType, Lost, Metered
  <2>11. /\ spent' <= Consumed("bytes") + u["bytes"] + Lost' + InFlight(call')
         /\ Metered' <= Consumed("output") + u["output"] + Kept(call')
    <3>1. /\ Consumed("bytes") \in Nat /\ Consumed("output") \in Nat
          /\ spent \in Nat /\ stored \in Nat
      BY <1>2, <1>3, RoomFacts DEF LedgerType
    <3> QED
      BY <1>1, <1>2, <1>4, <1>6, <2>5, <2>7, <2>10, <3>1
  <2> QED
    BY <1>0, <1>2, <1>6, <2>1, <2>4, <2>5, <2>6, <2>9, <2>10, <2>11, ProceedsInv
<1>8. CASE ~(n <= call.limit /\ valid /\ Remaining("output") > n)
  <2>1. PICK result : /\ Settles(Plus(own, u), result)
                      /\ result = IF n <= call.limit /\ ~valid THEN "failed" ELSE "budget"
    BY <1>4, <1>8 DEF ResolverReturns
  <2>2. result \notin Stopping => n <= call.limit
    BY <2>1 DEF Stopping
  <2>3. InFlight(call) + n <= u["bytes"]
    BY <1>1, <1>4
  <2>4. UNCHANGED <<count, stored, lost>> /\ raw' \in BOOLEAN
    BY <1>2, <1>6 DEF LedgerType
  <2> QED
    BY <1>0, <1>5, <1>6, <2>1, <2>2, <2>3, <2>4, ChargesInv
<1> QED
  BY <1>7, <1>8

\* Every step of the document adapter keeps the invariant.
LEMMA DocumentInv ==
    ASSUME LedgerInv, DocumentStep
    PROVE  LedgerInv'
<1> USE DEF AtDocument, DocumentNodes, At
<1>0. /\ call.node \in {"document", "git_lfs"}
      /\ call.node # "none"
  BY DEF DocumentStep, DocumentBegins, DocumentSourceFails,
         GithubRawRefused, PointerMalformed, DocumentOutputExhausted,
         PointerFound, ResolverRefused, DocumentRead,
         ParserFails, ContainerRefused, ParserMissing,
         WorkerResultRefused, ProvenanceRefused, OcrFails,
         DocumentStored, DocumentPutFails
<1>1. /\ call.sofar = 0 /\ InFlight(call) = 0 /\ Kept(call) = 0
  BY <1>0, Plain
<1>2. /\ LedgerType /\ call.limit \in Nat /\ call.puts \in Seq(Nat)
      /\ call.phase \notin {"stream", "store"} => call.puts = <<>>
      /\ CallInv(call, Room) /\ "bytes" \in Fields /\ "output" \in Fields
  BY <1>0, CallFacts, AmountFacts
<1>3. ASSUME NEW result, Ends(result) PROVE LedgerInv'
  BY <1>0, <1>1, <1>3, EndsInv
<1>4. \A f \in Fields : Remaining(f) \in Nat /\ Room[f] = Remaining(f)
  BY <1>2, RoomFacts
<1>5. CASE DocumentBegins
  <2>1. PICK phase \in Phases, limit \in Nat :
           phase = "source" /\ limit = 0 /\ Opens(phase, limit)
    BY <1>5 DEF DocumentBegins, Phases
  <2>2. call.puts = <<>>
    BY <1>2, <1>5 DEF DocumentBegins
  <2> QED
    BY <1>0, <1>1, <2>1, <2>2, GoesOnInv
<1>6. CASE \/ DocumentSourceFails \/ GithubRawRefused
           \/ PointerMalformed \/ DocumentOutputExhausted
           \/ ResolverRefused \/ ParserFails \/ ContainerRefused
           \/ ParserMissing \/ WorkerResultRefused
           \/ ProvenanceRefused \/ OcrFails \/ DocumentPutFails
  <2>1. \E result : Ends(result)
    BY <1>6 DEF DocumentSourceFails, GithubRawRefused, PointerMalformed,
                DocumentOutputExhausted, ResolverRefused, ParserFails,
                ContainerRefused, ParserMissing, WorkerResultRefused,
                ProvenanceRefused, OcrFails, DocumentPutFails
  <2> QED
    BY <1>3, <2>1
<1>7. CASE PointerFound
  <2>1. CASE Affords("bytes", 1)
    <3>1. PICK phase \in Phases, limit \in Nat :
             /\ phase = "provider" /\ GoesOn(phase, limit)
             /\ \A f \in Fields : limit <= Remaining(f)
      BY <1>2, <1>7, <2>1, LeastFacts DEF PointerFound, Phases
    <3>2. call.puts = <<>>
      BY <1>2, <1>7 DEF PointerFound
    <3> QED
      BY <1>0, <1>1, <3>1, <3>2, GoesOnInv
  <2>2. CASE ~Affords("bytes", 1)
    BY <1>3, <1>7, <2>2 DEF PointerFound
  <2> QED
    BY <2>1, <2>2
<1>8. CASE DocumentRead
  <2>1. PICK phase \in Phases, limit \in Nat :
           phase = "local" /\ GoesOn(phase, limit)
    BY <1>2, <1>4, <1>8 DEF DocumentRead, Phases
  <2>2. call.puts = <<>>
    BY <1>2, <1>8 DEF DocumentRead
  <2> QED
    BY <1>0, <1>1, <2>1, <2>2, GoesOnInv
<1>9. CASE /\ AtDocument("local")
           /\ \E n \in Sizes(call.limit) : DocumentParsed(n)
  <2>1. PICK n \in Sizes(call.limit) : DocumentParsed(n)
    BY <1>9
  <2>2. n \in Nat
    BY <1>2, SizesFacts
  <2>3. CASE n > call.limit
    BY <1>3, <2>1, <2>3 DEF DocumentParsed
  <2>4. CASE n <= call.limit /\ ~Affords("output", n)
    BY <1>3, <2>1, <2>4 DEF DocumentParsed
  <2>5. CASE ~(n > call.limit) /\ Affords("output", n)
    <3>1. /\ call' = [call EXCEPT !.phase = "store", !.puts = <<n>>]
          /\ UNCHANGED <<count, used, own, ceiling, batch, run, raw, stored, spent, lost, unchecked>>
      BY <2>1, <2>5 DEF DocumentParsed
    <3> QED
      BY <1>0, <1>1, <2>2, <2>5, <3>1, OneMeasuredInv
  <2> QED
    BY <1>2, <2>2, <2>3, <2>4, <2>5
<1>10. CASE DocumentStored
  <2>1. /\ call.phase = "store" /\ call.puts # <<>> /\ Len(call.puts) <= 2 /\ Len(call.puts) # 2
        /\ call.sofar + Total(call.puts) <= Room["output"]
    BY <1>0, <1>2, <1>10 DEF DocumentStored, CallInv
  <2>2. PICK p \in Nat : p = call.puts[1] /\ Total(call.puts) = p
    <3>1. PICK puts \in Seq(Nat) : puts = call.puts
      BY <1>2
    <3> QED
      BY <2>1, <3>1, LastSize
  <2>3. p = Kept(call) + p /\ p <= Remaining("output")
    BY <1>1, <1>2, <1>4, <2>1, <2>2
  <2>4. PICK recorded : /\ recorded = Plus(own, Use(0, p))
                        /\ Settles(recorded, "done")
    BY <1>10, <2>2 DEF DocumentStored
  <2>5. stored' = stored + p /\ UNCHANGED <<count, raw, spent, lost>>
    BY <1>10, <2>2 DEF DocumentStored
  <2> QED
    BY <1>0, <2>1, <2>3, <2>4, <2>5, StoresLastInv
<1>11. CASE /\ At("git_lfs", "provider")
            /\ \E n \in Sizes(call.limit), v \in BOOLEAN : ResolverReturns(n, v)
  <2>1. PICK n \in Sizes(call.limit), v \in BOOLEAN : ResolverReturns(n, v)
    BY <1>11
  <2>2. n \in Nat
    BY <1>2, SizesFacts
  <2> QED
    BY <1>11, <2>1, <2>2, ResolverInv
<1>12. CASE /\ At("git_lfs", "provider")
            /\ \E n \in Sizes(call.limit) : ResolverFails(n)
  <2>1. PICK n \in Sizes(call.limit) : ResolverFails(n)
    BY <1>12
  <2>2. n \in Nat
    BY <1>2, SizesFacts
  <2>3. PICK cause \in Causes \ {"unmetered"} :
           cause = "unreported" /\ EndsUncharged(n, cause, "failed")
    BY <2>1 DEF ResolverFails, Causes
  <2>4. raw' \in BOOLEAN
    BY <1>2, <2>1 DEF ResolverFails, LedgerType
  <2> QED
    BY <1>0, <1>1, <2>2, <2>3, <2>4, UnchargedInv
<1> QED
  BY <1>5, <1>6, <1>7, <1>8, <1>9, <1>10, <1>11, <1>12 DEF DocumentStep

----------------------------------------------------------------------------
\* What the provider's worker may rely on.
LEMMA ReadingFacts ==
    ASSUME LedgerInv, At("youtube", "provider")
    PROVE  /\ call.node # "none" /\ call.node = "youtube" /\ call.phase = "provider"
           /\ Reading(call) /\ InFlight(call) = call.sofar /\ Kept(call) = 0
           /\ call.puts = <<>> /\ call.limit \in Nat /\ call.sofar \in Nat
           /\ call.sofar <= call.limit /\ call.sofar <= ProviderCap
           /\ WorkerLimit \in Nat /\ call.sofar <= WorkerLimit
           /\ WorkerLimit <= call.limit /\ WorkerLimit <= ProviderCap
           /\ \A f \in Fields : call.limit <= Remaining(f)
<1>0. call.node = "youtube" /\ call.phase = "provider" /\ call.node # "none"
  BY DEF At
<1>1. /\ CallInv(call, Room) /\ LedgerType /\ call.limit \in Nat /\ call.sofar \in Nat
      /\ call.puts = <<>>
  BY <1>0, CallFacts
<1>2. Reading(call) /\ InFlight(call) = call.sofar /\ Kept(call) = 0
  BY <1>0 DEF Reading, InFlight, Kept
<1>3. /\ call.sofar <= call.limit /\ call.sofar <= ProviderCap
      /\ \A f \in Fields : call.limit <= Room[f]
  BY <1>0, <1>1, <1>2 DEF CallInv
<1>4. \A f \in Fields : call.limit <= Remaining(f)
  BY <1>1, <1>3, RoomFacts
<1>5. /\ WorkerLimit \in Nat /\ call.sofar <= WorkerLimit
      /\ WorkerLimit <= call.limit /\ WorkerLimit <= ProviderCap
  BY <1>1, <1>3, LedgerConstants DEF WorkerLimit, Least
<1> QED
  BY <1>0, <1>1, <1>2, <1>3, <1>4, <1>5

\* The provider's call ends with c charged, no less than the worker read.
LEMMA ProviderEndsInv ==
    ASSUME LedgerInv, NEW c \in Nat, NEW result,
           ProviderEnds(c, result), call.sofar <= c, c <= call.limit
    PROVE  LedgerInv'
<1>0. At("youtube", "provider")
  BY DEF ProviderEnds
<1>1. /\ call.node # "none" /\ call.phase # "store" /\ InFlight(call) = call.sofar
      /\ call.limit \in Nat /\ call.sofar \in Nat
      /\ \A f \in Fields : call.limit <= Remaining(f)
      /\ LedgerType
  BY <1>0, ReadingFacts, CallFacts
<1>2. PICK u \in Amounts : u = Use(c, c) /\ u["bytes"] = c /\ u["output"] = c
  BY AmountFacts
<1>3. /\ Settles(Plus(own, u), result)
      /\ UNCHANGED <<count, raw, stored, spent, lost>>
  BY <1>2 DEF ProviderEnds
<1>4. \A f \in Fields : u[f] <= Remaining(f)
  <2>1. \A f \in Fields : u[f] = c /\ Remaining(f) \in Nat
    BY <1>1, <1>2, AmountFacts, RoomFacts
  <2> QED
    BY <1>1, <2>1
<1>5. spent' = spent + 0 /\ raw' \in BOOLEAN /\ InFlight(call) + 0 <= u["bytes"]
  BY <1>1, <1>2, <1>3 DEF LedgerType
<1> QED
  BY <1>1, <1>3, <1>4, <1>5, ChargesInv

\* The worker reads n more bytes.
LEMMA WorkerReadsInv ==
    ASSUME LedgerInv, NEW n \in Nat, WorkerReads(n)
    PROVE  LedgerInv'
<1>0. At("youtube", "provider")
  BY DEF WorkerReads
<1>1. /\ call.node # "none" /\ call.node = "youtube" /\ call.phase = "provider"
      /\ InFlight(call) = call.sofar /\ Kept(call) = 0
      /\ call.puts = <<>> /\ call.limit \in Nat /\ call.sofar \in Nat
      /\ WorkerLimit \in Nat /\ call.sofar <= WorkerLimit
      /\ WorkerLimit <= call.limit /\ WorkerLimit <= ProviderCap
      /\ \A f \in Fields : call.limit <= Remaining(f)
  BY <1>0, ReadingFacts
<1>2. /\ LedgerType /\ call \in CallRecord /\ CallInv(call, Room) /\ call # NoCall
      /\ spent <= Consumed("bytes") + Lost + InFlight(call)
      /\ Metered <= Consumed("output") + Kept(call)
      /\ Metered <= MaxOutput /\ Lost \in Nat /\ Metered \in Int
  BY <1>1, CallFacts
<1>3. /\ call' = [call EXCEPT !.sofar = call.sofar + n] /\ spent' = spent + n
      /\ n <= Above(WorkerLimit, call.sofar)
      /\ UNCHANGED <<count, used, own, ceiling, batch, run, raw, stored, lost, unchecked>>
  BY DEF WorkerReads
<1>4. PICK m \in Nat : m = call.sofar + n /\ m <= call.limit /\ m <= ProviderCap
  <2>1. call.sofar + n <= WorkerLimit
    BY <1>1, <1>3 DEF Above
  <2> QED
    BY <1>1, <2>1, LedgerConstants
<1>5. PICK old \in CallRecord :
         old = call /\ old.phase \in Phases /\ old.limit \in Nat /\ old.puts \in Seq(Nat)
  BY <1>2 DEF CallRecord
<1>6. PICK c \in CallRecord :
         /\ c = Update(old, old.phase, old.limit, old.puts, m)
         /\ c.node = call.node /\ c.grouped = call.grouped /\ c.sofar = m
         /\ c.puts = call.puts /\ c.phase = call.phase /\ c.limit = call.limit
  <2>1. PICK phase \in Phases, limit \in Nat, puts \in Seq(Nat) :
           phase = old.phase /\ limit = old.limit /\ puts = old.puts
    BY <1>5
  <2>2. PICK c : c = Update(old, phase, limit, puts, m)
    OBVIOUS
  <2>3. /\ c \in CallRecord
        /\ c.node = old.node /\ c.grouped = old.grouped /\ c.phase = phase
        /\ c.limit = limit /\ c.puts = puts /\ c.sofar = m
    BY <2>2, UpdateFacts
  <2> QED
    BY <1>5, <2>1, <2>2, <2>3
<1>7. call' = c
  <2>1. WithSofar(old, m) = c
    BY <1>5, <1>6, ExceptFacts
  <2> QED
    BY <1>3, <1>4, <1>5, <2>1 DEF WithSofar
<1>8. Room' = Room
  BY <1>3 DEF Room, Remaining, Consumed
<1>9. CallInv(c, Room)
  BY <1>1, <1>2, <1>4, <1>6 DEF CallInv, Reading
<1>10. InFlight(c) = m /\ Kept(c) = 0
  BY <1>1, <1>6 DEF InFlight, Kept, Reading
<1>11. PICK u \in Amounts : /\ \A f \in Fields : u[f] = 0
                            /\ "bytes" \in Fields /\ "output" \in Fields
  BY AmountFacts
<1>12. \A f \in Fields : Consumed(f)' = Consumed(f)
  BY <1>3 DEF Consumed
<1>13. Charged(u)
  BY <1>2, <1>3, <1>11, <1>12, RoomFacts DEF Charged
<1>14. RestTyped /\ used' \in Amounts /\ own' \in Amounts /\ Lost' = Lost /\ Metered' = Metered
  BY <1>2, <1>3 DEF LedgerType, RestTyped, Lost, Metered
<1>15. /\ spent' <= Consumed("bytes") + u["bytes"] + Lost' + InFlight(call')
       /\ Metered' <= Consumed("output") + u["output"] + Kept(call')
  <2>1. /\ Consumed("bytes") \in Nat /\ Consumed("output") \in Nat
        /\ spent \in Nat /\ stored \in Nat
    BY <1>2, <1>11, RoomFacts DEF LedgerType
  <2>2. spent + n <= Consumed("bytes") + 0 + Lost + m
    <3>1. PICK a \in Nat, e \in Nat, f \in Nat, g \in Nat :
             a = spent /\ e = Consumed("bytes") /\ f = Lost /\ g = call.sofar
      BY <1>1, <1>2, <2>1
    <3>2. a <= e + f + g /\ m = g + n
      BY <1>1, <1>2, <1>4, <3>1
    <3> QED
      BY ONLY <1>3, <3>1, <3>2
  <2>3. /\ u["bytes"] = 0 /\ u["output"] = 0 /\ InFlight(call') = m /\ Kept(call') = 0
        /\ Lost' = Lost /\ Metered' = Metered /\ spent' = spent + n
    BY <1>3, <1>7, <1>10, <1>11, <1>14
  <2>4. Metered <= Consumed("output") + 0 + 0
    BY <1>1, <1>2, <2>1
  <2> QED
    BY <2>2, <2>3, <2>4
<1> QED
  BY <1>2, <1>3, <1>6, <1>7, <1>8, <1>9, <1>13, <1>14, <1>15, ProceedsInv

\* The worker's answer is charged before its payload is measured.
LEMMA WorkerReturnsInv ==
    ASSUME LedgerInv, WorkerReturns
    PROVE  LedgerInv'
<1>0. At("youtube", "provider")
  BY DEF WorkerReturns
<1>1. /\ call.node # "none" /\ call.node = "youtube" /\ call.phase = "provider"
      /\ InFlight(call) = call.sofar /\ Kept(call) = 0
      /\ call.puts = <<>> /\ call.limit \in Nat /\ call.sofar \in Nat
      /\ call.sofar <= call.limit
      /\ \A f \in Fields : call.limit <= Remaining(f)
  BY <1>0, ReadingFacts
<1>2. /\ LedgerType /\ call \in CallRecord /\ CallInv(call, Room) /\ call # NoCall
      /\ spent <= Consumed("bytes") + Lost + InFlight(call)
      /\ Metered <= Consumed("output") + Kept(call)
      /\ Metered <= MaxOutput /\ Lost \in Nat /\ Metered \in Int
  BY <1>1, CallFacts
<1>3. PICK n \in Nat, u \in Amounts :
         /\ n = call.sofar /\ u = Use(n, n) /\ u["bytes"] = n /\ u["output"] = n
  BY <1>1, AmountFacts
<1>4. /\ own' = Plus(own, u)
      /\ call' = [call EXCEPT !.phase = "store", !.sofar = 0]
      /\ UNCHANGED <<count, used, ceiling, batch, run, raw, stored, spent, lost, unchecked>>
  BY <1>3 DEF WorkerReturns
<1>5. PICK old \in CallRecord :
         old = call /\ old.limit \in Nat /\ old.puts \in Seq(Nat)
  BY <1>2 DEF CallRecord
<1>6. PICK store \in Phases, zero \in Nat : store = "store" /\ zero = 0
  BY DEF Phases
<1>7. PICK c \in CallRecord :
         /\ c = Update(old, store, old.limit, old.puts, zero)
         /\ c.node = call.node /\ c.grouped = call.grouped /\ c.sofar = 0
         /\ c.puts = <<>> /\ c.phase = "store" /\ c.limit = call.limit
  BY <1>1, <1>5, <1>6, UpdateFacts
<1>8. call' = c
  <2>1. Returned(old, store, zero) = c
    BY <1>5, <1>6, <1>7, ExceptFacts
  <2> QED
    BY <1>4, <1>5, <1>6, <2>1 DEF Returned
<1>9. /\ "bytes" \in Fields /\ "output" \in Fields
      /\ \A f \in Fields : f = "bytes" \/ f = "output"
  BY AmountFacts
<1>10. \A f \in Fields : u[f] <= Remaining(f)
  <2>1. \A f \in Fields : u[f] = n /\ Remaining(f) \in Nat
    BY <1>2, <1>3, <1>9, RoomFacts
  <2> QED
    BY <1>1, <1>3, <2>1
<1>11. own' \in Amounts /\ used' \in Amounts /\ Charged(u)
  <2>1. OwnGrows(u)
    BY <1>4 DEF OwnGrows
  <2> QED
    BY <1>2, <1>10, <2>1, OwnFacts
<1>12. RestTyped /\ Lost' = Lost /\ Metered' = Metered
  BY <1>2, <1>4 DEF LedgerType, RestTyped, Lost, Metered
<1>13. LedgerType' /\ Room'["output"] \in Nat
  <2>1. LedgerType'
    BY <1>2, <1>4, <1>8, <1>11 DEF LedgerType
  <2>2. ceiling'["output"] \in Nat /\ used'["output"] \in Nat /\ own'["output"] \in Nat
    BY <1>9, <2>1 DEF LedgerType, Amounts
  <2>3. Room'["output"] = Remaining("output")'
    BY <1>9 DEF Room
  <2> QED
    BY <2>1, <2>2, <2>3 DEF Remaining, Consumed, Above
<1>14. CallInv(c, Room')
  <2>1. Total(c.puts) = 0 /\ Len(c.puts) = 0
    BY <1>7 DEF Total
  <2>2. c.sofar + Total(c.puts) <= Room'["output"]
    BY <1>7, <1>13, <2>1
  <2>3. c.grouped => c.node \in Grouped
    BY <1>2, <1>7 DEF CallInv
  <2> QED
    BY <1>1, <1>7, <2>1, <2>2, <2>3 DEF CallInv, Reading
<1>15. InFlight(c) = 0 /\ Kept(c) = 0
  BY <1>7 DEF InFlight, Kept
<1>16. /\ spent' <= Consumed("bytes") + u["bytes"] + Lost' + InFlight(call')
       /\ Metered' <= Consumed("output") + u["output"] + Kept(call')
  <2>1. /\ Consumed("bytes") \in Nat /\ Consumed("output") \in Nat
        /\ spent \in Nat /\ stored \in Nat
    BY <1>2, <1>9, RoomFacts DEF LedgerType
  <2> QED
    BY <1>1, <1>2, <1>3, <1>4, <1>8, <1>12, <1>15, <2>1
<1> QED
  BY <1>1, <1>2, <1>4, <1>7, <1>8, <1>11, <1>12, <1>14, <1>16, ProceedsInv

\* Every step of the provider and its worker.
LEMMA ProviderStepInv ==
    ASSUME LedgerInv, ProviderUnavailable \/ YoutubeWorker
    PROVE  LedgerInv'
<1>0. At("youtube", "provider")
  BY DEF ProviderUnavailable, YoutubeWorker, WorkerExhausted,
         WorkerBlocked, WorkerFails, ProjectionRefused,
         WorkerDeadline, WorkerReturns, ProviderEnds
<1>1. /\ call.node # "none" /\ call.phase # "store" /\ LedgerType
      /\ InFlight(call) = call.sofar /\ Kept(call) = 0
      /\ call.limit \in Nat /\ call.sofar \in Nat /\ call.sofar <= call.limit
      /\ WorkerLimit \in Nat /\ call.sofar <= WorkerLimit
      /\ WorkerLimit <= call.limit
  BY <1>0, ReadingFacts, CallFacts
<1>2. PICK n \in Nat, w \in Nat : n = call.sofar /\ w = WorkerLimit
  BY <1>1
<1>3. CASE ProviderUnavailable
  <2>1. call.sofar = 0 /\ \E result : ProviderEnds(0, result)
    BY <1>3 DEF ProviderUnavailable
  <2>2. PICK result : ProviderEnds(0, result)
    BY <2>1
  <2>3. call.sofar <= 0 /\ 0 <= call.limit
    BY <1>1, <2>1, <2>2
  <2> QED
    BY <2>2, <2>3, ProviderEndsInv
<1>4. CASE WorkerExhausted \/ WorkerBlocked \/ ProjectionRefused
  <2>1. PICK result : ProviderEnds(n, result)
    BY <1>2, <1>4 DEF WorkerExhausted, WorkerBlocked, ProjectionRefused
  <2>2. call.sofar <= n /\ n <= call.limit
    BY <1>1, <1>2
  <2> QED
    BY <2>1, <2>2, ProviderEndsInv
<1>5. CASE WorkerFails
  <2>1. ProviderEnds(w, "failed")
    BY <1>2, <1>5 DEF WorkerFails
  <2>2. call.sofar <= w /\ w <= call.limit
    BY <1>1, <1>2
  <2> QED
    BY <2>1, <2>2, ProviderEndsInv
<1>6. CASE WorkerDeadline
  <2>1. PICK cause \in Causes \ {"unmetered"} : cause = "deadline"
    BY DEF Causes
  <2>2. /\ Settles(own, "failed") /\ Loses(cause, n)
        /\ UNCHANGED <<count, stored>> /\ raw' \in BOOLEAN
    BY <1>1, <1>2, <1>6, <2>1 DEF WorkerDeadline, LedgerType
  <2>3. spent' = spent + 0 /\ InFlight(call) + 0 <= n
    BY <1>1, <1>2, <1>6 DEF WorkerDeadline, LedgerType
  <2> QED
    BY <1>1, <2>2, <2>3, LosesInv
<1>7. CASE WorkerReturns
  BY <1>7, WorkerReturnsInv
<1>8. CASE \E i \in 1..WorkerLimit : WorkerReads(i)
  <2>1. PICK i \in Nat : WorkerReads(i)
    BY <1>1, <1>8
  <2> QED
    BY <2>1, WorkerReadsInv
<1>9. CASE \E i \in Sizes(call.limit) : ProviderExceeds(i)
  <2>1. PICK i \in Sizes(call.limit) : ProviderExceeds(i)
    BY <1>9
  <2>2. i \in Nat
    BY <1>1, SizesFacts
  <2>3. PICK u \in Amounts : u = Use(i, i)
    BY <2>2, AmountFacts
  <2>4. /\ Settles(Plus(own, u), "budget") /\ spent' = spent + i
        /\ UNCHANGED <<count, stored, lost>> /\ raw' \in BOOLEAN
    BY <1>1, <2>1, <2>3 DEF ProviderExceeds, LedgerType
  <2>5. "budget" \in Stopping
    BY DEF Stopping
  <2> QED
    BY <1>1, <2>2, <2>4, <2>5, ChargesInv
<1>10. CASE \E i \in Sizes(call.limit) : ProviderUnreported(i)
  <2>1. PICK i \in Sizes(call.limit) : ProviderUnreported(i)
    BY <1>10
  <2>2. i \in Nat
    BY <1>1, SizesFacts
  <2>3. PICK cause \in Causes \ {"unmetered"}, result \in Results :
           EndsUncharged(i, cause, result)
    BY <2>1 DEF ProviderUnreported, Causes, Results
  <2>4. InFlight(call) = 0 /\ raw' \in BOOLEAN
    BY <1>1, <2>1 DEF ProviderUnreported, LedgerType
  <2> QED
    BY <1>1, <2>2, <2>3, <2>4, UnchargedInv
<1> QED
  BY <1>3, <1>4, <1>5, <1>6, <1>7, <1>8, <1>9, <1>10 DEF YoutubeWorker

\* Every step of the media adapter keeps the invariant.
LEMMA MediaInv ==
    ASSUME LedgerInv, MediaStep
    PROVE  LedgerInv'
<1> USE DEF AtMedia, MediaNodes, At
<1>1. CASE ProviderUnavailable \/ YoutubeWorker
  BY <1>1, ProviderStepInv
<1>2. CASE ~(ProviderUnavailable \/ YoutubeWorker)
  <2>0. /\ call.node \in {"media", "youtube"} /\ call.node # "none"
        /\ call.phase # "provider"
    BY <1>2 DEF MediaStep, MediaBegins, MediaSourceFails, MediaRead,
           ImageRefused, ImageHeaderRefused, ImageTextFails,
           ProbeFails, TranscriptFails, FeedRefused,
           ThumbnailFails, ExifRefused, RouteFails,
           PreacquiredDocument, PreacquiredRefused, TargetRefused,
           AskProvider, RouteExtracts, MediaOutputTooLarge,
           MediaStored, MediaPutFails
  <2>1. call.sofar = 0 /\ InFlight(call) = 0 /\ Kept(call) = 0
    BY <2>0, Plain
  <2>2. /\ LedgerType /\ call.limit \in Nat /\ call.puts \in Seq(Nat)
        /\ call.phase \notin {"stream", "store"} => call.puts = <<>>
        /\ CallInv(call, Room) /\ "bytes" \in Fields /\ "output" \in Fields
    BY <2>0, CallFacts, AmountFacts
  <2>3. ASSUME NEW result, Ends(result) PROVE LedgerInv'
    BY <2>0, <2>1, <2>3, EndsInv
  <2>4. \A f \in Fields : Remaining(f) \in Nat /\ Room[f] = Remaining(f)
    BY <2>2, RoomFacts
  <2>5. CASE MediaBegins
    <3>1. PICK phase \in Phases, limit \in Nat :
             phase = "source" /\ limit = 0 /\ Opens(phase, limit)
      BY <2>5 DEF MediaBegins, Phases
    <3>2. call.puts = <<>>
      BY <2>2, <2>5 DEF MediaBegins
    <3> QED
      BY <2>0, <2>1, <3>1, <3>2, GoesOnInv
  <2>6. CASE \/ MediaSourceFails \/ ImageRefused \/ ImageHeaderRefused
             \/ ImageTextFails \/ ProbeFails \/ TranscriptFails
             \/ FeedRefused \/ ThumbnailFails \/ ExifRefused
             \/ PreacquiredRefused \/ TargetRefused
             \/ MediaOutputTooLarge \/ MediaPutFails
    <3>1. \E result : Ends(result)
      BY <2>6 DEF MediaSourceFails, ImageRefused, ImageHeaderRefused,
             ImageTextFails, ProbeFails, TranscriptFails,
             FeedRefused, ThumbnailFails, ExifRefused,
             RouteFails, PreacquiredRefused, TargetRefused,
             MediaOutputTooLarge, MediaPutFails
    <3> QED
      BY <2>3, <3>1
  <2>7. CASE MediaRead
    <3>1. PICK phase \in Phases, limit \in Nat :
             /\ phase = "local" /\ GoesOn(phase, limit)
             /\ \A f \in Fields : limit <= Remaining(f)
      BY <2>2, <2>7, LeastFacts DEF MediaRead, Phases
    <3>2. call.puts = <<>>
      BY <2>2, <2>7 DEF MediaRead
    <3> QED
      BY <2>0, <2>1, <3>1, <3>2, GoesOnInv
  <2>8. CASE PreacquiredDocument \/ RouteExtracts
    <3>1. PICK phase \in Phases, limit \in Nat :
             phase = "store" /\ limit = call.limit /\ GoesOn(phase, limit)
      BY <2>2, <2>8 DEF PreacquiredDocument, RouteExtracts, Phases
    <3>2. call.puts = <<>>
      BY <2>2, <2>8 DEF PreacquiredDocument, RouteExtracts
    <3> QED
      BY <2>0, <2>1, <3>1, <3>2, GoesOnInv
  <2>9. CASE AskProvider
    <3>1. CASE call.limit > 0
      <4>1. PICK phase \in Phases, limit \in Nat :
               phase = "provider" /\ limit = call.limit /\ GoesOn(phase, limit)
        BY <2>2, <2>9, <3>1 DEF AskProvider, Phases
      <4>2. call.puts = <<>> /\ call.node = "youtube" /\ call.phase = "local"
        BY <2>2, <2>9 DEF AskProvider
      <4>3. \A f \in Fields : limit <= Remaining(f)
        BY <2>2, <2>4, <4>1, <4>2 DEF CallInv
      <4> QED
        BY <2>0, <2>1, <4>1, <4>2, <4>3, GoesOnInv
    <3>2. CASE ~(call.limit > 0)
      BY <2>3, <2>9, <3>2 DEF AskProvider
    <3> QED
      BY <3>1, <3>2
  <2>10. CASE /\ AtMedia("store")
              /\ \E n \in Sizes(MaxOutput) : PayloadMeasured(n)
    <3>1. PICK n \in Sizes(MaxOutput) : PayloadMeasured(n)
      BY <2>10
    <3>2. n \in Nat
      BY SizesFacts, LedgerConstants
    <3>3. CASE Affords("output", n)
      <4>1. /\ call.phase = "store" /\ call' = [call EXCEPT !.puts = <<n>>]
            /\ UNCHANGED <<count, used, own, ceiling, batch, run, raw, stored, spent, lost, unchecked>>
        BY <3>1, <3>3 DEF PayloadMeasured
      <4> QED
        BY <2>0, <2>1, <3>2, <3>3, <4>1, OneMeasuredInv
    <3>4. CASE ~Affords("output", n)
      BY <2>3, <3>1, <3>4 DEF PayloadMeasured
    <3> QED
      BY <3>3, <3>4
  <2>11. CASE MediaStored
    <3>1. /\ call.phase = "store" /\ call.puts # <<>> /\ Len(call.puts) <= 2 /\ Len(call.puts) # 2
          /\ call.sofar + Total(call.puts) <= Room["output"]
      BY <2>0, <2>2, <2>11 DEF MediaStored, CallInv
    <3>2. PICK p \in Nat : p = call.puts[1] /\ Total(call.puts) = p
      <4>1. PICK puts \in Seq(Nat) : puts = call.puts
        BY <2>2
      <4> QED
        BY <3>1, <4>1, LastSize
    <3>3. p = Kept(call) + p /\ p <= Remaining("output")
      BY <2>1, <2>2, <2>4, <3>1, <3>2
    <3>4. PICK recorded : /\ recorded = Use(own.bytes, own.output + p)
                          /\ Settles(recorded, "done")
      BY <2>11, <3>2 DEF MediaStored
    <3>5. recorded = Plus(own, Use(0, p))
      <4>1. PICK o \in Amounts : o = own
        BY <2>2 DEF LedgerType
      <4> QED
        BY <3>4, <4>1 DEF Amounts, Fields, Plus, Use
    <3>6. stored' = stored + p /\ UNCHANGED <<count, raw, spent, lost>>
      BY <2>11, <3>2 DEF MediaStored
    <3> QED
      BY <2>0, <3>1, <3>3, <3>4, <3>5, <3>6, StoresLastInv
  <2> QED
    BY <1>2, <2>5, <2>6, <2>7, <2>8, <2>9, <2>10, <2>11 DEF MediaStep
<1> QED
  BY <1>1, <1>2

----------------------------------------------------------------------------
\* A chunk of the remote reader's answer is charged as it arrives.
LEMMA RemoteChunkInv ==
    ASSUME LedgerInv, NEW n \in Nat, RemoteChunk(n)
    PROVE  LedgerInv'
<1>0. /\ call.node = "remote_reader" /\ call.phase = "stream" /\ call.node # "none"
      /\ call.phase # "store"
  BY DEF RemoteChunk, At
<1>1. call.sofar = 0 /\ InFlight(call) = 0 /\ Kept(call) = 0
  BY <1>0, Plain
<1>2. /\ LedgerType /\ call \in CallRecord /\ CallInv(call, Room) /\ call # NoCall
      /\ call.limit \in Nat /\ call.puts \in Seq(Nat)
      /\ spent <= Consumed("bytes") + Lost + InFlight(call)
      /\ Metered <= Consumed("output") + Kept(call)
      /\ Metered <= MaxOutput /\ Lost \in Nat /\ Metered \in Int
  BY <1>0, CallFacts
<1>3. /\ "bytes" \in Fields /\ "output" \in Fields
      /\ \A f \in Fields : f = "bytes" \/ f = "output"
  BY AmountFacts
<1>4. PICK u \in Amounts : u = Use(n, 0) /\ u["bytes"] = n /\ u["output"] = 0
  BY AmountFacts
<1>5. PICK t \in Nat, limit \in Nat, r \in Nat :
         /\ t = Total(call.puts) /\ limit = call.limit
         /\ r = Remaining("bytes") /\ limit <= r + t
  <2>1. /\ Len(call.puts) <= 1 /\ call.limit <= Room["bytes"] + Total(call.puts)
    BY <1>0, <1>2 DEF CallInv
  <2>2. Total(call.puts) \in Nat
    <3>1. PICK puts \in Seq(Nat) : puts = call.puts
      BY <1>2
    <3>2. Len(puts) <= 1
      BY <2>1, <3>1
    <3> QED
      BY <3>1, <3>2, FewSizes
  <2>3. Room["bytes"] = Remaining("bytes") /\ Remaining("bytes") \in Nat
    BY <1>2, <1>3, RoomFacts
  <2> QED
    BY <1>2, <2>1, <2>2, <2>3
<1>6. spent' = spent + n
  BY DEF RemoteChunk
<1>7. CASE t + n > limit
  <2>1. /\ Settles(Plus(own, u), "budget")
        /\ UNCHANGED <<count, stored, lost>> /\ raw' \in BOOLEAN
    BY <1>2, <1>4, <1>5, <1>7 DEF RemoteChunk, LedgerType
  <2>2. "budget" \in Stopping
    BY DEF Stopping
  <2> QED
    BY <1>0, <1>6, <2>1, <2>2, ChargesInv
<1>8. CASE ~(t + n > limit)
  <2>1. PICK puts \in Seq(Nat) : puts = <<t + n>> /\ Len(puts) = 1 /\ Total(puts) = t + n
    <3>1. PICK m \in Nat : m = t + n
      OBVIOUS
    <3> QED
      BY <3>1, OneSize
  <2>2. /\ own' = Plus(own, u) /\ call' = [call EXCEPT !.puts = puts]
        /\ UNCHANGED <<count, used, ceiling, batch, run, raw, stored, lost, unchecked>>
    BY <1>4, <1>5, <1>8, <2>1 DEF RemoteChunk
  <2>3. PICK old \in CallRecord :
           old = call /\ old.phase \in Phases /\ old.limit \in Nat /\ old.sofar \in Nat
    BY <1>2 DEF CallRecord
  <2>4. PICK c \in CallRecord :
           /\ c = Update(old, old.phase, old.limit, puts, old.sofar)
           /\ c.node = call.node /\ c.grouped = call.grouped /\ c.sofar = 0
           /\ c.puts = puts /\ c.phase = "stream" /\ c.limit = limit
    <3>1. PICK phase \in Phases, l \in Nat, sofar \in Nat :
             phase = old.phase /\ l = old.limit /\ sofar = old.sofar
      BY <2>3
    <3>2. PICK c : c = Update(old, phase, l, puts, sofar)
      OBVIOUS
    <3>3. /\ c \in CallRecord
          /\ c.node = old.node /\ c.grouped = old.grouped /\ c.phase = phase
          /\ c.limit = l /\ c.puts = puts /\ c.sofar = sofar
      BY <3>2, UpdateFacts
    <3> QED
      BY <1>0, <1>1, <1>5, <2>3, <3>1, <3>2, <3>3
  <2>5. call' = c
    <3>1. WithPuts(old, puts) = c
      BY <2>3, <2>4, ExceptFacts
    <3> QED
      BY <2>2, <2>3, <3>1 DEF WithPuts
  <2>6. \A f \in Fields : u[f] <= Remaining(f)
    <3>1. n <= r
      BY <1>5, <1>8
    <3>2. 0 <= Remaining("output")
      BY <1>2, <1>3, RoomFacts
    <3> QED
      BY <1>3, <1>4, <1>5, <3>1, <3>2
  <2>7. own' \in Amounts /\ used' \in Amounts /\ Charged(u)
    <3>1. OwnGrows(u)
      BY <2>2 DEF OwnGrows
    <3> QED
      BY <1>2, <2>6, <3>1, OwnFacts
  <2>8. PICK r2 \in Nat : r2 = Room'["bytes"] /\ limit <= r2 + (t + n)
    <3>1. PICK k \in Nat, b \in Nat : k = ceiling["bytes"] /\ b = Consumed("bytes")
      BY <1>2, <1>3, RoomFacts
    <3>2. Consumed("bytes")' = b + n /\ ceiling' = ceiling
      BY <1>3, <1>4, <2>2, <2>7, <3>1 DEF Charged
    <3>3. Room'["bytes"] = Above(k, b + n)
      BY <1>3, <3>1, <3>2 DEF Room, Remaining
    <3>4. r = Above(k, b)
      BY <1>5, <3>1 DEF Remaining
    <3>5. limit <= r + t /\ ~(t + n > limit)
      BY <1>5, <1>8
    <3>6. Above(k, b + n) \in Nat /\ limit <= Above(k, b + n) + (t + n)
      BY <3>4, <3>5 DEF Above
    <3> QED
      BY <3>3, <3>6
  <2>9. CallInv(c, Room')
    <3>1. c.grouped => c.node \in Grouped
      BY <1>2, <2>4 DEF CallInv
    <3>2. /\ Total(c.puts) = t + n /\ t + n <= limit /\ Len(c.puts) = 1
          /\ c.limit <= Room'["bytes"] + Total(c.puts)
      BY <1>8, <2>1, <2>4, <2>8
    <3> QED
      BY <1>0, <2>4, <3>1, <3>2 DEF CallInv, Reading
  <2>10. RestTyped /\ Lost' = Lost /\ Metered' = Metered
    <3>1. Lost' = Lost /\ Metered' = Metered
      BY <2>2 DEF Lost, Metered
    <3>2. count \in Nat /\ raw \in BOOLEAN /\ stored \in Nat /\ spent \in Nat
          /\ lost \in [Causes -> Nat] /\ unchecked \in Amounts
      BY <1>2 DEF LedgerType
    <3> QED
      BY <1>6, <2>2, <3>1, <3>2 DEF RestTyped
  <2>11. InFlight(c) = 0 /\ Kept(c) = 0
    BY <2>4 DEF InFlight, Kept
  <2>12. /\ spent' <= Consumed("bytes") + u["bytes"] + Lost' + InFlight(call')
         /\ Metered' <= Consumed("output") + u["output"] + Kept(call')
    <3>1. /\ Consumed("bytes") \in Nat /\ Consumed("output") \in Nat
          /\ spent \in Nat /\ stored \in Nat
      BY <1>2, <1>3, RoomFacts DEF LedgerType
    <3>2. spent + n <= Consumed("bytes") + n + Lost + 0
      BY <1>1, <1>2, <3>1
    <3>3. Metered <= Consumed("output") + 0 + 0
      BY <1>1, <1>2, <3>1
    <3>4. InFlight(call') = 0 /\ Kept(call') = 0 /\ Metered' = Metered
      BY <2>5, <2>10, <2>11
    <3> QED
      BY <1>4, <1>6, <2>10, <3>2, <3>3, <3>4
  <2> QED
    BY <1>0, <1>2, <2>2, <2>4, <2>5, <2>7, <2>9, <2>10, <2>12, ProceedsInv
<1> QED
  BY <1>5, <1>7, <1>8

\* A call whose sizes and progress changed is otherwise the same.
LEMMA WithBothFacts ==
    ASSUME NEW old \in CallRecord, NEW rest \in Seq(Nat), NEW m \in Nat
    PROVE  \E c \in CallRecord :
               /\ c = WithBoth(old, rest, m)
               /\ c.node = old.node /\ c.grouped = old.grouped /\ c.sofar = m
               /\ c.puts = rest /\ c.phase = old.phase /\ c.limit = old.limit
<1>1. PICK phase \in Phases, limit \in Nat : phase = old.phase /\ limit = old.limit
  BY DEF CallRecord
<1>2. PICK c : c = Update(old, phase, limit, rest, m)
  OBVIOUS
<1>3. /\ c \in CallRecord
      /\ c.node = old.node /\ c.grouped = old.grouped /\ c.phase = phase
      /\ c.limit = limit /\ c.puts = rest /\ c.sofar = m
  BY <1>2, UpdateFacts
<1>4. c = WithBoth(old, rest, m)
  BY <1>1, <1>2, ExceptFacts
<1> QED
  BY <1>1, <1>3, <1>4

\* The first of two artifacts is stored; the attempt is charged after the last.
LEMMA PartStoredInv ==
    ASSUME LedgerInv, PartStored
    PROVE  LedgerInv'
<1>0. /\ call.phase = "store" /\ Len(call.puts) = 2 /\ call.node # "none"
      /\ call.node \in {"archive", "browser", "reader", "remote_reader"}
  BY DEF PartStored, StoringNodes, ReaderNodes
<1>1. /\ LedgerType /\ call \in CallRecord /\ CallInv(call, Room) /\ call # NoCall
      /\ call.sofar \in Nat /\ call.puts \in Seq(Nat)
      /\ spent <= Consumed("bytes") + Lost + InFlight(call)
      /\ Metered <= Consumed("output") + Kept(call)
      /\ Metered <= MaxOutput /\ Lost \in Nat /\ Metered \in Int
  BY <1>0, CallFacts
<1>2. PICK s \in Nat, p \in Nat, q \in Nat, puts \in Seq(Nat), rest \in Seq(Nat) :
         /\ s = call.sofar /\ puts = call.puts /\ p = puts[1] /\ q = puts[2]
         /\ rest = Tail(puts) /\ Len(rest) = 1 /\ rest # <<>> /\ Total(rest) = q
         /\ Total(call.puts) = p + q
  <2>1. PICK puts \in Seq(Nat) : puts = call.puts /\ Len(puts) = 2
    BY <1>0, <1>1
  <2>2. puts[1] \in Nat /\ puts[2] \in Nat /\ Total(puts) = puts[1] + puts[2]
    BY <2>1, TotalFacts
  <2>3. PICK rest : rest = Tail(puts)
    OBVIOUS
  <2>4. /\ rest \in Seq(Nat) /\ Len(rest) = 1 /\ rest # <<>>
        /\ Total(rest) = puts[2]
    BY <2>1, <2>3, RestSize
  <2> QED
    BY <1>1, <2>1, <2>2, <2>3, <2>4
<1>3. /\ Reading(call) = FALSE /\ InFlight(call) = 0 /\ Kept(call) = s
      /\ call.node \in {"archive", "browser"} /\ s + (p + q) <= Remaining("output")
      /\ "bytes" \in Fields /\ "output" \in Fields
  <2>1. "bytes" \in Fields /\ "output" \in Fields
    BY AmountFacts
  <2>2. Room["output"] = Remaining("output")
    BY <1>1, <2>1, RoomFacts
  <2>3. ~Reading(call)
    BY <1>0 DEF Reading
  <2> QED
    BY <1>0, <1>1, <1>2, <2>1, <2>2, <2>3 DEF CallInv, InFlight, Kept
<1>4. /\ stored' = stored + p
      /\ call' = [call EXCEPT !.puts = rest, !.sofar = s + p]
      /\ UNCHANGED <<count, used, own, ceiling, batch, run, raw, spent, lost, unchecked>>
  BY <1>2 DEF PartStored
<1>5. PICK old \in CallRecord :
         old = call /\ old.phase \in Phases /\ old.limit \in Nat
  BY <1>1 DEF CallRecord
<1>6. PICK m \in Nat : m = s + p
  OBVIOUS
<1>7. PICK c \in CallRecord :
         /\ c = WithBoth(old, rest, m)
         /\ c.node = old.node /\ c.grouped = old.grouped /\ c.sofar = m
         /\ c.puts = rest /\ c.phase = old.phase /\ c.limit = old.limit
  BY WithBothFacts
<1>8. call' = c /\ c.node = call.node /\ c.grouped = call.grouped /\ c.phase = "store"
  BY <1>0, <1>4, <1>5, <1>6, <1>7 DEF WithBoth
<1>9. Room' = Room
  BY <1>4 DEF Room, Remaining, Consumed
<1>10. CallInv(c, Room)
  <2>1. c.grouped => c.node \in Grouped
    BY <1>1, <1>7, <1>8 DEF CallInv
  <2>2. Room["output"] = Remaining("output") /\ Remaining("output") \in Nat
    BY <1>1, <1>3, RoomFacts
  <2>3. c.sofar + Total(c.puts) <= Room["output"]
    <3>1. c.sofar = s + p /\ Total(c.puts) = q
      BY <1>2, <1>6, <1>7
    <3> QED
      BY <1>3, <2>2, <3>1
  <2>4. c.puts # <<>> /\ Len(c.puts) <= 2 /\ Len(c.puts) # 2
    <3>1. rest # <<>> /\ Len(rest) = 1
      BY <1>2
    <3> QED
      BY <1>7, <3>1
  <2> QED
    BY <1>3, <1>7, <1>8, <2>1, <2>3, <2>4 DEF CallInv, Reading
<1>11. InFlight(c) = 0 /\ Kept(c) = m
  BY <1>3, <1>7, <1>8 DEF InFlight, Kept, Reading
<1>12. PICK u \in Amounts : \A f \in Fields : u[f] = 0
  BY AmountFacts
<1>13. Charged(u)
  <2>1. \A f \in Fields : Consumed(f)' = Consumed(f)
    BY <1>4 DEF Consumed
  <2> QED
    BY <1>1, <1>4, <1>12, <2>1, RoomFacts DEF Charged
<1>14. Metered + p <= MaxOutput /\ Metered + p <= Consumed("output") + (s + p)
  <2>1. Kept(call) + p <= Remaining("output")
    <3>1. Remaining("output") \in Nat
      BY <1>1, <1>3, RoomFacts
    <3> QED
      BY <1>3, <3>1
  <2> QED
    BY <1>0, <1>3, <2>1, StoreFits
<1>15. /\ RestTyped /\ used' \in Amounts /\ own' \in Amounts
       /\ Lost' = Lost /\ Metered' = Metered + p
  <2>1. Lost' = Lost
    BY <1>4 DEF Lost
  <2>3. Metered' = Metered + p
    BY <1>1, <1>4, MeteredGrows DEF LedgerType
  <2>2. /\ count \in Nat /\ raw \in BOOLEAN /\ stored \in Nat /\ spent \in Nat
        /\ lost \in [Causes -> Nat] /\ unchecked \in Amounts
        /\ used \in Amounts /\ own \in Amounts
    BY <1>1 DEF LedgerType
  <2> QED
    BY <1>4, <2>1, <2>2, <2>3 DEF RestTyped
<1>16. /\ spent' <= Consumed("bytes") + u["bytes"] + Lost' + InFlight(call')
       /\ Metered' <= Consumed("output") + u["output"] + Kept(call')
  <2>1. /\ Consumed("bytes") \in Nat /\ Consumed("output") \in Nat
        /\ spent \in Nat /\ stored \in Nat
    BY <1>1, <1>3, RoomFacts DEF LedgerType
  <2>2. spent <= Consumed("bytes") + 0 + Lost + 0
    BY <1>1, <1>3, <2>1
  <2>3. Metered + p <= Consumed("output") + 0 + m
    BY <1>6, <1>14, <2>1
  <2>4. InFlight(call') = 0 /\ Kept(call') = m /\ spent' = spent
    BY <1>4, <1>8, <1>11
  <2> QED
    BY <1>3, <1>4, <1>12, <1>15, <2>2, <2>3, <2>4
<1> QED
  BY <1>1, <1>4, <1>7, <1>8, <1>9, <1>10, <1>13, <1>14, <1>15, <1>16, ProceedsInv

\* The last artifact is stored and the attempt is charged for all of them.
LEMMA LastStoredInv ==
    ASSUME LedgerInv, LastStored
    PROVE  LedgerInv'
<1>0. /\ call.phase = "store" /\ Len(call.puts) = 1 /\ call.node # "none"
      /\ call.node \in {"archive", "browser", "reader", "remote_reader"}
  BY DEF LastStored, StoringNodes, ReaderNodes
<1>1. /\ LedgerType /\ CallInv(call, Room) /\ call.sofar \in Nat /\ call.puts \in Seq(Nat)
      /\ "output" \in Fields
  BY <1>0, CallFacts, AmountFacts
<1>2. PICK s \in Nat, p \in Nat :
         s = call.sofar /\ p = call.puts[1] /\ p = Total(call.puts)
  <2>1. PICK puts \in Seq(Nat) : puts = call.puts /\ Len(puts) = 1
    BY <1>0, <1>1
  <2>2. puts[1] \in Nat /\ Total(puts) = puts[1]
    BY <2>1, OneLeft
  <2> QED
    BY <1>1, <2>1, <2>2
<1>3. PICK q \in Nat : q = s + p
  OBVIOUS
<1>4. q = Kept(call) + p /\ q <= Remaining("output")
  <2>1. Kept(call) = s
    BY <1>0, <1>2 DEF Kept, Reading
  <2>2. Room["output"] = Remaining("output")
    BY <1>1, RoomFacts
  <2>3. call.sofar + Total(call.puts) <= Room["output"]
    BY <1>0, <1>1 DEF CallInv
  <2> QED
    BY <1>2, <1>3, <2>1, <2>2, <2>3
<1>5. PICK recorded : /\ recorded = Plus(own, Use(0, q))
                      /\ Settles(recorded, "done")
  BY <1>2, <1>3 DEF LastStored
<1>6. stored' = stored + p /\ UNCHANGED <<count, raw, spent, lost>>
  BY <1>2 DEF LastStored
<1> QED
  BY <1>0, <1>4, <1>5, <1>6, StoresLastInv

\* Two artifacts were measured together.
LEMMA TwoMeasuredInv ==
    ASSUME LedgerInv, call.node \in {"archive", "browser"}, call.sofar = 0,
           NEW m \in Nat, NEW n \in Nat, Affords("output", m + n),
           StoresAll(<<m, n>>)
    PROVE  LedgerInv'
<1>1. PICK puts \in Seq(Nat) :
         /\ puts = <<m, n>> /\ Len(puts) = 2 /\ Len(puts) \in 1..2
         /\ Total(puts) = m + n
  BY TwoSizes
<1>2. /\ call' = [call EXCEPT !.phase = "store", !.puts = puts]
      /\ UNCHANGED <<count, used, own, ceiling, batch, run, raw, stored, spent, lost, unchecked>>
  BY <1>1 DEF StoresAll
<1>3. Total(puts) <= Remaining("output") /\ call.node # "none"
  BY <1>1 DEF Affords
<1> QED
  BY <1>1, <1>2, <1>3, MeasuredInv

\* Every step of the content adapters keeps the invariant.
LEMMA ContentInv ==
    ASSUME LedgerInv, ContentStep
    PROVE  LedgerInv'
<1> USE DEF At, ReaderNodes
<1>1. CASE PartStored
  BY <1>1, PartStoredInv
<1>2. CASE LastStored
  BY <1>2, LastStoredInv
<1>3. CASE \E n \in 1..(1 + Overshoot) : RemoteChunk(n)
  <2>1. PICK n \in Nat : RemoteChunk(n)
    BY <1>3, LedgerConstants
  <2> QED
    BY <2>1, RemoteChunkInv
<1>4. CASE ~PartStored /\ ~LastStored
  <2>0. /\ call.node \in {"archive", "browser", "reader", "remote_reader", "api"}
        /\ call.node # "none" /\ call.phase \notin {"provider", "store"}
    BY <1>4 DEF ContentStep, ArchiveRefused, ArchiveBegins,
           ExtractionFails, MembersRefused, BrowserRefused,
           BrowserBegins, BrowserReads, RenderFails,
           ReaderRefused, ReaderBegins, ReaderExhausted,
           ReaderReads, ReaderFails, RemoteRefused,
           RemoteAsked, RemoteFails, TextMeasured,
           ApiBegins, ApiBlocked, ApiRefused, ApiNormalized
  <2>1. call.sofar = 0 /\ InFlight(call) = 0 /\ Kept(call) = 0
    BY <2>0, Plain
  <2>2. /\ LedgerType /\ call.limit \in Nat
        /\ call.phase \notin {"stream", "store"} => call.puts = <<>>
        /\ "bytes" \in Fields /\ "output" \in Fields
    BY <2>0, CallFacts, AmountFacts
  <2>3. ASSUME NEW result, Ends(result) PROVE LedgerInv'
    BY <2>0, <2>1, <2>3, EndsInv
  <2>4. \A f \in Fields : Remaining(f) \in Nat
    BY <2>2, RoomFacts
  <2>5. CASE \/ ArchiveRefused \/ ExtractionFails \/ MembersRefused
             \/ BrowserRefused \/ RenderFails \/ ReaderRefused
             \/ ReaderExhausted \/ ReaderFails \/ RemoteRefused
             \/ RemoteFails \/ ApiBlocked \/ ApiRefused
    <3>1. \E result : Ends(result)
      BY <2>5 DEF ArchiveRefused, ExtractionFails, MembersRefused,
             BrowserRefused, RenderFails, ReaderRefused,
             ReaderExhausted, ReaderFails, RemoteRefused,
             RemoteFails, ApiBlocked, ApiRefused
    <3> QED
      BY <2>3, <3>1
  <2>6. CASE \/ ArchiveBegins \/ BrowserBegins
             \/ ReaderBegins \/ ApiBegins \/ ReaderReads
             \/ (BrowserReads /\ Affords("output", 1))
    <3>1. PICK phase \in Phases, limit \in Nat :
             /\ phase \in {"local", "source"}
             /\ Opens(phase, limit) \/ GoesOn(phase, limit)
      BY <2>2, <2>4, <2>6
         DEF ArchiveBegins, BrowserBegins, ReaderBegins,
             ApiBegins, ReaderReads, BrowserReads, Phases
    <3>2. call.puts = <<>>
      BY <2>2, <2>6
         DEF ArchiveBegins, BrowserBegins, ReaderBegins,
             ApiBegins, ReaderReads, BrowserReads
    <3> QED
      BY <2>0, <2>1, <3>1, <3>2, GoesOnInv
  <2>7. CASE BrowserReads /\ ~Affords("output", 1)
    BY <2>3, <2>7 DEF BrowserReads
  <2>8. CASE RemoteAsked
    <3>1. PICK phase \in Phases, limit \in Nat :
             /\ phase = "stream" /\ GoesOn(phase, limit)
             /\ \A f \in Fields : limit <= Remaining(f)
      BY <2>2, <2>8, LeastFacts DEF RemoteAsked, Phases
    <3>2. call.puts = <<>> /\ call.node = "remote_reader"
      BY <2>2, <2>8 DEF RemoteAsked
    <3>3. limit <= Remaining("bytes")
      BY <2>2, <3>1
    <3> QED
      BY <2>0, <2>1, <3>1, <3>2, <3>3, GoesOnInv
  <2>9. CASE /\ call.node \in ReaderNodes
             /\ \E n \in Sizes(MaxOutput) : TextMeasured(n)
    <3>1. PICK n \in Sizes(MaxOutput) : TextMeasured(n)
      BY <2>9
    <3>2. n \in Nat
      BY SizesFacts, LedgerConstants
    <3>3. CASE Affords("output", n)
      <4>1. /\ call' = [call EXCEPT !.phase = "store", !.puts = <<n>>]
            /\ UNCHANGED <<count, used, own, ceiling, batch, run, raw, stored, spent, lost, unchecked>>
        BY <3>1, <3>3 DEF TextMeasured, StoresAll
      <4> QED
        BY <2>0, <2>1, <3>2, <3>3, <4>1, OneMeasuredInv
    <3>4. CASE ~Affords("output", n)
      BY <2>3, <3>1, <3>4 DEF TextMeasured
    <3> QED
      BY <3>3, <3>4
  <2>10. ASSUME NEW m \in Sizes(MaxOutput), NEW n \in Sizes(MaxOutput),
                Extracted(m, n) \/ Rendered(m, n)
         PROVE  LedgerInv'
    <3>1. m \in Nat /\ n \in Nat
      BY SizesFacts, LedgerConstants
    <3>2. call.node \in {"archive", "browser"}
      BY <2>10 DEF Extracted, Rendered
    <3>3. CASE Affords("output", m + n)
      <4>1. StoresAll(<<m, n>>)
        BY <2>10, <3>3 DEF Extracted, Rendered
      <4> QED
        BY <2>1, <3>1, <3>2, <3>3, <4>1, TwoMeasuredInv
    <3>4. CASE ~Affords("output", m + n)
      BY <2>3, <2>10, <3>4 DEF Extracted, Rendered
    <3> QED
      BY <3>3, <3>4
  <2>11. ASSUME NEW n \in Sizes(0), ApiNormalized(n)
         PROVE  LedgerInv'
    <3>1. n \in Nat
      BY SizesFacts
    <3>2. /\ Settles(own, "done") /\ stored' = stored + n /\ Loses("unmetered", n)
          /\ UNCHANGED <<count, raw, spent>>
      BY <2>11 DEF ApiNormalized
    <3> QED
      BY <2>0, <2>1, <3>1, <3>2, UnmeteredInv
  <2> QED
    BY <1>3, <1>4, <2>5, <2>6, <2>7, <2>8, <2>9, <2>10, <2>11 DEF ContentStep
<1> QED
  BY <1>1, <1>2, <1>4

----------------------------------------------------------------------------
\* What a transfer may move.
LEMMA TransferFacts ==
    ASSUME LedgerType
    PROVE  /\ Transfers(Left) \subseteq Amounts
           /\ \A u \in Amounts : ~Exceeds(u, Left) =>
                 \A f \in Fields : u[f] <= Remaining(f)
<1>1. /\ Fields = {"bytes", "output"}
      /\ "bytes" \in Fields /\ "output" \in Fields
  BY AmountFacts
<1>2. \A f \in Fields :
         Left[f] = Remaining(f) /\ Remaining(f) \in Nat
  BY RoomFacts DEF Left
<1>3. ASSUME NEW u \in Transfers(Left) PROVE u \in Amounts
  <2>1. PICK l \in Nat, m \in Nat : l = Left.bytes /\ m = Left.output
    BY <1>1, <1>2
  <2>2. u \in [bytes : Sizes(l), output : Sizes(m)]
    BY <2>1 DEF Transfers
  <2>3. Sizes(l) \subseteq Nat /\ Sizes(m) \subseteq Nat
    BY SizesFacts
  <2> QED
    BY <1>1, <2>2, <2>3 DEF Amounts
<1>4. ASSUME NEW u \in Amounts, ~Exceeds(u, Left), NEW f \in Fields
      PROVE  u[f] <= Remaining(f)
  <2>1. ~(u[f] > Left[f])
    BY <1>4 DEF Exceeds
  <2>2. u[f] \in Nat
    BY DEF Amounts
  <2> QED
    BY <1>2, <2>1, <2>2
<1> QED
  BY <1>3, <1>4

\* A fetch ends with what it moved on the attempt's record.
LEMMA AcquiresInv ==
    ASSUME LedgerInv, call.node \in {"http", "connector"},
           call.phase = "provider", NEW u \in Amounts, NEW result,
           Settles(Plus(own, u), result), spent' = spent + u["bytes"],
           raw' \in BOOLEAN, UNCHANGED <<count, stored, lost>>,
           result \notin Stopping => \A f \in Fields : u[f] <= Remaining(f)
    PROVE  LedgerInv'
<1>1. call.node # "none" /\ call.phase # "store"
  OBVIOUS
<1>2. InFlight(call) = 0
  BY <1>1, Plain
<1>3. "bytes" \in Fields
  BY AmountFacts
<1>4. PICK m \in Nat : m = u["bytes"]
  BY <1>3 DEF Amounts
<1>5. InFlight(call) + m <= u["bytes"] /\ spent' = spent + m
  BY <1>2, <1>4
<1> QED
  BY <1>1, <1>5, ChargesInv

\* An amount is compared with what is left, and the excess noted.
LEMMA UncheckedFacts ==
    ASSUME LedgerType, NEW u \in Amounts, GoesUnchecked(u)
    PROVE  /\ unchecked' \in Amounts
           /\ \A f \in Fields :
                 \/ u[f] <= Remaining(f) /\ unchecked'[f] = unchecked[f]
                 \/ /\ u[f] > Remaining(f)
                    /\ unchecked'[f] = unchecked[f] + u[f] - Remaining(f)
<1>1. ASSUME NEW f \in Fields
      PROVE  /\ unchecked'[f] \in Nat
             /\ \/ u[f] <= Remaining(f) /\ unchecked'[f] = unchecked[f]
                \/ /\ u[f] > Remaining(f)
                   /\ unchecked'[f] = unchecked[f] + u[f] - Remaining(f)
  <2>1. PICK b \in Nat, r \in Nat, q \in Nat :
           b = u[f] /\ r = Remaining(f) /\ q = unchecked[f]
    BY RoomFacts DEF Amounts, LedgerType
  <2>2. unchecked'[f] = q + Above(b, r)
    BY <2>1 DEF GoesUnchecked
  <2>3. /\ q + Above(b, r) \in Nat
        /\ b <= r => q + Above(b, r) = q
        /\ ~(b <= r) => b > r /\ q + Above(b, r) = q + b - r
    BY DEF Above
  <2> QED
    BY <2>1, <2>2, <2>3
<1>2. unchecked' \in Amounts
  BY <1>1 DEF GoesUnchecked, Amounts
<1> QED
  BY <1>1, <1>2

(* A fetch ends however it may: u is recorded, its excess noted, and the n *)
(* bytes nobody observed are lost.                                         *)
LEMMA HttpEndsInv ==
    ASSUME LedgerInv, NEW u \in Amounts, NEW n \in Nat, NEW result,
           HttpEnds(u, n, result), raw' \in BOOLEAN
    PROVE  LedgerInv'
<1>0. call.node = "http" /\ call.phase = "provider" /\ call.node # "none"
  BY DEF HttpEnds, At
<1>1. /\ LedgerType /\ CallInv(call, Room) /\ call # NoCall
      /\ spent <= Consumed("bytes") + Lost + InFlight(call)
      /\ Metered <= Consumed("output") + Kept(call)
      /\ Metered <= MaxOutput /\ Lost \in Nat /\ Metered \in Int
      /\ InFlight(call) = 0 /\ Kept(call) = 0
  BY <1>0, CallFacts, Plain
<1>2. ~call.grouped
  BY <1>0, <1>1 DEF CallInv, Grouped
<1>3. "bytes" \in Fields /\ "output" \in Fields
  BY AmountFacts
<1>4. PICK recorded \in Amounts :
         recorded = Plus(own, u) /\ \A f \in Fields : recorded[f] = own[f] + u[f]
  BY <1>1, AmountFacts DEF LedgerType
<1>5. /\ spent' = spent + u["bytes"] + n /\ Loses("unreported", n)
      /\ Closes(recorded, result) /\ GoesUnchecked(u)
      /\ UNCHANGED <<count, stored>>
  BY <1>4 DEF HttpEnds
<1>6. /\ used' = Plus(used, recorded) /\ own' = Nothing /\ call' = NoCall
      /\ run' = IF result \in Stopping THEN "stopped" ELSE run
      /\ batch' = IF result \in Stopping THEN <<>> ELSE batch
      /\ ceiling' = ceiling
  BY <1>5 DEF Closes
<1>7. used' \in Amounts /\ \A f \in Fields : used'[f] = Consumed(f) + u[f]
  <2>1. used' \in Amounts /\ \A f \in Fields : used'[f] = used[f] + recorded[f]
    BY <1>1, <1>6, AmountFacts DEF LedgerType
  <2>2. ASSUME NEW f \in Fields PROVE used'[f] = Consumed(f) + u[f]
    <3>1. used[f] \in Nat /\ own[f] \in Nat /\ u[f] \in Nat
      BY <1>1 DEF LedgerType, Amounts
    <3> QED
      BY <1>4, <2>1, <3>1 DEF Consumed
  <2> QED
    BY <2>1, <2>2
<1>8. /\ unchecked' \in Amounts
      /\ \A f \in Fields :
            \/ u[f] <= Remaining(f) /\ unchecked'[f] = unchecked[f]
            \/ /\ ~call.grouped /\ u[f] > Remaining(f)
               /\ unchecked'[f] = unchecked[f] + u[f] - Remaining(f)
  BY <1>1, <1>2, <1>5, UncheckedFacts
<1>9. lost' \in [Causes -> Nat] /\ Lost' = Lost + n /\ Metered' = Metered
  <2>1. PICK cause \in Causes : cause # "unmetered" /\ Loses(cause, n)
    BY <1>5 DEF Causes
  <2>2. /\ lost' \in [Causes -> Nat] /\ Lost' = Lost + n
        /\ lost'["unmetered"] = lost["unmetered"]
    BY <1>1, <2>1, LostFacts
  <2> QED
    BY <1>5, <2>2 DEF Metered
<1>10. PICK b \in Nat, o \in Nat, x \in Nat, y \in Nat, s \in Nat, k \in Nat, w \in Int :
          /\ b = u["bytes"] /\ o = u["output"] /\ s = spent /\ k = Lost
          /\ x = Consumed("bytes") /\ y = Consumed("output") /\ w = Metered
  BY <1>1, <1>3, RoomFacts DEF Amounts, LedgerType
<1>11. RestTyped
  <2>1. spent' \in Nat
    BY <1>5, <1>10
  <2> QED
    BY <1>1, <1>5, <1>8, <1>9, <2>1 DEF RestTyped, LedgerType
<1>12. /\ spent' <= Consumed("bytes") + u["bytes"] + Lost'
       /\ Metered' <= Consumed("output") + u["output"]
  <2>1. s <= x + k + 0 /\ w <= y + 0
    BY <1>1, <1>10
  <2>2. s + b + n <= x + b + (k + n) /\ w <= y + o
    BY <2>1
  <2> QED
    BY <1>5, <1>9, <1>10, <2>2
<1>13. Metered' <= MaxOutput
  BY <1>1, <1>9
<1> QED
  BY <1>1, <1>6, <1>7, <1>8, <1>11, <1>12, <1>13, SettledInv

\* A page's or a candidate's context is merged.
LEMMA MergesInv ==
    ASSUME LedgerInv, call.node \in {"crawl", "variants"},
           call.phase = "candidates", NEW u \in Amounts, NEW n \in Nat, Merges(u, n)
    PROVE  LedgerInv'
<1>0. call.node # "none" /\ call.node # "http"
  OBVIOUS
<1>1. /\ LedgerType /\ call \in CallRecord /\ CallInv(call, Room) /\ call # NoCall
      /\ spent <= Consumed("bytes") + Lost + InFlight(call)
      /\ Metered <= Consumed("output") + Kept(call)
      /\ Metered <= MaxOutput /\ Lost \in Nat /\ Metered \in Int
      /\ InFlight(call) = 0 /\ Kept(call) = 0
  BY <1>0, CallFacts, Plain
<1>2. /\ "bytes" \in Fields /\ "output" \in Fields
  BY AmountFacts
<1>3. /\ count' = count + n /\ used' = Plus(used, u) /\ spent' = spent + u["bytes"]
      /\ unchecked' = [f \in Fields |->
                          unchecked[f] + Above(u[f], Remaining(f))]
      /\ UNCHANGED <<own, ceiling, batch, call, run, raw, stored, lost>>
  BY DEF Merges, GoesUnchecked
<1>4. /\ used \in Amounts /\ own \in Amounts /\ unchecked \in Amounts /\ spent \in Nat
      /\ stored \in Nat /\ count \in Nat /\ raw \in BOOLEAN /\ lost \in [Causes -> Nat]
  BY <1>1 DEF LedgerType
<1>5. used' \in Amounts /\ \A f \in Fields : used'[f] = used[f] + u[f]
  BY <1>3, <1>4, AmountFacts
<1>6. ~call.grouped
  BY <1>1 DEF CallInv, Grouped
<1>7. ASSUME NEW f \in Fields
      PROVE  /\ Consumed(f)' = Consumed(f) + u[f] /\ unchecked'[f] \in Nat
             /\ \/ u[f] <= Remaining(f) /\ unchecked'[f] = unchecked[f]
                \/ /\ ~call.grouped /\ u[f] > Remaining(f)
                   /\ unchecked'[f] = unchecked[f] + u[f] - Remaining(f)
  <2>1. PICK a \in Nat, o \in Nat, b \in Nat, r \in Nat, q \in Nat :
           /\ a = used[f] /\ o = own[f] /\ b = u[f] /\ r = Remaining(f)
           /\ q = unchecked[f]
    BY <1>1, <1>4, RoomFacts DEF Amounts
  <2>2. Consumed(f)' = (a + b) + o /\ Consumed(f) = a + o
    BY <1>3, <1>5, <2>1 DEF Consumed
  <2>3. unchecked'[f] = q + Above(b, r)
    BY <1>3, <2>1
  <2>4. /\ q + Above(b, r) \in Nat
        /\ b <= r => q + Above(b, r) = q
        /\ ~(b <= r) => b > r /\ q + Above(b, r) = q + b - r
    BY DEF Above
  <2>5. (a + b) + o = (a + o) + b
    OBVIOUS
  <2> QED
    BY <1>6, <2>1, <2>2, <2>3, <2>4, <2>5
<1>8. Charged(u)
  BY <1>7 DEF Charged
<1>9. RestTyped /\ Lost' = Lost /\ Metered' = Metered
  <2>1. unchecked' \in Amounts
    BY <1>3, <1>7 DEF Amounts
  <2>2. u["bytes"] \in Nat
    BY <1>2 DEF Amounts
  <2>3. Lost' = Lost /\ Metered' = Metered
    BY <1>3 DEF Lost, Metered
  <2> QED
    BY <1>3, <1>4, <2>1, <2>2, <2>3 DEF RestTyped
<1>10. CallInv(call', Room')
  <2>1. PICK c \in CallRecord : c = call /\ c = call'
    BY <1>1, <1>3
  <2>2. c.phase = "candidates" /\ CallInv(c, Room)
    BY <1>1, <2>1
  <2>3. CallInv(c, Room')
    BY <2>2 DEF CallInv, Reading
  <2> QED
    BY <2>1, <2>3
<1>11. /\ spent' <= Consumed("bytes") + u["bytes"] + Lost' + InFlight(call')
       /\ Metered' <= Consumed("output") + u["output"] + Kept(call')
  <2>1. PICK b \in Nat, o \in Nat, x \in Nat, y \in Nat :
           /\ b = u["bytes"] /\ o = u["output"]
           /\ x = Consumed("bytes") /\ y = Consumed("output")
    BY <1>1, <1>2, RoomFacts DEF Amounts
  <2>2. spent + b <= x + b + Lost + 0
    BY <1>1, <1>4, <2>1
  <2>3. Metered <= y + o + 0
    BY <1>1, <1>4, <2>1
  <2>4. InFlight(call') = 0 /\ Kept(call') = 0 /\ Lost' = Lost /\ Metered' = Metered
    BY <1>1, <1>3, <1>9
  <2> QED
    BY <1>3, <2>1, <2>2, <2>3, <2>4
<1> QED
  BY <1>0, <1>1, <1>3, <1>4, <1>5, <1>8, <1>9, <1>10, <1>11, ProceedsInv

\* What the pages of a batch consumed together.
LEMMA PagesFacts ==
    ASSUME LedgerType, NEW p \in 1..2
    PROVE  PagesTotals(p) \subseteq Amounts
<1>1. /\ Fields = {"bytes", "output"}
      /\ Remaining("bytes") \in Nat /\ Remaining("output") \in Nat
  BY AmountFacts, RoomFacts
<1>2. \A r \in Nat : Most(1, Most(1, r) \div p) \in Nat
  BY DEF Most
<1>3. PageLimit(p)["bytes"] \in Nat /\ PageLimit(p)["output"] \in Nat
  BY <1>1, <1>2 DEF PageLimit
<1>4. PICK b \in Nat, o \in Nat :
         /\ b = p * (PageLimit(p)["bytes"] + Overshoot)
         /\ o = p * (PageLimit(p)["output"] + Overshoot)
  BY <1>3, LedgerConstants
<1>5. PagesTotals(p) = [bytes : 0..b, output : 0..o]
  BY <1>4 DEF PagesTotals
<1>6. 0..b \subseteq Nat /\ 0..o \subseteq Nat
  OBVIOUS
<1> QED
  BY <1>1, <1>5, <1>6 DEF Amounts

\* Every way in which a fetch with a usage report ends.
LEMMA FetchInv ==
    ASSUME LedgerInv, NEW u \in Transfers(Left),
           \/ HttpRefuses(u) \/ HttpSucceeds(u)
           \/ ConnectorFails(u) \/ ConnectorExceeds(u) \/ ConnectorReturns(u)
    PROVE  LedgerInv'
<1>0. LedgerType /\ raw \in BOOLEAN
  BY DEF LedgerInv, LedgerType
<1>1. u \in Amounts
  BY <1>0, TransferFacts
<1>2. ~Exceeds(u, Left) => \A f \in Fields : u[f] <= Remaining(f)
  BY <1>0, <1>1, TransferFacts
<1>3. raw' \in BOOLEAN
  <2>1. raw' = raw \/ raw' = TRUE
    BY DEF HttpRefuses, HttpSucceeds, ConnectorFails, ConnectorExceeds,
           ConnectorReturns
  <2> QED
    BY <1>0, <2>1, Zenon
<1>4. CASE HttpSucceeds(u)
  <2>1. HttpEnds(u, 0, "done")
    BY <1>4 DEF HttpSucceeds
  <2> QED
    BY <1>1, <1>3, <2>1, HttpEndsInv
<1>5. CASE ~HttpSucceeds(u)
  <2>2. /\ call.node \in {"http", "connector"} /\ call.phase = "provider"
        /\ spent' = spent + u["bytes"] /\ UNCHANGED <<count, stored, lost>>
    BY <1>5 DEF HttpRefuses, ConnectorFails, ConnectorExceeds,
           ConnectorReturns, ConnectorEnds, At
  <2>3. PICK result : /\ Settles(Plus(own, u), result)
                      /\ result = "budget" \/ ~Exceeds(u, Left)
    BY <1>5 DEF HttpRefuses, ConnectorFails, ConnectorExceeds,
           ConnectorReturns, ConnectorEnds
  <2>4. "budget" \in Stopping
    BY DEF Stopping
  <2> QED
    BY <1>1, <1>2, <1>3, <2>2, <2>3, <2>4, AcquiresInv
<1> QED
  BY <1>4, <1>5

\* Every way in which a transfer ends whose bytes are charged to nobody.
LEMMA UnreportedInv ==
    ASSUME LedgerInv, NEW n \in Nat, NEW u \in Amounts, NEW p \in Nat,
           \/ FormFails(n) \/ FormSubmitted(n) \/ ConnectorUnreported(n)
           \/ CrawlBatchDropped(p, u) \/ VariantDropped(u)
    PROVE  LedgerInv'
<1>0. LedgerType /\ raw \in BOOLEAN
  BY DEF LedgerInv, LedgerType
<1>1. raw' \in BOOLEAN
  <2>1. raw' = raw \/ raw' = TRUE
    BY DEF FormFails, FormSubmitted, ConnectorUnreported, CrawlBatchDropped,
           VariantDropped
  <2> QED
    BY <1>0, <2>1, Zenon
<1>2. call.node \in {"form", "connector", "crawl", "variants"} /\ call.node # "none"
  BY DEF FormFails, FormSubmitted, ConnectorUnreported, CrawlBatchDropped,
         VariantDropped, At
<1>3. InFlight(call) = 0 /\ Kept(call) = 0
  BY <1>2, Plain
<1>4. u["bytes"] \in Nat
  BY AmountFacts DEF Amounts
<1>5. PICK m \in Nat, cause \in Causes \ {"unmetered"}, result \in Results :
         EndsUncharged(m, cause, result)
  <2>1. CASE FormFails(n) \/ FormSubmitted(n)
    BY <2>1 DEF FormFails, FormSubmitted, Causes, Results
  <2>2. CASE ConnectorUnreported(n)
    BY <2>2 DEF ConnectorUnreported, Causes, Results
  <2>3. CASE CrawlBatchDropped(p, u) \/ VariantDropped(u)
    BY <1>4, <2>3 DEF CrawlBatchDropped, VariantDropped, Causes, Results
  <2> QED
    BY <2>1, <2>2, <2>3
<1> QED
  BY <1>1, <1>2, <1>3, <1>5, UnchargedInv

\* The list of candidates is stored before the first one is fetched.
LEMMA CandidatesInv ==
    ASSUME LedgerInv, NEW n \in Nat, CandidatesStored(n)
    PROVE  LedgerInv'
<1>0. /\ call.node = "variants" /\ call.phase = "source" /\ call.node # "none"
      /\ call.node # "http"
  BY DEF CandidatesStored, At
<1>1. /\ LedgerType /\ call \in CallRecord /\ CallInv(call, Room) /\ call # NoCall
      /\ spent <= Consumed("bytes") + Lost + InFlight(call)
      /\ Metered <= Consumed("output") + Kept(call)
      /\ Metered <= MaxOutput /\ Lost \in Nat /\ Metered \in Int
      /\ InFlight(call) = 0 /\ Kept(call) = 0 /\ call.sofar = 0
      /\ call.puts = <<>>
  BY <1>0, CallFacts, Plain
<1>2. /\ stored' = stored + n /\ Loses("unmetered", n)
      /\ call' = [call EXCEPT !.phase = "candidates"]
      /\ UNCHANGED <<count, used, own, ceiling, batch, run, raw, spent, unchecked>>
  BY DEF CandidatesStored
<1>3. /\ lost' \in [Causes -> Nat] /\ stored' \in Nat
      /\ Lost' = Lost /\ Metered' = Metered
  BY <1>1, <1>2, UnmeteredFacts
<1>4. PICK c \in CallRecord :
         /\ call' = c /\ c.node = call.node /\ c.grouped = call.grouped
         /\ c.phase = "candidates" /\ c.puts = <<>> /\ c.sofar = 0
  BY <1>1, <1>2 DEF CallRecord, Phases
<1>5. InFlight(c) = 0 /\ Kept(c) = 0
  BY <1>4 DEF InFlight, Kept
<1>6. PICK u \in Amounts : /\ \A f \in Fields : u[f] = 0
                           /\ "bytes" \in Fields /\ "output" \in Fields
  BY AmountFacts
<1>7. Charged(u)
  <2>1. \A f \in Fields : Consumed(f)' = Consumed(f)
    BY <1>2 DEF Consumed
  <2> QED
    BY <1>1, <1>2, <1>6, <2>1, RoomFacts DEF Charged
<1>8. RestTyped /\ used' \in Amounts /\ own' \in Amounts
  BY <1>1, <1>2, <1>3 DEF RestTyped, LedgerType
<1>9. CallInv(c, Room')
  <2>1. c.grouped => c.node \in Grouped
    BY <1>1, <1>4 DEF CallInv
  <2>2. Len(c.puts) = 0
    BY <1>4
  <2> QED
    BY <1>0, <1>4, <2>1, <2>2 DEF CallInv, Reading
<1>10. /\ spent' <= Consumed("bytes") + u["bytes"] + Lost' + InFlight(call')
       /\ Metered' <= Consumed("output") + u["output"] + Kept(call')
  <2>1. Consumed("bytes") \in Nat /\ Consumed("output") \in Nat /\ spent \in Nat
    BY <1>1, <1>6, RoomFacts DEF LedgerType
  <2> QED
    BY <1>1, <1>2, <1>3, <1>4, <1>5, <1>6, <2>1
<1> QED
  BY <1>0, <1>1, <1>2, <1>3, <1>4, <1>7, <1>8, <1>9, <1>10, ProceedsInv

\* A connector that showed a body of b bytes.
LEMMA BodyInv ==
    ASSUME LedgerInv, NEW b \in Nat,
           ConnectorUnderReports(b) \/ ConnectorUnmetered(b)
    PROVE  LedgerInv'
<1>0. /\ call.node = "connector" /\ call.phase = "provider" /\ call.node # "none"
      /\ call.node \in {"http", "connector"}
  BY DEF ConnectorUnderReports, ConnectorUnmetered, ConnectorEnds, At
<1>1. /\ LedgerType /\ CallInv(call, Room) /\ call.limit \in Nat /\ raw \in BOOLEAN
      /\ Fields = {"bytes", "output"}
  BY <1>0, CallFacts, AmountFacts DEF LedgerType
<1>2. PICK u \in Amounts : u = Use(b, b) /\ u["bytes"] = b /\ u["output"] = b
  BY AmountFacts
<1>3. b <= call.limit => \A f \in Fields : u[f] <= Remaining(f)
  <2>1. \A f \in Fields : call.limit <= Room[f]
    BY <1>0, <1>1 DEF CallInv
  <2>2. \A f \in Fields : u[f] = b /\ Room[f] = Remaining(f) /\ Remaining(f) \in Nat
    BY <1>1, <1>2, RoomFacts
  <2> QED
    BY <1>1, <2>1, <2>2
<1>4. PICK result : /\ Settles(Plus(own, u), result)
                    /\ result = "budget" \/ b <= call.limit
  BY <1>1, <1>2 DEF ConnectorUnderReports, ConnectorUnmetered, ConnectorEnds
<1>5. spent' = spent + u["bytes"] /\ UNCHANGED <<count, stored, lost>> /\ raw' \in BOOLEAN
  BY <1>1, <1>2 DEF ConnectorUnderReports, ConnectorUnmetered, ConnectorEnds
<1>6. "budget" \in Stopping
  BY DEF Stopping
<1> QED
  BY <1>0, <1>3, <1>4, <1>5, <1>6, AcquiresInv

\* Every step of the transfer adapters keeps the invariant.
LEMMA TransferInv ==
    ASSUME LedgerInv, TransferStep
    PROVE  LedgerInv'
<1> USE DEF At
<1>0. LedgerType
  BY DEF LedgerInv
<1>1. CASE \E u \in Transfers(Left) :
              \/ HttpRefuses(u) \/ HttpSucceeds(u)
              \/ ConnectorFails(u) \/ ConnectorExceeds(u) \/ ConnectorReturns(u)
  BY <1>1, FetchInv
<1>2. CASE \E b \in Sizes(call.limit) :
              ConnectorUnderReports(b) \/ ConnectorUnmetered(b)
  <2>1. call.limit \in Nat
    BY <1>0 DEF LedgerType, CallRecord
  <2>2. PICK b \in Nat : ConnectorUnderReports(b) \/ ConnectorUnmetered(b)
    BY <1>2, <2>1, SizesFacts
  <2> QED
    BY <2>2, BodyInv
<1>3. CASE \E u \in Transfers(Left) : VariantFetched(u)
  <2>1. PICK u \in Amounts : VariantFetched(u)
    BY <1>0, <1>3, TransferFacts
  <2>2. /\ call.node \in {"crawl", "variants"} /\ call.phase = "candidates"
        /\ Merges(u, 1)
    BY <2>1 DEF VariantFetched
  <2> QED
    BY <2>2, MergesInv
<1>4. CASE \E p \in 1..2 : \E u \in PagesTotals(p) : CrawlBatch(p, u)
  <2>1. PICK p \in 1..2 : \E u \in PagesTotals(p) : CrawlBatch(p, u)
    BY <1>4
  <2>2. PICK u \in Amounts : CrawlBatch(p, u)
    BY <1>0, <2>1, PagesFacts
  <2>3. /\ call.node \in {"crawl", "variants"} /\ call.phase = "candidates"
        /\ Merges(u, p) /\ p \in Nat
    BY <2>2 DEF CrawlBatch
  <2> QED
    BY <2>3, MergesInv
<1>5. CASE \/ \E n \in Sizes(Left.bytes) : FormFails(n) \/ FormSubmitted(n)
           \/ \E n \in Sizes(call.limit) : ConnectorUnreported(n)
           \/ \E p \in 1..2 : \E u \in PagesTotals(p) : CrawlBatchDropped(p, u)
           \/ \E u \in Transfers(Left) : VariantDropped(u)
  <2>1. Left.bytes \in Nat /\ call.limit \in Nat
    BY <1>0, AmountFacts, RoomFacts DEF Left, LedgerType, CallRecord
  <2>2. \E n \in Nat, p \in Nat, u \in Amounts :
           \/ FormFails(n) \/ FormSubmitted(n) \/ ConnectorUnreported(n)
           \/ CrawlBatchDropped(p, u) \/ VariantDropped(u)
    <3>1. Sizes(Left.bytes) \subseteq Nat /\ Sizes(call.limit) \subseteq Nat
      BY <2>1, SizesFacts
    <3>2. Transfers(Left) \subseteq Amounts
      BY <1>0, TransferFacts
    <3>3. \A p \in 1..2 : p \in Nat /\ PagesTotals(p) \subseteq Amounts
      BY <1>0, PagesFacts
    <3>4. Nothing \in Amounts /\ 0 \in Nat
      BY AmountFacts
    <3> QED
      BY <1>5, <3>1, <3>2, <3>3, <3>4
  <2> QED
    BY <2>2, UnreportedInv
<1>6. CASE \E u \in Transfers(Left), n \in Sizes(0) : HttpFails(u, n)
  <2>1. PICK u \in Amounts, n \in Nat : HttpFails(u, n)
    BY <1>0, <1>6, TransferFacts, SizesFacts
  <2>2. PICK result : HttpEnds(u, n, result)
    BY <2>1 DEF HttpFails
  <2>3. raw' \in BOOLEAN
    BY <1>0, <2>1 DEF HttpFails, LedgerType
  <2> QED
    BY <2>2, <2>3, HttpEndsInv
<1>7. CASE \E n \in Sizes(0) : CrawlEnds(n)
  <2>1. PICK n \in Nat : CrawlEnds(n)
    BY <1>7, SizesFacts
  <2>2. /\ call.node = "crawl" /\ Settles(own, "done")
        /\ stored' = stored + n /\ Loses("unmetered", n)
        /\ UNCHANGED <<count, raw, spent>>
    BY <2>1 DEF CrawlEnds
  <2>3. call.node # "none" /\ InFlight(call) = 0 /\ Kept(call) = 0
    BY <2>2, Plain
  <2> QED
    BY <2>2, <2>3, UnmeteredInv
<1>8. CASE \E n \in Sizes(0) : CandidatesStored(n)
  BY <1>8, SizesFacts, CandidatesInv
<1>9. CASE CacheEnds
  <2>1. /\ call.node = "cache" /\ call.phase = "local" /\ Settles(own, "done")
        /\ UNCHANGED <<count, stored, spent, lost>> /\ raw' \in {raw, TRUE}
    BY <1>9 DEF CacheEnds
  <2>2. call.node # "none" /\ InFlight(call) = 0 /\ Kept(call) = 0
    BY <2>1, Plain
  <2>3. PICK cause \in Causes \ {"unmetered"} : cause = "dropped"
    BY DEF Causes
  <2>4. spent' = spent + 0 /\ Loses(cause, 0) /\ raw' \in BOOLEAN
    <3>1. spent \in Nat /\ lost \in [Causes -> Nat] /\ raw \in BOOLEAN
      BY <1>0 DEF LedgerType
    <3>2. spent' = spent + 0
      BY <2>1, <3>1
    <3>3. lost = [lost EXCEPT ![cause] = @ + 0]
      BY <3>1
    <3>4. raw' \in BOOLEAN
      BY <2>1, <3>1, Zenon
    <3> QED
      BY <2>1, <3>2, <3>3, <3>4 DEF Loses
  <2>5. InFlight(call) + 0 <= 0
    BY <2>2
  <2> QED
    BY <2>1, <2>2, <2>4, <2>5, LosesInv
<1>10. CASE \/ HttpBegins \/ HttpExhausted \/ FormBegins \/ FormRefused
            \/ FormExhausted \/ CacheBegins \/ CacheFails
            \/ ConnectorBegins \/ ConnectorRefused \/ ConnectorAsked
            \/ CrawlRefused \/ CrawlBegins
            \/ VariantsRefused \/ VariantsBegin \/ VariantsEnd
  <2>0. /\ call.node \in {"http", "form", "cache", "connector", "crawl", "variants"}
        /\ call.node # "none" /\ call.phase \notin {"stream", "store"}
    BY <1>10 DEF HttpBegins, HttpExhausted, FormBegins, FormRefused,
           FormExhausted, CacheBegins, CacheFails, ConnectorBegins,
           ConnectorRefused, ConnectorAsked, CrawlRefused, CrawlBegins,
           VariantsRefused, VariantsBegin, VariantsEnd
  <2>1. call.sofar = 0
    BY <2>0, Plain
  <2>2. call.puts = <<>>
    BY <2>0, CallFacts
  <2>3. ASSUME NEW result, Ends(result) PROVE LedgerInv'
    BY <2>0, <2>1, <2>3, EndsInv
  <2>4. CASE ConnectorAsked
    <3>1. CASE SomeLeft
      <4>1. PICK phase \in Phases, limit \in Nat :
               /\ phase = "provider" /\ GoesOn(phase, limit)
               /\ \A f \in Fields : limit <= Remaining(f)
        BY <1>0, <2>4, <3>1, LeastFacts DEF ConnectorAsked, Phases
      <4> QED
        BY <2>0, <2>1, <2>2, <4>1, GoesOnInv
    <3>2. CASE ~SomeLeft
      BY <2>3, <2>4, <3>2 DEF ConnectorAsked
    <3> QED
      BY <3>1, <3>2
  <2>5. CASE \/ HttpExhausted \/ FormRefused \/ FormExhausted \/ CacheFails
             \/ ConnectorRefused \/ CrawlRefused
             \/ VariantsRefused \/ VariantsEnd
    <3>1. \E result : Ends(result)
      BY <2>5 DEF HttpExhausted, FormRefused, FormExhausted, CacheFails,
             ConnectorRefused, CrawlRefused, VariantsRefused, VariantsEnd
    <3> QED
      BY <2>3, <3>1
  <2>6. CASE \/ HttpBegins \/ FormBegins \/ CacheBegins \/ ConnectorBegins
             \/ CrawlBegins \/ VariantsBegin
    <3>1. PICK phase \in Phases, limit \in Nat :
             /\ limit = 0 /\ Opens(phase, limit)
             /\ \/ phase \in {"source", "candidates", "local"}
                \/ phase = "provider" /\ call.node \in {"http", "form"}
      BY <2>6 DEF HttpBegins, FormBegins, CacheBegins, ConnectorBegins,
             CrawlBegins, VariantsBegin, Phases
    <3> QED
      BY <2>0, <2>1, <2>2, <3>1, GoesOnInv
  <2> QED
    BY <1>10, <2>4, <2>5, <2>6
<1> QED
  BY <1>1, <1>2, <1>3, <1>4, <1>5, <1>6, <1>7, <1>8, <1>9, <1>10
     DEF TransferStep, Fetches

----------------------------------------------------------------------------
\* The branches that have not run yet.
LEMMA BranchSeq ==
    ASSUME NEW b \in Seq(Branch), NEW k \in Nat, k = Len(b), b # <<>>, k <= 2
    PROVE  \E first \in Branch, rest \in Seq(Branch) :
              /\ first = b[1] /\ first = Head(b) /\ rest = Tail(b)
              /\ (k = 1 \/ k = 2) /\ Len(rest) <= 1 /\ Len(rest) # 2
              /\ k = 2 => b[2] \in Branch
              /\ Len(rest) = 1 => k = 2 /\ rest[1] = b[2]
<1>1. k # 0
  OBVIOUS
<1>2. k = 1 \/ k = 2
  BY <1>1
<1>3. b[1] \in Branch /\ Head(b) = b[1]
  BY <1>2
<1>4. Tail(b) \in Seq(Branch) /\ Len(Tail(b)) = k - 1
  BY <1>2
<1>5. k = 2 => b[2] \in Branch /\ Tail(b)[1] = b[2]
  BY <1>4
<1>6. /\ Len(Tail(b)) <= 1 /\ Len(Tail(b)) # 2
      /\ Len(Tail(b)) = 1 => k = 2
  BY <1>2, <1>4
<1> QED
  BY <1>2, <1>3, <1>4, <1>5, <1>6

\* A call that has just been started.
Begun(n, g) ==
    [node |-> n, phase |-> "begun", limit |-> 0, grouped |-> g, puts |-> <<>>, sofar |-> 0]

\* A call that has just begun has nothing in flight or kept.
LEMMA BegunFacts ==
    ASSUME NEW n \in Nodes, NEW g \in BOOLEAN, g => n \in Grouped,
           NEW c, c = Begun(n, g)
    PROVE  /\ c \in CallRecord /\ c.node = n /\ c.grouped = g
           /\ InFlight(c) = 0 /\ Kept(c) = 0 /\ c # NoCall
           /\ \A rem : CallInv(c, rem)
<1>1. PICK none \in Seq(Nat) : none = <<>>
  <2>1. <<>> \in Seq(Nat)
    OBVIOUS
  <2> QED
    BY <2>1, Zenon
<1>2. c = [node |-> n, phase |-> "begun", limit |-> 0, grouped |-> g, puts |-> none, sofar |-> 0]
  BY <1>1, Zenon DEF Begun
<1>3. c \in CallRecord
  BY <1>2 DEF CallRecord, Phases
<1>4. /\ c.node = n /\ c.phase = "begun" /\ c.puts = <<>> /\ c.sofar = 0
  BY <1>1, <1>2
<1>5. c.grouped = g
  BY Zenon DEF Begun
<1>6. n # "none"
  BY DEF Nodes
<1>7. InFlight(c) = 0 /\ Kept(c) = 0
  BY <1>4 DEF InFlight, Kept
<1>8. c # NoCall
  BY <1>4, <1>6, NoCallFacts
<1>9. \A rem : CallInv(c, rem)
  <2>1. Len(c.puts) = 0
    BY <1>4
  <2>2. c.grouped => c.node \in Grouped
    BY <1>4, <1>5
  <2> QED
    BY <1>4, <1>6, <2>1, <2>2 DEF CallInv, Reading
<1> QED
  BY <1>3, <1>4, <1>5, <1>7, <1>8, <1>9

\* A call starts, alone or as a branch with its share.
LEMMA StartsInv ==
    ASSUME LedgerInv, call = NoCall, run = "running",
           NEW n \in Nodes, NEW g \in BOOLEAN, g => n \in Grouped,
           call' = Begun(n, g),
           UNCHANGED <<count, used, own, run, raw, stored, spent, lost, unchecked>>,
           ceiling' \in Amounts, batch' \in Seq(Branch), Len(batch') <= 1,
           Fits(batch', ceiling'), ~g => batch' = <<>>,
           \A f \in Fields :
               /\ ceiling'[f] <= Limits[f] \/ ceiling'[f] <= used[f]
               /\ g => used[f] <= ceiling'[f]
    PROVE  LedgerInv'
<1>0. LedgerType /\ own = Nothing /\ Metered <= MaxOutput
  BY DEF LedgerInv, IdleInv
<1>1. PICK c : c = Begun(n, g)
  OBVIOUS
<1>2. /\ c \in CallRecord /\ c.node = n /\ c.grouped = g
      /\ InFlight(c) = 0 /\ Kept(c) = 0 /\ c # NoCall
      /\ \A rem : CallInv(c, rem)
  BY <1>1, BegunFacts
<1>3. call' = c
  BY <1>1
<1>4. \A f \in Fields : Consumed(f)' = used[f] /\ Consumed(f) = used[f]
  <2> SUFFICES ASSUME NEW f \in Fields
               PROVE  Consumed(f)' = used[f] /\ Consumed(f) = used[f]
    OBVIOUS
  <2>1. used[f] \in Nat /\ own[f] = 0
    BY <1>0, AmountFacts DEF LedgerType, Amounts
  <2> QED
    BY <2>1 DEF Consumed
<1>5. LedgerType'
  BY <1>0, <1>2, <1>3 DEF LedgerType
<1>6. AccountInv'
  <2>1. InFlight(call) = 0 /\ Kept(call) = 0
    BY NoCallFacts
  <2>2. /\ spent <= Consumed("bytes") + Lost + 0
        /\ Metered <= Consumed("output") + 0
        /\ \A f \in Fields : Consumed(f) <= Limits[f] + unchecked[f]
    BY <2>1 DEF LedgerInv, AccountInv
  <2>3. /\ Consumed("bytes")' = Consumed("bytes")
        /\ Consumed("output")' = Consumed("output")
        /\ InFlight(call)' = 0 /\ Kept(call)' = 0 /\ Lost' = Lost /\ Metered' = Metered
    BY <1>2, <1>3, <1>4, AmountFacts DEF Lost, Metered
  <2> QED
    BY <1>4, <2>2, <2>3 DEF AccountInv
<1>7. IdleInv'
  BY <1>2, <1>3 DEF IdleInv
<1>8. BusyInv'
  <2>1. CallInv(call', Room')
    BY <1>2, <1>3
  <2>2. call'.grouped = g
    BY <1>2, <1>3
  <2>3. \A f \in Fields :
           /\ ceiling'[f] <= Limits[f] \/ ceiling'[f] <= Consumed(f)'
           /\ g => Consumed(f)' <= ceiling'[f]
    BY <1>4
  <2> QED
    BY <1>0, <2>1, <2>2, <2>3 DEF BusyInv
<1>9. Metered' <= MaxOutput
  BY <1>0 DEF Metered
<1> QED
  BY <1>5, <1>6, <1>7, <1>8, <1>9 DEF LedgerInv

\* A node starts alone, with all that remains of the budget.
LEMMA StartNodeInv ==
    ASSUME LedgerInv, NEW n \in Nodes, StartNode(n)
    PROVE  LedgerInv'
<1>1. /\ run = "running" /\ call = NoCall /\ batch = <<>> /\ batch' = <<>>
      /\ ceiling' = Limits
      /\ call' = [NoCall EXCEPT !.node = n, !.phase = "begun"]
      /\ UNCHANGED <<count, used, own, run, raw, stored, spent, lost, unchecked>>
  BY DEF StartNode, Idle
<1>2. PICK g \in BOOLEAN : g = FALSE
  BY Zenon
<1>3. call' = Begun(n, g)
  <2>1. ASSUME NEW d, d = [NoCall EXCEPT !.node = n, !.phase = "begun"]
        PROVE  d = Begun(n, FALSE)
    BY <2>1 DEF NoCall, Begun
  <2> QED
    BY <1>1, <1>2, <2>1, Zenon
<1>4. /\ ceiling' \in Amounts /\ \A f \in Fields : ceiling'[f] <= Limits[f]
  BY <1>1, AmountFacts DEF Amounts
<1>5. batch' \in Seq(Branch) /\ Len(batch') <= 1 /\ Len(batch') = 0
  BY <1>1
<1>6. Fits(batch', ceiling')
  BY <1>5 DEF Fits
<1> QED
  BY <1>1, <1>2, <1>3, <1>4, <1>5, <1>6, StartsInv

\* The next branch of a group starts, with its share as its ceiling.
LEMMA StartBranchInv ==
    ASSUME LedgerInv, StartBranch
    PROVE  LedgerInv'
<1>1. /\ run = "running" /\ call = NoCall /\ batch # <<>> /\ batch' = Tail(batch)
      /\ ceiling' = Plus(used, Head(batch).share)
      /\ call' = [NoCall EXCEPT !.node = Head(batch).node, !.phase = "begun",
                                       !.grouped = TRUE]
      /\ UNCHANGED <<count, used, own, run, raw, stored, spent, lost, unchecked>>
  BY DEF StartBranch
<1>2. LedgerType /\ Len(batch) <= 2 /\ Fits(batch, used) /\ used \in Amounts
  BY <1>1 DEF LedgerInv, IdleInv, LedgerType
<1>3. PICK b \in Seq(Branch), first \in Branch, rest \in Seq(Branch), k \in Nat :
         /\ b = batch /\ first = b[1] /\ first = Head(batch) /\ rest = Tail(b)
         /\ k = Len(b) /\ (k = 1 \/ k = 2) /\ Len(rest) <= 1 /\ Len(rest) # 2
         /\ k = 2 => b[2] \in Branch
         /\ Len(rest) = 1 => k = 2 /\ rest[1] = b[2]
  <2>1. PICK b \in Seq(Branch), k \in Nat : b = batch /\ k = Len(b)
    BY <1>2 DEF LedgerType
  <2>2. b # <<>> /\ k <= 2
    BY <1>1, <1>2, <2>1
  <2> QED
    BY <2>1, <2>2, BranchSeq
<1>4. PICK n \in Nodes, share \in Amounts :
         n = first.node /\ share = first.share /\ n \in Grouped
  <2>1. first.node \in Grouped /\ first.share \in Amounts
    BY DEF Branch
  <2>2. Grouped \subseteq Nodes
    BY DEF Grouped, Nodes
  <2> QED
    BY <2>1, <2>2
<1>5. PICK g \in BOOLEAN : g = TRUE
  BY Zenon
<1>6. call' = Begun(n, g)
  <2>1. ASSUME NEW d, d = [NoCall EXCEPT !.node = n, !.phase = "begun", !.grouped = TRUE]
        PROVE  d = Begun(n, TRUE)
    BY <2>1 DEF NoCall, Begun
  <2>2. Head(batch).node = n
    BY <1>3, <1>4
  <2> QED
    BY <1>1, <1>5, <2>1, <2>2, Zenon
<1>7. ceiling' \in Amounts /\ \A f \in Fields : ceiling'[f] = used[f] + share[f]
  <2>1. ceiling' = Plus(used, share)
    BY <1>1, <1>3, <1>4
  <2> QED
    BY <1>2, <2>1, AmountFacts
<1>8. ASSUME NEW f \in Fields
      PROVE  /\ ceiling'[f] <= Limits[f] \/ ceiling'[f] <= used[f]
             /\ used[f] <= ceiling'[f]
             /\ k = 2 => \/ b[2].share[f] = 0
                         \/ ceiling'[f] + b[2].share[f] <= Limits[f]
  <2>1. PICK x \in Nat, y \in Nat, l \in Nat :
           x = used[f] /\ y = share[f] /\ l = Limits[f]
    BY <1>2, AmountFacts DEF Amounts
  <2>2. ceiling'[f] = x + y /\ y = b[1].share[f]
    BY <1>3, <1>4, <1>7, <2>1
  <2>3. CASE k = 1
    <3>1. y = 0 \/ x + y <= l
      BY <1>2, <1>3, <2>1, <2>2, <2>3 DEF Fits
    <3>2. (x + y <= l \/ x + y <= x) /\ x <= x + y
      BY <3>1
    <3> QED
      BY <2>1, <2>2, <2>3, <3>2
  <2>4. CASE k = 2
    <3>1. PICK z \in Nat : z = b[2].share[f]
      BY <1>3, <2>4 DEF Branch, Amounts
    <3>2. (y = 0 /\ z = 0) \/ x + y + z <= l
      BY <1>2, <1>3, <2>1, <2>2, <2>4, <3>1 DEF Fits
    <3>3. /\ x + y <= l \/ x + y <= x
          /\ x <= x + y
          /\ z = 0 \/ (x + y) + z <= l
      BY <3>2
    <3> QED
      BY <2>1, <2>2, <3>1, <3>3
  <2> QED
    BY <1>3, <2>3, <2>4
<1>9. batch' = rest /\ rest \in Seq(Branch) /\ Len(rest) <= 1
  BY <1>1, <1>3
<1>10. Fits(rest, ceiling')
  <2>1. Len(rest) # 2 /\ (Len(rest) = 1 => k = 2 /\ rest[1] = b[2])
    BY <1>3
  <2>2. ASSUME NEW f \in Fields, Len(rest) = 1
        PROVE  rest[1].share[f] = 0 \/ ceiling'[f] + rest[1].share[f] <= Limits[f]
    <3>1. k = 2 /\ rest[1] = b[2]
      BY <2>1, <2>2
    <3>2. b[2].share[f] = 0 \/ ceiling'[f] + b[2].share[f] <= Limits[f]
      BY <1>8, <3>1
    <3>3. rest[1].share[f] = b[2].share[f]
      BY <3>1
    <3> QED
      BY <3>2, <3>3
  <2> QED
    BY <2>1, <2>2 DEF Fits
<1> QED
  BY <1>1, <1>4, <1>5, <1>6, <1>7, <1>8, <1>9, <1>10, StartsInv

\* Two shares are what is left, and no more.
LEMMA ShareFacts ==
    ASSUME LedgerType, NEW f \in Fields
    PROVE  /\ Share(f, 2, 1) \in Nat /\ Share(f, 2, 2) \in Nat
           /\ Share(f, 2, 1) + Share(f, 2, 2)
                 = Above(Limits[f], Consumed(f))
<1>1. PICK l \in Nat, c \in Nat : l = Limits[f] /\ c = Consumed(f)
  BY RoomFacts
<1>2. PICK n \in Nat : n = Above(l, c)
  <2>1. Above(l, c) \in Nat
    BY DEF Above
  <2> QED
    BY <2>1
<1>3. PICK h \in Nat, r \in Nat : h = n \div 2 /\ r = n % 2
  OBVIOUS
<1>4. (r = 0 \/ r = 1) /\ n = 2 * h + r
  BY <1>3
<1>5. /\ Share(f, 2, 1) = h + (IF 1 <= r THEN 1 ELSE 0)
      /\ Share(f, 2, 2) = h + (IF 2 <= r THEN 1 ELSE 0)
  BY <1>1, <1>2, <1>3 DEF Share
<1>6. Share(f, 2, 1) = h + r /\ Share(f, 2, 2) = h
  BY <1>4, <1>5
<1> QED
  BY <1>1, <1>2, <1>4, <1>6

\* A group starts: the shares together fit into what remains.
LEMMA StartGroupInv ==
    ASSUME LedgerInv, NEW g \in Groups, StartGroup(g)
    PROVE  LedgerInv'
<1>1. /\ run = "running" /\ call = NoCall
      /\ batch' = [i \in DOMAIN g |->
                     [node |-> g[i],
                      share |-> [f \in Fields |-> Share(f, Len(g), i)]]]
      /\ UNCHANGED <<count, used, own, ceiling, call, run, raw, stored, spent, lost, unchecked>>
  BY DEF StartGroup, Idle
<1>2. LedgerType /\ own = Nothing /\ Metered <= MaxOutput /\ used \in Amounts
  BY <1>1 DEF LedgerInv, IdleInv, LedgerType
<1>3. DOMAIN g = 1..2 /\ Len(g) = 2 /\ g[1] \in Grouped /\ g[2] \in Grouped
  BY DEF Groups, Grouped
<1>4. PICK s1 \in Amounts, s2 \in Amounts :
         /\ s1 = [f \in Fields |-> Share(f, 2, 1)]
         /\ s2 = [f \in Fields |-> Share(f, 2, 2)]
  BY <1>2, ShareFacts DEF Amounts
<1>5. PICK b1 \in Branch, b2 \in Branch :
         b1 = [node |-> g[1], share |-> s1] /\ b2 = [node |-> g[2], share |-> s2]
  BY <1>3 DEF Branch
<1>6. batch' = <<b1, b2>>
  <2>1. /\ batch' = [i \in 1..2 |->
                       [node |-> g[i], share |-> [f \in Fields |-> Share(f, 2, i)]]]
    BY <1>1, <1>3
  <2>2. batch'[1] = b1 /\ batch'[2] = b2
    BY <1>4, <1>5, <2>1
  <2> QED
    BY <2>1, <2>2
<1>7. /\ batch' \in Seq(Branch) /\ Len(batch') = 2
      /\ batch'[1] = b1 /\ batch'[2] = b2
  BY <1>6
<1>8. Fits(batch', used)
  <2> SUFFICES ASSUME NEW f \in Fields
               PROVE  \/ b1.share[f] = 0 /\ b2.share[f] = 0
                      \/ used[f] + b1.share[f] + b2.share[f] <= Limits[f]
    BY <1>7 DEF Fits
  <2>1. PICK x \in Nat, y \in Nat, c \in Nat, l \in Nat :
           /\ x = Share(f, 2, 1) /\ y = Share(f, 2, 2)
           /\ c = Consumed(f) /\ l = Limits[f]
           /\ x + y = Above(l, c)
    BY <1>2, ShareFacts, RoomFacts
  <2>2. b1.share[f] = x /\ b2.share[f] = y
    BY <1>4, <1>5, <2>1
  <2>3. used[f] = c
    <3>1. own[f] = 0 /\ used[f] \in Nat
      BY <1>2, AmountFacts DEF Amounts
    <3> QED
      BY <2>1, <3>1 DEF Consumed
  <2>4. (x = 0 /\ y = 0) \/ c + x + y <= l
    BY <2>1 DEF Above
  <2> QED
    BY <2>1, <2>2, <2>3, <2>4
<1>9. LedgerType'
  BY <1>1, <1>2, <1>7 DEF LedgerType
<1>10. AccountInv'
  <2>1. AccountInv
    BY DEF LedgerInv
  <2> QED
    BY <1>1, <2>1 DEF AccountInv, Lost, Metered, Consumed
<1>11. IdleInv'
  BY <1>1, <1>2, <1>7, <1>8 DEF IdleInv
<1>12. BusyInv'
  BY <1>1 DEF BusyInv
<1>13. Metered' = Metered
  BY <1>1 DEF Metered
<1> QED
  BY <1>1, <1>2, <1>9, <1>10, <1>11, <1>12, <1>13 DEF LedgerInv

\* Every step of the executor keeps the invariant.
LEMMA ExecutorInv ==
    ASSUME LedgerInv, Executor
    PROVE  LedgerInv'
<1>1. CASE \E n \in Nodes : StartNode(n)
  BY <1>1, StartNodeInv
<1>2. CASE \E g \in Groups : StartGroup(g)
  BY <1>2, StartGroupInv
<1>3. CASE StartBranch
  BY <1>3, StartBranchInv
<1>4. CASE AttemptsExhausted
  <2>1. /\ call = NoCall /\ batch = <<>> /\ run' = "stopped"
        /\ UNCHANGED <<count, used, own, ceiling, batch, call, raw, stored, spent, lost, unchecked>>
    BY <1>4 DEF AttemptsExhausted, Idle
  <2>2. LedgerType /\ Metered <= MaxOutput /\ IdleInv
    BY DEF LedgerInv
  <2>3. LedgerType'
    BY <2>1, <2>2 DEF LedgerType
  <2>6. Metered' = Metered
    BY <2>1 DEF Metered
  <2>4. AccountInv' /\ BusyInv'
    BY <2>1 DEF AccountInv, BusyInv
  <2>5. IdleInv'
    BY <2>1, <2>2 DEF IdleInv, Fits
  <2> QED
    BY <2>1, <2>2, <2>3, <2>4, <2>5, <2>6 DEF LedgerInv
<1>5. CASE Interrupted
  <2>1. PICK result \in {"deadline", "crash"} : Ends(result)
    BY <1>5 DEF Interrupted
  <2>2. result \in Stopping
    BY DEF Stopping
  <2>3. call.node # "none"
    BY <1>5 DEF Interrupted, LedgerInv, BusyInv, CallInv
  <2> QED
    BY <2>1, <2>2, <2>3, EndsInv
<1>6. CASE \E i \in Sizes(call.limit) : CancelledBySibling(i)
  <2>0. call.limit \in Nat
    BY DEF LedgerInv, LedgerType, CallRecord
  <2>i. PICK i \in Nat : CancelledBySibling(i)
    BY <1>6, <2>0, SizesFacts
  <2>1. call.node # "none" /\ call.node \in Grouped
    <3>1. call # NoCall
      BY <2>i, NoCallFacts DEF CancelledBySibling
    <3> QED
      BY <2>i, <3>1 DEF CancelledBySibling, LedgerInv, BusyInv, CallInv
  <2>2. LedgerType /\ call.sofar \in Nat /\ CallInv(call, Room)
    BY <2>1, CallFacts
  <2>3. Kept(call) = 0
    BY <2>1, <2>2 DEF Kept, CallInv, Grouped
  <2>4. PICK n \in Nat, cause \in Causes \ {"unmetered"} :
           n = call.sofar + i /\ cause = "cancelled"
    BY <2>2 DEF Causes
  <2>5. InFlight(call) + i <= n
    BY <2>2, <2>4 DEF InFlight
  <2>6. /\ Settles(own, "done") /\ Loses(cause, n) /\ UNCHANGED <<count, stored>>
        /\ spent' = spent + i /\ raw' \in BOOLEAN
    BY <2>i, <2>2, <2>4 DEF CancelledBySibling, LedgerType
  <2> QED
    BY <2>1, <2>3, <2>5, <2>6, LosesInv
<1> QED
  BY <1>1, <1>2, <1>3, <1>4, <1>5, <1>6 DEF Executor

----------------------------------------------------------------------------
\* Nothing was charged, moved or stored when the run begins.
LEMMA LedgerStarts ==
    ASSUME LedgerInit
    PROVE  LedgerInv
<1>1. /\ count = 0 /\ used = Nothing /\ own = Nothing /\ ceiling = Limits
      /\ batch = <<>> /\ call = NoCall /\ run = "running"
      /\ stored = 0 /\ spent = 0 /\ lost = [c \in Causes |-> 0]
      /\ unchecked = Nothing
  BY DEF LedgerInit
<1>2. raw \in BOOLEAN
  BY Zenon DEF LedgerInit
<1>3. /\ Nothing \in Amounts /\ Limits \in Amounts
      /\ \A f \in Fields : Nothing[f] = 0
      /\ "bytes" \in Fields /\ "output" \in Fields
  BY AmountFacts
<1>4. call \in CallRecord /\ InFlight(call) = 0 /\ Kept(call) = 0
  BY <1>1, NoCallFacts
<1>5. lost \in [Causes -> Nat] /\ Lost = 0 /\ Metered = 0
  BY <1>1 DEF Lost, Missing, Metered, Causes
<1>6. batch \in Seq(Branch) /\ Len(batch) = 0
  BY <1>1
<1>7. LedgerType
  BY <1>1, <1>2, <1>3, <1>4, <1>5, <1>6 DEF LedgerType
<1>8. \A f \in Fields : Consumed(f) = 0
  BY <1>1, <1>3 DEF Consumed
<1>9. AccountInv
  <2>1. \A f \in Fields : 0 <= Limits[f] + unchecked[f]
    BY <1>1, <1>3 DEF Amounts
  <2> QED
    BY <1>1, <1>3, <1>4, <1>5, <1>8, <2>1 DEF AccountInv
<1>10. IdleInv
  BY <1>1, <1>6 DEF IdleInv, Fits
<1>11. BusyInv
  BY <1>1 DEF BusyInv
<1>12. Metered <= MaxOutput
  BY <1>5, LedgerConstants
<1> QED
  BY <1>7, <1>9, <1>10, <1>11, <1>12 DEF LedgerInv

\* A step that changes nothing of the ledger.
LEMMA LedgerStutters ==
    ASSUME LedgerInv, UNCHANGED ledgerVars
    PROVE  LedgerInv'
  BY DEF ledgerVars, LedgerInv, LedgerType, AccountInv, IdleInv, BusyInv, Lost, Metered, Room,
         Consumed, Remaining

(* The adapters keep LedgerInv, whatever nodes and groups the executor      *)
(* starts, for any budgets.                                                *)
THEOREM LedgerInvariance == LedgerSpec => []LedgerInv
<1>1. LedgerInit => LedgerInv
  BY LedgerStarts
<1>2. LedgerInv /\ [LedgerNext]_ledgerVars => LedgerInv'
  BY ExecutorInv, DocumentInv, MediaInv, ContentInv, TransferInv, LedgerStutters
     DEF LedgerNext
<1> QED
  BY <1>1, <1>2, PTL DEF LedgerSpec

(* A later node cannot reuse a spent allowance: what was taken from the    *)
(* network or kept is in the attempts' consumption, up to what the code    *)
(* charges to nobody, each by its cause.                                   *)
THEOREM SpentIsGoneCorrect == LedgerSpec => []SpentIsGone
<1>1. LedgerInv => SpentIsGone
  <2> SUFFICES ASSUME LedgerInv, run = "running", call = NoCall
               PROVE  /\ spent <= Consumed("bytes") + Uncharged + lost["deadline"]
                      /\ stored <= Consumed("output") + lost["unmetered"]
    BY DEF SpentIsGone, MayGoOn
  <2>1. InFlight(call) = 0 /\ Kept(call) = 0
    BY NoCallFacts
  <2>2. /\ spent <= Consumed("bytes") + Lost + 0
        /\ Metered <= Consumed("output") + 0
    BY <2>1 DEF LedgerInv, AccountInv
  <2>3. PICK x \in Nat, y \in Nat :
           x = Consumed("bytes") /\ y = Consumed("output")
    BY AmountFacts, RoomFacts DEF LedgerInv
  <2>4. PICK l \in [Causes -> Nat] : l = lost
    BY DEF LedgerInv, LedgerType
  <2>5. PICK a \in Nat, b \in Nat, c \in Nat, d \in Nat, e \in Nat, g \in Nat :
           /\ a = l["cancelled"] /\ b = l["dropped"] /\ c = l["unreported"]
           /\ d = l["form"] /\ e = l["deadline"] /\ g = l["unmetered"]
    BY DEF Causes
  <2>6. PICK s \in Nat, w \in Nat : s = spent /\ w = stored
    BY DEF LedgerInv, LedgerType
  <2>7. s <= x + (a + b + c + d + e) + 0 /\ w - g <= y + 0
    BY <2>2, <2>3, <2>4, <2>5, <2>6 DEF Lost, Missing, Metered
  <2>8. s <= x + (a + b + c + d) + e /\ w <= y + g
    BY <2>7
  <2> QED
    BY <2>3, <2>4, <2>5, <2>6, <2>8 DEF Uncharged
<1> QED
  BY <1>1, LedgerInvariance, PTL

(* Consumption past the budget stops the run, for any sequence of nodes,    *)
(* retries and groups, up to the bytes no test looks at.                    *)
THEOREM OverspendStopsCorrect ==
    LedgerSpec => []OverspendStops
<1>1. LedgerInv => OverspendStops
  BY DEF LedgerInv, AccountInv, OverspendStops, MayGoOn
<1> QED
  BY <1>1, LedgerInvariance, PTL

(* All artifacts of a run that are measured fit its output budget          *)
(* together, also while branches, members and screenshots are stored one   *)
(* by one; the artifacts nobody measures take nothing of it away.          *)
THEOREM StoredWithinBudgetCorrect ==
    LedgerSpec => []StoredWithinBudget
<1>1. LedgerInv => StoredWithinBudget
  <2> SUFFICES ASSUME LedgerInv PROVE stored <= MaxOutput + lost["unmetered"]
    BY DEF StoredWithinBudget
  <2>1. PICK l \in [Causes -> Nat] : l = lost
    BY DEF LedgerInv, LedgerType
  <2>2. PICK g \in Nat, w \in Nat, m \in Nat :
           g = l["unmetered"] /\ w = stored /\ m = MaxOutput
    BY LedgerConstants DEF Causes, LedgerInv, LedgerType
  <2>3. w - g <= m
    BY <2>1, <2>2 DEF LedgerInv, Metered
  <2>4. w <= m + g
    BY <2>3
  <2> QED
    BY <2>1, <2>2, <2>4
<1> QED
  BY <1>1, LedgerInvariance, PTL

=============================================================================

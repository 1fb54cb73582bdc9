-------------------------- MODULE NetworkScheduler --------------------------
(***************************************************************************)
(* The shared network scheduler (src/fetech/scheduling.py).                *)
(*                                                                         *)
(* Every outgoing HTTP hop, yt-dlp call and Wayback call of a gateway asks *)
(* one NetworkScheduler for a slot.  A slot counts against a global and a  *)
(* per-host ceiling, and two starts on one host are kept a minimum         *)
(* interval apart.                                                         *)
(*                                                                         *)
(* The code runs on one asyncio event loop: a callback runs without        *)
(* interruption until its next await.  _pump has no await, so the steps    *)
(* of its while loops are modelled one iteration at a time under           *)
(* `pumping', and every other action waits until the pump has returned.    *)
(* A task's cancellation (by its caller or by the slot's own deadline) and *)
(* its resumption are separate callbacks, so a grant and a cancellation    *)
(* may be delivered in either order.                                       *)
(***************************************************************************)
EXTENDS Integers, Sequences, FiniteSets

CONSTANTS
    Requests,            \* network operations, each asking for one slot
    Hosts,               \* normalized host names
    Loops,               \* asyncio event loops the scheduler is used from
    NoLoop,              \* self._loop is None
    GlobalConcurrency,   \* self.global_concurrency
    PerHostConcurrency,  \* self.per_host_concurrency
    MinInterval,         \* self.per_host_min_interval_seconds, in clock ticks
    HostHistoryLimit,    \* self.host_history_limit
    ClockResolution      \* how early, in ticks, a loop timer may fire

\* The limits __init__ accepts; anything else raises ValueError.
ASSUME LimitsAssumption ==
    /\ GlobalConcurrency \in Nat \ {0}
    /\ PerHostConcurrency \in Nat \ {0}
    /\ MinInterval \in Nat
    /\ HostHistoryLimit \in Nat \ {0}

ASSUME EnvironmentAssumption ==
    /\ IsFiniteSet(Requests)
    /\ NoLoop \notin Loops
    /\ ClockResolution \in Nat

VARIABLES
    now,           \* loop.time()
    loop,          \* self._loop
    waiters,       \* self._waiters, oldest first
    active,        \* self._active_global
    activeByHost,  \* self._active_by_host; a missing key is 0
    history,       \* self._last_started_at, an OrderedDict host -> start time
    wakeAt,        \* when self._wake_handle fires, or NoWake
    pumping,       \* TRUE while _pump runs
    hostOf,        \* the host of a request, once it called slot()
    future,        \* the state of a request's waiter.future
    phase,         \* where a request's task is in slot()
    cancelling,    \* task.cancel() was called and not yet delivered
    startedAt      \* ghost: the last start granted per host on this loop

vars == <<now, loop, waiters, active, activeByHost, history, wakeAt, pumping,
          hostOf, future, phase, cancelling, startedAt>>

capacity == <<active, activeByHost>>
tasks    == <<hostOf, future, phase, cancelling>>

HistoryEntry == [host : Hosts, at : Nat]
NoWake       == -1
NeverStarted == [h \in Hosts |-> -MinInterval]

----------------------------------------------------------------------------
(* Sequences without recursion: deque.remove and OrderedDict.move_to_end.  *)

Without(s, i) == [j \in 1..(Len(s) - 1) |-> IF j < i THEN s[j] ELSE s[j + 1]]

\* _discard_waiter: remove the waiter, or nothing when it is already gone
Discard(s, r) ==
    IF \E i \in DOMAIN s : s[i] = r
    THEN Without(s, CHOOSE i \in DOMAIN s : s[i] = r)
    ELSE s

\* self._last_started_at[h] = t, followed by move_to_end(h)
RecordStart(hist, h, t) ==
    Append(IF \E i \in DOMAIN hist : hist[i].host = h
           THEN Without(hist, CHOOSE i \in DOMAIN hist : hist[i].host = h)
           ELSE hist,
           [host |-> h, at |-> t])

----------------------------------------------------------------------------
(* _next_eligible_waiter *)

InHistory(h) == \E i \in DOMAIN history : history[i].host = h

\* mutant of Cooling: the interval is one tick short
CoolingShort(h) ==
    \E i \in DOMAIN history :
        history[i].host = h /\ history[i].at + MinInterval > now + 1

\* the host's previous start is less than MinInterval ago
Cooling(h) ==
    \E i \in DOMAIN history :
        history[i].host = h /\ history[i].at + MinInterval > now

\* no room to remember one more host
HistoryFull(h) ==
    /\ MinInterval > 0
    /\ ~InHistory(h)
    /\ Len(history) >= HostHistoryLimit

HostBusy(h) == activeByHost[h] >= PerHostConcurrency

Eligible(r) ==
    /\ ~HostBusy(hostOf[r])
    /\ ~Cooling(hostOf[r])
    /\ ~HistoryFull(hostOf[r])

\* mutant of WakeTimes: a full history arms no timer
WakeTimesCoolingOnly ==
    { history[i].at + MinInterval :
        i \in { k \in DOMAIN history :
                  \E j \in DOMAIN waiters :
                      /\ ~HostBusy(hostOf[waiters[j]])
                      /\ history[k].host = hostOf[waiters[j]]
                      /\ Cooling(hostOf[waiters[j]]) } }

\* the times at which a waiter that only pacing holds back may become eligible
WakeTimes ==
    { history[i].at + MinInterval :
        i \in { k \in DOMAIN history :
                  \E j \in DOMAIN waiters :
                      LET h == hostOf[waiters[j]] IN
                      /\ ~HostBusy(h)
                      /\ \/ history[k].host = h /\ Cooling(h)
                         \/ k = 1 /\ HistoryFull(h) } }

CapacityLeft == active < GlobalConcurrency /\ waiters # <<>>

CancelledWaiter(i) == i \in DOMAIN waiters /\ future[waiters[i]] = "cancelled"

\* mutant of HeadExpired: an entry is pruned one tick before it expires
HeadExpiredEarly == history # <<>> /\ history[1].at + MinInterval <= now + 1

HeadExpired == history # <<>> /\ history[1].at + MinInterval <= now

----------------------------------------------------------------------------
Init ==
    /\ now = 0
    /\ loop = NoLoop
    /\ waiters = <<>>
    /\ active = 0
    /\ activeByHost = [h \in Hosts |-> 0]
    /\ history = <<>>
    /\ wakeAt = NoWake
    /\ pumping = FALSE
    /\ hostOf \in [Requests -> Hosts]
    /\ future = [r \in Requests |-> "none"]
    /\ phase = [r \in Requests |-> "new"]
    /\ cancelling = [r \in Requests |-> FALSE]
    /\ startedAt = NeverStarted

\* Entering _pump cancels the armed timer.
StartPump == pumping' = TRUE /\ wakeAt' = NoWake

(* slot() from its call to the first await in _acquire *)

\* _event_loop found no other loop in use; a switch forgets the pacing history
Slot(r, l) ==
    /\ ~pumping
    /\ phase[r] = "new"
    /\ loop \in {NoLoop, l} \/ (active = 0 /\ waiters = <<>>)
    /\ loop' = l
    /\ IF loop \in {NoLoop, l}
       THEN UNCHANGED <<history, startedAt>>
       ELSE history' = <<>> /\ startedAt' = NeverStarted
    /\ waiters' = Append(waiters, r)
    /\ future' = [future EXCEPT ![r] = "pending"]
    /\ phase' = [phase EXCEPT ![r] = "acquiring"]
    /\ StartPump
    /\ UNCHANGED <<now, capacity, hostOf, cancelling>>

\* the deadline is already exhausted (or the host or deadline is malformed)
SlotDeadlineExhausted(r) ==
    /\ ~pumping
    /\ phase[r] = "new"
    /\ phase' = [phase EXCEPT ![r] = "done"]
    /\ UNCHANGED <<now, loop, waiters, capacity, history, wakeAt, pumping,
                   hostOf, future, cancelling, startedAt>>

\* _event_loop raises: another loop still has active slots or waiters
SlotForeignLoop(r, l) ==
    /\ ~pumping
    /\ phase[r] = "new"
    /\ loop \notin {NoLoop, l}
    /\ active # 0 \/ waiters # <<>>
    /\ phase' = [phase EXCEPT ![r] = "done"]
    /\ UNCHANGED <<now, loop, waiters, capacity, history, wakeAt, pumping,
                   hostOf, future, cancelling, startedAt>>

(* task.cancel() while the task awaits its future.  A pending future is    *)
(* cancelled at once; a future that already has its result stays as it is  *)
(* and the cancellation is delivered when the task next runs.              *)
Cancel(r) ==
    /\ ~pumping
    /\ phase[r] = "acquiring"
    /\ ~cancelling[r]
    /\ cancelling' = [cancelling EXCEPT ![r] = TRUE]
    /\ future' = [future EXCEPT ![r] = IF @ = "pending" THEN "cancelled" ELSE @]
    /\ UNCHANGED <<now, loop, waiters, capacity, history, wakeAt, pumping,
                   hostOf, phase, startedAt>>

\* _release, up to its call of _pump
Release(h) ==
    /\ active' = active - 1
    /\ activeByHost' = [activeByHost EXCEPT ![h] = @ - 1]
    /\ StartPump

\* the await in _acquire returns and slot() yields to the network operation
ResumeAdmitted(r) ==
    /\ ~pumping
    /\ phase[r] = "acquiring"
    /\ future[r] = "result"
    /\ ~cancelling[r]
    /\ phase' = [phase EXCEPT ![r] = "holding"]
    /\ UNCHANGED <<now, loop, waiters, capacity, history, wakeAt, pumping,
                   hostOf, future, cancelling, startedAt>>

\* mutant of ResumeRevoked: a cancelled task forgets the slot it was granted
RevokedKeepsSlot(r) ==
    /\ ~pumping
    /\ phase[r] = "acquiring"
    /\ future[r] = "result"
    /\ cancelling[r]
    /\ phase' = [phase EXCEPT ![r] = "done"]
    /\ UNCHANGED <<now, loop, waiters, capacity, history, wakeAt, pumping,
                   hostOf, future, cancelling, startedAt>>

\* cancelled after the grant, before the task ran: _acquire gives the slot back
ResumeRevoked(r) ==
    /\ ~pumping
    /\ phase[r] = "acquiring"
    /\ future[r] = "result"
    /\ cancelling[r]
    /\ Release(hostOf[r])
    /\ phase' = [phase EXCEPT ![r] = "done"]
    /\ UNCHANGED <<now, loop, waiters, history, hostOf, future, cancelling,
                   startedAt>>

\* cancelled while waiting: _acquire discards the waiter and pumps
ResumeCancelled(r) ==
    /\ ~pumping
    /\ phase[r] = "acquiring"
    /\ future[r] = "cancelled"
    /\ waiters' = Discard(waiters, r)
    /\ phase' = [phase EXCEPT ![r] = "done"]
    /\ StartPump
    /\ UNCHANGED <<now, loop, capacity, history, hostOf, future, cancelling,
                   startedAt>>

\* the operation ends, fails, is cancelled or meets its deadline: the finally
Leave(r) ==
    /\ ~pumping
    /\ phase[r] = "holding"
    /\ Release(hostOf[r])
    /\ phase' = [phase EXCEPT ![r] = "done"]
    /\ UNCHANGED <<now, loop, waiters, history, hostOf, future, cancelling,
                   startedAt>>

\* the timer fires, up to ClockResolution ticks early
Wake ==
    /\ ~pumping
    /\ wakeAt # NoWake
    /\ wakeAt <= now + ClockResolution
    /\ StartPump
    /\ UNCHANGED <<now, loop, waiters, capacity, history, tasks, startedAt>>

(* The clock.  Time matters only while some start is less than MinInterval *)
(* ago, so that is the only time it is advanced.                           *)
Tick ==
    /\ ~pumping
    /\ \E h \in Hosts : startedAt[h] + MinInterval > now
    /\ now' = now + 1
    /\ UNCHANGED <<loop, waiters, capacity, history, wakeAt, pumping, tasks,
                   startedAt>>

(* The iterations of _pump *)

\* _discard_cancelled_waiters
PumpDiscard(i) ==
    /\ pumping
    /\ CancelledWaiter(i)
    /\ waiters' = Without(waiters, i)
    /\ UNCHANGED <<now, loop, capacity, history, wakeAt, pumping, tasks,
                   startedAt>>

\* _prune_host_history drops the oldest entry
PumpPrune ==
    /\ pumping
    /\ \A i \in DOMAIN waiters : ~CancelledWaiter(i)
    /\ CapacityLeft
    /\ HeadExpired
    /\ history' = Tail(history)
    /\ UNCHANGED <<now, loop, waiters, capacity, wakeAt, pumping, tasks,
                   startedAt>>

\* mutant of Selected: the newest eligible waiter
SelectedNewest(i) ==
    /\ \A j \in DOMAIN waiters : ~CancelledWaiter(j)
    /\ CapacityLeft
    /\ ~HeadExpired
    /\ Eligible(waiters[i])
    /\ \A j \in (i + 1)..Len(waiters) : ~Eligible(waiters[j])

\* the waiter at index i is the oldest eligible one, and no entry is left to prune
Selected(i) ==
    /\ \A j \in DOMAIN waiters : ~CancelledWaiter(j)
    /\ CapacityLeft
    /\ ~HeadExpired
    /\ Eligible(waiters[i])
    /\ \A j \in 1..(i - 1) : ~Eligible(waiters[j])

PumpAdmit(i) ==
    LET r == waiters[i]
        h == hostOf[r]
    IN  /\ pumping
        /\ i \in DOMAIN waiters
        /\ Selected(i)
        /\ waiters' = Without(waiters, i)
        /\ active' = active + 1
        /\ activeByHost' = [activeByHost EXCEPT ![h] = @ + 1]
        /\ history' = IF MinInterval > 0 THEN RecordStart(history, h, now)
                                         ELSE history
        /\ startedAt' = [startedAt EXCEPT ![h] = now]
        /\ future' = [future EXCEPT ![r] = "result"]
        /\ UNCHANGED <<now, loop, wakeAt, pumping, hostOf, phase, cancelling>>

\* mutant of ArmedWake: the timer is never armed
NeverArmed == NoWake

\* nothing is left to admit: arm the timer if pacing alone holds a waiter back
ArmedWake ==
    IF CapacityLeft /\ WakeTimes # {}
    THEN CHOOSE t \in WakeTimes : \A u \in WakeTimes : t <= u
    ELSE NoWake

PumpStop ==
    /\ pumping
    /\ \A i \in DOMAIN waiters : ~CancelledWaiter(i)
    /\ CapacityLeft => ~HeadExpired /\ \A i \in DOMAIN waiters : ~Eligible(waiters[i])
    /\ wakeAt' = ArmedWake
    /\ pumping' = FALSE
    /\ UNCHANGED <<now, loop, waiters, capacity, history, tasks, startedAt>>

Pump ==
    \/ \E i \in DOMAIN waiters : PumpDiscard(i)
    \/ PumpPrune
    \/ \E i \in DOMAIN waiters : PumpAdmit(i)
    \/ PumpStop

Resume(r) == ResumeAdmitted(r) \/ ResumeRevoked(r) \/ ResumeCancelled(r)

Next ==
    \/ \E r \in Requests, l \in Loops : Slot(r, l) \/ SlotForeignLoop(r, l)
    \/ \E r \in Requests : SlotDeadlineExhausted(r)
    \/ \E r \in Requests : Cancel(r)
    \/ \E r \in Requests : Resume(r)
    \/ \E r \in Requests : Leave(r)
    \/ Wake
    \/ Tick
    \/ Pump

Spec == Init /\ [][Next]_vars

(* The event loop runs every ready callback, timers fire, and a slot's     *)
(* holder ends: slot() wraps it in asyncio.timeout.  The clock advances    *)
(* whatever the loop does (strong fairness: a timer that fires early and   *)
(* re-arms itself disables Tick again and again, and cannot stop it).      *)
(* Requests need not arrive, and nobody need cancel.                       *)
Fairness ==
    /\ WF_vars(Pump)
    /\ WF_vars(Wake)
    /\ SF_vars(Tick)
    /\ \A r \in Requests : WF_vars(Resume(r)) /\ WF_vars(Leave(r))

FairSpec == Spec /\ Fairness

----------------------------------------------------------------------------
(* Properties *)

\* requests that own a slot: granted and not yet given back
Occupants == { r \in Requests : future[r] = "result" /\ phase[r] # "done" }

TypeOK ==
    /\ now \in Nat
    /\ loop \in Loops \cup {NoLoop}
    /\ waiters \in Seq(Requests)
    /\ active \in Nat
    /\ activeByHost \in [Hosts -> Nat]
    /\ history \in Seq(HistoryEntry)
    /\ wakeAt \in Nat \cup {NoWake}
    /\ pumping \in BOOLEAN
    /\ hostOf \in [Requests -> Hosts]
    /\ future \in [Requests -> {"none", "pending", "result", "cancelled"}]
    /\ phase \in [Requests -> {"new", "acquiring", "holding", "done"}]
    /\ cancelling \in [Requests -> BOOLEAN]
    /\ startedAt \in [Hosts -> Int]

(* Capacity accounting.  The counters _acquire and _release maintain are   *)
(* exactly the slots that tasks own, whatever the order in which grants,   *)
(* cancellations and deadlines reach a task, and both ceilings hold.  In   *)
(* particular no slot leaks and _release never raises its underflow error. *)
CapacityAccounting ==
    /\ active = Cardinality(Occupants)
    /\ \A h \in Hosts :
         activeByHost[h] = Cardinality({ r \in Occupants : hostOf[r] = h })
    /\ active <= GlobalConcurrency
    /\ \A h \in Hosts : activeByHost[h] <= PerHostConcurrency

(* The pacing memory stays within host_history_limit however many hosts    *)
(* are fetched, and still remembers every start that is less than          *)
(* per_host_min_interval_seconds old: pruning forgets only expired ones.   *)
PacingMemory ==
    /\ Len(history) <= HostHistoryLimit
    /\ \A h \in Hosts :
         startedAt[h] + MinInterval > now =>
            \E i \in DOMAIN history : history[i] = [host |-> h, at |-> startedAt[h]]

(* Two starts granted on one host (and one event loop) are at least        *)
(* per_host_min_interval_seconds apart.                                    *)
StartsPaced ==
    [][ \A r \in Requests :
          (future[r] = "pending" /\ future'[r] = "result")
            => now >= startedAt[hostOf[r]] + MinInterval ]_vars

(* No lost wake-up and no head-of-line blocking.  When _pump has returned  *)
(* with global capacity to spare, a live waiter is held back only by its   *)
(* own busy host, or a timer is armed that fires no later than the moment  *)
(* pacing lets it start.                                                   *)
ReadyAt(h) ==
    IF Cooling(h)
    THEN LET i == CHOOSE k \in DOMAIN history : history[k].host = h
         IN  history[i].at + MinInterval
    ELSE IF HistoryFull(h) THEN history[1].at + MinInterval ELSE now

WorkConserving ==
    (~pumping /\ active < GlobalConcurrency) =>
        \A i \in DOMAIN waiters :
            LET h == hostOf[waiters[i]] IN
            \/ CancelledWaiter(i)
            \/ HostBusy(h)
            \/ wakeAt # NoWake /\ wakeAt <= ReadyAt(h)

(* Requests for one host start in the order in which they asked: a grant   *)
(* never overtakes an older live waiter of the same host.                  *)
ArrivalOrderPerHost ==
    [][ \A i, j \in DOMAIN waiters :
          (/\ i < j
           /\ hostOf[waiters[i]] = hostOf[waiters[j]]
           /\ future'[waiters[j]] = "result")
            => future'[waiters[i]] # "pending" ]_vars

(* Every request that queues for a slot gets one or ends: pacing, a busy   *)
(* host, a full history or a neighbour's cancellation never strands it.    *)
EveryWaiterResolves ==
    \A r \in Requests : phase[r] = "acquiring" ~> phase[r] \in {"holding", "done"}

============================================================================

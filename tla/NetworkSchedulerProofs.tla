----------------------- MODULE NetworkSchedulerProofs -----------------------
(***************************************************************************)
(* Proofs about NetworkScheduler for every number of requests and hosts,   *)
(* every pair of ceilings, every interval and every history limit.         *)
(***************************************************************************)
EXTENDS NetworkScheduler, FiniteSetTheorems, WellFoundedInduction, TLAPS

\* What is known of the queue: a waiter is in it once, and its task awaits it.
QueueInv ==
    /\ \A i \in DOMAIN waiters :
          /\ future[waiters[i]] \in {"pending", "cancelled"}
          /\ phase[waiters[i]] = "acquiring"
    /\ \A i, j \in DOMAIN waiters : i # j => waiters[i] # waiters[j]
    /\ \A r \in Requests : phase[r] = "new" => future[r] = "none"
    /\ \A r \in Requests : phase[r] = "holding" => future[r] = "result"

SchedulerInv == TypeOK /\ QueueInv /\ CapacityAccounting

----------------------------------------------------------------------------
\* An element of a sequence over S is in S.
LEMMA SeqElement ==
    ASSUME NEW S, NEW s \in Seq(S), NEW i \in DOMAIN s
    PROVE  s[i] \in S
OBVIOUS

\* Without(s, i) is s with its i-th element removed.
LEMMA WithoutFacts ==
    ASSUME NEW S, NEW s \in Seq(S), NEW i \in DOMAIN s
    PROVE  /\ Without(s, i) \in Seq(S)
           /\ Len(Without(s, i)) = Len(s) - 1
           /\ DOMAIN Without(s, i) = 1..(Len(s) - 1)
           /\ \A j \in 1..(Len(s) - 1) :
                Without(s, i)[j] = IF j < i THEN s[j] ELSE s[j + 1]
<1>1. Len(s) - 1 \in Nat /\ DOMAIN s = 1..Len(s)
  OBVIOUS
<1>2. \A j \in 1..(Len(s) - 1) : (IF j < i THEN s[j] ELSE s[j + 1]) \in S
  BY <1>1
<1>3. Without(s, i) \in [1..(Len(s) - 1) -> S]
  BY <1>2 DEF Without
<1>4. Without(s, i) \in Seq(S)
  BY <1>1, <1>3
<1> QED
  BY <1>1, <1>3, <1>4 DEF Without

\* Every element that remains was there before, at a place other than i.
LEMMA WithoutElement ==
    ASSUME NEW S, NEW s \in Seq(S), NEW i \in DOMAIN s,
           NEW j \in DOMAIN Without(s, i)
    PROVE  \E k \in DOMAIN s : k # i /\ Without(s, i)[j] = s[k]
<1>1. /\ j \in 1..(Len(s) - 1)
      /\ Without(s, i)[j] = IF j < i THEN s[j] ELSE s[j + 1]
  BY WithoutFacts
<1>2. CASE j < i
  BY <1>1, <1>2
<1>3. CASE ~(j < i)
  <2>1. j + 1 \in DOMAIN s /\ j + 1 # i
    BY <1>1, <1>3
  <2> QED
    BY <1>1, <1>3, <2>1
<1> QED
  BY <1>2, <1>3

\* Removal keeps the elements of a sequence pairwise distinct.
LEMMA WithoutDistinct ==
    ASSUME NEW S, NEW s \in Seq(S), NEW i \in DOMAIN s,
           \A a, b \in DOMAIN s : a # b => s[a] # s[b]
    PROVE  \A a, b \in DOMAIN Without(s, i) :
              a # b => Without(s, i)[a] # Without(s, i)[b]
<1> SUFFICES ASSUME NEW a \in DOMAIN Without(s, i),
                    NEW b \in DOMAIN Without(s, i), a # b
             PROVE  Without(s, i)[a] # Without(s, i)[b]
  OBVIOUS
<1> DEFINE at(j) == IF j < i THEN j ELSE j + 1
<1>1. a \in 1..(Len(s) - 1) /\ b \in 1..(Len(s) - 1)
  BY WithoutFacts
<1>2. Without(s, i)[a] = s[at(a)] /\ Without(s, i)[b] = s[at(b)]
  BY <1>1, WithoutFacts
<1>3. at(a) \in DOMAIN s /\ at(b) \in DOMAIN s /\ at(a) # at(b)
  BY <1>1
<1> QED
  BY <1>2, <1>3

\* The number of members of S that f maps to h.
Count(S, f, h) == Cardinality({x \in S : f[x] = h})

\* A new member adds one to the count of its own image and nothing elsewhere.
LEMMA CountAdd ==
    ASSUME NEW S, NEW f, NEW r, NEW h, IsFiniteSet(S), r \notin S
    PROVE  Count(S \cup {r}, f, h) = Count(S, f, h) + (IF f[r] = h THEN 1 ELSE 0)
<1> DEFINE T == {x \in S : f[x] = h}
<1>1. IsFiniteSet(T)
  BY FS_Subset
<1>2. CASE f[r] = h
  <2>1. {x \in S \cup {r} : f[x] = h} = T \cup {r} /\ r \notin T
    BY <1>2
  <2> QED
    BY <1>1, <1>2, <2>1, FS_AddElement DEF Count
<1>3. CASE f[r] # h
  <2>1. {x \in S \cup {r} : f[x] = h} = T
    BY <1>3
  <2>2. Cardinality(T) \in Nat
    BY <1>1, FS_CardinalityType
  <2>3. Cardinality(T) + (IF f[r] = h THEN 1 ELSE 0) = Cardinality(T)
    BY <1>3, <2>2
  <2> QED
    BY <2>1, <2>3, Zenon DEF Count
<1> QED
  BY <1>2, <1>3

\* Removing a member takes one from the count of its own image only.
LEMMA CountRemove ==
    ASSUME NEW S, IsFiniteSet(S), NEW f, NEW r \in S, NEW h
    PROVE  Count(S \ {r}, f, h) = Count(S, f, h) - (IF f[r] = h THEN 1 ELSE 0)
<1> DEFINE T == {x \in S : f[x] = h}
<1>1. IsFiniteSet(T)
  BY FS_Subset
<1>2. CASE f[r] = h
  <2>1. {x \in S \ {r} : f[x] = h} = T \ {r} /\ r \in T
    BY <1>2
  <2> QED
    BY <1>1, <1>2, <2>1, FS_RemoveElement DEF Count
<1>3. CASE f[r] # h
  <2>1. {x \in S \ {r} : f[x] = h} = T
    BY <1>3
  <2>2. Cardinality(T) \in Nat
    BY <1>1, FS_CardinalityType
  <2>3. Cardinality(T) - (IF f[r] = h THEN 1 ELSE 0) = Cardinality(T)
    BY <1>3, <2>2
  <2> QED
    BY <2>1, <2>3, Zenon DEF Count
<1> QED
  BY <1>2, <1>3

\* Finitely many requests hold slots.
LEMMA OccupantsFinite == IsFiniteSet(Occupants)
BY EnvironmentAssumption, FS_Subset DEF Occupants

\* A step that leaves the owners and the counters alone keeps the accounting.
LEMMA AccountingUntouched ==
    ASSUME CapacityAccounting, Occupants' = Occupants,
           UNCHANGED <<active, activeByHost, hostOf>>
    PROVE  CapacityAccounting'
BY DEF CapacityAccounting

\* Granting a slot to r, within both ceilings, keeps the accounting.
LEMMA AccountingGrant ==
    ASSUME TypeOK, CapacityAccounting, NEW r \in Requests, r \notin Occupants,
           Occupants' = Occupants \cup {r}, hostOf' = hostOf,
           active < GlobalConcurrency, activeByHost[hostOf[r]] < PerHostConcurrency,
           active' = active + 1,
           activeByHost' = [activeByHost EXCEPT ![hostOf[r]] = @ + 1]
    PROVE  CapacityAccounting'
<1>0. \A h : Count(Occupants \cup {r}, hostOf, h)
               = Count(Occupants, hostOf, h) + (IF hostOf[r] = h THEN 1 ELSE 0)
  BY OccupantsFinite, CountAdd
<1>1. active' = Cardinality(Occupants')
  BY OccupantsFinite, FS_AddElement DEF CapacityAccounting
<1>2. ASSUME NEW h \in Hosts
      PROVE  activeByHost'[h] = Cardinality({x \in Occupants' : hostOf'[x] = h})
  <2>1. Count(Occupants \cup {r}, hostOf, h)
          = Count(Occupants, hostOf, h) + (IF hostOf[r] = h THEN 1 ELSE 0)
    BY <1>0
  <2>2. activeByHost'[h] = activeByHost[h] + (IF hostOf[r] = h THEN 1 ELSE 0)
    BY DEF TypeOK
  <2>3. activeByHost[h] = Count(Occupants, hostOf, h)
    BY DEF CapacityAccounting, Count
  <2>4. Cardinality({x \in Occupants' : hostOf'[x] = h}) = Count(Occupants \cup {r}, hostOf, h)
    BY DEF Count
  <2> QED
    BY <2>1, <2>2, <2>3, <2>4, Zenon
<1>3. active' <= GlobalConcurrency
  BY LimitsAssumption DEF TypeOK
<1>4. \A h \in Hosts : activeByHost'[h] <= PerHostConcurrency
  BY LimitsAssumption DEF TypeOK, CapacityAccounting
<1> QED
  BY <1>1, <1>2, <1>3, <1>4 DEF CapacityAccounting

\* An owner finds both counters positive: _release's underflow error cannot happen.
LEMMA OwnerIsCounted ==
    ASSUME TypeOK, CapacityAccounting, NEW r \in Occupants
    PROVE  active > 0 /\ activeByHost[hostOf[r]] > 0
<1>0. r \in Requests /\ hostOf[r] \in Hosts
  BY DEF Occupants, TypeOK
<1>1. active > 0
  <2>1. Cardinality(Occupants) # 0
    BY OccupantsFinite, FS_EmptySet
  <2> QED
    BY <2>1 DEF CapacityAccounting, TypeOK
<1>2. activeByHost[hostOf[r]] > 0
  <2> DEFINE T == {x \in Occupants : hostOf[x] = hostOf[r]}
  <2>1. IsFiniteSet(T) /\ r \in T
    BY OccupantsFinite, FS_Subset
  <2>2. Cardinality(T) # 0
    BY <2>1, FS_EmptySet
  <2>3. activeByHost[hostOf[r]] = Cardinality(T)
    BY <1>0 DEF CapacityAccounting
  <2>4. activeByHost[hostOf[r]] \in Nat
    BY <1>0 DEF TypeOK
  <2> QED
    BY <2>2, <2>3, <2>4
<1> QED
  BY <1>1, <1>2

\* An owner that gives its slot back keeps the accounting.
LEMMA AccountingRelease ==
    ASSUME TypeOK, CapacityAccounting, NEW r \in Occupants,
           Occupants' = Occupants \ {r}, hostOf' = hostOf, Release(hostOf[r])
    PROVE  CapacityAccounting'
<1>1. active' = Cardinality(Occupants')
  <2>1. Cardinality(Occupants \ {r}) = Cardinality(Occupants) - 1
    BY OccupantsFinite, FS_RemoveElement
  <2> QED
    BY <2>1 DEF CapacityAccounting, Release
<1>2. ASSUME NEW h \in Hosts
      PROVE  activeByHost'[h] = Cardinality({x \in Occupants' : hostOf'[x] = h})
  <2>1. Count(Occupants \ {r}, hostOf, h)
          = Count(Occupants, hostOf, h) - (IF hostOf[r] = h THEN 1 ELSE 0)
    BY OccupantsFinite, CountRemove
  <2>2. activeByHost'[h] = activeByHost[h] - (IF hostOf[r] = h THEN 1 ELSE 0)
    BY DEF TypeOK, Release
  <2>3. activeByHost[h] = Count(Occupants, hostOf, h)
    BY DEF CapacityAccounting, Count
  <2>4. Cardinality({x \in Occupants' : hostOf'[x] = h}) = Count(Occupants \ {r}, hostOf, h)
    BY DEF Count
  <2> QED
    BY <2>1, <2>2, <2>3, <2>4, Zenon
<1>3. active' <= GlobalConcurrency
  BY LimitsAssumption DEF TypeOK, CapacityAccounting, Release
<1>4. \A h \in Hosts : activeByHost'[h] <= PerHostConcurrency
  BY LimitsAssumption DEF TypeOK, CapacityAccounting, Release
<1> QED
  BY <1>1, <1>2, <1>3, <1>4 DEF CapacityAccounting

\* A non-empty set of times has an earliest one.
LEMMA EarliestTime ==
    ASSUME NEW T, T \subseteq Nat, T # {}
    PROVE  \E t \in T : \A u \in T : t <= u
<1>1. PICK t \in T : \A u \in T : ~(<<u, t>> \in OpToRel(<, Nat))
  BY WFMin, NatLessThanWellFounded
<1>2. \A u \in T : ~(u < t)
  BY <1>1 DEF OpToRel
<1> QED
  BY <1>2

\* The timer _pump arms is a point in time, or none.
LEMMA ArmedWakeType ==
    ASSUME TypeOK
    PROVE  ArmedWake \in Nat \cup {NoWake}
<1>1. WakeTimes \subseteq Nat
  <2>1. ASSUME NEW i \in DOMAIN history
        PROVE  history[i].at + MinInterval \in Nat
    <3>0. history \in Seq(HistoryEntry)
      BY DEF TypeOK
    <3>1. history[i] \in HistoryEntry
      BY <3>0, SeqElement
    <3>2. history[i].at \in Nat
      BY <3>1 DEF HistoryEntry
    <3> QED
      BY <3>2, LimitsAssumption
  <2> QED
    BY <2>1 DEF WakeTimes
<1>2. CASE CapacityLeft /\ WakeTimes # {}
  BY <1>1, <1>2, EarliestTime DEF ArmedWake
<1>3. CASE ~(CapacityLeft /\ WakeTimes # {})
  BY <1>3 DEF ArmedWake
<1> QED
  BY <1>2, <1>3

\* Recording a start keeps the history well-formed; it grows only by a new host.
LEMMA RecordStartFacts ==
    ASSUME NEW hist, NEW h, NEW t,
           hist \in Seq(HistoryEntry), h \in Hosts, t \in Nat
    PROVE  /\ RecordStart(hist, h, t) \in Seq(HistoryEntry)
           /\ Len(RecordStart(hist, h, t))
                = IF \E i \in DOMAIN hist : hist[i].host = h
                  THEN Len(hist) ELSE Len(hist) + 1
           /\ \E i \in DOMAIN RecordStart(hist, h, t) :
                RecordStart(hist, h, t)[i] = [host |-> h, at |-> t]
           /\ \A k \in DOMAIN hist : hist[k].host # h =>
                \E i \in DOMAIN RecordStart(hist, h, t) :
                    RecordStart(hist, h, t)[i] = hist[k]
<1> DEFINE e == [host |-> h, at |-> t]
<1>0. e \in HistoryEntry
  BY DEF HistoryEntry
<1>1. CASE \E i \in DOMAIN hist : hist[i].host = h
  <2> DEFINE i == CHOOSE k \in DOMAIN hist : hist[k].host = h
             rest == Without(hist, i)
  <2>1. i \in DOMAIN hist /\ hist[i].host = h
    BY <1>1
  <2>2. /\ rest \in Seq(HistoryEntry)
        /\ Len(rest) = Len(hist) - 1
        /\ \A j \in 1..(Len(hist) - 1) :
             rest[j] = IF j < i THEN hist[j] ELSE hist[j + 1]
    BY <2>1, WithoutFacts
  <2>3. RecordStart(hist, h, t) = Append(rest, e)
    BY <1>1 DEF RecordStart
  <2> HIDE DEF i, rest
  <2>4. ASSUME NEW k \in DOMAIN hist, hist[k].host # h
        PROVE  \E j \in DOMAIN rest : rest[j] = hist[k]
    <3>0. DOMAIN hist = 1..Len(hist) /\ Len(hist) \in Nat /\ DOMAIN rest = 1..(Len(hist) - 1)
      BY <2>2
    <3>1. CASE k < i
      <4>1. k \in 1..(Len(hist) - 1)
        BY <2>1, <3>0, <3>1
      <4> QED
        BY <2>2, <3>0, <3>1, <4>1
    <3>2. CASE k > i
      <4>1. k - 1 \in 1..(Len(hist) - 1) /\ ~(k - 1 < i) /\ (k - 1) + 1 = k
        BY <2>1, <3>0, <3>2
      <4>2. rest[k - 1] = hist[(k - 1) + 1]
        BY <2>2, <4>1
      <4> QED
        BY <3>0, <4>1, <4>2
    <3> QED
      BY <2>1, <2>4, <3>0, <3>1, <3>2
  <2>5. /\ Append(rest, e) \in Seq(HistoryEntry)
        /\ Len(Append(rest, e)) = Len(hist)
        /\ Append(rest, e)[Len(hist)] = e
        /\ \A j \in DOMAIN rest : j \in DOMAIN Append(rest, e) /\ Append(rest, e)[j] = rest[j]
    BY <1>0, <2>2
  <2>6. Len(hist) \in DOMAIN Append(rest, e)
    BY <2>1, <2>5
  <2> QED
    BY <1>1, <2>3, <2>4, <2>5, <2>6
<1>2. CASE ~\E i \in DOMAIN hist : hist[i].host = h
  <2>1. RecordStart(hist, h, t) = Append(hist, e)
    BY <1>2 DEF RecordStart
  <2>2. /\ Append(hist, e) \in Seq(HistoryEntry)
        /\ Len(Append(hist, e)) = Len(hist) + 1
        /\ Append(hist, e)[Len(hist) + 1] = e
        /\ \A j \in DOMAIN hist : j \in DOMAIN Append(hist, e) /\ Append(hist, e)[j] = hist[j]
    BY <1>0
  <2> QED
    BY <1>2, <2>1, <2>2
<1> QED
  BY <1>1, <1>2

----------------------------------------------------------------------------
\* Every step keeps every variable in its type.
LEMMA TypeStep ==
    ASSUME SchedulerInv, [Next]_vars
    PROVE  TypeOK'
<1> USE DEF SchedulerInv
<1>1. ASSUME NEW r \in Requests, NEW l \in Loops, Slot(r, l)
      PROVE  TypeOK'
  <2>0. NeverStarted \in [Hosts -> Int] /\ <<>> \in Seq(HistoryEntry)
    BY LimitsAssumption DEF NeverStarted
  <2>1. history' \in Seq(HistoryEntry) /\ startedAt' \in [Hosts -> Int]
    BY <1>1, <2>0 DEF Slot, TypeOK
  <2>2. waiters' \in Seq(Requests)
    BY <1>1 DEF Slot, TypeOK
  <2> QED
    BY <1>1, <2>1, <2>2 DEF Slot, TypeOK, StartPump, capacity
<1>2. ASSUME NEW r \in Requests, NEW l \in Loops, SlotForeignLoop(r, l)
      PROVE  TypeOK'
  BY <1>2 DEF SlotForeignLoop, TypeOK, capacity
<1>3. ASSUME NEW r \in Requests, SlotDeadlineExhausted(r)
      PROVE  TypeOK'
  BY <1>3 DEF SlotDeadlineExhausted, TypeOK, capacity
<1>4. ASSUME NEW r \in Requests, Cancel(r)
      PROVE  TypeOK'
  BY <1>4 DEF Cancel, TypeOK, capacity
<1>5. ASSUME NEW r \in Requests, ResumeAdmitted(r)
      PROVE  TypeOK'
  BY <1>5 DEF ResumeAdmitted, TypeOK, capacity
<1>6. ASSUME NEW r \in Requests, ResumeRevoked(r)
      PROVE  TypeOK'
  <2>1. r \in Occupants
    BY <1>6 DEF ResumeRevoked, Occupants
  <2>2. active' \in Nat /\ activeByHost' \in [Hosts -> Nat]
    BY <1>6, <2>1, OwnerIsCounted DEF ResumeRevoked, Release, TypeOK
  <2> QED
    BY <1>6, <2>2 DEF ResumeRevoked, Release, StartPump, TypeOK
<1>7. ASSUME NEW r \in Requests, ResumeCancelled(r)
      PROVE  TypeOK'
  <2>1. Discard(waiters, r) \in Seq(Requests)
    BY WithoutFacts DEF Discard, TypeOK
  <2> QED
    BY <1>7, <2>1 DEF ResumeCancelled, StartPump, TypeOK, capacity
<1>8. ASSUME NEW r \in Requests, Leave(r)
      PROVE  TypeOK'
  <2>1. r \in Occupants
    BY <1>8 DEF Leave, Occupants, QueueInv
  <2>2. active' \in Nat /\ activeByHost' \in [Hosts -> Nat]
    BY <1>8, <2>1, OwnerIsCounted DEF Leave, Release, TypeOK
  <2> QED
    BY <1>8, <2>2 DEF Leave, Release, StartPump, TypeOK
<1>9. CASE Wake
  BY <1>9 DEF Wake, StartPump, TypeOK, capacity, tasks
<1>10. CASE Tick
  BY <1>10 DEF Tick, TypeOK, capacity, tasks
<1>11. ASSUME NEW i \in DOMAIN waiters, PumpDiscard(i)
       PROVE  TypeOK'
  <2>1. Without(waiters, i) \in Seq(Requests)
    BY WithoutFacts DEF TypeOK
  <2> QED
    BY <1>11, <2>1 DEF PumpDiscard, TypeOK, capacity, tasks
<1>12. CASE PumpPrune
  <2>1. history' \in Seq(HistoryEntry)
    BY <1>12 DEF PumpPrune, HeadExpired, TypeOK
  <2> QED
    BY <1>12, <2>1 DEF PumpPrune, TypeOK, capacity, tasks
<1>13. ASSUME NEW i \in DOMAIN waiters, PumpAdmit(i)
       PROVE  TypeOK'
  <2>1. waiters[i] \in Requests /\ hostOf[waiters[i]] \in Hosts
    BY SeqElement DEF TypeOK
  <2>2. Without(waiters, i) \in Seq(Requests)
    BY WithoutFacts DEF TypeOK
  <2>3. history' \in Seq(HistoryEntry)
    BY <1>13, <2>1, RecordStartFacts DEF PumpAdmit, TypeOK
  <2>4. active' \in Nat /\ activeByHost' \in [Hosts -> Nat]
    BY <1>13, <2>1 DEF PumpAdmit, TypeOK
  <2>5. future' \in [Requests -> {"none", "pending", "result", "cancelled"}]
    BY <1>13, <2>1 DEF PumpAdmit, TypeOK
  <2>6. startedAt' \in [Hosts -> Int]
    BY <1>13, <2>1 DEF PumpAdmit, TypeOK
  <2> QED
    BY <1>13, <2>2, <2>3, <2>4, <2>5, <2>6 DEF PumpAdmit, TypeOK
<1>14. CASE PumpStop
  BY <1>14, ArmedWakeType DEF PumpStop, TypeOK, capacity, tasks
<1>15. CASE UNCHANGED vars
  BY <1>15 DEF vars, TypeOK
<1> QED
  BY <1>1, <1>2, <1>3, <1>4, <1>5, <1>6, <1>7, <1>8, <1>9, <1>10, <1>11,
     <1>12, <1>13, <1>14, <1>15 DEF Next, Resume, Pump

\* Every step keeps a waiter in the queue once, with its task awaiting it.
LEMMA QueueStep ==
    ASSUME SchedulerInv, [Next]_vars
    PROVE  QueueInv'
<1> USE DEF SchedulerInv
<1>1. ASSUME NEW r \in Requests, NEW l \in Loops, Slot(r, l)
      PROVE  QueueInv'
  <2>1. \A i \in DOMAIN waiters : waiters[i] # r
    BY <1>1 DEF Slot, QueueInv
  <2>2. /\ waiters \in Seq(Requests)
        /\ waiters' = Append(waiters, r)
        /\ future' = [future EXCEPT ![r] = "pending"]
        /\ phase' = [phase EXCEPT ![r] = "acquiring"]
    BY <1>1 DEF Slot, TypeOK
  <2>3. ASSUME NEW i \in DOMAIN waiters'
        PROVE  waiters'[i] = r \/ (i \in DOMAIN waiters /\ waiters'[i] = waiters[i])
    BY <2>2
  <2>4. ASSUME NEW i \in DOMAIN waiters', NEW j \in DOMAIN waiters', i # j
        PROVE  waiters'[i] # waiters'[j]
    BY <2>1, <2>2, <2>4 DEF QueueInv
  <2>5. ASSUME NEW i \in DOMAIN waiters'
        PROVE  /\ future'[waiters'[i]] \in {"pending", "cancelled"}
               /\ phase'[waiters'[i]] = "acquiring"
    BY <2>1, <2>2, <2>3, SeqElement DEF QueueInv, TypeOK
  <2> QED
    BY <2>2, <2>4, <2>5 DEF QueueInv, TypeOK
<1>2. ASSUME NEW r \in Requests, phase[r] = "new",
             phase' = [phase EXCEPT ![r] = "done"], UNCHANGED <<waiters, future>>
      PROVE  QueueInv'
  BY <1>2, SeqElement DEF QueueInv, TypeOK
<1>3. ASSUME NEW r \in Requests, Cancel(r)
      PROVE  QueueInv'
  BY <1>3, SeqElement DEF Cancel, QueueInv, TypeOK
<1>4. ASSUME NEW r \in Requests, ResumeAdmitted(r)
      PROVE  QueueInv'
  BY <1>4, SeqElement DEF ResumeAdmitted, QueueInv, TypeOK
<1>5. ASSUME NEW r \in Requests, future[r] = "result",
             phase' = [phase EXCEPT ![r] = "done"], UNCHANGED <<waiters, future>>
      PROVE  QueueInv'
  BY <1>5, SeqElement DEF QueueInv, TypeOK
<1>6. ASSUME NEW i \in DOMAIN waiters, waiters' = Without(waiters, i),
             \/ UNCHANGED <<future, phase>>
             \/ /\ future' = future
                /\ phase' = [phase EXCEPT ![waiters[i]] = "done"]
             \/ /\ future' = [future EXCEPT ![waiters[i]] = "result"]
                /\ phase' = phase
      PROVE  QueueInv'
  <2>0. waiters \in Seq(Requests) /\ waiters[i] \in Requests
    BY SeqElement DEF TypeOK
  <2>1. \A a, b \in DOMAIN waiters' : a # b => waiters'[a] # waiters'[b]
    BY <1>6, <2>0, WithoutDistinct DEF QueueInv
  <2>2. ASSUME NEW j \in DOMAIN waiters'
        PROVE  /\ future'[waiters'[j]] \in {"pending", "cancelled"}
               /\ phase'[waiters'[j]] = "acquiring"
    <3>1. PICK k \in DOMAIN waiters : k # i /\ waiters'[j] = waiters[k]
      BY <1>6, <2>0, WithoutElement
    <3>2. waiters[k] # waiters[i] /\ waiters[k] \in Requests
      BY <2>0, <3>1, SeqElement DEF QueueInv
    <3> QED
      BY <1>6, <2>0, <3>1, <3>2 DEF QueueInv, TypeOK
  <2>3. phase[waiters[i]] = "acquiring"
    BY DEF QueueInv
  <2> QED
    BY <1>6, <2>0, <2>1, <2>2, <2>3 DEF QueueInv, TypeOK
<1>7. ASSUME NEW r \in Requests, ResumeCancelled(r)
      PROVE  QueueInv'
  <2>1. CASE \E i \in DOMAIN waiters : waiters[i] = r
    <3>1. PICK i \in DOMAIN waiters : waiters[i] = r /\ waiters' = Without(waiters, i)
      BY <1>7, <2>1 DEF ResumeCancelled, Discard
    <3> QED
      BY <1>6, <1>7, <3>1 DEF ResumeCancelled
  <2>2. CASE ~\E i \in DOMAIN waiters : waiters[i] = r
    <3>1. waiters' = waiters
      BY <1>7, <2>2 DEF ResumeCancelled, Discard
    <3> QED
      BY <1>7, <2>2, <3>1, SeqElement DEF ResumeCancelled, QueueInv, TypeOK
  <2> QED
    BY <2>1, <2>2
<1>8. ASSUME UNCHANGED <<waiters, future, phase>>
      PROVE  QueueInv'
  BY <1>8 DEF QueueInv
<1>9. ASSUME NEW r \in Requests, Leave(r)
      PROVE  QueueInv'
  BY <1>5, <1>9 DEF Leave, QueueInv
<1>10. ASSUME NEW r \in Requests, ResumeRevoked(r)
       PROVE  QueueInv'
  BY <1>5, <1>10 DEF ResumeRevoked
<1>11. ASSUME NEW i \in DOMAIN waiters, PumpDiscard(i)
       PROVE  QueueInv'
  BY <1>6, <1>11 DEF PumpDiscard, tasks
<1>12. ASSUME NEW i \in DOMAIN waiters, PumpAdmit(i)
       PROVE  QueueInv'
  BY <1>6, <1>12 DEF PumpAdmit
<1>13. ASSUME NEW r \in Requests, NEW l \in Loops, SlotForeignLoop(r, l)
       PROVE  QueueInv'
  BY <1>2, <1>13 DEF SlotForeignLoop
<1>14. ASSUME NEW r \in Requests, SlotDeadlineExhausted(r)
       PROVE  QueueInv'
  BY <1>2, <1>14 DEF SlotDeadlineExhausted
<1>15. CASE Wake \/ Tick \/ PumpPrune \/ PumpStop \/ UNCHANGED vars
  BY <1>8, <1>15 DEF Wake, Tick, PumpPrune, PumpStop, tasks, vars
<1> QED
  BY <1>1, <1>3, <1>4, <1>7, <1>9, <1>10, <1>11, <1>12, <1>13, <1>14, <1>15
     DEF Next, Resume, Pump

\* Every step keeps the counters equal to the slots owned, within the ceilings.
LEMMA AccountingStep ==
    ASSUME SchedulerInv, [Next]_vars
    PROVE  CapacityAccounting'
<1> USE DEF SchedulerInv
<1>1. ASSUME NEW r \in Requests, NEW l \in Loops, Slot(r, l)
      PROVE  CapacityAccounting'
  <2>1. Occupants' = Occupants
    BY <1>1 DEF Slot, Occupants, QueueInv, TypeOK
  <2> QED
    BY <1>1, <2>1, AccountingUntouched DEF Slot, capacity
<1>2. ASSUME NEW r \in Requests, phase[r] = "new",
             phase' = [phase EXCEPT ![r] = "done"],
             UNCHANGED <<future, active, activeByHost, hostOf>>
      PROVE  CapacityAccounting'
  <2>1. Occupants' = Occupants
    BY <1>2 DEF Occupants, QueueInv, TypeOK
  <2> QED
    BY <1>2, <2>1, AccountingUntouched
<1>3. ASSUME NEW r \in Requests, Cancel(r)
      PROVE  CapacityAccounting'
  <2>1. Occupants' = Occupants
    BY <1>3 DEF Cancel, Occupants, TypeOK
  <2> QED
    BY <1>3, <2>1, AccountingUntouched DEF Cancel, capacity
<1>4. ASSUME NEW r \in Requests, ResumeAdmitted(r)
      PROVE  CapacityAccounting'
  <2>1. Occupants' = Occupants
    BY <1>4 DEF ResumeAdmitted, Occupants, TypeOK
  <2> QED
    BY <1>4, <2>1, AccountingUntouched DEF ResumeAdmitted, capacity
<1>5. ASSUME NEW r \in Occupants, Release(hostOf[r]),
             phase' = [phase EXCEPT ![r] = "done"], UNCHANGED <<future, hostOf>>
      PROVE  CapacityAccounting'
  <2>1. Occupants' = Occupants \ {r}
    BY <1>5 DEF Occupants, TypeOK
  <2> QED
    BY <1>5, <2>1, AccountingRelease
<1>6. ASSUME NEW r \in Requests, ResumeRevoked(r)
      PROVE  CapacityAccounting'
  BY <1>5, <1>6 DEF ResumeRevoked, Occupants
<1>7. ASSUME NEW r \in Requests, Leave(r)
      PROVE  CapacityAccounting'
  BY <1>5, <1>7 DEF Leave, Occupants, QueueInv
<1>8. ASSUME NEW r \in Requests, ResumeCancelled(r)
      PROVE  CapacityAccounting'
  <2>1. Occupants' = Occupants
    BY <1>8 DEF ResumeCancelled, Occupants, TypeOK
  <2> QED
    BY <1>8, <2>1, AccountingUntouched DEF ResumeCancelled, capacity
<1>9. ASSUME NEW i \in DOMAIN waiters, PumpAdmit(i)
      PROVE  CapacityAccounting'
  <2> DEFINE r == waiters[i]
  <2>1. r \in Requests /\ hostOf[r] \in Hosts
    BY SeqElement DEF TypeOK
  <2>2. future[r] = "pending" /\ phase[r] = "acquiring"
    BY <1>9 DEF PumpAdmit, Selected, CancelledWaiter, QueueInv
  <2>3. r \notin Occupants /\ Occupants' = Occupants \cup {r}
    BY <1>9, <2>1, <2>2 DEF PumpAdmit, Occupants, TypeOK
  <2>4. active < GlobalConcurrency /\ activeByHost[hostOf[r]] < PerHostConcurrency
    BY <1>9, <2>1, LimitsAssumption
    DEF PumpAdmit, Selected, CapacityLeft, Eligible, HostBusy, TypeOK
  <2> HIDE DEF r
  <2>5. /\ active' = active + 1
        /\ activeByHost' = [activeByHost EXCEPT ![hostOf[r]] = @ + 1]
        /\ hostOf' = hostOf
    BY <1>9 DEF PumpAdmit, r
  <2> QED
    BY <2>1, <2>3, <2>4, <2>5, AccountingGrant
<1>10. ASSUME UNCHANGED <<future, phase, active, activeByHost, hostOf>>
       PROVE  CapacityAccounting'
  BY <1>10, AccountingUntouched DEF Occupants
<1>11. ASSUME NEW i \in DOMAIN waiters, PumpDiscard(i)
       PROVE  CapacityAccounting'
  BY <1>10, <1>11 DEF PumpDiscard, capacity, tasks
<1>12. CASE Wake \/ Tick \/ PumpPrune \/ PumpStop \/ UNCHANGED vars
  BY <1>10, <1>12 DEF Wake, Tick, PumpPrune, PumpStop, capacity, tasks, vars
<1>13. ASSUME NEW r \in Requests, NEW l \in Loops, SlotForeignLoop(r, l)
       PROVE  CapacityAccounting'
  BY <1>2, <1>13 DEF SlotForeignLoop, capacity
<1>14. ASSUME NEW r \in Requests, SlotDeadlineExhausted(r)
       PROVE  CapacityAccounting'
  BY <1>2, <1>14 DEF SlotDeadlineExhausted, capacity
<1> QED
  BY <1>1, <1>3, <1>4, <1>6, <1>7, <1>8, <1>9, <1>11, <1>12, <1>13, <1>14
     DEF Next, Resume, Pump

----------------------------------------------------------------------------
\* A waiter _pump selects belongs to a host whose last start is old enough.
LEMMA SelectedIsPaced ==
    ASSUME TypeOK, PacingMemory, NEW i \in DOMAIN waiters, Selected(i)
    PROVE  now >= startedAt[hostOf[waiters[i]]] + MinInterval
<1> DEFINE h == hostOf[waiters[i]]
<1>1. h \in Hosts
  BY SeqElement DEF TypeOK
<1>2. ~Cooling(h)
  BY DEF Selected, Eligible
<1> HIDE DEF h
<1>3. ~(startedAt[h] + MinInterval > now)
  <2>1. SUFFICES ASSUME startedAt[h] + MinInterval > now
                 PROVE  FALSE
    OBVIOUS
  <2>2. PICK k \in DOMAIN history : history[k] = [host |-> h, at |-> startedAt[h]]
    BY <1>1, <2>1 DEF PacingMemory
  <2> QED
    BY <1>2, <2>1, <2>2 DEF Cooling
<1>4. startedAt[h] \in Int /\ now \in Int /\ MinInterval \in Int
  BY <1>1, LimitsAssumption DEF TypeOK
<1> QED
  BY <1>3, <1>4 DEF h

\* Every step keeps the history bounded and every recent start in it.
LEMMA MemoryStep ==
    ASSUME SchedulerInv, PacingMemory, [Next]_vars
    PROVE  PacingMemory'
<1> USE DEF SchedulerInv
<1>1. ASSUME UNCHANGED <<history, startedAt>>, now' = now \/ now' = now + 1
      PROVE  PacingMemory'
  BY <1>1, LimitsAssumption DEF PacingMemory, TypeOK
<1>2. ASSUME NEW r \in Requests, NEW l \in Loops, Slot(r, l)
      PROVE  PacingMemory'
  <2>1. CASE loop \in {NoLoop, l}
    BY <1>1, <1>2, <2>1 DEF Slot
  <2>2. CASE loop \notin {NoLoop, l}
    <3>1. history' = <<>> /\ startedAt' = NeverStarted /\ now' = now
      BY <1>2, <2>2 DEF Slot
    <3>2. \A h \in Hosts : ~(startedAt'[h] + MinInterval > now')
      BY <3>1, LimitsAssumption DEF NeverStarted, TypeOK
    <3>3. Len(history') <= HostHistoryLimit
      BY <3>1, LimitsAssumption
    <3> QED
      BY <3>2, <3>3 DEF PacingMemory
  <2> QED
    BY <2>1, <2>2
<1>3. CASE PumpPrune
  <2>1. /\ history \in Seq(HistoryEntry) /\ history # <<>>
        /\ history[1].at + MinInterval <= now
        /\ history' = Tail(history) /\ startedAt' = startedAt /\ now' = now
    BY <1>3 DEF PumpPrune, HeadExpired, TypeOK
  <2>2. Len(history') = Len(history) - 1
        /\ \A j \in 1..(Len(history) - 1) : history'[j] = history[j + 1]
    BY <2>1
  <2>3. Len(history') <= HostHistoryLimit
    BY <2>1, <2>2, LimitsAssumption DEF PacingMemory
  <2>4. ASSUME NEW h \in Hosts, startedAt'[h] + MinInterval > now'
        PROVE  \E j \in DOMAIN history' : history'[j] = [host |-> h, at |-> startedAt'[h]]
    <3>1. PICK k \in DOMAIN history : history[k] = [host |-> h, at |-> startedAt[h]]
      BY <2>1, <2>4 DEF PacingMemory
    <3>2. startedAt[h] \in Int /\ now \in Nat /\ MinInterval \in Nat
      BY LimitsAssumption DEF TypeOK
    <3>3. k # 1
      BY <2>1, <2>4, <3>1, <3>2
    <3>4. k - 1 \in DOMAIN history' /\ k - 1 \in 1..(Len(history) - 1) /\ (k - 1) + 1 = k
      BY <2>1, <2>2, <3>3
    <3>5. history'[k - 1] = history[(k - 1) + 1]
      BY <2>2, <3>4
    <3> QED
      BY <2>1, <3>1, <3>4, <3>5
  <2> QED
    BY <2>3, <2>4 DEF PacingMemory
<1>4. ASSUME NEW i \in DOMAIN waiters, PumpAdmit(i)
      PROVE  PacingMemory'
  <2> DEFINE h == hostOf[waiters[i]]
  <2>1. h \in Hosts /\ now \in Nat /\ history \in Seq(HistoryEntry)
    BY SeqElement DEF TypeOK
  <2>2. ~HistoryFull(h)
    BY <1>4 DEF PumpAdmit, Selected, Eligible
  <2>3. /\ history' = IF MinInterval > 0 THEN RecordStart(history, h, now) ELSE history
        /\ startedAt' = [startedAt EXCEPT ![h] = now]
        /\ now' = now
    BY <1>4 DEF PumpAdmit
  <2> HIDE DEF h
  <2>4. startedAt'[h] = now /\ \A g \in Hosts : g # h => startedAt'[g] = startedAt[g]
    BY <2>1, <2>3 DEF TypeOK
  <2>r. /\ Len(RecordStart(history, h, now))
             = IF InHistory(h) THEN Len(history) ELSE Len(history) + 1
        /\ \E j \in DOMAIN RecordStart(history, h, now) :
             RecordStart(history, h, now)[j] = [host |-> h, at |-> now]
        /\ \A k \in DOMAIN history : history[k].host # h =>
             \E j \in DOMAIN RecordStart(history, h, now) :
                 RecordStart(history, h, now)[j] = history[k]
    BY <2>1, RecordStartFacts DEF InHistory
  <2>5. CASE MinInterval > 0
    <3>1. Len(history') <= HostHistoryLimit
      <4>1. Len(history') = IF InHistory(h) THEN Len(history) ELSE Len(history) + 1
        BY <2>3, <2>5, <2>r
      <4>2. Len(history) <= HostHistoryLimit
        BY DEF PacingMemory
      <4>3. InHistory(h) \/ Len(history) < HostHistoryLimit
        BY <2>1, <2>2, <2>5, LimitsAssumption DEF HistoryFull
      <4> QED
        BY <2>1, <4>1, <4>2, <4>3, LimitsAssumption
    <3>2. ASSUME NEW g \in Hosts, startedAt'[g] + MinInterval > now'
          PROVE  \E j \in DOMAIN history' : history'[j] = [host |-> g, at |-> startedAt'[g]]
      <4>1. CASE g = h
        BY <2>3, <2>4, <2>5, <2>r, <4>1
      <4>2. CASE g # h
        <5>1. PICK k \in DOMAIN history : history[k] = [host |-> g, at |-> startedAt[g]]
          BY <2>3, <2>4, <3>2, <4>2 DEF PacingMemory
        <5>2. history[k].host # h
          BY <4>2, <5>1
        <5>3. PICK j \in DOMAIN RecordStart(history, h, now) :
                 RecordStart(history, h, now)[j] = history[k]
          BY <2>r, <5>2
        <5> QED
          BY <2>3, <2>4, <2>5, <4>2, <5>1, <5>3
      <4> QED
        BY <4>1, <4>2
    <3> QED
      BY <3>1, <3>2 DEF PacingMemory
  <2>6. CASE ~(MinInterval > 0)
    <3>1. history' = history /\ MinInterval = 0
      BY <2>3, <2>6, LimitsAssumption
    <3>2. ASSUME NEW g \in Hosts, startedAt'[g] + MinInterval > now'
          PROVE  \E j \in DOMAIN history' : history'[j] = [host |-> g, at |-> startedAt'[g]]
      <4>1. g # h
        BY <2>1, <2>3, <2>4, <3>1, <3>2
      <4> QED
        BY <2>3, <2>4, <3>1, <3>2, <4>1 DEF PacingMemory
    <3> QED
      BY <3>1, <3>2 DEF PacingMemory
  <2> QED
    BY <2>5, <2>6
<1>5. ASSUME NEW r \in Requests,
             SlotDeadlineExhausted(r) \/ Cancel(r) \/ Resume(r) \/ Leave(r)
      PROVE  PacingMemory'
  BY <1>1, <1>5 DEF SlotDeadlineExhausted, Cancel, Resume, ResumeAdmitted,
     ResumeRevoked, ResumeCancelled, Leave
<1>6. ASSUME NEW r \in Requests, NEW l \in Loops, SlotForeignLoop(r, l)
      PROVE  PacingMemory'
  BY <1>1, <1>6 DEF SlotForeignLoop
<1>7. ASSUME NEW i \in DOMAIN waiters, PumpDiscard(i)
      PROVE  PacingMemory'
  BY <1>1, <1>7 DEF PumpDiscard
<1>8. CASE Wake \/ Tick \/ PumpStop \/ UNCHANGED vars
  BY <1>1, <1>8 DEF Wake, Tick, PumpStop, vars
<1> QED
  BY <1>2, <1>3, <1>4, <1>5, <1>6, <1>7, <1>8 DEF Next, Pump

----------------------------------------------------------------------------
(* The type of every variable, the queue discipline, the capacity          *)
(* accounting and the pacing memory hold in every reachable state.  This   *)
(* is the inductive invariant the results below are read off.              *)
THEOREM SchedulerInvariance == Spec => [](SchedulerInv /\ PacingMemory)
<1>1. Init => SchedulerInv /\ PacingMemory
  <2> SUFFICES ASSUME Init
               PROVE  SchedulerInv /\ PacingMemory
    OBVIOUS
  <2>0. NeverStarted \in [Hosts -> Int] /\ <<>> \in Seq(HistoryEntry)
    BY LimitsAssumption DEF NeverStarted
  <2>1. TypeOK
    <3>1. waiters \in Seq(Requests) /\ history \in Seq(HistoryEntry)
      BY <2>0 DEF Init
    <3>2. /\ now \in Nat /\ active \in Nat /\ activeByHost \in [Hosts -> Nat]
          /\ wakeAt \in Nat \cup {NoWake} /\ startedAt \in [Hosts -> Int]
          /\ loop \in Loops \cup {NoLoop}
      BY <2>0 DEF Init
    <3>3. /\ future \in [Requests -> {"none", "pending", "result", "cancelled"}]
          /\ phase \in [Requests -> {"new", "acquiring", "holding", "done"}]
          /\ hostOf \in [Requests -> Hosts]
      BY DEF Init
    <3>4. pumping \in BOOLEAN /\ cancelling \in [Requests -> BOOLEAN]
      BY DEF Init
    <3> QED
      BY <3>1, <3>2, <3>3, <3>4 DEF TypeOK
  <2>2. QueueInv
    BY DEF Init, QueueInv
  <2>3. CapacityAccounting
    <3>1. Occupants = {} /\ \A h \in Hosts : {r \in Occupants : hostOf[r] = h} = {}
      BY DEF Init, Occupants
    <3>2. Cardinality(Occupants) = 0
          /\ \A h \in Hosts : Cardinality({r \in Occupants : hostOf[r] = h}) = 0
      BY <3>1, FS_EmptySet
    <3> QED
      BY <3>2, LimitsAssumption DEF Init, CapacityAccounting
  <2>4. PacingMemory
    BY LimitsAssumption DEF Init, PacingMemory, NeverStarted
  <2> QED
    BY <2>1, <2>2, <2>3, <2>4 DEF SchedulerInv
<1>2. (SchedulerInv /\ PacingMemory) /\ [Next]_vars => (SchedulerInv /\ PacingMemory)'
  BY TypeStep, QueueStep, AccountingStep, MemoryStep DEF SchedulerInv
<1> QED
  BY <1>1, <1>2, PTL DEF Spec

(* Every variable of the scheduler keeps its type: in particular the       *)
(* counters never go below zero and the timer is a point in time.          *)
THEOREM TypeCorrect == Spec => []TypeOK
BY SchedulerInvariance, PTL DEF SchedulerInv

(* scheduling.py's counters are exactly the slots in use, and neither      *)
(* ceiling is ever exceeded, for any number of requests and hosts and      *)
(* whatever the order of grants, cancellations and deadlines.              *)
THEOREM CapacityCorrect == Spec => []CapacityAccounting
BY SchedulerInvariance, PTL DEF SchedulerInv

(* _prune_host_history and host_history_limit never forget a start that    *)
(* pacing still needs, and the memory stays bounded.                       *)
THEOREM MemoryCorrect == Spec => []PacingMemory
BY SchedulerInvariance, PTL

(* Two starts on one host are never closer than the configured interval.   *)
THEOREM PacingCorrect == Spec => StartsPaced
<1>1. ASSUME SchedulerInv, PacingMemory, [Next]_vars,
             NEW r \in Requests, future[r] = "pending", future'[r] = "result"
      PROVE  now >= startedAt[hostOf[r]] + MinInterval
  <2>1. PICK i \in DOMAIN waiters : PumpAdmit(i)
    BY <1>1 DEF SchedulerInv, TypeOK, Next, vars, Slot, SlotForeignLoop,
       SlotDeadlineExhausted, Cancel, Resume, ResumeAdmitted, ResumeRevoked,
       ResumeCancelled, Leave, Wake, Tick, Pump, PumpDiscard, PumpPrune,
       PumpStop, tasks
  <2>2. waiters[i] = r
    BY <1>1, <2>1, SeqElement DEF SchedulerInv, TypeOK, PumpAdmit
  <2>3. Selected(i)
    BY <2>1 DEF PumpAdmit
  <2> QED
    BY <1>1, <2>2, <2>3, SelectedIsPaced DEF SchedulerInv
<1>2. (SchedulerInv /\ PacingMemory) /\ [Next]_vars =>
        [\A r \in Requests : (future[r] = "pending" /\ future'[r] = "result")
            => now >= startedAt[hostOf[r]] + MinInterval]_vars
  BY <1>1
<1> QED
  BY <1>2, SchedulerInvariance, PTL DEF Spec, StartsPaced

----------------------------------------------------------------------------
\* Only _pump's grant gives a waiter its result, and it grants the one it selected.
LEMMA GrantIsSelected ==
    ASSUME SchedulerInv, [Next]_vars, NEW j \in DOMAIN waiters,
           future'[waiters[j]] = "result"
    PROVE  Selected(j)
<1> DEFINE r == waiters[j]
<1>1. r \in Requests /\ future[r] # "result" /\ phase[r] = "acquiring"
  BY SeqElement DEF SchedulerInv, TypeOK, QueueInv
<1>2. PICK i \in DOMAIN waiters : PumpAdmit(i)
  <2> HIDE DEF r
  <2>1. future'[r] = "result"
    BY DEF r
  <2> QED
    BY <1>1, <2>1 DEF SchedulerInv, TypeOK, Next, vars, Slot, SlotForeignLoop,
       SlotDeadlineExhausted, Cancel, Resume, ResumeAdmitted, ResumeRevoked,
       ResumeCancelled, Leave, Wake, Tick, Pump, PumpDiscard, PumpPrune,
       PumpStop, tasks
<1>3. waiters[i] = r
  BY <1>1, <1>2, SeqElement DEF SchedulerInv, TypeOK, PumpAdmit
<1>4. i = j
  BY <1>3 DEF SchedulerInv, QueueInv
<1> QED
  BY <1>2, <1>4 DEF PumpAdmit

(* Requests for one host are granted in the order in which they asked,     *)
(* though other hosts overtake them: eligibility is a matter of the host   *)
(* alone, so a waiter _next_eligible_waiter passes over takes every        *)
(* younger one of its host with it.                                        *)
THEOREM ArrivalOrderCorrect == Spec => ArrivalOrderPerHost
<1>1. ASSUME SchedulerInv, [Next]_vars,
             NEW i \in DOMAIN waiters, NEW j \in DOMAIN waiters, i < j,
             hostOf[waiters[i]] = hostOf[waiters[j]],
             future'[waiters[j]] = "result"
      PROVE  FALSE
  <2>1. Selected(j)
    BY <1>1, GrantIsSelected
  <2>2. i \in 1..(j - 1)
    BY <1>1 DEF SchedulerInv, TypeOK
  <2>3. Eligible(waiters[j]) /\ ~Eligible(waiters[i])
    BY <2>1, <2>2 DEF Selected
  <2> QED
    BY <1>1, <2>3 DEF Eligible
<1>2. (SchedulerInv /\ PacingMemory) /\ [Next]_vars =>
        [\A i, j \in DOMAIN waiters :
           (/\ i < j
            /\ hostOf[waiters[i]] = hostOf[waiters[j]]
            /\ future'[waiters[j]] = "result")
             => future'[waiters[i]] # "pending"]_vars
  BY <1>1
<1> QED
  BY <1>2, SchedulerInvariance, PTL DEF Spec, ArrivalOrderPerHost

----------------------------------------------------------------------------
\* The moments the pacing memory speaks of are points in time.
LEMMA HistoryTimes ==
    ASSUME TypeOK
    PROVE  \A k \in DOMAIN history : history[k].at + MinInterval \in Nat
<1> SUFFICES ASSUME NEW k \in DOMAIN history
             PROVE  history[k].at + MinInterval \in Nat
  OBVIOUS
<1>1. history \in Seq(HistoryEntry)
  BY DEF TypeOK
<1>2. history[k] \in HistoryEntry
  BY <1>1, SeqElement
<1> QED
  BY <1>2, LimitsAssumption DEF HistoryEntry

(* A waiter with a free host that _pump did not admit is waiting for a     *)
(* moment the timer covers: its own host's, or, when there is no room to   *)
(* remember one more host, that of the oldest entry.                       *)
LEMMA TimerCoversWaiter ==
    ASSUME TypeOK, CapacityLeft, NEW i \in DOMAIN waiters,
           ~Eligible(waiters[i]), ~HostBusy(hostOf[waiters[i]])
    PROVE  ArmedWake # NoWake /\ ArmedWake <= ReadyAt(hostOf[waiters[i]])
<1> DEFINE h == hostOf[waiters[i]]
<1>0. ~HostBusy(h) /\ (Cooling(h) \/ HistoryFull(h))
  BY DEF Eligible
<1>1. \A k \in DOMAIN history : (history[k].host = h /\ Cooling(h)) =>
         history[k].at + MinInterval \in WakeTimes
  BY <1>0 DEF WakeTimes
<1>2. (1 \in DOMAIN history /\ HistoryFull(h)) =>
         history[1].at + MinInterval \in WakeTimes
  BY <1>0 DEF WakeTimes
<1> HIDE DEF h
<1>3. ReadyAt(h) \in WakeTimes
  <2>1. CASE Cooling(h)
    <3>1. \E k \in DOMAIN history : history[k].host = h
      BY <2>1 DEF Cooling
    <3>2. PICK c \in DOMAIN history : /\ history[c].host = h
                                      /\ ReadyAt(h) = history[c].at + MinInterval
      BY <2>1, <3>1 DEF ReadyAt
    <3> QED
      BY <1>1, <2>1, <3>2
  <2>2. CASE ~Cooling(h)
    <3>1. HistoryFull(h)
      BY <1>0, <2>2
    <3>2. history \in Seq(HistoryEntry) /\ Len(history) >= HostHistoryLimit
      BY <3>1 DEF TypeOK, HistoryFull
    <3>3. 1 \in DOMAIN history
      BY <3>2, LimitsAssumption
    <3> QED
      BY <1>2, <2>2, <3>1, <3>3 DEF ReadyAt
  <2> QED
    BY <2>1, <2>2
<1>4. WakeTimes \subseteq Nat
  BY HistoryTimes DEF WakeTimes
<1>5. ArmedWake \in WakeTimes /\ \A u \in WakeTimes : ArmedWake <= u
  <2>1. ArmedWake = CHOOSE t \in WakeTimes : \A u \in WakeTimes : t <= u
    BY <1>3 DEF ArmedWake
  <2>2. \E t \in WakeTimes : \A u \in WakeTimes : t <= u
    BY <1>3, <1>4, EarliestTime
  <2> QED
    BY <2>1, <2>2
<1>6. ArmedWake \in Nat /\ ArmedWake <= ReadyAt(h)
  BY <1>3, <1>4, <1>5
<1>7. ArmedWake # NoWake
  BY <1>6 DEF NoWake
<1> QED
  BY <1>6, <1>7 DEF h

\* The clock reaches a moment or passes it, and never moves it to an earlier one.
LEMMA ReadyAtTick ==
    ASSUME TypeOK, NEW h, NEW t \in Nat, t <= ReadyAt(h),
           now' = now + 1, history' = history
    PROVE  t <= ReadyAt(h)'
<1>0. now \in Nat
  BY DEF TypeOK
<1>1. \A k \in DOMAIN history : history[k].at + MinInterval \in Nat
  BY HistoryTimes
<1>2. CASE Cooling(h)
  <2>1. \E k \in DOMAIN history : history[k].host = h
    BY <1>2 DEF Cooling
  <2>2. PICK c \in DOMAIN history : /\ history[c].host = h
           /\ c = CHOOSE k \in DOMAIN history : history[k].host = h
    BY <2>1
  <2>3. t <= history[c].at + MinInterval
    BY <1>2, <2>2 DEF ReadyAt
  <2>4. CASE Cooling(h)'
    BY <2>2, <2>3, <2>4 DEF ReadyAt
  <2>5. CASE ~Cooling(h)'
    <3>1. ~(history[c].at + MinInterval > now + 1)
      BY <2>2, <2>5 DEF Cooling
    <3>2. ~HistoryFull(h)'
      BY <2>2 DEF HistoryFull, InHistory
    <3>3. ReadyAt(h)' = now + 1
      BY <2>5, <3>2 DEF ReadyAt
    <3> QED
      BY <1>0, <1>1, <2>2, <2>3, <3>1, <3>3
  <2> QED
    BY <2>4, <2>5
<1>3. CASE ~Cooling(h)
  <2>1. ~Cooling(h)'
    BY <1>0, <1>1, <1>3 DEF Cooling
  <2>2. HistoryFull(h)' <=> HistoryFull(h)
    BY DEF HistoryFull, InHistory
  <2>3. CASE HistoryFull(h)
    BY <1>3, <2>1, <2>2, <2>3 DEF ReadyAt
  <2>4. CASE ~HistoryFull(h)
    <3>1. ReadyAt(h) = now /\ ReadyAt(h)' = now + 1
      BY <1>3, <2>1, <2>2, <2>4 DEF ReadyAt
    <3> QED
      BY <1>0, <3>1
  <2> QED
    BY <2>3, <2>4
<1> QED
  BY <1>2, <1>3

\* Every step leaves each waiter held back for a reason that will pass.
LEMMA WorkStep ==
    ASSUME SchedulerInv, WorkConserving, [Next]_vars
    PROVE  WorkConserving'
<1> USE DEF SchedulerInv
<1>1. CASE pumping'
  BY <1>1 DEF WorkConserving
<1>2. ASSUME ~pumping, UNCHANGED <<now, waiters, capacity, history, wakeAt, hostOf>>,
             \A r \in Requests : future[r] = "cancelled" => future'[r] = "cancelled"
      PROVE  WorkConserving'
  <2> SUFFICES ASSUME active < GlobalConcurrency, NEW i \in DOMAIN waiters
               PROVE  (\/ CancelledWaiter(i)
                       \/ HostBusy(hostOf[waiters[i]])
                       \/ wakeAt # NoWake /\ wakeAt <= ReadyAt(hostOf[waiters[i]]))'
    BY <1>2 DEF WorkConserving, capacity
  <2>1. waiters[i] \in Requests
    BY SeqElement DEF TypeOK
  <2>2. \/ CancelledWaiter(i)
        \/ HostBusy(hostOf[waiters[i]])
        \/ wakeAt # NoWake /\ wakeAt <= ReadyAt(hostOf[waiters[i]])
    BY <1>2 DEF WorkConserving
  <2>3. CancelledWaiter(i) => CancelledWaiter(i)'
    BY <1>2, <2>1 DEF CancelledWaiter
  <2>4. HostBusy(hostOf[waiters[i]])' <=> HostBusy(hostOf[waiters[i]])
    BY <1>2 DEF HostBusy, capacity
  <2>5. ReadyAt(hostOf[waiters[i]])' = ReadyAt(hostOf[waiters[i]])
    BY <1>2 DEF ReadyAt, Cooling, HistoryFull, InHistory
  <2> QED
    BY <1>2, <2>2, <2>3, <2>4, <2>5
<1>3. CASE Tick
  <2>0. /\ ~pumping /\ now' = now + 1
        /\ UNCHANGED <<waiters, active, activeByHost, history, wakeAt, hostOf, future>>
    BY <1>3 DEF Tick, capacity, tasks
  <2> SUFFICES ASSUME active < GlobalConcurrency, NEW i \in DOMAIN waiters
               PROVE  (\/ CancelledWaiter(i)
                       \/ HostBusy(hostOf[waiters[i]])
                       \/ wakeAt # NoWake /\ wakeAt <= ReadyAt(hostOf[waiters[i]]))'
    BY <2>0 DEF WorkConserving
  <2>1. CASE CancelledWaiter(i) \/ HostBusy(hostOf[waiters[i]])
    BY <2>0, <2>1 DEF CancelledWaiter, HostBusy
  <2>2. CASE wakeAt # NoWake /\ wakeAt <= ReadyAt(hostOf[waiters[i]])
    <3> DEFINE h == hostOf[waiters[i]]
    <3>1. wakeAt \in Nat /\ wakeAt <= ReadyAt(h)
      BY <2>2 DEF TypeOK
    <3> HIDE DEF h
    <3>2. PICK g : g = h
      OBVIOUS
    <3>3. PICK t \in Nat : t = wakeAt
      BY <3>1
    <3>4. t <= ReadyAt(g)'
      BY <2>0, <3>1, <3>2, <3>3, ReadyAtTick
    <3>5. hostOf'[waiters'[i]] = g
      BY <2>0, <3>2 DEF h
    <3> QED
      BY <2>0, <2>2, <3>3, <3>4, <3>5
  <2> QED
    BY <2>0, <2>1, <2>2 DEF WorkConserving
<1>4. CASE PumpStop
  <2>0. /\ \A i \in DOMAIN waiters : ~CancelledWaiter(i)
        /\ CapacityLeft => \A i \in DOMAIN waiters : ~Eligible(waiters[i])
        /\ wakeAt' = ArmedWake
        /\ UNCHANGED <<now, waiters, active, activeByHost, history, hostOf, future>>
    BY <1>4 DEF PumpStop, capacity, tasks
  <2> SUFFICES ASSUME active < GlobalConcurrency, NEW i \in DOMAIN waiters,
                      ~HostBusy(hostOf[waiters[i]])
               PROVE  (wakeAt # NoWake /\ wakeAt <= ReadyAt(hostOf[waiters[i]]))'
    BY <2>0 DEF WorkConserving, HostBusy
  <2>1. CapacityLeft
    BY DEF CapacityLeft
  <2>2. ~Eligible(waiters[i])
    BY <2>0, <2>1
  <2>3. ArmedWake # NoWake /\ ArmedWake <= ReadyAt(hostOf[waiters[i]])
    BY <2>1, <2>2, TimerCoversWaiter
  <2>4. ReadyAt(hostOf[waiters[i]])' = ReadyAt(hostOf[waiters[i]])
    BY <2>0 DEF ReadyAt, Cooling, HistoryFull, InHistory
  <2> QED
    BY <2>0, <2>3, <2>4
<1>5. ASSUME NEW r \in Requests,
             Cancel(r) \/ ResumeAdmitted(r) \/ SlotDeadlineExhausted(r)
      PROVE  WorkConserving'
  <2>1. /\ ~pumping /\ UNCHANGED <<now, waiters, capacity, history, wakeAt, hostOf>>
        /\ \A x \in Requests : future[x] = "cancelled" => future'[x] = "cancelled"
    BY <1>5 DEF Cancel, ResumeAdmitted, SlotDeadlineExhausted, TypeOK
  <2> QED
    BY <1>2, <2>1
<1>6. ASSUME NEW r \in Requests, NEW l \in Loops, SlotForeignLoop(r, l)
      PROVE  WorkConserving'
  BY <1>2, <1>6 DEF SlotForeignLoop
<1>7. ASSUME NEW r \in Requests, NEW l \in Loops, Slot(r, l)
      PROVE  pumping'
  BY <1>7 DEF Slot, StartPump
<1>8. ASSUME NEW r \in Requests, ResumeRevoked(r) \/ ResumeCancelled(r) \/ Leave(r)
      PROVE  pumping'
  BY <1>8 DEF ResumeRevoked, ResumeCancelled, Leave, Release, StartPump
<1>9. CASE Wake
  BY <1>1, <1>9 DEF Wake, StartPump
<1>10. CASE PumpPrune
  BY <1>1, <1>10 DEF PumpPrune
<1>11. ASSUME NEW i \in DOMAIN waiters, PumpDiscard(i) \/ PumpAdmit(i)
       PROVE  pumping'
  BY <1>11 DEF PumpDiscard, PumpAdmit
<1>12. CASE UNCHANGED vars
  BY <1>12 DEF vars, WorkConserving, CancelledWaiter, HostBusy, ReadyAt, Cooling,
     HistoryFull, InHistory
<1> QED
  BY <1>1, <1>3, <1>4, <1>5, <1>6, <1>7, <1>8, <1>9, <1>10, <1>11, <1>12
     DEF Next, Resume, Pump

(* No wake-up is lost: whenever _pump has returned with capacity to spare, *)
(* each live waiter has a busy host or a timer that fires in time, however *)
(* clocks, cancellations and releases interleave.                          *)
THEOREM WorkConservingCorrect == Spec => []WorkConserving
<1>1. Init => WorkConserving
  BY DEF Init, WorkConserving
<1>2. (SchedulerInv /\ PacingMemory) /\ WorkConserving /\ [Next]_vars => WorkConserving'
  BY WorkStep
<1> QED
  BY <1>1, <1>2, SchedulerInvariance, PTL DEF Spec

=============================================================================

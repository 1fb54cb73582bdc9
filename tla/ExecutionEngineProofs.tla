----------------------- MODULE ExecutionEngineProofs -----------------------
(***************************************************************************)
(* Proofs about ExecutionEngine for any plans, budgets and adapters: the   *)
(* attempts budget is held, branches are isolated, none is left behind,    *)
(* a stop is final and what changes something remotely is tried once.      *)
(*                                                                         *)
(* The merge concatenates what the branches of a batch appended, so the    *)
(* budget needs an induction over the batch.  The library's induction      *)
(* theorems take a predicate; here a set stands for it, and induction      *)
(* follows from the well-foundedness of < on the naturals.                 *)
(***************************************************************************)
EXTENDS ExecutionEngine, WellFoundedInduction, TLAPS

Statuses == {"RUNNING", "SUCCEEDED", "FAILED", "CANCELLED"}

\* No attempt is left open at the end.
Closed(att) == att = <<>> \/ att[Len(att)] # "RUNNING"

\* The attempts base of the run before the batch are still there.
Extends(base, att) ==
    /\ Len(base) <= Len(att)
    /\ \A k \in 1..Len(base) : att[k] = base[k]

BranchPcs == {"created", "starting", "adapter", "backoff", "reporting"} \cup Settled
Branch ==
    [ node : Nat, context : Contexts, budget : Nat, pc : BranchPcs, own : Nat, tries : Nat,
      result : Failures \cup {"none", "completed"}, cancelling : BOOLEAN, collected : BOOLEAN ]

\* A branch of plan p.
Typed(b, p) ==
    /\ b \in Branch
    /\ b.node \in DOMAIN p
    /\ b.own <= Len(b.context.attempts)
    /\ b.tries <= p[b.node].retries
    /\ ~p[b.node].logs => b.own = 0

\* What a branch made of its copy of the attempts; its pc aside.
Copy(b, base) ==
    /\ Extends(base, b.context.attempts)
    /\ b.own # 0 => b.own > Len(base)
    /\ Closed(b.context.attempts) \/ Len(b.context.attempts) > Len(base)

\* The record of an expired deadline is the one attempt that may come on top.
Late(b) ==
    /\ Len(b.context.attempts) = b.budget + 1
    /\ b.result = "budget_exhausted" /\ b.pc \in {"reporting"} \cup Settled

\* late: the deadline has passed and the branch is alone.
AttemptsInv(b, late) ==
    /\ b.pc \notin {"adapter", "backoff", "crashed"} => Closed(b.context.attempts)
    /\ b.pc = "adapter" /\ b.own = 0 => Len(b.context.attempts) < b.budget
    /\ b.pc = "adapter" /\ b.own \notin {0, Len(b.context.attempts)} => Closed(b.context.attempts)
    /\ Len(b.context.attempts) <= b.budget \/ (late /\ Late(b))

StageInv(b, p) ==
    /\ ~p[b.node].logs => Closed(b.context.attempts)
    /\ b.pc = "backoff" => b.tries < p[b.node].retries
    /\ b.pc \in {"adapter", "backoff"} => p[b.node].approval # "missing"
    /\ b.pc \in {"reporting", "returned"} => b.result # "none"

BranchInv(b, p, base, late) ==
    Typed(b, p) /\ Copy(b, base) /\ AttemptsInv(b, late) /\ StageInv(b, p)

TypeInv ==
    /\ plan \in Plans /\ budget \in Budgets
    /\ pc \in {"loop", "stopped", "executing", "reaping", "aborting"} \cup Ended
    /\ index \in 1..(Len(plan) + 1)
    /\ completed \subseteq DOMAIN plan /\ flags \subseteq Failures
    /\ context \in Contexts /\ expired \in BOOLEAN
    /\ batch \in Seq(Branch) /\ \A i \in DOMAIN batch : Typed(batch[i], plan)
    /\ status \in {"none", "SUCCEEDED", "PARTIAL", "LOW_QUALITY", "FAILED",
                   "BLOCKED_BY_POLICY", "AUTH_REQUIRED", "NOT_FOUND",
                   "BUDGET_EXHAUSTED", "DEPENDENCY_MISSING"}

\* The run's own attempts, within the budget unless the run is over.
ContextInv ==
    /\ Closed(context.attempts)
    /\ \/ Len(context.attempts) <= budget
       \/ Len(context.attempts) = budget + 1 /\ expired /\ "budget_exhausted" \in flags
    /\ pc \notin {"stopped", "finished"} =>
          Len(context.attempts) <= budget /\ flags \cap StopKinds = {}

\* A batch: a node, or several with a share of the budget each.
BranchesInv ==
    \A i \in DOMAIN batch : BranchInv(batch[i], plan, context.attempts, expired /\ Len(batch) = 1)
SharesInv ==
    \A i \in DOMAIN batch :
        batch[i].budget = IF Len(batch) = 1 THEN budget ELSE AttemptShare(i, Len(batch))
ApartInv ==
    Len(batch) > 1 => Len(batch) <= Remaining
                      /\ \A i \in DOMAIN batch : plan[batch[i].node].approval = "free"
NeededInv ==
    context.accepted => \A i \in DOMAIN batch : ~plan[batch[i].node].fallback
BatchInv ==
    /\ Len(batch) > 0 /\ index + Len(batch) <= Len(plan) + 1
    /\ BranchesInv /\ SharesInv /\ ApartInv /\ NeededInv

\* What execute() knows of the branches at each of its awaits.
NothingStops(b, p, accepted) ==
    /\ b.pc = "returned" /\ b.result \notin StopKinds
    /\ b.result = "completed" /\ p[b.node].stops => accepted \/ ~b.context.accepted
ExecutingInv ==
    \A i \in DOMAIN batch :
        /\ batch[i].cancelling = FALSE /\ batch[i].pc # "cancelled"
        /\ batch[i].collected = TRUE => NothingStops(batch[i], plan, context.accepted)
StoppingInv == \A i \in DOMAIN batch : batch[i].pc \notin Settled => batch[i].cancelling = TRUE
OverInv     == \A i \in DOMAIN batch : batch[i].pc \in Settled
CollectInv ==
    /\ pc = "executing" => ExecutingInv
    /\ pc = "reaping" => Len(batch) > 1
    /\ pc \in {"reaping", "aborting"} => StoppingInv
    /\ pc \notin {"executing", "reaping", "aborting"} => OverInv

EngineInv == TypeInv /\ ContextInv /\ (InFlight => BatchInv) /\ CollectInv

----------------------------------------------------------------------------
(* Induction, and what FlattenSeq returns *)

\* Every set of naturals that is not empty has a least element.
LEMMA LeastNatural ==
    ASSUME NEW T, T \subseteq Nat, T # {}
    PROVE  \E m \in T : \A k \in T : m <= k
<1> DEFINE R == OpToRel(<, Nat)
<1>1. IsWellFoundedOn(R, Nat)
  BY NatLessThanWellFounded, Zenon
<1>2. \A a, b \in Nat : a < b => <<a, b>> \in R
  BY DEF OpToRel
<1> HIDE DEF R
<1>3. PICK m \in T : \A k \in T : ~(<<k, m>> \in R)
  BY <1>1, WFMin
<1>4. \A k \in T : k \in Nat /\ m \in Nat /\ ~(k < m)
  BY <1>2, <1>3
<1>5. \A k \in T : m <= k
  BY <1>4
<1> QED
  BY <1>3, <1>5

\* Induction, with a set in place of a predicate.
LEMMA SetInduction ==
    ASSUME NEW S, 0 \in S, \A n \in Nat : n \in S => n + 1 \in S
    PROVE  Nat \subseteq S
<1> SUFFICES ASSUME Nat \ S # {} PROVE FALSE
  OBVIOUS
<1>1. PICK m \in Nat \ S : \A k \in Nat \ S : m <= k
  BY LeastNatural
<1>2. m \in Nat /\ m # 0
  BY <1>1
<1>3. m - 1 \in Nat /\ m - 1 \in S
  BY <1>1, <1>2
<1>4. (m - 1) + 1 \in S
  BY <1>3
<1> QED
  BY <1>1, <1>2, <1>4

\* FlattenSeq concatenates: its partial results f[1], f[2], ... exist.
Partial(ss, f, n) ==
    /\ f = [i \in 1..n |-> f[i]]
    /\ \A i \in 1..n : f[i] = IF i = 1 THEN ss[i] ELSE f[i - 1] \o ss[i]

\* For each length there is a function of partial results.
LEMMA PartialExists ==
    ASSUME NEW ss
    PROVE  \A n \in Nat : \E f : Partial(ss, f, n)
<1> DEFINE S == {n \in Nat : \E f : Partial(ss, f, n)}
<1>1. 0 \in S
  <2>1. Partial(ss, [i \in 1..0 |-> 0], 0)
    BY DEF Partial
  <2> QED
    BY <2>1
<1>2. ASSUME NEW n \in Nat, n \in S PROVE n + 1 \in S
  <2>1. PICK f : Partial(ss, f, n)
    BY <1>2
  <2>2. PICK last : last = IF n = 0 THEN ss[1] ELSE f[n] \o ss[n + 1]
    OBVIOUS
  <2>3. PICK g : g = [i \in 1..(n + 1) |-> IF i = n + 1 THEN last ELSE f[i]]
    OBVIOUS
  <2>4. \A i \in 1..n : g[i] = f[i]
    BY <2>3
  <2>5. g[n + 1] = last
    BY <2>3
  <2>6. \A i \in 1..(n + 1) : g[i] = IF i = 1 THEN ss[i] ELSE g[i - 1] \o ss[i]
    <3> TAKE i \in 1..(n + 1)
    <3>1. CASE i = n + 1
      <4>1. CASE n = 0
        BY <2>2, <2>5, <3>1, <4>1
      <4>2. CASE n # 0
        <5>1. i # 1 /\ i - 1 = n /\ n \in 1..n
          BY <3>1, <4>2
        <5> QED
          BY <2>2, <2>4, <2>5, <3>1, <4>2, <5>1
      <4> QED
        BY <4>1, <4>2
    <3>2. CASE i # n + 1
      <4>1. i \in 1..n /\ (i # 1 => i - 1 \in 1..n)
        BY <3>2
      <4> QED
        BY <2>1, <2>4, <4>1 DEF Partial
    <3> QED
      BY <3>1, <3>2
  <2>7. g = [i \in 1..(n + 1) |-> g[i]]
    BY <2>3
  <2>8. Partial(ss, g, n + 1)
    BY <2>6, <2>7 DEF Partial
  <2> QED
    BY <2>8
<1> HIDE DEF S
<1>3. Nat \subseteq S
  BY <1>1, <1>2, SetInduction
<1> QED
  BY <1>3 DEF S

\* FlattenSeq returns the last of its partial results.
LEMMA FlattenIsPartial ==
    ASSUME NEW ss, NEW n \in Nat, Len(ss) = n, n # 0
    PROVE  \E f : Partial(ss, f, n) /\ FlattenSeq(ss) = f[n]
<1> DEFINE Is(f) == f = [i \in 1..n |-> IF i = 1 THEN ss[i] ELSE f[i - 1] \o ss[i]]
<1>1. PICK f : Partial(ss, f, n)
  BY PartialExists
<1>2. Is(f)
  BY <1>1 DEF Partial
<1>3. PICK g : g = CHOOSE h : Is(h)
  OBVIOUS
<1>4. Is(g)
  BY <1>2, <1>3
<1>5. Partial(ss, g, n)
  <2>1. \A i \in 1..n : g[i] = IF i = 1 THEN ss[i] ELSE g[i - 1] \o ss[i]
    BY <1>4
  <2>2. g = [i \in 1..n |-> g[i]]
    BY <1>4
  <2> QED
    BY <2>1, <2>2 DEF Partial
<1>6. FlattenSeq(ss) = g[n]
  BY <1>3 DEF FlattenSeq
<1> QED
  BY <1>5, <1>6

Step(ss, f, n, k) ==
    IF k = 0 THEN f[k + 1] = ss[k + 1] ELSE k \in 1..n /\ f[k + 1] = f[k] \o ss[k + 1]

\* Each partial result is the one before with the next sequence appended.
LEMMA PartialStep ==
    ASSUME NEW ss, NEW f, NEW n \in Nat, Partial(ss, f, n), NEW k \in Nat, k + 1 \in 1..n
    PROVE  Step(ss, f, n, k)
<1>1. PICK j : j = k + 1
  OBVIOUS
<1>2. f[j] = IF j = 1 THEN ss[j] ELSE f[j - 1] \o ss[j]
  BY <1>1 DEF Partial
<1>3. j - 1 = k /\ (k # 0 => k \in 1..n /\ j # 1)
  BY <1>1
<1>4. CASE k = 0
  BY <1>1, <1>2, <1>4 DEF Step
<1>5. CASE k # 0
  <2>1. f[j] = f[j - 1] \o ss[j]
    BY <1>2, <1>3, <1>5
  <2> QED
    BY <1>1, <1>3, <1>5, <2>1 DEF Step
<1> QED
  BY <1>4, <1>5

\* Attempts none of which is open stay so when they are put together.
LEMMA ConcatClosed ==
    ASSUME NEW s \in Seq(Statuses), NEW t \in Seq(Statuses), Closed(s), Closed(t)
    PROVE  Closed(s \o t)
<1>1. CASE t = <<>>
  <2>1. s \o t = s
    BY <1>1
  <2> QED
    BY <2>1
<1>2. CASE t # <<>>
  <2>1. Len(t) > 0 /\ Len(s \o t) = Len(s) + Len(t)
    BY <1>2
  <2>2. (s \o t)[Len(s) + Len(t)] = t[Len(t)]
    BY <2>1
  <2> QED
    BY <1>2, <2>1, <2>2 DEF Closed
<1> QED
  BY <1>1, <1>2

\* The same for any number of sequences of attempts.
LEMMA FlattenClosed ==
    ASSUME NEW n \in Nat \ {0}, NEW ss \in [1..n -> Seq(Statuses)], \A i \in 1..n : Closed(ss[i])
    PROVE  FlattenSeq(ss) \in Seq(Statuses) /\ Closed(FlattenSeq(ss))
<1>1. Len(ss) = n
  OBVIOUS
<1>2. PICK f : Partial(ss, f, n) /\ FlattenSeq(ss) = f[n]
  BY <1>1, FlattenIsPartial
<1>2a. \A k \in Nat : k + 1 \in 1..n => Step(ss, f, n, k)
  BY <1>2, PartialStep
<1> DEFINE S == {k \in Nat : k \in 1..n => f[k] \in Seq(Statuses) /\ Closed(f[k])}
<1>3. 0 \in S
  OBVIOUS
<1>4. ASSUME NEW k \in Nat, k \in S PROVE k + 1 \in S
  <2> SUFFICES ASSUME k + 1 \in 1..n PROVE f[k + 1] \in Seq(Statuses) /\ Closed(f[k + 1])
    OBVIOUS
  <2>1. IF k = 0 THEN f[k + 1] = ss[k + 1] ELSE k \in 1..n /\ f[k + 1] = f[k] \o ss[k + 1]
    BY <1>2a DEF Step
  <2>2. CASE k = 0
    BY <2>1, <2>2
  <2>3. CASE k # 0
    <3>1. k \in 1..n /\ f[k + 1] = f[k] \o ss[k + 1]
      BY <2>1, <2>3
    <3>2. f[k] \in Seq(Statuses) /\ Closed(f[k]) /\ ss[k + 1] \in Seq(Statuses)
      BY <1>4, <3>1
    <3>3. Closed(f[k] \o ss[k + 1])
      BY <3>2, ConcatClosed
    <3> QED
      BY <3>1, <3>2, <3>3
  <2> QED
    BY <2>2, <2>3
<1> HIDE DEF S
<1>5. Nat \subseteq S
  BY <1>3, <1>4, SetInduction
<1> QED
  BY <1>2, <1>5 DEF S

\* The shares add up.
LEMMA FlattenWithin ==
    ASSUME NEW n \in Nat \ {0}, NEW ss \in [1..n -> Seq(Statuses)], NEW q \in Nat, NEW r \in Nat,
           \A i \in 1..n : Len(ss[i]) <= q + (IF i <= r THEN 1 ELSE 0)
    PROVE  Len(FlattenSeq(ss)) <= n * q + r
<1>1. Len(ss) = n
  OBVIOUS
<1>2. PICK f : Partial(ss, f, n) /\ FlattenSeq(ss) = f[n]
  BY <1>1, FlattenIsPartial
<1>2a. \A k \in Nat : k + 1 \in 1..n => Step(ss, f, n, k)
  BY <1>2, PartialStep
<1> DEFINE upTo(k) == k * q + (IF k <= r THEN k ELSE r)
           S == {k \in Nat : k \in 1..n => f[k] \in Seq(Statuses) /\ Len(f[k]) <= upTo(k)}
<1>3. 0 \in S
  OBVIOUS
<1>4. ASSUME NEW k \in Nat, k \in S PROVE k + 1 \in S
  <2> SUFFICES ASSUME k + 1 \in 1..n PROVE f[k + 1] \in Seq(Statuses) /\ Len(f[k + 1]) <= upTo(k + 1)
    OBVIOUS
  <2>1. IF k = 0 THEN f[k + 1] = ss[k + 1] ELSE k \in 1..n /\ f[k + 1] = f[k] \o ss[k + 1]
    BY <1>2a DEF Step
  <2>2. CASE k = 0
    BY <2>1, <2>2
  <2>3. CASE k # 0
    <3>1. k \in 1..n /\ f[k + 1] = f[k] \o ss[k + 1]
      BY <2>1, <2>3
    <3>2. f[k] \in Seq(Statuses) /\ Len(f[k]) <= upTo(k) /\ ss[k + 1] \in Seq(Statuses)
      BY <1>4, <3>1
    <3>3. Len(f[k + 1]) = Len(f[k]) + Len(ss[k + 1]) /\ Len(f[k]) \in Nat /\ Len(ss[k + 1]) \in Nat
      BY <3>1, <3>2
    <3>4. PICK kq \in Nat : kq = k * q
      OBVIOUS
    <3>5. (k + 1) * q = kq + q
      BY <3>4
    <3>6. Len(ss[k + 1]) <= q + (IF k + 1 <= r THEN 1 ELSE 0)
      OBVIOUS
    <3>7. Len(f[k]) <= kq + (IF k <= r THEN k ELSE r)
      BY <3>2, <3>4
    <3>8. ASSUME NEW a \in Nat, NEW b \in Nat, a <= kq + (IF k <= r THEN k ELSE r),
                 b <= q + (IF k + 1 <= r THEN 1 ELSE 0)
          PROVE  a + b <= (kq + q) + (IF k + 1 <= r THEN k + 1 ELSE r)
      BY <3>8
    <3>9. Len(f[k + 1]) <= (kq + q) + (IF k + 1 <= r THEN k + 1 ELSE r)
      BY <3>3, <3>6, <3>7, <3>8
    <3>10. f[k + 1] \in Seq(Statuses)
      BY ONLY <3>1, <3>2
    <3> QED
      BY <3>5, <3>9, <3>10
  <2> QED
    BY <2>2, <2>3
<1> HIDE DEF S
<1>5. n \in S
  BY <1>3, <1>4, SetInduction
<1>6. f[n] \in Seq(Statuses) /\ Len(f[n]) <= upTo(n)
  BY <1>5 DEF S
<1> QED
  BY <1>2, <1>6

\* Only the lengths of the parts matter to the length of the whole.
LEMMA FlattenLength ==
    ASSUME NEW n \in Nat \ {0}, NEW ss \in [1..n -> Seq(Statuses)], NEW tt \in [1..n -> Seq(Statuses)],
           \A i \in 1..n : Len(ss[i]) = Len(tt[i])
    PROVE  Len(FlattenSeq(ss)) = Len(FlattenSeq(tt)) /\ FlattenSeq(ss) \in Seq(Statuses)
<1>1. Len(ss) = n /\ Len(tt) = n
  OBVIOUS
<1>2. PICK f : Partial(ss, f, n) /\ FlattenSeq(ss) = f[n]
  BY <1>1, FlattenIsPartial
<1>2a. \A k \in Nat : k + 1 \in 1..n => Step(ss, f, n, k)
  BY <1>2, PartialStep
<1>3. PICK g : Partial(tt, g, n) /\ FlattenSeq(tt) = g[n]
  BY <1>1, FlattenIsPartial
<1>3a. \A k \in Nat : k + 1 \in 1..n => Step(tt, g, n, k)
  BY <1>3, PartialStep
<1> DEFINE S == {k \in Nat : k \in 1..n => /\ f[k] \in Seq(Statuses) /\ g[k] \in Seq(Statuses)
                                          /\ Len(f[k]) = Len(g[k])}
<1>4. 0 \in S
  OBVIOUS
<1>5. ASSUME NEW k \in Nat, k \in S PROVE k + 1 \in S
  <2> SUFFICES ASSUME k + 1 \in 1..n
               PROVE  /\ f[k + 1] \in Seq(Statuses) /\ g[k + 1] \in Seq(Statuses)
                      /\ Len(f[k + 1]) = Len(g[k + 1])
    OBVIOUS
  <2>1. /\ IF k = 0 THEN f[k + 1] = ss[k + 1] ELSE k \in 1..n /\ f[k + 1] = f[k] \o ss[k + 1]
        /\ IF k = 0 THEN g[k + 1] = tt[k + 1] ELSE k \in 1..n /\ g[k + 1] = g[k] \o tt[k + 1]
    BY <1>2a, <1>3a DEF Step
  <2>2. CASE k = 0
    BY <2>1, <2>2
  <2>3. CASE k # 0
    <3>1. k \in 1..n /\ f[k + 1] = f[k] \o ss[k + 1] /\ g[k + 1] = g[k] \o tt[k + 1]
      BY <2>1, <2>3
    <3>2. /\ f[k] \in Seq(Statuses) /\ g[k] \in Seq(Statuses) /\ Len(f[k]) = Len(g[k])
          /\ ss[k + 1] \in Seq(Statuses) /\ tt[k + 1] \in Seq(Statuses)
          /\ Len(ss[k + 1]) = Len(tt[k + 1])
      BY <1>5, <3>1
    <3>3. PICK a \in Seq(Statuses), b \in Seq(Statuses), c \in Seq(Statuses), d \in Seq(Statuses) :
             a = f[k] /\ b = ss[k + 1] /\ c = g[k] /\ d = tt[k + 1]
      BY <3>2
    <3>4. Len(a) = Len(c) /\ Len(b) = Len(d)
      BY <3>2, <3>3
    <3>5. Len(a \o b) = Len(a) + Len(b) /\ a \o b \in Seq(Statuses)
      OBVIOUS
    <3>6. Len(c \o d) = Len(c) + Len(d) /\ c \o d \in Seq(Statuses)
      OBVIOUS
    <3> QED
      BY <3>1, <3>3, <3>4, <3>5, <3>6
  <2> QED
    BY <2>2, <2>3
<1> HIDE DEF S
<1>6. n \in S
  BY <1>4, <1>5, SetInduction
<1>7. f[n] \in Seq(Statuses) /\ Len(f[n]) = Len(g[n])
  BY <1>6 DEF S
<1> QED
  BY <1>2, <1>3, <1>7

----------------------------------------------------------------------------
(* The attempts *)

\* _mark_running_attempt_failed, _mark_running_attempt_cancelled
LEMMA MarkRunningIs ==
    ASSUME NEW att \in Seq(Statuses), NEW s \in Statuses \ {"RUNNING"}, NEW base,
           Extends(base, att), Closed(att) \/ Len(att) > Len(base), Len(base) \in Nat,
           NEW n, n = MarkRunning(att, s)
    PROVE  n \in Seq(Statuses) /\ Len(n) = Len(att) /\ Closed(n) /\ Extends(base, n)
<1>1. CASE att # <<>> /\ att[Len(att)] = "RUNNING"
  <2>1. n = [att EXCEPT ![Len(att)] = s] /\ Len(att) \in DOMAIN att /\ Len(att) > Len(base)
    BY <1>1 DEF MarkRunning, SetLast, Last, Closed
  <2>2. n \in Seq(Statuses) /\ Len(n) = Len(att) /\ n[Len(att)] = s
    BY <2>1
  <2>3. \A k \in 1..Len(base) : n[k] = att[k]
    BY <2>1
  <2> QED
    BY <2>2, <2>3 DEF Closed, Extends
<1>2. CASE ~(att # <<>> /\ att[Len(att)] = "RUNNING")
  BY <1>2 DEF MarkRunning, Last, Closed
<1> QED
  BY <1>1, <1>2

\* _ensure_deadline_attempt_failed: one attempt of this node is closed as failed
LEMMA EnsureDeadlineIs ==
    ASSUME NEW att \in Seq(Statuses), NEW base \in Seq(Statuses), Extends(base, att),
           Closed(att) \/ Len(att) > Len(base),
           NEW n, n = EnsureDeadlineAttemptFailed(att, Len(base))
    PROVE  /\ n \in Seq(Statuses) /\ Closed(n) /\ Extends(base, n) /\ Len(n) > Len(base)
           /\ Len(n) = IF Len(att) = Len(base) THEN Len(base) + 1 ELSE Len(att)
<1>1. CASE Len(att) = Len(base)
  <2>1. n = Append(att, "FAILED")
    BY <1>1 DEF EnsureDeadlineAttemptFailed
  <2>2. n \in Seq(Statuses) /\ Len(n) = Len(att) + 1 /\ n[Len(att) + 1] = "FAILED"
    BY <2>1 DEF Statuses
  <2>3. \A k \in 1..Len(att) : n[k] = att[k]
    BY <2>1
  <2> QED
    BY <1>1, <2>2, <2>3 DEF Closed, Extends
<1>2. CASE Len(att) # Len(base) /\ att[Len(att)] \in {"CANCELLED", "RUNNING"}
  <2>1. n = [att EXCEPT ![Len(att)] = "FAILED"] /\ Len(att) > Len(base) /\ Len(att) \in DOMAIN att
    BY <1>2 DEF EnsureDeadlineAttemptFailed, SetLast, Last, Extends
  <2>2. n \in Seq(Statuses) /\ Len(n) = Len(att) /\ n[Len(att)] = "FAILED"
    BY <2>1 DEF Statuses
  <2>3. \A k \in 1..Len(base) : n[k] = att[k]
    BY <2>1
  <2> QED
    BY <1>2, <2>1, <2>2, <2>3 DEF Closed, Extends
<1>3. CASE Len(att) # Len(base) /\ att[Len(att)] \notin {"CANCELLED", "RUNNING"}
  BY <1>3 DEF EnsureDeadlineAttemptFailed, Last, Extends, Closed
<1> QED
  BY <1>1, <1>2, <1>3

----------------------------------------------------------------------------
(* One branch *)

\* A step of a branch leaves what execute() gave it alone.
SameSlot(n, b) ==
    /\ n.node = b.node /\ n.budget = b.budget
    /\ n.cancelling = b.cancelling /\ n.collected = b.collected

\* A branch whose copy is in order and within its share.
Calm(b, p, base) ==
    /\ Typed(b, p) /\ Copy(b, base) /\ Len(b.context.attempts) <= b.budget
    /\ ~p[b.node].logs => Closed(b.context.attempts)

\* The types of a branch's fields.
LEMMA BranchHas ==
    ASSUME NEW b \in Branch
    PROVE  /\ b.context \in Contexts /\ b.context.attempts \in Seq(Statuses)
           /\ Len(b.context.attempts) \in Nat /\ b.own \in Nat /\ b.tries \in Nat /\ b.budget \in Nat
           /\ b.pc \in BranchPcs /\ b.node \in Nat
<1>1. b.context \in Contexts
  BY DEF Branch
<1>2. b.context.attempts \in Seq(Statuses)
  BY <1>1 DEF Contexts, Statuses
<1> QED
  BY <1>1, <1>2 DEF Branch

\* Other attempts, in the same context.
Marked(b, att) == [b EXCEPT !.context.attempts = att]
\* A branch with other attempts is otherwise the same.
LEMMA WithAttempts ==
    ASSUME NEW b \in Branch, NEW att \in Seq(Statuses), NEW m, m = Marked(b, att)
    PROVE  /\ m \in Branch /\ m.context.attempts = att /\ SameSlot(m, b)
           /\ m.pc = b.pc /\ m.own = b.own /\ m.tries = b.tries /\ m.result = b.result
<1>1. PICK c : c = [b.context EXCEPT !.attempts = att]
  OBVIOUS
<1>2. b.context \in Contexts
  BY DEF Branch
<1>3. c \in Contexts /\ c.attempts = att
  BY <1>1, <1>2 DEF Contexts, Statuses
<1>4. m = [b EXCEPT !.context = c]
  BY <1>1 DEF Marked
<1> QED
  BY <1>3, <1>4 DEF Branch, SameSlot

\* Another place, and another result.
Moved(b, there, res) == [b EXCEPT !.pc = there, !.result = res]
\* A branch that moved, with its result, is otherwise the same.
LEMMA WithPc ==
    ASSUME NEW b \in Branch, NEW there \in BranchPcs, NEW res \in Failures \cup {"none", "completed"},
           NEW m, m = Moved(b, there, res)
    PROVE  /\ m \in Branch /\ m.context = b.context /\ SameSlot(m, b)
           /\ m.pc = there /\ m.own = b.own /\ m.tries = b.tries /\ m.result = res
  BY DEF Moved, Branch, SameSlot

\* An except clause: the last attempt is closed, the failure is reported.
LEMMA HandledIsGood ==
    ASSUME NEW b, NEW p, NEW base \in Seq(Statuses), NEW late, NEW kind \in Failures,
           Typed(b, p), Copy(b, base),
           \/ Len(b.context.attempts) <= b.budget
           \/ late /\ Len(b.context.attempts) = b.budget + 1 /\ kind = "budget_exhausted"
    PROVE  /\ BranchInv(Handled(b, kind), p, base, late)
           /\ SameSlot(Handled(b, kind), b) /\ Handled(b, kind).pc = "reporting"
<1>1. PICK att : att = b.context.attempts
  OBVIOUS
<1>2. att \in Seq(Statuses) /\ b \in Branch
  BY <1>1, BranchHas DEF Typed
<1>3. PICK new : new = MarkRunning(att, "FAILED")
  OBVIOUS
<1>4. new \in Seq(Statuses) /\ Len(new) = Len(att) /\ Closed(new) /\ Extends(base, new)
  BY <1>1, <1>2, <1>3, MarkRunningIs DEF Copy, Statuses
<1>5. PICK m : m = Moved(b, "reporting", kind)
  OBVIOUS
<1>6. /\ m \in Branch /\ m.context = b.context /\ SameSlot(m, b)
      /\ m.pc = "reporting" /\ m.own = b.own /\ m.tries = b.tries /\ m.result = kind
  <2>1. "reporting" \in BranchPcs /\ kind \in Failures \cup {"none", "completed"}
    BY DEF BranchPcs
  <2> QED
    BY <1>2, <1>5, <2>1, WithPc
<1>7. PICK n : n = Marked(m, new)
  OBVIOUS
<1>8. /\ n \in Branch /\ n.context.attempts = new /\ SameSlot(n, m)
      /\ n.pc = "reporting" /\ n.own = m.own /\ n.tries = m.tries /\ n.result = kind
  <2>1. m \in Branch /\ new \in Seq(Statuses) /\ m.pc = "reporting" /\ m.result = kind
    BY <1>4, <1>6
  <2> QED
    BY <1>7, <2>1, WithAttempts
<1>9. Handled(b, kind) = n
  <2>1. new = MarkRunning(m.context.attempts, "FAILED")
    BY <1>1, <1>3, <1>6
  <2>2. Handled(b, kind) = [m EXCEPT !.context.attempts = MarkRunning(@, "FAILED")]
    BY <1>5 DEF Handled, Moved
  <2> QED
    BY <1>7, <2>1, <2>2 DEF Marked
<1>10. SameSlot(n, b)
  BY <1>6, <1>8 DEF SameSlot
<1>11. Len(new) = Len(att) /\ n.own = b.own /\ n.tries = b.tries /\ n.node = b.node
  BY <1>4, <1>6, <1>8, <1>10 DEF SameSlot
<1>12. Typed(n, p)
  <2>1. /\ b.own <= Len(att) /\ b.tries <= p[b.node].retries /\ b.node \in DOMAIN p
        /\ ~p[b.node].logs => b.own = 0
    BY <1>1 DEF Typed
  <2> QED
    BY <1>8, <1>11, <2>1 DEF Typed
<1>13. Copy(n, base)
  BY <1>1, <1>4, <1>8, <1>11 DEF Copy
<1>14. AttemptsInv(n, late)
  BY <1>1, <1>4, <1>8, <1>10, <1>11 DEF AttemptsInv, Late, SameSlot
<1>15. StageInv(n, p)
  BY <1>4, <1>8 DEF StageInv, Failures, StopKinds
<1> QED
  BY <1>8, <1>9, <1>10, <1>12, <1>13, <1>14, <1>15 DEF BranchInv

\* The head of _with_retries.
LEMMA TryIsGood ==
    ASSUME NEW b, NEW p, NEW base \in Seq(Statuses), NEW late, Calm(b, p, base),
           p[b.node].approval # "missing"
    PROVE  /\ BranchInv(Try(b), p, base, late) /\ SameSlot(Try(b), b)
           /\ Try(b).pc \notin Settled
<1>1. b \in Branch /\ Typed(b, p) /\ Copy(b, base) /\ Len(b.context.attempts) <= b.budget
  BY DEF Calm, Typed
<1>2. CASE Len(b.context.attempts) >= b.budget
  <2>1. "budget_exhausted" \in Failures
    BY DEF Failures, StopKinds
  <2> QED
    BY <1>1, <1>2, <2>1, HandledIsGood DEF Try, Settled
<1>3. CASE ~(Len(b.context.attempts) >= b.budget)
  <2>1. PICK n : n = [b EXCEPT !.pc = "adapter", !.own = 0]
    OBVIOUS
  <2>2. /\ n \in Branch /\ n.context = b.context /\ SameSlot(n, b)
        /\ n.pc = "adapter" /\ n.own = 0 /\ n.tries = b.tries
    BY <1>1, <2>1 DEF Branch, BranchPcs, SameSlot
  <2>3. Len(b.context.attempts) < b.budget /\ Len(b.context.attempts) \in Nat
    BY <1>1, <1>3, BranchHas
  <2>4. Typed(n, p) /\ Copy(n, base)
    BY <1>1, <2>2, <2>3 DEF Typed, Copy, SameSlot
  <2>5. AttemptsInv(n, late) /\ StageInv(n, p)
    BY <1>1, <2>2, <2>3 DEF AttemptsInv, StageInv, SameSlot, Calm
  <2> QED
    BY <1>3, <2>1, <2>2, <2>4, <2>5 DEF Try, BranchInv, Settled
<1> QED
  BY <1>2, <1>3

\* The deadline: one attempt of the node is failed, a new one if it has none.
LEMMA DeadlineIsGood ==
    ASSUME NEW b, NEW p, NEW base \in Seq(Statuses), NEW late, Calm(b, p, base),
           base = context.attempts, late \/ Len(base) < b.budget
    PROVE  /\ BranchInv(DeadlineHandled(b), p, base, late) /\ SameSlot(DeadlineHandled(b), b)
           /\ DeadlineHandled(b).pc = "reporting"
<1>1. PICK att : att = b.context.attempts
  OBVIOUS
<1>2. /\ b \in Branch /\ Typed(b, p) /\ Copy(b, base) /\ Len(att) <= b.budget
      /\ att \in Seq(Statuses) /\ Len(att) \in Nat /\ b.budget \in Nat
  BY <1>1, BranchHas DEF Calm, Typed
<1>3. PICK new : new = EnsureDeadlineAttemptFailed(att, Len(base))
  OBVIOUS
<1>4. /\ new \in Seq(Statuses) /\ Closed(new) /\ Extends(base, new) /\ Len(new) > Len(base)
      /\ Len(new) = IF Len(att) = Len(base) THEN Len(base) + 1 ELSE Len(att)
  BY <1>1, <1>2, <1>3, EnsureDeadlineIs DEF Copy
<1>5. PICK m : m = Marked(b, new)
  OBVIOUS
<1>6. /\ m \in Branch /\ m.context.attempts = new /\ SameSlot(m, b)
      /\ m.pc = b.pc /\ m.own = b.own /\ m.tries = b.tries /\ m.result = b.result
  BY <1>2, <1>4, <1>5, WithAttempts, SMTT(20)
<1>7. Len(base) \in Nat /\ Len(base) <= Len(att) /\ Len(att) <= Len(new)
  BY <1>1, <1>2, <1>4 DEF Copy, Extends
<1>8. Len(new) <= b.budget \/ (late /\ Len(new) = b.budget + 1)
  BY <1>2, <1>4, <1>7
<1>9. Typed(m, p) /\ Copy(m, base)
  <2>1. /\ b.own <= Len(att) /\ b.own \in Nat /\ b.tries <= p[b.node].retries /\ b.node \in DOMAIN p
        /\ m.node = b.node /\ (b.own # 0 => b.own > Len(base)) /\ Len(new) \in Nat
        /\ ~p[b.node].logs => b.own = 0
    BY <1>1, <1>2, <1>4, <1>6, BranchHas DEF Typed, Copy, SameSlot
  <2> QED
    BY <1>4, <1>6, <1>7, <2>1 DEF Typed, Copy
<1>10. DeadlineHandled(b) = Handled(m, "budget_exhausted")
  BY <1>1, <1>3, <1>5 DEF DeadlineHandled, Marked
<1>11. "budget_exhausted" \in Failures /\ m.budget = b.budget
  BY <1>6 DEF Failures, StopKinds, SameSlot
<1>12. /\ BranchInv(Handled(m, "budget_exhausted"), p, base, late)
       /\ SameSlot(Handled(m, "budget_exhausted"), m) /\ Handled(m, "budget_exhausted").pc = "reporting"
  BY <1>6, <1>8, <1>9, <1>11, HandledIsGood
<1> QED
  BY <1>6, <1>10, <1>12 DEF SameSlot

\* The adapter's own bookkeeping stays within what it appended.
OwnIs(m, b, s) ==
    /\ b.own = 0 => m.context.attempts = b.context.attempts
    /\ b.own # 0 => m.context.attempts[b.own] = s
    /\ \A k \in 1..Len(b.context.attempts) : k # b.own =>
          m.context.attempts[k] = b.context.attempts[k]

\* Settling its own attempt leaves a branch's earlier attempts alone.
LEMMA SetOwnIsCalm ==
    ASSUME NEW b, NEW p, NEW base \in Seq(Statuses), Calm(b, p, base), NEW s \in Statuses,
           NEW m, m = SetOwn(b, s)
    PROVE  /\ Calm(m, p, base) /\ SameSlot(m, b) /\ m.pc = b.pc /\ m.own = b.own /\ m.tries = b.tries
           /\ m.result = b.result /\ Len(m.context.attempts) = Len(b.context.attempts)
           /\ OwnIs(m, b, s)
<1>1. CASE b.own = 0
  BY <1>1 DEF SetOwn, SameSlot, OwnIs
<1>2. CASE b.own # 0
  <2>1. PICK att : att = b.context.attempts
    OBVIOUS
  <2>2. /\ b \in Branch /\ att \in Seq(Statuses) /\ Len(att) \in Nat /\ b.own \in Nat
        /\ b.own <= Len(att) /\ b.own > Len(base) /\ Len(att) <= b.budget /\ Extends(base, att)
        /\ b.tries <= p[b.node].retries /\ b.node \in DOMAIN p /\ p[b.node].logs
    BY <1>2, <2>1, BranchHas DEF Calm, Typed, Copy
  <2>3. PICK new : new = [att EXCEPT ![b.own] = s]
    OBVIOUS
  <2>4. /\ new \in Seq(Statuses) /\ Len(new) = Len(att) /\ new[b.own] = s
        /\ \A k \in 1..Len(att) : k # b.own => new[k] = att[k]
    BY <2>2, <2>3
  <2>5. \A k \in 1..Len(base) : new[k] = att[k]
    BY <2>2, <2>4, SMTT(20) DEF Extends
  <2>6. Extends(base, new)
    BY <2>2, <2>4, <2>5 DEF Extends
  <2>7. m = Marked(b, new)
    BY <1>2, <2>1, <2>3 DEF SetOwn, Marked
  <2>8. /\ m \in Branch /\ m.context.attempts = new /\ SameSlot(m, b)
        /\ m.pc = b.pc /\ m.own = b.own /\ m.tries = b.tries /\ m.result = b.result
    BY <2>2, <2>4, <2>7, WithAttempts
  <2>9. Len(base) < Len(new) /\ m.node = b.node /\ m.budget = b.budget
    BY <2>2, <2>4, <2>8 DEF SameSlot
  <2>10. Typed(m, p) /\ Copy(m, base) /\ Len(m.context.attempts) <= m.budget
    BY <2>2, <2>4, <2>6, <2>8, <2>9 DEF Typed, Copy
  <2> QED
    BY <1>2, <2>1, <2>2, <2>4, <2>8, <2>9, <2>10 DEF Calm, OwnIs
<1> QED
  BY <1>1, <1>2

\* So does the handler of an interrupted adapter call.
LEMMA InterruptedIsCalm ==
    ASSUME NEW b, NEW p, NEW base \in Seq(Statuses), Calm(b, p, base), NEW s \in Statuses,
           NEW m, m = Interrupted(b, s)
    PROVE  /\ Calm(m, p, base) /\ SameSlot(m, b) /\ m.pc = b.pc /\ m.tries = b.tries
           /\ m.result = b.result /\ Len(m.context.attempts) = Len(b.context.attempts)
           /\ m.context.attempts = b.context.attempts \/ b.pc = "adapter"
<1>1. CASE b.pc = "adapter" /\ plan[b.node].settles
  <2>1. m = SetOwn(b, s)
    BY <1>1 DEF Interrupted
  <2>2. /\ Calm(SetOwn(b, s), p, base) /\ SameSlot(SetOwn(b, s), b) /\ SetOwn(b, s).pc = b.pc
        /\ SetOwn(b, s).tries = b.tries /\ SetOwn(b, s).result = b.result
        /\ Len(SetOwn(b, s).context.attempts) = Len(b.context.attempts)
    BY SetOwnIsCalm
  <2> QED
    BY <1>1, <2>1, <2>2
<1>2. CASE ~(b.pc = "adapter" /\ plan[b.node].settles)
  BY <1>2 DEF Interrupted, SameSlot
<1> QED
  BY <1>1, <1>2

----------------------------------------------------------------------------
(* The batch *)

\* The types of the run's context.
LEMMA ContextHas ==
    ASSUME TypeInv
    PROVE  /\ context.attempts \in Seq(Statuses) /\ Len(context.attempts) \in Nat
           /\ context.accepted \in BOOLEAN /\ budget \in Nat
  BY PlansAssumption DEF TypeInv, Contexts, Statuses

\* What is left of the budget.
LEMMA RemainingIs ==
    ASSUME TypeInv, Len(context.attempts) <= budget
    PROVE  Remaining = budget - Len(context.attempts) /\ Remaining \in Nat
<1>1. PICK d : d = budget - Len(context.attempts)
  OBVIOUS
<1>2. d \in Nat
  BY <1>1, ContextHas
<1>3. Max({0, d}) = d
  <2>1. d \in {0, d} /\ \A y \in {0, d} : d >= y
    BY <1>2
  <2>2. \A x \in {0, d} : (\A y \in {0, d} : x >= y) => x = d
    BY <1>2
  <2> QED
    BY <2>1, <2>2 DEF Max
<1> QED
  BY <1>1, <1>2, <1>3 DEF Remaining

\* A group that fits the budget has an attempt for each of its branches.
LEMMA ShareIsPositive ==
    ASSUME NEW n \in Nat \ {0}, NEW m \in Nat, n <= m
    PROVE  m \div n \in Nat /\ m \div n >= 1
<1>1. m = n * (m \div n) + (m % n) /\ m \div n \in Int /\ m % n \in 0..(n - 1)
  OBVIOUS
<1>2. PICK q \in Int, r \in 0..(n - 1) : q = m \div n /\ r = m % n /\ m = n * q + r
  BY <1>1
<1>3. q >= 1
  <2>1. ASSUME q <= 0 PROVE n * q <= 0
    BY <2>1
  <2> QED
    BY <1>2, <2>1
<1> QED
  BY <1>2, <1>3

\* A branch that may still step is one of a batch in flight.
LEMMA LiveBranchHas ==
    ASSUME EngineInv, NEW i \in LiveBranches
    PROVE  /\ InFlight /\ i \in DOMAIN batch /\ i \in 1..Len(batch) /\ batch[i].pc \notin Settled
           /\ BranchInv(batch[i], plan, context.attempts, expired /\ Len(batch) = 1)
           /\ Len(batch) = 1 \/ Len(context.attempts) < batch[i].budget
<1>1. InFlight /\ BatchInv /\ i \in DOMAIN batch /\ TypeInv /\ batch[i].pc \notin Settled
  BY DEF EngineInv, CollectInv, LiveBranches, OverInv, InFlight
<1>2. i \in 1..Len(batch) /\ Len(batch) \in Nat
  BY <1>1 DEF TypeInv
<1>3. Len(context.attempts) <= budget
  BY <1>1 DEF EngineInv, ContextInv, InFlight
<1>4. ASSUME Len(batch) # 1 PROVE Len(context.attempts) < batch[i].budget
  <2>1. Len(batch) > 1
    <3>1. Len(batch) > 0
      BY <1>1 DEF BatchInv
    <3>2. PICK len \in Nat : len = Len(batch)
      BY <1>2
    <3>3. len # 1 /\ len > 0
      BY <1>4, <3>1, <3>2
    <3>4. len > 1
      BY <3>3
    <3> QED
      BY <3>2, <3>4
  <2>2. Len(batch) <= Remaining
    BY <1>1, <2>1 DEF BatchInv, ApartInv
  <2>3. PICK q : q = Remaining \div Len(batch)
    OBVIOUS
  <2>4. q \in Nat /\ q >= 1
    BY <1>1, <1>2, <1>3, <2>1, <2>2, <2>3, RemainingIs, ShareIsPositive
  <2>5. batch[i].budget = AttemptShare(i, Len(batch))
    BY <1>1, <1>4 DEF BatchInv, SharesInv
  <2>6. PICK one \in {0, 1} : one = IF i <= Remaining % Len(batch) THEN 1 ELSE 0
    OBVIOUS
  <2>7. AttemptShare(i, Len(batch)) = (Len(context.attempts) + q) + one
    BY <2>3, <2>6 DEF AttemptShare
  <2>8. PICK len \in Nat : len = Len(context.attempts)
    BY <1>1, ContextHas
  <2>9. len < (len + q) + one
    BY <2>4
  <2> QED
    BY <2>5, <2>7, <2>8, <2>9
<1> QED
  BY <1>1, <1>2, <1>4 DEF BatchInv, BranchesInv

\* A branch steps: the others, and what execute() knows, are as they were.
LEMMA SetKeepsInv ==
    ASSUME EngineInv, NEW i \in LiveBranches, NEW n, Set(i, n),
           BranchInv(n, plan, context.attempts, expired /\ Len(batch) = 1),
           SameSlot(n, batch[i]), n.pc = "cancelled" => batch[i].cancelling
    PROVE  EngineInv'
<1>1. InFlight /\ i \in DOMAIN batch /\ TypeInv /\ ContextInv /\ BatchInv /\ CollectInv
      /\ batch[i].pc \notin Settled
  BY LiveBranchHas DEF EngineInv
<1>2. batch \in Seq(Branch) /\ n \in Branch /\ Typed(n, plan)
  BY <1>1 DEF TypeInv, BranchInv, Typed
<1>3. UNCHANGED <<plan, budget, pc, index, completed, flags, context, expired, status>>
  BY DEF Set
<1>4. /\ batch' \in Seq(Branch) /\ Len(batch') = Len(batch) /\ DOMAIN batch' = DOMAIN batch
      /\ \A j \in DOMAIN batch : batch'[j] = IF j = i THEN n ELSE batch[j]
  BY <1>1, <1>2 DEF Set
<1>5. TypeInv'
  BY <1>1, <1>2, <1>3, <1>4 DEF TypeInv
<1>6. ContextInv'
  BY <1>1, <1>3 DEF ContextInv
<1>7. \A j \in DOMAIN batch : batch'[j].budget = batch[j].budget /\ batch'[j].node = batch[j].node
  BY <1>1, <1>4 DEF SameSlot
<1>8. BatchInv'
  <2>1. BranchesInv'
    BY <1>1, <1>3, <1>4 DEF BatchInv, BranchesInv
  <2>2. SharesInv'
    BY <1>1, <1>3, <1>4, <1>7 DEF BatchInv, SharesInv, AttemptShare, Remaining
  <2>3. ApartInv'
    BY <1>1, <1>3, <1>4, <1>7 DEF BatchInv, ApartInv, Remaining
  <2>4. NeededInv'
    BY <1>1, <1>3, <1>4, <1>7 DEF BatchInv, NeededInv
  <2> QED
    BY <1>1, <1>3, <1>4, <2>1, <2>2, <2>3, <2>4 DEF BatchInv
<1>9. CollectInv'
  <2>1. ASSUME pc = "executing" PROVE ExecutingInv'
    <3>1. ExecutingInv
      BY <1>1, <2>1 DEF CollectInv
    <3>2. batch[i].cancelling = FALSE /\ batch[i].collected # TRUE
      BY <1>1, <3>1 DEF ExecutingInv, NothingStops, Settled
    <3>3. n.cancelling = FALSE /\ n.collected # TRUE /\ n.pc # "cancelled"
      BY <3>2 DEF SameSlot
    <3> QED
      BY <1>3, <1>4, <3>1, <3>3 DEF ExecutingInv
  <2>2. StoppingInv => StoppingInv'
    BY <1>1, <1>4 DEF StoppingInv, SameSlot
  <2> QED
    BY <1>1, <1>3, <1>4, <2>1, <2>2 DEF CollectInv, InFlight
<1> QED
  BY <1>5, <1>6, <1>8, <1>9 DEF EngineInv

----------------------------------------------------------------------------
(* The steps of a branch *)

\* A branch on the move, with the attempts it has.
Placed(b, there) == [b EXCEPT !.pc = there]
MayBe(b, p, there) ==
    /\ ~p[b.node].logs => Closed(b.context.attempts)
    /\ there \notin {"backoff", "crashed"} => Closed(b.context.attempts)
    /\ there = "backoff" => b.tries < p[b.node].retries /\ p[b.node].approval # "missing"
    /\ there \in {"reporting", "returned"} => b.result # "none"

\* A branch may go where its attempts and its budget allow.
LEMMA PlacedIsGood ==
    ASSUME NEW b, NEW p, NEW base, NEW late, NEW there \in BranchPcs \ {"adapter"},
           Typed(b, p), Copy(b, base), MayBe(b, p, there),
           Len(b.context.attempts) <= b.budget \/ (late /\ Late(b) /\ there \in Settled),
           NEW n, n = Placed(b, there)
    PROVE  /\ BranchInv(n, p, base, late) /\ SameSlot(n, b) /\ n.pc = there
           /\ n.context = b.context /\ n.result = b.result
<1>1. /\ n \in Branch /\ n.context = b.context /\ SameSlot(n, b) /\ n.node = b.node /\ n.budget = b.budget
      /\ n.pc = there /\ n.own = b.own /\ n.tries = b.tries /\ n.result = b.result
  BY DEF Typed, Placed, Branch, SameSlot
<1>2. Typed(n, p) /\ Copy(n, base)
  BY <1>1 DEF Typed, Copy
<1>3. AttemptsInv(n, late)
  BY <1>1 DEF AttemptsInv, MayBe, Late
<1>4. StageInv(n, p)
  BY <1>1 DEF StageInv, MayBe
<1> QED
  BY <1>1, <1>2, <1>3, <1>4 DEF BranchInv

\* Before it reports, a branch has kept to its share.
LEMMA LiveIsCalm ==
    ASSUME EngineInv, NEW i \in LiveBranches, batch[i].pc # "reporting"
    PROVE  /\ Calm(batch[i], plan, context.attempts)
           /\ batch[i].pc \in {"created", "starting"} => Closed(batch[i].context.attempts)
<1>1. /\ BranchInv(batch[i], plan, context.attempts, expired /\ Len(batch) = 1)
      /\ batch[i].pc \notin Settled
  BY LiveBranchHas
<1>2. Len(batch[i].context.attempts) <= batch[i].budget
  BY <1>1 DEF BranchInv, AttemptsInv, Late
<1> QED
  BY <1>1, <1>2 DEF BranchInv, Calm, AttemptsInv, StageInv

\* A branch that runs has not settled.
LEMMA RunsHas ==
    ASSUME TypeInv, NEW i, NEW here, here \cap Settled = {}, Runs(i, here)
    PROVE  i \in LiveBranches /\ batch[i].pc \in here
  BY DEF Runs, LiveBranches

\* A branch takes its first step.
LEMMA BeginKeepsInv ==
    ASSUME EngineInv, NEW i, BranchBegin(i)
    PROVE  EngineInv'
<1>1. i \in LiveBranches /\ batch[i].pc = "created"
  BY RunsHas DEF BranchBegin, EngineInv, Settled
<1>2. PICK b : b = batch[i]
  OBVIOUS
<1>3. PICK base : base = context.attempts
  OBVIOUS
<1>4. PICK late : late = (expired /\ Len(batch) = 1)
  OBVIOUS
<1>5. /\ Typed(b, plan) /\ Copy(b, base) /\ Len(b.context.attempts) <= b.budget
      /\ Closed(b.context.attempts)
  BY <1>1, <1>2, <1>3, LiveIsCalm DEF Calm
<1>6. CASE plan[b.node].adapter
  <2>1. PICK n : n = Placed(b, "starting")
    OBVIOUS
  <2>2. "starting" \in BranchPcs \ {"adapter"} /\ MayBe(b, plan, "starting")
    BY <1>5 DEF BranchPcs, MayBe
  <2>3. BranchInv(n, plan, base, late) /\ SameSlot(n, b) /\ n.pc = "starting"
    BY <1>5, <2>1, <2>2, PlacedIsGood
  <2>4. Set(i, n)
    BY <1>2, <1>6, <2>1 DEF BranchBegin, Node, Placed
  <2> QED
    BY <1>1, <1>2, <1>3, <1>4, <2>3, <2>4, SetKeepsInv
<1>7. CASE ~plan[b.node].adapter
  <2>1. PICK m : m = Moved(b, "created", "dependency_missing")
    OBVIOUS
  <2>2. b \in Branch /\ "created" \in BranchPcs /\ "dependency_missing" \in Failures \cup {"none", "completed"}
    BY <1>5 DEF Typed, BranchPcs, Failures
  <2>3. /\ m \in Branch /\ m.context = b.context /\ SameSlot(m, b) /\ m.node = b.node /\ m.budget = b.budget
        /\ m.own = b.own /\ m.tries = b.tries /\ m.result = "dependency_missing"
    BY <2>1, <2>2, WithPc DEF SameSlot
  <2>4. PICK n : n = Placed(m, "returned")
    OBVIOUS
  <2>5. /\ "returned" \in BranchPcs \ {"adapter"} /\ MayBe(m, plan, "returned")
        /\ Typed(m, plan) /\ Copy(m, base) /\ Len(m.context.attempts) <= m.budget
    BY <1>5, <2>3 DEF BranchPcs, MayBe, Settled, Typed, Copy
  <2>6. BranchInv(n, plan, base, late) /\ SameSlot(n, m) /\ n.pc = "returned"
    BY <2>4, <2>5, PlacedIsGood
  <2>7. n = [b EXCEPT !.pc = "returned", !.result = "dependency_missing"]
    BY <2>1, <2>4 DEF Moved, Placed
  <2>8. Set(i, n) /\ SameSlot(n, b)
    BY <1>2, <1>7, <2>3, <2>6, <2>7 DEF BranchBegin, Node, SameSlot
  <2> QED
    BY <1>1, <1>2, <1>3, <1>4, <2>6, <2>8, SetKeepsInv
<1> QED
  BY <1>6, <1>7

\* A branch enters its adapter, with budget left for an attempt.
LEMMA EnterKeepsInv ==
    ASSUME EngineInv, NEW i, BranchEnter(i)
    PROVE  EngineInv'
<1>1. i \in LiveBranches /\ batch[i].pc = "starting"
  BY RunsHas DEF BranchEnter, EngineInv, Settled
<1>2. PICK b : b = batch[i]
  OBVIOUS
<1>3. PICK base : base = context.attempts
  OBVIOUS
<1>4. PICK late : late = (expired /\ Len(batch) = 1)
  OBVIOUS
<1>5. Calm(b, plan, base) /\ base \in Seq(Statuses)
  BY <1>1, <1>2, <1>3, LiveIsCalm, ContextHas DEF EngineInv
<1>6. Typed(b, plan) /\ Copy(b, base) /\ Len(b.context.attempts) <= b.budget
  BY <1>5 DEF Calm
<1>7. CASE plan[b.node].approval = "missing"
  <2>1. PICK n : n = Handled(b, "policy_blocked")
    OBVIOUS
  <2>2. "policy_blocked" \in Failures
    BY DEF Failures, StopKinds
  <2>3. BranchInv(n, plan, base, late) /\ SameSlot(n, b) /\ n.pc = "reporting"
    BY <1>5, <1>6, <2>1, <2>2, HandledIsGood
  <2>4. Set(i, n)
    BY <1>2, <1>7, <2>1 DEF BranchEnter, Node
  <2> QED
    BY <1>1, <1>2, <1>3, <1>4, <2>3, <2>4, SetKeepsInv
<1>8. CASE plan[b.node].approval # "missing" /\ expired
  <2>1. PICK n : n = DeadlineHandled(b)
    OBVIOUS
  <2>2. late \/ Len(base) < b.budget
    BY <1>1, <1>2, <1>3, <1>4, <1>8, LiveBranchHas
  <2>3. BranchInv(n, plan, base, late) /\ SameSlot(n, b) /\ n.pc = "reporting"
    BY <1>3, <1>5, <2>1, <2>2, DeadlineIsGood
  <2>4. Set(i, n)
    BY <1>2, <1>8, <2>1 DEF BranchEnter, Node
  <2> QED
    BY <1>1, <1>2, <1>3, <1>4, <2>3, <2>4, SetKeepsInv
<1>9. CASE plan[b.node].approval # "missing" /\ ~expired
  <2>1. PICK n : n = Try(b)
    OBVIOUS
  <2>2. BranchInv(n, plan, base, late) /\ SameSlot(n, b) /\ n.pc \notin Settled
    BY <1>5, <1>9, <2>1, TryIsGood
  <2>3. Set(i, n)
    BY <1>2, <1>9, <2>1 DEF BranchEnter, Node
  <2> QED
    BY <1>1, <1>2, <1>3, <1>4, <2>2, <2>3, SetKeepsInv DEF Settled
<1> QED
  BY <1>7, <1>8, <1>9

Grown(att, s) == Append(att, s)
\* One more attempt keeps the ones before it.
LEMMA AppendIs ==
    ASSUME NEW base \in Seq(Statuses), NEW att \in Seq(Statuses), Extends(base, att), NEW s \in Statuses,
           NEW new, new = Grown(att, s)
    PROVE  /\ new \in Seq(Statuses) /\ Len(new) = Len(att) + 1 /\ Len(new) > Len(base)
           /\ new[Len(new)] = s /\ Extends(base, new)
<1>1. new \in Seq(Statuses) /\ Len(new) = Len(att) + 1 /\ new[Len(att) + 1] = s
  BY DEF Grown
<1>2. \A k \in 1..Len(att) : new[k] = att[k]
  BY DEF Grown
<1>3. Len(base) \in Nat /\ Len(att) \in Nat /\ Len(base) <= Len(att)
  BY DEF Extends
<1> QED
  BY <1>1, <1>2, <1>3 DEF Extends

\* What the adapter of a branch finds when it runs.
LEMMA AdapterHas ==
    ASSUME EngineInv, NEW i, Runs(i, {"adapter"}), NEW b, b = batch[i], NEW base, base = context.attempts,
           NEW late, late = (expired /\ Len(batch) = 1)
    PROVE  /\ i \in LiveBranches /\ b.pc = "adapter" /\ base \in Seq(Statuses)
           /\ BranchInv(b, plan, base, late) /\ Calm(b, plan, base)
           /\ b \in Branch /\ b.context.attempts \in Seq(Statuses) /\ Len(b.context.attempts) \in Nat
           /\ Extends(base, b.context.attempts)
<1>1. i \in LiveBranches /\ batch[i].pc = "adapter"
  BY RunsHas DEF EngineInv, Settled
<1>2. BranchInv(b, plan, base, late) /\ Calm(b, plan, base) /\ base \in Seq(Statuses)
  BY <1>1, LiveBranchHas, LiveIsCalm, ContextHas DEF EngineInv
<1>3. b \in Branch /\ Copy(b, base)
  BY <1>2 DEF BranchInv, Typed
<1> QED
  BY <1>1, <1>2, <1>3, BranchHas DEF Copy

\* An adapter begins an attempt only within its branch's budget.
LEMMA BeginAttemptKeepsInv ==
    ASSUME EngineInv, NEW i, BeginAttempt(i)
    PROVE  EngineInv'
<1>1. PICK b : b = batch[i]
  OBVIOUS
<1>2. PICK base : base = context.attempts
  OBVIOUS
<1>3. PICK late : late = (expired /\ Len(batch) = 1)
  OBVIOUS
<1>4. /\ i \in LiveBranches /\ b.pc = "adapter" /\ base \in Seq(Statuses)
      /\ BranchInv(b, plan, base, late) /\ b \in Branch /\ Extends(base, b.context.attempts)
  BY <1>1, <1>2, <1>3, AdapterHas DEF BeginAttempt
<1>5. PICK att \in Seq(Statuses) : att = b.context.attempts
  BY <1>4, BranchHas
<1>6. b.own = 0 /\ Len(att) < b.budget /\ plan[b.node].logs /\ Len(att) \in Nat /\ b.budget \in Nat
  BY <1>1, <1>4, <1>5, BranchHas DEF BeginAttempt, Node, BranchInv, AttemptsInv
<1>7. PICK new : new = Grown(att, "RUNNING")
  OBVIOUS
<1>8. /\ new \in Seq(Statuses) /\ Len(new) = Len(att) + 1 /\ Len(new) > Len(base) /\ Extends(base, new)
  <2>1. "RUNNING" \in Statuses /\ Extends(base, att)
    BY <1>4, <1>5 DEF Statuses
  <2> QED
    BY <1>4, <1>7, <2>1, AppendIs
<1>9. PICK m : m = Marked(b, new)
  OBVIOUS
<1>10. /\ m \in Branch /\ m.context.attempts = new /\ SameSlot(m, b)
       /\ m.pc = b.pc /\ m.tries = b.tries /\ m.result = b.result
  BY <1>4, <1>8, <1>9, WithAttempts
<1>11. PICK k \in Nat : k = Len(att) + 1
  BY <1>6
<1>12. PICK n : n = [m EXCEPT !.own = k]
  OBVIOUS
<1>13. /\ n \in Branch /\ n.context.attempts = new /\ SameSlot(n, b) /\ n.node = b.node /\ n.budget = b.budget
       /\ n.pc = "adapter" /\ n.own = k /\ n.tries = b.tries
  BY <1>4, <1>10, <1>12 DEF Branch, SameSlot
<1>14. k = Len(new) /\ k > Len(base) /\ k # 0 /\ k <= b.budget
  BY <1>6, <1>8, <1>11
<1>15. Typed(n, plan) /\ Copy(n, base)
  BY <1>4, <1>6, <1>8, <1>13, <1>14 DEF BranchInv, Typed, Copy
<1>16. AttemptsInv(n, late) /\ StageInv(n, plan)
  BY <1>4, <1>6, <1>13, <1>14 DEF BranchInv, AttemptsInv, StageInv
<1>17. Set(i, n)
  <2>1. n = [b EXCEPT !.context.attempts = Append(@, "RUNNING"), !.own = Len(b.context.attempts) + 1]
    BY <1>5, <1>7, <1>9, <1>11, <1>12 DEF Marked, Grown
  <2> QED
    BY <1>1, <2>1 DEF BeginAttempt
<1> QED
  BY <1>1, <1>2, <1>3, <1>4, <1>13, <1>15, <1>16, <1>17, SetKeepsInv DEF BranchInv

\* So does one that makes sub-attempts: a crawl's pages, URL variants.
LEMMA SubAttemptKeepsInv ==
    ASSUME EngineInv, NEW i, NEW s \in {"SUCCEEDED", "FAILED"}, SubAttempt(i, s)
    PROVE  EngineInv'
<1>1. PICK b : b = batch[i]
  OBVIOUS
<1>2. PICK base : base = context.attempts
  OBVIOUS
<1>3. PICK late : late = (expired /\ Len(batch) = 1)
  OBVIOUS
<1>4. /\ i \in LiveBranches /\ b.pc = "adapter" /\ base \in Seq(Statuses)
      /\ BranchInv(b, plan, base, late) /\ b \in Branch /\ Extends(base, b.context.attempts)
  BY <1>1, <1>2, <1>3, AdapterHas DEF SubAttempt
<1>5. PICK att \in Seq(Statuses) : att = b.context.attempts
  BY <1>4, BranchHas
<1>6. b.own # 0 /\ Len(att) < b.budget /\ Len(att) \in Nat /\ b.budget \in Nat /\ b.own \in Nat
  BY <1>1, <1>4, <1>5, BranchHas DEF SubAttempt
<1>7. PICK new : new = Grown(att, s)
  OBVIOUS
<1>8. /\ new \in Seq(Statuses) /\ Len(new) = Len(att) + 1 /\ Len(new) > Len(base) /\ Extends(base, new)
      /\ new[Len(new)] = s /\ s # "RUNNING"
  <2>1. s \in Statuses /\ Extends(base, att)
    BY <1>4, <1>5 DEF Statuses
  <2>2. /\ new \in Seq(Statuses) /\ Len(new) = Len(att) + 1 /\ Len(new) > Len(base)
        /\ new[Len(new)] = s /\ Extends(base, new)
    BY <1>4, <1>7, <2>1, AppendIs
  <2> QED
    BY <2>2
<1>9. PICK n : n = Marked(b, new)
  OBVIOUS
<1>10. /\ n \in Branch /\ n.context.attempts = new /\ SameSlot(n, b) /\ n.node = b.node /\ n.budget = b.budget
       /\ n.pc = "adapter" /\ n.own = b.own /\ n.tries = b.tries
  BY <1>4, <1>8, <1>9, WithAttempts DEF SameSlot
<1>11. Closed(new) /\ Len(new) <= b.budget /\ b.own <= Len(new)
  <2>1. b.own <= Len(att)
    BY <1>4, <1>5 DEF BranchInv, Typed
  <2> QED
    BY <1>6, <1>8, <2>1 DEF Closed
<1>12. Typed(n, plan) /\ Copy(n, base)
  BY <1>4, <1>8, <1>10, <1>11 DEF BranchInv, Typed, Copy
<1>13. AttemptsInv(n, late) /\ StageInv(n, plan)
  BY <1>4, <1>6, <1>10, <1>11 DEF BranchInv, AttemptsInv, StageInv
<1>14. Set(i, n)
  BY <1>1, <1>5, <1>7, <1>9 DEF SubAttempt, Marked, Grown
<1> QED
  BY <1>1, <1>2, <1>3, <1>4, <1>10, <1>12, <1>13, <1>14, SetKeepsInv DEF BranchInv

\* An adapter stores an artifact and leaves the attempts alone.
LEMMA StoresKeepsInv ==
    ASSUME EngineInv, NEW i, NEW a \in BOOLEAN, AdapterStores(i, a)
    PROVE  EngineInv'
<1>1. PICK b : b = batch[i]
  OBVIOUS
<1>2. PICK base : base = context.attempts
  OBVIOUS
<1>3. PICK late : late = (expired /\ Len(batch) = 1)
  OBVIOUS
<1>4. /\ i \in LiveBranches /\ b.pc = "adapter" /\ base \in Seq(Statuses)
      /\ BranchInv(b, plan, base, late) /\ b \in Branch
  BY <1>1, <1>2, <1>3, AdapterHas DEF AdapterStores
<1>5. b.context \in Contexts
  BY <1>4, BranchHas
<1>6. PICK yes \in BOOLEAN, acc \in BOOLEAN : yes = TRUE /\ acc = (b.context.accepted \/ a)
  BY <1>5, Zenon DEF Contexts
<1>7. PICK c : c = [b.context EXCEPT !.artifacts = yes, !.accepted = acc]
  OBVIOUS
<1>8. c \in Contexts /\ c.attempts = b.context.attempts
  BY <1>5, <1>7 DEF Contexts
<1>9. PICK n : n = [b EXCEPT !.context = c]
  OBVIOUS
<1>10. /\ n \in Branch /\ n.context.attempts = b.context.attempts /\ SameSlot(n, b)
       /\ n.node = b.node /\ n.budget = b.budget
       /\ n.pc = b.pc /\ n.own = b.own /\ n.tries = b.tries /\ n.result = b.result
  BY <1>4, <1>8, <1>9 DEF Branch, SameSlot
<1>11. BranchInv(n, plan, base, late)
  BY <1>4, <1>10 DEF BranchInv, Typed, Copy, AttemptsInv, StageInv, Late
<1>12. Set(i, n)
  <2>1. n = [b EXCEPT !.context.artifacts = TRUE, !.context.accepted = @ \/ a]
    BY <1>6, <1>7, <1>9
  <2> QED
    BY <1>1, <2>1 DEF AdapterStores
<1> QED
  BY <1>1, <1>2, <1>3, <1>4, <1>10, <1>11, <1>12, SetKeepsInv

\* An adapter returns with its attempt settled.
LEMMA ReturnsKeepsInv ==
    ASSUME EngineInv, NEW i, AdapterReturns(i)
    PROVE  EngineInv'
<1>1. PICK b : b = batch[i]
  OBVIOUS
<1>2. PICK base : base = context.attempts
  OBVIOUS
<1>3. PICK late : late = (expired /\ Len(batch) = 1)
  OBVIOUS
<1>4. /\ i \in LiveBranches /\ b.pc = "adapter" /\ base \in Seq(Statuses) /\ Calm(b, plan, base)
      /\ BranchInv(b, plan, base, late) /\ b \in Branch
  BY <1>1, <1>2, <1>3, AdapterHas DEF AdapterReturns
<1>5. PICK m : m = SetOwn(b, "SUCCEEDED")
  OBVIOUS
<1>6. "SUCCEEDED" \in Statuses
  BY DEF Statuses
<1>7. /\ Calm(m, plan, base) /\ SameSlot(m, b) /\ OwnIs(m, b, "SUCCEEDED")
      /\ Len(m.context.attempts) = Len(b.context.attempts)
  BY <1>4, <1>5, <1>6, SetOwnIsCalm
<1>8. Closed(m.context.attempts)
  <2>1. PICK att \in Seq(Statuses), new \in Seq(Statuses), own \in Nat :
           att = b.context.attempts /\ new = m.context.attempts /\ own = b.own
    BY <1>4, <1>7, BranchHas DEF Calm, Typed
  <2>2. own = 0 => Closed(att)
    BY <1>1, <1>4, <2>1 DEF AdapterReturns, Node, BranchInv, StageInv
  <2>3. own \notin {0, Len(att)} => Closed(att)
    BY <1>4, <2>1 DEF BranchInv, AttemptsInv
  <2>4. own <= Len(att) /\ Len(att) = Len(new) /\ (own # 0 => new[own] = "SUCCEEDED")
        /\ \A k \in 1..Len(att) : k # own => new[k] = att[k]
    BY <1>4, <1>7, <2>1 DEF BranchInv, Typed, OwnIs
  <2>5. CASE own = 0
    BY <1>7, <2>1, <2>2, <2>5 DEF OwnIs
  <2>6. CASE own # 0 /\ own = Len(att)
    BY <2>4, <2>6, <2>1 DEF Closed
  <2>7. CASE own # 0 /\ own # Len(att)
    <3>1. Len(att) \in 1..Len(att) /\ Closed(att)
      BY <2>3, <2>4, <2>7
    <3>2. new[Len(new)] = att[Len(att)] /\ att[Len(att)] # "RUNNING"
      BY <2>4, <2>7, <3>1 DEF Closed
    <3> QED
      BY <2>1, <3>2 DEF Closed
  <2> QED
    BY <2>5, <2>6, <2>7
<1>9. PICK n : n = Moved(m, "reporting", "completed")
  OBVIOUS
<1>10. /\ n \in Branch /\ n.context = m.context /\ SameSlot(n, m) /\ n.node = m.node /\ n.budget = m.budget
       /\ n.pc = "reporting" /\ n.own = m.own /\ n.tries = m.tries /\ n.result = "completed"
  <2>1. "reporting" \in BranchPcs /\ "completed" \in Failures \cup {"none", "completed"} /\ m \in Branch
    BY <1>7 DEF BranchPcs, Calm, Typed
  <2> QED
    BY <1>9, <2>1, WithPc DEF SameSlot
<1>11. Typed(n, plan) /\ Copy(n, base)
  BY <1>7, <1>10 DEF Calm, Typed, Copy
<1>12. AttemptsInv(n, late) /\ StageInv(n, plan)
  BY <1>7, <1>8, <1>10 DEF Calm, AttemptsInv, StageInv
<1>13. Set(i, n) /\ SameSlot(n, b)
  BY <1>1, <1>5, <1>7, <1>9, <1>10 DEF AdapterReturns, Moved, SameSlot
<1> QED
  BY <1>1, <1>2, <1>3, <1>4, <1>10, <1>11, <1>12, <1>13, SetKeepsInv DEF BranchInv

\* The types of a node's fields.
LEMMA NodeHas ==
    ASSUME TypeInv, NEW k \in DOMAIN plan
    PROVE  plan[k] \in NodeSet /\ plan[k].retries \in Nat /\ plan[k].fallback \in BOOLEAN
<1>1. plan[k] \in NodeSet
  BY PlansAssumption DEF TypeInv
<1> QED
  BY <1>1 DEF NodeSet

\* An adapter raises: its attempt is settled, then retried or reported.
LEMMA RaisesKeepsInv ==
    ASSUME EngineInv, NEW i, NEW kind \in Errors, AdapterRaises(i, kind)
    PROVE  EngineInv'
<1>1. PICK b : b = batch[i]
  OBVIOUS
<1>2. PICK base : base = context.attempts
  OBVIOUS
<1>3. PICK late : late = (expired /\ Len(batch) = 1)
  OBVIOUS
<1>4. /\ i \in LiveBranches /\ b.pc = "adapter" /\ base \in Seq(Statuses) /\ Calm(b, plan, base)
      /\ BranchInv(b, plan, base, late)
  BY <1>1, <1>2, <1>3, AdapterHas DEF AdapterRaises
<1>5. PICK m : m = Interrupted(b, "FAILED")
  OBVIOUS
<1>6. Calm(m, plan, base) /\ SameSlot(m, b) /\ m.tries = b.tries
  <2>1. "FAILED" \in Statuses
    BY DEF Statuses
  <2> QED
    BY <1>4, <1>5, <2>1, InterruptedIsCalm
<1>7. /\ Typed(m, plan) /\ Copy(m, base) /\ Len(m.context.attempts) <= m.budget /\ m.node = b.node
      /\ ~plan[m.node].logs => Closed(m.context.attempts)
  BY <1>6 DEF Calm, SameSlot
<1>8. ASSUME NEW k \in Failures, Set(i, Handled(m, k)) PROVE EngineInv'
  <2>1. PICK n : n = Handled(m, k)
    OBVIOUS
  <2>2. BranchInv(n, plan, base, late) /\ SameSlot(n, m) /\ n.pc = "reporting"
    BY <1>4, <1>7, <2>1, HandledIsGood
  <2>3. SameSlot(n, b)
    BY <1>6, <2>2 DEF SameSlot
  <2> QED
    BY <1>1, <1>2, <1>3, <1>4, <1>8, <2>1, <2>2, <2>3, SetKeepsInv
<1>9. CASE kind # "retryable"
  <2>1. kind \in Failures
    BY <1>9, PlansAssumption
  <2>2. Set(i, Handled(m, kind))
    BY <1>1, <1>5, <1>9 DEF AdapterRaises
  <2> QED
    BY <1>8, <2>1, <2>2
<1>10. CASE kind = "retryable" /\ m.tries >= plan[m.node].retries
  <2>1. "failed" \in Failures
    BY DEF Failures
  <2>2. Set(i, Handled(m, "failed"))
    BY <1>1, <1>5, <1>10 DEF AdapterRaises, Node
  <2> QED
    BY <1>8, <2>1, <2>2
<1>11. CASE kind = "retryable" /\ ~(m.tries >= plan[m.node].retries)
  <2>1. PICK n : n = Placed(m, "backoff")
    OBVIOUS
  <2>2. plan[m.node].retries \in Nat /\ m.tries \in Nat
    BY <1>7, BranchHas, NodeHas DEF Typed, EngineInv
  <2>3. m.tries < plan[m.node].retries /\ plan[m.node].approval # "missing"
    BY <1>4, <1>7, <1>11, <2>2 DEF BranchInv, StageInv
  <2>4. "backoff" \in BranchPcs \ {"adapter"} /\ MayBe(m, plan, "backoff")
    BY <1>7, <2>3 DEF BranchPcs, MayBe
  <2>5. BranchInv(n, plan, base, late) /\ SameSlot(n, m) /\ n.pc = "backoff"
    BY <1>7, <2>1, <2>4, PlacedIsGood
  <2>6. SameSlot(n, b)
    BY <1>6, <2>5 DEF SameSlot
  <2>7. Set(i, n)
    BY <1>1, <1>5, <1>11, <2>1 DEF AdapterRaises, Node, Placed
  <2> QED
    BY <1>1, <1>2, <1>3, <1>4, <2>5, <2>6, <2>7, SetKeepsInv
<1> QED
  BY <1>9, <1>10, <1>11

Again(b, more) == [b EXCEPT !.tries = more]
\* A retry begins after its backoff, when the budget has room for it.
LEMMA RetryKeepsInv ==
    ASSUME EngineInv, NEW i, Retry(i)
    PROVE  EngineInv'
<1>1. PICK b : b = batch[i]
  OBVIOUS
<1>2. PICK base : base = context.attempts
  OBVIOUS
<1>3. PICK late : late = (expired /\ Len(batch) = 1)
  OBVIOUS
<1>4. /\ i \in LiveBranches /\ b.pc = "backoff" /\ base \in Seq(Statuses) /\ Calm(b, plan, base)
      /\ BranchInv(b, plan, base, late)
  <2>1. i \in LiveBranches /\ b.pc = "backoff"
    BY <1>1, RunsHas DEF EngineInv, Settled, Retry
  <2> QED
    BY <1>1, <1>2, <1>3, <2>1, LiveBranchHas, LiveIsCalm, ContextHas DEF EngineInv
<1>5. b \in Branch /\ plan[b.node].retries \in Nat /\ b.tries \in Nat
  BY <1>4, BranchHas, NodeHas DEF Calm, Typed, EngineInv
<1>6. PICK more \in Nat : more = b.tries + 1
  BY <1>5
<1>7. PICK m : m = Again(b, more)
  OBVIOUS
<1>8. /\ m \in Branch /\ m.context = b.context /\ SameSlot(m, b) /\ m.node = b.node /\ m.budget = b.budget
      /\ m.pc = b.pc /\ m.own = b.own /\ m.tries = more /\ m.result = b.result
  BY <1>5, <1>7 DEF Again, Branch, SameSlot
<1>9. more <= plan[b.node].retries /\ plan[b.node].approval # "missing"
  BY <1>4, <1>5, <1>6 DEF BranchInv, StageInv
<1>10. Calm(m, plan, base)
  BY <1>4, <1>8, <1>9 DEF Calm, Typed, Copy
<1>11. PICK n : n = Try(m)
  OBVIOUS
<1>12. BranchInv(n, plan, base, late) /\ SameSlot(n, m) /\ n.pc \notin Settled
  BY <1>4, <1>8, <1>9, <1>10, <1>11, TryIsGood
<1>13. Set(i, n) /\ SameSlot(n, b)
  <2>1. m = [b EXCEPT !.tries = @ + 1]
    BY <1>6, <1>7 DEF Again
  <2> QED
    BY <1>1, <1>8, <1>11, <1>12, <2>1 DEF Retry, SameSlot
<1> QED
  BY <1>1, <1>2, <1>3, <1>4, <1>12, <1>13, SetKeepsInv DEF Settled

\* The deadline adds one record, only when the branch is alone.
LEMMA DeadlineKeepsInv ==
    ASSUME EngineInv, NEW i, DeadlineHits(i)
    PROVE  EngineInv'
<1>1. PICK b : b = batch[i]
  OBVIOUS
<1>2. PICK base : base = context.attempts
  OBVIOUS
<1>3. PICK late : late = (expired /\ Len(batch) = 1)
  OBVIOUS
<1>4. /\ i \in LiveBranches /\ b.pc \in {"adapter", "backoff"} /\ base \in Seq(Statuses)
      /\ Calm(b, plan, base) /\ (late \/ Len(base) < b.budget)
  <2>1. i \in LiveBranches /\ b.pc \in {"adapter", "backoff"} /\ expired
    BY <1>1, RunsHas DEF EngineInv, Settled, DeadlineHits
  <2> QED
    BY <1>1, <1>2, <1>3, <2>1, LiveBranchHas, LiveIsCalm, ContextHas DEF EngineInv
<1>5. PICK m : m = Interrupted(b, "CANCELLED")
  OBVIOUS
<1>6. Calm(m, plan, base) /\ SameSlot(m, b)
  <2>1. "CANCELLED" \in Statuses
    BY DEF Statuses
  <2> QED
    BY <1>4, <1>5, <2>1, InterruptedIsCalm
<1>7. PICK n : n = DeadlineHandled(m)
  OBVIOUS
<1>8. late \/ Len(base) < m.budget
  BY <1>4, <1>6 DEF SameSlot
<1>9. BranchInv(n, plan, base, late) /\ SameSlot(n, m) /\ n.pc = "reporting"
  BY <1>2, <1>4, <1>6, <1>7, <1>8, DeadlineIsGood
<1>10. Set(i, n) /\ SameSlot(n, b)
  BY <1>1, <1>5, <1>6, <1>7, <1>9 DEF DeadlineHits, SameSlot
<1> QED
  BY <1>1, <1>2, <1>3, <1>4, <1>9, <1>10, SetKeepsInv

\* The last _emit returns, or an exception leaves _execute_node.
LEMMA SettleKeepsInv ==
    ASSUME EngineInv, NEW i, BranchReturns(i) \/ BranchCrashes(i)
    PROVE  EngineInv'
<1>1. PICK b : b = batch[i]
  OBVIOUS
<1>2. PICK base : base = context.attempts
  OBVIOUS
<1>3. PICK late : late = (expired /\ Len(batch) = 1)
  OBVIOUS
<1>4. PICK there : /\ Set(i, Placed(b, there)) /\ there \in {"returned", "crashed"}
                   /\ i \in LiveBranches /\ (there = "returned" => b.pc = "reporting")
  BY <1>1, RunsHas DEF EngineInv, Settled, BranchReturns, BranchCrashes, Placed
<1>5. BranchInv(b, plan, base, late)
  BY <1>1, <1>2, <1>3, <1>4, LiveBranchHas
<1>6. PICK n : n = Placed(b, there)
  OBVIOUS
<1>7. there \in BranchPcs \ {"adapter"} /\ there \in Settled /\ there # "cancelled"
  BY <1>4 DEF BranchPcs, Settled
<1>8. /\ Typed(b, plan) /\ Copy(b, base) /\ MayBe(b, plan, there)
      /\ Len(b.context.attempts) <= b.budget \/ (late /\ Late(b))
  BY <1>4, <1>5 DEF BranchInv, MayBe, AttemptsInv, StageInv
<1>9. BranchInv(n, plan, base, late) /\ SameSlot(n, b) /\ n.pc = there
  BY <1>6, <1>7, <1>8, PlacedIsGood
<1> QED
  BY <1>1, <1>2, <1>3, <1>4, <1>6, <1>7, <1>9, SetKeepsInv

\* A step after which every branch has as many attempts as before.
SameLengths ==
    /\ Len(batch') = Len(batch) /\ DOMAIN batch' = DOMAIN batch
    /\ \A j \in DOMAIN batch : Len(batch'[j].context.attempts) = Len(batch[j].context.attempts)

\* A cancelled branch settles what it has and makes no new attempt.
LEMMA CancelledKeepsInv ==
    ASSUME EngineInv, NEW i, BranchCancelled(i)
    PROVE  EngineInv' /\ SameLengths
<1>1. PICK b : b = batch[i]
  OBVIOUS
<1>2. PICK base : base = context.attempts
  OBVIOUS
<1>3. PICK late : late = (expired /\ Len(batch) = 1)
  OBVIOUS
<1>4. i \in LiveBranches /\ BranchInv(b, plan, base, late) /\ base \in Seq(Statuses) /\ b.pc \notin Settled
  BY <1>1, <1>2, <1>3, LiveBranchHas, ContextHas DEF BranchCancelled, EngineInv
<1>5. PICK m : m = Interrupted(b, "CANCELLED")
  OBVIOUS
<1>6. /\ Typed(m, plan) /\ Copy(m, base) /\ SameSlot(m, b) /\ m.pc = b.pc
      /\ Len(m.context.attempts) <= m.budget \/ (late /\ Late(m))
      /\ ~plan[m.node].logs => Closed(m.context.attempts)
      /\ m.pc \notin {"adapter", "backoff"} => Closed(m.context.attempts)
      /\ Len(m.context.attempts) = Len(b.context.attempts)
  <2>1. CASE b.pc = "adapter"
    <3>1. Calm(b, plan, base) /\ "CANCELLED" \in Statuses
      BY <1>1, <1>2, <1>4, <2>1, LiveIsCalm DEF Statuses
    <3>2. /\ Calm(m, plan, base) /\ SameSlot(m, b) /\ m.pc = b.pc
          /\ Len(m.context.attempts) = Len(b.context.attempts)
      BY <1>4, <1>5, <3>1, InterruptedIsCalm
    <3> QED
      BY <2>1, <3>2 DEF Calm
  <2>2. CASE b.pc # "adapter"
    <3>1. m = b
      BY <1>5, <2>2 DEF Interrupted
    <3>2. b.pc # "crashed"
      BY <1>4 DEF Settled
    <3> QED
      BY <1>4, <2>2, <3>1, <3>2 DEF BranchInv, AttemptsInv, StageInv, SameSlot
  <2> QED
    BY <2>1, <2>2
<1>7. PICK att \in Seq(Statuses) : att = m.context.attempts
  BY <1>6, BranchHas DEF Typed
<1>8. PICK new : new = IF m.pc \in {"adapter", "backoff"} THEN MarkRunning(att, "CANCELLED") ELSE att
  OBVIOUS
<1>9. new \in Seq(Statuses) /\ Len(new) = Len(att) /\ Closed(new) /\ Extends(base, new)
  <2>1. Extends(base, att) /\ (Closed(att) \/ Len(att) > Len(base)) /\ Len(base) \in Nat
    BY <1>4, <1>6, <1>7 DEF Copy
  <2>2. CASE m.pc \in {"adapter", "backoff"}
    <3>1. new = MarkRunning(att, "CANCELLED") /\ "CANCELLED" \in Statuses \ {"RUNNING"}
      BY <1>8, <2>2 DEF Statuses
    <3> QED
      BY <2>1, <3>1, MarkRunningIs
  <2>3. CASE m.pc \notin {"adapter", "backoff"}
    BY <1>6, <1>7, <1>8, <2>1, <2>3
  <2> QED
    BY <2>2, <2>3
<1>10. PICK y : y = Placed(m, "cancelled")
  OBVIOUS
<1>11. /\ y \in Branch /\ y.context = m.context /\ SameSlot(y, m) /\ y.pc = "cancelled"
       /\ y.own = m.own /\ y.tries = m.tries /\ y.result = m.result
  <2>1. m \in Branch /\ "cancelled" \in BranchPcs
    BY <1>6 DEF Typed, BranchPcs, Settled
  <2> QED
    BY <1>10, <2>1 DEF Placed, Branch, SameSlot
<1>12. PICK n : n = Marked(y, new)
  OBVIOUS
<1>13. /\ n \in Branch /\ n.context.attempts = new /\ SameSlot(n, y)
       /\ n.pc = y.pc /\ n.own = y.own /\ n.tries = y.tries /\ n.result = y.result
  BY <1>9, <1>11, <1>12, WithAttempts
<1>14. /\ n.node = m.node /\ n.budget = m.budget /\ n.pc = "cancelled"
       /\ n.own = m.own /\ n.tries = m.tries /\ n.result = m.result
  BY <1>11, <1>13 DEF SameSlot
<1>15. Typed(n, plan) /\ Copy(n, base)
  BY <1>6, <1>7, <1>9, <1>13, <1>14 DEF Typed, Copy
<1>16. AttemptsInv(n, late) /\ StageInv(n, plan)
  BY <1>6, <1>7, <1>9, <1>13, <1>14 DEF AttemptsInv, StageInv, Late, Settled
<1>17. SameSlot(n, b)
  BY <1>6, <1>11, <1>13 DEF SameSlot
<1>18. Set(i, n) /\ b.cancelling
  <2>1. y.context.attempts = att
    BY <1>7, <1>11
  <2>2. n = [y EXCEPT !.context.attempts = IF m.pc \in {"adapter", "backoff"}
                                           THEN MarkRunning(@, "CANCELLED") ELSE @]
    BY <1>8, <1>12, <2>1 DEF Marked
  <2>3. n = [m EXCEPT !.pc = "cancelled",
                      !.context.attempts = IF m.pc \in {"adapter", "backoff"}
                                           THEN MarkRunning(@, "CANCELLED") ELSE @]
    BY <1>10, <2>2 DEF Placed
  <2> QED
    BY <1>1, <1>5, <1>6, <2>3 DEF BranchCancelled, SameSlot
<1>19. SameLengths
  <2>1. batch \in Seq(Branch) /\ i \in DOMAIN batch /\ n \in Branch
    BY <1>4, <1>13 DEF EngineInv, TypeInv, LiveBranches
  <2>2. batch' = [batch EXCEPT ![i] = n]
    BY <1>18 DEF Set
  <2>3. /\ Len(batch') = Len(batch) /\ DOMAIN batch' = DOMAIN batch
        /\ \A j \in DOMAIN batch : batch'[j] = IF j = i THEN n ELSE batch[j]
    BY <2>1, <2>2
  <2>4. Len(n.context.attempts) = Len(batch[i].context.attempts)
    BY <1>1, <1>6, <1>7, <1>9, <1>13
  <2> QED
    BY <2>3, <2>4 DEF SameLengths
<1> QED
  BY <1>1, <1>2, <1>3, <1>4, <1>15, <1>16, <1>17, <1>18, <1>19, SetKeepsInv DEF BranchInv

----------------------------------------------------------------------------
(* The while loop *)

\* A node that is not ready, or a fallback not needed, is passed over.
LEMMA SkipKeepsInv ==
    ASSUME EngineInv, SkipNotReady \/ SkipFallback
    PROVE  EngineInv'
<1>1. /\ pc = "loop" /\ pc' = "loop" /\ index' = index + 1 /\ index <= Len(plan)
      /\ completed' \subseteq completed \cup {index}
      /\ UNCHANGED <<plan, budget, flags, context, batch, expired, status>>
  BY DEF SkipNotReady, SkipFallback, AtNode
<1>2. TypeInv /\ plan \in Seq(NodeSet)
  BY PlansAssumption DEF EngineInv, TypeInv
<1>3. index \in DOMAIN plan /\ index' \in 1..(Len(plan) + 1)
  BY <1>1, <1>2 DEF TypeInv
<1>4. TypeInv'
  BY <1>1, <1>2, <1>3 DEF TypeInv
<1>5. ContextInv' /\ CollectInv'
  BY <1>1 DEF EngineInv, ContextInv, CollectInv, OverInv
<1> QED
  BY <1>1, <1>4, <1>5 DEF EngineInv, InFlight

\* A set of naturals below a bound has a greatest element.
LEMMA GreatestNatural ==
    ASSUME NEW hi \in Nat, NEW S, S \subseteq 0..hi, S # {}
    PROVE  Max(S) \in S /\ \A y \in S : Max(S) >= y
<1>1. PICK T : T = {hi - x : x \in S}
  OBVIOUS
<1>2. T \subseteq Nat /\ T # {}
  <2>1. \A x \in S : hi - x \in Nat
    OBVIOUS
  <2>2. PICK x \in S : TRUE
    OBVIOUS
  <2>3. hi - x \in T
    BY <1>1, <2>2
  <2> QED
    BY <1>1, <2>1, <2>3
<1>3. PICK m \in T : \A k \in T : m <= k
  BY <1>2, LeastNatural
<1>4. PICK x \in S : m = hi - x
  BY <1>1
<1>5. \A y \in S : x >= y
  <2> TAKE y \in S
  <2>1. hi - y \in T
    BY <1>1
  <2>2. hi - x <= hi - y /\ x \in Nat /\ y \in Nat
    BY <1>3, <1>4, <2>1
  <2> QED
    BY <2>2
<1> QED
  BY <1>5 DEF Max

\* The lesser of two numbers.
LEMMA LesserOfTwo ==
    ASSUME NEW a \in Nat, NEW b \in Nat
    PROVE  Min({a, b}) \in {a, b} /\ Min({a, b}) <= a /\ Min({a, b}) <= b
<1>1. \E x \in {a, b} : \A y \in {a, b} : x <= y
  <2>1. CASE a <= b
    BY <2>1
  <2>2. CASE b <= a
    BY <2>2
  <2> QED
    BY <2>1, <2>2
<1> QED
  BY <1>1 DEF Min

\* The batch _parallel_batch forms.
LEMMA BatchSizeHas ==
    ASSUME EngineInv, AtNode, Ready(index), ~Unnecessary(index)
    PROVE  /\ BatchSize \in Nat /\ BatchSize > 0 /\ index + BatchSize <= Len(plan) + 1
           /\ BatchSize > 1 => /\ BatchSize <= Remaining
                               /\ \A k \in index..(index + BatchSize - 1) : plan[k].approval = "free"
           /\ \A k \in index..(index + BatchSize - 1) : ~Unnecessary(k)
<1>1. /\ TypeInv /\ index \in Nat /\ index > 0 /\ index <= Len(plan) /\ Len(plan) \in Nat
      /\ Len(context.attempts) <= budget
  BY PlansAssumption DEF EngineInv, TypeInv, AtNode, ContextInv
<1>2. Remaining \in Nat
  BY <1>1, RemainingIs
<1> DEFINE alone == plan[index].group = "none" \/ plan[index].approval # "free" \/ Remaining <= 1
<1>3. CASE alone
  <2>1. BatchSize = 1
    BY <1>3 DEF BatchSize
  <2>2. index..(index + 1 - 1) = {index}
    BY <1>1
  <2> QED
    BY <1>1, <2>1, <2>2
<1>4. CASE ~alone
  <2>1. PICK left \in Nat : left = Len(plan) - index + 1 /\ left > 0
    BY <1>1
  <2>2. PICK hi : hi = Min({Remaining, left})
    OBVIOUS
  <2>3. hi \in Nat /\ hi <= Remaining /\ hi <= left /\ hi > 0
    BY <1>2, <1>4, <2>1, <2>2, LesserOfTwo
  <2>4. PICK S : S = { n \in 1..hi : \A k \in index..(index + n - 1) : Joins(k) }
    OBVIOUS
  <2>5. 1 \in S
    <3>1. Joins(index) /\ index..(index + 1 - 1) = {index}
      BY <1>1, <1>4 DEF Joins
    <3>2. \A k \in index..(index + 1 - 1) : Joins(k)
      BY <3>1
    <3>3. 1 \in 1..hi
      BY <2>3
    <3> QED
      BY <2>4, <3>2, <3>3
  <2>6. Max(S) \in S
    <3>1. S \subseteq 0..hi /\ S # {}
      BY <2>3, <2>4, <2>5
    <3> QED
      BY <2>3, <3>1, GreatestNatural
  <2>7. BatchSize = Max(S)
    BY <1>4, <2>1, <2>2, <2>4 DEF BatchSize
  <2>8. PICK n \in 1..hi : n = BatchSize /\ \A k \in index..(index + n - 1) : Joins(k)
    BY <2>4, <2>6, <2>7
  <2>9. n \in Nat /\ n > 0 /\ n <= Remaining /\ index + n <= Len(plan) + 1
    BY <1>1, <1>2, <2>1, <2>3, <2>8
  <2>10. \A k \in index..(index + n - 1) : plan[k].approval = "free" /\ ~Unnecessary(k)
    BY <2>8 DEF Joins
  <2> QED
    BY <2>8, <2>9, <2>10
<1> QED
  BY <1>3, <1>4

\* The share of a branch starts at what the run has spent.
LEMMA ShareHas ==
    ASSUME EngineInv, AtNode, NEW n \in Nat, n > 0, NEW i \in 1..n
    PROVE  AttemptShare(i, n) \in Nat /\ Len(context.attempts) <= AttemptShare(i, n)
<1>1. TypeInv /\ Len(context.attempts) <= budget
  BY DEF EngineInv, ContextInv, AtNode
<1>2. PICK len \in Nat, left \in Nat : len = Len(context.attempts) /\ left = Remaining
  BY <1>1, ContextHas, RemainingIs
<1>3. PICK q \in Nat : q = left \div n
  <2>1. left \div n \in Nat
    OBVIOUS
  <2> QED
    BY <2>1
<1>4. PICK one \in {0, 1} : one = IF i <= left % n THEN 1 ELSE 0
  OBVIOUS
<1>5. AttemptShare(i, n) = (len + q) + one
  BY <1>2, <1>3, <1>4 DEF AttemptShare
<1>6. (len + q) + one \in Nat /\ len <= (len + q) + one
  OBVIOUS
<1> QED
  BY <1>2, <1>5, <1>6

Fresh(b, i, n) ==
    /\ b.node = index + i - 1 /\ b.budget = IF n = 1 THEN budget ELSE AttemptShare(i, n)
    /\ b.cancelling = FALSE /\ b.collected = FALSE /\ b.pc = "created"

\* A new branch has the run's attempts and its share of the budget.
LEMMA NewBranchIsGood ==
    ASSUME EngineInv, AtNode, NEW n \in Nat, n > 0, index + n <= Len(plan) + 1, NEW i \in 1..n,
           NEW late, NEW b, b = NewBranch(i, n)
    PROVE  BranchInv(b, plan, context.attempts, late) /\ Fresh(b, i, n)
<1>1. /\ TypeInv /\ index \in Nat /\ index > 0 /\ Len(plan) \in Nat /\ plan \in Seq(NodeSet)
      /\ Len(context.attempts) <= budget /\ Closed(context.attempts) /\ context \in Contexts
  BY PlansAssumption DEF EngineInv, TypeInv, AtNode, ContextInv
<1>2. PICK k \in DOMAIN plan : k = index + i - 1
  BY <1>1
<1>3. PICK share \in Nat : /\ share = IF n = 1 THEN budget ELSE AttemptShare(i, n)
                           /\ Len(context.attempts) <= share
  BY <1>1, ShareHas, ContextHas
<1>4. PICK no \in BOOLEAN : no = FALSE
  BY Zenon
<1>5. b = [ node |-> k, context |-> context, budget |-> share, pc |-> "created", own |-> 0,
            tries |-> 0, result |-> "none", cancelling |-> no, collected |-> no ]
  BY <1>2, <1>3, <1>4 DEF NewBranch
<1>6. "created" \in BranchPcs /\ "none" \in Failures \cup {"none", "completed"} /\ k \in Nat
  BY <1>1 DEF BranchPcs
<1>7. b \in Branch
  BY <1>1, <1>5, <1>6 DEF Branch
<1>8. Typed(b, plan)
  BY <1>1, <1>2, <1>5, <1>7, NodeHas, ContextHas DEF Typed
<1>9. Copy(b, context.attempts)
  BY <1>1, <1>5, ContextHas DEF Copy, Extends
<1>10. AttemptsInv(b, late) /\ StageInv(b, plan)
  BY <1>1, <1>3, <1>5 DEF AttemptsInv, StageInv
<1> QED
  BY <1>2, <1>3, <1>4, <1>5, <1>8, <1>9, <1>10 DEF BranchInv, Fresh

\* A batch starts, each branch with a share that fits.
LEMMA StartKeepsInv ==
    ASSUME EngineInv, StartBatch
    PROVE  EngineInv'
<1>1. AtNode /\ Ready(index) /\ ~Unnecessary(index) /\ pc' = "executing"
      /\ UNCHANGED <<plan, budget, index, completed, flags, context, expired, status>>
  BY DEF StartBatch
<1>2. PICK n \in Nat : n = BatchSize
  BY <1>1, BatchSizeHas
<1>3. n > 0 /\ index + n <= Len(plan) + 1
  BY <1>1, <1>2, BatchSizeHas
<1>4. batch' = [i \in 1..n |-> NewBranch(i, n)]
  BY <1>2 DEF StartBatch
<1>5. \A i \in 1..n : batch'[i] = NewBranch(i, n)
  BY <1>4
<1>6. \A i \in 1..n :
        /\ BranchInv(batch'[i], plan, context.attempts, expired /\ n = 1) /\ batch'[i].node = index + i - 1
        /\ batch'[i].budget = IF n = 1 THEN budget ELSE AttemptShare(i, n)
        /\ batch'[i].cancelling = FALSE /\ batch'[i].collected = FALSE /\ batch'[i].pc = "created"
  <2> TAKE i \in 1..n
  <2>1. PICK b : b = NewBranch(i, n)
    OBVIOUS
  <2>2. PICK late : late = (expired /\ n = 1)
    OBVIOUS
  <2>3. BranchInv(b, plan, context.attempts, late) /\ Fresh(b, i, n)
    BY <1>1, <1>3, <2>1, NewBranchIsGood
  <2>4. batch'[i] = b
    BY <1>5, <2>1
  <2> QED
    BY <2>2, <2>3, <2>4 DEF Fresh
<1>7. \A i \in 1..n : batch'[i] \in Branch /\ Typed(batch'[i], plan)
  BY <1>6 DEF BranchInv, Typed
<1>8. batch' \in Seq(Branch) /\ Len(batch') = n /\ DOMAIN batch' = 1..n
  <2>1. \A i \in 1..n : NewBranch(i, n) \in Branch
    BY <1>5, <1>7
  <2> QED
    BY <1>4, <2>1
<1>9. TypeInv /\ ContextInv /\ index \in Nat
  BY PlansAssumption DEF EngineInv, TypeInv
<1>10. TypeInv'
  BY <1>1, <1>7, <1>8, <1>9 DEF TypeInv
<1>11. ContextInv'
  BY <1>1, <1>9 DEF ContextInv, AtNode
<1>12. BatchInv'
  <2>1. BranchesInv'
    BY <1>1, <1>6, <1>8 DEF BranchesInv
  <2>2. SharesInv'
    BY <1>1, <1>6, <1>8 DEF SharesInv, AttemptShare, Remaining
  <2>3. \A i \in 1..n : index + i - 1 \in index..(index + n - 1)
    BY <1>9
  <2>4. ApartInv'
    <3>1. n > 1 => /\ n <= Remaining
                   /\ \A k \in index..(index + n - 1) : plan[k].approval = "free"
      BY <1>1, <1>2, BatchSizeHas
    <3>2. n > 1 => \A i \in 1..n : plan[batch'[i].node].approval = "free"
      BY <1>6, <2>3, <3>1
    <3> QED
      BY <1>1, <1>8, <3>1, <3>2 DEF ApartInv, Remaining
  <2>5. NeededInv'
    <3>1. \A k \in index..(index + n - 1) : ~Unnecessary(k)
      BY <1>1, <1>2, BatchSizeHas
    <3>2. context.accepted => \A i \in 1..n : ~plan[batch'[i].node].fallback
      BY <1>6, <2>3, <3>1 DEF Unnecessary
    <3> QED
      BY <1>1, <1>8, <3>2 DEF NeededInv
  <2> QED
    BY <1>1, <1>3, <1>8, <2>1, <2>2, <2>4, <2>5 DEF BatchInv
<1>13. CollectInv'
  <2>1. ExecutingInv'
    BY <1>6, <1>8 DEF ExecutingInv
  <2> QED
    BY <1>1, <2>1 DEF CollectInv
<1> QED
  BY <1>10, <1>11, <1>12, <1>13 DEF EngineInv

\* The walk ends.
LEMMA FinishKeepsInv ==
    ASSUME EngineInv, Finish
    PROVE  EngineInv'
<1>1. /\ pc \in {"stopped", "loop"} /\ pc' = "finished" /\ status' = Status
      /\ UNCHANGED <<plan, budget, index, completed, flags, context, batch, expired>>
  BY DEF Finish
<1>2. TypeInv /\ ContextInv /\ CollectInv
  BY DEF EngineInv
<1>3. Status \in {"none", "SUCCEEDED", "PARTIAL", "LOW_QUALITY", "FAILED",
                  "BLOCKED_BY_POLICY", "AUTH_REQUIRED", "NOT_FOUND",
                  "BUDGET_EXHAUSTED", "DEPENDENCY_MISSING"}
  BY DEF Status
<1>4. TypeInv'
  BY <1>1, <1>2, <1>3 DEF TypeInv, Ended
<1>5. ContextInv' /\ CollectInv'
  BY <1>1, <1>2 DEF ContextInv, CollectInv, OverInv
<1> QED
  BY <1>1, <1>4, <1>5 DEF EngineInv, InFlight

----------------------------------------------------------------------------
(* The collector *)

\* execute() reads or cancels branches: what they did is as it was.
SameWork(n, b) ==
    /\ n \in Branch /\ n.node = b.node /\ n.context = b.context /\ n.budget = b.budget
    /\ n.pc = b.pc /\ n.own = b.own /\ n.tries = b.tries /\ n.result = b.result

Reslotted(bs) ==
    /\ bs \in Seq(Branch) /\ Len(bs) = Len(batch) /\ DOMAIN bs = DOMAIN batch
    /\ \A i \in DOMAIN batch : SameWork(bs[i], batch[i])

\* Being read or cancelled changes nothing of a branch's work.
LEMMA SameWorkIsGood ==
    ASSUME NEW n, NEW b, SameWork(n, b), NEW p, NEW base, NEW late, BranchInv(b, p, base, late)
    PROVE  BranchInv(n, p, base, late) /\ Typed(n, p)
<1>1. Typed(n, p) /\ Copy(n, base)
  BY DEF SameWork, BranchInv, Typed, Copy
<1>2. AttemptsInv(n, late) /\ StageInv(n, p)
  BY DEF SameWork, BranchInv, AttemptsInv, Late, StageInv
<1> QED
  BY <1>1, <1>2 DEF BranchInv

\* Nor of the batch's, when that happens to several branches.
LEMMA ReslotKeepsInv ==
    ASSUME EngineInv, InFlight, Reslotted(batch'), InFlight',
           UNCHANGED <<plan, budget, index, completed, flags, context, expired, status>>
    PROVE  TypeInv' /\ ContextInv' /\ BatchInv'
<1>1. TypeInv /\ ContextInv /\ BatchInv
  BY DEF EngineInv
<1>2. /\ batch' \in Seq(Branch) /\ Len(batch') = Len(batch) /\ DOMAIN batch' = DOMAIN batch
      /\ \A i \in DOMAIN batch : batch'[i].budget = batch[i].budget /\ batch'[i].node = batch[i].node
  BY DEF Reslotted, SameWork
<1>3. \A i \in DOMAIN batch :
        /\ BranchInv(batch'[i], plan, context.attempts, expired /\ Len(batch) = 1) /\ Typed(batch'[i], plan)
  BY <1>1, SameWorkIsGood DEF Reslotted, BatchInv, BranchesInv
<1>4. TypeInv'
  BY <1>1, <1>2, <1>3 DEF TypeInv, InFlight
<1>5. ContextInv'
  BY <1>1 DEF ContextInv, InFlight
<1>6. BatchInv'
  <2>1. BranchesInv'
    BY <1>2, <1>3 DEF BranchesInv
  <2>2. SharesInv'
    BY <1>1, <1>2 DEF BatchInv, SharesInv, AttemptShare, Remaining
  <2>3. ApartInv'
    BY <1>1, <1>2 DEF BatchInv, ApartInv, Remaining
  <2>4. NeededInv'
    BY <1>1, <1>2 DEF BatchInv, NeededInv
  <2> QED
    BY <1>1, <1>2, <2>1, <2>2, <2>3, <2>4 DEF BatchInv
<1> QED
  BY <1>4, <1>5, <1>6

\* Reading and cancelling change the two flags only.
ReadOf(b, c) == [b EXCEPT !.collected = c]
StopOf(b, d) == [b EXCEPT !.cancelling = d]
\* Marking a branch as read, or as being cancelled.
LEMMA ReslotIs ==
    ASSUME NEW b \in Branch, NEW c \in BOOLEAN, NEW n
    PROVE  /\ n = ReadOf(b, c) => SameWork(n, b) /\ n.collected = c /\ n.cancelling = b.cancelling
           /\ n = StopOf(b, c) => SameWork(n, b) /\ n.cancelling = c /\ n.collected = b.collected
  BY DEF SameWork, Branch, ReadOf, StopOf

\* The types of the batch.
LEMMA BatchHas ==
    ASSUME EngineInv
    PROVE  /\ batch \in Seq(Branch) /\ Len(batch) \in Nat /\ DOMAIN batch = 1..Len(batch)
           /\ \A i \in DOMAIN batch : /\ batch[i] \in Branch /\ batch[i].collected \in BOOLEAN
                                      /\ batch[i].cancelling \in BOOLEAN
<1>1. batch \in Seq(Branch)
  BY DEF EngineInv, TypeInv
<1>2. \A i \in DOMAIN batch : batch[i] \in Branch
  BY <1>1
<1> QED
  BY <1>1, <1>2 DEF Branch

\* Collecting marks the branches that are done, and nothing else.
LEMMA CollectedHas ==
    ASSUME EngineInv, NEW bs, bs = Collected
    PROVE  /\ Reslotted(bs)
           /\ \A i \in DOMAIN batch : /\ bs[i].collected = (batch[i].collected \/ i \in Done)
                                      /\ bs[i].cancelling = batch[i].cancelling
<1>1. \A i \in DOMAIN batch : /\ SameWork(bs[i], batch[i]) /\ bs[i].cancelling = batch[i].cancelling
                              /\ bs[i].collected = (batch[i].collected \/ i \in Done)
  <2> TAKE i \in DOMAIN batch
  <2>1. PICK c \in BOOLEAN : c = (batch[i].collected \/ i \in Done)
    BY Zenon
  <2>2. PICK n : n = ReadOf(batch[i], c)
    OBVIOUS
  <2>3. batch[i] \in Branch /\ batch[i].cancelling \in BOOLEAN
    BY BatchHas
  <2>4. SameWork(n, batch[i]) /\ n.collected = c /\ n.cancelling = batch[i].cancelling
    BY <2>2, <2>3, ReslotIs
  <2>5. bs[i] = n
    BY <2>1, <2>2 DEF Collected, ReadOf
  <2> QED
    BY <2>1, <2>4, <2>5
<1>2. DOMAIN bs = DOMAIN batch /\ bs = [i \in 1..Len(batch) |-> bs[i]]
  BY BatchHas DEF Collected
<1>3. \A i \in 1..Len(batch) : bs[i] \in Branch
  BY <1>1, BatchHas DEF SameWork
<1>4. bs \in Seq(Branch) /\ Len(bs) = Len(batch)
  BY <1>2, <1>3, BatchHas
<1> QED
  BY <1>1, <1>2, <1>4 DEF Reslotted

\* Every branch that has not settled is cancelled.
LEMMA CancelLiveHas ==
    ASSUME EngineInv, NEW bs, bs = CancelLive
    PROVE  /\ Reslotted(bs)
           /\ \A i \in DOMAIN batch : batch[i].pc \notin Settled => bs[i].cancelling = TRUE
<1>1. \A i \in DOMAIN batch : /\ SameWork(bs[i], batch[i])
                              /\ batch[i].pc \notin Settled => bs[i].cancelling = TRUE
  <2> TAKE i \in DOMAIN batch
  <2>1. PICK d \in BOOLEAN : d = TRUE
    BY Zenon
  <2>2. PICK n : n = StopOf(batch[i], d)
    OBVIOUS
  <2>3. batch[i] \in Branch /\ batch[i].collected \in BOOLEAN
    BY BatchHas
  <2>4. SameWork(n, batch[i]) /\ n.cancelling = d
    BY <2>2, <2>3, ReslotIs
  <2>5. SameWork(batch[i], batch[i])
    BY <2>3 DEF SameWork
  <2>6. bs[i] = IF batch[i].pc \notin Settled THEN n ELSE batch[i]
    BY <2>1, <2>2 DEF CancelLive, LiveBranches, StopOf
  <2> QED
    BY <2>1, <2>4, <2>5, <2>6
<1>2. DOMAIN bs = DOMAIN batch /\ bs = [i \in 1..Len(batch) |-> bs[i]]
  BY BatchHas DEF CancelLive
<1>3. \A i \in 1..Len(batch) : bs[i] \in Branch
  BY <1>1, BatchHas DEF SameWork
<1>4. bs \in Seq(Branch) /\ Len(bs) = Len(batch)
  BY <1>2, <1>3, BatchHas
<1> QED
  BY <1>1, <1>2, <1>4 DEF Reslotted

\* A branch raised or the run is cancelled: the others are cancelled.
LEMMA CancelKeepsInv ==
    ASSUME EngineInv, CollectCrash \/ CancelRun
    PROVE  EngineInv'
<1>1. /\ InFlight /\ pc' = "aborting" /\ batch' = CancelLive
      /\ UNCHANGED <<plan, budget, index, completed, flags, context, expired, status>>
  BY DEF CollectCrash, CancelRun, Collecting, InFlight
<1>2. /\ Reslotted(batch')
      /\ \A i \in DOMAIN batch : batch[i].pc \notin Settled => batch'[i].cancelling = TRUE
  BY <1>1, CancelLiveHas
<1>3. InFlight'
  BY <1>1 DEF InFlight
<1>4. TypeInv' /\ ContextInv' /\ BatchInv'
  BY <1>1, <1>2, <1>3, ReslotKeepsInv
<1>5. StoppingInv'
  BY <1>2 DEF StoppingInv, Reslotted, SameWork
<1>6. CollectInv'
  BY <1>1, <1>5 DEF CollectInv
<1> QED
  BY <1>4, <1>6 DEF EngineInv

\* execute() raises once every task has settled.
LEMMA AbortKeepsInv ==
    ASSUME EngineInv, Abort
    PROVE  EngineInv'
<1>1. /\ pc = "aborting" /\ pc' = "raised" /\ LiveBranches = {}
      /\ UNCHANGED <<plan, budget, index, completed, flags, context, batch, expired, status>>
  BY DEF Abort
<1>2. TypeInv /\ ContextInv
  BY DEF EngineInv
<1>3. TypeInv' /\ ContextInv'
  BY <1>1, <1>2 DEF TypeInv, ContextInv, Ended
<1>4. OverInv'
  BY <1>1 DEF OverInv, LiveBranches
<1> QED
  BY <1>1, <1>3, <1>4 DEF EngineInv, InFlight, CollectInv

\* The deadline passes.
LEMMA PassesKeepsInv ==
    ASSUME EngineInv, DeadlinePasses
    PROVE  EngineInv'
<1>1. /\ expired' = TRUE /\ pc' = pc /\ batch' = batch
      /\ UNCHANGED <<plan, budget, index, completed, flags, context, status>>
  BY DEF DeadlinePasses
<1>2. TypeInv /\ ContextInv /\ CollectInv
  BY DEF EngineInv
<1>3. TypeInv'
  BY <1>1, <1>2 DEF TypeInv
<1>4. ContextInv'
  BY <1>1, <1>2 DEF ContextInv
<1>5. CollectInv'
  BY <1>1, <1>2 DEF CollectInv, ExecutingInv, StoppingInv, OverInv
<1>6. ASSUME BatchInv PROVE BatchInv'
  <2>1. BranchesInv'
    <3>1. \A i \in DOMAIN batch : BranchInv(batch[i], plan, context.attempts, Len(batch) = 1)
      BY <1>6 DEF BatchInv, BranchesInv, BranchInv, AttemptsInv
    <3> QED
      BY <1>1, <3>1 DEF BranchesInv
  <2> QED
    BY <1>1, <1>6, <2>1 DEF BatchInv, SharesInv, AttemptShare, Remaining, ApartInv, NeededInv
<1> QED
  BY <1>1, <1>3, <1>4, <1>5, <1>6 DEF EngineInv, InFlight

\* Some tasks are done, others are not: a result that stops cancels the others.
LEMMA WaitKeepsInv ==
    ASSUME EngineInv, CollectWait
    PROVE  EngineInv' /\ Reslotted(batch')
<1>1. /\ pc = "executing" /\ Done # {} /\ LiveBranches # {} /\ \A i \in Done : batch[i].pc = "returned"
      /\ UNCHANGED <<plan, budget, index, completed, flags, context, expired, status>>
  BY DEF CollectWait, Collecting
<1>2. InFlight /\ ExecutingInv
  BY <1>1 DEF InFlight, EngineInv, CollectInv
<1>3. PICK bs : bs = Collected
  OBVIOUS
<1>4. /\ Reslotted(bs)
      /\ \A i \in DOMAIN batch : /\ bs[i].collected = (batch[i].collected \/ i \in Done)
                                 /\ bs[i].cancelling = batch[i].cancelling
  BY <1>3, CollectedHas
<1>5. CASE ~MustStop
  <2>1. batch' = bs /\ pc' = "executing" /\ InFlight'
    BY <1>3, <1>5 DEF CollectWait, InFlight
  <2>2. TypeInv' /\ ContextInv' /\ BatchInv'
    BY <1>1, <1>2, <1>4, <2>1, ReslotKeepsInv
  <2>3. \A i \in Done : NothingStops(batch[i], plan, context.accepted)
    BY <1>1, <1>5 DEF MustStop, Winner, Node, NothingStops
  <2>4. \A i \in DOMAIN batch :
          /\ bs[i].cancelling = FALSE /\ bs[i].pc # "cancelled"
          /\ bs[i].collected = TRUE => NothingStops(batch[i], plan, context.accepted)
    <3> TAKE i \in DOMAIN batch
    <3>1. bs[i].pc = batch[i].pc
      BY <1>4 DEF Reslotted, SameWork
    <3>2. bs[i].collected = TRUE => batch[i].collected = TRUE \/ i \in Done
      BY <1>4, BatchHas
    <3> QED
      BY <1>2, <1>4, <2>3, <3>1, <3>2 DEF ExecutingInv
  <2>5. \A i \in DOMAIN batch : NothingStops(batch[i], plan, context.accepted) =>
                                   NothingStops(bs[i], plan, context.accepted)
    BY <1>4 DEF Reslotted, SameWork, NothingStops
  <2>6. ExecutingInv'
    BY <1>1, <1>4, <2>1, <2>4, <2>5 DEF ExecutingInv, Reslotted
  <2> QED
    BY <1>4, <2>1, <2>2, <2>6 DEF EngineInv, CollectInv
<1>6. CASE MustStop
  <2>1. /\ pc' = "reaping" /\ InFlight'
        /\ batch' = [i \in DOMAIN batch |-> [bs[i] EXCEPT !.cancelling = @ \/ i \in LiveBranches]]
    BY <1>3, <1>6 DEF CollectWait, InFlight
  <2>2. \A i \in DOMAIN batch : /\ SameWork(batch'[i], batch[i])
                                /\ i \in LiveBranches => batch'[i].cancelling = TRUE
    <3> TAKE i \in DOMAIN batch
    <3>1. SameWork(bs[i], batch[i]) /\ bs[i] \in Branch /\ bs[i].collected \in BOOLEAN
      BY <1>4 DEF Reslotted, SameWork, Branch
    <3>2. PICK d \in BOOLEAN : d = (bs[i].cancelling \/ i \in LiveBranches)
      BY Zenon
    <3>3. PICK n : n = StopOf(bs[i], d)
      OBVIOUS
    <3>4. SameWork(n, bs[i]) /\ n.cancelling = d
      BY <3>1, <3>3, ReslotIs
    <3>5. batch'[i] = n
      BY <2>1, <3>2, <3>3 DEF StopOf
    <3>6. SameWork(n, batch[i])
      BY <3>1, <3>4 DEF SameWork
    <3> QED
      BY <3>2, <3>4, <3>5, <3>6
  <2>3. Reslotted(batch')
    <3>1. \A i \in 1..Len(batch) : batch'[i] \in Branch
      BY <2>2, BatchHas DEF SameWork
    <3>2. DOMAIN batch' = 1..Len(batch) /\ batch' = [i \in 1..Len(batch) |-> batch'[i]]
      BY <2>1, BatchHas
    <3>3. batch' \in Seq(Branch) /\ Len(batch') = Len(batch)
      BY <3>1, <3>2, BatchHas
    <3> QED
      BY <2>2, <3>2, <3>3, BatchHas DEF Reslotted
  <2>4. TypeInv' /\ ContextInv' /\ BatchInv'
    BY <1>1, <1>2, <2>1, <2>3, ReslotKeepsInv
  <2>5. StoppingInv'
    BY <2>2, <2>3 DEF StoppingInv, Reslotted, SameWork, LiveBranches
  <2>6. Len(batch) > 1
    <3>1. PICK i \in Done, j \in LiveBranches : TRUE
      BY <1>1
    <3>2. i \in 1..Len(batch) /\ j \in 1..Len(batch) /\ i # j
      BY <3>1, BatchHas DEF Done, LiveBranches
    <3> QED
      BY <3>2, BatchHas
  <2>7. CollectInv'
    BY <2>1, <2>3, <2>5, <2>6 DEF CollectInv, Reslotted
  <2> QED
    BY <2>3, <2>4, <2>7 DEF EngineInv
<1> QED
  BY <1>5, <1>6

----------------------------------------------------------------------------
(* The merge *)

Suffix(att, base) == SubSeq(att, Len(base) + 1, Len(att))
\* The attempts after the first Len(base): what a branch added.
LEMMA SuffixIs ==
    ASSUME NEW base \in Seq(Statuses), NEW att \in Seq(Statuses), Extends(base, att),
           NEW s, s = Suffix(att, base)
    PROVE  s \in Seq(Statuses) /\ Len(s) = Len(att) - Len(base) /\ (Closed(att) => Closed(s))
<1>1. Len(base) \in Nat /\ Len(att) \in Nat /\ Len(base) <= Len(att)
  BY DEF Extends
<1>2. s \in Seq(Statuses) /\ Len(s) = Len(att) - Len(base)
  BY <1>1 DEF Suffix
<1>3. ASSUME Closed(att), s # <<>> PROVE s[Len(s)] # "RUNNING"
  <2>1. PICK k \in Nat : k = Len(s) /\ k > 0
    BY <1>2, <1>3
  <2>2. s[k] = att[(Len(base) + 1) + k - 1]
    BY <1>1, <1>2, <2>1 DEF Suffix
  <2>3. (Len(base) + 1) + k - 1 = Len(att) /\ Len(att) > 0
    BY <1>1, <1>2, <2>1
  <2>4. att # <<>>
    BY <2>3
  <2> QED
    BY <1>3, <2>1, <2>2, <2>3, <2>4 DEF Closed
<1> QED
  BY <1>2, <1>3 DEF Closed

\* The merge of a batch is within the budget; the record of an expired deadline may
\* come on top of a node that ran alone.
Within(att) ==
    \/ Len(att) <= budget
    \/ Len(att) = budget + 1 /\ expired /\ Len(batch) = 1 /\ Late(batch[1])

\* What the merge makes of a batch stays within the budget.
LEMMA MergedHas ==
    ASSUME EngineInv, InFlight, NEW bs, Reslotted(bs), NEW new, new = MergedAttempts(bs)
    PROVE  /\ new \in Seq(Statuses) /\ Within(new)
           /\ (\A i \in DOMAIN batch : Closed(batch[i].context.attempts)) => Closed(new)
<1>1. PICK base \in Seq(Statuses) : base = context.attempts
  BY ContextHas DEF EngineInv
<1>2. PICK n \in Nat : n = Len(batch) /\ n > 0
  BY BatchHas DEF EngineInv, BatchInv
<1>3. DOMAIN batch = 1..n /\ DOMAIN bs = 1..n /\ Len(bs) = n
  BY <1>2, BatchHas DEF Reslotted
<1>4. \A i \in 1..n : /\ BranchInv(batch[i], plan, base, expired /\ n = 1)
                      /\ bs[i].context.attempts = batch[i].context.attempts
                      /\ batch[i].budget = IF n = 1 THEN budget ELSE AttemptShare(i, n)
  BY <1>1, <1>2, <1>3 DEF EngineInv, BatchInv, BranchesInv, SharesInv, Reslotted, SameWork
<1>5. \A i \in 1..n : batch[i].context.attempts \in Seq(Statuses) /\ Extends(base, batch[i].context.attempts)
  BY <1>4, BranchHas DEF BranchInv, Typed, Copy
<1>6. Closed(base) /\ Len(base) <= budget /\ TypeInv /\ Len(base) \in Nat /\ budget \in Nat
  BY <1>1, ContextHas DEF EngineInv, ContextInv, InFlight
<1>7. CASE n = 1
  <2>1. new = batch[1].context.attempts /\ 1 \in 1..n
    BY <1>3, <1>4, <1>7 DEF MergedAttempts
  <2>2. batch[1].budget = budget
    BY <1>4, <1>7, <2>1
  <2>3. Len(new) <= budget \/ (expired /\ Late(batch[1]))
    BY <1>4, <2>1, <2>2 DEF BranchInv, AttemptsInv
  <2>4. Late(batch[1]) => Len(new) = budget + 1
    BY <2>1, <2>2 DEF Late
  <2> QED
    BY <1>2, <1>3, <1>5, <1>7, <2>1, <2>3, <2>4 DEF Within
<1>8. CASE n # 1
  <2>1. PICK ss : ss = [i \in 1..n |-> Suffix(bs[i].context.attempts, base)]
    OBVIOUS
  <2>2. \A i \in 1..n : ss[i] = Suffix(batch[i].context.attempts, base)
    BY <1>4, <2>1
  <2>3. \A i \in 1..n : /\ ss[i] \in Seq(Statuses)
                        /\ Len(ss[i]) = Len(batch[i].context.attempts) - Len(base)
                        /\ Closed(batch[i].context.attempts) => Closed(ss[i])
    BY <1>5, <2>2, SuffixIs
  <2>4. ss \in [1..n -> Seq(Statuses)] /\ n \in Nat \ {0}
    BY <1>2, <2>1, <2>3
  <2>5. PICK flat : flat = FlattenSeq(ss)
    OBVIOUS
  <2>6. new = base \o flat
    <3>1. [i \in DOMAIN bs |-> Appended(bs[i])] = ss
      BY <1>1, <1>3, <2>1 DEF Appended, Suffix
    <3>2. new = base \o FlattenSeq([i \in DOMAIN bs |-> Appended(bs[i])])
      BY <1>1, <1>3, <1>8 DEF MergedAttempts
    <3> QED
      BY <2>5, <3>1, <3>2
  <2>7. flat \in Seq(Statuses)
    BY <2>4, <2>5, FlattenLength
  <2>8. Len(flat) <= Remaining
    <3>1. PICK left \in Nat : left = Remaining
      BY <1>1, <1>6, RemainingIs
    <3>2. PICK q \in Nat, r \in Nat : q = left \div n /\ r = left % n /\ left = n * q + r
      <4>1. left \div n \in Nat /\ left % n \in Nat /\ left = n * (left \div n) + (left % n)
        BY <1>2
      <4> QED
        BY <4>1
    <3>3. \A i \in 1..n : Len(ss[i]) <= q + (IF i <= r THEN 1 ELSE 0)
      <4> TAKE i \in 1..n
      <4>1. PICK one \in {0, 1} : one = IF i <= r THEN 1 ELSE 0
        OBVIOUS
      <4>2. batch[i].budget = AttemptShare(i, n)
        BY <1>4, <1>8
      <4>3. batch[i].budget = (Len(base) + q) + one
        BY <1>1, <3>1, <3>2, <4>1, <4>2 DEF AttemptShare
      <4>4. Len(batch[i].context.attempts) <= batch[i].budget
        BY <1>4, <1>8 DEF BranchInv, AttemptsInv
      <4>5. PICK len \in Nat : len = Len(batch[i].context.attempts)
        BY <1>5
      <4>6. len - Len(base) <= q + one
        BY <1>6, <4>3, <4>4, <4>5
      <4> QED
        BY <2>3, <4>1, <4>5, <4>6
    <3>4. Len(FlattenSeq(ss)) <= n * q + r
      BY <2>4, <3>3, FlattenWithin
    <3> QED
      BY <2>5, <3>1, <3>2, <3>4
  <2>9. Remaining = budget - Len(base)
    BY <1>1, <1>6, RemainingIs
  <2>10. new \in Seq(Statuses) /\ Len(new) <= budget
    <3>1. PICK a \in Nat, f \in Nat : a = Len(base) /\ f = Len(flat)
      BY <2>7
    <3>2. a + f <= budget
      BY <1>6, <2>8, <2>9, <3>1
    <3>3. base \o flat \in Seq(Statuses) /\ Len(base \o flat) = Len(base) + Len(flat)
      BY <2>7
    <3> QED
      BY <2>6, <3>1, <3>2, <3>3
  <2>11. ASSUME \A i \in DOMAIN batch : Closed(batch[i].context.attempts) PROVE Closed(new)
    <3>1. \A i \in 1..n : Closed(ss[i])
      BY <1>3, <2>3, <2>11
    <3>2. Closed(flat)
      BY <2>4, <2>5, <3>1, FlattenClosed
    <3> QED
      BY <1>6, <2>6, <2>7, <3>2, ConcatClosed
  <2> QED
    BY <2>10, <2>11 DEF Within
<1> QED
  BY <1>7, <1>8

\* _merge_parallel_context: the run's context takes over what the branches did.
LEMMA MergeKeepsInv ==
    ASSUME EngineInv, InFlight, NEW bs, Reslotted(bs), Merge(bs),
           UNCHANGED <<plan, budget, expired, status>>,
           \A i \in DOMAIN batch : batch[i].pc \in {"returned", "cancelled"},
           Len(batch) = 1 => batch[1].pc = "returned"
    PROVE  EngineInv'
<1>1. TypeInv /\ ContextInv /\ BatchInv
  BY DEF EngineInv
<1>2. PICK new : new = MergedAttempts(bs)
  OBVIOUS
<1>3. \A i \in DOMAIN batch : /\ BranchInv(batch[i], plan, context.attempts, expired /\ Len(batch) = 1)
                              /\ Closed(batch[i].context.attempts)
  BY <1>1 DEF BatchInv, BranchesInv, BranchInv, AttemptsInv
<1>4. new \in Seq(Statuses) /\ Within(new) /\ Closed(new)
  BY <1>2, <1>3, MergedHas
<1>5. /\ bs \in Seq(Branch) /\ DOMAIN bs = DOMAIN batch /\ Len(bs) = Len(batch) /\ batch' = bs
      /\ DOMAIN batch = 1..Len(batch) /\ Len(batch) \in Nat
  BY BatchHas DEF Reslotted, Merge
<1>6. \A i \in DOMAIN batch : /\ Typed(bs[i], plan) /\ bs[i].pc = batch[i].pc /\ bs[i].result = batch[i].result
                              /\ bs[i].node \in DOMAIN plan
  BY <1>3, SameWorkIsGood DEF Reslotted, SameWork, BranchInv, Typed
<1>7. PICK outcomes : outcomes = { Outcome(bs[i]) : i \in DOMAIN bs }
  OBVIOUS
<1>8. outcomes \subseteq Failures \cup {"completed"}
  <2>1. \A i \in DOMAIN batch : Outcome(bs[i]) \in Failures \cup {"completed"}
    <3> TAKE i \in DOMAIN batch
    <3>1. CASE batch[i].pc = "cancelled"
      BY <1>6, <3>1 DEF Outcome
    <3>2. CASE batch[i].pc = "returned"
      <4>1. Outcome(bs[i]) = batch[i].result /\ batch[i].result # "none"
        BY <1>3, <1>6, <3>2 DEF Outcome, BranchInv, StageInv
      <4>2. batch[i].result \in Failures \cup {"none", "completed"}
        BY <1>3 DEF BranchInv, Typed, Branch
      <4> QED
        BY <4>1, <4>2
    <3> QED
      BY <3>1, <3>2
  <2> QED
    BY <1>5, <1>7, <2>1
<1>9. /\ flags' = flags \cup (outcomes \ {"completed"}) /\ index' = index + Len(batch)
      /\ pc' = IF outcomes \cap StopKinds # {} THEN "stopped" ELSE "loop"
      /\ completed' = completed \cup { bs[i].node : i \in { j \in DOMAIN bs : Outcome(bs[j]) = "completed" } }
  BY <1>5, <1>7 DEF Merge
<1>10. context' \in Contexts /\ context'.attempts = new
  <2>1. PICK acc \in BOOLEAN, art \in BOOLEAN : /\ acc = \E i \in DOMAIN bs : bs[i].context.accepted
                                                /\ art = \E i \in DOMAIN bs : bs[i].context.artifacts
    BY Zenon
  <2>2. context' = [attempts |-> new, accepted |-> acc, artifacts |-> art]
    BY <1>2, <2>1 DEF Merge
  <2> QED
    BY <1>4, <2>2 DEF Contexts, Statuses
<1>11. TypeInv'
  <2>1. flags' \subseteq Failures
    BY <1>1, <1>8, <1>9 DEF TypeInv
  <2>2. completed' \subseteq DOMAIN plan
    BY <1>1, <1>5, <1>6, <1>9 DEF TypeInv
  <2>3. index' \in 1..(Len(plan) + 1)
    BY <1>1, <1>5, <1>9, PlansAssumption DEF TypeInv, BatchInv
  <2>4. \A i \in DOMAIN batch' : Typed(batch'[i], plan)
    BY <1>5, <1>6
  <2> QED
    BY <1>1, <1>5, <1>9, <1>10, <2>1, <2>2, <2>3, <2>4 DEF TypeInv
<1>12. ASSUME ~(Len(new) <= budget)
       PROVE  Len(new) = budget + 1 /\ expired /\ "budget_exhausted" \in outcomes
  <2>1. Len(new) = budget + 1 /\ expired /\ Len(batch) = 1 /\ Late(batch[1])
    BY <1>4, <1>12 DEF Within
  <2>2. batch[1].pc = "returned" /\ batch[1].result = "budget_exhausted" /\ 1 \in DOMAIN batch
    BY <1>5, <2>1 DEF Late
  <2>3. Outcome(bs[1]) = "budget_exhausted"
    BY <1>6, <2>2 DEF Outcome
  <2> QED
    BY <1>5, <1>7, <2>1, <2>2, <2>3
<1>13. "budget_exhausted" \in StopKinds
  BY DEF StopKinds
<1>14. pc' = "loop" => outcomes \cap StopKinds = {} /\ Len(new) <= budget
  BY <1>9, <1>12, <1>13
<1>15. flags \cap StopKinds = {}
  BY <1>1 DEF ContextInv, InFlight
<1>16. ContextInv'
  <2>1. Len(new) <= budget \/ (Len(new) = budget + 1 /\ expired /\ "budget_exhausted" \in flags')
    BY <1>9, <1>12
  <2>2. pc' \notin {"stopped", "finished"} => Len(new) <= budget /\ flags' \cap StopKinds = {}
    BY <1>9, <1>14, <1>15
  <2> QED
    BY <1>4, <1>10, <2>1, <2>2 DEF ContextInv
<1>17. OverInv'
  BY <1>5, <1>6 DEF OverInv, Settled
<1>18. pc' \in {"loop", "stopped"}
  BY <1>9
<1>19. CollectInv'
  BY <1>17, <1>18 DEF CollectInv
<1> QED
  BY <1>11, <1>16, <1>18, <1>19 DEF EngineInv, InFlight

\* The last branch is read and the batch merged.
LEMMA LastKeepsInv ==
    ASSUME EngineInv, CollectLast
    PROVE  EngineInv'
<1>1. /\ pc = "executing" /\ LiveBranches = {} /\ \A i \in Done : batch[i].pc = "returned"
      /\ Merge(Collected) /\ UNCHANGED <<plan, budget, expired, status>>
  BY DEF CollectLast, Collecting
<1>2. InFlight /\ ExecutingInv /\ BatchInv
  BY <1>1 DEF InFlight, EngineInv, CollectInv
<1>3. PICK bs : bs = Collected
  OBVIOUS
<1>4. Reslotted(bs) /\ Merge(bs)
  BY <1>1, <1>3, CollectedHas
<1>5. \A i \in DOMAIN batch : batch[i].pc = "returned"
  <2> TAKE i \in DOMAIN batch
  <2>1. batch[i].pc \in Settled
    BY <1>1 DEF LiveBranches
  <2>2. batch[i].collected \in BOOLEAN
    BY BatchHas
  <2>3. CASE batch[i].collected = TRUE
    BY <1>2, <2>3 DEF ExecutingInv, NothingStops
  <2>4. CASE batch[i].collected = FALSE
    BY <1>1, <2>1, <2>4 DEF Done
  <2> QED
    BY <2>2, <2>3, <2>4
<1>6. Len(batch) = 1 => batch[1].pc = "returned"
  BY <1>5, BatchHas
<1> QED
  BY <1>1, <1>2, <1>4, <1>5, <1>6, MergeKeepsInv

\* The cancelled rest of a batch has settled and is merged.
LEMMA ReapKeepsInv ==
    ASSUME EngineInv, Reap
    PROVE  EngineInv'
<1>1. /\ pc = "reaping" /\ LiveBranches = {} /\ UNCHANGED <<plan, budget, expired, status>>
  BY DEF Reap
<1>2. InFlight /\ Len(batch) > 1 /\ BatchInv /\ TypeInv /\ ContextInv /\ StoppingInv
  BY <1>1 DEF InFlight, EngineInv, CollectInv
<1>3. CASE \E i \in DOMAIN batch : batch[i].pc = "crashed"
  <2>1. pc' = "aborting" /\ UNCHANGED <<index, completed, flags, context, batch>>
    BY <1>3 DEF Reap
  <2>2. TypeInv' /\ ContextInv'
    BY <1>1, <1>2, <2>1 DEF TypeInv, ContextInv
  <2>3. BatchInv'
    BY <1>1, <1>2, <2>1 DEF BatchInv, BranchesInv, SharesInv, AttemptShare, Remaining, ApartInv, NeededInv
  <2>4. CollectInv'
    BY <1>2, <2>1 DEF CollectInv, StoppingInv
  <2> QED
    BY <2>2, <2>3, <2>4 DEF EngineInv
<1>4. CASE ~\E i \in DOMAIN batch : batch[i].pc = "crashed"
  <2>1. Merge(batch)
    BY <1>4 DEF Reap
  <2>2. \A i \in DOMAIN batch : batch[i].pc \in {"returned", "cancelled"}
    BY <1>1, <1>4 DEF LiveBranches, Settled
  <2>3. Reslotted(batch)
    BY BatchHas DEF Reslotted, SameWork
  <2>4. Len(batch) # 1
    BY <1>2, BatchHas
  <2> QED
    BY <1>1, <1>2, <2>1, <2>2, <2>3, <2>4, MergeKeepsInv
<1> QED
  BY <1>3, <1>4

----------------------------------------------------------------------------
(* The invariant, and what follows from it *)

\* At first nothing was attempted.
LEMMA InitHasInv == Init => EngineInv
<1> SUFFICES ASSUME Init PROVE EngineInv
  OBVIOUS
<1>1. /\ plan \in Plans /\ budget \in Budgets /\ pc = "loop" /\ index = 1 /\ completed = {} /\ flags = {}
      /\ batch = <<>> /\ status = "none"
  BY DEF Init
<1>2. context.attempts = <<>> /\ context \in Contexts /\ expired \in BOOLEAN
  <2>1. PICK no \in BOOLEAN : no = FALSE
    BY Zenon
  <2>2. context = [attempts |-> <<>>, accepted |-> no, artifacts |-> no] /\ expired = no
    BY <2>1 DEF Init
  <2> QED
    BY <2>2 DEF Contexts
<1>3. Len(plan) \in Nat /\ budget \in Nat
  BY <1>1, PlansAssumption
<1>4. TypeInv
  BY <1>1, <1>2, <1>3 DEF TypeInv
<1>5. ContextInv /\ CollectInv
  BY <1>1, <1>2, <1>3 DEF ContextInv, Closed, CollectInv, OverInv
<1> QED
  BY <1>1, <1>4, <1>5 DEF EngineInv, InFlight

\* Every step keeps the invariant.
LEMMA NextKeepsInv == EngineInv /\ [Next]_vars => EngineInv'
<1> SUFFICES ASSUME EngineInv, [Next]_vars PROVE EngineInv'
  OBVIOUS
<1>1. CASE Loop
  BY <1>1, SkipKeepsInv, StartKeepsInv, FinishKeepsInv, WaitKeepsInv, LastKeepsInv, CancelKeepsInv,
     ReapKeepsInv, AbortKeepsInv DEF Loop
<1>2. ASSUME NEW i \in DOMAIN batch, Adapter(i) PROVE EngineInv'
  BY <1>2, BeginAttemptKeepsInv, SubAttemptKeepsInv, StoresKeepsInv, ReturnsKeepsInv, RaisesKeepsInv
     DEF Adapter
<1>3. ASSUME NEW i \in DOMAIN batch, Progress(i) \/ BranchCrashes(i) PROVE EngineInv'
  BY <1>3, BeginKeepsInv, EnterKeepsInv, RetryKeepsInv, DeadlineKeepsInv, SettleKeepsInv,
     CancelledKeepsInv DEF Progress
<1>4. CASE CancelRun \/ DeadlinePasses
  BY <1>4, CancelKeepsInv, PassesKeepsInv
<1>5. CASE UNCHANGED vars
  <2>1. UNCHANGED <<plan, budget, pc, index, completed, flags, context, batch, expired, status>>
    BY <1>5 DEF vars
  <2>2. TypeInv' /\ ContextInv' /\ CollectInv'
    BY <2>1 DEF EngineInv, TypeInv, ContextInv, CollectInv, ExecutingInv, StoppingInv, OverInv
  <2>3. BatchInv => BatchInv'
    BY <2>1 DEF BatchInv, BranchesInv, SharesInv, AttemptShare, Remaining, ApartInv, NeededInv
  <2> QED
    BY <2>1, <2>2, <2>3 DEF EngineInv, InFlight
<1> QED
  BY <1>1, <1>2, <1>3, <1>4, <1>5 DEF Next

\* EngineInv is an inductive invariant of the executor, whatever the plans and the budgets.
THEOREM EngineInvariance == Spec => []EngineInv
  BY InitHasInv, NextKeepsInv, PTL DEF Spec

(* Every variable, every branch and every attempt keeps its type, and the  *)
(* walk stays within the plan, in any run of execute().                    *)
THEOREM TypeCorrect == Spec => []TypeOK
<1>1. ASSUME TypeInv PROVE TypeOK
  <2>1. \A i \in DOMAIN batch : BranchOK(batch[i])
    <3> TAKE i \in DOMAIN batch
    <3>1. PICK b : b = batch[i]
      OBVIOUS
    <3>2. Typed(b, plan) /\ b \in Branch
      BY <1>1, <3>1 DEF TypeInv, Typed
    <3>3. /\ b.node \in DOMAIN plan /\ b.own \in Nat /\ b.tries \in Nat /\ Len(b.context.attempts) \in Nat
          /\ plan[b.node].retries \in Nat
      BY <1>1, <3>2, BranchHas, NodeHas DEF Typed
    <3>4. b.own \in 0..Len(b.context.attempts) /\ b.tries \in 0..plan[b.node].retries
      BY <3>2, <3>3 DEF Typed
    <3>5. /\ b.context \in Contexts /\ b.budget \in Nat /\ b.pc \in BranchPcs
          /\ b.result \in Failures \cup {"none", "completed"}
          /\ b.cancelling \in BOOLEAN /\ b.collected \in BOOLEAN
      BY <3>2 DEF Branch
    <3> QED
      BY <3>1, <3>3, <3>4, <3>5 DEF BranchOK, BranchPcs, Node
  <2> QED
    BY <1>1, <2>1 DEF TypeInv, TypeOK
<1> QED
  BY <1>1, EngineInvariance, PTL DEF EngineInv

\* The run's own batch counts as its own merge.
LEMMA SelfReslotted ==
    ASSUME EngineInv
    PROVE  Reslotted(batch)
  BY BatchHas DEF Reslotted, SameWork

(* The attempts of all the branches of a run together stay within the      *)
(* budget of the request, for any plan and any size of batch; only the     *)
(* record of an expired deadline may come on top, and it ends the run.     *)
THEOREM BudgetCorrect == Spec => []AttemptBudgetHeld
<1>1. ASSUME EngineInv PROVE AttemptBudgetHeld
  <2>1. CASE InFlight
    <3>1. PICK new : new = MergedAttempts(batch)
      OBVIOUS
    <3>2. Within(new)
      BY <1>1, <2>1, <3>1, MergedHas, SelfReslotted
    <3>3. TotalAttempts = Len(new)
      BY <2>1, <3>1 DEF TotalAttempts
    <3>4. CASE Len(new) <= budget
      BY <3>3, <3>4 DEF AttemptBudgetHeld
    <3>5. CASE ~(Len(new) <= budget)
      <4>1. Len(new) = budget + 1 /\ expired /\ Len(batch) = 1 /\ batch[1].result = "budget_exhausted"
        BY <3>2, <3>5 DEF Within, Late
      <4>2. ~IsParallel
        BY <4>1 DEF IsParallel
      <4> QED
        BY <2>1, <3>3, <4>1, <4>2, Zenon DEF AttemptBudgetHeld
    <3> QED
      BY <3>4, <3>5
  <2>2. CASE ~InFlight
    <3>1. TotalAttempts = Len(context.attempts)
      BY <2>2 DEF TotalAttempts
    <3>2. \/ Len(context.attempts) <= budget
          \/ Len(context.attempts) = budget + 1 /\ expired /\ "budget_exhausted" \in flags
      BY <1>1 DEF EngineInv, ContextInv
    <3> QED
      BY <2>2, <3>1, <3>2 DEF AttemptBudgetHeld
  <2> QED
    BY <2>1, <2>2
<1> QED
  BY <1>1, EngineInvariance, PTL

(* The failure, deadline and cancellation handlers of a branch never       *)
(* rewrite an attempt of an earlier node: the run's attempts stay a prefix *)
(* of every copy, so the suffix the merge takes is what the branch did.    *)
THEOREM BaselineCorrect == Spec => []BaselineKept
<1>1. ASSUME NEW base \in Seq(Statuses), NEW att \in Seq(Statuses), Extends(base, att)
      PROVE  IsPrefix(base, att)
  <2>1. Len(base) \in Nat /\ Len(att) \in Nat /\ Len(base) <= Len(att)
    BY <1>1 DEF Extends
  <2>2. \A k \in 1..Len(base) : SubSeq(att, 1, Len(base))[k] = att[k] /\ SubSeq(base, 1, Len(base))[k] = base[k]
    BY <2>1
  <2>3. /\ SubSeq(att, 1, Len(base)) \in Seq(Statuses) /\ Len(SubSeq(att, 1, Len(base))) = Len(base)
        /\ SubSeq(base, 1, Len(base)) \in Seq(Statuses) /\ Len(SubSeq(base, 1, Len(base))) = Len(base)
    BY <2>1
  <2>4. SubSeq(base, 1, Len(base)) = SubSeq(att, 1, Len(base))
    BY <1>1, <2>2, <2>3 DEF Extends
  <2> QED
    BY <2>1, <2>4 DEF IsPrefix
<1>2. ASSUME EngineInv PROVE BaselineKept
  <2> SUFFICES ASSUME InFlight, NEW i \in DOMAIN batch
               PROVE  IsPrefix(context.attempts, batch[i].context.attempts)
    BY DEF BaselineKept
  <2>1. /\ BranchInv(batch[i], plan, context.attempts, expired /\ Len(batch) = 1)
        /\ context.attempts \in Seq(Statuses)
    BY <1>2, ContextHas DEF EngineInv, BatchInv, BranchesInv
  <2>2. batch[i].context.attempts \in Seq(Statuses) /\ Extends(context.attempts, batch[i].context.attempts)
    BY <2>1, BranchHas DEF BranchInv, Typed, Copy
  <2> QED
    BY <1>1, <2>1, <2>2
<1> QED
  BY <1>2, EngineInvariance, PTL

(* However a batch ends, by completion, an early stop, a crash or the      *)
(* cancellation of the run, every task of it has settled before execute()  *)
(* goes on or raises.                                                      *)
THEOREM NoOrphanCorrect == Spec => []NoOrphanBranch
<1>1. ASSUME EngineInv PROVE NoOrphanBranch
  BY <1>1 DEF EngineInv, CollectInv, OverInv, NoOrphanBranch, InFlight, LiveBranches
<1> QED
  BY <1>1, EngineInvariance, PTL

\* What the planner gives every node that changes something at the origin.
Guarded(p) ==
    \A k \in DOMAIN p : p[k].mutates => p[k].approval # "free" /\ p[k].retries = 0

(* Given plans whose mutating nodes ask for approval and are not retried,  *)
(* the executor enters such a node's adapter only when it was approved,    *)
(* alone, and once, however the first try fails.                           *)
THEOREM MutatesOnceCorrect ==
    ASSUME \A p \in Plans : Guarded(p)
    PROVE  Spec => []MutatesOnce
<1>1. ASSUME EngineInv PROVE MutatesOnce
  <2> SUFFICES ASSUME NEW i \in DOMAIN batch, Node(batch[i]).mutates, batch[i].pc \in {"adapter", "backoff"}
               PROVE  Node(batch[i]).approval = "granted" /\ ~IsParallel /\ batch[i].tries = 0
    BY DEF MutatesOnce
  <2>1. InFlight
    BY <1>1 DEF EngineInv, CollectInv, OverInv, InFlight, Settled
  <2>2. PICK b : b = batch[i]
    OBVIOUS
  <2>3. BranchInv(b, plan, context.attempts, expired /\ Len(batch) = 1) /\ TypeInv
    BY <1>1, <2>1, <2>2 DEF EngineInv, BatchInv, BranchesInv
  <2>4. b.node \in DOMAIN plan /\ b.tries \in Nat /\ b.tries <= plan[b.node].retries
    BY <2>3, BranchHas DEF BranchInv, Typed
  <2>5. plan[b.node].approval # "free" /\ plan[b.node].retries = 0
    BY <2>2, <2>3, <2>4 DEF Guarded, TypeInv, Node
  <2>6. plan[b.node].approval \in {"free", "granted", "missing"}
    BY <2>3, <2>4, NodeHas DEF NodeSet
  <2>7. plan[b.node].approval # "missing"
    BY <2>2, <2>3 DEF BranchInv, StageInv
  <2>8. ~(Len(batch) > 1)
    BY <1>1, <2>1, <2>2, <2>5 DEF EngineInv, BatchInv, ApartInv
  <2>9. b.tries = 0
    BY <2>4, <2>5
  <2> QED
    BY <2>2, <2>5, <2>6, <2>7, <2>8, <2>9 DEF Node, IsParallel
<1> QED
  BY <1>1, EngineInvariance, PTL

----------------------------------------------------------------------------
(* Steps that make an attempt *)

\* Every attempt so far, from the run's own and those of the branches.
MergedFrom(base, bs) ==
    IF Len(bs) = 1 THEN bs[1].context.attempts
    ELSE base \o FlattenSeq([i \in DOMAIN bs |-> Suffix(bs[i].context.attempts, base)])

Parts(bs, base) ==
    /\ base \in Seq(Statuses) /\ Len(bs) \in Nat \ {0} /\ DOMAIN bs = 1..Len(bs)
    /\ \A i \in DOMAIN bs : /\ bs[i].context.attempts \in Seq(Statuses)
                            /\ Extends(base, bs[i].context.attempts)

\* Only the number of attempts of each branch matters to their number in all.
LEMMA MergedLength ==
    ASSUME NEW base, NEW bs, NEW cs, Parts(bs, base), Parts(cs, base), Len(bs) = Len(cs),
           \A i \in DOMAIN bs : Len(bs[i].context.attempts) = Len(cs[i].context.attempts)
    PROVE  Len(MergedFrom(base, bs)) = Len(MergedFrom(base, cs))
<1>1. PICK n \in Nat \ {0} : n = Len(bs) /\ DOMAIN bs = 1..n /\ DOMAIN cs = 1..n /\ Len(cs) = n
  BY DEF Parts
<1>2. base \in Seq(Statuses)
  BY DEF Parts
<1>3. CASE n = 1
  BY <1>1, <1>3 DEF MergedFrom
<1>4. CASE n # 1
  <2>1. PICK ss, tt : /\ ss = [i \in 1..n |-> Suffix(bs[i].context.attempts, base)]
                      /\ tt = [i \in 1..n |-> Suffix(cs[i].context.attempts, base)]
    OBVIOUS
  <2>2. \A i \in 1..n : /\ ss[i] \in Seq(Statuses)
                        /\ Len(ss[i]) = Len(bs[i].context.attempts) - Len(base)
    BY <1>1, <1>2, <2>1, SuffixIs DEF Parts
  <2>3. \A i \in 1..n : /\ tt[i] \in Seq(Statuses)
                        /\ Len(tt[i]) = Len(cs[i].context.attempts) - Len(base)
    BY <1>1, <1>2, <2>1, SuffixIs DEF Parts
  <2>4. ss \in [1..n -> Seq(Statuses)] /\ tt \in [1..n -> Seq(Statuses)]
        /\ \A i \in 1..n : Len(ss[i]) = Len(tt[i])
    BY <1>1, <2>1, <2>2, <2>3
  <2>5. PICK f \in Seq(Statuses), g \in Seq(Statuses) :
           f = FlattenSeq(ss) /\ g = FlattenSeq(tt) /\ Len(f) = Len(g)
    BY <2>4, FlattenLength
  <2>6. MergedFrom(base, bs) = base \o f /\ MergedFrom(base, cs) = base \o g
    BY <1>1, <1>4, <2>1, <2>5 DEF MergedFrom
  <2>7. Len(base \o f) = Len(base) + Len(f) /\ Len(base \o g) = Len(base) + Len(g)
    BY <1>2
  <2> QED
    BY <2>5, <2>6, <2>7
<1> QED
  BY <1>3, <1>4

\* The run's own attempts are among them, and the only ones in a new batch.
LEMMA MergedGrows ==
    ASSUME NEW base, NEW bs, Parts(bs, base)
    PROVE  /\ Len(base) <= Len(MergedFrom(base, bs))
           /\ (\A i \in DOMAIN bs : bs[i].context.attempts = base) => Len(MergedFrom(base, bs)) = Len(base)
<1>1. PICK n \in Nat \ {0} : n = Len(bs) /\ DOMAIN bs = 1..n
  BY DEF Parts
<1>2. base \in Seq(Statuses)
  BY DEF Parts
<1>3. CASE n = 1
  BY <1>1, <1>3 DEF MergedFrom, Parts, Extends
<1>4. CASE n # 1
  <2>1. PICK ss : ss = [i \in 1..n |-> Suffix(bs[i].context.attempts, base)]
    OBVIOUS
  <2>2. \A i \in 1..n : /\ ss[i] \in Seq(Statuses)
                        /\ Len(ss[i]) = Len(bs[i].context.attempts) - Len(base)
    BY <1>1, <1>2, <2>1, SuffixIs DEF Parts
  <2>3. ss \in [1..n -> Seq(Statuses)]
    BY <2>1, <2>2
  <2>4. PICK f \in Seq(Statuses) : f = FlattenSeq(ss)
    BY <2>3, FlattenLength
  <2>5. MergedFrom(base, bs) = base \o f /\ Len(base \o f) = Len(base) + Len(f)
    <3>1. MergedFrom(base, bs) = base \o f
      BY <1>1, <1>4, <2>1, <2>4 DEF MergedFrom
    <3>2. Len(base \o f) = Len(base) + Len(f)
      BY <1>2
    <3> QED
      BY <3>1, <3>2
  <2>6. PICK b \in Nat, k \in Nat : b = Len(base) /\ k = Len(f)
    BY <1>2
  <2>7. ASSUME \A i \in DOMAIN bs : bs[i].context.attempts = base PROVE k = 0
    <3>1. PICK none \in Nat : none = 0
      OBVIOUS
    <3>2. \A i \in 1..n : Len(ss[i]) <= none + (IF i <= none THEN 1 ELSE 0)
      BY <1>1, <1>2, <2>2, <2>7, <3>1, SMTT(20)
    <3>3. Len(FlattenSeq(ss)) <= n * none + none
      BY <2>3, <3>2, FlattenWithin
    <3> QED
      BY <2>4, <2>6, <3>1, <3>3
  <2>8. Len(MergedFrom(base, bs)) = b + k /\ Len(base) = b
    BY <2>5, <2>6
  <2>9. b <= b + k /\ (k = 0 => b + k = b)
    OBVIOUS
  <2> QED
    BY <2>7, <2>8, <2>9
<1> QED
  BY <1>3, <1>4

\* TotalAttempts of a batch in flight.
Counted == InFlight => /\ Parts(batch, context.attempts)
                       /\ TotalAttempts = Len(MergedFrom(context.attempts, batch))

\* The total counts each attempt of the batch once.
LEMMA CountedHere == EngineInv => Counted
<1> SUFFICES ASSUME EngineInv, InFlight
             PROVE  /\ Parts(batch, context.attempts)
                    /\ TotalAttempts = Len(MergedFrom(context.attempts, batch))
  BY DEF Counted
<1>1. Len(batch) \in Nat \ {0} /\ DOMAIN batch = 1..Len(batch) /\ context.attempts \in Seq(Statuses)
  BY BatchHas, ContextHas DEF EngineInv, BatchInv
<1>2. \A i \in DOMAIN batch : /\ batch[i].context.attempts \in Seq(Statuses)
                              /\ Extends(context.attempts, batch[i].context.attempts)
  BY BranchHas, BatchHas DEF EngineInv, BatchInv, BranchesInv, BranchInv, Copy
<1>3. MergedAttempts(batch) = MergedFrom(context.attempts, batch)
  BY DEF MergedAttempts, MergedFrom, Appended, Suffix
<1> QED
  BY <1>1, <1>2, <1>3 DEF Parts, TotalAttempts

\* The same after a step.
LEMMA CountedNext == EngineInv' => Counted'
  BY CountedHere, PTL

\* A step after which every branch has as many attempts makes none.
LEMMA SameLengthsCount ==
    ASSUME Counted, Counted', InFlight, InFlight', context' = context, SameLengths
    PROVE  TotalAttempts' = TotalAttempts
<1>1. PICK base : base = context.attempts
  OBVIOUS
<1>2. Parts(batch, base) /\ TotalAttempts = Len(MergedFrom(base, batch))
  BY <1>1 DEF Counted
<1>3. Parts(batch', base) /\ TotalAttempts' = Len(MergedFrom(base, batch'))
  BY <1>1 DEF Counted
<1>4. /\ Len(batch') = Len(batch)
      /\ \A i \in DOMAIN batch : Len(batch[i].context.attempts) = Len(batch'[i].context.attempts)
  BY DEF SameLengths
<1>5. PICK bs, cs : bs = batch /\ cs = batch'
  OBVIOUS
<1>6. Len(MergedFrom(base, bs)) = Len(MergedFrom(base, cs))
  BY <1>2, <1>3, <1>4, <1>5, MergedLength
<1> QED
  BY <1>2, <1>3, <1>5, <1>6

\* A branch that may run was not stopped: nothing execute() has read stops it.
LEMMA RunsUnstopped ==
    ASSUME EngineInv, NEW i, NEW here, here \cap Settled = {}, Runs(i, here)
    PROVE  ~StopObserved /\ (context.accepted => \A j \in DOMAIN batch : ~Node(batch[j]).fallback)
<1>1. i \in LiveBranches /\ i \in DOMAIN batch /\ batch[i].pc \notin Settled /\ ~batch[i].cancelling
  BY RunsHas DEF Runs, EngineInv, LiveBranches
<1>2. InFlight
  BY <1>1, LiveBranchHas
<1>3. pc = "executing"
  BY <1>1, <1>2 DEF EngineInv, CollectInv, StoppingInv, InFlight
<1>4. ExecutingInv /\ flags \cap StopKinds = {} /\ NeededInv
  BY <1>2, <1>3 DEF EngineInv, CollectInv, ContextInv, BatchInv
<1>5. \A j \in DOMAIN batch : batch[j].collected => batch[j].result \notin StopKinds /\ ~Winner(j)
  <2> SUFFICES ASSUME NEW j \in DOMAIN batch, batch[j].collected
               PROVE  batch[j].result \notin StopKinds /\ ~Winner(j)
    OBVIOUS
  <2>1. batch[j].collected = TRUE
    BY BatchHas
  <2>2. NothingStops(batch[j], plan, context.accepted)
    BY <1>4, <2>1 DEF ExecutingInv
  <2> QED
    BY <2>2 DEF NothingStops, Winner, Node
<1> QED
  BY <1>4, <1>5 DEF StopObserved, NeededInv, Node

\* A merge moves attempts into the run's own and makes none.
LEMMA MergeCounts ==
    ASSUME EngineInv, InFlight, NEW bs, Reslotted(bs), Merge(bs)
    PROVE  TotalAttempts' = TotalAttempts
<1>1. PICK base : base = context.attempts
  OBVIOUS
<1>2. Parts(batch, base) /\ TotalAttempts = Len(MergedFrom(base, batch))
  BY <1>1, CountedHere DEF Counted
<1>3. \A i \in DOMAIN batch : bs[i].context.attempts = batch[i].context.attempts
  BY DEF Reslotted, SameWork
<1>4. Len(bs) = Len(batch) /\ DOMAIN bs = DOMAIN batch
  BY DEF Reslotted
<1>5. Parts(bs, base)
  BY <1>2, <1>3, <1>4 DEF Parts
<1>6. Len(MergedFrom(base, bs)) = Len(MergedFrom(base, batch))
  BY <1>2, <1>3, <1>4, <1>5, MergedLength
<1>7. MergedAttempts(bs) = MergedFrom(base, bs)
  BY <1>1 DEF MergedAttempts, MergedFrom, Appended, Suffix
<1>8. context'.attempts = MergedAttempts(bs) /\ pc' \in {"stopped", "loop"}
  BY DEF Merge
<1>9. TotalAttempts' = Len(context'.attempts)
  BY <1>8 DEF TotalAttempts, InFlight
<1> QED
  BY <1>2, <1>6, <1>7, <1>8, <1>9

\* Reading or cancelling branches adds no attempt.
LEMMA ReslotCounts ==
    ASSUME EngineInv, EngineInv', InFlight, InFlight', context' = context, Reslotted(batch')
    PROVE  TotalAttempts' = TotalAttempts
<1>1. SameLengths
  BY DEF Reslotted, SameWork, SameLengths
<1>2. Counted /\ Counted'
  BY CountedHere, CountedNext
<1> QED
  BY <1>1, <1>2, SameLengthsCount

\* Of the steps of execute() itself none makes an attempt.
LEMMA LoopCounts ==
    ASSUME EngineInv, EngineInv', Loop \/ CancelRun \/ DeadlinePasses
    PROVE  ~(TotalAttempts' > TotalAttempts)
<1>0. TypeInv /\ context.attempts \in Seq(Statuses) /\ Len(context.attempts) \in Nat
  BY ContextHas DEF EngineInv
<1>1. ASSUME TotalAttempts' = TotalAttempts, TotalAttempts \in Nat PROVE ~(TotalAttempts' > TotalAttempts)
  BY <1>1
<1>2. TotalAttempts \in Nat /\ (InFlight => Len(context.attempts) <= TotalAttempts)
  <2>1. CASE InFlight
    <3>1. PICK new : new = MergedAttempts(batch)
      OBVIOUS
    <3>2. new \in Seq(Statuses) /\ TotalAttempts = Len(new)
      BY <2>1, <3>1, MergedHas, SelfReslotted DEF TotalAttempts
    <3>3. Len(context.attempts) <= TotalAttempts
      BY <2>1, CountedHere, MergedGrows DEF Counted
    <3> QED
      BY <3>2, <3>3
  <2>2. CASE ~InFlight
    BY <1>0, <2>2 DEF TotalAttempts
  <2> QED
    BY <2>1, <2>2
<1>3. CASE SkipNotReady \/ SkipFallback \/ Finish
  <2>1. ~InFlight /\ ~InFlight' /\ context' = context
    BY <1>3 DEF SkipNotReady, SkipFallback, Finish, AtNode, InFlight
  <2> QED
    BY <1>1, <1>2, <2>1 DEF TotalAttempts
<1>4. CASE StartBatch
  <2>1. ~InFlight /\ InFlight' /\ context' = context
    BY <1>4 DEF StartBatch, AtNode, InFlight
  <2>2. PICK base : base = context.attempts
    OBVIOUS
  <2>3. Parts(batch', base) /\ TotalAttempts' = Len(MergedFrom(base, batch'))
    BY <2>1, <2>2, CountedNext DEF Counted
  <2>4. \A i \in DOMAIN batch' : batch'[i].context.attempts = base
    BY <1>4, <2>2 DEF StartBatch, NewBranch
  <2>5. TotalAttempts' = Len(base)
    BY <2>3, <2>4, MergedGrows
  <2> QED
    BY <1>1, <1>2, <2>1, <2>2, <2>5 DEF TotalAttempts
<1>5. CASE CollectWait
  <2>1. InFlight /\ InFlight' /\ context' = context
    BY <1>5 DEF CollectWait, Collecting, InFlight
  <2>2. Reslotted(batch')
    BY <1>5, WaitKeepsInv
  <2>3. TotalAttempts' = TotalAttempts
    BY <2>1, <2>2, ReslotCounts
  <2> QED
    BY <1>1, <1>2, <2>3
<1>6. CASE CollectLast
  <2>1. InFlight /\ Merge(Collected)
    BY <1>6 DEF CollectLast, Collecting, InFlight
  <2>2. PICK bs : bs = Collected
    OBVIOUS
  <2>3. Reslotted(bs) /\ Merge(bs)
    BY <2>1, <2>2, CollectedHas
  <2>4. TotalAttempts' = TotalAttempts
    BY <2>1, <2>3, MergeCounts
  <2> QED
    BY <1>1, <1>2, <2>4
<1>7. CASE CollectCrash \/ CancelRun
  <2>1. InFlight /\ InFlight' /\ context' = context /\ batch' = CancelLive
    BY <1>7 DEF CollectCrash, CancelRun, Collecting, InFlight
  <2>2. Reslotted(batch')
    BY <2>1, CancelLiveHas
  <2>3. TotalAttempts' = TotalAttempts
    BY <2>1, <2>2, ReslotCounts
  <2> QED
    BY <1>1, <1>2, <2>3
<1>8. CASE Reap
  <2>1. InFlight
    BY <1>8 DEF Reap, InFlight
  <2>2. CASE Merge(batch)
    BY <1>1, <1>2, <2>1, <2>2, SelfReslotted, MergeCounts
  <2>3. CASE pc' = "aborting" /\ UNCHANGED <<index, completed, flags, context, batch>>
    <3>1. InFlight' /\ context' = context /\ batch' = batch
      BY <2>3 DEF InFlight
    <3>2. TotalAttempts' = TotalAttempts
      BY <2>1, <3>1 DEF TotalAttempts, MergedAttempts, Appended
    <3> QED
      BY <1>1, <1>2, <3>2
  <2> QED
    BY <1>8, <2>2, <2>3 DEF Reap
<1>9. CASE Abort
  <2>1. InFlight /\ ~InFlight' /\ context' = context
    BY <1>9 DEF Abort, InFlight
  <2>2. TotalAttempts' = Len(context.attempts)
    BY <2>1 DEF TotalAttempts
  <2> QED
    BY <1>0, <1>2, <2>1, <2>2
<1>10. CASE DeadlinePasses
  <2>1. pc' = pc /\ context' = context /\ batch' = batch
    BY <1>10 DEF DeadlinePasses
  <2>2. TotalAttempts' = TotalAttempts
    BY <2>1 DEF TotalAttempts, InFlight, MergedAttempts, Appended
  <2> QED
    BY <1>1, <1>2, <2>2
<1> QED
  BY <1>3, <1>4, <1>5, <1>6, <1>7, <1>8, <1>9, <1>10 DEF Loop

(* Once execute() has read a stopping result or an accepted winner, no     *)
(* branch of any batch makes another attempt, and no fallback is attempted *)
(* after an artifact was accepted: neither collecting, merging nor the     *)
(* handlers of a cancelled branch append to the attempts.                  *)
THEOREM StopCorrect == Spec => StopIsFinal
<1>1. EngineInv /\ EngineInv' /\ [Next]_vars =>
        [ TotalAttempts' > TotalAttempts =>
            /\ ~StopObserved
            /\ context.accepted =>
                 \A i \in DOMAIN batch :
                    Len(batch'[i].context.attempts) > Len(batch[i].context.attempts)
                       => ~Node(batch[i]).fallback ]_vars
  <2> SUFFICES ASSUME EngineInv, EngineInv', Next, TotalAttempts' > TotalAttempts
               PROVE  /\ ~StopObserved
                      /\ context.accepted =>
                           \A i \in DOMAIN batch :
                              Len(batch'[i].context.attempts) > Len(batch[i].context.attempts)
                                 => ~Node(batch[i]).fallback
    OBVIOUS
  <2>1. ~(Loop \/ CancelRun \/ DeadlinePasses)
    BY LoopCounts
  <2>2. PICK i \in DOMAIN batch : Adapter(i) \/ Progress(i) \/ BranchCrashes(i)
    BY <2>1 DEF Next
  <2>3. ~BranchCancelled(i)
    <3> SUFFICES ASSUME BranchCancelled(i) PROVE FALSE
      OBVIOUS
    <3>1. SameLengths
      BY CancelledKeepsInv
    <3>2. InFlight /\ InFlight' /\ context' = context
      BY LiveBranchHas DEF BranchCancelled, Set, InFlight
    <3>3. TotalAttempts' = TotalAttempts
      BY <3>1, <3>2, CountedHere, CountedNext, SameLengthsCount
    <3>4. TotalAttempts \in Nat
      <4>1. PICK new : new = MergedAttempts(batch)
        OBVIOUS
      <4>2. new \in Seq(Statuses)
        BY <3>2, <4>1, MergedHas, SelfReslotted
      <4> QED
        BY <3>2, <4>1, <4>2 DEF TotalAttempts
    <3> QED
      BY <3>3, <3>4
  <2>4. \E here \in SUBSET {"created", "starting", "adapter", "backoff", "reporting"} : Runs(i, here)
    BY <2>2, <2>3 DEF Adapter, Progress, BeginAttempt, SubAttempt, AdapterStores, AdapterReturns,
       AdapterRaises, BranchBegin, BranchEnter, Retry, DeadlineHits, BranchReturns, BranchCrashes
  <2>5. PICK here \in SUBSET {"created", "starting", "adapter", "backoff", "reporting"} : Runs(i, here)
    BY <2>4
  <2>6. here \cap Settled = {}
    BY DEF Settled
  <2> QED
    BY <2>5, <2>6, RunsUnstopped
<1> QED
  BY <1>1, EngineInvariance, PTL DEF Spec, StopIsFinal

=============================================================================

--------------------------- MODULE AdapterContext ---------------------------
(***************************************************************************)
(* The resource ledger the adapters of one run share: ExecutionContext      *)
(* (adapters/base.py) as the executor hands it to one adapter call after    *)
(* the other, or to the branches of a parallel group, each with its share.  *)
(*                                                                          *)
(* consumed_budget(name) sums the attempts.  Only that sum and what the     *)
(* running attempt recorded matter to the adapters, so the model keeps the  *)
(* total of the earlier attempts and the record of the running one.         *)
(* Branches of a group work on isolated copies (see ExecutionEngine,        *)
(* BaselineKept): one after the other stands for every interleaving.        *)
(***************************************************************************)
EXTENDS Naturals, Sequences

CONSTANTS MaxBytes,     \* the request's "bytes" budget (wire)
          MaxOutput,    \* its "decompressed_bytes" budget
          MaxAttempts,  \* its "attempts" budget
          Overshoot     \* most a last chunk or a body exceeds a limit

ASSUME BudgetAssumption ==
    MaxBytes \in Nat /\ MaxOutput \in Nat /\ MaxAttempts \in Nat
ASSUME OvershootAssumption == Overshoot \in Nat

VARIABLES
    count,      \* attempts of the run
    used,       \* what the attempts before the running one consumed
    own,        \* what the running attempt recorded so far
    ceiling,    \* the budget the running branch was given
    batch,      \* branches of a parallel group that have not run yet
    call,       \* the adapter call in progress
    run,        \* "running", or "stopped" by a result no node follows
    raw,        \* an acquired source artifact exists
    stored,     \* size of the artifacts adapters made and kept
    spent,      \* bytes adapters and providers took from the network
    lost,       \* bytes moved or stored that no attempt was charged, by cause
    unchecked   \* what was consumed past the budget with no test in its way

ledgerVars == <<count, used, own, ceiling, batch, call, run, raw, stored, spent,
          lost, unchecked>>

Fields == {"bytes", "output"}
Limits == [bytes |-> MaxBytes, output |-> MaxOutput]
Nothing == [bytes |-> 0, output |-> 0]
Use(b, o) == [bytes |-> b, output |-> o]
Plus(u, v) == [f \in Fields |-> u[f] + v[f]]
Least(m, n) == IF m <= n THEN m ELSE n
Most(m, n) == IF m >= n THEN m ELSE n
Above(m, n) == IF m > n THEN m - n ELSE 0

(* Why bytes are missing from the ledger: the call was cancelled because a   *)
(* sibling won, the worker ran into its deadline, a crawl batch or a         *)
(* candidate was dropped, a provider failed without saying what it moved, a  *)
(* form was submitted; or an artifact was stored that nobody measured.       *)
Causes == {"cancelled", "deadline", "dropped", "unreported", "form", "unmetered"}

(* Sequences of nodes the planner puts into one parallel group. *)
Groups == {<<"document", "git_lfs">>, <<"media", "youtube">>,
           <<"reader", "remote_reader">>, <<"cache", "cache">>}
Nodes == {"http", "form", "connector", "cache", "crawl", "variants", "archive",
          "browser", "api", "document", "git_lfs", "media", "youtube", "reader",
          "remote_reader"}

(* limit: what the call may take; puts: sizes still to be stored; sofar:     *)
(* bytes a worker has read, or sizes already stored, and nobody charged.    *)
NoCall == [node |-> "none", phase |-> "idle", limit |-> 0, grouped |-> FALSE,
           puts |-> <<>>, sofar |-> 0]
Phases == {"idle", "begun", "source", "provider", "stream", "local", "store",
           "candidates"}
Results == {"done", "failed", "dependency", "budget", "policy", "deadline",
            "crash"}
(* After these results execute() starts no other node. *)
Stopping == {"budget", "policy", "deadline", "crash"}

Sizes(n) == 0..(n + Overshoot)

Consumed(f) == used[f] + own[f]
Remaining(f) == Above(ceiling[f], Consumed(f))
Affords(f, amount) == amount <= Remaining(f)

Idle == call = NoCall /\ batch = <<>>

LedgerInit ==
    /\ count = 0 /\ used = Nothing /\ own = Nothing /\ ceiling = Limits
    /\ batch = <<>> /\ call = NoCall /\ run = "running"
    /\ raw = FALSE /\ stored = 0
    /\ spent = 0 /\ lost = [c \in Causes |-> 0] /\ unchecked = Nothing

-----------------------------------------------------------------------------
(* The executor starts a node.  The request's own budget applies. *)
StartNode(n) ==
    /\ run = "running" /\ Idle /\ count < MaxAttempts
    /\ call' = [NoCall EXCEPT !.node = n, !.phase = "begun"]
    /\ ceiling' = Limits
    /\ UNCHANGED <<count, used, own, batch, run, raw, stored, spent, lost,
                   unchecked>>

AttemptsExhausted ==
    /\ run = "running" /\ Idle /\ count >= MaxAttempts
    /\ run' = "stopped"
    /\ UNCHANGED <<count, used, own, ceiling, batch, call, raw, stored, spent,
                   lost, unchecked>>

(* Mutant: every branch is given all that is left. *)
WholeForEach(f, size, i) == Above(Limits[f], Consumed(f))

(* Branch i of `size' gets its part of what is left, the first ones the     *)
(* remainder.                                                               *)
Share(f, size, i) ==
    LET left == Above(Limits[f], Consumed(f))
    IN  left \div size + (IF i <= left % size THEN 1 ELSE 0)

StartGroup(g) ==
    /\ run = "running" /\ Idle /\ count + Len(g) <= MaxAttempts
    /\ batch' = [i \in DOMAIN g |->
                   [node |-> g[i],
                    share |-> [f \in Fields |-> Share(f, Len(g), i)]]]
    /\ UNCHANGED <<count, used, own, ceiling, call, run, raw, stored, spent,
                   lost, unchecked>>

(* A branch sees the consumption of its baseline plus its own; here, with   *)
(* the consumption of the branches before it added on both sides.           *)
StartBranch ==
    /\ run = "running" /\ call = NoCall /\ batch # <<>>
    /\ call' = [NoCall EXCEPT !.node = Head(batch).node, !.phase = "begun",
                              !.grouped = TRUE]
    /\ ceiling' = Plus(used, Head(batch).share)
    /\ batch' = Tail(batch)
    /\ UNCHANGED <<count, used, own, run, raw, stored, spent, lost, unchecked>>

-----------------------------------------------------------------------------
(* What an adapter call does to the ledger. *)

At(n, phase) == call.node = n /\ call.phase = phase

(* The attempt is appended; the call goes on in `phase' with a limit. *)
Opens(phase, limit) ==
    /\ count' = count + 1
    /\ call' = [call EXCEPT !.phase = phase, !.limit = limit]
    /\ UNCHANGED <<used, own, ceiling, batch, run, raw, stored, spent, lost,
                   unchecked>>

GoesOn(phase, limit) ==
    /\ call' = [call EXCEPT !.phase = phase, !.limit = limit]
    /\ UNCHANGED <<count, used, own, ceiling, batch, run, raw, stored, spent,
                   lost, unchecked>>

(* The call ends with `recorded' as the attempt's consumed_budget, and      *)
(* execute() reads `result'.                                                *)
Closes(recorded, result) ==
    /\ used' = Plus(used, recorded)
    /\ own' = Nothing
    /\ call' = NoCall
    /\ run' = IF result \in Stopping THEN "stopped" ELSE run
    /\ batch' = IF result \in Stopping THEN <<>> ELSE batch
    /\ UNCHANGED ceiling

Settles(recorded, result) == Closes(recorded, result) /\ UNCHANGED unchecked

(* u is consumed without having been tested against what is left. *)
GoesUnchecked(u) ==
    unchecked' = [f \in Fields |-> unchecked[f] + Above(u[f], Remaining(f))]

(* Nothing was moved, stored or recorded beyond `own'. *)
Ends(result) ==
    /\ Settles(own, result)
    /\ UNCHANGED <<count, raw, stored, spent, lost>>

Loses(cause, n) == lost' = [lost EXCEPT ![cause] = @ + n]

(* The call ends after n bytes were moved that nobody charges. *)
EndsUncharged(n, cause, result) ==
    /\ Settles(own, result)
    /\ spent' = spent + n
    /\ Loses(cause, n)
    /\ UNCHANGED <<count, stored>>

(* The node's timeout, or the cancellation of the run, ends a call in any   *)
(* await; the run stops.  An unhandled error of the store ends it too.      *)
Interrupted ==
    /\ call # NoCall /\ call.phase # "begun"
    /\ \E r \in {"deadline", "crash"} : Ends(r)

(* Another branch of the group produced an accepted artifact.  What a       *)
(* worker had read for this one by then, or n bytes its provider had moved, *)
(* is in no record.  The caches of a group do not stop each other.          *)
CancelledBySibling(n) ==
    /\ call.grouped /\ call.phase # "begun" /\ call.node # "cache"
    /\ n > 0 => call.phase = "provider" /\ call.sofar = 0
    /\ Settles(own, "done")
    /\ spent' = spent + n
    /\ Loses("cancelled", call.sofar + n)
    /\ UNCHANGED <<count, raw, stored>>

Executor ==
    \/ \E n \in Nodes : StartNode(n)
    \/ \E g \in Groups : StartGroup(g)
    \/ StartBranch
    \/ AttemptsExhausted
    \/ Interrupted
    \/ call.grouped /\ \E n \in Sizes(call.limit) : CancelledBySibling(n)
=============================================================================

----------------------------- MODULE AdapterRun -----------------------------
(***************************************************************************)
(* The adapters of one run on their shared ledger: any sequence of nodes    *)
(* and parallel groups the executor may start, retries included, until a    *)
(* result stops the run or the attempts are used up.                        *)
(***************************************************************************)
EXTENDS DocumentAdapter, MediaAdapter, ContentAdapters, TransferAdapters

LedgerNext ==
    \/ Executor
    \/ DocumentStep
    \/ MediaStep
    \/ ContentStep
    \/ TransferStep

LedgerSpec == LedgerInit /\ [][LedgerNext]_ledgerVars

-----------------------------------------------------------------------------
LedgerTypeOK ==
    /\ count \in 0..MaxAttempts
    /\ used \in [Fields -> Nat] /\ own \in [Fields -> Nat]
    /\ ceiling \in [Fields -> Nat]
    /\ \A i \in DOMAIN batch :
          batch[i].node \in Nodes /\ batch[i].share \in [Fields -> Nat]
    /\ call.node \in Nodes \cup {"none"} /\ call.phase \in Phases
    /\ call.limit \in Nat /\ call.sofar \in Nat /\ call.grouped \in BOOLEAN
    /\ \A i \in DOMAIN call.puts : call.puts[i] \in Nat
    /\ run \in {"running", "stopped"} /\ raw \in BOOLEAN
    /\ stored \in Nat /\ spent \in Nat
    /\ lost \in [Causes -> Nat] /\ unchecked \in [Fields -> Nat]

MayGoOn == run = "running" /\ call = NoCall

(* What was moved and never charged because of how a call ended. *)
Uncharged ==
    lost["cancelled"] + lost["dropped"] + lost["unreported"] + lost["form"]

(* A later node cannot reuse a spent allowance.  Whenever the executor may   *)
(* start another node, every byte an adapter or its provider took from the   *)
(* network and every byte of output it kept is in the attempts' consumption, *)
(* although the node that took it failed, was refused or was retried.  The   *)
(* exceptions are the code's, each by its cause: transfers cut off because a *)
(* sibling won, a crawl batch or a candidate whose context was dropped,      *)
(* providers that fail without a report (Git LFS resolvers, snapshot         *)
(* connectors, curl), submitted forms, a yt-dlp worker that ran into its     *)
(* deadline (see NoFreeDeadline); and, of what is kept, the artifacts of the *)
(* structured API, of a crawl and of variants.                               *)
SpentIsGone ==
    MayGoOn =>
        /\ spent <= Consumed("bytes") + Uncharged + lost["deadline"]
        /\ stored <= Consumed("output") + lost["unmetered"]

(* Consumption past the budget stops the run.  If another node may start,    *)
(* the attempts consumed no more than the request allows, whichever branches *)
(* shared it; beyond it go only the bytes no test looks at or whose error    *)
(* does not say so: the tail of an HTTP body, the robots.txt of a crawl, and *)
(* the pages and candidates of a crawl or of variants, whose budget errors   *)
(* are caught.                                                               *)
OverspendStops ==
    MayGoOn => \A f \in Fields : Consumed(f) <= Limits[f] + unchecked[f]

(* What is kept fits the request: all artifacts the adapters of a run make   *)
(* and keep together never exceed its output budget, also while branches,    *)
(* members and screenshots are stored one by one.  On top of it come only    *)
(* the normalized API document, the crawl report and the list of candidates, *)
(* which are put without being measured; they take nothing of it away.       *)
StoredWithinBudget == stored <= MaxOutput + lost["unmetered"]

(* "A later node cannot reuse a predecessor's spent allowance": neither that *)
(* of a yt-dlp worker its deadline ended, which reports its whole allowance  *)
(* as used.                                                                  *)
NoFreeDeadline ==
    MayGoOn => spent <= Consumed("bytes") + Uncharged
=============================================================================

--------------------------- MODULE DocumentAdapter ---------------------------
(***************************************************************************)
(* DocumentAdapter.execute (adapters/documents.py): one document or Git LFS *)
(* node.  The attempt is opened before anything is checked, and every       *)
(* failure but an unexpected one is recorded in it.  What a format is and   *)
(* what its parser produces is abstracted to whether it is accepted and the *)
(* size of the normalized document.                                         *)
(***************************************************************************)
EXTENDS AdapterContext

DocumentNodes == {"document", "git_lfs"}
AtDocument(phase) == call.node \in DocumentNodes /\ call.phase = phase

DocumentBegins ==
    /\ AtDocument("begun")
    /\ Opens("source", 0)

(* No raw artifact, one larger than the parser takes or that the store      *)
(* cannot verify.                                                           *)
DocumentSourceFails ==
    /\ AtDocument("source")
    /\ Ends("failed")

(* _validate_github_raw_target refuses the target or where it led. *)
GithubRawRefused ==
    /\ At("document", "source") /\ raw /\ Affords("output", 1)
    /\ Ends("failed")

(* A pointer that does not follow the grammar. *)
PointerMalformed ==
    /\ At("git_lfs", "source") /\ raw /\ Affords("output", 1)
    /\ Ends("failed")

DocumentOutputExhausted ==
    /\ AtDocument("source") /\ raw /\ ~Affords("output", 1)
    /\ Ends("budget")

(* The body is an LFS pointer: the resolver may return no more than both    *)
(* budgets have left.                                                       *)
PointerFound ==
    /\ At("git_lfs", "source") /\ raw /\ Affords("output", 1)
    /\ IF Affords("bytes", 1)
       THEN GoesOn("provider", Least(Remaining("bytes"), Remaining("output")))
       ELSE Ends("budget")

(* No resolver is configured, or the declared size or the target is refused *)
(* before it is asked.                                                      *)
ResolverRefused ==
    /\ At("git_lfs", "provider")
    /\ \E r \in {"dependency", "failed"} : Ends(r)

(* The resolver fails, times out or returns something else than a body:     *)
(* nothing is recorded of the n bytes it moved.                             *)
ResolverFails(n) ==
    /\ At("git_lfs", "provider")
    /\ EndsUncharged(n, "unreported", "failed")
    /\ UNCHANGED raw

(* Mutant: the body is validated before it is recorded. *)
ValidatedBeforeRecorded(n, valid) ==
    /\ At("git_lfs", "provider")
    /\ spent' = spent + n
    /\ UNCHANGED <<count, raw, stored, lost>>
    /\ IF ~valid
       THEN Settles(own, "failed")
       ELSE Settles(Plus(own, Use(n, n)), IF n > call.limit THEN "budget" ELSE "failed")

(* A body of n bytes: it is recorded first, then measured, then its origin, *)
(* size and digest are compared with the pointer's.                         *)
ResolverReturns(n, valid) ==
    /\ At("git_lfs", "provider")
    /\ spent' = spent + n
    /\ UNCHANGED <<count, raw, stored, lost>>
    /\ IF n <= call.limit /\ valid /\ Remaining("output") > n
       THEN /\ own' = Plus(own, Use(n, n))
            /\ call' = [call EXCEPT !.phase = "local", !.limit = Remaining("output") - n]
            /\ UNCHANGED <<used, ceiling, batch, run, unchecked>>
       ELSE Settles(Plus(own, Use(n, n)),
                    IF n <= call.limit /\ ~valid THEN "failed" ELSE "budget")

DocumentRead ==
    /\ AtDocument("source") /\ raw /\ Affords("output", 1)
    /\ GoesOn("local", Remaining("output"))

(* The parser's process fails, times out or exceeds its output; the format  *)
(* is malformed.                                                            *)
ParserFails ==
    /\ AtDocument("local")
    /\ Ends("failed")

(* A ZIP or OOXML container with unsafe names, too many members or a ratio  *)
(* beyond the request's limits.                                             *)
ContainerRefused ==
    /\ At("document", "local")
    /\ Ends("failed")

ParserMissing ==
    /\ AtDocument("local")
    /\ Ends("dependency")

(* What the worker sent back is not a document of the bounded schema, or    *)
(* its parser's provenance does not match the installed bundle.             *)
WorkerResultRefused ==
    /\ AtDocument("local")
    /\ Ends("failed")

ProvenanceRefused ==
    /\ AtDocument("local")
    /\ Ends("failed")

(* A scanned PDF goes to the OCR provider, whose pages must fit the limit   *)
(* the parser had; a refused answer ends the call.                          *)
OcrFails ==
    /\ At("document", "local")
    /\ \E r \in {"failed", "dependency"} : Ends(r)

(* The normalized document of n bytes, from the parser or from OCR. *)
DocumentParsed(n) ==
    /\ AtDocument("local")
    /\ CASE n > call.limit -> Ends("failed")
         [] n <= call.limit /\ ~Affords("output", n) -> Ends("budget")
         [] OTHER -> /\ call' = [call EXCEPT !.phase = "store", !.puts = <<n>>]
                     /\ UNCHANGED <<count, used, own, ceiling, batch, run, raw,
                                    stored, spent, lost, unchecked>>

(* put() returned: the artifact is appended and the attempt succeeds, its   *)
(* output added to what it recorded.  A failing put fails the attempt.      *)
DocumentStored ==
    /\ AtDocument("store")
    /\ Settles(Plus(own, Use(0, call.puts[1])), "done")
    /\ stored' = stored + call.puts[1]
    /\ UNCHANGED <<count, raw, spent, lost>>

DocumentPutFails ==
    /\ AtDocument("store")
    /\ Ends("failed")

DocumentStep ==
    \/ DocumentBegins
    \/ DocumentSourceFails
    \/ GithubRawRefused
    \/ PointerMalformed
    \/ DocumentOutputExhausted
    \/ PointerFound
    \/ ResolverRefused
    \/ At("git_lfs", "provider") /\ \E n \in Sizes(call.limit) : ResolverFails(n)
    \/ At("git_lfs", "provider")
       /\ \E n \in Sizes(call.limit), v \in BOOLEAN : ResolverReturns(n, v)
    \/ DocumentRead
    \/ ParserFails
    \/ ContainerRefused
    \/ ParserMissing
    \/ WorkerResultRefused
    \/ ProvenanceRefused
    \/ OcrFails
    \/ AtDocument("local") /\ \E n \in Sizes(call.limit) : DocumentParsed(n)
    \/ DocumentStored
    \/ DocumentPutFails
=============================================================================

---------------------------- MODULE MediaAdapter ----------------------------
(***************************************************************************)
(* MediaAdapter.execute (adapters/media.py) with one action per route of    *)
(* _extract, and the live YouTube metadata provider (yt_dlp.py) whose       *)
(* worker moves bytes of its own: they are charged to the attempt before    *)
(* the payload is measured, and by _record_provider_failure_usage when the  *)
(* provider's error carries them.                                           *)
(***************************************************************************)
EXTENDS AdapterContext

CONSTANT ProviderCap    \* YTDLPMetadataWorker.maximum_network_bytes
ASSUME ProviderCapAssumption == ProviderCap \in Nat

MediaNodes == {"media", "youtube"}
AtMedia(phase) == call.node \in MediaNodes /\ call.phase = phase

MediaBegins ==
    /\ AtMedia("begun")
    /\ Opens("source", 0)

MediaSourceFails ==
    /\ AtMedia("source")
    /\ Ends("failed")

(* The provider's allowance is taken from what both budgets have left; the  *)
(* local routes need none.                                                  *)
MediaRead ==
    /\ AtMedia("source") /\ raw
    /\ GoesOn("local", Least(Remaining("bytes"), Remaining("output")))

RouteFails(results) ==
    /\ At("media", "local")
    /\ \E r \in results : Ends(r)

(* The header is malformed or its decoder contradicts it. *)
ImageRefused == RouteFails({"failed", "dependency"})
ImageHeaderRefused == RouteFails({"failed"})
ImageTextFails == RouteFails({"failed", "dependency"})
ProbeFails == RouteFails({"failed", "dependency"})
TranscriptFails == RouteFails({"failed", "dependency"})
FeedRefused == RouteFails({"failed"})
ThumbnailFails == RouteFails({"failed", "dependency"})
ExifRefused == RouteFails({"failed"})

(* The body in hand already is an info document: no provider is asked. *)
PreacquiredDocument ==
    /\ At("youtube", "local")
    /\ GoesOn("store", call.limit)

PreacquiredRefused ==
    /\ At("youtube", "local")
    /\ Ends("failed")

TargetRefused ==
    /\ At("youtube", "local")
    /\ Ends("failed")

AskProvider ==
    /\ At("youtube", "local")
    /\ IF call.limit > 0 THEN GoesOn("provider", call.limit) ELSE Ends("budget")

(* The call ends and the attempt is charged c. *)
ProviderEnds(c, result) ==
    /\ At("youtube", "provider")
    /\ Settles(Plus(own, Use(c, c)), result)
    /\ UNCHANGED <<count, raw, stored, spent, lost>>

(* yt-dlp is not installed, or the worker rejects its target: it read       *)
(* nothing.                                                                 *)
ProviderUnavailable ==
    /\ call.sofar = 0
    /\ \/ ProviderEnds(0, "dependency")
       \/ ProviderEnds(0, "failed")

WorkerLimit == Least(call.limit, ProviderCap)

(* bounded_read in the worker: never more than what is left of its limit. *)
WorkerReads(n) ==
    /\ At("youtube", "provider")
    /\ n <= Above(WorkerLimit, call.sofar)
    /\ call' = [call EXCEPT !.sofar = @ + n]
    /\ spent' = spent + n
    /\ UNCHANGED <<count, used, own, ceiling, batch, run, raw, stored, lost,
                   unchecked>>

(* A read that fills the limit, or a Content-Length beyond it: the failure  *)
(* is the request's when the limit was, and the worker's own otherwise.     *)
WorkerExhausted ==
    ProviderEnds(call.sofar, IF call.limit <= ProviderCap THEN "budget" ELSE "failed")

(* A redirect, an address or a header the guards refuse, an extraction that *)
(* fails: the envelope says what was read.                                  *)
WorkerBlocked == ProviderEnds(call.sofar, "failed")

(* The worker is killed, exits with an error or answers with something that *)
(* cannot be read: all it was granted counts as used.                       *)
WorkerFails == ProviderEnds(WorkerLimit, "failed")

(* The metadata does not project to the closed schema, in the worker's      *)
(* answer or in the adapter: charged as reported.                           *)
ProjectionRefused == ProviderEnds(call.sofar, "failed")

(* Another provider than the worker reports more than it was granted. *)
ProviderExceeds(n) ==
    /\ At("youtube", "provider") /\ call.sofar = 0 /\ n > call.limit
    /\ Settles(Plus(own, Use(n, n)), "budget")
    /\ spent' = spent + n
    /\ UNCHANGED <<count, raw, stored, lost>>

(* Another provider fails, or answers with something else, and says nothing *)
(* of the n bytes it moved.                                                 *)
ProviderUnreported(n) ==
    /\ At("youtube", "provider") /\ call.sofar = 0
    /\ \E r \in {"failed", "dependency", "budget"} :
          EndsUncharged(n, "unreported", r)
    /\ UNCHANGED raw

(* The slot's timer covers the wait for the slot and the whole worker.  Its *)
(* error carries the allowance, but is wrapped by _youtube_metadata's       *)
(* "except Exception": the usage and the deadline are gone, and the node    *)
(* fails like any other.                                                    *)
WorkerDeadline ==
    /\ At("youtube", "provider")
    /\ Settles(own, "failed")
    /\ Loses("deadline", call.sofar)
    /\ UNCHANGED <<count, raw, stored, spent>>

WorkerReturns ==
    /\ At("youtube", "provider")
    /\ own' = Plus(own, Use(call.sofar, call.sofar))
    /\ call' = [call EXCEPT !.phase = "store", !.sofar = 0]
    /\ UNCHANGED <<count, used, ceiling, batch, run, raw, stored, spent, lost,
                   unchecked>>

RouteExtracts ==
    /\ At("media", "local")
    /\ GoesOn("store", call.limit)

MediaOutputTooLarge ==
    /\ AtMedia("store") /\ call.puts = <<>>
    /\ Ends("failed")

(* Mutant: the payload is not measured. *)
PayloadUnmeasured(n) ==
    /\ AtMedia("store") /\ call.puts = <<>>
    /\ call' = [call EXCEPT !.puts = <<n>>]
    /\ UNCHANGED <<count, used, own, ceiling, batch, run, raw, stored, spent,
                   lost, unchecked>>

(* The payload of n bytes must fit what the provider left. *)
PayloadMeasured(n) ==
    /\ AtMedia("store") /\ call.puts = <<>>
    /\ IF Affords("output", n)
       THEN /\ call' = [call EXCEPT !.puts = <<n>>]
            /\ UNCHANGED <<count, used, own, ceiling, batch, run, raw, stored,
                           spent, lost, unchecked>>
       ELSE Ends("budget")

(* put() returned.  The success record replaces what was recorded by the    *)
(* provider's usage plus the payload.                                       *)
MediaStored ==
    /\ AtMedia("store") /\ call.puts # <<>>
    /\ Settles(Use(own.bytes, own.output + call.puts[1]), "done")
    /\ stored' = stored + call.puts[1]
    /\ UNCHANGED <<count, raw, spent, lost>>

MediaPutFails ==
    /\ AtMedia("store") /\ call.puts # <<>>
    /\ Ends("failed")

YoutubeWorker ==
    \/ WorkerExhausted
    \/ WorkerBlocked
    \/ WorkerFails
    \/ ProjectionRefused
    \/ WorkerDeadline
    \/ WorkerReturns
    \/ At("youtube", "provider") /\ \E n \in 1..WorkerLimit : WorkerReads(n)
    \/ At("youtube", "provider") /\ \E n \in Sizes(call.limit) : ProviderExceeds(n)
    \/ At("youtube", "provider") /\ \E n \in Sizes(call.limit) : ProviderUnreported(n)

MediaStep ==
    \/ MediaBegins \/ MediaSourceFails \/ MediaRead
    \/ ImageRefused \/ ImageHeaderRefused \/ ImageTextFails \/ ProbeFails
    \/ TranscriptFails \/ FeedRefused \/ ThumbnailFails \/ ExifRefused
    \/ PreacquiredDocument \/ PreacquiredRefused \/ TargetRefused \/ AskProvider
    \/ ProviderUnavailable
    \/ YoutubeWorker
    \/ RouteExtracts \/ MediaOutputTooLarge
    \/ AtMedia("store") /\ \E n \in Sizes(MaxOutput) : PayloadMeasured(n)
    \/ MediaStored \/ MediaPutFails
=============================================================================

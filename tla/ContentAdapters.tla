--------------------------- MODULE ContentAdapters ---------------------------
(***************************************************************************)
(* The adapters that read what was acquired and store what they make of it: *)
(* archive.py, browser.py, reader.py and api.py.  They differ in when the   *)
(* attempt is opened, in what they require before and after the work, and   *)
(* in when the attempt is charged.                                          *)
(***************************************************************************)
EXTENDS AdapterContext

(* The artifacts of `sizes' are put one after the other, an await each, and *)
(* the attempt is charged after the last one.                               *)
StoresAll(sizes) ==
    /\ call' = [call EXCEPT !.phase = "store", !.puts = sizes]
    /\ UNCHANGED <<count, used, own, ceiling, batch, run, raw, stored, spent,
                   lost, unchecked>>

Total(s) == IF s = <<>> THEN 0 ELSE IF Len(s) = 1 THEN s[1] ELSE s[1] + s[2]

-----------------------------------------------------------------------------
(* ArchiveAdapter: everything is checked before the attempt is opened. *)

ArchiveRefused ==
    /\ At("archive", "begun")
    /\ IF raw /\ ~Affords("output", 1) THEN Ends("budget") ELSE Ends("failed")

ArchiveBegins ==
    /\ At("archive", "begun") /\ raw /\ Affords("output", 1)
    /\ Opens("local", Remaining("output"))

(* The worker's process fails or its answer is not a list of members. *)
ExtractionFails ==
    /\ At("archive", "local")
    /\ Ends("failed")

(* A ZIP or TAR with unsafe members, too many of them, or too high a ratio. *)
MembersRefused ==
    /\ At("archive", "local")
    /\ Ends("failed")

(* The members and their manifest: the limit held for the members alone. *)
Extracted(manifest, members) ==
    /\ At("archive", "local") /\ members <= call.limit
    /\ IF Affords("output", manifest + members)
       THEN StoresAll(<<manifest, members>>)
       ELSE Ends("budget")

-----------------------------------------------------------------------------
(* BrowserAdapter handles no error of its own. *)

BrowserRefused ==
    /\ At("browser", "begun")
    /\ \E r \in {"failed", "dependency"} : Ends(r)

BrowserBegins ==
    /\ At("browser", "begun") /\ raw
    /\ Opens("source", 0)

BrowserReads ==
    /\ At("browser", "source")
    /\ IF Affords("output", 1) THEN GoesOn("local", Remaining("output"))
                               ELSE Ends("budget")

RenderFails ==
    /\ At("browser", "local")
    /\ \E r \in {"failed", "dependency", "budget"} : Ends(r)

(* HTML, text and perhaps a screenshot, measured together. *)
Rendered(html, rest) ==
    /\ At("browser", "local")
    /\ IF Affords("output", html + rest) THEN StoresAll(<<html, rest>>)
                                         ELSE Ends("budget")

-----------------------------------------------------------------------------
(* ReaderAdapter: the local readers and the remote one. *)

ReaderNodes == {"reader", "remote_reader"}

ReaderRefused ==
    /\ call.node \in ReaderNodes /\ call.phase = "begun"
    /\ Ends("failed")

ReaderBegins ==
    /\ call.node \in ReaderNodes /\ call.phase = "begun" /\ raw
    /\ Opens("source", 0)

ReaderExhausted ==
    /\ call.node \in ReaderNodes /\ call.phase = "source"
    /\ ~Affords("output", 1) \/ (call.node = "remote_reader" /\ ~Affords("bytes", 1))
    /\ Ends("budget")

ReaderReads ==
    /\ At("reader", "source") /\ Affords("output", 1)
    /\ GoesOn("local", Remaining("output"))

(* An extractor that is not installed, finds nothing, or a normalized       *)
(* document whose text is larger than what is left.                         *)
ReaderFails ==
    /\ At("reader", "local")
    /\ \E r \in {"failed", "dependency", "budget"} : Ends(r)

(* No template, a private target or a policy that forbids remote readers. *)
RemoteRefused ==
    /\ At("remote_reader", "source") /\ Affords("output", 1) /\ Affords("bytes", 1)
    /\ \E r \in {"failed", "dependency", "policy"} : Ends(r)

RemoteAsked ==
    /\ At("remote_reader", "source") /\ Affords("output", 1) /\ Affords("bytes", 1)
    /\ GoesOn("stream", Least(Remaining("bytes"), Remaining("output")))

(* A chunk of n bytes is charged, then compared with the limit. *)
RemoteChunk(n) ==
    /\ At("remote_reader", "stream")
    /\ spent' = spent + n
    /\ IF Total(call.puts) + n > call.limit
       THEN /\ Settles(Plus(own, Use(n, 0)), "budget")
            /\ UNCHANGED <<count, raw, stored, lost>>
       ELSE /\ own' = Plus(own, Use(n, 0))
            /\ call' = [call EXCEPT !.puts = <<Total(@) + n>>]
            /\ UNCHANGED <<count, used, ceiling, batch, run, raw, stored, lost,
                           unchecked>>

RemoteFails ==
    /\ At("remote_reader", "stream")
    /\ Ends("failed")

(* The text of n bytes, measured before it is stored.  Decoding what was    *)
(* received writes up to three bytes for one that is not UTF-8.             *)
TextMeasured(n) ==
    /\ call.node \in ReaderNodes
    /\ \/ call.phase = "local"
       \/ call.phase = "stream" /\ n \in Total(call.puts)..(3 * Total(call.puts))
    /\ IF Affords("output", n) THEN StoresAll(<<n>>) ELSE Ends("budget")

-----------------------------------------------------------------------------
(* StructuredAPIAdapter neither requires nor charges a budget. *)

ApiBegins ==
    /\ At("api", "begun")
    /\ Opens("local", 0)

(* A mutating request nobody approved. *)
ApiBlocked ==
    /\ At("api", "local")
    /\ Ends("policy")

(* No source, a payload that is malformed or breaks its schema. *)
ApiRefused ==
    /\ At("api", "local")
    /\ Ends("failed")

(* The normalized document of n bytes is put and appended, unmeasured. *)
ApiNormalized(n) ==
    /\ At("api", "local") /\ raw
    /\ Settles(own, "done")
    /\ stored' = stored + n
    /\ Loses("unmetered", n)
    /\ UNCHANGED <<count, raw, spent>>

-----------------------------------------------------------------------------
StoringNodes == {"archive", "browser"} \cup ReaderNodes

(* put() returned and the artifact was appended; others follow. *)
PartStored ==
    /\ call.node \in StoringNodes /\ call.phase = "store" /\ Len(call.puts) = 2
    /\ stored' = stored + call.puts[1]
    /\ call' = [call EXCEPT !.puts = Tail(@), !.sofar = @ + call.puts[1]]
    /\ UNCHANGED <<count, used, own, ceiling, batch, run, raw, spent, lost,
                   unchecked>>

LastStored ==
    /\ call.node \in StoringNodes /\ call.phase = "store" /\ Len(call.puts) = 1
    /\ Settles(Plus(own, Use(0, call.sofar + call.puts[1])), "done")
    /\ stored' = stored + call.puts[1]
    /\ UNCHANGED <<count, raw, spent, lost>>

ContentStep ==
    \/ ArchiveRefused \/ ArchiveBegins \/ ExtractionFails \/ MembersRefused
    \/ At("archive", "local") /\ \E m, n \in Sizes(MaxOutput) : Extracted(m, n)
    \/ BrowserRefused \/ BrowserBegins \/ BrowserReads \/ RenderFails
    \/ At("browser", "local") /\ \E m, n \in Sizes(MaxOutput) : Rendered(m, n)
    \/ ReaderRefused \/ ReaderBegins \/ ReaderExhausted \/ ReaderReads
    \/ ReaderFails \/ RemoteRefused \/ RemoteAsked
    \/ At("remote_reader", "stream") /\ \E n \in 1..(1 + Overshoot) : RemoteChunk(n)
    \/ RemoteFails
    \/ call.node \in ReaderNodes /\ \E n \in Sizes(MaxOutput) : TextMeasured(n)
    \/ ApiBegins \/ ApiBlocked \/ ApiRefused
    \/ At("api", "local") /\ \E n \in Sizes(0) : ApiNormalized(n)
    \/ PartStored \/ LastStored
=============================================================================

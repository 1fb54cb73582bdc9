------------------------------- MODULE Planner -------------------------------
(***************************************************************************)
(* The deterministic planner (src/fetech/planning.py) and the coordinator  *)
(* that holds every other planning backend to its answer                   *)
(* (src/fetech/logic/coordinator.py), as operators on a request.           *)
(*                                                                         *)
(* A request is a record: the family its target's suffix belongs to, the   *)
(* named API its host belongs to (or not), the set of capabilities and     *)
(* words it asks for, whether it crawls, whether it carries an             *)
(* authentication reference, its deny and allow lists, whether its         *)
(* approvals are granted, and what is installed.  Each ordered list of     *)
(* capabilities is given by representatives; the lists whose members the   *)
(* code treats differently are complete.                                   *)
(***************************************************************************)
EXTENDS Naturals, Sequences, FiniteSets, SequencesExt

Sessions   == <<"login_session", "oauth">>
Documents  == <<"pdf", "csv", "zip_archive">>
Media      == <<"image_metadata", "thumbnail">>
Readers    == <<"raw_html", "clean_text", "main_article">>
Engines    == <<"playwright", "puppeteer">>
InBrowser  == {"screenshot"}                \* rendered by any browser node
InHttp     == {"bearer_token"}              \* applied by any HTTP node
Apis       == <<"rest", "json_endpoint">>
SearchAdapters == <<"search_engine_cache_adapter", "alternate_search_cache_adapter">>
PreCaches  == <<"previous_successful_snapshot">> \o SearchAdapters
                 \o <<"web_archive", "internet_archive_snapshot", "cdn_copy">>
PostCaches == <<"search_snippet_cache", "search_cache", "local_snapshot",
                "browser_cache", "rag_document_cache">>
SearchCaches == {"search_snippet_cache", "search_cache"}
HttpMethods  == <<"http_head", "http_post", "browser_header_http", "range_request">>
HttpCapabilities == ToSet(HttpMethods) \cup {"http_get"}
Caches     == ToSet(PreCaches) \cup ToSet(PostCaches)
Browsers   == ToSet(Engines) \cup InBrowser

\* what the request must be able to find in its plan
Schedulable ==
    Caches \cup HttpCapabilities \cup Browsers \cup InHttp \cup {"csrf_token", "form_submit"}
      \cup UNION { ToSet(s) : s \in {Sessions, Documents, Media, Readers, Apis} }

Chosen(order, r) == SelectSeq(order, LAMBDA c : c \in r.outputs)
Asks(r, capabilities) == r.outputs \cap capabilities # {}

----------------------------------------------------------------------------
(* Classification *)

\* classify_target: the first test that applies; "document", "media",
\* "archive" and "api" also stand for the words a request may use instead
Classify(r) ==
    IF r.outputs # {} /\ r.outputs \subseteq Caches THEN "cache"
    ELSE IF Asks(r, ToSet(Documents))
         THEN IF "zip_archive" \in r.outputs THEN "archive" ELSE "document"
    ELSE IF Asks(r, ToSet(Media)) THEN "media"
    ELSE IF Asks(r, ToSet(Apis)) \/ r.named THEN "api"
    ELSE IF r.suffix = "document" \/ "document" \in r.outputs THEN "document"
    ELSE IF r.suffix = "media" \/ "media" \in r.outputs THEN "media"
    ELSE IF r.suffix = "archive" \/ "archive" \in r.outputs THEN "archive"
    ELSE IF r.suffix = "api" \/ "api" \in r.outputs THEN "api"
    ELSE "web"

HttpCapability(r) ==
    IF Chosen(HttpMethods, r) = <<>> THEN "http_get" ELSE Head(Chosen(HttpMethods, r))

Permitted(capability, r) ==
    /\ capability \notin r.deny
    /\ r.allow # {} /\ capability \notin r.allow =>
         capability \in HttpCapabilities \cup {"url_normalisation", "url_validation"}

\* what a family extracts when the request names nothing: from the suffix
DocumentCapabilities(r) ==
    LET asked == SelectSeq(Chosen(Documents, r), LAMBDA c : c # "zip_archive")
    IN  IF asked # <<>> THEN asked ELSE <<"pdf">>
MediaCapabilities(r) ==
    IF Chosen(Media, r) # <<>> THEN Chosen(Media, r) ELSE <<"image_metadata">>
ApiCapability(r) ==
    IF Chosen(Apis, r) # <<>> THEN Head(Chosen(Apis, r)) ELSE "json_endpoint"

----------------------------------------------------------------------------
(* Nodes.  A node is named after its adapter and its capability.           *)

None == <<>>
Id(adapter, capability) == <<adapter, capability>>

\* PlanNode and RetryRule with their defaults
PlanNode(adapter, capability, deps) ==
    [id |-> Id(adapter, capability), adapter |-> adapter, capability |-> capability,
     deps |-> deps, fallback |-> None, group |-> "none", stops |-> FALSE,
     retries |-> 1, approval |-> FALSE]

Core ==
    << PlanNode("core", "url_normalisation", {}),
       PlanNode("core", "url_validation", {Id("core", "url_normalisation")}) >>

SessionNodes(r) ==
    [k \in DOMAIN Chosen(Sessions, r) |->
        [PlanNode("auth", Chosen(Sessions, r)[k], {Id("core", "url_validation")})
           EXCEPT !.retries = 0]]

\* http_dependency: the session, when one is asked for
Entry(r) == Last(Core \o SessionNodes(r)).id

\* search caches need a search adapter; the lookups replace each other in turn
PreCacheAsked(r) ==
    IF Asks(r, SearchCaches) /\ ~Asks(r, ToSet(SearchAdapters))
    THEN r.outputs \cup {"search_engine_cache_adapter"} ELSE r.outputs

PreCacheNodes(r) ==
    LET asked == SelectSeq(PreCaches, LAMBDA c : c \in PreCacheAsked(r) /\ Permitted(c, r))
    IN  [k \in DOMAIN asked |->
           [PlanNode("cache", asked[k], {Entry(r)}) EXCEPT
              !.fallback = IF k = 1 THEN None ELSE Id("cache", asked[k - 1]),
              !.stops = TRUE]]

\* mutant of HttpRetries: every method is retried alike
HttpRetriesAlways(r) == 2

\* a POST is never retried
HttpRetries(r) == IF HttpCapability(r) = "http_post" THEN 0 ELSE 2

HttpNode(r) ==
    [PlanNode("http", HttpCapability(r), {Entry(r)}) EXCEPT
       !.fallback = IF /\ Classify(r) = "cache" /\ PreCacheNodes(r) # <<>>
                       /\ ~Asks(r, {"browser_cache", "rag_document_cache"})
                    THEN Last(PreCacheNodes(r)).id ELSE None,
       !.retries = HttpRetries(r),
       !.stops = Classify(r) \in {"api", "document", "media", "archive"},
       !.approval = HttpCapability(r) = "http_post"]

\* csrf_token, then form_submit, each after what was acquired before
FormNodes(r) ==
    LET http == HttpNode(r).id
        csrf == IF "csrf_token" \in r.outputs
                THEN << [PlanNode("auth", "csrf_token", {http}) EXCEPT !.retries = 0] >>
                ELSE <<>>
        source == IF csrf = <<>> THEN http ELSE Id("auth", "csrf_token")
        form == IF "form_submit" \in r.outputs
                THEN << [PlanNode("auth", "form_submit", {source}) EXCEPT
                            !.retries = 0, !.approval = TRUE] >>
                ELSE <<>>
    IN  csrf \o form

Acquired(r) == Last(<<HttpNode(r)>> \o FormNodes(r)).id

\* _reader_nodes: a parallel group whose members replace each other in turn
ReaderNodes(r, dep) ==
    LET selected == IF Chosen(Readers, r) # <<>> THEN Chosen(Readers, r)
                                                 ELSE <<"clean_text", "main_article">>
    IN  [k \in DOMAIN selected |->
           [PlanNode("reader", selected[k], {dep}) EXCEPT
              !.group = "static-readers", !.stops = TRUE,
              !.fallback = IF k = 1 THEN None ELSE Id("reader", selected[k - 1])]]

BrowserNode(r, reader) ==
    [PlanNode("browser",
              IF Chosen(Engines, r) # <<>> THEN Head(Chosen(Engines, r)) ELSE "playwright",
              {reader}) EXCEPT
       !.fallback = IF Asks(r, Browsers) THEN None ELSE reader, !.stops = TRUE]

WebNodes(r, acquired) ==
    LET alternatives == IF r.authenticated THEN <<>>
                        ELSE <<PlanNode("variants", "candidate_url_expansion", {acquired})>>
        readers == ReaderNodes(r, IF r.authenticated THEN acquired
                                  ELSE Id("variants", "candidate_url_expansion"))
    IN  alternatives \o readers
          \o (IF r.browser THEN <<BrowserNode(r, Last(readers).id)>> ELSE <<>>)

\* document and media extractors run side by side
Extractors(acquired, adapter, capabilities, group) ==
    [k \in DOMAIN capabilities |->
        [PlanNode(adapter, capabilities[k], {acquired}) EXCEPT
           !.group = group, !.stops = TRUE]]

Stopping(node) == <<[node EXCEPT !.stops = TRUE]>>

\* the nodes of the request's intent or of its family
FamilyNodes(r, acquired) ==
    LET family == Classify(r) IN
    CASE r.crawl -> Stopping(PlanNode("discovery", "depth_limited_crawl", {acquired}))
      [] ~r.crawl /\ family = "web" /\ HttpCapability(r) # "http_head" -> WebNodes(r, acquired)
      [] ~r.crawl /\ family = "document" ->
           Extractors(acquired, "documents", DocumentCapabilities(r), "document-extractors")
      [] ~r.crawl /\ family = "media" ->
           Extractors(acquired, "media", MediaCapabilities(r), "media-extractors")
      [] ~r.crawl /\ family = "archive" ->
           Stopping(PlanNode("archive", "zip_archive", {acquired}))
      [] ~r.crawl /\ family = "api" ->
           Stopping(PlanNode("api", ApiCapability(r), {acquired}))
      [] OTHER -> <<>>

Terminal(family, acquired) == IF family = <<>> THEN acquired ELSE Last(family).id

\* rag_document_cache and browser_cache bring the node that makes what they
\* store, unless the plan has one
RagProducer(r, family, acquired) ==
    LET there == SelectSeq(family,
                           LAMBDA n : n.adapter = "reader" /\ n.capability = "clean_text")
    IN  IF "rag_document_cache" \in r.outputs /\ there = <<>>
        THEN <<PlanNode("reader", "clean_text",
                        {IF Classify(r) = "document" THEN Terminal(family, acquired) ELSE acquired})>>
        ELSE <<>>

By(adapter, nodes) == SelectSeq(nodes, LAMBDA n : n.adapter = adapter)

BrowserProducer(r, family, acquired) ==
    IF "browser_cache" \in r.outputs /\ By("browser", family) = <<>>
    THEN <<PlanNode("browser", "playwright", {acquired})>> ELSE <<>>

\* where a cache strategy takes its body from
CacheSource(capability, r, family, acquired) ==
    LET searches == SelectSeq(SearchAdapters,
                      LAMBDA c : \E k \in DOMAIN PreCacheNodes(r) :
                                    PreCacheNodes(r)[k].capability = c)
    IN  CASE capability \in SearchCaches /\ searches # <<>> -> Id("cache", Head(searches))
          [] capability = "rag_document_cache" -> Id("reader", "clean_text")
          [] capability = "browser_cache" ->
               IF By("browser", family) = <<>> THEN Id("browser", "playwright")
               ELSE Last(By("browser", family)).id
          [] OTHER -> Terminal(family, acquired)

PostCacheNodes(r, family, acquired) ==
    LET asked == Chosen(PostCaches, r) IN
    [k \in DOMAIN asked |->
       [PlanNode("cache", asked[k], {CacheSource(asked[k], r, family, acquired)}) EXCEPT
          !.group = "cache-strategies"]]

Nodes(r) ==
    LET acquired == Acquired(r)
        family   == FamilyNodes(r, acquired)
    IN  Core \o SessionNodes(r) \o PreCacheNodes(r) \o <<HttpNode(r)>> \o FormNodes(r)
          \o family \o RagProducer(r, family, acquired)
          \o BrowserProducer(r, family, acquired) \o PostCacheNodes(r, family, acquired)

\* plan(): the nodes the request's lists permit
Filtered(r) == SelectSeq(Nodes(r), LAMBDA n : Permitted(n.capability, r))

----------------------------------------------------------------------------
(* Refusals *)

Ids(nodes) == { nodes[k].id : k \in DOMAIN nodes }
Capabilities(nodes) == { nodes[k].capability : k \in DOMAIN nodes }
Adapters(nodes) == { nodes[k].adapter : k \in DOMAIN nodes }

\* the errors raised while nodes are collected
Contradictory(r) ==
    \/ Len(Chosen(Sessions, r)) > 1
    \/ ~r.crawl /\ Classify(r) = "api" /\ Len(Chosen(Apis, r)) > 1
    \/ "rag_document_cache" \in r.outputs /\ ~Permitted("clean_text", r)
    \/ /\ "browser_cache" \in r.outputs
       /\ \/ {Classify(r), Classify([r EXCEPT !.outputs = {}])}
                \cap {"document", "media", "archive"} # {}
          \/ By("browser", FamilyNodes(r, Acquired(r))) = <<>> /\ ~Permitted("playwright", r)

\* _validate_nodes: a node whose dependency the lists took away
Orphaned(nodes) == \E k \in DOMAIN nodes : ~(nodes[k].deps \subseteq Ids(nodes))

\* _validate_requested_schedulable_outputs
Unplanned(nodes, r) ==
    LET excused == (IF r.outputs = {"clean_text"} /\ (Classify(r) # "web" \/ r.crawl)
                    THEN {"clean_text"} ELSE {})
                   \cup (IF "browser" \in Adapters(nodes) THEN InBrowser ELSE {})
                   \cup (IF "http" \in Adapters(nodes) THEN InHttp ELSE {})
    IN  ~((r.outputs \cap Schedulable) \ excused \subseteq Capabilities(nodes))

Refused(nodes, r) ==
    \/ Contradictory(r)
    \/ Capabilities(nodes) \cap HttpCapabilities = {}
    \/ Orphaned(nodes)
    \/ Unplanned(nodes, r)

----------------------------------------------------------------------------
(* The plan the executor gets *)

\* adapters that end their own attempt when they fail
SettlingAdapters == {"http", "auth", "cache", "media", "documents", "archive", "api"}

\* a node, as the executor sees it
Step(nodes, k, r) ==
    LET n == nodes[k] IN
    [deps     |-> { j \in DOMAIN nodes : nodes[j].id \in n.deps },
     group    |-> n.group,
     fallback |-> n.fallback # None,
     stops    |-> n.stops,
     approval |-> IF ~n.approval THEN "free" ELSE IF r.approved THEN "granted" ELSE "missing",
     adapter  |-> n.adapter \notin r.absent,
     logs     |-> n.adapter # "core",
     expands  |-> n.adapter \in {"discovery", "variants"},
     settles  |-> n.adapter \in SettlingAdapters,
     mutates  |-> n.capability \in {"http_post", "form_submit"},
     retries  |-> n.retries]

\* LogicCoordinator.plan: a backend's proposal is taken if it is the
\* planner's own sequence of nodes, and replaced by that otherwise
Coordinated(proposal, nodes) == IF proposal = nodes THEN proposal ELSE nodes

Plan(nodes, r) == [k \in DOMAIN nodes |-> Step(nodes, k, r)]
=============================================================================

# Fetech in TLA+

Fetech (`src/src/fetech`) is a content-acquisition runtime: a request becomes a
plan of adapter calls, the plan is executed under budgets and policy, everything
that happened is recorded in a durable ledger, and the bytes obtained go to a
content-addressed store. The modules here model the parts of it that keep state
and run concurrently, check them with TLC on small instances and prove their safety
properties with TLAPS for instances of every size.

File and line references are to `src/src/fetech/` unless they say otherwise;
`PROJECT.json` maps every definition to its lines.

## 1. Inventory

| Component (source) | State | Operations | Talks to | Hard behaviour |
| --- | --- | --- | --- | --- |
| Network scheduler (`scheduling.py`) | waiter deque, capacity counters, pacing history, one wake-up timer, bound event loop | `slot` (enter, deadline, leave), `_pump`, `_wake` | every adapter that opens a connection | a grant, a cancellation and a deadline reach one task in any order; one timer for all paced waiters; bounded history |
| Gateway (`gateway.py`, `daemon.py`, `client.py`) | `_initialized`, one task per run | `initialize`/recovery, `submit`, `fetch`, `wait`, `close` | ledger, planner, engine | cancellation at each await, crash between commits, two first callers |
| Event ledger (`ledger.py`) | SQLite runs and events, subscriber queues | `create_run`, `update_run`, `append`, `stream`, `unfinished_runs` | gateway, engine, HTTP clients | commit and publication are two steps, and a cancellation may fall between them; replay overlaps the queue |
| Execution engine (`executor.py`, `adapters/base.py`) | execution context: attempts, artifacts, acceptance; node cursor, flags | node loop, parallel batches, retries, deadline, merge, status | adapters, ledger | winners cancel losers, budgets are partitioned, branches run on copies, adapters hang |
| Content store (`storage.py`) | files at digest paths, staging files | `put`, `get` | adapters (worker threads) | writers race on one path; power loss; damage between stat and read |
| HTTP adapter (`adapters/http.py`, `transport.py`, `http3.py`) | request state of one attempt | redirect loop, refresh, robots, bounded read | scheduler, auth, policy | credentials are per origin, refresh happens at most once, budgets are cumulative over hops |
| Adapters that acquire and convert (`adapters/documents.py`, `media.py`, `archive.py`, `browser.py`, `reader.py`, `api.py`, `discovery.py`, `variants.py`, `yt_dlp.py`) | the attempts of the run's context | one `execute` each, sub-fetches of crawls and variants | store, subprocesses, HTTP adapter | a failure, a cancellation or a deadline after bytes were used and before they are charged |
| Cache and snapshots (`adapters/cache.py`) | immutable record files by partitioned key | store, lookup, not_modified, connectors | content store | records and bodies are made durable apart; partitions; latest record while others are added |
| Wayback (`wayback.py`) | request state | CDX, replay | cache adapter | redirect and byte budgets |
| Authentication (`auth.py`, `auth_flows.py`, `adapters/auth.py`) | credentials, refresh material, form proposals | session validation, refresh, CSRF extraction, form submission | HTTP adapter | expiry while in use and while a crawl waits for robots.txt, two runs with one reference, one approval per submission |
| Planner and logic backends (`planning.py`, `logic/`) | none that lasts | plan, propose, validate, fall back | gateway, engine | retries and dependencies of what the engine will run |
| Subprocesses and isolation (`logic/process.py`, `worker_isolation.py` and the bootstraps) | child process, pipes, cgroup lease | spawn, handshake, bounded communicate, kill, clean up | documents, media, archive, browser, logic backends | repeated cancellation during cleanup; a child that stops half-way into its sandbox |
| URL and output policy, quality, registry | none | pure predicates | all | - |
| Context broker, provenance graph, CLI, MCP, configuration, data model | none of their own | projections, argument parsing, records | gateway | - |

What makes each modelled component correct:

* **scheduler**: ceilings hold and no slot leaks; starts on one host are paced
  although memory is bounded; nobody waits without something that will wake them;
* **gateway and ledger**: every run reaches a final state once, across
  cancellation, failure, close and crash; recovery touches only lost runs; a
  follower of a run sees what was published before the run was stored as finished,
  each event once and causes first, and its stream ends;
* **engine**: the cumulative attempts budget, isolation of parallel branches, no
  task left behind, a stop that stops, termination although adapters hang;
* **HTTP request**: a credential, a login's cookies and a form's body reach nobody
  but the origin they are meant for, whatever a server answers; every hop goes to a
  checked address; a request keeps within its budgets and ends;
* **store**: what was acknowledged survives, nothing is overwritten, what is
  returned is what was asked for;
* **snapshots**: a record never outlives its body, is served to its own partition
  only, and what was stored is found;
* **adapters**: what was used is charged whatever happens next, overspending stops
  the run, and what is kept fits the budget, each up to the routes where the code
  does not keep account, which are named one by one;
* **authentication**: a proposal goes out once, with the token of its own page, and
  no credential leaves that is foreign, or that had expired when the request looked
  (outside a crawl: when it leaves);
* **planner**: its plans satisfy what the engine assumes, and nothing that changes a
  remote state is retried;
* **subprocesses**: no input before all guards are up, nothing left behind, no
  cancellation swallowed, and the call ends.

## 2. Modules

| Module | Models | Run from |
| --- | --- | --- |
| `NetworkScheduler` | `scheduling.py` | `MCNetworkScheduler` |
| `RunContract` | what a client may rely on of a run record (abstract) | through `FetchGateway` |
| `FetchGateway` | run lifecycle in `gateway.py` over `ledger.py`; implements `RunContract` | itself |
| `EventStream` | `append`, `update_run` and `stream` of `ledger.py`, and how a run's end and failure use them | `MCEventStream` |
| `Planner` | `planning.py` and `logic/coordinator.py` as operators on a request | `MCExecutionEngine` |
| `ExecutionEngine` | `executor.py`, with the adapters as its environment | `MCExecutionEngine` |
| `AdapterContext` | the budget ledger of `adapters/base.py` and its partition and merge in `executor.py` | `AdapterRun` |
| `DocumentAdapter`, `MediaAdapter`, `ContentAdapters`, `TransferAdapters` | the adapters on that ledger | `AdapterRun` |
| `AdapterRun` | their composition: any sequence of nodes and groups of one run | itself |
| `HttpRequest` | the request loops of `adapters/http.py` with the URL policy of `security.py` and the pins of `transport.py` | `MCHttpRequest` |
| `AuthFlow` | the values of `auth.py` and `auth_flows.py` and their checks | `MCAuthSession` |
| `AuthSession` | `adapters/auth.py`, the providers, and credentials in `adapters/http.py`, for concurrent runs | `MCAuthSession` |
| `BodyStore` | what the content store promises (abstract) | through `ContentStore`, `SnapshotStore` |
| `ContentStore` | `put` and `get` of `storage.py` at system-call granularity; implements `BodyStore` | `MCContentStore` |
| `SnapshotStore` | `SnapshotStore` and the storage operations of `adapters/cache.py`, on top of `BodyStore` | `MCSnapshotStore` |
| `WorkerProcess` | `logic/process.py` with `worker_isolation.py` and both bootstraps | itself |
| `NetworkSchedulerProofs`, `ExecutionEngineProofs`, `HttpRequestProofs`, `AuthSessionProofs`, `ContentStoreProofs`, `SnapshotStoreProofs` | theorems about the module each is named after | - |
| `FetchGatewayProofs` | theorems about `FetchGateway` and about `EventStream` | - |
| `WorkerProcessProofs` | theorems about `WorkerProcess` and about `AdapterRun` with its five modules | - |

The `MC` modules add symmetry sets, requests, or the values that are stored; no definition
is replaced. Beside some definitions stands a variant marked *mutant of ...*: the
form a plausible bug would give it, used to confirm that a property notices.

### NetworkScheduler

One asyncio loop runs the code, so a step is what runs between two awaits.
`_pump` has no await: it is modelled one loop iteration at a time (`PumpDiscard`,
`PumpPrune`, `PumpAdmit`, `PumpStop`) under the flag `pumping`, during which no
other action is enabled. A waiter's future and its task are separate (`future`,
`phase`): `task.cancel()` sets `cancelling` (and cancels a pending future), and
the task meets it when it resumes. `ResumeRevoked` is the path of
`_acquire` that gives back a slot granted to a task cancelled meanwhile. Both a
caller's cancellation and the slot's own `asyncio.timeout` are `Cancel`; a
deadline that has already run out is `SlotDeadlineExhausted`. `Slot` includes the
move to another loop in `_event_loop`, which clears history and timer and is
refused (`SlotForeignLoop`) while anything is active or queued. Time is in ticks,
and `Wake` may fire `ClockResolution` ticks early, as asyncio timers may, or late. `startedAt` is a ghost: the last start per host, without a bound on
the number of hosts.

`Tick` advances the clock only while some start is less than the interval ago:
no guard of the code can tell later times apart, and with finitely many requests
the clock, and with it the state space, stays bounded.

### FetchGateway and RunContract

`runState` and `result` are the durable rows; all else is lost in `Crash`.
`pc[c]` is where a caller is in `initialize` and `submit`, `task[r]` where the
run's task is in `_execute_and_project`. A ledger write is two steps where a
cancellation can fall between commit and resumption. `AfterCancel` gives what
`task.cancel()` makes of a task at each of its awaits: before the first step it
ends without entering the `try`; inside, it goes to the handler; in the handler
or after it, it ends. The ghost `abandoned` collects runs that lost their
driver by one of the three routes the code leaves open (`submit` aborted after
`create_run`, a task cancelled before its first step, a terminal failure that could
not be stored); those are finalized at the next start, not before. Such runs are
excluded by name in `NoStrandedRun` and `EveryRunSettles`; they are not hidden:
`RecoveryComplete` is about them too.

`RunContract` has the two durable variables only; the refinement maps the rows to
themselves and hides everything else. It allows one thing a reader
might not expect, because the code does it: a cancellation that arrives between
the commit of the result and the task's resumption replaces the result by a
cancelled one (`Retract`).

### EventStream

Emitters (`Main`, the parallel nodes, and the gateway for `run.failed`) append in two
steps, commit and publish. Both `append` and `update_run` resume between them, so the
emitter may be cancelled or fail there (`AppendAborted`): the row is in the table and
in no queue (status `silent`). `RunRaises` is the execution raising or being cancelled
at any of its awaits, the one between the commit of FINISHED and its end marker included;
what a cancelled node writes under `asyncio.shield` may be left to a task of its own
(`adrift`) and arrive late. The gateway then emits `run.failed` and stores FINISHED again,
unless that is interrupted too (`FailureLost`, job `lost`).

A stream registers its queue, reads the rows, yields them, looks at the run's
state, and then drains or follows its queue. Events are identified by emitter
and number; payloads are left out. What a follower may rely on is stated accordingly:
a stream that ends by itself has delivered what it found in the table (`read` of its rows)
and all that was published before FINISHED was stored (`settled`), and if the execution
did not raise only `silent` rows are missing. `StreamEnds` excepts `lost` runs.
`OnceInCausalOrder` is deliberately weaker than ledger order: two events of parallel
nodes may be published in the other order than they were committed.

### Planner and ExecutionEngine

`Planner` computes, for a request record, the nodes `plan()` builds (session, caches,
HTTP, form, family, readers, browser, caches afterwards), removes what the deny and
allow lists exclude, and says which plans are refused. Ordered lists of capabilities
are given by representatives where the code treats their members alike.
`Coordinated` is the coordinator: another backend's proposal counts only if it is the
planner's own node sequence. `MCExecutionEngine` runs the engine on the plans of six
requests, so that `PlansAssumption` of the engine is evaluated on what the planner
really produces and `MutatesOnce` spans planner (who grants retries) and engine (who
takes them).

A node alone is a batch of one on the run's own context; a parallel batch gives
each branch a copy and a share of the attempts budget. A branch is *created*,
*starting* (the `attempt.started` event), in the *adapter* or in its *backoff*,
*reporting* (its last event) and then settled. Adapters are environment: they
append attempts, store artifacts, return, raise, or do nothing for ever. The
deadline is `DeadlinePasses` followed by `DeadlineHits` in every branch.
A cancellation is delivered at a branch's next step and is handled where the branch is.
`CancelRun` is the cancellation of the run's task from outside; the engine reaps
its branches before it raises. Diagnostics and outcome records are left out.

### AdapterContext and the adapters

The other half of the engine's environment: what the adapters do to the byte budgets.
`used` is what the settled attempts consumed and `own` what the running one recorded;
each adapter is one module or section with an action per exit of its `execute`
(refused before or after the attempt was opened, provider failed, result invalid,
output too large, put failed, cancelled, deadline). `Share` partitions what is left
over a group; branches are isolated copies, so running them one after the other stands
for every interleaving of theirs. Bodies are numbers of
bytes; `Overshoot` is how far a last chunk may exceed a limit.

The ghosts say what really happened. `spent` is what was moved and `stored` what was kept.
`lost` is what no attempt was charged, by cause:

* `cancelled`: a transfer cut off because a sibling of its group won;
* `dropped`: a crawl batch whose `gather` raised, or a candidate whose context was not
  merged;
* `unreported`: a Git LFS resolver or a snapshot connector that failed, timed out or
  answered nonsense, a metadata provider or `curl` that failed;
* `form`: everything a submitted form moved, as `_submit_form` keeps no account;
* `deadline`: a yt-dlp worker that ran into its deadline (finding 2);
* `unmetered`: the normalized API document, the crawl report and the list of candidates,
  which are stored without being measured.

`unchecked` is what was charged past the budget where the code has no test or its error
does not stop the run: the tail of an HTTP body, the robots.txt of a crawl, pages and
candidates whose budget errors are caught. The properties are stated up to exactly these:
`SpentIsGone` up to `lost`, `OverspendStops` up to `unchecked`, `StoredWithinBudget` up to
`unmetered`. So they say that no other route loses a byte, and section 5 lists these.

### HttpRequest

`req[q]` is the record of locals of one call of `_request` (or `_request_http3`);
the scheduler's slots (`capacity`, here only a counter: `NetworkScheduler` is the real
one) and the policy's table of validated addresses are shared by all calls. One
iteration of the loop is `Admit`, `Evaluate` (the policy, with DNS answering what it
likes), `Resolve` and perhaps `Refresh` of the credential, in a crawl `RobotsAllow`
and a second `Admit`, and then an answer: `Redirect`, `RejectExpired`, or `Accept`
with `Chunk`s and `Return`. What follows an await without another one is part of the
same step (`Prepared`, `Sent`). Every other way to leave (a refusing status,
a transport error, the slot's deadline, a cancellation, too many wire bytes) is
`Interrupt`; the exit stacks give back the slot and the locals are gone. The
ghosts `sent`, `requests`, `bodies`, `refreshes` and `secured` record what was on the wire.

A URL is a host, a scheme and a path; credentials and cookies are represented by the
origin they belong to. Status 302 stands for 301 and 302, 307 for 307 and 308. Left out:
wire bytes before decompression (they are in `TransferAdapters`), what robots.txt says of
which path, and the response's own content. Two things the code does are not judged:
robots.txt is asked once per origin, for the first target, and each request of a run
may use the whole redirects budget.

### AuthFlow and AuthSession

A run executes up to four nodes in the planner's order: a session node, the page's HTTP
node, `csrf_token` and `form_submit`. Runs share the three in-memory providers and step
at each other's awaits; the clock moves there too. `AuthFlow` holds the pure checks
(origins, material, descriptors, approvals, tokens) and `AuthSession` the handlers: what is
cached in `sensitive_state` at one node is used at the next, after a wait. A run may be a
crawl: then `_request`, having looked at the clock, waits for the origin's robots.txt and
for a second slot (`AsksRobots`, `RobotsAllows`, `GetAdmittedAgain`, and the same for
a form) before anything leaves. The ghost `sent` of a run records what left, when, and
when its expiry was last tested (`checked`); `CredentialLive` is about both moments.

Observed and not judged: the `InMemoryCredentialProvider` gives its refresh material to
one caller (`auth.py:200`), so the second run's refresh of one reference is refused
although the first has stored a good credential; a session node's refresh and the HTTP
node's may both refresh within a run, where `docs/v0.3-authentication-foundation.md:66`
speaks of at most once; the approval's expiry is tested before the waits for DNS and slot
and not again (`adapters/auth.py:482`); a failing `put` of the form's answer leaves its
attempt RUNNING (`adapters/auth.py:580`).

### BodyStore, ContentStore and SnapshotStore

In `ContentStore` every system call of a writer's or reader's thread is a step: check,
stage, fsync, link (which fails if the path is taken), verify, fsync the directory chain,
return. Content is `good` (the digest matches) or `bad`. Outsiders may remove, damage or
replace a file (`meddled` remembers it); a crash may lose an entry whose
directories were not synced and tear data that was not. `BodyStore` is what a client
sees of it: bodies appear, are promised, are read back verified or refused, and a power
loss takes only what was not promised. The refinement maps a file to its content and a
reader's thread to its answer.

`SnapshotStore` extends `BodyStore`, so its content store is the promise and not the
implementation. A call is a thread: it reads the directory, verifies the body with a `get`,
links the record and syncs the key's directory. Records are immutable and named by
their content. `not_modified` stores the record it was given again as the newest, as the code does,
even if a newer body was stored meanwhile; a key's records become unreadable for good
when there are more than `_MAX_RECORDS_PER_KEY` or one of them is damaged; and the
directories of a new key are not synced in their parents, so its records may vanish in
a power loss. None of these contradicts a document.

### WorkerProcess

One call of `run_bounded` in four modes: without process groups, without a profile, and
the two modes of `WorkerIsolationRuntime`. The parent's awaits, the child's own start-up
(cgroup, limits, Bubblewrap, the inner bootstrap with seccomp, exec) and the kernel are
separate actors. The child runs from its fork on, so it may `exec` the target and the target
may fork while `create_subprocess_exec` is still pending in the parent (`partial` marks
a spawn interrupted there). `OutOfReach` names who may survive a call without a cgroup:
a process outside the group, and after such a spawn the rest of the group.
`NothingLeftBehind` says that nobody else does, that with a cgroup nobody does, and that
after an interrupted spawn no input was given and no result is returned; see section 5. The caller cancels at any await, also during the cleanup that is
shielded; time runs out in any of them; the child may give up, hang, exit, or fork
descendants that outlive it.

## 3. Runs

| Run | Instance | Shows |
| --- | --- | --- |
| `scheduler` | 3 requests, 2 hosts, 2 loops, ceilings 2 and 1, interval 2, history 1 | `CapacityAccounting`, `PacingMemory`, `WorkConserving`, `StartsPaced`, `ArrivalOrderPerHost`, `EveryWaiterResolves` |
| `gateway_runs` | 2 runs, start-up initialization, 2 crashes | `NoStrandedRun`, `RecoveryComplete`, `CloseDrains`, `RecoversOnlyLostRuns`, `ImplementsRunContract`, `EveryRunSettles` |
| `gateway_lazy_init` | 2 runs, nobody initializes first, no crash | finding 1: `RecoversOnlyLostRuns` fails |
| `event_stream` | 2 parallel nodes of 2 and 1 events, 1 stream opened at any moment | `CompleteOnReturn`, `OnceInCausalOrder`, `StreamEnds` |
| `execution_engine` | the plans of 6 requests, attempts budgets 2 and 4 | `AttemptBudgetHeld`, `BaselineKept`, `NoOrphanBranch`, `MutatesOnce`, `StopIsFinal`, `RunTerminates` |
| `http_request` | 2 requests, 4 URLs on 2 hosts, 1 or 2 slots, 2 and 0 redirects, 2 bytes | `CredentialScope`, `BodyNeverReplayed`, `HopsChecked`, `RequestEnds` |
| `content_store` | 1 body, 3 writers, 1 reader, 2 acts from outside, 2 crashes | `AckedSurvives`, `ImplementsBodyStore` |
| `worker_process` | 4 modes, 3 cancellations | `ContainedBeforeInput`, `NothingLeftBehind`, `CancelNotSwallowed`, `CallEnds` |
| `adapter_budgets` | 15 kinds of node, 4 attempts, budgets of 3 and 4 bytes | `SpentIsGone`, `OverspendStops`, `StoredWithinBudget` |
| `adapter_deadline` | the same | finding 2: `NoFreeDeadline` fails |
| `auth_sessions` | 2 runs, 8 kinds of request (2 of them crawls), clock to 2 | `SubmittedOnce`, `TokenOfThisRun`, `CredentialLive` |
| `snapshots` | 3 calls, 1 body, 2 keys, 1 crash, 1 act from outside, 2 records | `RecordHasBody`, `ServedIsOwn`, `StoredIsSeen` |

Deadlock checking is off in all of them because each system may come to rest:
all requests served, all runs finished, all threads ended. The `TypeOK` of a module
is there for proofs and is not spent a run on, except where a theorem states it.

**Why these bounds.** *Scheduler*: a history of one
is full as soon as the second host asks; three requests put two on one host and one
behind them; two loops exercise the move. That accounting, memory and pacing do not
depend on these numbers is proved (section 4). *Gateway*: the
interactions are pairwise (recovery against another caller, close against a run
being submitted); two crashes make recovery run over a recovered table. *Event
stream*: replay and queue overlap in one emitter's two-step append; two emitters
are needed for swapped publication, and one with two events for a shielded one; streams
do not interact (each has its queue, and nothing reads another's). *Engine*: the plans contain a parallel group
with winner and fallback, retrying members, an expanding crawl, an adapter that
is not registered, a missing approval, and dependents of each; a budget of two does
not let a group of three start side by side, one of four does. *HTTP request*: the URLs differ from
the target in one thing each (path, scheme, host); two redirects lead away from an
origin and back; the second request is there to write the shared table while the
first awaits its credential (two slots) and to compete for the only slot (one). *Store*: three writers let the
link be taken, removed and taken again, which is where `range(2)` ends; the paths
of two bodies do not interact. *Worker*: one cancellation to leave the start-up, one
during the cleanup, one more while that is deferred. *Adapters*: four attempts let
a group of two follow a node and precede another; budgets of three and four bytes can be
used up by one, by several, exactly, and with one byte too many. *Authentication*: two
runs race for one proposal and one refresh; three moments in time put every expiry
before, at and after a use. *Snapshots*: two calls race to publish while a third looks
up; two records reach the limit per key.

**Fairness.** *Scheduler*: the loop runs ready callbacks and timers (`WF` on pump,
wake, resumption), a holder leaves its slot because `slot` wraps it in
`asyncio.timeout` (`WF` on `Leave`), and the clock advances (`SF` on `Tick`: a timer
firing early and re-arming disables it again and again but cannot stop time). No
request need arrive. *Gateway*: ready callbacks run, a crashed daemon is restarted
by its service manager and initializes in its lifespan handler; nobody need submit,
cancel, close or crash; planning and execution of a run end, the latter by the
engine's own deadline (`RunTerminates`). *Event stream*: the run's
tasks go on, in one of the ways they may, and the loop resumes a stream that has something
to do; nothing need fail or be cancelled. *Engine*: the loop,
the branches' own code and the deadline; nothing is assumed of adapters. *HTTP request*:
whatever a request awaits while it holds a slot ends, by an answer or by the deadline
that `slot` puts it under, and a free slot is given to somebody who waits; that waiting
for a slot times out is not assumed. *Worker*: the parent's loop, its timeout, the
cleanup task and the kernel's delivery of signals go on; nothing is assumed of the child.
The remaining modules state safety only and assume no fairness.

## 4. Proofs

Every safety property of a passing run, invariant, action property or refinement, is
also a theorem: TLC shows it on a small instance, the prover for every value of the
constants that the named assumptions allow. Each component has an inductive invariant and
its `...Invariance` theorem, from which the others follow (the gateway has two).

### What is assumed

The `ASSUME`s of the modules, which TLC evaluates on every run: what constructors accept
(`LimitsAssumption`, `BudgetAssumption`), that special values are not members of the
sets they are added to, and what the surroundings check before a component is entered.
The last kind is in `RequestAssumption` (a login carries no
credential yet, a form always does: `adapters/auth.py` builds both) and
`SessionAssumption` (the providers hold what the constructors of `auth.py` accept; the URLs of jobs and pages
have been normalized). Theorems with a hypothesis of their own:

* `RecoversOnlyLostCorrect` and `ContractCorrect`: `~ServeBeforeInit`. Without it both are
  false, which is finding 1.
* `MutatesOnceCorrect`: `Guarded(p)` for the engine's plans, that is, a node that changes
  a remote state needs approval and has no retries. It is the planner's half of the
  property; the run `execution_engine` checks the two halves together.

### Theorems

Each is an implication from the module's `Spec`, or from the specification shown.

| Module | Theorem | States |
| --- | --- | --- |
| `NetworkSchedulerProofs` | `TypeCorrect` | `[]TypeOK` |
| | `CapacityCorrect`, `MemoryCorrect`, `WorkConservingCorrect` | `[]CapacityAccounting`, `[]PacingMemory`, `[]WorkConserving` |
| | `PacingCorrect`, `ArrivalOrderCorrect` | `StartsPaced`, `ArrivalOrderPerHost` |
| `FetchGatewayProofs` | `TypeCorrect` | `[]TypeOK` |
| | `NoStrandedRunCorrect`, `RecoveryCorrect` | `[]NoStrandedRun`, `[]RecoveryComplete` |
| | `CloseDrainsCorrect`, `RecoversOnlyLostCorrect` | `CloseDrains`, `RecoversOnlyLostRuns` |
| | `ContractCorrect` | `ImplementsRunContract` |
| | `CompleteOnReturnCorrect`, `CausalOrderCorrect` | `StreamSpec => []CompleteOnReturn`, `[]OnceInCausalOrder` |
| `ExecutionEngineProofs` | `TypeCorrect` | `[]TypeOK` |
| | `BudgetCorrect`, `BaselineCorrect` | `[]AttemptBudgetHeld`, `[]BaselineKept` |
| | `NoOrphanCorrect`, `MutatesOnceCorrect` | `[]NoOrphanBranch`, `[]MutatesOnce` |
| | `StopCorrect` | `StopIsFinal` |
| `HttpRequestProofs` | `TypeCorrect` | `[]TypeOK` |
| | `CredentialScopeCorrect`, `BodyCorrect`, `HopsCorrect` | `[]CredentialScope`, `[]BodyNeverReplayed`, `[]HopsChecked` |
| `AuthSessionProofs` | `SubmittedOnceCorrect`, `TokenCorrect`, `CredentialLiveCorrect` | `[]SubmittedOnce`, `[]TokenOfThisRun`, `[]CredentialLive` |
| `ContentStoreProofs` | `TypeCorrect`, `DurabilityCorrect` | `[]TypeOK`, `[]AckedSurvives` |
| | `RefinementCorrect` | `ImplementsBodyStore` |
| `SnapshotStoreProofs` | `RecordHasBodyCorrect`, `ServedIsOwnCorrect`, `StoredIsSeenCorrect` | `[]RecordHasBody`, `[]ServedIsOwn`, `[]StoredIsSeen` |
| `WorkerProcessProofs` | `TypeCorrect` | `[]TypeOK` |
| | `ContainmentCorrect`, `NothingLeftCorrect`, `CancelCorrect` | `[]ContainedBeforeInput`, `[]NothingLeftBehind`, `[]CancelNotSwallowed` |
| | `SpentIsGoneCorrect`, `OverspendStopsCorrect`, `StoredWithinBudgetCorrect` | `LedgerSpec => []SpentIsGone`, `[]OverspendStops`, `[]StoredWithinBudget` |

Two modules prove two components each: the event ledger with the gateway that owns it, the
adapters' budgets with the workers that the adapters start. That is why the definitions of
`EventStream` and `AdapterRun` carry names of their own (`StreamSpec`, `LedgerSpec`).
The two parts share no variable and no fact.

### The invariants and why they are needed

**Scheduler.** `CapacityAccounting` is not inductive alone: admitting a waiter adds one
to the counters, and that agrees with the set of occupants only if the waiter was not
one already. `QueueInv` says so: who is queued has a future without a result and a task
in `_acquire`, appears in the queue once, and one that holds a slot has its result.
`PacingMemory` needs that pruning drops the head of the history only when its interval
is over and that a grant moves its host to the end without losing another entry
(`RecordStartFacts`); `StartsPaced` follows because a selected waiter's host is not
cooling (`SelectedIsPaced`) while every unexpired start is remembered. The counting
lemmas rest on the library's facts on finite sets.

**Gateway.** Two invariants. `ServingInv` holds whoever initializes. A second recovery
can store a result under a live task, so it says nothing of the record but that a task
past its commit has stored one; each unfinished run of the process has a driver or is
abandoned, and each recovery loop still has every run of earlier processes to do.
`GatewayInv` adds what holds only when nothing is served before start-up: until
recovery is done nothing runs and its list is exactly the unfinished runs, and the
state of each task determines its record. That makes every ledger write a step of `RunContract`.

**Event stream.** `CoverInv`: between them a stream's replay and its queue hold every
published event, and what the queue holds comes after its causes. It is needed
because a subscriber may register between the commit of an event and its publication,
and sees it then twice or only in the queue. `RowsInv` orders the table and says which
statuses are in it, `EmitterInv` how far the run is, and `BufferInv` that after an end
marker a queue holds nothing that was settled, although a second end marker and late
events may follow. `CleanInv` is for runs that did not raise: once they are stored as
finished, nothing is under way.

**Engine.** `BranchInv` relates a branch's copy of the attempts to the run's (`Extends`),
to its share of the budget and to its place; `SharesInv` says that the shares together fit. The
budget after a merge is the sum of suffixes that `FlattenSeq` concatenates. The
prover cannot instantiate an induction theorem with a predicate, so
`FlattenIsPartial` works with a *set* of naturals: the numbers for which the claim fails have no
least element (`NatLessThanWellFounded`, `WFMin`).

**HTTP request.** `Good(q, r)` is one invariant of the locals of one request: how many
iterations the redirects budget still pays for (`CountInv`), that the credential was resolved and
refreshed once, where the body is, and what was sent last. Only `TableInv`, on the
pinned addresses, is about what requests share: the table holds public addresses, and
the one a request was just allowed stays there while its credential is asked for.

**Authentication.** `RunInv` follows the session, token and material of one run through
its nodes; in the waits of a crawl (`Checked`) it keeps only that the credential was live
when it was looked at. `OwnerInv` is about the shared proposals: from `consume` until it
has left, through all those waits, a proposal belongs to one run, and the provider no
longer holds it.

**Content store.** `AckedInv` needs `WriterInv` (a writer about to return has the entry
synced, whoever created it) and `StagedInv` (what is linked was fsynced before). Each
system call is then a step of `BodyStore` or none.

**Snapshots.** Rest on `BodyStore`'s promise only. `RecordsInv` (a record names an
acknowledged body) is kept because `put` returns before the record is written;
`FloorInv` carries, for each lookup, what was kept when it began, so that what other
calls do meanwhile cannot hide a snapshot from it.

**Worker.** `GuardInv` relates each marker the child wrote to the guards installed, and
`MarkerInv` does the same without containment; `StageInv` rules out the states that a
mode cannot reach. `KilledInv` says that once the parent has signalled, what runs on is
outside its reach or the spawn was interrupted. The proof splits on the mode where the
code does.

**Adapters.** `CallInv`: the limit a call works under is at most what remains of its
budgets, and whatever it is about to store and charge was measured against that. `Fits`: the
shares of the branches that wait fit into what the running one leaves. `AccountInv`:
what was transferred or stored is covered by the consumption recorded, by `lost` and by
what the call in progress holds; `Metered` is what was stored without the unmeasured
artifacts, and never exceeds the output budget. They are kept together, as one adapter's
overspending would take what a sibling was promised. Every action of the
adapters is one of a few kinds (`ChargeFacts`, `SettlesFacts`), so that most need only their
amounts compared.

### Only model-checked

* Liveness under fairness, which the prover does not treat: `EveryWaiterResolves`,
  `EveryRunSettles`, `StreamEnds`, `RunTerminates`, `RequestEnds`, `CallEnds`.
* That the planner's plans satisfy `Guarded` and `PlansAssumption`: the plan is built
  with `SelectSeq`, which is recursive in the library and opaque to the provers. TLC evaluates it for
  the requests of `MCExecutionEngine`.
* The two findings, which are counterexamples.

## 5. Findings

1. **Two first callers of `submit` both recover** (`gateway.py:210`). `initialize`
   sets `_initialized` after awaiting recovery. The second caller's scan may find the
   run the first has just created and finalize it as interrupted while it executes,
   against the docstring of `_recover_interrupted_runs` ("Finalize durable runs whose
   in-memory task was lost on restart."). Run `gateway_lazy_init`. The daemon and
   `async with FetechClient` initialize first and are not exposed (`gateway_runs`).
2. **A yt-dlp worker's deadline is free** (`adapters/media.py:1032`).
   `YTDLPDeadlineExceededError` is a `TimeoutError`, so `_youtube_metadata` wraps it
   into a plain error, the clause of `execute` that would charge its usage is never
   reached, and a later node is offered the same bytes again, against
   `docs/architecture.md:234` ("A later node cannot reuse a predecessor's spent
   allowance."). Run `adapter_deadline`.

Observed while modelling, each visible in a model as a named exception of a property, or
as stated, and without a run of its own:

* **Interrupted spawn.** `SECURITY.md:113` ("timeout or cancellation terminates the
  process group") and `:174` ("starts a separate process group and kills it on timeout or
  cancellation") do not hold while `create_subprocess_exec` is pending: `_spawn_limited`
  kills only `if process is not None` (`logic/process.py:251`), and what asyncio then
  kills is the leader. In the model: fork, bootstrap, exec of the target, the target forks
  while the parent is still in its spawn, the deadline passes or the caller cancels, and
  the forked process is never signalled. It was given no input. Not with a cgroup.
* **Uncharged transfers.** A form submission (`adapters/auth.py:489`), a Git LFS resolver
  that fails or times out (`adapters/documents.py:808`), a connector without a valid
  report (`adapters/cache.py:789`, `:1023`), a failing metadata provider
  (`adapters/media.py:1030`) and a failing HTTP/3 `curl` are charged nothing, and a later node
  may take the same allowance, where `docs/architecture.md:74` says "Failed and partial HTTP
  transfers retain observed byte usage" and `:234` "A later node cannot reuse a
  predecessor's spent allowance".
* **Unmeasured artifacts.** `adapters/api.py:235`, `adapters/discovery.py:236` and
  `adapters/variants.py:66` put an artifact without `require_budget` or a charge.
* **robots.txt past the budget.** An oversize robots.txt fails with a plain
  `AdapterExecutionError` after it was recorded (`adapters/http.py:980`), so the run goes
  on although the budget is exceeded.
* **Expired credential of a crawl.** `_request` tests the expiry (`adapters/http.py:465`),
  then awaits robots.txt (`:504`) and a second slot (`:602`) and sends (`:611`) without
  looking again.
* **Event streams.** A follower misses a row whose emitter was cancelled between commit
  and publication (`ledger.py:146`; losing branches, `executor.py:543`), though a later
  stream replays it; `run.failed` and late shielded events may follow FINISHED, and a
  stream that has ended does not have them; if recording the failure is itself interrupted
  after or before its FINISHED, no end marker is queued and a follower waits
  (`gateway.py:378`, `ledger.py:114`).
* **Attempts left RUNNING.** An attempt that the adapter leaves RUNNING when it raises
  stays so if the node is retried, because only the last attempt of a context is settled
  (`executor.py:754`, `:677`), although the module's docstring speaks of "complete
  attempts".
* **Filtered plans.** A deny or allow list that removes `candidate_url_expansion` or
  `main_article` leaves nodes without their dependency, and the plan is refused
  (`planning.py:743`).

Those of the providers and of snapshots are in section 2.

## 6. Not modelled

* Data processing without state of its own: extraction and conversion of documents,
  media, archives and pages, HTML parsing (but for what `extract_csrf_token` accepts), URL
  rewriting, quality scores, wire formats, DNS. The adapters' exits around it are modelled.
* `wayback.py`: its redirect loop and byte limits repeat the HTTP request's, and what it
  reports is charged in `TransferAdapters`.
* The clingo and Prolog programs: external solvers, whose answer the coordinator only
  compares with its own.
* `worker_audit.py`, the rules of the seccomp filter and the list of bind mounts: they are data to the
  kernel; that they are in place before input is written is modelled.
* The browser's page protocol (`browser_worker.py`, `browser_render.py`) runs in a worker
  and belongs to an engine outside the repository.
* `adapters/structured.py`, context broker, provenance graph, command line, MCP server, configuration and
  data model: pure projections and records.
* `scripts/`: release evidence and readiness checks, not part of the runtime.

## 7. Plan

Done: all components that keep state or run concurrently are modelled; every safety
property of the passing runs is proved.

Next: `Guarded` for the planner's plans, node by node, so that `MutatesOnceCorrect` loses
its hypothesis for the plans of `plan()`; that `SnapshotStore` takes only steps of
`BodyStore` on the bodies, so that the two stores compose as theorems; that a snapshot,
once acknowledged, is never replaced by an older one (action property); splitting the
longest case proofs of `ExecutionEngineProofs` and `WorkerProcessProofs` along their actions.

# A verification project for memory-bridge

memory-bridge gives a benchmark coding agent (mini-swe-agent) a long-term memory.
A shared shell (`src/shared-bridge`) defines the lifecycle of a memory in one agent
episode; three integrations (`src/integration/{cure_memory,mem0,tencentdb}`) plug a
memory system into it; an optional external recorder receives annotations of what
the memory did. This directory holds TLA+ modules translated from that source, the
TLC configurations that model-check them, and theorems checked by TLAPS.

Paths below are relative to `src/`; `backend.py`, `agent.py` and `annotate.py` alone
are those of `shared-bridge/src/shared_bridge/`.

To check: `tlc -config MCMemoryBackendCache.cfg MCMemoryBackend` (and likewise for
the other `.cfg` files, each with the module section 3 names); `tlapm Induction.tla` and
`tlapm M_proofs.tla` for the seven `..._proofs` modules.

## 1. Inventory

### 1.1 Memory lifecycle shell: `BaseMemoryBackend` (backend.py)

*State.* Availability (`_available`, `_finalized`), the native handle, the task and
its current query (`_task`, `_rewritten_query`), the recall cache (`_search_dirty`,
`_cached_recall`), for each of the extraction and rewrite lanes a high-water bucket,
a streak of consecutive errors and a breaker, counters, and the events that become
`memory.json`.

*Operations.* `start`, `set_task`, `record`, `maybe_extract`, `maybe_rewrite`,
`recall_context`, `note_recall`, `finalize`. Each is fail-closed: an exception is
counted and contained unless `strict` is configured.

*Hard.* The cache is invalidated by a flag that many paths have to set, the failing
ones included; a boundary of a cadence can be crossed by a step that never reports
itself; a breaker must stop the ticks but not the final flush; `start` may be called
again on the same object and has to clear what the previous episode left.

*Correct when* a recall is what a search would have answered; no recorded message is
lost by a failed extraction; each boundary is attempted at most once and none is
skipped; a dead lane is paid for a bounded number of times; `finalize` flushes the
tail, closes the handle and silences every later call.

### 1.2 Integration hooks

| integration | own state | what `_perform_extraction` can do |
|---|---|---|
| CURE (`cure_memory_bridge/backend.py`) | messages since the checkpoint in a local database | confirm all and advance the checkpoint; return an extractor error before any write; raise, possibly after writes |
| mem0 (`mem0_bridge/backend.py`) | the retained batch | confirm all; raise, the batch being kept although a hosted store may have applied it or may still apply it |
| TencentDB (`tencentdb_bridge/backend.py`) | the pending buffer | confirm all; confirm a prefix of the chunks and raise; confirm all and then raise in the drain or the read-back; rows landing after the call |

*Correct when* a message leaves the buffer only after the memory system confirmed it.

### 1.3 Agent wrapper: `MemoryAgent` (agent.py)

*State.* The message list it shares with the base agent, the transient recall block of
the current query, and the base agent's `n_calls`.

*Operations.* `run` (start, set_task, the base loop, finalize), `add_messages` (record),
`query` (recall, append the block past `add_messages`, the base query, remove the block,
`note_recall`), `step` (the base step, `maybe_extract`, `maybe_rewrite`).

*Hard.* A query ends in many ways (reply, format error, limit, crash, a memory error of
its own `add_messages` in strict mode) and the block has to leave by the same `finally`;
the reply is already behind it then; the injection counts only if the model was called;
a finalize error must not mask the exception the run leaves with.

*Correct when* the agent with a memory behaves as the agent without one except for the
block in its prompts (and, if strict, for ending early), and the prompt agrees with the
memory.

### 1.4 Trace session and annotations (backend.py, annotate.py)

*State.* The session identity, the anchor of the last search, the pending (undelivered)
search, tokens, and in `Annotator` a failure streak and a breaker.

*Operations.* Session start, `search_start`/`search_end`, `generate_start` / change
chunks / `generate_end`, delivery, the crash probe of a failed query, `finish`.

*Hard.* The recorder may accept, reject, or accept and lose the answer of a post; posts
are retried with the same identifiers; a cached delivery has to cite the search its
payload came from; a crash probe reads a cursor to decide whether a failed query's call
was recorded. *Correct when* each delivery cites the search that rendered it and binds the
model call it was shown to, what is missing from the trajectory is logged, no generation
ends with fewer changes than it made, and a dead recorder is left alone.

### 1.5 CURE store and system (`cure_memory/{store,system,models,extractor}.py`)

*State.* A SQLite store of memory rows in a chain of supersessions, and the extraction
checkpoint. *Operations.* `_upsert_memory`, `replace`, deletion batches, the checkpoint,
inside an `atomic` unit. *Hard.* A crash between the writes; rows of a general layer and
of a repository's refinement sharing a key. *Correct when* a key has at most one active
row per layer, chains are acyclic and end in a live or a retired row, and the checkpoint
never moves past unapplied messages.

### 1.6 Clients

`mem0_bridge/client.py` (add and poll an event under a time budget, paginated reads),
`mem0_bridge/stores/` (adapters), `tencentdb_bridge/client.py` (chunked adds, paginated
queries, an idle poll). *Hard.* An answer that arrives after the poll gave up; pages
over rows that are still landing.

### 1.7 Endpoints, side model, runners, scripts

The endpoints (`endpoint.py`, `serve.py` and the integrations') expose add, search,
update and delete over HTTP on the store an episode may be using. The side model is one
HTTP request used by the rewriter and the extractor. Runners bind a backend to the
benchmark. `utils/` runs the phases and reports on finished files; episodes of a memory
run are serial (`--workers 1`, `utils/run-predictions.sh:33`, and
`docs/en/pipeline/overview.md:79`), an assumption the models use.

### 1.8 How they interact

```
base agent loop (external) --inherits-- MemoryAgent --calls--> BaseMemoryBackend
                                                                 |  hooks
                                     CURE | mem0 | TencentDB <---+---> Annotator --posts--> recorder
                                       |      |        |
                                    SQLite  hosted stores, which may apply an accepted write late
endpoints --HTTP--> the same stores
```

Everything inside an episode runs on one thread: a backend call is not interrupted by
another. What moves on its own is the hosted store and the recorder.

## 2. Modules

| module | models | mode of use |
|---|---|---|
| `MemoryBackend` | 1.1 with the outcomes of 1.2: one action per method, any caller | checked, proved |
| `RecallService` | abstract: a recall service without a cache | refined by `MemoryBackend`; checked, proved |
| `MemoryAgent` | 1.3 over `MemoryBackend`: the order in which the agent calls it | checked, proved |
| `AgentLoop` | abstract: the base agent loop without a memory | refined by `MemoryAgent`; checked, proved |
| `Annotator` | the annotation client and the recorder of 1.4 | part of `TraceSession` |
| `TraceSession` | 1.4: the session, its events and the agent's delivery and crash probe | checked, proved |
| `CureStore` | the table and the commit discipline of 1.5 | part of `CureSystem` |
| `CureExtractor` | the replies, layers, deletions and candidates of 1.5 | part of `CureSystem` |
| `CureSystem` | episodes, extraction and checkpoint of 1.5, the bridge's audit, the endpoint | checked, proved |
| `HostedArm` | the buffer that mem0 and TencentDB share in shape | part of the next two |
| `Mem0` | the mem0 hook, its audit, clients and endpoint | checked, proved |
| `Tencent` | the TencentDB hook, its drains, queries and windows, the endpoint's add | checked, proved |
| `RecallBudget` | rank-then-fill of `recall_context` | checked, proved |
| `Paging` | the paginated reads of 1.6 | checked, proved |
| `MC...` | bounds and small constants for TLC | |
| `..._proofs` | theorems about the module of that name (`Algorithms_proofs`: about `RecallBudget` and `Paging`) | TLAPS |
| `Induction` | induction over the naturals and functions defined by steps, as lemmas the proofs cite | TLAPS |

`MemoryBackend` sees an integration as the set of outcomes its extraction can have;
`CureSystem`, `Mem0` and `Tencent` open that box, each over its own store and beside the
endpoint that shares it. `TraceSession` is a second view of the same shell: it keeps of the
lifecycle what the annotations depend on (dirty flag, memoized payload, backlog) and adds
every request the shell sends the recorder.

### 2.1 `MemoryBackend`: state and code

| variable | code |
|---|---|
| `integration` | the backend class |
| `available`, `finalized` | `_available`, `_finalized` |
| `handle` | the native client or database: `none`, `open`, `closed`, or `leaked` (its close raised) |
| `store`, `late` | a version of the native store's contents; an accepted write that is not applied yet |
| `recorded`, `backlog`, `learned` | messages recorded since `start`; still buffered (CURE: behind the checkpoint); confirmed by the memory system |
| `task`, `rewrite` | `_task` (0 is None), the number of rewrites since; together they stand for `_recall_query()` |
| `dirty`, `cached` | `_search_dirty`, `_cached_recall` |
| `extractBucket` ... `rewriteBreaker` | the two lanes' bucket, streak and breaker |
| `counts` | the members of `_counts` a property needs, plus the failed recalls, which the code keeps as error events |
| `flush` | how the final extraction ended, as `memory.json` shows it |
| `ret` | the answer of the last `recall_context`, with a bit that tells one call from the next, so that a repeated answer is a step the abstract service has to allow |

Each method is one action because it runs to completion on the episode's thread. A hook's
behaviour is a set of *outcome* records (`CureOutcomes`, `Mem0Outcomes`,
`TencentOutcomes`): whether the attempt was counted, how it failed (*soft*: returned an
error; *hard*: raised), which messages remain buffered, whether the memory system
confirmed the others, whether the store changed, and whether a write may land later.
`Extract` is what `_extract` does around any outcome. `Finalize` is the whole of
`finalize`: flush, dump, file, close, each attempted whatever failed before it.

What a search renders is abstracted to the pair of the store version and the query it was
rendered from (`Answer`); pairs in the constant `Blank` render no line, so both an empty
and a non-empty answer are memoized in the runs. Rank-then-fill, prompts and wording are
therefore left out here.

### 2.2 `MemoryAgent`: state and code

`pc` walks through `run`, `query` and `step`; `messages` is `self.messages` with the
added messages numbered and the transient block as `Marker`; `callsBefore`, `placed` and
`fromCache` are `query`'s locals; `primary` is the exception `run` is leaving with.
`cleanStep` and `shown` are history variables: the call count at the last step that
completed, and how many model calls saw a block.

The base loop is external and modelled from what `agent.py` relies on: limits are checked
before `n_calls` is incremented, which happens just before the model call; the reply is
added through `add_messages`; an interrupt (format error, limit, submission) adds its own
messages. The module header states this contract. A preflight limit may occur in any
query, since cost and wall-time limits exist besides the step limit.

### 2.3 `TraceSession` and `Annotator`: state and code

One logical request is a *run* of attempts: each is accepted, accepted with the answer
lost (`unheard`), accepted with a useless answer, lost, or rejected; only a lost or
unheard attempt or a 5xx is followed by another, up to `annotate_retries`. The recorder
(external) keeps an event under its annotation id: a replay under the same id changes
nothing, one under another id is a second record. `FreshId` mints the id when the event is
built (`_event`), `Body` is what `post` serializes once, and `Landed` what is on record after
the attempts of that one body; `LandedRebuilt` is the mutant that builds it per attempt.
`Post` is `_post` with its streak and breaker.

`pc` is the point the agent's thread has reached between two requests. A search and a
generation carry a number, and a payload is the number of the search that rendered it
with the anchor it was memoized with. `trace`, `laneOn`, `deliveryOn`, `pending`,
`inputs` are the session's fields (`_TraceSession`); `cursor` is the main-lane cursor
`query` reads before placing a block, `calls` what the recorder has folded on that lane.
The change series of a generation is its number of batches (`MaxParts`), each a request
of its own. `HookFaults` lets an integration's annotation hooks raise. `unprocessed` are the
messages still to be handed over (behind CURE's checkpoint, mem0's batch, TencentDB's
buffer); `fed` those a TencentDB add took in before its extraction failed, and `added` its
`_added`, which makes the final tick due with an empty buffer. Each hook clears
`pending_inputs` at its own place (CURE's `backend.py:494`, mem0's `backend.py:490`, TencentDB's
`backend.py:834`), all of them only after a clean extraction (`InputsAfter`).

### 2.4 `CureSystem`: state and code

A row of `memories` is its layer (a repository, or the general layer for a NULL
`project_id`), key, value, status, `superseded_by` and `supersedes`; its id is its place in
the table. `rows` is the committed table, `view` the table as the connection sees it, `tx`
and `todo` the transaction and the writes left in the unit. A step is one statement or the
call of the model, so a failure (`Raise`) or a crash (`CloseEpisode`) may fall between any
two. `shared` says whether the endpoint may serve requests while an extraction runs;
without it, only between extractions. `before`, `listed`, `held` are the copies the code
holds in local variables across those steps. A deletion names its layer itself, so each of
a decision's targets has a scope of its own. The bridge's audit is a set of operators over
the two snapshots and the result (`ReplayView`, `Explained`, `Transitions`). Either snapshot
may fail to be read (`_snapshot_rows` returns None): `evident` says whether both were. With
one missing the extraction goes on as before and its event carries only what the result
itself names, so the two audit properties claim nothing of it.

### 2.5 `Mem0`, `Tencent`: state and code

`HostedArm` counts, per message, how often the engine took it in (`fed`) and how often a
call that carried it raised (`doubt`). In `Mem0` an add is answered within its request or
becomes an event that is polled; an add that raised stays in `late` and may land at any
later time. What the engine writes is external: any additions, updates and deletions, with
receipts that are true, that claim writes which never were, or that leave writes out. An
endpoint's add is a series of such acts for its user, which may also be empty (an add that
failed, or found nothing). An extraction that raises posts its end without an audit in the
model: the report of the observed difference on that path (`mem0_bridge/backend.py:465-470`)
is left out, since no property reads it. In
`Tencent` the gateway is external too: tasks that consume a cycle of messages, timers that
arm behind a tail, merges that replace a row by one with a fresh id. Only an add with a user
round notifies its pipeline (`tencentdb_bridge/endpoint.py:45-47, 159-165`): `unheard` holds
the sessions with an add that carried none. The backend's chunked delivery, drains, idle
wait, paginated resolve, watermark, counted versions and windows with their sidecar are its
code. The endpoint of each is a request beside the episode; TencentDB's add is sent chunk by
chunk, may fail at any chunk with those before it persisted, and is refused before any write
if it has no user round at all.

## 3. Properties and runs

| run (`.cfg`) | module | properties | what it shows |
|---|---|---|---|
| `backend_cache` (MCMemoryBackendCache) | `MCMemoryBackend` | `CacheCoherent`, `RecallTransparent` | with any caller and any failure, the cache cannot be told from searching every time, as long as the store applies its writes before a call returns |
| `backend_life` (MCMemoryBackendLife) | `MCMemoryBackend` | `TypeOK`, `NothingLost`, `DeadLaneBounded`, `OneAttemptPerBoundary`, `TailFlushed`, `DormantAfterFinalize` | no failing path loses a message, a dead lane is bounded, `finalize` flushes and silences; late landings allowed |
| `agent_run` (MCMemoryAgentRun) | `MCMemoryAgent` | `AgentTypeOK`, `PromptIsCurrent`, `TrajectoryUntouched`, `InjectionsCounted`, `NoBoundaryMissed`, `SearchesBounded`, `LoopUnchanged` | a run with a memory is a run of the base loop, its prompts agree with the store and its counters with what the model saw |
| `agent_closes` (MCMemoryAgentCloses) | `MCMemoryAgent` | `EveryRunCloses` | every run ends, with the handle closed or its close tried |
| `agent_late_landing` (MCMemoryAgentLate) | `MCMemoryAgent` | `CacheHitsAreFresh`, violated | finding 5.1 |
| `trace_queries` (MCTraceSessionQuery) | `MCTraceSession` | `DeliveryCitesItsSearch`, `DeliveryOwnsItsCall`, `MissingDeliveryIsLogged` | over several searches, cached answers, crashed calls and a failed request at any point, a delivery on the trajectory names the right search and the right call, and a missing one is logged |
| `trace_lane` (MCTraceSessionLane) | `MCTraceSession` | `TraceTypeOK`, `InputsMatchBacklog`, `RecordedOnce`, `NothingAfterRefusal`, `DisabledTransportIsSilent` | with retries, two failed requests, series of batches and hooks that raise, the memory lane agrees with the backlog and falls silent when it must |
| `trace_refused` (MCTraceSessionRefused) | `MCTraceSession` | `UnderRecordingIsLogged`, violated | finding 5.2 |
| `cure_system` (MCCureSystem) | `MCCureSystem` | `CureTypeOK`, `OneLiveRow`, `ChainsSound`, `AuditIsExact`, `DiffCoversChanges`, `NothingLeftOpen`, `LayersIsolated`, `CheckpointEarned` | whatever fails or crashes between two statements, the database stays whole, the checkpoint honest and the audit, when its snapshots were read, exact |
| `cure_commit` (MCCureSystemCommit) | `MCCureSystem` | `FailedUnitIsUndone`, violated | finding 5.3 |
| `hosted` (MCHosted) | `MCHosted` | `NothingDropped`, `FedOncePerDoubt`, `AuditIsHonest`, `DrainedEpisodeIsWhole`, `EndpointAddIsSearchable`, `EndpointKeepsOwners` | no message is lost or fed again without a doubt, the mem0 audit is honest, a drained TencentDB episode is whole, an answered add is extracted |
| `algorithms` (MCAlgorithms) | `MCAlgorithms` | `RankThenFill`, `EveryRowOnce` | the recall body spends its budget by rank, and a walk over pages returns each row once |

`RecallTransparent` is a refinement: `MemoryBackend` implements `RecallService` with
`query <- CurrentQuery`, `store` and `ret` mapped to themselves. Each call flips a bit of
`ret`: without it a stale answer that repeats the one before would pass for a stutter.
`LoopUnchanged` is one too: `MemoryAgent` implements `AgentLoop` with the program counter
collapsed to the base loop's phases and the trajectory read as `messages` without the
marker. The latter is what "fail-closed" promises: when memory is not strict, no backend
failure can change the loop's calls, messages or end; when it is strict, a failure may
only end the run and never replaces a crash of the agent.

Each property of a passing run has a mutant (marked `Mutant:` beside the definition it
alters), a version of one definition with a plausible bug, with which that run refutes the
property.

### 3.1 Bounds, and why they are enough

* *`backend_cache`*: two tasks (the first is blank, so that it recalls only once rewritten,
  and the second replaces it), one rewrite per bucket, store versions up to 2, two searches
  between two starts, one message, steps 1 and 2, extraction at every step. The cache can
  go wrong only by a change of store or query between two recalls: two versions, two tasks
  and two searches are what that needs. `MCBlank` gives an empty answer in version 0 and
  for one rewritten query. Here `MaxSearches` and `MaxNotes` count from the last `start`;
  starts themselves are not bounded.
* *`backend_life`*: two messages (one is confirmed, one is a tail), limit 2 so that a
  streak can be reset before it trips, three steps so that a bucket is skipped, attempted
  and left, one task, one store version after the empty one (only the dormancy property
  reads the store, and it speaks of single steps). `Message` contains the marker too, which
  `record` has to skip.
* *`agent_run`*: three model calls with both cadences every second call: boundary 1 may be
  crossed by a clean or an interrupted call and attempted by the third. Up to eight
  messages, of which at most one (`MaxUnrecorded`) fails to record or is skipped; the
  store renders nothing at versions 0 and 2 of the task as set, so a block comes and goes.
* *`agent_closes`*: two calls, with late landings; the liveness graph of the larger
  instance adds no new way out of a run.
* *`trace_queries`*, *`trace_refused`*: three (two) searches and generations, two model
  calls, two placed blocks, one failed request, no retries: a cached delivery needs one
  search and two calls, a wrong anchor a second search, a shared interval a call whose
  outcome was lost. Limit 2, so a single failure never opens the breaker; the breaker is
  `trace_lane`'s: one retry, two failed requests, two batches in a series, hooks that raise,
  and a single call, since no delivery is asked about there.
* *`cure_system`*: two repositories (interchangeable, hence the symmetry), one key (rows of
  different keys never meet), two values, three rows, decisions of up to two candidates
  (the second may supersede the first), one retry, two messages (the checkpoint moves
  once or twice in a session, with an extraction that fails in between). A shared endpoint
  writes once during an extraction, and its instance stores two rows, one of which the
  extraction adds.
* *`hosted`*: three messages in chunks of two and cycles of two (a confirmed prefix, a tail
  behind a timer; an endpoint add of three needs two chunks and leaves a tail), two episodes,
  two rows, a page of one row, two users, two texts, two memories and acts, a listing capped
  at two, one call that raises per message (`MaxDoubt`). Beside mem0 and beside the endpoint
  an episode records two messages. The instance combines neither a lost sidecar record
  nor an add without a user round with a call that raised or a drain that gave up
  (`OneFault`), and no untrue receipt with another writer: each of these pairs is two faults
  in one behaviour.
  The theorems have none of these bounds.
* *`algorithms`*: every ranking of up to three lines of up to six characters into totals up
  to twelve, with a marker of 2 and a least room of 4 (a line fits, is cut, or finds too
  little room; one skipped line may be followed by one that fits); every listing of up to
  five rows in pages of two, with every set of malformed rows and every limit.
* No symmetry is used for messages: they are numbers, since TencentDB's confirmed chunks
  are a prefix.

`CHECK_DEADLOCK` is left on for the backend and agent runs; the agent's end is the explicit
stutter `Terminated`. In the others an episode that is done, or a bound reached, ends the
behaviour, and `CHECK_DEADLOCK FALSE` says so.

### 3.2 Fairness

`FairSpec` (and the bounded `MCSpec` of `MCMemoryAgent`) asks weak fairness of
`AgentStep`: the episode is one Python thread, and each model call, subprocess and memory
request in it is bounded by a timeout of its own, after which it returns or raises, which
is a step here too. Nothing is assumed of `StoreLands`: a hosted store need not ever apply
a pending write, and `EveryRunCloses` holds without it. No choice among outcomes is fair:
every extraction may fail for ever. The other modules state safety only and no fairness.

### 3.3 What is assumed of the outside

* *Recorder*: an identical replay is answered as a success; it never rejects what it
  already holds; it may otherwise lose, refuse or silently accept anything.
* *Language model*: any reply, any decision of the schema.
* *SQLite*: a statement fails without effect, a crash keeps exactly what was committed, a
  COMMIT that fails leaves the transaction open. COMMIT faults occur only in
  `cure_commit`; section 5.3 is why.
* *mem0 engines*: ids are minted once and never reused.
* *TencentDB gateway*: the first user round of a session queues a task, and so does one
  with which the backlog fills a cycle (the arm's script sets `everyNConversations` and the
  conversation alternates, `utils/run-memory-arm.sh:516`); a cycle is not longer than a
  chunk (`CycleRows <= ChunkMessages`; `_L1_CYCLE_ROWS` is 10 and `ADD_CHUNK_MESSAGES` is
  100); an add without a user round is persisted and notifies nobody; a merge stays within
  its `task_id` and mints a fresh id; an armed timer has fired when the idle wait is over,
  margin included; clocks agree (the skew margins of the windows and of the watermark,
  `tencentdb_bridge/backend.py:782`, are not modelled); queries list the newest first.
* *Episodes* of a memory run are serial.

## 4. Proofs

The theorems hold for every value of the constants that satisfies the assumptions named in
the modules (sizes and limits natural numbers, flags Boolean, sets any set).

| module | theorem | states | extra assumption |
|---|---|---|---|
| `MemoryBackend_proofs` | `TypeCorrect` | `BackendSpec => []TypeOK` | |
| | `CacheCorrect` | `[]CacheCoherent` | `LateLanding = FALSE` |
| | `RecallRefines` | `RecallTransparent` | `LateLanding = FALSE` |
| | `NothingIsLost` | `[]NothingLost` | |
| | `TailIsFlushed` | `[]TailFlushed` | |
| | `LanesAreBounded` | `[]DeadLaneBounded` | |
| | `BoundariesAttemptedOnce` | `[]OneAttemptPerBoundary` | |
| | `DormancyHolds` | `DormantAfterFinalize` | |
| `MemoryAgent_proofs` | `RunIsBackendSpec` | `Spec => BackendSpec` | |
| | `AgentTypeCorrect` | `[]AgentTypeOK` | |
| | `PromptCorrect` | `[]PromptIsCurrent` | `LateLanding = FALSE` |
| | `TrajectoryIsUntouched` | `[]TrajectoryUntouched` | |
| | `InjectionsAreCounted` | `[]InjectionsCounted` | |
| | `SearchesAreBounded` | `[]SearchesBounded` | |
| | `LoopIsUnchanged` | `LoopUnchanged` | |
| | `BoundariesAreNotMissed` | `[]NoBoundaryMissed` | |
| `TraceSession_proofs` | `TraceTypeCorrect` | `[]TraceTypeOK` | |
| | `EventsAreRecordedOnce` | `[]RecordedOnce` | |
| | `DisabledTransportStaysSilent` | `DisabledTransportIsSilent` | |
| | `InputsAreTheBacklog` | `[]InputsMatchBacklog` | |
| | `RefusedLaneIsOver` | `NothingAfterRefusal` | |
| | `DeliveriesCiteTheirSearch` | `[]DeliveryCitesItsSearch` | |
| | `DeliveriesOwnTheirCall` | `[]DeliveryOwnsItsCall` | |
| | `MissingDeliveriesAreLogged` | `[]MissingDeliveryIsLogged` | |
| `CureSystem_proofs` | `CureTypeCorrect` | `[]CureTypeOK` | |
| | `NothingStaysOpen` | `[]NothingLeftOpen` | `CommitFaults = FALSE` |
| | `OneRowLives` | `[]OneLiveRow` | `CommitFaults = FALSE` |
| | `HistoryIsWhole` | `[]ChainsSound` | `CommitFaults = FALSE` |
| | `LayersStayApart` | `LayersIsolated` | `CommitFaults = FALSE` |
| | `CheckpointIsEarned` | `CheckpointEarned` | `CommitFaults = FALSE` |
| | `ExtractionAuditIsExact` | `[]AuditIsExact` | `CommitFaults = FALSE` |
| | `EveryChangeIsReported` | `[]DiffCoversChanges` | `CommitFaults = FALSE` |
| `Mem0_proofs` | `Mem0DropsNothing` | `[]NothingDropped` | |
| | `Mem0FeedsOncePerDoubt` | `[]FedOncePerDoubt` | |
| | `AuditAccusesNobodyFalsely` | `[]AuditIsHonest` | |
| | `RequestsKeepOwners` | `EndpointKeepsOwners` | |
| `Tencent_proofs` | `TencentDropsNothing` | `[]NothingDropped` | |
| | `TencentFeedsOncePerDoubt` | `[]FedOncePerDoubt` | |
| | `AnsweredAddsAreExtracted` | `[]EndpointAddIsSearchable` | |
| | `DrainedEpisodesAreWhole` | `[]DrainedEpisodeIsWhole` | |
| `Algorithms_proofs` | `BudgetIsFilledByRank` | `[]RankThenFill` | |
| | `WalksReturnEachRowOnce` | `[]EveryRowOnce` | |

`LateLanding = FALSE` says that the store applies a write before the call that made it
returns; finding 5.1 is what happens without it. It always holds of CURE, whose store is a
local database. `CommitFaults = FALSE` excludes finding 5.3.

### 4.1 `MemoryBackend`

* *Types.* First the outcome lemmas (`OutcomeType`, `FlushType`, `ExtractType`) fix the type
  of what a hook may return and of what `_extract` makes of it; then one step per action.
* *Cache.* `CacheCoherent` alone is not inductive: with a write in flight a step of the
  store breaks it. `CacheInv` adds the types and `late = FALSE`. The point of the proof is
  `OutcomeCounted`: an attempt that wrote was counted, and a counted attempt sets the
  flag, failed or not; so is every replacement of the query.
* *Refinement.* From `CacheInv`: a recall from the cache is a `Recall` step of the service
  because the cached answer is what the search would render; every other action either
  leaves the answer alone (`QuietStep`) or declines.
* *Messages.* `InboxInv` joins `NothingLost` and `TailFlushed`, and is inductive given
  `TypeOK`. `OutcomeKeeps` is the fact about the integrations: a clean attempt keeps
  nothing and an attempt that confirmed nothing keeps everything. `TailFlushed` also needs
  that after `finalize` nothing is recorded.
* *Lanes.* `DeadLaneBounded` is not inductive for a tripped breaker: `LaneInv` says that
  while the breaker is clear the streak is strictly below the limit.
* *Attempts.* A tick needs a bucket strictly above the last, and raises the counter by at
  most one. *Dormancy* is an action property that follows from the guards of all actions.

### 4.2 `MemoryAgent`

* *A run is a caller.* Every agent step is a step of the backend or leaves it alone. That a
  recorded message has a number of its own needs the bound of `nAdded`, which is inductive
  only with the pace at every program point (`Paced`): a call adds at most two messages.
  `RunIsBackendSpec` then carries every theorem of 4.1 over to runs.
* *Prompt.* From `CacheInv` of 4.1, which holds of a run by `RunIsBackendSpec`, and the
  fact that nothing writes between `recall_context` and the call.
* *Trajectory.* `TrajectoryInv`: outside a query the messages are `Plain`, the added ones
  in order; inside, they are that with the marker at one place (`Holding`). Removing the
  marker from `Holding` gives `Plain` back whatever was appended behind it.
* *Counters.* `CountInv` says what is still due between the call and `note_recall`;
  `SearchInv` that a set dirty flag is a search not yet paid for.
* *Refinement.* The loop's trajectory is a `SelectSeq` over `messages`; `Plain` and
  `Holding` of the trajectory proof say what it selects, by induction on the length, so
  that placing and removing the block stutter and an added message is one of the loop's.
  `LeaveInv` says why a run leaves: only a strict one for a memory error, and nothing is
  pending until it does. The rest is one lemma per agent step, each mapped to a step of
  `AgentLoop` or to a stutter.
* *Boundaries.* `BoundaryInv`: between steps each cadence has settled the last boundary up
  to the last clean step (`Settled`), and during a step it may still owe one (`Owing`); an
  interrupted step advances the calls and leaves it settled for the step before.

### 4.3 `TraceSession`

`ClientInv` (streak and breaker of the client) gives the types of requests. That an event is
on record under one id has two halves. Within a request it is `Landed`: all attempts carry one
body. Between requests it is that none is posted twice: `AheadInv` says that whatever the
session is about to post is not on record yet (operations are numbered, a series counts its
batches, a delivery's interval is ahead of the ones recorded), and `OnceInv` adds that what is
on record has one id; `PostOnce` takes both through a request, whatever became of its attempts.
`BacklogInv` follows `pending_inputs` through a failed extraction and a conflict;
`RefusalInv` says that once a refusal is logged the lane is off, the operation disabled and
no series under way. For the deliveries: `SessionInv` (an open session is on the trajectory), `SearchedInv` (the pending
or memoized search was recorded from start to end) and `ArmedInv` (what a placed payload
names) make `TrailInv`; `IntervalInv` orders the cursors of the recorded deliveries below
the one read last; `UnloggedInv` counts: while nothing is logged, every noted block has a
delivery of its own, or the one being delivered.

### 4.4 `CureSystem`

* *Shape.* Copies of rows outlive the connection's view, so `CureTypeOK` is inductive only
  with where they are rooted: in `Base`, the table the connection falls back to when its
  unit is undone. `StoreStep` reduces every action to one of nine things that may happen to
  a database, and `StoreInv` and `OpenInv` (a unit is open exactly in `deleting` and
  `saving`) follow from it.
* *History.* `OneLiveRow` and `ChainsSound` together are `Sound(rows)`, a statement about a
  table. Two lemmas on tables carry it: `SuccessionSound` (a replacement of exactly the
  live rows of a layer and key by one new row keeps a table sound) and `ErasureSound`. The
  rest is that a unit amounts to one of the two when it commits. `ReadInv` says what the
  copies agree with and how far the unit is: `Erasing` for the deletion batch, `Saving` for
  the supersede sequence, whose parameter is the place of the insertion among the writes
  left. A write moves it by one (`EraseOne`, `SaveOne`), and the unit starts there
  (`BatchErases`, `UnitSaves`). What the commit changes gives `LayersStayApart`.
* *Time.* `TableInv` says that a table only ever grows and ends rows (`Outlives`), whoever
  writes, and that the copies the code holds are copies of its rows. It needs no quiet
  endpoint. `EarnInv` adds what each stage of an extraction has already put on disk: the
  deletions before the first candidate, then every candidate whose unit is over. Hence
  `CheckpointIsEarned`, also with an endpoint that writes in between.
* *Audit.* `Replay(n)` is the view the audit expects after n candidates, in closed form: a
  row's last supersession wins. `Mirrors` says that it is what the session sees of the
  table, up to the links back, and `Traced` (with `ExactInv`) that this holds after every
  candidate of an undisturbed extraction. One lemma per kind of step (a no-op, a unit begun,
  a write saved, the deletions) takes the replay along (`TraceNoOp`, `TraceBegin`,
  `TraceSaved`, `TraceDeleted`). Hence an undisturbed extraction whose snapshots
  were read (`evident`) is always explained; and whenever the replay explains the second
  snapshot, the rows that changed are those the result cites, whoever wrote.
* *Transitions.* `CiteInv` says that what the result cites was alive in the first snapshot;
  `DiffInv` that a row the snapshot shows as ended stays as it was, also when the extraction
  raised and its result is lost. Then each changed status is told exactly once.

### 4.5 `Mem0`

`BufferInv` adds to `NothingDropped` that an add that succeeded has fed the whole buffer,
which `finish` is about to clear. `FedInv` bounds the feedings of a message together with
those still to come: the adds in `late` that carry it (`Count`) are paid for by calls that
raised, so landing one moves a unit from one side of the sum to the other (`Owed` is the
one free feeding). `AuditInv` follows the memories from the first snapshot
(`StillAsBefore`) through the engine's acts (`ExplainedSince`): as long as nobody else
wrote and the receipts are true, nothing is left unexplained, so a verdict of drift has a
cause. That the receipts of a sequence of acts explain its effect (`Leads`) is an induction
over the acts. `RequestsKeepOwners` is an action property: the invariant carries the owner
the endpoint has checked from the check to the write.

### 4.6 `Tencent`

* *Messages.* The conjuncts of `BufferInv` say that the buffered messages are distinct and
  recorded (`Distinct`, `Past`), that the confirmed prefix was fed (`PrefixFed`), that what
  is still to send was fed only by doubtful calls (`RestDoubted`), that what is not recorded
  yet was not fed (`FutureUnfed`) and that a message no longer buffered was (`NoneDropped`).
  `EndpointInv` follows the endpoint's add through its chunks and its two drains, as long as
  each chunk has carried a user round (`TagInv`): a second chunk means an add of more than a
  cycle, since a cycle is not longer than a chunk; a message left after the first drain is
  behind a timer, only an add of more than a cycle leaves one, and then the endpoint waits
  for the timer.
* *A drained episode.* `EpisodeInv` says what has to be true long before the drain is over.
  It is inductive as long as every add of an episode carried a user round (`Loud`), so the
  theorem carries `Loud => EpisodeInv`; a step never makes `Loud` true again (`LoudBefore`).
  `SessionInv`: a session with a backlog has a task or a timer. `StageInv`: what each stage
  of an extraction has established, up to a session at rest. `RowInv`: an episode's rows are
  not older than its watermark. `WindowInv`: the newest window is the episode's, and no
  row lands after its end unless something failed for good. `SidecarInv`: without a drain
  that gave up, each record on file separates the rows of its session from those before
  and after. `CountInv`: what the pages of the final query have passed, by rank, has been
  gathered, and a row is counted once per version.
* *Pages over moving rows.* A merge between two pages takes a row out of the listing and
  puts a fresh one in front of it, so a row that was not seen never moves to a lower rank
  (`Rank`): it is never passed over. Another episode's late rows only push it further down.
* *The sidecar.* The windows are loaded by a recursive function over the replayed records
  (`LoadWindows`); `StepsExist` gives that function, and an induction over the records gives
  its windows the truths of the records. The first attempt at this proof stopped at lost
  records: the property had claimed more of origins than holds, and TLC showed it over three
  episodes (section 5.4). `DrainedEpisodeIsWhole` now says which windows a wrong origin can
  come from (`Unclosed`).

### 4.7 `RecallBudget`, `Paging`

* *Budget.* `RecallInv`: the budget is the exact sum of the governed lines (`Governed`), the
  body is in rank order, and each hit that was walked and left short (`Short`) met a place in
  the body after which there was no room for its line (`Crowded`). Appending changes no
  earlier sum, so what crowded a hit out keeps doing so.
* *Paging.* `PagingInv`: what a walk has gathered is the well-formed rows of the pages given
  so far (`Good`), and a finished walk is `Complete`: a prefix of them, the whole unless the
  limit was reached. The lemmas are about joining two stretches of a listing, cutting one,
  and selecting from a join.

### 4.8 Induction and recursive functions

What a recursive definition computes is proved where it is needed, with two lemmas of
`Induction` that take a set where the library's theorem takes a predicate:
`NatSetInduction` and `UpToInduction`. `StepsExist` says that a function whose value at n
is given by its value at n - 1 exists, which the provers need before the definition of one
(`Governed`, `LoadWindows`) may be used at all, and `StepsAgree` that two of them agree as
far as their steps do. None of the modules proved about declares a `RECURSIVE` operator.

### 4.9 Only model-checked

`EveryRunCloses`: liveness under fairness is out of the prover's reach. Every other property
of a passing run is a theorem, free of the bounds on faults that the MC modules add.

## 5. Findings

### 5.1 A write that lands late stays invisible to the recall cache (`agent_late_landing`)

`recall_context`'s docstring (backend.py:808) says that "the result can only change when
the query is replaced or the store is written, so a clean flag reuses the memoized
payload", and the comment in `_extract` (backend.py:620) says that a failed tick
invalidates conservatively, because "otherwise the next recall keeps serving the memoized
pre-write payload, and with repeated failures (the breaker) it stays stale to the
episode's end". The flag is set once, when the call returns or raises. If the hosted store
applies the write only after that (mem0's event poll gives up while the event is pending),
a recall in between searches the old contents and clears the flag; later recalls serve
that answer, to the episode's end if the breaker has tripped. The run starts with no
foreign write in flight, so the late write is the run's own. `CacheCoherent` and its
theorem state exactly the condition under which the docstring is right.

### 5.2 A session the recorder refused leaves no record (`trace_refused`)

The marker `note_undelivered_recall` writes is meant to give "the missing trajectory
delivery the same annotation-kind record every other under-recording path leaves", and
`utils/README.md:26` tells the reader to reconcile a nonzero degradation count before
trusting the trajectory. When `set_task` cannot open the session (backend.py:492), the code
logs a warning to the Python log and sets `_trace` to None; every delivery of the episode
is then missing, and `memory.json` holds no annotation event. `MissingDeliveryIsLogged`, a
theorem, says that a session that did open has no such gap.

### 5.3 A COMMIT that fails leaves the transaction open (`cure_commit`)

`atomic` promises "the unit commits once at the end, rolling back on any error"
(`cure_memory/store.py:108`). The rollback is in the `except` of the body; the COMMIT is in
the `else`, outside it. The run shows an extraction that deletes a live row: the statement of
the batch runs, the COMMIT raises, the extraction raises, and afterwards the connection still
sees the row deleted, inside an open transaction, while the committed table has it live
(`FailedUnitIsUndone`). The run ends there. What the code does next follows from `BEGIN` and
from `_write`'s own commit (`store.py:80-94`): the next unit's BEGIN raises, or the next lone
write commits the unit whose failure was reported. `NothingStaysOpen` and the theorems about
history hold provided no COMMIT fails.

### 5.4 Smaller observations

* `_upsert_memory`'s no-op test reads only the newest of the active rows
  (`cure_memory/system.py:238`), so the no-op "against an identical GENERAL row" of the
  comment below it does not fire when a refinement of the same key is newer: a duplicate
  repo-bound copy is stored after all. `NoOp` has this.
* The CURE deletion batch writes whole copies that were listed before the model was asked.
  If an endpoint on the same database superseded such a row in the meantime its marker is
  overwritten, although "history markers survive" (`cure_memory_bridge/endpoint.py:29`)
  the endpoint's own requests. `OneLiveRow` and `ChainsSound` therefore speak of databases
  whose endpoint keeps to the time between extractions (`~shared`).
* mem0: a failing read of an event that is still pending raises, the batch is kept and sent
  again, and the engine has it twice. `FedOncePerDoubt` bounds this by one per call that
  raised.
* TencentDB: a failed sidecar write "degrades origins to the "unknown" sentinel"
  (`tencentdb_bridge/backend.py:416`), with one exception. A start record without its drain
  record is read back as a window without an end (`tencentdb_bridge/backend.py:403`), and it
  takes every later moment that no newer window contains (`tencentdb_bridge/backend.py:449`).
  If episode 1's drain record and episode 2's start record are lost, both having drained,
  episode 3 attributes a memory of episode 2 to episode 1. `DrainedEpisodeIsWhole` allows
  exactly this by its `Unclosed`; without it TLC finds the three episodes
  (`MaxEpisodes = 3`, one message, one row, cycles of one).
* TencentDB: an add is extracted only if it carries a user round. The endpoint refuses an add
  without one (`tencentdb_bridge/endpoint.py:159`) but not one whose last chunk of 100 has
  none, and an episode whose last add holds assistant messages only leaves them in the
  gateway too; neither drain waits for rows nobody was notified of. What the gateway does with
  them is outside the source, so this is a premise of `DrainedEpisodeIsWhole` and
  `EndpointAddIsSearchable` and not a finding: without the premise the run refutes both.
* `atomic_query` advances its offset by the page as filtered; an item that is no object
  would make the next page overlap. `Paging` models the gateway's pages as all objects.

## 6. Not modelled

* A kill of the process in the shell: nothing of an episode's shell is read back after
  one. The CURE database and the TencentDB sidecar are read back, and their modules crash.
* The side model, prompts and the parsing of answers: string handling or pure I/O whose
  only effect on the lifecycle is success or failure.
* Startup probes, the searches of the three integrations and the rendering of their hits,
  TencentDB's scene and persona layers and the observed reads of its agent: reads whose
  answers are data.
* The HTTP framing of the endpoints and the validation of requests
  (`shared_bridge/{endpoint,serve}.py`), the endpoints' searches, and TencentDB's update and
  delete.
* Runners (no state of their own), shell scripts, reports over finished files.
* The observed difference the mem0 hook reports when an extraction raised, and what an event
  of CURE still reports when a snapshot could not be read.
* The skew margins of TencentDB's windows and watermark (five seconds around clocks that the
  model takes to agree), a version change of a row that keeps its id, and a mem0 memory that
  changes its owner (no engine moves one, so `EndpointKeepsOwners` is about the check and not
  about the window between it and the write).
* A failing dump or write of `memory.json` has no effect but its error, which
  `AgentFinalize` has.
* `TraceSession` and `MemoryBackend` are not composed: the first has the part of the
  lifecycle it depends on, and a product of the two would add no interaction.

--------------------------- MODULE MemoryBackend ---------------------------
(***************************************************************************)
(* The memory lifecycle of one agent episode: BaseMemoryBackend            *)
(* (shared_bridge/backend.py) together with the extraction hooks of its    *)
(* three integrations (CURE, mem0, TencentDB).                             *)
(*                                                                         *)
(* One action per public method.  The caller is arbitrary here: Next lets  *)
(* any method be called in any order, a second start() and calls after     *)
(* finalize() included.  MemoryAgent restricts the order to the agent      *)
(* loop's.  The methods run to completion on one thread, so a call is one  *)
(* step; only the store of a hosted integration moves on its own           *)
(* (LateWrite).                                                            *)
(***************************************************************************)
EXTENDS Naturals, FiniteSets

CONSTANTS
    ExtractEvery,   \* extract_every_n_steps; 0: final flush only
    ExtractLimit,   \* extract_max_consecutive_errors; 0: never break
    RewriteEvery,   \* rewrite_every_n_steps; 0: rewriting is disabled
    RewriteLimit,   \* rewrite_max_consecutive_errors; 0: never break
    InjectRecall,   \* inject_recall
    LateLanding,    \* may the store apply an accepted write after the call returned?
    Message,        \* the messages a caller may record
    Step,           \* the step numbers a caller may pass
    BlankTasks,     \* the tasks whose text is blank
    Blank           \* the <<store version, query>> pairs that render no line

Query == Nat \X Nat   \* <<task number, number of rewrites since set_task>>

ASSUME ConfigAssumption ==
    /\ ExtractEvery \in Nat /\ ExtractLimit \in Nat
    /\ RewriteEvery \in Nat /\ RewriteLimit \in Nat
    /\ InjectRecall \in BOOLEAN /\ LateLanding \in BOOLEAN
    /\ Message \subseteq Nat /\ Step \subseteq Nat /\ BlankTasks \subseteq Nat
    /\ Blank \subseteq Nat \X Query

Integration == {"cure", "mem0", "tencentdb"}
Marker == 0            \* the transient recall message; the others are 1, 2, ...

VARIABLES
    integration,                                \* which backend class, never changed
    available, finalized, handle,               \* _available, _finalized, the native handle
    store, late,                                \* version of the native store; a write still to land
    recorded, backlog, learned,                 \* messages recorded / not yet extracted / handed over
    task, rewrite,                              \* _task (0: None); rewrites since set_task
    dirty, cached,                              \* _search_dirty, _cached_recall ({}: None)
    extractBucket, extractErrors, extractBreaker,
    rewriteBucket, rewriteErrors, rewriteBreaker,
    counts,                                     \* part of _counts; the "op=recall" error events
    flush,                                      \* how the "final" extraction ended, as memory.json records it
    ret                                         \* what the last recall_context call answered

life     == <<available, finalized, handle>>
world    == <<store, late>>
inbox    == <<recorded, backlog, learned>>
query    == <<task, rewrite>>
cache    == <<dirty, cached>>
extracts == <<extractBucket, extractErrors, extractBreaker>>
rewrites == <<rewriteBucket, rewriteErrors, rewriteBreaker>>
backendVars == <<integration, available, finalized, handle, store, late,
                 recorded, backlog, learned, task, rewrite, dirty, cached,
                 extractBucket, extractErrors, extractBreaker,
                 rewriteBucket, rewriteErrors, rewriteBreaker, counts, flush, ret>>

Counters == {"extraction_calls", "rewrite_successes", "search_calls", "recall_failures",
             "recall_injections", "recall_cache_hits"}

\* What a search of store version v for query q renders: {} is "inject nothing".
Answer(v, q) == IF <<v, q>> \in Blank THEN {} ELSE {<<v, q>>}
Payload == SUBSET (Nat \X Query)
Reply == [status : {"answer", "failed", "dormant"}, hits : Payload, turn : BOOLEAN]

\* The answer of this call of recall_context; turn tells it from the call before.
Answers(status, hits) == ret' = [status |-> status, hits |-> hits, turn |-> ~ret.turn]

CurrentQuery == <<task, rewrite>>

TypeOK ==
    /\ integration \in Integration
    /\ available \in BOOLEAN /\ finalized \in BOOLEAN
    /\ handle \in {"none", "open", "closed", "leaked"}
    /\ store \in Nat /\ late \in BOOLEAN
    /\ recorded \subseteq Message /\ backlog \subseteq recorded /\ learned \subseteq recorded
    /\ task \in Nat /\ rewrite \in Nat
    /\ dirty \in BOOLEAN /\ cached \in Payload
    /\ extractBucket \in Nat /\ extractErrors \in Nat /\ extractBreaker \in BOOLEAN
    /\ rewriteBucket \in Nat /\ rewriteErrors \in Nat /\ rewriteBreaker \in BOOLEAN
    /\ counts \in [Counters -> Nat]
    /\ flush \in {"none", "skipped", "clean", "failed"}
    /\ ret \in Reply

BackendInit ==
    /\ integration \in Integration
    /\ available = FALSE /\ finalized = FALSE /\ handle = "none"
    \* a run-scope store carries what earlier episodes wrote, the last of it possibly in flight
    /\ store \in 0..1 /\ late \in BOOLEAN /\ (late => LateLanding /\ integration # "cure")
    /\ recorded = {} /\ backlog = {} /\ learned = {}
    /\ task = 0 /\ rewrite = 0
    /\ dirty = TRUE /\ cached = {}
    /\ extractBucket = 0 /\ extractErrors = 0 /\ extractBreaker = FALSE
    /\ rewriteBucket = 0 /\ rewriteErrors = 0 /\ rewriteBreaker = FALSE
    /\ counts = [c \in Counters |-> 0]
    /\ flush = "none"
    /\ ret = [status |-> "dormant", hits |-> {}, turn |-> FALSE]

\* Mutant: finalize does not silence the work surface.
WorkingAfterFinalize == available

Working == available /\ ~finalized    \* every public method's first guard

Bump(c) == [counts EXCEPT ![c] = @ + 1]

-----------------------------------------------------------------------------
(* start, set_task *)

\* Mutant: the integration's buffer of the episode before survives a second start.
ResetInboxKeepsBacklog == recorded' = {} /\ learned' = {} /\ UNCHANGED backlog

ResetInbox == recorded' = {} /\ backlog' = {} /\ learned' = {}

\* The reset every start performs, before anything can fail.  _task survives it.
Reset ==
    /\ finalized' = FALSE
    /\ ResetInbox
    /\ rewrite' = 0
    /\ dirty' = TRUE /\ cached' = {}
    /\ extractBucket' = 0 /\ extractErrors' = 0 /\ extractBreaker' = FALSE
    /\ rewriteBucket' = 0 /\ rewriteErrors' = 0 /\ rewriteBreaker' = FALSE
    /\ counts' = [c \in Counters |-> 0]
    /\ flush' = "none"

StartOk ==
    /\ Reset
    /\ available' = TRUE /\ handle' = "open"
    /\ UNCHANGED <<integration, world, task, ret>>

\* The failed start closes what it opened; a failing close is contained.
\* It raises to its caller exactly when strict.
StartFails ==
    /\ Reset
    /\ available' = FALSE /\ handle' \in {"none", "closed", "leaked"}
    /\ UNCHANGED <<integration, world, task, ret>>

\* Mutant: the cached answer to the task before stays in use.
SetTaskKeepsCache ==
    /\ task' = task + 1 /\ rewrite' = 0
    /\ UNCHANGED <<integration, life, world, inbox, cache, extracts, rewrites, counts, flush, ret>>

SetTask ==
    /\ task' = task + 1 /\ rewrite' = 0
    /\ dirty' = TRUE /\ cached' = {}
    /\ UNCHANGED <<integration, life, world, inbox, extracts, rewrites, counts, flush, ret>>

-----------------------------------------------------------------------------
(* record *)

RecordSkips(m) ==   \* dormant, the transient marker, or an empty text (CURE stores those)
    /\ ~Working \/ m = Marker \/ integration # "cure"
    /\ UNCHANGED backendVars

RecordStores(m) ==
    /\ Working /\ m # Marker
    /\ recorded' = recorded \cup {m} /\ backlog' = backlog \cup {m}
    /\ UNCHANGED <<integration, life, world, learned, query, cache, extracts, rewrites, counts, flush, ret>>

RecordFails(m) ==   \* the message is dropped; raises when strict
    /\ Working /\ m # Marker
    /\ UNCHANGED backendVars

-----------------------------------------------------------------------------
(* Extraction.  An outcome says whether the attempt was counted, how it    *)
(* failed, which messages stay in the backlog, whether the memory system   *)
(* confirmed the others, whether the store changed before the call         *)
(* returned and whether a write may land after it.                         *)

Skip == [counted |-> FALSE, failure |-> "none", kept |-> backlog, confirmed |-> FALSE,
         wrote |-> FALSE, late |-> FALSE]

Lateness == IF LateLanding THEN BOOLEAN ELSE {FALSE}

\* The attempts that confirmed all of the backlog but one of tails; those that
\* confirmed nothing and keep one of tails.
Confirmed(failures, tails, wrotes, lates) ==
    [counted : {TRUE}, failure : failures, kept : tails, confirmed : {TRUE},
     wrote : wrotes, late : lates]
Refused(failures, tails, wrotes, lates) ==
    [counted : {TRUE}, failure : failures, kept : tails, confirmed : {FALSE},
     wrote : wrotes, late : lates]

\* CURE: the checkpoint advances only when the whole extraction succeeded; an
\* extractor error returns before any write, a store error may follow some.
CureOutcomes ==
    {[Skip EXCEPT !.failure = "hard"]} \cup
    IF backlog = {} THEN {Skip}
    ELSE Confirmed({"none"}, {{}}, BOOLEAN, {FALSE})
         \cup Refused({"soft"}, {backlog}, {FALSE}, {FALSE})
         \cup Refused({"hard"}, {backlog}, BOOLEAN, {FALSE})

\* Mutant: mem0 clears its buffer before the add, so a raised add drops it.
Mem0ClearsFirst ==
    IF backlog = {} THEN {Skip}
    ELSE Confirmed({"none"}, {{}}, BOOLEAN, {FALSE})
         \cup Refused({"hard"}, {{}}, BOOLEAN, Lateness)

\* mem0: the buffer is cleared only after the add returned; a raised add may
\* have been applied, or be applied later by the hosted platform.
Mem0Outcomes ==
    IF backlog = {} THEN {Skip}
    ELSE Confirmed({"none"}, {{}}, BOOLEAN, {FALSE})
         \cup Refused({"hard"}, {backlog}, BOOLEAN, Lateness)

\* The tails an add can leave unconfirmed: the confirmed chunks are a prefix.
Tails == {{m \in backlog : m > k} : k \in {Marker} \cup backlog} \ {{}}

\* TencentDB: once the add returned the buffer is gone whatever the drain and
\* the read-back do.  With nothing buffered only a final tick after an add runs.
TencentOutcomes(final) ==
    IF backlog = {} /\ ~(final /\ learned # {}) THEN {Skip}
    ELSE Confirmed({"hard"}, Tails, BOOLEAN, Lateness)
         \cup Confirmed({"none", "hard"}, {{}}, BOOLEAN, Lateness)

Outcomes(final) ==
    IF integration = "cure" THEN CureOutcomes
    ELSE IF integration = "mem0" THEN Mem0Outcomes
    ELSE TencentOutcomes(final)

\* Mutant: only a clean extraction invalidates the recall cache.
MarksIfClean(o) == o.counted /\ o.failure = "none"

\* Every counted attempt marks the store changed, the failed ones included.
MarksStoreChanged(o) == o.counted

\* _extract around the hook's outcome o; a hard failure raises when strict.
Extract(o) ==
    /\ backlog' = o.kept
    /\ learned' = IF o.confirmed THEN learned \cup (backlog \ o.kept) ELSE learned
    /\ store' = IF o.wrote THEN store + 1 ELSE store
    /\ late' = (late \/ o.late)
    /\ dirty' = (dirty \/ MarksStoreChanged(o))
    /\ extractErrors' = IF o.failure # "none" THEN extractErrors + 1
                        ELSE IF o.counted THEN 0 ELSE extractErrors
    /\ extractBreaker' = (\/ extractBreaker
                          \/ o.failure # "none" /\ ExtractLimit > 0 /\ extractErrors + 1 >= ExtractLimit)
    /\ UNCHANGED <<recorded, cached>>

Tally(o) == [counts EXCEPT !["extraction_calls"] = IF o.counted THEN @ + 1 ELSE @]

\* Mutants: the tripped breaker is not consulted; the boundary just attempted is
\* due again; a boundary is due only in a call made exactly on it.
ExtractDueUnbroken(step) == Working /\ ExtractEvery > 0 /\ step \div ExtractEvery > extractBucket
ExtractDueAgain(step) ==
    Working /\ ExtractEvery > 0 /\ ~extractBreaker /\ step \div ExtractEvery >= extractBucket
ExtractDueOnBoundary(step) ==
    /\ Working /\ ExtractEvery > 0 /\ ~extractBreaker
    /\ step % ExtractEvery = 0 /\ step \div ExtractEvery > extractBucket

ExtractDue(step) ==
    /\ Working
    /\ ExtractEvery > 0 /\ ~extractBreaker
    /\ step \div ExtractEvery > extractBucket

ExtractTick(step, o) ==
    /\ ExtractDue(step)
    /\ extractBucket' = step \div ExtractEvery
    /\ Extract(o)
    /\ counts' = Tally(o)
    /\ UNCHANGED <<integration, life, query, rewrites, flush, ret>>

-----------------------------------------------------------------------------
(* Query rewrite *)

RewriteDue(step) ==
    /\ Working
    /\ RewriteEvery > 0 /\ ~rewriteBreaker
    /\ step \div RewriteEvery > rewriteBucket

RewriteReplaces(step) ==
    /\ RewriteDue(step)
    /\ rewriteBucket' = step \div RewriteEvery
    /\ rewrite' = rewrite + 1
    /\ counts' = Bump("rewrite_successes")
    /\ rewriteErrors' = 0
    /\ dirty' = TRUE
    /\ UNCHANGED <<integration, life, world, inbox, task, cached, extracts, rewriteBreaker, flush, ret>>

\* A rejected rewrite returns; an unexpected error raises when strict.
RewriteFails(step) ==
    /\ RewriteDue(step)
    /\ rewriteBucket' = step \div RewriteEvery
    /\ rewriteErrors' = rewriteErrors + 1
    /\ rewriteBreaker' = (RewriteLimit > 0 /\ rewriteErrors + 1 >= RewriteLimit)
    /\ UNCHANGED <<integration, life, world, inbox, query, cache, extracts, counts, flush, ret>>

-----------------------------------------------------------------------------
(* Recall *)

RecallArmed ==
    /\ Working
    /\ InjectRecall /\ task # 0
    /\ ~(rewrite = 0 /\ task \in BlankTasks)

RecallDormant ==
    /\ ~RecallArmed
    /\ Answers("dormant", {})
    /\ UNCHANGED <<integration, life, world, inbox, query, cache, extracts, rewrites, counts, flush>>

RecallFromCache ==
    /\ RecallArmed /\ ~dirty
    /\ Answers("answer", cached)
    /\ UNCHANGED <<integration, life, world, inbox, query, cache, extracts, rewrites, counts, flush>>

\* Mutant: an empty answer is not memoized.
RecallSearchesAgain ==
    /\ RecallArmed /\ dirty
    /\ cached' = Answer(store, CurrentQuery)
    /\ dirty' = (cached' = {})
    /\ counts' = Bump("search_calls")
    /\ Answers("answer", cached')
    /\ UNCHANGED <<integration, life, world, inbox, query, extracts, rewrites, flush>>

RecallSearches ==
    /\ RecallArmed /\ dirty
    /\ cached' = Answer(store, CurrentQuery)
    /\ dirty' = FALSE
    /\ counts' = Bump("search_calls")
    /\ Answers("answer", cached')
    /\ UNCHANGED <<integration, life, world, inbox, query, extracts, rewrites, flush>>

RecallFails ==   \* never cached; raises when strict
    /\ RecallArmed /\ dirty
    /\ counts' = [counts EXCEPT !["search_calls"] = @ + 1, !["recall_failures"] = @ + 1]
    /\ Answers("failed", {})
    /\ UNCHANGED <<integration, life, world, inbox, query, cache, extracts, rewrites, flush>>

NoteRecall(fromCache) ==
    /\ counts' = [counts EXCEPT !["recall_injections"] = @ + 1,
                                !["recall_cache_hits"] = IF fromCache THEN @ + 1 ELSE @]
    /\ UNCHANGED <<integration, life, world, inbox, query, cache, extracts, rewrites, flush, ret>>

-----------------------------------------------------------------------------
(* finalize *)

\* Mutant: the final flush honours the breaker.
FlushUnlessBroken == IF available /\ ~extractBreaker THEN Outcomes(TRUE) ELSE {Skip}

\* An unavailable backend flushes nothing; the breaker is not consulted.
FlushOutcomes == IF available THEN Outcomes(TRUE) ELSE {Skip}

\* Mutant: a failed flush leaves finalize before the close.
HandleLeftOpen(closeFails) ==
    IF handle # "open" \/ flush' = "failed" THEN handle ELSE IF closeFails THEN "leaked" ELSE "closed"

HandleAfter(closeFails) ==
    IF handle # "open" THEN handle ELSE IF closeFails THEN "leaked" ELSE "closed"

\* The flush with outcome o, then the dump, memory.json and the close, each
\* attempted whatever failed before it; any failure of them raises when strict.
Finalize(o, closeFails) ==
    /\ ~finalized
    /\ finalized' = TRUE
    /\ Extract(o)
    /\ counts' = Tally(o)
    /\ flush' = IF o.failure # "none" THEN "failed" ELSE IF o.counted THEN "clean" ELSE "skipped"
    /\ closeFails => handle = "open"
    /\ handle' = HandleAfter(closeFails)
    /\ UNCHANGED <<integration, available, query, extractBucket, rewrites, ret>>

-----------------------------------------------------------------------------
(* The environment: a write the store accepted earlier is applied. *)

LateWrite ==
    /\ late
    /\ late' = FALSE /\ store' = store + 1
    /\ UNCHANGED <<integration, life, inbox, query, cache, extracts, rewrites, counts, flush, ret>>

-----------------------------------------------------------------------------
Record == \E m \in Message : RecordStores(m) \/ RecordFails(m) \/ RecordSkips(m)

MaybeExtract == \E step \in Step : \E o \in Outcomes(FALSE) : ExtractTick(step, o)

MaybeRewrite == \E step \in Step : RewriteReplaces(step) \/ RewriteFails(step)

RecallContext == RecallDormant \/ RecallFromCache \/ RecallSearches \/ RecallFails

FinalizeCall ==
    \E o \in FlushOutcomes : \E closeFails \in BOOLEAN : Finalize(o, closeFails)

BackendNext ==
    \/ StartOk \/ StartFails \/ SetTask
    \/ Record \/ MaybeExtract \/ MaybeRewrite
    \/ RecallContext
    \/ \E fromCache \in BOOLEAN : NoteRecall(fromCache)
    \/ FinalizeCall
    \/ LateWrite

BackendSpec == BackendInit /\ [][BackendNext]_backendVars

-----------------------------------------------------------------------------
(* Properties *)

\* A clean flag is a proof that searching again would change nothing: the
\* memoized payload is what a search of the store as it is now, for the query
\* as it is now, would render.  Every path that replaces the query or writes
\* the store must set _search_dirty, the failing ones included.
CacheCoherent == ~dirty => cached = Answer(store, CurrentQuery)

\* Every recorded message is either still buffered for a later attempt or was
\* handed over to the memory system: no failed attempt drops one.
NothingLost == recorded = backlog \cup learned

\* A dead extraction lane is paid for at most ExtractLimit times in a row by
\* the periodic ticks, plus once by the final flush.
DeadLaneBounded ==
    /\ ExtractLimit > 0 => extractErrors <= ExtractLimit + (IF finalized THEN 1 ELSE 0)
    /\ RewriteLimit > 0 => rewriteErrors <= RewriteLimit

\* However often maybe_extract is called, a boundary is attempted at most once
\* (plus the final flush).
OneAttemptPerBoundary ==
    counts["extraction_calls"] <= extractBucket + (IF finalized THEN 1 ELSE 0)

\* The final flush runs despite a tripped breaker: after finalize a message is
\* unextracted only if the final attempt itself failed.
TailFlushed == (finalized /\ available /\ flush # "failed") => backlog = {}

\* After finalize the work surface is dormant: until the next start no call
\* searches, records, extracts or rewrites, and only a write the store had
\* already accepted can still change it.
DormantAfterFinalize ==
    [][(finalized /\ finalized') =>
         /\ store' # store => late
         /\ UNCHANGED <<inbox, handle, extracts, rewrites, flush>>
         /\ counts'["search_calls"] = counts["search_calls"]]_backendVars

\* Recall is transparent: memoizing the answer is indistinguishable from
\* searching afresh at every step.
Recall == INSTANCE RecallService WITH query <- CurrentQuery
RecallTransparent == Recall!Spec
=============================================================================

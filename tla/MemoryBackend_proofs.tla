------------------------ MODULE MemoryBackend_proofs ------------------------
(***************************************************************************)
(* Proofs about MemoryBackend: for every schedule, limit, store and set of *)
(* blank answers, and for every order in which a caller may call it.       *)
(***************************************************************************)
EXTENDS MemoryBackend, TLAPS

USE DEF Query, Marker

Outcome == [counted : BOOLEAN, failure : {"none", "soft", "hard"},
            kept : SUBSET backlog, confirmed : BOOLEAN,
            wrote : BOOLEAN, late : BOOLEAN]

\* Every outcome of an integration's hook, whichever integration it is, has
\* the shape the base's shell relies on, and keeps only buffered messages.
LEMMA OutcomeType ==
    ASSUME TypeOK, NEW final \in BOOLEAN, NEW o \in Outcomes(final)
    PROVE  o \in Outcome
<1>1. Lateness \subseteq BOOLEAN
  BY DEF Lateness
<1>2. Tails \subseteq SUBSET backlog
  BY DEF Tails
<1>3. Skip \in Outcome
  BY DEF Skip, Outcome
<1>4. CureOutcomes \subseteq Outcome
  BY <1>3 DEF CureOutcomes, Confirmed, Refused, Skip, Outcome
<1>5. Mem0Outcomes \subseteq Outcome
  BY <1>1, <1>3 DEF Mem0Outcomes, Confirmed, Refused, Outcome
<1>6. TencentOutcomes(final) \subseteq Outcome
  BY <1>1, <1>2, <1>3 DEF TencentOutcomes, Confirmed, Outcome
<1>7. QED
  BY <1>4, <1>5, <1>6 DEF Outcomes

LEMMA FlushType ==
    ASSUME TypeOK, NEW o \in FlushOutcomes
    PROVE  o \in Outcome
<1>1. Skip \in Outcome
  BY DEF Skip, Outcome
<1>2. QED
  BY <1>1, OutcomeType DEF FlushOutcomes

\* What the extraction shell does to the types, once for ticks and for the flush.
LEMMA ExtractType ==
    ASSUME TypeOK, NEW o \in Outcome, Extract(o)
    PROVE  /\ recorded' \subseteq Message /\ backlog' \subseteq recorded' /\ learned' \subseteq recorded'
           /\ store' \in Nat /\ late' \in BOOLEAN
           /\ dirty' \in BOOLEAN /\ cached' \in Payload
           /\ extractErrors' \in Nat /\ extractBreaker' \in BOOLEAN
           /\ Tally(o) \in [Counters -> Nat]
<1>1. /\ o.counted \in BOOLEAN /\ o.kept \subseteq backlog
      /\ o.wrote \in BOOLEAN /\ o.late \in BOOLEAN
  BY DEF Outcome
<1>2. /\ recorded' \subseteq Message /\ backlog' \subseteq recorded' /\ learned' \subseteq recorded'
  BY <1>1 DEF TypeOK, Extract
<1>3. store' \in Nat /\ extractErrors' \in Nat
  BY <1>1 DEF TypeOK, Extract
<1>4. cached' \in Payload
  BY DEF TypeOK, Extract
<1>5. late' \in BOOLEAN /\ dirty' \in BOOLEAN /\ extractBreaker' \in BOOLEAN
  BY <1>1, Zenon DEF TypeOK, Extract
<1>6. Tally(o) \in [Counters -> Nat]
  BY <1>1 DEF TypeOK, Tally, Counters
<1>7. QED
  BY <1>2, <1>3, <1>4, <1>5, <1>6

LEMMA TypeInit ==
    ASSUME BackendInit
    PROVE  TypeOK
<1>1. store \in Nat /\ late \in BOOLEAN
  BY DEF BackendInit
<1>2. counts \in [Counters -> Nat]
  BY DEF BackendInit
<1>3. ret \in Reply
  BY DEF BackendInit, Reply, Payload
<1>4. QED
  BY <1>1, <1>2, <1>3 DEF BackendInit, TypeOK, Payload

LEMMA TypeStep ==
    ASSUME TypeOK, [BackendNext]_backendVars
    PROVE  TypeOK'
<1> USE DEF TypeOK
<1>1. CASE StartOk \/ StartFails
  <2>1. counts' \in [Counters -> Nat] /\ cached' \in Payload
    BY <1>1 DEF StartOk, StartFails, Reset, ResetInbox, Payload
  <2>2. handle' \in {"none", "open", "closed", "leaked"}
    BY <1>1 DEF StartOk, StartFails
  <2>3. /\ finalized' \in BOOLEAN /\ dirty' \in BOOLEAN /\ available' \in BOOLEAN
        /\ extractBreaker' \in BOOLEAN /\ rewriteBreaker' \in BOOLEAN
    BY <1>1, Zenon DEF StartOk, StartFails, Reset, ResetInbox
  <2>4. /\ recorded' = {} /\ backlog' = {} /\ learned' = {} /\ flush' = "none"
        /\ rewrite' = 0 /\ extractBucket' = 0 /\ extractErrors' = 0
        /\ rewriteBucket' = 0 /\ rewriteErrors' = 0
        /\ UNCHANGED <<integration, store, late, task, ret>>
    BY <1>1 DEF StartOk, StartFails, Reset, ResetInbox, world
  <2>5. QED
    BY <2>1, <2>2, <2>3, <2>4
<1>2. CASE SetTask
  BY <1>2 DEF SetTask, Payload, life, world, inbox, extracts, rewrites
<1>3. CASE Record
  BY <1>3 DEF Record, RecordStores, RecordFails, RecordSkips, backendVars, life, world, query,
              cache, extracts, rewrites
<1>4. CASE MaybeExtract
  <2>1. PICK step \in Step, o \in Outcomes(FALSE) : ExtractTick(step, o)
    BY <1>4 DEF MaybeExtract
  <2>2. o \in Outcome
    BY OutcomeType
  <2>3. step \div ExtractEvery \in Nat
    BY <2>1, ConfigAssumption DEF ExtractTick, ExtractDue
  <2>4. Extract(o) /\ counts' = Tally(o)
    BY <2>1 DEF ExtractTick
  <2>5. QED
    BY <2>1, <2>2, <2>3, <2>4, ExtractType DEF ExtractTick, life, query, rewrites
<1>5. CASE MaybeRewrite
  <2>1. PICK step \in Step : RewriteReplaces(step) \/ RewriteFails(step)
    BY <1>5 DEF MaybeRewrite
  <2>2. step \div RewriteEvery \in Nat
    BY <2>1, ConfigAssumption DEF RewriteReplaces, RewriteFails, RewriteDue
  <2>3. CASE RewriteReplaces(step)
    BY <2>2, <2>3 DEF RewriteReplaces, Bump, Counters, life, world, inbox, extracts
  <2>4. CASE RewriteFails(step)
    BY <2>2, <2>4, ConfigAssumption DEF RewriteFails, life, world, inbox, query, cache, extracts
  <2>5. QED
    BY <2>1, <2>3, <2>4
<1>6. CASE RecallContext
  <2>1. Answer(store, CurrentQuery) \in Payload
    BY DEF Answer, CurrentQuery, Payload
  <2>2. {} \in Payload
    BY DEF Payload
  <2>3. ret' \in Reply /\ cached' \in Payload
    <3>1. cached' \in Payload
      BY <1>6, <2>1 DEF RecallContext, RecallDormant, RecallFromCache, RecallSearches, RecallFails, cache
    <3>2. \E s \in {"answer", "failed", "dormant"}, h \in Payload : Answers(s, h)
      BY <1>6, <2>2, <3>1 DEF RecallContext, RecallDormant, RecallFromCache, RecallSearches, RecallFails
    <3>3. (~ret.turn) \in BOOLEAN
      OBVIOUS
    <3>4. QED
      BY <3>1, <3>2, <3>3 DEF Answers, Reply
  <2>4. counts' \in [Counters -> Nat]
    BY <1>6 DEF RecallContext, RecallDormant, RecallFromCache, RecallSearches, RecallFails,
                Bump, Counters
  <2>5. dirty' \in BOOLEAN
    BY <1>6 DEF RecallContext, RecallDormant, RecallFromCache, RecallSearches, RecallFails, cache
  <2>6. QED
    BY <1>6, <2>3, <2>4, <2>5 DEF RecallContext, RecallDormant, RecallFromCache, RecallSearches,
                RecallFails, life, world, inbox, query, extracts, rewrites
<1>7. CASE \E fromCache \in BOOLEAN : NoteRecall(fromCache)
  BY <1>7 DEF NoteRecall, Counters, life, world, inbox, query, cache, extracts, rewrites
<1>8. CASE FinalizeCall
  <2>1. PICK o \in FlushOutcomes, closeFails \in BOOLEAN : Finalize(o, closeFails)
    BY <1>8 DEF FinalizeCall
  <2>2. o \in Outcome
    BY FlushType
  <2>3. Extract(o) /\ counts' = Tally(o)
    BY <2>1 DEF Finalize
  <2>4. handle' \in {"none", "open", "closed", "leaked"}
    BY <2>1 DEF Finalize, HandleAfter
  <2>5. flush' \in {"none", "skipped", "clean", "failed"}
    BY <2>1 DEF Finalize
  <2>6. QED
    BY <2>1, <2>2, <2>3, <2>4, <2>5, ExtractType DEF Finalize, query, rewrites
<1>9. CASE LateWrite
  <2>1. late' \in BOOLEAN
    BY <1>9, Zenon DEF LateWrite
  <2>2. store' \in Nat
    BY <1>9 DEF LateWrite
  <2>3. QED
    BY <1>9, <2>1, <2>2 DEF LateWrite, life, inbox, query, cache, extracts, rewrites
<1>10. CASE UNCHANGED backendVars
  BY <1>10 DEF backendVars
<1>11. QED
  BY <1>1, <1>2, <1>3, <1>4, <1>5, <1>6, <1>7, <1>8, <1>9, <1>10 DEF BackendNext

\* Whatever is called in whatever order, every variable keeps its type.
THEOREM TypeCorrect == BackendSpec => []TypeOK
<1>1. BackendInit => TypeOK
  BY TypeInit
<1>2. TypeOK /\ [BackendNext]_backendVars => TypeOK'
  BY TypeStep
<1>3. QED
  BY <1>1, <1>2, PTL DEF BackendSpec

-----------------------------------------------------------------------------
(* The recall cache *)

\* What the cache depends on in a hook: it never writes the store in a call it
\* does not count (the shell sets _search_dirty for counted calls only), and a
\* write lands after the call only if the store can do that at all.
LEMMA OutcomeCounted ==
    ASSUME NEW final \in BOOLEAN, NEW o \in Outcomes(final)
    PROVE  (o.wrote = TRUE => o.counted = TRUE) /\ (LateLanding = FALSE => o.late = FALSE)
<1>1. Skip.wrote = FALSE /\ Skip.late = FALSE
  BY DEF Skip
<1>2. LateLanding = FALSE => Lateness = {FALSE}
  BY DEF Lateness
<1>3. CASE integration = "cure"
  <2>1. o \in CureOutcomes
    BY <1>3 DEF Outcomes
  <2>2. QED
    BY <2>1, <1>1 DEF CureOutcomes, Confirmed, Refused, Skip
<1>4. CASE integration = "mem0"
  <2>1. o \in Mem0Outcomes
    BY <1>4 DEF Outcomes
  <2>2. QED
    BY <2>1, <1>1, <1>2 DEF Mem0Outcomes, Confirmed, Refused
<1>5. CASE integration \notin {"cure", "mem0"}
  <2>1. o \in TencentOutcomes(final)
    BY <1>5 DEF Outcomes
  <2>2. QED
    BY <2>1, <1>1, <1>2 DEF TencentOutcomes, Confirmed
<1>6. QED
  BY <1>3, <1>4, <1>5

LEMMA FlushCounted ==
    ASSUME NEW o \in FlushOutcomes
    PROVE  (o.wrote = TRUE => o.counted = TRUE) /\ (LateLanding = FALSE => o.late = FALSE)
<1>1. Skip.wrote = FALSE /\ Skip.late = FALSE
  BY DEF Skip
<1>2. QED
  BY <1>1, OutcomeCounted DEF FlushOutcomes

\* Without late landings CacheCoherent is inductive once no write is in flight.
CacheInv == TypeOK /\ late = FALSE /\ CacheCoherent

LEMMA ExtractKeepsCache ==
    ASSUME CacheInv, LateLanding = FALSE, NEW o \in Outcome, Extract(o), UNCHANGED query,
           o.wrote = TRUE => o.counted = TRUE, o.late = FALSE
    PROVE  late' = FALSE /\ CacheCoherent'
<1>1. late' = FALSE
  BY Zenon DEF Extract, CacheInv
<1>2. CASE o.counted = TRUE
  <2>1. dirty' = TRUE
    BY <1>2, Zenon DEF Extract, MarksStoreChanged
  <2>2. QED
    BY <1>1, <2>1 DEF CacheCoherent
<1>3. CASE o.counted = FALSE
  <2>1. o.wrote = FALSE
    BY <1>3 DEF Outcome
  <2>2. store' = store /\ cached' = cached /\ task' = task /\ rewrite' = rewrite
    BY <2>1 DEF Extract, query
  <2>3. dirty' = dirty
    BY <1>3, Zenon DEF Extract, MarksStoreChanged, CacheInv, TypeOK
  <2>4. QED
    BY <1>1, <2>2, <2>3 DEF CacheInv, CacheCoherent, CurrentQuery, Answer
<1>4. QED
  BY <1>2, <1>3 DEF Outcome

LEMMA CacheStep ==
    ASSUME CacheInv, LateLanding = FALSE, BackendNext
    PROVE  late' = FALSE /\ CacheCoherent'
<1> USE DEF CacheInv
<1>1. CASE StartOk \/ StartFails
  BY <1>1 DEF StartOk, StartFails, Reset, ResetInbox, world, CacheCoherent
<1>2. CASE SetTask
  BY <1>2 DEF SetTask, world, CacheCoherent
<1>3. CASE Record
  BY <1>3 DEF Record, RecordStores, RecordFails, RecordSkips, backendVars, world, query, cache,
              CacheCoherent, CurrentQuery, Answer
<1>4. CASE MaybeExtract
  <2>1. PICK step \in Step, o \in Outcomes(FALSE) : ExtractTick(step, o)
    BY <1>4 DEF MaybeExtract
  <2>2. o \in Outcome
    BY OutcomeType
  <2>3. Extract(o) /\ UNCHANGED query
    BY <2>1 DEF ExtractTick
  <2>4. QED
    BY <2>2, <2>3, OutcomeCounted, ExtractKeepsCache
<1>5. CASE MaybeRewrite
  BY <1>5 DEF MaybeRewrite, RewriteReplaces, RewriteFails, world, query, cache,
              CacheCoherent, CurrentQuery, Answer
<1>6. CASE RecallContext
  <2>1. late' = FALSE
    BY <1>6 DEF RecallContext, RecallDormant, RecallFromCache, RecallSearches, RecallFails, world
  <2>2. CASE RecallSearches
    BY <2>2 DEF RecallSearches, world, query, CacheCoherent, CurrentQuery, Answer
  <2>3. CASE RecallDormant \/ RecallFromCache \/ RecallFails
    BY <2>3 DEF RecallDormant, RecallFromCache, RecallFails, world, query, cache,
                CacheCoherent, CurrentQuery, Answer
  <2>4. QED
    BY <1>6, <2>1, <2>2, <2>3 DEF RecallContext
<1>7. CASE \E fromCache \in BOOLEAN : NoteRecall(fromCache)
  BY <1>7 DEF NoteRecall, world, query, cache, CacheCoherent, CurrentQuery, Answer
<1>8. CASE FinalizeCall
  <2>1. PICK o \in FlushOutcomes, closeFails \in BOOLEAN : Finalize(o, closeFails)
    BY <1>8 DEF FinalizeCall
  <2>2. o \in Outcome
    BY FlushType
  <2>3. Extract(o) /\ UNCHANGED query
    BY <2>1 DEF Finalize
  <2>4. QED
    BY <2>2, <2>3, FlushCounted, ExtractKeepsCache
<1>9. CASE LateWrite
  BY <1>9 DEF LateWrite
<1>10. QED
  BY <1>1, <1>2, <1>3, <1>4, <1>5, <1>6, <1>7, <1>8, <1>9 DEF BackendNext

LEMMA CacheInvariant == LateLanding = FALSE /\ BackendSpec => []CacheInv
<1> SUFFICES ASSUME LateLanding = FALSE PROVE BackendSpec => []CacheInv
  OBVIOUS
<1>1. BackendInit => CacheInv
  <2>1. BackendInit => late = FALSE /\ CacheCoherent
    BY Zenon DEF BackendInit, CacheCoherent
  <2>2. QED
    BY <2>1, TypeInit DEF CacheInv
<1>2. CacheInv /\ [BackendNext]_backendVars => CacheInv'
  <2> SUFFICES ASSUME CacheInv, [BackendNext]_backendVars PROVE CacheInv'
    OBVIOUS
  <2>1. CASE BackendNext
    BY <2>1, CacheStep, TypeStep DEF CacheInv
  <2>2. CASE UNCHANGED backendVars
    BY <2>2, TypeStep DEF CacheInv, backendVars, CacheCoherent, CurrentQuery, Answer
  <2>3. QED
    BY <2>1, <2>2
<1>3. QED
  BY <1>1, <1>2, PTL DEF BackendSpec

\* With a store that applies a write before the call that makes it returns, a
\* clean _search_dirty is never wrong, whatever fails and in whatever order
\* the methods are called.
THEOREM CacheCorrect == LateLanding = FALSE /\ BackendSpec => []CacheCoherent
<1>1. CacheInv => CacheCoherent
  BY DEF CacheInv
<1>2. QED
  BY <1>1, CacheInvariant, PTL

\* A step that leaves the last answer alone and either keeps the query and
\* writes the store at most once, or keeps the store, is a step of the abstract
\* service or a stutter.
LEMMA QuietStep ==
    ASSUME TypeOK', UNCHANGED ret,
           \/ store' = store
           \/ store' = store + 1 /\ task' = task /\ rewrite' = rewrite
    PROVE  [Recall!Next]_(Recall!vars)
<1>1. CurrentQuery' \in Nat \X Nat
  BY DEF TypeOK, CurrentQuery
<1>2. CASE store' = store
  BY <1>1, <1>2 DEF Recall!Next, Recall!Ask
<1>3. CASE store' = store + 1 /\ task' = task /\ rewrite' = rewrite
  BY <1>3 DEF Recall!Next, Recall!Write, CurrentQuery
<1>4. QED
  BY <1>2, <1>3

LEMMA RecallStep ==
    ASSUME CacheInv, RecallContext
    PROVE  Recall!Recall \/ Recall!Decline
<1>1. UNCHANGED <<store, CurrentQuery>>
  BY DEF RecallContext, RecallDormant, RecallFromCache, RecallSearches, RecallFails, world, query, CurrentQuery
<1>2. Recall!Answer(store, CurrentQuery) = Answer(store, CurrentQuery)
  BY DEF Recall!Answer, Answer
<1>3. CASE RecallDormant \/ RecallFails
  BY <1>1, <1>3 DEF RecallDormant, RecallFails, Answers, Recall!Decline
<1>4. CASE RecallFromCache
  BY <1>1, <1>2, <1>4 DEF RecallFromCache, Answers, CacheInv, CacheCoherent, Recall!Recall
<1>5. CASE RecallSearches
  BY <1>1, <1>2, <1>5 DEF RecallSearches, Answers, Recall!Recall
<1>6. QED
  BY <1>3, <1>4, <1>5 DEF RecallContext

\* The cached recall of the backend implements the abstract cache-free one.
THEOREM RecallRefines == LateLanding = FALSE /\ BackendSpec => RecallTransparent
<1> SUFFICES ASSUME LateLanding = FALSE PROVE BackendSpec => Recall!Spec
  BY DEF RecallTransparent
<1>1. BackendInit => Recall!Init
  BY TypeInit DEF BackendInit, TypeOK, Recall!Init, CurrentQuery
<1>2. CacheInv /\ CacheInv' /\ [BackendNext]_backendVars => [Recall!Next]_(Recall!vars)
  <2> SUFFICES ASSUME CacheInv, CacheInv', [BackendNext]_backendVars
               PROVE  [Recall!Next]_(Recall!vars)
    OBVIOUS
  <2>1. TypeOK'
    BY DEF CacheInv
  <2>2. CASE StartOk \/ StartFails \/ SetTask
    BY <2>1, <2>2, QuietStep DEF StartOk, StartFails, SetTask, world
  <2>3. CASE Record
    BY <2>1, <2>3, QuietStep DEF Record, RecordStores, RecordFails, RecordSkips, backendVars, world
  <2>4. CASE MaybeExtract
    BY <2>1, <2>4, QuietStep DEF MaybeExtract, ExtractTick, Extract, query
  <2>5. CASE MaybeRewrite
    BY <2>1, <2>5, QuietStep DEF MaybeRewrite, RewriteReplaces, RewriteFails, world
  <2>6. CASE RecallContext
    BY <2>6, RecallStep DEF Recall!Next
  <2>7. CASE \E fromCache \in BOOLEAN : NoteRecall(fromCache)
    BY <2>1, <2>7, QuietStep DEF NoteRecall, world
  <2>8. CASE FinalizeCall
    BY <2>1, <2>8, QuietStep DEF FinalizeCall, Finalize, Extract, query
  <2>9. CASE LateWrite
    BY <2>1, <2>9, QuietStep DEF LateWrite, query
  <2>10. CASE UNCHANGED backendVars
    BY <2>1, <2>10, QuietStep DEF backendVars
  <2>11. QED
    BY <2>2, <2>3, <2>4, <2>5, <2>6, <2>7, <2>8, <2>9, <2>10 DEF BackendNext
<1>3. QED
  BY <1>1, <1>2, CacheInvariant, PTL DEF BackendSpec, Recall!Spec

-----------------------------------------------------------------------------
(* What happens to the recorded messages *)

\* Only an outcome that reports a failure leaves messages behind.
\* An outcome that confirms nothing keeps everything.
LEMMA OutcomeKeeps ==
    ASSUME NEW final \in BOOLEAN, NEW o \in Outcomes(final)
    PROVE  (o.failure = "none" => o.kept = {}) /\ (o.confirmed = TRUE \/ o.kept = backlog)
<1>1. Skip.kept = backlog
  BY DEF Skip
<1>2. CASE integration = "cure"
  <2>1. o \in CureOutcomes
    BY <1>2 DEF Outcomes
  <2>2. QED
    BY <2>1, <1>1 DEF CureOutcomes, Confirmed, Refused, Skip
<1>3. CASE integration = "mem0"
  <2>1. o \in Mem0Outcomes
    BY <1>3 DEF Outcomes
  <2>2. QED
    BY <2>1, <1>1 DEF Mem0Outcomes, Confirmed, Refused
<1>4. CASE integration \notin {"cure", "mem0"}
  <2>1. o \in TencentOutcomes(final)
    BY <1>4 DEF Outcomes
  <2>2. QED
    BY <2>1, <1>1 DEF TencentOutcomes, Confirmed
<1>5. QED
  BY <1>2, <1>3, <1>4

LEMMA FlushKeeps ==
    ASSUME NEW o \in FlushOutcomes
    PROVE  o.confirmed = TRUE \/ o.kept = backlog
<1>1. Skip.kept = backlog
  BY DEF Skip
<1>2. QED
  BY <1>1, OutcomeKeeps DEF FlushOutcomes

\* Extraction moves messages from the backlog to the memory system, or leaves them.
LEMMA ExtractLosesNothing ==
    ASSUME TypeOK, NothingLost, NEW o \in Outcome, Extract(o),
           o.confirmed = TRUE \/ o.kept = backlog
    PROVE  NothingLost'
<1>1. o.kept \subseteq backlog /\ recorded' = recorded /\ backlog' = o.kept
  BY DEF Outcome, Extract
<1>2. CASE o.confirmed = TRUE
  BY <1>1, <1>2 DEF NothingLost, Extract
<1>3. CASE o.confirmed # TRUE
  <2>1. learned' = learned \/ learned' = learned \cup (backlog \ o.kept)
    BY DEF Extract
  <2>2. QED
    BY <1>1, <1>3, <2>1 DEF NothingLost
<1>4. QED
  BY <1>2, <1>3

InboxInv == NothingLost /\ TailFlushed

LEMMA InboxStep ==
    ASSUME TypeOK, InboxInv, [BackendNext]_backendVars
    PROVE  InboxInv'
<1> USE DEF TypeOK, InboxInv, NothingLost, TailFlushed
<1>1. CASE StartOk \/ StartFails
  BY <1>1 DEF StartOk, StartFails, Reset, ResetInbox
<1>2. CASE SetTask
  BY <1>2 DEF SetTask, life, inbox
<1>3. CASE Record
  BY <1>3 DEF Record, RecordStores, RecordFails, RecordSkips, Working, backendVars, life
<1>4. CASE MaybeExtract
  <2>1. PICK step \in Step, o \in Outcomes(FALSE) : ExtractTick(step, o)
    BY <1>4 DEF MaybeExtract
  <2>2. o \in Outcome
    BY OutcomeType
  <2>3. NothingLost'
    <3>1. Extract(o)
      BY <2>1 DEF ExtractTick
    <3>2. QED
      BY <2>2, <3>1, OutcomeKeeps, ExtractLosesNothing
  <2>4. TailFlushed'
    BY <2>1 DEF ExtractTick, ExtractDue, Working, life
  <2>5. QED
    BY <2>3, <2>4
<1>5. CASE MaybeRewrite
  BY <1>5 DEF MaybeRewrite, RewriteReplaces, RewriteFails, life, inbox
<1>6. CASE RecallContext
  BY <1>6 DEF RecallContext, RecallDormant, RecallFromCache, RecallSearches, RecallFails, life, inbox
<1>7. CASE \E fromCache \in BOOLEAN : NoteRecall(fromCache)
  BY <1>7 DEF NoteRecall, life, inbox
<1>8. CASE FinalizeCall
  <2>1. PICK o \in FlushOutcomes, closeFails \in BOOLEAN : Finalize(o, closeFails)
    BY <1>8 DEF FinalizeCall
  <2>2. o \in Outcome
    BY FlushType
  <2>3. NothingLost'
    <3>1. Extract(o)
      BY <2>1 DEF Finalize
    <3>2. QED
      BY <2>2, <3>1, FlushKeeps, ExtractLosesNothing
  <2>4. ASSUME available', flush' # "failed"
        PROVE  backlog' = {}
    <3>1. available
      BY <2>1, <2>4 DEF Finalize
    <3>2. o \in Outcomes(TRUE)
      BY <3>1 DEF FlushOutcomes
    <3>3. o.failure = "none"
      BY <2>1, <2>4 DEF Finalize
    <3>4. QED
      BY <2>1, <3>2, <3>3, OutcomeKeeps DEF Finalize, Extract
  <2>5. QED
    BY <2>3, <2>4
<1>9. CASE LateWrite
  BY <1>9 DEF LateWrite, life, inbox
<1>10. CASE UNCHANGED backendVars
  BY <1>10 DEF backendVars
<1>11. QED
  BY <1>1, <1>2, <1>3, <1>4, <1>5, <1>6, <1>7, <1>8, <1>9, <1>10 DEF BackendNext

LEMMA InboxInvariant == BackendSpec => []InboxInv
<1>1. BackendInit => InboxInv
  BY DEF BackendInit, InboxInv, NothingLost, TailFlushed
<1>2. TypeOK /\ InboxInv /\ [BackendNext]_backendVars => InboxInv'
  BY InboxStep
<1>3. QED
  BY <1>1, <1>2, TypeCorrect, PTL DEF BackendSpec

\* No failure path of any integration drops a recorded message.
THEOREM NothingIsLost == BackendSpec => []NothingLost
<1>1. InboxInv => NothingLost
  BY DEF InboxInv
<1>2. QED
  BY <1>1, InboxInvariant, PTL

\* finalize leaves a message unextracted only when its own flush failed.
THEOREM TailIsFlushed == BackendSpec => []TailFlushed
<1>1. InboxInv => TailFlushed
  BY DEF InboxInv
<1>2. QED
  BY <1>1, InboxInvariant, PTL

-----------------------------------------------------------------------------
(* The failure budgets.  DeadLaneBounded is not inductive: that no tick runs *)
(* past the limit depends on the breaker having tripped when it was reached. *)

LaneInv ==
    /\ ExtractLimit > 0 =>
        /\ ~extractBreaker => extractErrors < ExtractLimit
        /\ ~finalized => extractErrors <= ExtractLimit
        /\ extractErrors <= ExtractLimit + 1
    /\ RewriteLimit > 0 =>
        /\ ~rewriteBreaker => rewriteErrors < RewriteLimit
        /\ rewriteErrors <= RewriteLimit

LEMMA ExtractSpends ==
    ASSUME TypeOK, NEW o, Extract(o), ExtractLimit > 0, extractErrors <= ExtractLimit,
           ~extractBreaker => extractErrors < ExtractLimit
    PROVE  /\ ~extractBreaker' => extractErrors' < ExtractLimit
           /\ ~extractBreaker => extractErrors' <= ExtractLimit
           /\ extractErrors' <= ExtractLimit + 1
<1>1. extractErrors' \in {0, extractErrors, extractErrors + 1}
  BY DEF Extract
<1>2. ~extractBreaker' => ~extractBreaker
  BY Zenon DEF Extract
<1>3. ~extractBreaker' => ~(o.failure # "none" /\ extractErrors + 1 >= ExtractLimit)
  BY DEF Extract
<1>4. ASSUME ~extractBreaker' PROVE extractErrors' < ExtractLimit
  <2>1. extractErrors < ExtractLimit
    BY <1>2, <1>4
  <2>2. CASE o.failure # "none"
    BY <1>3, <1>4, <2>2, ConfigAssumption DEF Extract, TypeOK
  <2>3. CASE o.failure = "none"
    BY <2>1, <2>3, ConfigAssumption DEF Extract, TypeOK
  <2>4. QED
    BY <2>2, <2>3
<1>5. ~extractBreaker => extractErrors' <= ExtractLimit
  BY <1>1, ConfigAssumption DEF TypeOK
<1>6. extractErrors' <= ExtractLimit + 1
  BY <1>1, ConfigAssumption DEF TypeOK
<1>7. QED
  BY <1>4, <1>5, <1>6

LEMMA LaneStep ==
    ASSUME TypeOK, LaneInv, [BackendNext]_backendVars
    PROVE  LaneInv'
<1> USE ConfigAssumption DEF TypeOK, LaneInv
<1>1. CASE StartOk \/ StartFails
  BY <1>1 DEF StartOk, StartFails, Reset, ResetInbox
<1>2. CASE SetTask
  BY <1>2 DEF SetTask, life, extracts, rewrites
<1>3. CASE Record
  BY <1>3 DEF Record, RecordStores, RecordFails, RecordSkips, backendVars, life, extracts, rewrites
<1>4. CASE MaybeExtract
  <2>1. PICK step \in Step, o \in Outcomes(FALSE) : ExtractTick(step, o)
    BY <1>4 DEF MaybeExtract
  <2>2. Extract(o) /\ ~extractBreaker /\ ~finalized
    BY <2>1 DEF ExtractTick, ExtractDue, Working
  <2>3. UNCHANGED <<finalized, rewriteErrors, rewriteBreaker>>
    BY <2>1 DEF ExtractTick, life, rewrites
  <2>4. QED
    BY <2>2, <2>3, ExtractSpends
<1>5. CASE MaybeRewrite
  <2>1. PICK step \in Step : RewriteReplaces(step) \/ RewriteFails(step)
    BY <1>5 DEF MaybeRewrite
  <2>2. UNCHANGED <<finalized, extractErrors, extractBreaker>>
    BY <2>1 DEF RewriteReplaces, RewriteFails, life, extracts
  <2>3. CASE RewriteReplaces(step)
    BY <2>2, <2>3 DEF RewriteReplaces, RewriteDue
  <2>4. CASE RewriteFails(step)
    <3>1. ~rewriteBreaker /\ rewriteErrors' = rewriteErrors + 1
      BY <2>4 DEF RewriteFails, RewriteDue
    <3>2. ~rewriteBreaker' => ~(RewriteLimit > 0 /\ rewriteErrors + 1 >= RewriteLimit)
      BY <2>4 DEF RewriteFails
    <3>3. QED
      BY <2>2, <3>1, <3>2
  <2>5. QED
    BY <2>1, <2>3, <2>4
<1>6. CASE RecallContext
  BY <1>6 DEF RecallContext, RecallDormant, RecallFromCache, RecallSearches, RecallFails,
              life, extracts, rewrites
<1>7. CASE \E fromCache \in BOOLEAN : NoteRecall(fromCache)
  BY <1>7 DEF NoteRecall, life, extracts, rewrites
<1>8. CASE FinalizeCall
  <2>1. PICK o \in FlushOutcomes, closeFails \in BOOLEAN : Finalize(o, closeFails)
    BY <1>8 DEF FinalizeCall
  <2>2. Extract(o) /\ ~finalized /\ finalized' = TRUE
    BY <2>1 DEF Finalize
  <2>3. UNCHANGED <<rewriteErrors, rewriteBreaker>>
    BY <2>1 DEF Finalize, rewrites
  <2>4. QED
    BY <2>2, <2>3, ExtractSpends
<1>9. CASE LateWrite
  BY <1>9 DEF LateWrite, life, extracts, rewrites
<1>10. CASE UNCHANGED backendVars
  BY <1>10 DEF backendVars
<1>11. QED
  BY <1>1, <1>2, <1>3, <1>4, <1>5, <1>6, <1>7, <1>8, <1>9, <1>10 DEF BackendNext

\* The failure budget of each lane is never overspent.
THEOREM LanesAreBounded == BackendSpec => []DeadLaneBounded
<1>1. BackendInit => LaneInv
  BY ConfigAssumption DEF BackendInit, LaneInv
<1>2. TypeOK /\ LaneInv /\ [BackendNext]_backendVars => LaneInv'
  BY LaneStep
<1>3. TypeOK /\ LaneInv => DeadLaneBounded
  BY ConfigAssumption DEF TypeOK, LaneInv, DeadLaneBounded
<1>4. QED
  BY <1>1, <1>2, <1>3, TypeCorrect, PTL DEF BackendSpec

-----------------------------------------------------------------------------
(* Boundaries *)

LEMMA AttemptStep ==
    ASSUME TypeOK, OneAttemptPerBoundary, [BackendNext]_backendVars
    PROVE  OneAttemptPerBoundary'
<1> USE DEF TypeOK, OneAttemptPerBoundary
<1>1. counts \in [Counters -> Nat] /\ "extraction_calls" \in Counters
  BY DEF Counters
<1>2. CASE StartOk \/ StartFails
  BY <1>1, <1>2 DEF StartOk, StartFails, Reset, ResetInbox
<1>3. CASE SetTask
  BY <1>3 DEF SetTask, life, extracts
<1>4. CASE Record
  BY <1>4 DEF Record, RecordStores, RecordFails, RecordSkips, backendVars, life, extracts
<1>5. CASE MaybeExtract
  <2>1. PICK step \in Step, o \in Outcomes(FALSE) : ExtractTick(step, o)
    BY <1>5 DEF MaybeExtract
  <2>2. step \div ExtractEvery \in Nat /\ extractBucket < extractBucket'
        /\ extractBucket' = step \div ExtractEvery
    BY <2>1, ConfigAssumption DEF ExtractTick, ExtractDue
  <2>3. finalized' = finalized
    BY <2>1 DEF ExtractTick, life
  <2>4. counts'["extraction_calls"] \in {counts["extraction_calls"], counts["extraction_calls"] + 1}
    BY <1>1, <2>1 DEF ExtractTick, Tally
  <2>5. QED
    BY <1>1, <2>2, <2>3, <2>4
<1>6. CASE MaybeRewrite
  BY <1>1, <1>6 DEF MaybeRewrite, RewriteReplaces, RewriteFails, Bump, life, extracts
<1>7. CASE RecallContext
  BY <1>1, <1>7 DEF RecallContext, RecallDormant, RecallFromCache, RecallSearches, RecallFails,
                    Bump, life, extracts
<1>8. CASE \E fromCache \in BOOLEAN : NoteRecall(fromCache)
  BY <1>1, <1>8 DEF NoteRecall, life, extracts
<1>9. CASE FinalizeCall
  <2>1. PICK o \in FlushOutcomes, closeFails \in BOOLEAN : Finalize(o, closeFails)
    BY <1>9 DEF FinalizeCall
  <2>2. ~finalized /\ finalized' = TRUE /\ extractBucket' = extractBucket
    BY <2>1 DEF Finalize
  <2>3. counts'["extraction_calls"] \in {counts["extraction_calls"], counts["extraction_calls"] + 1}
    BY <1>1, <2>1 DEF Finalize, Tally
  <2>4. QED
    BY <1>1, <2>2, <2>3
<1>10. CASE LateWrite
  BY <1>10 DEF LateWrite, life, extracts
<1>11. CASE UNCHANGED backendVars
  BY <1>11 DEF backendVars
<1>12. QED
  BY <1>2, <1>3, <1>4, <1>5, <1>6, <1>7, <1>8, <1>9, <1>10, <1>11 DEF BackendNext

\* However a caller repeats or skips steps, a boundary is attempted at most once.
THEOREM BoundariesAttemptedOnce == BackendSpec => []OneAttemptPerBoundary
<1>1. BackendInit => OneAttemptPerBoundary
  BY DEF BackendInit, OneAttemptPerBoundary, Counters
<1>2. TypeOK /\ OneAttemptPerBoundary /\ [BackendNext]_backendVars => OneAttemptPerBoundary'
  BY AttemptStep
<1>3. QED
  BY <1>1, <1>2, TypeCorrect, PTL DEF BackendSpec

-----------------------------------------------------------------------------
(* After finalize *)

Dormant == (finalized /\ finalized') =>
             /\ store' # store => late
             /\ UNCHANGED <<inbox, handle, extracts, rewrites, flush>>
             /\ counts'["search_calls"] = counts["search_calls"]

LEMMA DormantStep ==
    ASSUME TypeOK, BackendNext
    PROVE  Dormant
<1> USE DEF Dormant
<1>1. counts \in [Counters -> Nat] /\ "search_calls" \in Counters
  BY DEF TypeOK, Counters
<1>2. CASE StartOk \/ StartFails
  BY <1>2 DEF StartOk, StartFails, Reset, ResetInbox
<1>3. CASE SetTask
  BY <1>3 DEF SetTask, life, world, inbox, extracts, rewrites
<1>4. CASE Record
  BY <1>4 DEF Record, RecordStores, RecordFails, RecordSkips, Working, backendVars,
              inbox, extracts, rewrites
<1>5. CASE MaybeExtract \/ MaybeRewrite
  BY <1>5 DEF MaybeExtract, ExtractTick, ExtractDue, MaybeRewrite, RewriteReplaces, RewriteFails,
              RewriteDue, Working
<1>6. CASE RecallContext
  <2>1. ASSUME finalized PROVE ~RecallArmed
    BY <2>1 DEF RecallArmed, Working
  <2>2. QED
    BY <1>6, <2>1 DEF RecallContext, RecallDormant, RecallFromCache, RecallSearches, RecallFails,
                      life, world, inbox, extracts, rewrites
<1>7. CASE \E fromCache \in BOOLEAN : NoteRecall(fromCache)
  BY <1>1, <1>7 DEF NoteRecall, life, world, inbox, extracts, rewrites
<1>8. CASE FinalizeCall
  BY <1>8 DEF FinalizeCall, Finalize
<1>9. CASE LateWrite
  BY <1>9 DEF LateWrite, life, inbox, extracts, rewrites
<1>10. QED
  BY <1>2, <1>3, <1>4, <1>5, <1>6, <1>7, <1>8, <1>9 DEF BackendNext

\* finalize ends the episode's work for every caller.
THEOREM DormancyHolds == BackendSpec => DormantAfterFinalize
<1>1. TypeOK /\ [BackendNext]_backendVars => [Dormant]_backendVars
  BY DormantStep
<1>2. QED
  BY <1>1, TypeCorrect, PTL DEF BackendSpec, DormantAfterFinalize, Dormant
=============================================================================

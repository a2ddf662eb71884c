---------------------------- MODULE TraceSession ----------------------------
(***************************************************************************)
(* The annotation session of one traced episode: the tracing half of       *)
(* BaseMemoryBackend (shared_bridge/backend.py) driven by the agent's      *)
(* query() (shared_bridge/agent.py), against a recorder that may lose,     *)
(* refuse or silently accept any request.                                  *)
(*                                                                         *)
(* Every request is a step of its own; pc is the point the single agent    *)
(* thread has reached between two of them.  A search and a generation      *)
(* carry a number; the payload of a search is named by the search.         *)
(***************************************************************************)
EXTENDS Annotator, FiniteSets, Integers

CONSTANTS
    Message,     \* the messages of the episode
    MaxParts,    \* the most POST batches one generation's changes fill
    HookFaults   \* may an integration's annotation hooks raise?

ASSUME TraceAssumption == MaxParts \in Nat /\ HookFaults \in BOOLEAN

VARIABLES
    pc,
    trace,         \* "off": _trace is None; "closed": not session_open; "open"
    laneOn,        \* memory_lane_enabled
    deliveryOn,    \* delivery_enabled
    pending,       \* pending_search (0: None)
    inputs,        \* pending_inputs
    unprocessed,   \* recorded messages the integration still has to hand over
    fed,           \* TencentDB: handed over by an extraction that failed afterwards
    added,         \* TencentDB: _added, some messages went through
    ops,           \* searches and generations begun
    op,            \* the operation in progress
    dirty, cached, \* _search_dirty; _cached_recall with _cached_anchor
    recall,        \* the payload placed in the current prompt
    cursor,        \* main-lane cursor read before placement
    calls,         \* main-lane calls the recorder has folded
    crashed,       \* did the query raise?
    noted          \* recall_injections

lane      == <<trace, laneOn, deliveryOn>>
memo      == <<dirty, cached>>
prompt    == <<recall, cursor, calls, crashed, noted>>
generated == <<inputs, unprocessed, fed, added>>
vars == <<annotatorVars, pc, lane, pending, generated, ops, op, memo, prompt>>

NoCursor == -1    \* None
Nothing  == [from |-> 0, anchor |-> 0, cached |-> FALSE]    \* no payload
NoOp     == [id |-> 0, disabled |-> TRUE, accepted |-> FALSE, part |-> 0, parts |-> 0]

Event(kind, id, part) == [kind |-> kind, op |-> id, part |-> part]
Session  == {Event("session", 0, 0), Event("bind_main", 0, 0)}
Binding  == {Event("bind_memory", 0, 0)}
Delivery(id) == [kind |-> "delivery", op |-> id, from |-> recall.from, after |-> cursor]

Recorded   == {s.event : s \in seen}
Deliveries == {e \in Recorded : e.kind = "delivery"}

Init ==
    /\ seen = {} /\ logged = {} /\ strikes = 0 /\ breaker = FALSE
    /\ pc = "task" /\ trace \in {"off", "closed"}
    /\ laneOn = TRUE /\ deliveryOn = TRUE
    /\ pending = 0 /\ inputs = {} /\ unprocessed = {} /\ fed = {} /\ added = FALSE
    /\ ops = 0 /\ op = NoOp
    /\ dirty = TRUE /\ cached = Nothing
    /\ recall = Nothing /\ cursor = NoCursor /\ calls = 0
    /\ crashed = FALSE /\ noted = 0

-----------------------------------------------------------------------------
(* set_task *)

OpenUntraced ==    \* _trace is None, or building the events raised
    /\ pc = "task" /\ pc' = "idle"
    /\ trace = "off" \/ HookFaults
    /\ trace' = "off"
    /\ UNCHANGED <<annotatorVars, laneOn, deliveryOn, pending, generated, ops, op, memo, prompt>>

OpenMain(run) ==
    /\ pc = "task" /\ trace = "closed"
    /\ Post(run, Session, {})
    /\ IF Ok(run) THEN pc' = "bind" /\ UNCHANGED trace
                  ELSE pc' = "idle" /\ trace' = "off"
    /\ UNCHANGED <<laneOn, deliveryOn, pending, generated, ops, op, memo, prompt>>

OpenMemory(run) ==
    /\ pc = "bind" /\ pc' = "idle"
    /\ Post(run, Binding, {})
    /\ trace' = IF Ok(run) THEN "open" ELSE "off"
    /\ UNCHANGED <<laneOn, deliveryOn, pending, generated, ops, op, memo, prompt>>

-----------------------------------------------------------------------------
(* record *)

Traced == trace = "open" /\ laneOn

RecordMessage(m) ==
    /\ pc = "idle"
    /\ m \notin unprocessed \cup fed
    /\ unprocessed' = unprocessed \cup {m}
    /\ inputs' = IF Traced THEN inputs \cup {m} ELSE inputs
    /\ UNCHANGED <<annotatorVars, fed, added, pc, lane, pending, ops, op, memo, prompt>>

-----------------------------------------------------------------------------
(* Operation starts: _bind_start_result, shared by search and generation.  *)

BindStart(run, id) ==
    /\ op' = [id |-> id, disabled |-> Status(run) \in {"oversize", "conflict"}, accepted |-> Ok(run),
              part |-> 0, parts |-> 0]
    /\ IF Status(run) = "conflict" THEN laneOn' = FALSE /\ inputs' = {}
                                   ELSE UNCHANGED <<laneOn, inputs>>

StartRecord(run) ==
    CASE Status(run) = "oversize" -> {"annotation_start_oversize"}
      [] Status(run) = "conflict" -> {"annotation_recovery_conflict"}
      [] OTHER -> {}

-----------------------------------------------------------------------------
(* recall_context *)

RecallClean ==    \* the memoized payload, or the memoized empty answer
    /\ pc = "idle" /\ ~dirty
    /\ recall' = [cached EXCEPT !.cached = cached.from # 0]
    /\ pc' = IF cached.from # 0 THEN "place" ELSE "call"
    /\ cursor' = NoCursor
    /\ UNCHANGED <<annotatorVars, lane, pending, generated, ops, op, memo, calls, crashed, noted>>

SearchUntraced ==
    /\ pc = "idle" /\ dirty
    /\ ~Traced \/ HookFaults
    /\ pending' = IF Traced THEN 0 ELSE pending
    /\ ops' = ops + 1 /\ op' = NoOp
    /\ pc' = "search"
    /\ UNCHANGED <<annotatorVars, lane, generated, memo, prompt>>

SearchStart(run) ==
    /\ pc = "idle" /\ dirty /\ Traced
    /\ pending' = 0
    /\ ops' = ops + 1
    /\ Post(run, {Event("search_start", ops', 0)}, StartRecord(run))
    /\ BindStart(run, ops')
    /\ pc' = "search"
    /\ UNCHANGED <<trace, deliveryOn, unprocessed, fed, added, memo, prompt>>

\* The result of search number ops: a payload, or {} for an empty answer.
Memoize(found, anchor) ==
    /\ cached' = IF found THEN [from |-> ops, anchor |-> anchor, cached |-> FALSE] ELSE Nothing
    /\ dirty' = FALSE
    /\ recall' = cached'
    /\ pc' = IF found THEN "place" ELSE "call"

SearchFailed ==    \* never cached; the flag stays set
    /\ recall' = Nothing /\ pc' = "call"
    /\ UNCHANGED memo

\* Mutant: a search arms its delivery although its end was not recorded.
ArmOnAcceptedStart(run) == op.accepted

Arms(run) == Ok(run) /\ op.accepted    \* both posts landed, and were confirmed

\* The native search has returned; its end goes out when its start did not disable it.
SearchEnd(run, outcome) ==
    /\ pc = "search" /\ ~op.disabled
    /\ LET anchors == outcome = "found" /\ Arms(run)
       IN  /\ Post(run, {Event("search_end", op.id, 0)},
                   IF outcome = "found" /\ ~anchors THEN {"annotation_search_unconfirmed"} ELSE {})
           /\ pending' = IF anchors THEN op.id ELSE pending
           /\ IF outcome = "failed" THEN SearchFailed
              ELSE Memoize(outcome = "found", IF anchors THEN op.id ELSE 0)
    /\ cursor' = NoCursor
    /\ op' = NoOp
    /\ UNCHANGED <<lane, generated, ops, calls, crashed, noted>>

SearchEndsUntraced(outcome) ==    \* no operation, a disabled one, or a hook that raised
    /\ pc = "search"
    /\ op.disabled \/ HookFaults
    /\ IF outcome = "failed" THEN SearchFailed ELSE Memoize(outcome = "found", 0)
    /\ cursor' = NoCursor
    /\ op' = NoOp
    /\ UNCHANGED <<annotatorVars, lane, pending, generated, ops, calls, crashed, noted>>

-----------------------------------------------------------------------------
(* The agent's query(): placement, the model call, the crash probe.        *)

Delivers == trace = "open" /\ deliveryOn

PlaceUntraced ==
    /\ pc = "place" /\ ~Delivers
    /\ pc' = "call"
    /\ UNCHANGED <<annotatorVars, lane, pending, generated, ops, op, memo, prompt>>

ReadCursor(run) ==
    /\ pc = "place" /\ Delivers
    /\ Post(run, {}, {})
    /\ cursor' = IF HasCursor(run) THEN calls ELSE NoCursor
    /\ pc' = "call"
    /\ UNCHANGED <<lane, pending, generated, ops, op, memo, recall, calls, crashed, noted>>

Preflight ==    \* a limit stops the query before any call: nothing was placed for a model
    /\ pc = "call" /\ pc' = "flush"
    /\ recall' = Nothing /\ cursor' = NoCursor
    /\ UNCHANGED <<annotatorVars, lane, pending, generated, ops, op, memo, calls, crashed, noted>>

\* The call is attempted.  It returned only if the lane saw it; one that raised may
\* have failed on either side of the lane.
CallModel(raises) ==
    /\ pc = "call"
    /\ crashed' = raises
    /\ calls' \in IF raises THEN {calls, calls + 1} ELSE {calls + 1}
    /\ noted' = IF recall # Nothing THEN noted + 1 ELSE noted
    /\ pc' = IF recall = Nothing THEN "idle" ELSE IF raises /\ cursor # NoCursor THEN "probe" ELSE "deliver"
    /\ UNCHANGED <<annotatorVars, lane, pending, generated, ops, op, memo, recall, cursor>>

\* Mutant: the probe accepts a lane that has not moved.
AdvancedAllowsEqual == calls >= cursor

Advanced == calls > cursor

Withhold == pc' = "idle" /\ recall' = Nothing /\ cursor' = NoCursor    \* query() returns

Probe(run) ==
    /\ pc = "probe" /\ Delivers
    /\ LET readable == HasCursor(run)
       IN  /\ Post(run, {}, IF readable /\ Advanced THEN {}
                            ELSE IF readable THEN {"annotation_delivery_no_call"}
                            ELSE {"annotation_delivery_probe_unreadable"})
           /\ IF readable /\ Advanced THEN pc' = "deliver" /\ UNCHANGED <<recall, cursor>> ELSE Withhold
    /\ UNCHANGED <<lane, pending, generated, ops, op, memo, calls, crashed, noted>>

-----------------------------------------------------------------------------
(* deliver_recall *)

Cites == IF recall.cached THEN recall.anchor ELSE pending

DeliverNothing ==    \* delivery tracing is off: the pending search is left alone
    /\ pc = "deliver" /\ ~Delivers
    /\ Withhold
    /\ UNCHANGED <<annotatorVars, lane, pending, generated, ops, op, memo, calls, crashed, noted>>

DeliverUnsent ==     \* untraced search, no cursor, or a hook that raised
    /\ pc = "deliver" /\ Delivers
    /\ Cites = 0 \/ cursor = NoCursor \/ HookFaults
    /\ pending' = 0
    /\ Silent(IF Cites # 0 /\ cursor = NoCursor THEN {"annotation_delivery_no_cursor"} ELSE {})
    /\ Withhold
    /\ UNCHANGED <<lane, generated, ops, op, memo, calls, crashed, noted>>

\* Mutant: an unconfirmed delivery leaves no record.
DeliverFailsSilently(run) == {}

DeliveryRecord(run) ==
    IF Ok(run) THEN {}
    ELSE IF Refused(run) THEN {"annotation_delivery_rejected"} ELSE {"annotation_delivery_unconfirmed"}

Deliver(run) ==
    /\ pc = "deliver" /\ Delivers
    /\ Cites # 0 /\ cursor # NoCursor
    /\ pending' = 0
    /\ Post(run, {Delivery(Cites)}, DeliveryRecord(run))
    /\ deliveryOn' = Ok(run)
    /\ Withhold
    /\ UNCHANGED <<trace, laneOn, generated, ops, op, memo, calls, crashed, noted>>

-----------------------------------------------------------------------------
(* Extraction: one generation operation around the native call.  A step    *)
(* extraction follows a clean step; the final one ends the episode.        *)

Extracting == (pc = "idle" /\ ~crashed) \/ pc = "flush"
Return == IF pc = "flush" THEN "done" ELSE "idle"
\* Something to hand over, or TencentDB's last tick: what went through may still be queued.
Due == unprocessed # {} \/ (pc = "flush" /\ added)
Generating(next) == IF next = "done" THEN "generate_final" ELSE "generate"

GenerateUntraced ==
    /\ Extracting /\ Due
    /\ ~Traced \/ HookFaults
    /\ ops' = ops + 1 /\ op' = NoOp
    /\ pc' = Generating(Return)
    /\ UNCHANGED <<annotatorVars, lane, pending, generated, memo, prompt>>

GenerateStart(run) ==
    /\ Extracting /\ Due /\ Traced
    /\ ops' = ops + 1
    /\ \E degraded \in BOOLEAN :    \* an oversize backlog is posted by digest
           Post(run, {Event("generate_start", ops', 0)},
                StartRecord(run) \cup IF degraded THEN {"annotation_inputs_degraded"} ELSE {})
    /\ BindStart(run, ops')
    /\ pc' = Generating(Return)
    /\ UNCHANGED <<trace, deliveryOn, pending, unprocessed, fed, added, memo, prompt>>

\* What stays to be handed over: nothing of a clean extraction; of a failed one all of it
\* (CURE's checkpoint, Mem0's batch), or what no confirmed add of TencentDB has covered.
Left(outcome) == IF outcome = "clean" THEN {{}} ELSE SUBSET unprocessed

\* Mutant: the retained inputs are cleared although the extraction failed.
InputsAlwaysCleared(outcome) == {}

\* The three hooks clear them where they know that the extraction was clean.
InputsAfter(outcome) == IF outcome = "clean" THEN {} ELSE inputs

\* The native extraction succeeds, or fails (by an error result or an exception); its
\* change series fills parts batches.  A counted attempt marks the search cache dirty.
NativeExtract(outcome, parts) ==
    /\ pc \in {"generate", "generate_final"}
    /\ unprocessed' \in Left(outcome)
    /\ fed' = IF outcome = "clean" THEN {} ELSE fed \cup (unprocessed \ unprocessed')
    /\ added' = (added \/ unprocessed' = {})
    /\ inputs' = InputsAfter(outcome)
    /\ dirty' = TRUE
    /\ IF op.disabled
       THEN op' = NoOp /\ pc' = IF pc = "generate" THEN "idle" ELSE "done"
       ELSE op' = [op EXCEPT !.parts = parts] /\ pc' = IF pc = "generate" THEN "series" ELSE "series_final"
    /\ UNCHANGED <<annotatorVars, lane, pending, ops, cached, prompt>>

InSeries == pc \in {"series", "series_final"}
SeriesOver == pc' = IF pc = "series" THEN "idle" ELSE "done"

PostPart(run) ==    \* an ambiguous failure keeps posting
    /\ InSeries /\ op.part < op.parts
    /\ ~Refused(run)
    /\ Post(run, {Event("change", op.id, op.part + 1)}, {})
    /\ op' = [op EXCEPT !.part = @ + 1]
    /\ UNCHANGED <<pc, lane, pending, generated, ops, memo, prompt>>

\* Mutant: the refused batch is skipped and the series goes on to its end event.
AbandonContinues(run) ==
    /\ InSeries /\ op.part < op.parts
    /\ Refused(run)
    /\ Post(run, {Event("change", op.id, op.part + 1)}, {"annotation_change_rejected"})
    /\ op' = [op EXCEPT !.part = @ + 1]
    /\ UNCHANGED <<pc, lane, pending, generated, ops, memo, prompt>>

Abandon(run) ==     \* a refused batch: no end event, the memory lane is over
    /\ InSeries /\ op.part < op.parts
    /\ Refused(run)
    /\ Post(run, {Event("change", op.id, op.part + 1)}, {"annotation_change_rejected"})
    /\ op' = NoOp
    /\ laneOn' = FALSE /\ inputs' = {}
    /\ SeriesOver
    /\ UNCHANGED <<trace, deliveryOn, pending, unprocessed, fed, added, ops, memo, prompt>>

GenerateEnd(run) ==    \* whatever becomes of it, nothing is logged
    /\ InSeries /\ op.part = op.parts
    /\ Post(run, {Event("generate_end", op.id, op.parts)}, {})
    /\ op' = NoOp
    /\ SeriesOver
    /\ UNCHANGED <<lane, pending, generated, ops, memo, prompt>>

GenerateRaises ==   \* a hook raised: the operation stays without its end
    /\ InSeries /\ HookFaults
    /\ op' = NoOp
    /\ SeriesOver
    /\ UNCHANGED <<annotatorVars, lane, pending, generated, ops, memo, prompt>>

RewriteReplaces ==   \* a new query: the cached answer is dropped
    /\ pc = "idle" /\ ~crashed /\ ~dirty
    /\ dirty' = TRUE
    /\ UNCHANGED <<annotatorVars, pc, lane, pending, generated, ops, op, cached, prompt>>

Finish ==
    /\ pc \in {"idle", "flush"} /\ (pc = "flush" => unprocessed = {})
    /\ pc' = IF pc = "idle" THEN "flush" ELSE "done"
    /\ UNCHANGED <<annotatorVars, lane, pending, generated, ops, op, memo, prompt>>

-----------------------------------------------------------------------------
Native ==
    \/ OpenUntraced \/ RecallClean \/ SearchUntraced \/ PlaceUntraced \/ Preflight
    \/ DeliverNothing \/ DeliverUnsent \/ GenerateUntraced \/ GenerateRaises
    \/ RewriteReplaces \/ Finish
    \/ \E m \in Message : RecordMessage(m)
    \/ \E raises \in BOOLEAN : CallModel(raises)
    \/ \E outcome \in {"found", "empty", "failed"} : SearchEndsUntraced(outcome)
    \/ \E outcome \in {"clean", "failed"}, parts \in 0..MaxParts : NativeExtract(outcome, parts)

Request(run) ==
    \/ OpenMain(run) \/ OpenMemory(run) \/ SearchStart(run) \/ ReadCursor(run)
    \/ Probe(run) \/ Deliver(run) \/ GenerateStart(run) \/ PostPart(run) \/ Abandon(run) \/ GenerateEnd(run)
    \/ \E outcome \in {"found", "empty", "failed"} : SearchEnd(run, outcome)

Next == Native \/ \E run \in Requests : Request(run)

Spec == Init /\ [][Next]_vars

-----------------------------------------------------------------------------
(* Properties.                                                             *)

Operation == [id : Nat, disabled : BOOLEAN, accepted : BOOLEAN, part : Nat, parts : Nat]
Payload   == [from : Nat, anchor : Nat, cached : BOOLEAN]

\* The shape of every variable.
TraceTypeOK ==
    /\ trace \in {"off", "closed", "open"}
    /\ laneOn \in BOOLEAN /\ deliveryOn \in BOOLEAN /\ dirty \in BOOLEAN /\ crashed \in BOOLEAN
    /\ breaker \in BOOLEAN /\ strikes \in Nat
    /\ inputs \subseteq Message /\ unprocessed \subseteq Message /\ fed \subseteq Message /\ added \in BOOLEAN
    /\ ops \in Nat /\ pending \in 0..ops /\ op \in Operation /\ op.id <= ops
    /\ cached \in Payload /\ recall \in Payload
    /\ calls \in Nat /\ noted \in Nat /\ cursor \in Nat \cup {NoCursor}

SearchRecorded(id) == {Event("search_start", id, 0), Event("search_end", id, 0)} \subseteq Recorded

\* A recorded delivery cites the very search its payload was rendered from, that
\* search is on the trajectory from start to end, and so are the session and both
\* role bindings (deliver_recall, _recall_rendered, the memoized anchor, set_task).
DeliveryCitesItsSearch ==
    \A d \in Deliveries :
        /\ d.op = d.from
        /\ SearchRecorded(d.op)
        /\ Session \cup Binding \subseteq Recorded

\* The interval a recorded delivery binds holds a model call, and no two deliveries
\* bind the same one, whatever was lost in between (the crash probe of query()).
DeliveryOwnsItsCall ==
    /\ \A d \in Deliveries : d.after < calls
    /\ \A d, e \in Deliveries : d.after = e.after => d = e

Settled == pc \in {"idle", "flush", "done"}
Missing == Settled /\ ~HookFaults /\ \E n \in 1..noted : Cardinality(Deliveries) < n

\* In a session that opened, a block that was placed and whose delivery is not on the
\* trajectory leaves memory.json at least one annotation record
\* (note_undelivered_recall, _recall_rendered, deliver_recall).
MissingDeliveryIsLogged == trace = "open" /\ Missing => logged # {}

\* The same claim of every traced episode, the session set_task could not open
\* included: memory.json shows a nonzero degradation count when the trajectory
\* under-records it (utils/README.md, note_undelivered_recall's docstring).
UnderRecordingIsLogged == strikes > 0 /\ Missing => logged # {}

\* The inputs the next generation start will name are exactly the recorded messages
\* that no clean extraction has covered: those still to be handed over and, for
\* TencentDB, those handed over by an extraction that failed afterwards; across failed
\* extractions and lost posts.
InputsMatchBacklog == Traced => inputs = unprocessed \cup fed

\* The trajectory holds each event once: a retry after a lost answer is a replay, and
\* no two requests of the session carry the same start, end, batch, delivery or binding
\* (post and _attempt_loop, _event, the operation counters, the crash probe's cursor).
RecordedOnce == \A s, t \in seen : s.event = t.event => s = t

LaneEvents == {e \in Recorded : e.kind \in {"search_start", "search_end", "generate_start", "change", "generate_end"}}
Refusals   == {"annotation_recovery_conflict", "annotation_change_rejected"}

\* After a refused change batch or a recovery conflict nothing more reaches the memory
\* lane: in particular no end event closes the refused series.
NothingAfterRefusal == [][logged \cap Refusals # {} => LaneEvents' = LaneEvents]_vars

\* Once memory.json says the transport was disabled, nothing more reaches the recorder
\* for the rest of the session, and no later success brings the transport back.
DisabledTransportIsSilent ==
    [][("annotation_transport_disabled" \in logged \/ breaker) => breaker' /\ seen' = seen]_vars
=============================================================================

------------------------ MODULE TraceSession_proofs ------------------------
(***************************************************************************)
(* Proofs about TraceSession: for every number of retries, breaker limit,  *)
(* set of messages, hooks that raise or not, and any number of operations. *)
(***************************************************************************)
EXTENDS TraceSession, SequenceTheorems, FiniteSetTheorems, TLAPS

-----------------------------------------------------------------------------
(* One request.                                                            *)

LEMMA RunsEnd ==
    ASSUME NEW run \in Requests, run # <<>>
    PROVE  run \in Runs /\ Len(run) \in DOMAIN run /\ Final(run) \in Attempt
<1>1. run \in Runs
  BY DEF Requests
<1>2. PICK n \in 1..(1 + Retries) : run \in [1..n -> Attempt]
  BY <1>1 DEF Runs
<1>3. n \in Nat /\ 1 <= n
  BY AnnotatorAssumption
<1>4. run \in Seq(Attempt) /\ Len(run) = n
  BY <1>2, <1>3
<1>5. n \in DOMAIN run /\ run[n] \in Attempt
  BY <1>2, <1>3
<1>6. QED
  BY <1>1, <1>4, <1>5 DEF Final

\* What a request that was answered has put on the trajectory, and what any may have.
LEMMA PostRecords ==
    ASSUME NEW run, NEW events, NEW reasons, Post(run, events, reasons)
    PROVE  /\ Recorded \subseteq Recorded'
           /\ Recorded' \subseteq Recorded \cup events
           /\ Ok(run) => Recorded' = Recorded \cup events
<1>1. run \in Requests /\ seen' = seen \cup Landed(run, events)
  BY DEF Post
<1>2. Recorded \subseteq Recorded'
  BY <1>1 DEF Recorded
<1>3. Recorded' \subseteq Recorded \cup events
  BY <1>1 DEF Recorded, Landed, Body
<1>4. ASSUME Ok(run), NEW e \in events
      PROVE  e \in Recorded'
  <2>1. Len(run) \in DOMAIN run /\ run[Len(run)] \in Landings
    BY <1>1, <1>4, RunsEnd DEF Ok, Final, Landings
  <2>2. [event |-> e, id |-> FreshId(e)] \in Landed(run, events)
    BY <2>1 DEF Landed, Reaches, Body
  <2>3. QED
    BY <1>1, <2>2 DEF Recorded
<1>5. QED
  BY <1>2, <1>3, <1>4

LEMMA NothingRecorded ==
    ASSUME UNCHANGED seen
    PROVE  Recorded' = Recorded
BY DEF Recorded

\* A breaker that is open skips the request.
LEMMA PostSkipped ==
    ASSUME NEW run, NEW events, NEW reasons, Post(run, events, reasons), breaker
    PROVE  run = <<>> /\ seen' = seen /\ breaker' /\ ~Ok(run) /\ Status(run) = "ambiguous"
<1>1. run = <<>>
  BY DEF Post, Requests
<1>2. Landed(run, events) = {}
  BY <1>1 DEF Landed, Reaches
<1>3. QED
  BY <1>1, <1>2 DEF Post, Ok, Status

-----------------------------------------------------------------------------
(* The transport.                                                          *)

\* What every step is to the annotation client: a request, a record, or nothing.
LEMMA StepOfClient ==
    ASSUME [Next]_vars
    PROVE  \/ \E run, events, reasons : /\ Post(run, events, reasons)
                                        /\ "annotation_transport_disabled" \notin reasons
           \/ \E reasons : Silent(reasons) /\ "annotation_transport_disabled" \notin reasons
           \/ UNCHANGED annotatorVars
<1>1. CASE Native
  <2>1. CASE DeliverUnsent
    BY <2>1 DEF DeliverUnsent
  <2>2. CASE Native /\ ~DeliverUnsent
    BY <2>2 DEF Native, OpenUntraced, RecallClean, SearchUntraced, PlaceUntraced, Preflight, DeliverNothing,
                GenerateUntraced, GenerateRaises, RewriteReplaces, Finish, RecordMessage, CallModel,
                SearchEndsUntraced, NativeExtract
  <2>3. QED
    BY <1>1, <2>1, <2>2
<1>2. ASSUME NEW run \in Requests, Request(run)
      PROVE  \E events, reasons : Post(run, events, reasons) /\ "annotation_transport_disabled" \notin reasons
  <2>1. CASE OpenMain(run) \/ OpenMemory(run) \/ ReadCursor(run)
    BY <2>1 DEF OpenMain, OpenMemory, ReadCursor
  <2>2. CASE Probe(run) \/ PostPart(run) \/ Abandon(run) \/ GenerateEnd(run)
    BY <2>2 DEF Probe, PostPart, Abandon, GenerateEnd
  <2>3. CASE SearchStart(run)
    BY <2>3 DEF SearchStart, StartRecord
  <2>4. CASE GenerateStart(run)
    BY <2>4 DEF GenerateStart, StartRecord
  <2>5. CASE Deliver(run)
    BY <2>5 DEF Deliver, DeliveryRecord
  <2>6. CASE \E outcome \in {"found", "empty", "failed"} : SearchEnd(run, outcome)
    BY <2>6 DEF SearchEnd
  <2>7. QED
    BY <1>2, <2>1, <2>2, <2>3, <2>4, <2>5, <2>6 DEF Request
<1>3. CASE UNCHANGED vars
  BY <1>3 DEF vars
<1>4. QED
  BY <1>1, <1>2, <1>3 DEF Next

\* The record of a disabled transport tells the truth.
ClientInv ==
    /\ "annotation_transport_disabled" \in logged => breaker
    /\ breaker \in BOOLEAN /\ strikes \in Nat

LEMMA ClientInit == Init => ClientInv
<1> SUFFICES ASSUME Init
             PROVE  ClientInv
  OBVIOUS
<1>1. seen = {} /\ logged = {} /\ strikes = 0 /\ breaker = FALSE
  BY DEF Init
<1>2. QED
  BY <1>1 DEF ClientInv

LEMMA ClientStep == ClientInv /\ [Next]_vars => ClientInv'
<1> SUFFICES ASSUME ClientInv, [Next]_vars
             PROVE  ClientInv'
  OBVIOUS
<1>1. ASSUME NEW run, NEW events, NEW reasons, Post(run, events, reasons),
             "annotation_transport_disabled" \notin reasons
      PROVE  ClientInv'
  <2>1. strikes' = StrikesAfter(run) /\ strikes' \in Nat
    BY <1>1 DEF Post, StrikesAfter, ClientInv
  <2>2. "annotation_transport_disabled" \in logged' => breaker'
    BY <1>1, <2>1 DEF Post, Trip, ClientInv
  <2>3. QED
    BY <1>1, <2>1, <2>2 DEF Post, ClientInv
<1>2. ASSUME NEW reasons, Silent(reasons), "annotation_transport_disabled" \notin reasons
      PROVE  ClientInv'
  BY <1>2 DEF Silent, ClientInv
<1>3. CASE UNCHANGED annotatorVars
  BY <1>3 DEF annotatorVars, ClientInv
<1>4. QED
  BY <1>1, <1>2, <1>3, StepOfClient

LEMMA ClientHolds == Spec => []ClientInv
BY ClientInit, ClientStep, PTL DEF Spec

\* Once the transport is disabled nothing reaches the recorder, and no success brings
\* it back (the breaker of annotate.py).
THEOREM DisabledTransportStaysSilent == Spec => DisabledTransportIsSilent
<1> DEFINE Silence == ("annotation_transport_disabled" \in logged \/ breaker) => breaker' /\ seen' = seen
<1>1. ClientInv /\ [Next]_vars => Silence
  <2> SUFFICES ASSUME ClientInv, [Next]_vars, breaker
               PROVE  breaker' /\ seen' = seen
    BY DEF ClientInv
  <2>1. ASSUME NEW reasons, Silent(reasons)
        PROVE  breaker' /\ seen' = seen
    BY <2>1 DEF Silent
  <2>2. CASE UNCHANGED annotatorVars
    BY <2>2 DEF annotatorVars
  <2>3. QED
    BY <2>1, <2>2, StepOfClient, PostSkipped
<1>2. ClientInv /\ [Next]_vars => [Silence]_vars
  BY <1>1
<1>3. QED
  BY <1>2, ClientHolds, PTL DEF Spec, DisabledTransportIsSilent

-----------------------------------------------------------------------------
(* The retained inputs.                                                    *)

BacklogInv ==
    /\ pc \in {"task", "bind"} => inputs = {} /\ unprocessed = {} /\ fed = {}
    /\ InputsMatchBacklog

LEMMA BacklogStep == BacklogInv /\ [Next]_vars => BacklogInv'
<1> SUFFICES ASSUME BacklogInv, [Next]_vars
             PROVE  BacklogInv'
  OBVIOUS
<1> USE DEF BacklogInv, InputsMatchBacklog, Traced
<1>1. CASE OpenUntraced
  BY <1>1 DEF OpenUntraced, generated
<1>2. ASSUME NEW run, OpenMain(run) \/ OpenMemory(run)
      PROVE  BacklogInv'
  BY <1>2 DEF OpenMain, OpenMemory, generated
<1>3. ASSUME NEW m, RecordMessage(m)
      PROVE  BacklogInv'
  BY <1>3 DEF RecordMessage, lane
<1>4. ASSUME NEW run, SearchStart(run) \/ GenerateStart(run)
      PROVE  BacklogInv'
  <2>1. \/ laneOn' = FALSE
        \/ laneOn' = laneOn /\ inputs' = inputs
    BY <1>4 DEF SearchStart, GenerateStart, BindStart
  <2>2. pc' \notin {"task", "bind"} /\ trace' = trace /\ unprocessed' = unprocessed /\ fed' = fed
    BY <1>4 DEF SearchStart, GenerateStart, Generating, Return, Extracting
  <2>3. QED
    BY <2>1, <2>2
<1>5. ASSUME NEW run, Abandon(run)
      PROVE  BacklogInv'
  BY <1>5 DEF Abandon, SeriesOver
<1>6. ASSUME NEW outcome, NEW parts, NativeExtract(outcome, parts)
      PROVE  BacklogInv'
  <2>1. outcome # "clean" => unprocessed' \cup fed' = unprocessed \cup fed /\ inputs' = inputs
    BY <1>6 DEF NativeExtract, Left, InputsAfter
  <2>2. outcome = "clean" => unprocessed' = {} /\ fed' = {} /\ inputs' = {}
    BY <1>6 DEF NativeExtract, Left, InputsAfter
  <2>3. pc' \notin {"task", "bind"}
    BY <1>6 DEF NativeExtract
  <2>4. QED
    BY <1>6, <2>1, <2>2, <2>3 DEF NativeExtract, lane
<1>7. ASSUME NEW run, Deliver(run)
      PROVE  BacklogInv'
  BY <1>7 DEF Deliver, Withhold, generated
<1>8. ASSUME UNCHANGED <<lane, generated>>, pc \in {"task", "bind"} \/ pc' \notin {"task", "bind"}
      PROVE  BacklogInv'
  BY <1>8 DEF lane, generated
<1>9. CASE Native
  <2>1. CASE RecallClean \/ SearchUntraced \/ PlaceUntraced \/ Preflight \/ DeliverNothing \/ DeliverUnsent
    BY <2>1, <1>8 DEF RecallClean, SearchUntraced, PlaceUntraced, Preflight, DeliverNothing, DeliverUnsent, Withhold
  <2>2. CASE GenerateUntraced \/ GenerateRaises \/ RewriteReplaces \/ Finish
    BY <2>2, <1>8 DEF GenerateUntraced, GenerateRaises, RewriteReplaces, Finish, Generating, Return, Extracting, SeriesOver
  <2>3. CASE \E raises \in BOOLEAN : CallModel(raises)
    BY <2>3, <1>8 DEF CallModel
  <2>4. CASE \E outcome \in {"found", "empty", "failed"} : SearchEndsUntraced(outcome)
    BY <2>4, <1>8 DEF SearchEndsUntraced, Memoize, SearchFailed
  <2>5. QED
    BY <1>9, <1>1, <1>3, <1>6, <2>1, <2>2, <2>3, <2>4 DEF Native
<1>10. ASSUME NEW run \in Requests, Request(run)
       PROVE  BacklogInv'
  <2>1. CASE ReadCursor(run) \/ Probe(run) \/ PostPart(run) \/ GenerateEnd(run)
    BY <2>1, <1>8 DEF ReadCursor, Probe, PostPart, GenerateEnd, Withhold, InSeries, SeriesOver
  <2>2. CASE \E outcome \in {"found", "empty", "failed"} : SearchEnd(run, outcome)
    BY <2>2, <1>8 DEF SearchEnd, Memoize, SearchFailed
  <2>3. QED
    BY <1>10, <1>2, <1>4, <1>5, <1>7, <2>1, <2>2 DEF Request
<1>11. CASE UNCHANGED vars
  BY <1>11, <1>8 DEF vars
<1>12. QED
  BY <1>9, <1>10, <1>11 DEF Next

\* The inputs the next generation start will name are the recorded messages that are
\* not checkpointed (record, _extract, _bind_start_result).
THEOREM InputsAreTheBacklog == Spec => []InputsMatchBacklog
<1>1. Init => BacklogInv
  BY DEF Init, BacklogInv, InputsMatchBacklog
<1>2. BacklogInv => InputsMatchBacklog
  BY DEF BacklogInv
<1>3. QED
  BY <1>1, <1>2, BacklogStep, PTL DEF Spec

-----------------------------------------------------------------------------
(* A refused memory lane.                                                  *)

LaneKinds == {"search_start", "search_end", "generate_start", "change", "generate_end"}

RefusalInv == logged \cap Refusals # {} => ~laneOn /\ op.disabled /\ ~InSeries

\* A step that logs no refusal, given where it leaves the lane.
LEMMA RefusalKept ==
    ASSUME RefusalInv, logged' \cap Refusals = logged \cap Refusals,
           laneOn' = laneOn, op' \in {op, NoOp}, ~InSeries => ~InSeries'
    PROVE  RefusalInv'
BY DEF RefusalInv, NoOp

LEMMA PostLogs ==
    ASSUME NEW run, NEW events, NEW reasons, Post(run, events, reasons), reasons \cap Refusals = {}
    PROVE  logged' \cap Refusals = logged \cap Refusals
BY DEF Post, Trip, Refusals

LEMMA RefusalStep == RefusalInv /\ [Next]_vars => RefusalInv'
<1> SUFFICES ASSUME RefusalInv, [Next]_vars
             PROVE  RefusalInv'
  OBVIOUS
<1>1. ASSUME NEW run, SearchStart(run) \/ GenerateStart(run)
      PROVE  RefusalInv'
  <2>1. laneOn /\ logged \cap Refusals = {}
    <3>1. laneOn
      BY <1>1 DEF SearchStart, GenerateStart, Traced
    <3>2. QED
      BY <3>1 DEF RefusalInv
  <2>2. ~InSeries'
    BY <1>1 DEF SearchStart, GenerateStart, Generating, Return, InSeries
  <2>3. CASE Status(run) = "conflict"
    <3>1. BindStart(run, ops')
      BY <1>1 DEF SearchStart, GenerateStart
    <3>2. laneOn' = FALSE
      BY <2>3, <3>1 DEF BindStart
    <3>3. op'.disabled = (Status(run) \in {"oversize", "conflict"})
      BY <3>1 DEF BindStart
    <3>4. op'.disabled
      BY <2>3, <3>3
    <3>5. QED
      BY <3>2, <3>4, <2>2 DEF RefusalInv
  <2>4. CASE Status(run) # "conflict"
    <3>1. StartRecord(run) \cap Refusals = {}
      BY <2>4 DEF StartRecord, Refusals
    <3>2. logged' \cap Refusals = {}
      <4>1. CASE SearchStart(run)
        BY <4>1, <2>1, <3>1, PostLogs DEF SearchStart
      <4>2. CASE GenerateStart(run)
        <5>1. PICK degraded \in BOOLEAN :
                Post(run, {Event("generate_start", ops', 0)},
                     StartRecord(run) \cup IF degraded THEN {"annotation_inputs_degraded"} ELSE {})
          BY <4>2 DEF GenerateStart
        <5>2. (StartRecord(run) \cup IF degraded THEN {"annotation_inputs_degraded"} ELSE {}) \cap Refusals = {}
          BY <3>1 DEF Refusals
        <5>3. QED
          BY <2>1, <5>1, <5>2, PostLogs
      <4>3. QED
        BY <1>1, <4>1, <4>2
    <3>3. QED
      BY <3>2 DEF RefusalInv
  <2>5. QED
    BY <2>3, <2>4
<1>2. ASSUME NEW run, Abandon(run)
      PROVE  RefusalInv'
  BY <1>2 DEF Abandon, RefusalInv, NoOp, InSeries, SeriesOver
<1>3. ASSUME NEW outcome, NEW parts, NativeExtract(outcome, parts)
      PROVE  RefusalInv'
  <2>1. logged' = logged /\ laneOn' = laneOn
    BY <1>3 DEF NativeExtract, annotatorVars, lane
  <2>2. CASE op.disabled
    BY <1>3, <2>1, <2>2, RefusalKept DEF NativeExtract, InSeries
  <2>3. CASE ~op.disabled
    BY <2>1, <2>3 DEF RefusalInv
  <2>4. QED
    BY <2>2, <2>3
<1>4. ASSUME NEW run, Deliver(run)
      PROVE  RefusalInv'
  <2>1. DeliveryRecord(run) \cap Refusals = {}
    BY DEF DeliveryRecord, Refusals
  <2>2. logged' \cap Refusals = logged \cap Refusals
    BY <1>4, <2>1, PostLogs DEF Deliver
  <2>3. QED
    BY <1>4, <2>2, RefusalKept DEF Deliver, Withhold, InSeries
<1>5. ASSUME NEW run, PostPart(run)
      PROVE  RefusalInv'
  <2>1. logged' \cap Refusals = logged \cap Refusals
    BY <1>5, PostLogs DEF PostPart
  <2>2. QED
    BY <1>5, <2>1 DEF PostPart, RefusalInv
<1>6. CASE Native
  <2> USE DEF annotatorVars, lane, InSeries
  <2>1. CASE OpenUntraced \/ RecallClean \/ SearchUntraced \/ PlaceUntraced \/ Preflight \/ DeliverNothing
    BY <2>1, RefusalKept DEF OpenUntraced, RecallClean, SearchUntraced, PlaceUntraced, Preflight, DeliverNothing, Withhold
  <2>2. CASE DeliverUnsent
    <3>1. logged' \cap Refusals = logged \cap Refusals
      BY <2>2 DEF DeliverUnsent, Silent, Refusals
    <3>2. QED
      BY <2>2, <3>1, RefusalKept DEF DeliverUnsent, Withhold
  <2>3. CASE GenerateUntraced \/ GenerateRaises \/ RewriteReplaces \/ Finish
    BY <2>3, RefusalKept DEF GenerateUntraced, GenerateRaises, RewriteReplaces, Finish, Generating, Return, SeriesOver
  <2>4. CASE \E raises \in BOOLEAN : CallModel(raises)
    BY <2>4, RefusalKept DEF CallModel
  <2>5. CASE \E outcome \in {"found", "empty", "failed"} : SearchEndsUntraced(outcome)
    BY <2>5, RefusalKept DEF SearchEndsUntraced, Memoize, SearchFailed
  <2>6. CASE \E m \in Message : RecordMessage(m)
    BY <2>6, RefusalKept DEF RecordMessage
  <2>7. QED
    BY <1>6, <1>3, <2>1, <2>2, <2>3, <2>4, <2>5, <2>6 DEF Native
<1>7. ASSUME NEW run \in Requests, Request(run)
      PROVE  RefusalInv'
  <2>1. CASE OpenMain(run) \/ OpenMemory(run) \/ ReadCursor(run) \/ Probe(run) \/ GenerateEnd(run)
    <3>1. PICK events, reasons : Post(run, events, reasons) /\ reasons \cap Refusals = {}
      BY <2>1 DEF OpenMain, OpenMemory, ReadCursor, Probe, GenerateEnd, Refusals
    <3>2. logged' \cap Refusals = logged \cap Refusals
      BY <3>1, PostLogs
    <3>3. laneOn' = laneOn /\ op' \in {op, NoOp}
      BY <2>1 DEF OpenMain, OpenMemory, ReadCursor, Probe, GenerateEnd, lane
    <3>4. ~InSeries'
      BY <2>1 DEF OpenMain, OpenMemory, ReadCursor, Probe, GenerateEnd, InSeries, SeriesOver, Withhold
    <3>5. QED
      BY <3>2, <3>3, <3>4, RefusalKept
  <2>2. CASE \E outcome \in {"found", "empty", "failed"} : SearchEnd(run, outcome)
    <3>1. PICK events, reasons : Post(run, events, reasons) /\ reasons \cap Refusals = {}
      BY <2>2 DEF SearchEnd, Refusals
    <3>2. logged' \cap Refusals = logged \cap Refusals
      BY <3>1, PostLogs
    <3>3. QED
      BY <2>2, <3>2, RefusalKept DEF SearchEnd, Memoize, SearchFailed, InSeries, lane
  <2>3. QED
    BY <1>7, <1>1, <1>2, <1>4, <1>5, <2>1, <2>2 DEF Request
<1>8. CASE UNCHANGED vars
  BY <1>8, RefusalKept DEF vars, annotatorVars, lane, InSeries
<1>9. QED
  BY <1>6, <1>7, <1>8 DEF Next

\* After a refused change batch or a recovery conflict nothing more is put on the
\* memory lane; the refused series in particular gets no end event.
THEOREM RefusedLaneIsOver == Spec => NothingAfterRefusal
<1> DEFINE Quiet == logged \cap Refusals # {} => LaneEvents' = LaneEvents
<1>1. RefusalInv /\ [Next]_vars => [Quiet]_vars
  <2> SUFFICES ASSUME RefusalInv, [Next]_vars, ~laneOn, op.disabled, ~InSeries
               PROVE  LaneEvents' = LaneEvents
    BY DEF RefusalInv
  <2>1. ASSUME NEW run, NEW events, NEW reasons, Post(run, events, reasons),
               \A e \in events : e.kind \notin LaneKinds
        PROVE  LaneEvents' = LaneEvents
    BY <2>1, PostRecords DEF LaneEvents, LaneKinds
  <2>2. ASSUME UNCHANGED seen
        PROVE  LaneEvents' = LaneEvents
    BY <2>2, NothingRecorded DEF LaneEvents
  <2>3. CASE Native
    <3>1. UNCHANGED seen
      BY <2>3 DEF Native, annotatorVars, OpenUntraced, RecallClean, SearchUntraced, PlaceUntraced, Preflight,
           DeliverNothing, DeliverUnsent, Silent, GenerateUntraced, GenerateRaises, RewriteReplaces, Finish,
           RecordMessage, CallModel, SearchEndsUntraced, NativeExtract
    <3>2. QED
      BY <2>2, <3>1
  <2>4. ASSUME NEW run \in Requests, Request(run)
        PROVE  LaneEvents' = LaneEvents
    <3>1. CASE OpenMain(run) \/ OpenMemory(run)
      BY <3>1, <2>1 DEF OpenMain, OpenMemory, Session, Binding, Event, LaneKinds
    <3>2. CASE ReadCursor(run) \/ Probe(run)
      BY <3>2, <2>1 DEF ReadCursor, Probe
    <3>3. CASE Deliver(run)
      BY <3>3, <2>1 DEF Deliver, Delivery, LaneKinds
    <3>4. CASE SearchStart(run) \/ GenerateStart(run) \/ PostPart(run) \/ Abandon(run) \/ GenerateEnd(run)
      BY <3>4 DEF SearchStart, GenerateStart, PostPart, Abandon, GenerateEnd, Traced
    <3>5. CASE \E outcome \in {"found", "empty", "failed"} : SearchEnd(run, outcome)
      BY <3>5 DEF SearchEnd
    <3>6. QED
      BY <2>4, <3>1, <3>2, <3>3, <3>4, <3>5 DEF Request
  <2>5. CASE UNCHANGED vars
    BY <2>5, <2>2 DEF vars, annotatorVars
  <2>6. QED
    BY <2>3, <2>4, <2>5 DEF Next
<1>2. Init => RefusalInv
  BY DEF Init, RefusalInv
<1>3. QED
  BY <1>1, <1>2, RefusalStep, PTL DEF Spec, NothingAfterRefusal

-----------------------------------------------------------------------------
(* Types.                                                                  *)


LEMMA TypeInit == Init => TraceTypeOK
<1> SUFFICES ASSUME Init
             PROVE  TraceTypeOK
  OBVIOUS
<1>1. NoOp \in Operation /\ NoOp.id = 0 /\ Nothing \in Payload
  BY DEF NoOp, Operation, Nothing, Payload
<1>2. /\ trace \in {"off", "closed", "open"}
      /\ laneOn = TRUE /\ deliveryOn = TRUE /\ dirty = TRUE /\ crashed = FALSE /\ breaker = FALSE
  BY DEF Init
<1>3. /\ inputs = {} /\ unprocessed = {} /\ fed = {} /\ added = FALSE /\ strikes = 0 /\ ops = 0 /\ pending = 0 /\ op = NoOp
      /\ cached = Nothing /\ recall = Nothing /\ calls = 0 /\ noted = 0 /\ cursor = NoCursor
  BY DEF Init
<1>4. laneOn \in BOOLEAN /\ deliveryOn \in BOOLEAN /\ dirty \in BOOLEAN /\ crashed \in BOOLEAN /\ breaker \in BOOLEAN
      /\ added \in BOOLEAN
  BY <1>2, <1>3
<1>5. ops \in Nat /\ pending \in 0..ops /\ op \in Operation /\ op.id <= ops
  BY <1>1, <1>3
<1>6. QED
  BY <1>1, <1>2, <1>3, <1>4, <1>5 DEF TraceTypeOK

LEMMA NoOpType == NoOp \in Operation /\ NoOp.id = 0 /\ Nothing \in Payload
BY DEF NoOp, Operation, Nothing, Payload

\* What a search that is over leaves behind.
LEMMA MemoType ==
    ASSUME TraceTypeOK, NEW found \in BOOLEAN, NEW anchor \in Nat,
           SearchFailed \/ Memoize(found, anchor)
    PROVE  cached' \in Payload /\ recall' \in Payload /\ dirty' \in BOOLEAN
<1>1. ops \in Nat /\ cached \in Payload /\ dirty \in BOOLEAN
  BY DEF TraceTypeOK
<1>2. CASE SearchFailed
  BY <1>1, <1>2, NoOpType DEF SearchFailed, memo
<1>3. CASE Memoize(found, anchor)
  <2>1. [from |-> ops, anchor |-> anchor, cached |-> FALSE] \in Payload
    BY <1>1 DEF Payload
  <2>2. cached' \in Payload
    BY <1>3, <2>1, NoOpType DEF Memoize
  <2>3. QED
    BY <1>3, <2>2 DEF Memoize
<1>4. QED
  BY <1>2, <1>3

LEMMA TypeStep == TraceTypeOK /\ ClientInv' /\ [Next]_vars => TraceTypeOK'
<1> SUFFICES ASSUME TraceTypeOK, ClientInv', [Next]_vars
             PROVE  TraceTypeOK'
  OBVIOUS
<1> DEFINE LaneType == /\ trace \in {"off", "closed", "open"} /\ laneOn \in BOOLEAN /\ deliveryOn \in BOOLEAN
           InputType == inputs \subseteq Message /\ unprocessed \subseteq Message /\ fed \subseteq Message /\ added \in BOOLEAN
           OpType == /\ ops \in Nat /\ pending \in 0..ops /\ op \in Operation /\ op.id <= ops
           MemoryType == dirty \in BOOLEAN /\ cached \in Payload
           PromptType == /\ crashed \in BOOLEAN /\ recall \in Payload
                         /\ calls \in Nat /\ noted \in Nat /\ cursor \in Nat \cup {NoCursor}
<1>a. LaneType /\ InputType /\ OpType /\ MemoryType /\ PromptType
  BY DEF TraceTypeOK
<1>b. SUFFICES LaneType' /\ InputType' /\ OpType' /\ MemoryType' /\ PromptType'
  BY DEF TraceTypeOK, ClientInv
<1> USE DEF lane, generated, memo, prompt
<1>1. LaneType'
  <2>1. CASE Native
    BY <1>a, <2>1 DEF Native, OpenUntraced, RecallClean, SearchUntraced, PlaceUntraced, Preflight,
         DeliverNothing, DeliverUnsent, GenerateUntraced, GenerateRaises, RewriteReplaces, Finish,
         RecordMessage, CallModel, SearchEndsUntraced, NativeExtract
  <2>2. ASSUME NEW run \in Requests, Request(run)
        PROVE  LaneType'
    <3>1. Ok(run) \in BOOLEAN
      BY DEF Ok
    <3>2. QED
      BY <1>a, <2>2, <3>1 DEF Request, OpenMain, OpenMemory, SearchStart, ReadCursor, Probe, Deliver,
           GenerateStart, PostPart, Abandon, GenerateEnd, SearchEnd, BindStart
  <2>3. QED
    BY <1>a, <2>1, <2>2 DEF Next, vars
<1>2. InputType'
  <2>1. CASE Native
    <3>1. ASSUME NEW outcome, NEW parts, NativeExtract(outcome, parts)
          PROVE  InputType'
      BY <1>a, <3>1 DEF NativeExtract, Left, InputsAfter
    <3>2. QED
      BY <1>a, <2>1, <3>1 DEF Native, OpenUntraced, RecallClean, SearchUntraced, PlaceUntraced, Preflight,
         DeliverNothing, DeliverUnsent, GenerateUntraced, GenerateRaises, RewriteReplaces, Finish,
         RecordMessage, CallModel, SearchEndsUntraced
  <2>2. ASSUME NEW run \in Requests, Request(run)
        PROVE  InputType'
    BY <1>a, <2>2 DEF Request, OpenMain, OpenMemory, SearchStart, ReadCursor, Probe, Deliver,
         GenerateStart, PostPart, Abandon, GenerateEnd, SearchEnd, BindStart
  <2>3. QED
    BY <1>a, <2>1, <2>2 DEF Next, vars
<1>3. OpType'
  <2>1. CASE Native
    <3>1. CASE SearchUntraced \/ GenerateUntraced
      BY <1>a, <3>1, NoOpType DEF SearchUntraced, GenerateUntraced
    <3>2. CASE \E outcome \in {"clean", "failed"}, parts \in 0..MaxParts : NativeExtract(outcome, parts)
      <4>1. PICK parts \in 0..MaxParts : \E outcome \in {"clean", "failed"} : NativeExtract(outcome, parts)
        BY <3>2
      <4>2. parts \in Nat
        BY TraceAssumption
      <4>3. UNCHANGED <<ops, pending>> /\ (op' = NoOp \/ op' = [op EXCEPT !.parts = parts])
        BY <4>1 DEF NativeExtract
      <4>4. QED
        BY <1>a, <4>2, <4>3, NoOpType DEF Operation
    <3>3. CASE OpenUntraced \/ RecallClean \/ PlaceUntraced \/ Preflight \/ DeliverNothing \/ DeliverUnsent
               \/ GenerateRaises \/ RewriteReplaces \/ Finish \/ \E m \in Message : RecordMessage(m)
      BY <1>a, <3>3, NoOpType DEF OpenUntraced, RecallClean, PlaceUntraced, Preflight,
           DeliverNothing, DeliverUnsent, GenerateRaises, RewriteReplaces, Finish, RecordMessage
    <3>4. CASE \/ \E raises \in BOOLEAN : CallModel(raises)
               \/ \E outcome \in {"found", "empty", "failed"} : SearchEndsUntraced(outcome)
      BY <1>a, <3>4, NoOpType DEF CallModel, SearchEndsUntraced
    <3>5. QED
      BY <2>1, <3>1, <3>2, <3>3, <3>4 DEF Native
  <2>2. ASSUME NEW run \in Requests, Request(run)
        PROVE  OpType'
    <3>1. CASE SearchStart(run) \/ GenerateStart(run)
      <4>1. ops' = ops + 1 /\ pending' \in {0, pending} /\ BindStart(run, ops')
        BY <3>1 DEF SearchStart, GenerateStart
      <4>2. Ok(run) \in BOOLEAN /\ (Status(run) \in {"oversize", "conflict"}) \in BOOLEAN
        BY DEF Ok
      <4>3. op' \in Operation /\ op'.id = ops'
        BY <1>a, <4>1, <4>2 DEF BindStart, Operation
      <4>4. QED
        BY <1>a, <4>1, <4>3
    <3>2. CASE PostPart(run)
      <4>1. op' = [op EXCEPT !.part = @ + 1] /\ UNCHANGED <<ops, pending>>
        BY <3>2 DEF PostPart
      <4>2. QED
        BY <1>a, <4>1 DEF Operation
    <3>3. CASE \E outcome \in {"found", "empty", "failed"} : SearchEnd(run, outcome)
      <4>1. op' = NoOp /\ ops' = ops /\ pending' \in {op.id, pending}
        BY <3>3 DEF SearchEnd
      <4>2. QED
        BY <1>a, <4>1, NoOpType DEF Operation
    <3>4. CASE OpenMain(run) \/ OpenMemory(run) \/ ReadCursor(run) \/ Probe(run) \/ Deliver(run)
               \/ Abandon(run) \/ GenerateEnd(run)
      BY <1>a, <3>4, NoOpType DEF OpenMain, OpenMemory, ReadCursor, Probe, Deliver, Abandon, GenerateEnd
    <3>5. QED
      BY <2>2, <3>1, <3>2, <3>3, <3>4 DEF Request
  <2>3. QED
    BY <1>a, <2>1, <2>2 DEF Next, vars
<1>4. MemoryType' /\ recall' \in Payload
  <2>1. ASSUME NEW outcome, SearchEndsUntraced(outcome)
        PROVE  MemoryType' /\ recall' \in Payload
    BY <2>1, MemoType DEF SearchEndsUntraced
  <2>2. ASSUME NEW run, NEW outcome, SearchEnd(run, outcome)
        PROVE  MemoryType' /\ recall' \in Payload
    <3>1. op.id \in Nat
      BY <1>a DEF Operation
    <3>2. PICK anchor \in {0, op.id} : SearchFailed \/ Memoize(outcome = "found", anchor)
      BY <2>2 DEF SearchEnd
    <3>3. QED
      BY <3>1, <3>2, MemoType
  <2>3. CASE RecallClean
    <3>1. recall' = [cached EXCEPT !.cached = cached.from # 0] /\ UNCHANGED memo
      BY <2>3 DEF RecallClean
    <3>2. QED
      BY <1>a, <3>1 DEF Payload
  <2>4. ASSUME UNCHANGED <<dirty, cached>> \/ (dirty' = TRUE /\ cached' = cached),
               recall' \in {recall, Nothing}
        PROVE  MemoryType' /\ recall' \in Payload
    BY <1>a, <2>4, NoOpType
  <2>5. CASE Native
    <3>1. CASE OpenUntraced \/ SearchUntraced \/ PlaceUntraced \/ Preflight \/ DeliverNothing \/ DeliverUnsent
               \/ GenerateUntraced \/ GenerateRaises \/ RewriteReplaces \/ Finish
      BY <3>1, <2>4 DEF OpenUntraced, SearchUntraced, PlaceUntraced, Preflight, Withhold,
           DeliverNothing, DeliverUnsent, GenerateUntraced, GenerateRaises, RewriteReplaces, Finish
    <3>2. CASE \/ \E m \in Message : RecordMessage(m)
               \/ \E raises \in BOOLEAN : CallModel(raises)
               \/ \E outcome \in {"clean", "failed"}, parts \in 0..MaxParts : NativeExtract(outcome, parts)
      BY <3>2, <2>4 DEF RecordMessage, CallModel, NativeExtract
    <3>3. QED
      BY <2>5, <2>1, <2>3, <3>1, <3>2 DEF Native
  <2>6. ASSUME NEW run \in Requests, Request(run)
        PROVE  MemoryType' /\ recall' \in Payload
    <3>1. CASE OpenMain(run) \/ OpenMemory(run) \/ SearchStart(run) \/ ReadCursor(run) \/ Probe(run)
               \/ Deliver(run) \/ GenerateStart(run) \/ PostPart(run) \/ Abandon(run) \/ GenerateEnd(run)
      BY <3>1, <2>4 DEF OpenMain, OpenMemory, SearchStart, ReadCursor, Probe, Deliver, Withhold,
           GenerateStart, PostPart, Abandon, GenerateEnd
    <3>2. QED
      BY <2>6, <2>2, <3>1 DEF Request
  <2>7. CASE UNCHANGED vars
    BY <2>7, <2>4 DEF vars
  <2>8. QED
    BY <2>5, <2>6, <2>7 DEF Next
<1>5. PromptType'
  <2>1. SUFFICES crashed' \in BOOLEAN /\ calls' \in Nat /\ noted' \in Nat /\ cursor' \in Nat \cup {NoCursor}
    BY <1>4
  <2>2. CASE Native
    BY <1>a, <2>2 DEF Native, OpenUntraced, RecallClean, SearchUntraced, PlaceUntraced, Preflight,
         DeliverNothing, DeliverUnsent, GenerateUntraced, GenerateRaises, RewriteReplaces, Finish,
         RecordMessage, CallModel, SearchEndsUntraced, NativeExtract, Withhold
  <2>3. ASSUME NEW run \in Requests, Request(run)
        PROVE  crashed' \in BOOLEAN /\ calls' \in Nat /\ noted' \in Nat /\ cursor' \in Nat \cup {NoCursor}
    BY <1>a, <2>3 DEF Request, OpenMain, OpenMemory, SearchStart, ReadCursor, Probe, Deliver, Withhold,
         GenerateStart, PostPart, Abandon, GenerateEnd, SearchEnd
  <2>4. QED
    BY <1>a, <2>2, <2>3 DEF Next, vars
<1>6. QED
  BY <1>1, <1>2, <1>3, <1>4, <1>5

\* The shape of every variable.
THEOREM TraceTypeCorrect == Spec => []TraceTypeOK
BY TypeInit, TypeStep, ClientHolds, PTL DEF Spec

-----------------------------------------------------------------------------
(* The trajectory grows, and only a delivery adds a delivery.              *)

LEMMA Grows ==
    ASSUME [Next]_vars
    PROVE  Recorded \subseteq Recorded'
<1>1. ASSUME NEW reasons, Silent(reasons)
      PROVE  Recorded \subseteq Recorded'
  BY <1>1, NothingRecorded DEF Silent
<1>2. CASE UNCHANGED annotatorVars
  BY <1>2, NothingRecorded DEF annotatorVars
<1>3. QED
  BY <1>1, <1>2, StepOfClient, PostRecords

LEMMA NativeRecordsNothing ==
    ASSUME Native \/ UNCHANGED vars
    PROVE  Recorded' = Recorded /\ Deliveries' = Deliveries
<1>1. UNCHANGED seen
  BY DEF Native, annotatorVars, vars, OpenUntraced, RecallClean, SearchUntraced, PlaceUntraced, Preflight,
     DeliverNothing, DeliverUnsent, Silent, GenerateUntraced, GenerateRaises, RewriteReplaces, Finish,
     RecordMessage, CallModel, SearchEndsUntraced, NativeExtract
<1>2. QED
  BY <1>1, NothingRecorded DEF Deliveries

LEMMA NoOtherDeliveries ==
    ASSUME NEW run \in Requests, Request(run), ~Deliver(run)
    PROVE  Deliveries' = Deliveries
<1>1. ASSUME NEW events, NEW reasons, Post(run, events, reasons), \A e \in events : e.kind # "delivery"
      PROVE  Deliveries' = Deliveries
  BY <1>1, PostRecords DEF Deliveries
<1> USE DEF Event
<1>2. CASE OpenMain(run) \/ OpenMemory(run)
  BY <1>2, <1>1 DEF OpenMain, OpenMemory, Session, Binding
<1>3. CASE ReadCursor(run) \/ Probe(run)
  BY <1>3, <1>1 DEF ReadCursor, Probe
<1>4. CASE SearchStart(run) \/ GenerateStart(run)
  <2>1. PICK kind \in {"search_start", "generate_start"} : \E reasons : Post(run, {Event(kind, ops', 0)}, reasons)
    BY <1>4 DEF SearchStart, GenerateStart
  <2>2. QED
    BY <2>1, <1>1
<1>5. CASE PostPart(run) \/ Abandon(run) \/ GenerateEnd(run)
  BY <1>5, <1>1 DEF PostPart, Abandon, GenerateEnd
<1>6. CASE \E outcome \in {"found", "empty", "failed"} : SearchEnd(run, outcome)
  BY <1>6, <1>1 DEF SearchEnd
<1>7. QED
  BY <1>2, <1>3, <1>4, <1>5, <1>6 DEF Request

LEMMA DeliveryRecords ==
    ASSUME NEW run \in Requests, Deliver(run)
    PROVE  /\ Deliveries' \subseteq Deliveries \cup {Delivery(Cites)}
           /\ Ok(run) => Deliveries' = Deliveries \cup {Delivery(Cites)}
<1>1. Post(run, {Delivery(Cites)}, DeliveryRecord(run))
  BY DEF Deliver
<1>2. Delivery(Cites).kind = "delivery"
  BY DEF Delivery
<1>3. QED
  BY <1>1, <1>2, PostRecords DEF Deliveries

-----------------------------------------------------------------------------
(* The session and its bindings.                                           *)

SessionInv ==
    /\ pc = "bind" => Session \subseteq Recorded
    /\ trace = "open" => Session \cup Binding \subseteq Recorded

LEMMA SessionStep == SessionInv /\ [Next]_vars => SessionInv'
<1> SUFFICES ASSUME SessionInv, [Next]_vars
             PROVE  SessionInv'
  OBVIOUS
<1>1. Session' = Session /\ Binding' = Binding
  BY DEF Session, Binding, Event
<1>2. ASSUME pc' # "bind", trace' \in {trace, "off"}
      PROVE  SessionInv'
  BY <1>1, <1>2, Grows DEF SessionInv
<1>3. ASSUME NEW run, OpenMain(run)
      PROVE  SessionInv'
  <2>1. Ok(run) => Session \subseteq Recorded'
    BY <1>3, PostRecords DEF OpenMain
  <2>2. trace' # "open" /\ (pc' = "bind" => Ok(run))
    BY <1>3 DEF OpenMain
  <2>3. QED
    BY <1>1, <2>1, <2>2 DEF SessionInv
<1>4. ASSUME NEW run, OpenMemory(run)
      PROVE  SessionInv'
  <2>1. Ok(run) => Binding \subseteq Recorded'
    BY <1>4, PostRecords DEF OpenMemory
  <2>2. Session \subseteq Recorded'
    BY <1>4, Grows DEF OpenMemory, SessionInv
  <2>3. pc' # "bind" /\ (trace' = "open" => Ok(run))
    BY <1>4 DEF OpenMemory
  <2>4. QED
    BY <1>1, <2>1, <2>2, <2>3 DEF SessionInv
<1> USE DEF lane
<1>5. CASE Native
  BY <1>5, <1>2 DEF Native, OpenUntraced, RecallClean, SearchUntraced, PlaceUntraced, Preflight,
     DeliverNothing, DeliverUnsent, Withhold, GenerateUntraced, GenerateRaises, RewriteReplaces, Finish,
     RecordMessage, CallModel, SearchEndsUntraced, Memoize, SearchFailed, NativeExtract, Generating, Return, SeriesOver
<1>6. ASSUME NEW run \in Requests, Request(run)
      PROVE  SessionInv'
  <2>1. CASE SearchStart(run) \/ ReadCursor(run) \/ Probe(run) \/ Deliver(run) \/ GenerateStart(run)
    BY <2>1, <1>2 DEF SearchStart, ReadCursor, Probe, Deliver, Withhold, GenerateStart, Generating, Return
  <2>2. CASE PostPart(run) \/ Abandon(run) \/ GenerateEnd(run)
    BY <2>2, <1>2 DEF PostPart, Abandon, GenerateEnd, InSeries, SeriesOver
  <2>3. CASE \E outcome \in {"found", "empty", "failed"} : SearchEnd(run, outcome)
    BY <2>3, <1>2 DEF SearchEnd, Memoize, SearchFailed
  <2>4. QED
    BY <1>6, <1>3, <1>4, <2>1, <2>2, <2>3 DEF Request
<1>7. CASE UNCHANGED vars
  BY <1>7, <1>1, Grows DEF vars, SessionInv
<1>8. QED
  BY <1>5, <1>6, <1>7 DEF Next

-----------------------------------------------------------------------------
(* Searches and what cites them.                                           *)

Anchored(payload) == payload.anchor # 0 => payload.anchor = payload.from /\ SearchRecorded(payload.anchor)

Started == pc = "search" /\ op.accepted => op.id = ops /\ ops # 0 /\ Event("search_start", op.id, 0) \in Recorded

SearchedInv ==
    /\ Started
    /\ Anchored(cached) /\ Anchored(recall)

LEMMA NothingAnchored == Anchored(Nothing) /\ NoOp.accepted = FALSE /\ NoOp.disabled = TRUE
BY DEF Anchored, Nothing, NoOp

LEMMA SearchedStep == SearchedInv /\ TraceTypeOK /\ [Next]_vars => SearchedInv'
<1> SUFFICES ASSUME SearchedInv, TraceTypeOK, [Next]_vars
             PROVE  SearchedInv'
  OBVIOUS
<1>1. ASSUME NEW payload, Anchored(payload)
      PROVE  payload.anchor # 0 => payload.anchor = payload.from
                 /\ {Event("search_start", payload.anchor, 0), Event("search_end", payload.anchor, 0)} \subseteq Recorded'
  BY <1>1, Grows DEF Anchored, SearchRecorded
<1>2. Anchored(cached)' /\ Anchored(recall)'
  <2>1. ASSUME cached' = cached, recall' \in {recall, Nothing}
        PROVE  Anchored(cached)' /\ Anchored(recall)'
    <3>1. Anchored(recall')  => Anchored(recall)'
      BY <1>1 DEF Anchored, SearchRecorded, Event
    <3>2. QED
      BY <1>1, <2>1, <3>1, NothingAnchored DEF SearchedInv, Anchored, SearchRecorded, Event
  <2>2. CASE RecallClean
    <3>1. /\ cached' = cached /\ recall'.anchor = cached.anchor /\ recall'.from = cached.from
      BY <2>2 DEF RecallClean, memo, TraceTypeOK, Payload
    <3>2. QED
      BY <1>1, <3>1 DEF SearchedInv, Anchored, SearchRecorded, Event
  <2>3. ASSUME NEW outcome, SearchEndsUntraced(outcome)
        PROVE  Anchored(cached)' /\ Anchored(recall)'
    <3>1. CASE SearchFailed
      BY <2>1, <3>1 DEF SearchFailed, memo
    <3>2. CASE Memoize(outcome = "found", 0)
      <4>1. cached'.anchor = 0 /\ recall'.anchor = 0
        BY <3>2 DEF Memoize, Nothing
      <4>2. QED
        BY <4>1 DEF Anchored
    <3>3. QED
      BY <2>3, <3>1, <3>2 DEF SearchEndsUntraced
  <2>4. ASSUME NEW run \in Requests, NEW outcome, SearchEnd(run, outcome)
        PROVE  Anchored(cached)' /\ Anchored(recall)'
    <3>1. CASE SearchFailed
      BY <2>1, <3>1 DEF SearchFailed, memo
    <3>2. CASE outcome = "found" /\ Arms(run) /\ Memoize(outcome = "found", op.id)
      <4>1. pc = "search" /\ Ok(run) /\ op.accepted
        BY <2>4, <3>2 DEF SearchEnd, Arms
      <4>2. op.id = ops /\ Event("search_start", op.id, 0) \in Recorded'
        BY <4>1, Grows DEF SearchedInv, Started
      <4>3. Event("search_end", op.id, 0) \in Recorded'
        BY <2>4, <4>1, PostRecords DEF SearchEnd
      <4>4. cached'.anchor = op.id /\ cached'.from = ops /\ recall' = cached'
        BY <3>2 DEF Memoize
      <4>5. QED
        BY <4>2, <4>3, <4>4 DEF Anchored, SearchRecorded, Event
    <3>3. CASE Memoize(outcome = "found", 0)
      <4>1. cached'.anchor = 0 /\ recall'.anchor = 0
        BY <3>3 DEF Memoize, Nothing
      <4>2. QED
        BY <4>1 DEF Anchored
    <3>4. QED
      BY <2>4, <3>1, <3>2, <3>3 DEF SearchEnd
  <2> USE DEF memo, prompt
  <2>5. CASE Native
    <3>1. CASE OpenUntraced \/ SearchUntraced \/ PlaceUntraced \/ Preflight \/ DeliverNothing \/ DeliverUnsent
               \/ GenerateUntraced \/ GenerateRaises \/ RewriteReplaces \/ Finish
      BY <3>1, <2>1 DEF OpenUntraced, SearchUntraced, PlaceUntraced, Preflight, Withhold,
           DeliverNothing, DeliverUnsent, GenerateUntraced, GenerateRaises, RewriteReplaces, Finish
    <3>2. CASE \/ \E m \in Message : RecordMessage(m)
               \/ \E raises \in BOOLEAN : CallModel(raises)
               \/ \E outcome \in {"clean", "failed"}, parts \in 0..MaxParts : NativeExtract(outcome, parts)
      BY <3>2, <2>1 DEF RecordMessage, CallModel, NativeExtract
    <3>3. QED
      BY <2>5, <2>2, <2>3, <3>1, <3>2 DEF Native
  <2>6. ASSUME NEW run \in Requests, Request(run)
        PROVE  Anchored(cached)' /\ Anchored(recall)'
    <3>1. CASE OpenMain(run) \/ OpenMemory(run) \/ SearchStart(run) \/ ReadCursor(run) \/ Probe(run)
               \/ Deliver(run) \/ GenerateStart(run) \/ PostPart(run) \/ Abandon(run) \/ GenerateEnd(run)
      BY <3>1, <2>1 DEF OpenMain, OpenMemory, SearchStart, ReadCursor, Probe, Deliver, Withhold,
           GenerateStart, PostPart, Abandon, GenerateEnd
    <3>2. QED
      BY <2>6, <2>4, <3>1 DEF Request
  <2>7. CASE UNCHANGED vars
    BY <2>7, <2>1 DEF vars
  <2>8. QED
    BY <2>5, <2>6, <2>7 DEF Next
<1>3. Started'
  <2>1. ASSUME NEW run \in Requests, SearchStart(run)
        PROVE  op'.accepted => op'.id = ops' /\ ops' # 0 /\ Event("search_start", op'.id, 0) \in Recorded'
    <3>1. BindStart(run, ops') /\ ops' = ops + 1 /\ Post(run, {Event("search_start", ops', 0)}, StartRecord(run))
      BY <2>1 DEF SearchStart
    <3>2. op'.id = ops' /\ (op'.accepted => Ok(run))
      BY <3>1 DEF BindStart
    <3>3. ops' # 0
      BY <3>1 DEF TraceTypeOK
    <3>4. Ok(run) => Event("search_start", ops', 0) \in Recorded'
      BY <3>1, PostRecords
    <3>5. QED
      BY <3>2, <3>3, <3>4
  <2>2. CASE SearchUntraced
    BY <2>2, NothingAnchored DEF SearchUntraced, Started
  <2>3. ASSUME pc' # "search"
        PROVE  Started'
    BY <2>3 DEF Started
  <2>4. CASE UNCHANGED vars
    BY <2>4, Grows DEF SearchedInv, Started, vars, Event
  <2>5. CASE Native
    BY <2>5, <2>2, <2>3 DEF Native, OpenUntraced, RecallClean, PlaceUntraced, Preflight,
       DeliverNothing, DeliverUnsent, Withhold, GenerateUntraced, GenerateRaises, RewriteReplaces, Finish,
       RecordMessage, CallModel, SearchEndsUntraced, Memoize, SearchFailed, NativeExtract, Generating, Return, SeriesOver
  <2>6. ASSUME NEW run \in Requests, Request(run)
        PROVE  Started'
    <3>1. CASE OpenMain(run) \/ OpenMemory(run) \/ ReadCursor(run) \/ Probe(run) \/ Deliver(run) \/ GenerateStart(run)
      BY <3>1, <2>3 DEF OpenMain, OpenMemory, ReadCursor, Probe, Deliver, Withhold, GenerateStart, Generating, Return
    <3>2. CASE PostPart(run) \/ Abandon(run) \/ GenerateEnd(run)
      BY <3>2, <2>3 DEF PostPart, Abandon, GenerateEnd, InSeries, SeriesOver
    <3>3. CASE \E outcome \in {"found", "empty", "failed"} : SearchEnd(run, outcome)
      BY <3>3, <2>3 DEF SearchEnd, Memoize, SearchFailed
    <3>4. CASE SearchStart(run)
      BY <3>4, <2>1 DEF Started, Event
    <3>5. QED
      BY <2>6, <3>1, <3>2, <3>3, <3>4 DEF Request
  <2>7. QED
    BY <2>4, <2>5, <2>6 DEF Next
<1>4. QED
  BY <1>2, <1>3 DEF SearchedInv

-----------------------------------------------------------------------------
(* The armed search.                                                       *)

Querying == {"place", "call", "probe", "deliver"}

\* Where a search that still awaits its delivery may be: in the prompt of the query
\* under way, or memoized and kept across a query that crashed before the lane.
Held ==
    /\ pc \notin {"search", "generate", "series"}
    /\ pc \in Querying \cup {"idle"} => ~dirty /\ cached.from = pending
    /\ pc \in Querying => recall.from = pending
    /\ pc = "idle" => crashed

ArmedInv ==
    /\ pc \in {"task", "bind"} => pending = 0
    /\ pc = "probe" => crashed
    /\ Delivers /\ pending # 0 => SearchRecorded(pending) /\ Held

TrailInv == TraceTypeOK /\ SessionInv /\ SearchedInv /\ ArmedInv /\ DeliveryCitesItsSearch

LEMMA ArmedStep == TrailInv /\ SearchedInv' /\ [Next]_vars => ArmedInv'
<1> SUFFICES ASSUME TrailInv, SearchedInv', [Next]_vars
             PROVE  ArmedInv'
  OBVIOUS
<1> USE DEF lane, memo, prompt
<1>t. TraceTypeOK /\ SearchedInv /\ ArmedInv
  BY DEF TrailInv
<1>g. ASSUME NEW id, SearchRecorded(id)
      PROVE  SearchRecorded(id)'
  BY <1>g, Grows DEF SearchRecorded, Event
<1>1. ASSUME pending' = 0, pc' # "probe"
      PROVE  ArmedInv'
  BY <1>1 DEF ArmedInv
<1>2. ASSUME pending' = pending, Delivers' => Delivers, pc' \notin {"task", "bind"}, pc' = "probe" => crashed',
             Delivers /\ pending # 0 /\ Held => Held'
      PROVE  ArmedInv'
  BY <1>2, <1>t, <1>g DEF ArmedInv, SearchRecorded
<1>3. CASE OpenUntraced
  BY <1>3, <1>t DEF OpenUntraced, ArmedInv, Delivers
<1>4. ASSUME NEW run, OpenMain(run) \/ OpenMemory(run)
      PROVE  ArmedInv'
  BY <1>4, <1>t DEF OpenMain, OpenMemory, ArmedInv, Delivers
<1>5. CASE RecallClean
  <2>1. recall'.from = cached.from
    BY <1>5, <1>t DEF RecallClean, TraceTypeOK, Payload
  <2>2. Held /\ pending # 0 => Held'
    BY <1>5, <2>1 DEF RecallClean, Held, Querying
  <2>3. QED
    BY <1>5, <1>2, <2>2 DEF RecallClean, Delivers
<1>6. CASE SearchUntraced
  BY <1>6, <1>t DEF SearchUntraced, ArmedInv, Held, Delivers
<1>7. ASSUME NEW run, SearchStart(run)
      PROVE  ArmedInv'
  BY <1>7, <1>1 DEF SearchStart
<1>8. ASSUME NEW run \in Requests, NEW outcome, SearchEnd(run, outcome)
      PROVE  ArmedInv'
  <2>1. pc' \in {"place", "call"} /\ pc = "search" /\ ~Held
    BY <1>8 DEF SearchEnd, Memoize, SearchFailed, Held
  <2>2. CASE outcome = "found" /\ Arms(run)
    <3>1. op.accepted /\ pending' = op.id /\ Memoize(outcome = "found", op.id)
      BY <1>8, <2>2 DEF SearchEnd, Arms
    <3>2. op.id = ops /\ ops # 0
      BY <1>t, <2>1, <3>1 DEF SearchedInv, Started
    <3>3. /\ cached'.from = ops /\ cached'.anchor = op.id /\ recall' = cached'
          /\ pc' = "place" /\ ~dirty'
      BY <2>2, <3>1 DEF Memoize
    <3>4. SearchRecorded(pending)'
      BY <3>1, <3>2, <3>3 DEF SearchedInv, Anchored
    <3>5. QED
      BY <3>1, <3>2, <3>3, <3>4 DEF ArmedInv, Held, Querying
  <2>3. CASE ~(outcome = "found" /\ Arms(run))
    <3>1. pending' = pending /\ (Delivers' <=> Delivers)
      BY <1>8, <2>3 DEF SearchEnd, Delivers
    <3>2. QED
      BY <1>2, <2>1, <3>1
  <2>4. QED
    BY <2>2, <2>3
<1>9. ASSUME NEW outcome, SearchEndsUntraced(outcome)
      PROVE  ArmedInv'
  <2>1. pc' \in {"place", "call"} /\ pc = "search" /\ pending' = pending /\ (Delivers' <=> Delivers)
    BY <1>9 DEF SearchEndsUntraced, Memoize, SearchFailed, Delivers
  <2>2. QED
    BY <1>2, <2>1 DEF Held
<1>10. CASE PlaceUntraced \/ DeliverNothing
  BY <1>10, <1>2 DEF PlaceUntraced, DeliverNothing, Withhold, Delivers
<1>11. ASSUME NEW run, ReadCursor(run)
       PROVE  ArmedInv'
  BY <1>11, <1>2 DEF ReadCursor, Delivers, Held, Querying
<1>12. CASE Preflight
  BY <1>12, <1>2 DEF Preflight, Delivers, Held, Querying
<1>13. ASSUME NEW raises \in BOOLEAN, CallModel(raises)
       PROVE  ArmedInv'
  <2>1. Held /\ pending # 0 => recall # Nothing
    BY <1>13 DEF CallModel, Held, Querying, Nothing
  <2>2. pc' \in {"idle", "probe", "deliver"} /\ (pc' = "probe" => crashed') /\ (recall # Nothing => pc' # "idle")
    BY <1>13 DEF CallModel
  <2>3. Held /\ pending # 0 => Held'
    BY <1>13, <2>1, <2>2 DEF CallModel, Held, Querying
  <2>4. QED
    BY <1>13, <1>2, <2>2, <2>3 DEF CallModel, Delivers
<1>14. ASSUME NEW run, Probe(run)
       PROVE  ArmedInv'
  <2>1. crashed' = crashed /\ crashed
    BY <1>14, <1>t DEF Probe, ArmedInv
  <2>2. Held => Held'
    BY <1>14, <2>1 DEF Probe, Withhold, Held, Querying
  <2>3. QED
    BY <1>14, <1>2, <2>1, <2>2 DEF Probe, Withhold, Delivers
<1>15. ASSUME NEW run, DeliverUnsent \/ Deliver(run)
       PROVE  ArmedInv'
  BY <1>15, <1>1 DEF DeliverUnsent, Deliver, Withhold
<1>16. ASSUME NEW run, GenerateUntraced \/ GenerateStart(run)
       PROVE  ArmedInv'
  <2>1. pc' \in {"generate", "generate_final"} /\ (pc' = "generate" => pc = "idle" /\ ~crashed)
    BY <1>16 DEF GenerateUntraced, GenerateStart, Extracting, Generating, Return
  <2>2. Held => Held'
    BY <2>1 DEF Held, Querying
  <2>3. pending' = pending /\ (Delivers' => Delivers)
    BY <1>16 DEF GenerateUntraced, GenerateStart, Delivers
  <2>4. QED
    BY <1>2, <2>1, <2>2, <2>3
<1>17. ASSUME NEW outcome, NEW parts, NativeExtract(outcome, parts)
       PROVE  ArmedInv'
  <2>1. pc' \in {"idle", "done", "series", "series_final"} /\ (pc' \in {"idle", "series"} => pc = "generate")
    BY <1>17 DEF NativeExtract
  <2>2. Held => Held'
    BY <2>1 DEF Held, Querying
  <2>3. QED
    BY <1>17, <1>2, <2>1, <2>2 DEF NativeExtract, Delivers
<1>18. ASSUME NEW run, PostPart(run)
       PROVE  ArmedInv'
  BY <1>18, <1>2 DEF PostPart, InSeries, Delivers, Held, Querying
<1>19. ASSUME NEW run, Abandon(run) \/ GenerateEnd(run) \/ GenerateRaises
       PROVE  ArmedInv'
  <2>1. pc' \in {"idle", "done"} /\ (pc' = "idle" => pc = "series")
    BY <1>19 DEF Abandon, GenerateEnd, GenerateRaises, SeriesOver, InSeries
  <2>2. Held => Held'
    BY <2>1 DEF Held, Querying
  <2>3. pending' = pending /\ (Delivers' => Delivers)
    BY <1>19 DEF Abandon, GenerateEnd, GenerateRaises, Delivers
  <2>4. QED
    BY <1>2, <2>1, <2>2, <2>3
<1>20. CASE RewriteReplaces
  BY <1>20, <1>2 DEF RewriteReplaces, Held, Delivers
<1>21. CASE Finish
  BY <1>21, <1>2 DEF Finish, Held, Querying, Delivers
<1>22. ASSUME NEW m, RecordMessage(m)
       PROVE  ArmedInv'
  BY <1>22, <1>2 DEF RecordMessage, Held, Querying, Delivers
<1>23. CASE UNCHANGED vars
  BY <1>23, <1>t, <1>g DEF vars, ArmedInv, Held, Delivers
<1>24. QED
  BY <1>3, <1>4, <1>5, <1>6, <1>7, <1>8, <1>9, <1>10, <1>11, <1>12, <1>13, <1>14, <1>15, <1>16, <1>17, <1>18,
     <1>19, <1>20, <1>21, <1>22, <1>23 DEF Next, Native, Request

\* The search a delivery cites is the one that rendered the placed payload.
LEMMA CitesTheRendering ==
    ASSUME TrailInv, NEW run, Deliver(run)
    PROVE  Cites = recall.from /\ SearchRecorded(Cites) /\ Session \cup Binding \subseteq Recorded
<1>1. pc = "deliver" /\ Delivers /\ Cites # 0
  BY DEF Deliver
<1>2. CASE recall.cached
  BY <1>1, <1>2 DEF TrailInv, SearchedInv, Anchored, SessionInv, Delivers, Cites
<1>3. CASE ~recall.cached
  BY <1>1, <1>3 DEF TrailInv, ArmedInv, Held, Querying, SessionInv, Delivers, Cites
<1>4. QED
  BY <1>2, <1>3

LEMMA CitesStep == TrailInv /\ [Next]_vars => DeliveryCitesItsSearch'
<1> SUFFICES ASSUME TrailInv, [Next]_vars, NEW d \in Deliveries'
             PROVE  /\ d.op = d.from
                    /\ SearchRecorded(d.op)'
                    /\ (Session \cup Binding \subseteq Recorded)'
  BY DEF DeliveryCitesItsSearch, SearchRecorded, Event
<1>1. ASSUME d.op = d.from, SearchRecorded(d.op), Session \cup Binding \subseteq Recorded
      PROVE  /\ SearchRecorded(d.op)'
             /\ (Session \cup Binding \subseteq Recorded)'
  BY <1>1, Grows DEF SearchRecorded, Session, Binding, Event
<1>2. CASE d \in Deliveries
  BY <1>1, <1>2 DEF TrailInv, DeliveryCitesItsSearch
<1>3. ASSUME NEW run \in Requests, Deliver(run), d \notin Deliveries
      PROVE  d.op = d.from /\ SearchRecorded(d.op) /\ Session \cup Binding \subseteq Recorded
  <2>1. d = Delivery(Cites)
    BY <1>3, DeliveryRecords
  <2>2. d.op = Cites /\ d.from = recall.from
    BY <2>1 DEF Delivery
  <2>3. QED
    BY <1>3, <2>2, CitesTheRendering
<1>4. QED
  BY <1>1, <1>2, <1>3, NativeRecordsNothing, NoOtherDeliveries DEF Next

LEMMA TrailInit == Init => TrailInv
<1> SUFFICES ASSUME Init
             PROVE  TrailInv
  OBVIOUS
<1>1. seen = {} /\ pc = "task" /\ trace # "open" /\ pending = 0 /\ cached = Nothing /\ recall = Nothing
  BY DEF Init
<1>2. Deliveries = {}
  BY <1>1 DEF Deliveries, Recorded
<1>3. QED
  BY <1>1, <1>2, TypeInit, NothingAnchored
     DEF TrailInv, SessionInv, SearchedInv, Started, ArmedInv, Delivers, DeliveryCitesItsSearch

LEMMA TrailStep == TrailInv /\ ClientInv' /\ [Next]_vars => TrailInv'
BY TypeStep, SessionStep, SearchedStep, ArmedStep, CitesStep DEF TrailInv

LEMMA TrailHolds == Spec => []TrailInv
BY TrailInit, TrailStep, ClientHolds, PTL DEF Spec

\* A recorded delivery cites the very search its payload was rendered from, and that
\* search, the session and its bindings are on the trajectory (deliver_recall).
THEOREM DeliveriesCiteTheirSearch == Spec => []DeliveryCitesItsSearch
<1>1. TrailInv => DeliveryCitesItsSearch
  BY DEF TrailInv
<1>2. QED
  BY <1>1, TrailHolds, PTL

-----------------------------------------------------------------------------
(* The interval a delivery binds.                                          *)

After(d) == d.after < cursor

IntervalInv ==
    /\ \A d \in Deliveries : d.after \in Nat /\ d.after < calls
    /\ \A d, e \in Deliveries : d.after = e.after => d = e
    /\ pc = "place" => cursor = NoCursor
    /\ pc = "call" => cursor \in {NoCursor, calls}
    /\ pc \in {"probe", "deliver"} /\ cursor # NoCursor => \A d \in Deliveries : After(d)
    /\ pc = "deliver" /\ cursor # NoCursor => cursor < calls

LEMMA IntervalStep == IntervalInv /\ TraceTypeOK /\ [Next]_vars => IntervalInv'
<1> SUFFICES ASSUME IntervalInv, TraceTypeOK, [Next]_vars
             PROVE  IntervalInv'
  OBVIOUS
<1> USE DEF prompt
<1>t. calls \in Nat /\ cursor \in Nat \cup {NoCursor} /\ NoCursor \notin Nat
  BY DEF TraceTypeOK, NoCursor
<1>1. ASSUME Deliveries' = Deliveries, calls' = calls, pc' \notin {"probe", "deliver"},
             pc' = "place" => cursor' = NoCursor, pc' = "call" => cursor' \in {NoCursor, calls}
      PROVE  IntervalInv'
  BY <1>1 DEF IntervalInv
<1>2. CASE Native \/ UNCHANGED vars
  <2>1. Deliveries' = Deliveries
    BY <1>2, NativeRecordsNothing
  <2>2. CASE \E raises \in BOOLEAN : CallModel(raises)
    <3>1. pc = "call" /\ cursor' = cursor /\ calls' \in {calls, calls + 1}
      BY <2>2 DEF CallModel
    <3>2. pc' = "deliver" /\ cursor # NoCursor => calls' = calls + 1
      BY <2>2 DEF CallModel
    <3>3. pc' \notin {"place", "call"}
      BY <2>2 DEF CallModel
    <3>4. cursor # NoCursor => cursor = calls
      BY <3>1 DEF IntervalInv
    <3>5. \A d \in Deliveries : d.after \in Nat /\ d.after < calls'
      BY <1>t, <3>1 DEF IntervalInv
    <3>6. cursor' # NoCursor => \A d \in Deliveries : d.after < cursor'
      BY <3>1, <3>4 DEF IntervalInv
    <3>7. pc' = "deliver" /\ cursor' # NoCursor => cursor' < calls'
      BY <1>t, <3>1, <3>2, <3>4
    <3>8. QED
      BY <2>1, <3>3, <3>5, <3>6, <3>7 DEF IntervalInv, After, NoCursor
  <2>3. CASE OpenUntraced \/ RecallClean \/ SearchUntraced \/ Preflight \/ DeliverNothing \/ DeliverUnsent
    BY <2>1, <2>3, <1>1 DEF OpenUntraced, RecallClean, SearchUntraced, Preflight, DeliverNothing, DeliverUnsent, Withhold
  <2>4. CASE PlaceUntraced
    BY <2>1, <2>4, <1>1 DEF PlaceUntraced, IntervalInv
  <2>5. CASE GenerateUntraced \/ GenerateRaises \/ RewriteReplaces \/ Finish \/ \E m \in Message : RecordMessage(m)
    BY <2>1, <2>5, <1>1 DEF GenerateUntraced, GenerateRaises, RewriteReplaces, Finish, RecordMessage,
         Generating, Return, SeriesOver
  <2>6. CASE \/ \E outcome \in {"found", "empty", "failed"} : SearchEndsUntraced(outcome)
             \/ \E outcome \in {"clean", "failed"}, parts \in 0..MaxParts : NativeExtract(outcome, parts)
    BY <2>1, <2>6, <1>1 DEF SearchEndsUntraced, Memoize, SearchFailed, NativeExtract
  <2>7. CASE UNCHANGED vars
    BY <2>1, <2>7 DEF vars, IntervalInv, After
  <2>8. QED
    BY <1>2, <2>2, <2>3, <2>4, <2>5, <2>6, <2>7 DEF Native
<1>3. ASSUME NEW run \in Requests, Request(run), ~Deliver(run)
      PROVE  IntervalInv'
  <2>1. Deliveries' = Deliveries
    BY <1>3, NoOtherDeliveries
  <2>2. CASE ReadCursor(run)
    BY <2>1, <2>2, <1>1 DEF ReadCursor
  <2>3. CASE Probe(run)
    <3>1. pc = "probe" /\ calls' = calls
      BY <2>3 DEF Probe
    <3>2. CASE pc' = "deliver" /\ calls > cursor /\ cursor' = cursor
      BY <1>t, <2>1, <3>1, <3>2 DEF IntervalInv, After
    <3>3. CASE Withhold
      BY <2>1, <3>1, <3>3, <1>1 DEF Withhold
    <3>4. QED
      BY <2>3, <3>2, <3>3 DEF Probe, Advanced
  <2>4. CASE OpenMain(run) \/ OpenMemory(run) \/ SearchStart(run) \/ GenerateStart(run)
    BY <2>1, <2>4, <1>1 DEF OpenMain, OpenMemory, SearchStart, GenerateStart, Generating, Return
  <2>5. CASE PostPart(run) \/ Abandon(run) \/ GenerateEnd(run)
    BY <2>1, <2>5, <1>1 DEF PostPart, Abandon, GenerateEnd, InSeries, SeriesOver
  <2>6. CASE \E outcome \in {"found", "empty", "failed"} : SearchEnd(run, outcome)
    BY <2>1, <2>6, <1>1 DEF SearchEnd, Memoize, SearchFailed
  <2>7. QED
    BY <1>3, <2>2, <2>3, <2>4, <2>5, <2>6 DEF Request
<1>4. ASSUME NEW run \in Requests, Deliver(run)
      PROVE  IntervalInv'
  <2>1. pc = "deliver" /\ cursor # NoCursor /\ pc' = "idle" /\ calls' = calls
    BY <1>4 DEF Deliver, Withhold
  <2>2. Delivery(Cites).after = cursor /\ cursor \in Nat /\ cursor < calls
    BY <2>1, <1>t DEF Delivery, IntervalInv
  <2>3. \A d \in Deliveries : d.after \in Nat /\ d.after < cursor
    BY <2>1 DEF IntervalInv, After
  <2>4. \A d \in Deliveries' : d \in Deliveries \/ d = Delivery(Cites)
    BY <1>4, DeliveryRecords
  <2>5. \A d \in Deliveries' : d.after \in Nat /\ d.after < calls'
    BY <1>t, <2>1, <2>2, <2>3, <2>4
  <2>6. \A d, e \in Deliveries' : d.after = e.after => d = e
    BY <1>t, <2>2, <2>3, <2>4 DEF IntervalInv
  <2>7. QED
    BY <2>1, <2>5, <2>6 DEF IntervalInv
<1>5. QED
  BY <1>2, <1>3, <1>4 DEF Next

LEMMA NoDeliveryYet == Init => Deliveries = {}
BY DEF Init, Deliveries, Recorded

LEMMA IntervalHolds == Spec => []IntervalInv
<1>1. Init => IntervalInv
  BY NoDeliveryYet DEF Init, IntervalInv
<1>2. TrailInv => TraceTypeOK
  BY DEF TrailInv
<1>3. QED
  BY <1>1, <1>2, IntervalStep, TrailHolds, PTL DEF Spec

\* The interval a recorded delivery binds holds a model call, and no two deliveries
\* bind the same one (the crash probe of query(), deliver_recall).
THEOREM DeliveriesOwnTheirCall == Spec => []DeliveryOwnsItsCall
<1>1. IntervalInv => DeliveryOwnsItsCall
  BY DEF IntervalInv, DeliveryOwnsItsCall
<1>2. QED
  BY <1>1, IntervalHolds, PTL

-----------------------------------------------------------------------------
(* Each event reaches the recorder once.                                   *)

Generation == {"generate", "generate_final", "series", "series_final"}
Closing    == {"change", "generate_end"}

\* What cannot be on the trajectory yet at the point the thread has reached: the
\* events of the requests still ahead of it.
AheadInv ==
    /\ pc = "task" => seen = {}
    /\ pc = "bind" => Recorded \cap Binding = {}
    /\ \A e \in Recorded : e.kind \in LaneKinds => e.op \in 0..ops
    /\ pc = "search" /\ ~op.disabled => op.id = ops /\ Event("search_end", ops, 0) \notin Recorded
    /\ pc \in Generation /\ ~op.disabled =>
           /\ op.id = ops
           /\ \A e \in Recorded : e.kind \in Closing /\ e.op = ops => e.kind = "change" /\ e.part \in 0..op.part
    /\ InSeries => ~op.disabled

OnceInv == AheadInv /\ RecordedOnce

\* A request none of whose events is on the trajectory adds each of them once.
LEMMA PostOnce ==
    ASSUME RecordedOnce, NEW run, NEW events, NEW reasons, Post(run, events, reasons),
           events \cap Recorded = {}
    PROVE  RecordedOnce'
<1>1. seen' = seen \cup Landed(run, events)
  BY DEF Post
<1>2. \A s \in Landed(run, events) : s.event \in events /\ s = [event |-> s.event, id |-> FreshId(s.event)]
  BY DEF Landed, Body
<1>3. \A s \in seen : s.event \notin events
  BY DEF Recorded
<1>4. QED
  BY <1>1, <1>2, <1>3 DEF RecordedOnce

LEMMA OnceStep == OnceInv /\ TraceTypeOK /\ IntervalInv /\ [Next]_vars => OnceInv'
<1> SUFFICES ASSUME OnceInv, TraceTypeOK, IntervalInv, [Next]_vars
             PROVE  OnceInv'
  OBVIOUS
<1> USE DEF OnceInv
<1>t. ops \in Nat /\ op.part \in Nat
  BY DEF TraceTypeOK, Operation
<1>k. "session" \notin LaneKinds /\ "bind_main" \notin LaneKinds /\ "bind_memory" \notin LaneKinds /\ "delivery" \notin LaneKinds
  BY DEF LaneKinds
\* A step that records nothing and leaves the operation in progress alone, or drops it.
<1>1. ASSUME seen' = seen, ops' = ops, pc' \notin {"task", "bind", "search"} \cup Generation
      PROVE  OnceInv'
  BY <1>1 DEF AheadInv, RecordedOnce, Recorded, InSeries, Generation
<1>2. ASSUME seen' = seen, ops' = ops, op' = op, pc' = pc
      PROVE  OnceInv'
  BY <1>2 DEF AheadInv, RecordedOnce, Recorded, InSeries
\* A request outside of every operation.
<1>3. ASSUME NEW run, NEW events, NEW reasons, Post(run, events, reasons), events \cap Recorded = {},
             \A e \in events : e.kind \in LaneKinds => e.op \in 0..ops,
             ops' = ops, pc' \notin {"task", "bind", "search"} \cup Generation
      PROVE  OnceInv'
  BY <1>3, PostOnce, PostRecords DEF AheadInv, InSeries, Generation
<1>4. CASE Native \/ UNCHANGED vars
  <2>1. CASE OpenUntraced \/ RecallClean \/ PlaceUntraced \/ Preflight \/ DeliverNothing \/ DeliverUnsent
             \/ GenerateRaises \/ RewriteReplaces \/ Finish
    <3>1. seen' = seen /\ ops' = ops
      BY <2>1 DEF OpenUntraced, RecallClean, PlaceUntraced, Preflight, DeliverNothing, DeliverUnsent,
         GenerateRaises, RewriteReplaces, Finish, annotatorVars, Silent
    <3>2. pc' \notin {"task", "bind", "search"} \cup Generation
      BY <2>1 DEF OpenUntraced, RecallClean, PlaceUntraced, Preflight, DeliverNothing, DeliverUnsent, Withhold,
         GenerateRaises, RewriteReplaces, Finish, SeriesOver, Generation
    <3>3. QED
      BY <1>1, <3>1, <3>2
  <2>2. CASE SearchUntraced \/ GenerateUntraced
    <3>1. seen' = seen /\ ops' = ops + 1 /\ op'.disabled
      BY <2>2 DEF SearchUntraced, GenerateUntraced, annotatorVars, NoOp
    <3>2. pc' \in {"search", "generate", "generate_final"}
      BY <2>2 DEF SearchUntraced, GenerateUntraced, Generating
    <3>3. \A e \in Recorded : e.kind \in LaneKinds => e.op \in 0..ops'
      BY <1>t, <3>1 DEF AheadInv
    <3>4. Recorded' = Recorded
      BY <3>1 DEF Recorded
    <3>5. RecordedOnce'
      BY <3>1 DEF RecordedOnce
    <3>6. QED
      BY <3>1, <3>2, <3>3, <3>4, <3>5 DEF AheadInv, InSeries, Generation
  <2>3. CASE \E m \in Message : RecordMessage(m)
    BY <1>2, <2>3 DEF RecordMessage, annotatorVars
  <2>4. CASE \E raises \in BOOLEAN : CallModel(raises)
    BY <1>1, <2>4 DEF CallModel, annotatorVars, Generation
  <2>5. CASE \E outcome \in {"found", "empty", "failed"} : SearchEndsUntraced(outcome)
    BY <1>1, <2>5 DEF SearchEndsUntraced, Memoize, SearchFailed, annotatorVars, Generation
  <2>6. ASSUME NEW outcome, NEW parts, NativeExtract(outcome, parts)
        PROVE  OnceInv'
    <3>1. seen' = seen /\ ops' = ops /\ pc \in Generation
      BY <2>6 DEF NativeExtract, annotatorVars, Generation
    <3>2. CASE op.disabled
      BY <1>1, <2>6, <3>1, <3>2 DEF NativeExtract, Generation
    <3>3. CASE ~op.disabled
      <4>1. op'.id = op.id /\ op'.part = op.part /\ op'.disabled = op.disabled
        BY <2>6, <3>3 DEF NativeExtract, TraceTypeOK, Operation
      <4>2. pc' \in {"series", "series_final"}
        BY <2>6, <3>3 DEF NativeExtract
      <4>3. QED
        BY <3>1, <3>3, <4>1, <4>2 DEF AheadInv, RecordedOnce, Recorded, InSeries, Generation
    <3>4. QED
      BY <3>2, <3>3
  <2>7. CASE UNCHANGED vars
    BY <1>2, <2>7 DEF vars, annotatorVars
  <2>8. QED
    BY <1>4, <2>1, <2>2, <2>3, <2>4, <2>5, <2>6, <2>7 DEF Native
<1>5. ASSUME NEW run, OpenMain(run)
      PROVE  OnceInv'
  <2>1. Post(run, Session, {}) /\ ops' = ops /\ pc' \in {"bind", "idle"}
    BY <1>5 DEF OpenMain
  <2>2. Recorded = {}
    BY <1>5 DEF OpenMain, AheadInv, Recorded
  <2>3. Recorded' \subseteq Session /\ RecordedOnce'
    BY <2>1, <2>2, PostOnce, PostRecords
  <2>4. \A e \in Session : e.kind \notin LaneKinds /\ e \notin Binding
    BY <1>k DEF Session, Binding, Event
  <2>5. QED
    BY <2>1, <2>3, <2>4 DEF AheadInv, InSeries, Generation
<1>6. ASSUME NEW run, OpenMemory(run)
      PROVE  OnceInv'
  <2>1. Post(run, Binding, {}) /\ Binding \cap Recorded = {} /\ ops' = ops /\ pc' = "idle"
    BY <1>6 DEF OpenMemory, AheadInv
  <2>2. \A e \in Binding : e.kind \notin LaneKinds
    BY <1>k DEF Binding, Event
  <2>3. QED
    BY <1>3, <2>1, <2>2 DEF Generation
\* A start: its number is new, so is every event that will carry it.
<1>7. ASSUME NEW run, SearchStart(run) \/ GenerateStart(run)
      PROVE  OnceInv'
  <2>1. PICK kind \in {"search_start", "generate_start"} :
           \E reasons : Post(run, {Event(kind, ops', 0)}, reasons)
    BY <1>7 DEF SearchStart, GenerateStart
  <2>r. PICK reasons : Post(run, {Event(kind, ops', 0)}, reasons)
    BY <2>1
  <2> DEFINE start == Event(kind, ops', 0)
  <2>2. ops' = ops + 1 /\ op'.id = ops' /\ op'.part = 0 /\ pc' \in {"search", "generate", "generate_final"}
    BY <1>7 DEF SearchStart, GenerateStart, BindStart, Generating
  <2>3. \A e \in Recorded : e.kind \in LaneKinds => e.op \in 0..ops
    BY DEF AheadInv
  <2>4. start.kind = kind /\ start.op = ops + 1 /\ kind \in LaneKinds /\ kind \notin Closing \cup {"search_end"}
    BY <2>2 DEF Event, LaneKinds, Closing
  <2>5. start \notin Recorded
    BY <1>t, <2>3, <2>4
  <2>6. RecordedOnce'
    BY <2>r, <2>5, PostOnce
  <2>7. \A e \in Recorded' : e \in Recorded \/ e = start
    BY <2>r, PostRecords
  <2>8. \A e \in Recorded' : e.kind \in LaneKinds => e.op \in 0..ops'
    BY <1>t, <2>2, <2>3, <2>4, <2>7
  <2>9. \A e \in Recorded' : e.kind \in Closing \cup {"search_end"} => e.op # ops'
    BY <1>t, <2>2, <2>3, <2>4, <2>7 DEF LaneKinds, Closing
  <2>10. Event("search_end", ops', 0) \notin Recorded'
    BY <2>9 DEF Event
  <2>11. QED
    BY <2>2, <2>6, <2>8, <2>9, <2>10 DEF AheadInv, InSeries, Generation
<1>8. ASSUME NEW run, NEW outcome, SearchEnd(run, outcome)
      PROVE  OnceInv'
  <2>1. pc = "search" /\ ~op.disabled /\ ops' = ops /\ pc' \in {"place", "call"}
    BY <1>8 DEF SearchEnd, Memoize, SearchFailed
  <2>2. op.id = ops /\ Event("search_end", ops, 0) \notin Recorded
    BY <2>1 DEF AheadInv
  <2>3. PICK reasons : Post(run, {Event("search_end", ops, 0)}, reasons)
    BY <1>8, <2>2 DEF SearchEnd
  <2>4. Event("search_end", ops, 0).op \in 0..ops
    BY <1>t DEF Event
  <2>5. QED
    BY <1>3, <2>1, <2>2, <2>3, <2>4 DEF Generation
<1>9. ASSUME NEW run, ReadCursor(run) \/ Probe(run)
      PROVE  OnceInv'
  <2>1. ops' = ops /\ pc' \in {"call", "deliver", "idle"} /\ \E reasons : Post(run, {}, reasons)
    BY <1>9 DEF ReadCursor, Probe, Withhold
  <2>2. QED
    BY <1>3, <2>1 DEF Generation
\* A delivery: no earlier one was recorded after the cursor it read.
<1>10. ASSUME NEW run, Deliver(run)
       PROVE  OnceInv'
  <2>1. ops' = ops /\ pc' = "idle" /\ pc = "deliver" /\ cursor # NoCursor
    BY <1>10 DEF Deliver, Withhold
  <2>2. Delivery(Cites).after = cursor /\ Delivery(Cites).kind = "delivery"
    BY DEF Delivery
  <2>3. \A d \in Deliveries : d.after < cursor
    BY <2>1 DEF IntervalInv, After
  <2>4. cursor \in Nat
    BY <2>1 DEF TraceTypeOK
  <2>5. Delivery(Cites) \notin Recorded
    BY <2>2, <2>3, <2>4 DEF Deliveries
  <2>6. PICK reasons : Post(run, {Delivery(Cites)}, reasons)
    BY <1>10 DEF Deliver
  <2>7. QED
    BY <1>3, <1>k, <2>1, <2>2, <2>5, <2>6 DEF Generation
<1>11. ASSUME NEW run, PostPart(run) \/ Abandon(run)
       PROVE  OnceInv'
  <2>1. InSeries /\ pc \in Generation /\ ops' = ops
    BY <1>11 DEF PostPart, Abandon, InSeries, Generation
  <2>2. ~op.disabled /\ op.id = ops
    BY <2>1 DEF AheadInv
  <2> DEFINE batch == Event("change", ops, op.part + 1)
  <2>3. PICK reasons : Post(run, {batch}, reasons)
    BY <1>11, <2>2 DEF PostPart, Abandon
  <2>4. batch.kind = "change" /\ batch.op = ops /\ batch.part = op.part + 1
    BY DEF Event
  <2>5. \A e \in Recorded : e.kind \in Closing /\ e.op = ops => e.kind = "change" /\ e.part \in 0..op.part
    BY <2>1, <2>2 DEF AheadInv
  <2>6. batch \notin Recorded
    BY <1>t, <2>4, <2>5 DEF Closing
  <2>7. CASE Abandon(run)
    <3>1. pc' \in {"idle", "done"}
      BY <2>7 DEF Abandon, SeriesOver
    <3>2. QED
      BY <1>3, <1>t, <2>1, <2>3, <2>4, <2>6, <3>1 DEF Generation
  <2>8. CASE PostPart(run)
    <3>1. pc' = pc /\ op'.id = op.id /\ op'.part = op.part + 1 /\ op'.disabled = op.disabled
      BY <2>8 DEF PostPart, TraceTypeOK, Operation
    <3>2. \A e \in Recorded' : e \in Recorded \/ e = batch
      BY <2>3, PostRecords
    <3>3. \A e \in Recorded' : e.kind \in LaneKinds => e.op \in 0..ops'
      BY <1>t, <2>1, <2>4, <3>2 DEF AheadInv
    <3>4. \A e \in Recorded' : e.kind \in Closing /\ e.op = ops' => e.kind = "change" /\ e.part \in 0..op'.part
      BY <1>t, <2>1, <2>4, <2>5, <3>1, <3>2
    <3>5. RecordedOnce'
      BY <2>3, <2>6, PostOnce
    <3>6. QED
      BY <2>1, <2>2, <3>1, <3>3, <3>4, <3>5 DEF AheadInv, InSeries, Generation
  <2>9. QED
    BY <1>11, <2>7, <2>8
<1>12. ASSUME NEW run, GenerateEnd(run)
       PROVE  OnceInv'
  <2>1. InSeries /\ pc \in Generation /\ ops' = ops /\ pc' \in {"idle", "done"}
    BY <1>12 DEF GenerateEnd, InSeries, SeriesOver, Generation
  <2>2. ~op.disabled /\ op.id = ops
    BY <2>1 DEF AheadInv
  <2>3. Post(run, {Event("generate_end", ops, op.parts)}, {})
    BY <1>12, <2>2 DEF GenerateEnd
  <2>4. Event("generate_end", ops, op.parts).op = ops /\ Event("generate_end", ops, op.parts).kind = "generate_end"
    BY DEF Event
  <2>5. Event("generate_end", ops, op.parts) \notin Recorded
    BY <2>1, <2>2, <2>4 DEF AheadInv, Closing
  <2>6. QED
    BY <1>3, <1>t, <2>1, <2>3, <2>4, <2>5 DEF Generation
<1>13. QED
  BY <1>4, <1>5, <1>6, <1>7, <1>8, <1>9, <1>10, <1>11, <1>12 DEF Next, Request

\* The trajectory holds each event once: a retry replays the body of its request, and no
\* two requests of a session carry the same event (annotate.py, _event, query()'s probe).
THEOREM EventsAreRecordedOnce == Spec => []RecordedOnce
<1>1. Init => OnceInv
  BY DEF Init, OnceInv, AheadInv, RecordedOnce, Recorded, InSeries, Generation
<1>2. TrailInv => TraceTypeOK
  BY DEF TrailInv
<1>3. OnceInv => RecordedOnce
  BY DEF OnceInv
<1>4. QED
  BY <1>1, <1>2, <1>3, OnceStep, TrailHolds, IntervalHolds, PTL DEF Spec

-----------------------------------------------------------------------------
(* A placed block without a delivery.                                      *)

Awaited == IF pc \in {"probe", "deliver"} THEN 1 ELSE 0

\* As long as nothing was logged, every search that found something is anchored and
\* every block a model saw, but the one of the query under way, has its delivery.
Unlogged ==
    /\ laneOn /\ deliveryOn
    /\ pc = "search" => ~op.disabled
    /\ cached # Nothing => cached.anchor # 0
    /\ pc \in {"place", "probe", "deliver"} => recall # Nothing
    /\ pc \in Querying /\ recall # Nothing => Cites # 0
    /\ Cardinality(Deliveries) + Awaited = noted

Unopened == pc \in {"task", "bind"} =>
                laneOn /\ deliveryOn /\ cached = Nothing /\ noted = 0 /\ Deliveries = {}

Numbered ==
    /\ pc = "search" => ops # 0
    /\ cached.from = 0 => cached = Nothing

UnloggedInv ==
    /\ IsFiniteSet(Deliveries) /\ Unopened /\ Numbered
    /\ trace = "open" /\ ~HookFaults /\ logged = {} => Unlogged

LEMMA LoggedGrows ==
    ASSUME [Next]_vars
    PROVE  logged \subseteq logged'
<1>1. ASSUME NEW run, NEW events, NEW reasons, Post(run, events, reasons)
      PROVE  logged \subseteq logged'
  BY <1>1 DEF Post
<1>2. ASSUME NEW reasons, Silent(reasons)
      PROVE  logged \subseteq logged'
  BY <1>2 DEF Silent
<1>3. QED
  BY <1>1, <1>2, StepOfClient DEF annotatorVars

\* A request that leaves memory.json without a record had nothing to say.
LEMMA PostSaysNothing ==
    ASSUME NEW run, NEW events, NEW reasons, Post(run, events, reasons), logged' = {}
    PROVE  reasons = {}
BY DEF Post

LEMMA DeliveriesFinite ==
    ASSUME IsFiniteSet(Deliveries), [Next]_vars
    PROVE  IsFiniteSet(Deliveries')
<1>1. ASSUME NEW run \in Requests, Deliver(run)
      PROVE  IsFiniteSet(Deliveries')
  <2>1. IsFiniteSet(Deliveries \cup {Delivery(Cites)})
    BY FS_AddElement
  <2>2. QED
    BY <1>1, <2>1, DeliveryRecords, FS_Subset
<1>2. QED
  BY <1>1, NativeRecordsNothing, NoOtherDeliveries DEF Next

LEMMA UnopenedStep ==
    ASSUME Unopened, [Next]_vars
    PROVE  Unopened'
<1> USE DEF lane, memo, prompt
<1>1. ASSUME pc' \notin {"task", "bind"}
      PROVE  Unopened'
  BY <1>1 DEF Unopened
<1>2. ASSUME NEW run \in Requests, OpenMain(run)
      PROVE  Unopened'
  <2>1. Deliveries' = Deliveries
    BY <1>2, NoOtherDeliveries DEF Request, OpenMain, Deliver
  <2>2. QED
    BY <1>2, <2>1 DEF OpenMain, Unopened
<1>3. CASE Native
  BY <1>3, <1>1 DEF Native, OpenUntraced, RecallClean, SearchUntraced, PlaceUntraced, Preflight,
     DeliverNothing, DeliverUnsent, Withhold, GenerateUntraced, GenerateRaises, RewriteReplaces, Finish,
     RecordMessage, CallModel, SearchEndsUntraced, Memoize, SearchFailed, NativeExtract, Generating, Return, SeriesOver
<1>4. ASSUME NEW run \in Requests, Request(run)
      PROVE  Unopened'
  <2>1. CASE OpenMemory(run) \/ SearchStart(run) \/ ReadCursor(run) \/ Probe(run) \/ Deliver(run) \/ GenerateStart(run)
    BY <2>1, <1>1 DEF OpenMemory, SearchStart, ReadCursor, Probe, Deliver, Withhold, GenerateStart, Generating, Return
  <2>2. CASE PostPart(run) \/ Abandon(run) \/ GenerateEnd(run)
    BY <2>2, <1>1 DEF PostPart, Abandon, GenerateEnd, InSeries, SeriesOver
  <2>3. CASE \E outcome \in {"found", "empty", "failed"} : SearchEnd(run, outcome)
    BY <2>3, <1>1 DEF SearchEnd, Memoize, SearchFailed
  <2>4. QED
    BY <1>4, <1>2, <2>1, <2>2, <2>3 DEF Request
<1>5. CASE UNCHANGED vars
  BY <1>5, NativeRecordsNothing DEF vars, Unopened
<1>6. QED
  BY <1>3, <1>4, <1>5 DEF Next

LEMMA NumberedStep ==
    ASSUME Numbered, TraceTypeOK, [Next]_vars
    PROVE  Numbered'
<1> USE DEF memo
<1>1. ASSUME cached' = cached, pc' # "search"
      PROVE  Numbered'
  BY <1>1 DEF Numbered
<1>2. ASSUME SearchUntraced \/ \E run : SearchStart(run)
      PROVE  Numbered'
  <2>1. ops' = ops + 1 /\ cached' = cached /\ ops \in Nat
    BY <1>2 DEF SearchUntraced, SearchStart, TraceTypeOK
  <2>2. QED
    BY <2>1 DEF Numbered
<1>3. ASSUME pc = "search", NEW found, NEW anchor, Memoize(found, anchor)
      PROVE  Numbered'
  <2>1. cached' = Nothing \/ cached'.from = ops
    BY <1>3 DEF Memoize
  <2>2. QED
    BY <1>3, <2>1 DEF Memoize, Numbered
<1>4. ASSUME NEW outcome, SearchEndsUntraced(outcome) \/ \E run : SearchEnd(run, outcome)
      PROVE  Numbered'
  BY <1>4, <1>1, <1>3 DEF SearchEndsUntraced, SearchEnd, SearchFailed
<1>5. CASE Native
  <2>1. CASE OpenUntraced \/ RecallClean \/ PlaceUntraced \/ Preflight \/ DeliverNothing \/ DeliverUnsent
             \/ GenerateUntraced \/ GenerateRaises \/ RewriteReplaces \/ Finish
    BY <2>1, <1>1 DEF OpenUntraced, RecallClean, PlaceUntraced, Preflight, Withhold, Generating, Return, SeriesOver,
         DeliverNothing, DeliverUnsent, GenerateUntraced, GenerateRaises, RewriteReplaces, Finish
  <2>2. CASE \/ \E m \in Message : RecordMessage(m)
             \/ \E raises \in BOOLEAN : CallModel(raises)
             \/ \E outcome \in {"clean", "failed"}, parts \in 0..MaxParts : NativeExtract(outcome, parts)
    BY <2>2, <1>1 DEF RecordMessage, CallModel, NativeExtract
  <2>3. QED
    BY <1>5, <1>2, <1>4, <2>1, <2>2 DEF Native
<1>6. ASSUME NEW run \in Requests, Request(run)
      PROVE  Numbered'
  <2>1. CASE OpenMain(run) \/ OpenMemory(run) \/ ReadCursor(run) \/ Probe(run) \/ Deliver(run) \/ GenerateStart(run)
    BY <2>1, <1>1 DEF OpenMain, OpenMemory, ReadCursor, Probe, Deliver, Withhold, GenerateStart, Generating, Return
  <2>2. CASE PostPart(run) \/ Abandon(run) \/ GenerateEnd(run)
    BY <2>2, <1>1 DEF PostPart, Abandon, GenerateEnd, InSeries, SeriesOver
  <2>3. QED
    BY <1>6, <1>2, <1>4, <2>1, <2>2 DEF Request
<1>7. CASE UNCHANGED vars
  BY <1>7 DEF vars, Numbered
<1>8. QED
  BY <1>5, <1>6, <1>7 DEF Next

LEMMA UnloggedStep ==
    ASSUME UnloggedInv, TrailInv, IntervalInv, [Next]_vars,
           trace' = "open", ~HookFaults, logged' = {}
    PROVE  Unlogged'
<1> USE DEF lane, memo, prompt
<1>t. TraceTypeOK /\ SearchedInv /\ logged = {} /\ Nothing.from = 0 /\ Nothing.anchor = 0 /\ Nothing.cached = FALSE
  BY LoggedGrows DEF TrailInv, Nothing
<1>n. IsFiniteSet(Deliveries) /\ Cardinality(Deliveries) \in Nat /\ noted \in Nat
  BY <1>t, FS_CardinalityType DEF UnloggedInv, TraceTypeOK
<1>1. ASSUME NEW run \in Requests, OpenMemory(run)
      PROVE  Unlogged'
  <2>1. Deliveries' = Deliveries
    BY <1>1, NoOtherDeliveries DEF Request, OpenMemory, Deliver
  <2>2. laneOn /\ deliveryOn /\ cached = Nothing /\ noted = 0 /\ Deliveries = {}
    BY <1>1 DEF OpenMemory, UnloggedInv, Unopened
  <2>3. Cardinality(Deliveries') = 0
    BY <2>1, <2>2, FS_EmptySet
  <2>4. QED
    BY <1>1, <2>2, <2>3 DEF OpenMemory, Unlogged, Awaited, Querying
<1>2. SUFFICES ASSUME trace = "open", Unlogged
               PROVE  Unlogged'
  <2>1. CASE trace = "open"
    BY <1>t, <1>2, <2>1 DEF UnloggedInv
  <2>2. ASSUME trace # "open"
        PROVE  \E run \in Requests : OpenMemory(run)
    <3>1. ~Native /\ ~UNCHANGED vars
      BY <2>2 DEF Native, vars, OpenUntraced, RecallClean, SearchUntraced, PlaceUntraced, Preflight,
         DeliverNothing, DeliverUnsent, GenerateUntraced, GenerateRaises, RewriteReplaces, Finish,
         RecordMessage, CallModel, SearchEndsUntraced, NativeExtract
    <3>2. ASSUME NEW run \in Requests, Request(run)
          PROVE  OpenMemory(run)
      BY <2>2, <3>2 DEF Request, OpenMain, SearchStart, ReadCursor, Probe, Deliver, GenerateStart, PostPart,
         Abandon, GenerateEnd, SearchEnd
    <3>3. QED
      BY <3>1, <3>2 DEF Next
  <2>3. QED
    BY <1>1, <2>1, <2>2
<1>o. laneOn /\ deliveryOn /\ Traced /\ Delivers
  BY <1>2 DEF Unlogged, Traced, Delivers
\* A step that leaves what a query holds alone and does not end one.
<1>3. ASSUME UNCHANGED <<laneOn, deliveryOn, cached, noted>>, Deliveries' = Deliveries,
             pc \notin {"probe", "deliver"}, pc' \notin Querying \cup {"search"}
      PROVE  Unlogged'
  BY <1>2, <1>3 DEF Unlogged, Awaited, Querying
<1>4. CASE RecallClean
  <2>1. Deliveries' = Deliveries
    BY <1>4, NativeRecordsNothing DEF Native
  <2>2. recall' = [cached EXCEPT !.cached = cached.from # 0] /\ pc' \in {"place", "call"} /\ pc = "idle"
    BY <1>4 DEF RecallClean
  <2>3. CASE cached.from # 0
    <3>1. recall'.from # 0 /\ recall'.cached /\ recall'.anchor = cached.anchor /\ cached # Nothing
      BY <1>t, <2>2, <2>3 DEF TraceTypeOK, Payload
    <3>2. recall' # Nothing /\ recall'.anchor # 0
      BY <1>2, <1>t, <3>1 DEF Unlogged
    <3>3. Cites' # 0
      BY <3>1, <3>2 DEF Cites
    <3>4. QED
      BY <1>2, <1>4, <2>1, <2>2, <3>2, <3>3 DEF RecallClean, Unlogged, Awaited, Querying
  <2>4. CASE cached.from = 0
    <3>1. cached = Nothing /\ pc' = "call"
      BY <1>4, <2>4 DEF RecallClean, UnloggedInv, Numbered
    <3>2. recall' = Nothing
      <4>1. (cached.from # 0) = FALSE
        BY <2>4
      <4>2. recall' = [Nothing EXCEPT !.cached = FALSE]
        BY <2>2, <3>1, <4>1
      <4>3. QED
        BY <4>2 DEF Nothing
    <3>3. QED
      BY <1>2, <1>4, <2>1, <3>1, <3>2 DEF RecallClean, Unlogged, Awaited, Querying
  <2>5. QED
    BY <2>3, <2>4
<1>5. ASSUME NEW run \in Requests, SearchStart(run)
      PROVE  Unlogged'
  <2>1. Deliveries' = Deliveries
    BY <1>5, NoOtherDeliveries DEF Request, SearchStart, Deliver
  <2>2. BindStart(run, ops') /\ StartRecord(run) = {}
    BY <1>5, PostSaysNothing DEF SearchStart
  <2>3. Status(run) \notin {"oversize", "conflict"}
    BY <2>2 DEF StartRecord
  <2>4. ~op'.disabled /\ laneOn' = laneOn
    BY <2>2, <2>3 DEF BindStart
  <2>5. QED
    BY <1>2, <1>5, <2>1, <2>4 DEF SearchStart, Unlogged, Awaited, Querying
<1>6. ASSUME NEW run \in Requests, NEW outcome, SearchEnd(run, outcome), Deliveries' = Deliveries
      PROVE  Unlogged'
  <2>1. pc = "search" /\ UNCHANGED <<laneOn, deliveryOn, noted>>
    BY <1>6 DEF SearchEnd
  <2>2. CASE outcome = "found"
    <3>1. Arms(run)
      BY <1>6, <2>2, PostSaysNothing DEF SearchEnd
    <3>2. pending' = op.id /\ Memoize(outcome = "found", op.id) /\ op.accepted
      BY <1>6, <2>2, <3>1 DEF SearchEnd, Arms
    <3>3. op.id = ops /\ ops # 0
      BY <1>t, <2>1, <3>2 DEF SearchedInv, Started
    <3>4. cached'.anchor = op.id /\ cached'.from = ops /\ ~cached'.cached /\ recall' = cached' /\ pc' = "place"
      BY <2>2, <3>2 DEF Memoize
    <3>5. recall' # Nothing /\ Cites' # 0
      BY <1>t, <3>2, <3>3, <3>4 DEF Cites
    <3>6. QED
      BY <1>2, <1>6, <2>1, <3>3, <3>4, <3>5 DEF Unlogged, Awaited, Querying
  <2>3. CASE outcome # "found"
    <3>1. pc' = "call" /\ recall' = Nothing /\ cached' \in {cached, Nothing}
      BY <1>6, <2>3 DEF SearchEnd, Memoize, SearchFailed
    <3>2. QED
      BY <1>2, <1>6, <2>1, <3>1 DEF Unlogged, Awaited, Querying
  <2>4. QED
    BY <2>2, <2>3
<1>7. ASSUME NEW raises \in BOOLEAN, CallModel(raises)
      PROVE  Unlogged'
  <2>1. Deliveries' = Deliveries
    BY <1>7, NativeRecordsNothing DEF Native
  <2>2. pc = "call" /\ UNCHANGED <<laneOn, deliveryOn, cached, recall, pending>>
    BY <1>7 DEF CallModel
  <2>3. CASE recall = Nothing
    BY <1>2, <1>7, <2>1, <2>2, <2>3 DEF CallModel, Unlogged, Awaited, Querying
  <2>4. CASE recall # Nothing
    <3>1. noted' = noted + 1 /\ pc' \in {"probe", "deliver"}
      BY <1>7, <2>4 DEF CallModel
    <3>2. Cites' = Cites
      BY <2>2 DEF Cites
    <3>3. Awaited = 0 /\ Awaited' = 1
      BY <2>2, <3>1 DEF Awaited
    <3>4. Cardinality(Deliveries') + Awaited' = noted'
      BY <1>2, <1>n, <2>1, <3>1, <3>3 DEF Unlogged
    <3>5. QED
      BY <1>2, <2>2, <2>4, <3>1, <3>2, <3>4 DEF Unlogged, Querying
  <2>5. QED
    BY <2>3, <2>4
<1>8. ASSUME NEW run \in Requests, ReadCursor(run)
      PROVE  Unlogged'
  <2>1. Deliveries' = Deliveries
    BY <1>8, NoOtherDeliveries DEF Request, ReadCursor, Deliver
  <2>2. pc = "place" /\ pc' = "call" /\ UNCHANGED <<laneOn, deliveryOn, cached, recall, pending, noted>> /\ Cites' = Cites
    BY <1>8 DEF ReadCursor, Cites
  <2>3. QED
    BY <1>2, <2>1, <2>2 DEF Unlogged, Awaited, Querying
<1>9. ASSUME NEW run \in Requests, Probe(run)
      PROVE  Unlogged'
  <2>1. Deliveries' = Deliveries
    BY <1>9, NoOtherDeliveries DEF Request, Probe, Deliver
  <2>2. HasCursor(run) /\ Advanced
    BY <1>9, PostSaysNothing DEF Probe
  <2>3. pc = "probe" /\ pc' = "deliver" /\ UNCHANGED <<laneOn, deliveryOn, cached, recall, pending, noted>> /\ Cites' = Cites
    BY <1>9, <2>2 DEF Probe, Cites
  <2>4. QED
    BY <1>2, <2>1, <2>3 DEF Unlogged, Awaited, Querying
<1>10. CASE DeliverUnsent
  <2>1. Cites # 0
    BY <1>2, <1>10 DEF DeliverUnsent, Unlogged, Querying
  <2>2. QED
    BY <1>10, <2>1 DEF DeliverUnsent, Silent
<1>11. ASSUME NEW run \in Requests, Deliver(run)
       PROVE  Unlogged'
  <2>1. DeliveryRecord(run) = {}
    BY <1>11, PostSaysNothing DEF Deliver
  <2>2. Ok(run)
    BY <2>1 DEF DeliveryRecord
  <2>3. Deliveries' = Deliveries \cup {Delivery(Cites)}
    BY <1>11, <2>2, DeliveryRecords
  <2>4. Delivery(Cites) \notin Deliveries
    <3>1. pc = "deliver" /\ cursor # NoCursor /\ Delivery(Cites).after = cursor
      BY <1>11 DEF Deliver, Delivery
    <3>2. \A d \in Deliveries : d.after < cursor
      BY <3>1 DEF IntervalInv, After
    <3>3. cursor \in Nat
      BY <1>t, <3>1 DEF TraceTypeOK
    <3>4. QED
      BY <3>1, <3>2, <3>3
  <2>5. Cardinality(Deliveries') = Cardinality(Deliveries) + 1
    BY <1>n, <2>3, <2>4, FS_AddElement
  <2>6. Awaited = 1 /\ Awaited' = 0 /\ noted' = noted
    BY <1>11 DEF Deliver, Withhold, Awaited
  <2>7. Cardinality(Deliveries') + Awaited' = noted'
    BY <1>2, <1>n, <2>5, <2>6 DEF Unlogged
  <2>8. QED
    BY <1>2, <1>11, <2>2, <2>7 DEF Deliver, Withhold, Unlogged, Querying
<1>12. ASSUME NEW run \in Requests, GenerateStart(run)
       PROVE  Unlogged'
  <2>1. Deliveries' = Deliveries
    BY <1>12, NoOtherDeliveries DEF Request, GenerateStart, Extracting, Deliver
  <2>2. BindStart(run, ops') /\ StartRecord(run) = {}
    BY <1>12, PostSaysNothing DEF GenerateStart
  <2>3. laneOn' = laneOn
    BY <2>2 DEF StartRecord, BindStart
  <2>4. pc' \in {"generate", "generate_final"} /\ pc \in {"idle", "flush"}
    BY <1>12 DEF GenerateStart, Extracting, Generating, Return
  <2>5. QED
    BY <1>3, <1>12, <2>1, <2>3, <2>4 DEF GenerateStart, Querying
<1>13. ASSUME NEW run \in Requests, PostPart(run) \/ GenerateEnd(run)
       PROVE  Unlogged'
  <2>1. Deliveries' = Deliveries
    BY <1>13, NoOtherDeliveries DEF Request, PostPart, GenerateEnd, Deliver, InSeries
  <2>2. QED
    BY <1>3, <1>13, <2>1 DEF PostPart, GenerateEnd, InSeries, SeriesOver, Querying
<1>14. ASSUME NEW run \in Requests, Abandon(run)
       PROVE  Unlogged'
  BY <1>14, PostSaysNothing DEF Abandon
<1>15. CASE Native
  <2>1. Deliveries' = Deliveries
    BY <1>15, NativeRecordsNothing
  <2>2. ~OpenUntraced /\ ~SearchUntraced /\ ~PlaceUntraced /\ ~DeliverNothing /\ ~GenerateUntraced
    BY <1>o DEF OpenUntraced, SearchUntraced, PlaceUntraced, DeliverNothing, GenerateUntraced
  <2>3. CASE Preflight \/ GenerateRaises \/ RewriteReplaces \/ Finish
    BY <1>3, <2>1, <2>3 DEF Preflight, GenerateRaises, RewriteReplaces, Finish, InSeries, SeriesOver, Querying
  <2>4. ASSUME NEW m, RecordMessage(m)
        PROVE  Unlogged'
    BY <1>3, <2>1, <2>4 DEF RecordMessage, Querying
  <2>5. ASSUME NEW outcome, NEW parts, NativeExtract(outcome, parts)
        PROVE  Unlogged'
    BY <1>3, <2>1, <2>5 DEF NativeExtract, Querying
  <2>6. ASSUME NEW outcome, SearchEndsUntraced(outcome)
        PROVE  FALSE
    BY <1>2, <2>6 DEF SearchEndsUntraced, Unlogged
  <2>7. QED
    BY <1>15, <1>4, <1>7, <1>10, <2>2, <2>3, <2>4, <2>5, <2>6 DEF Native
<1>16. CASE UNCHANGED vars
  <2>1. Deliveries' = Deliveries /\ Cites' = Cites
    BY <1>16, NativeRecordsNothing DEF vars, Cites
  <2>2. QED
    BY <1>2, <1>16, <2>1 DEF vars, Unlogged, Awaited
<1>17. ASSUME NEW run \in Requests, Request(run)
       PROVE  Unlogged'
  <2>1. CASE \E outcome \in {"found", "empty", "failed"} : SearchEnd(run, outcome)
    <3>1. PICK outcome \in {"found", "empty", "failed"} : SearchEnd(run, outcome)
      BY <2>1
    <3>2. Deliveries' = Deliveries
      BY <1>17, <3>1, NoOtherDeliveries DEF SearchEnd, Deliver
    <3>3. QED
      BY <1>6, <3>1, <3>2
  <2>2. ~OpenMain(run)
    BY <1>2 DEF OpenMain
  <2>3. QED
    BY <1>17, <1>1, <1>5, <1>8, <1>9, <1>11, <1>12, <1>13, <1>14, <2>1, <2>2 DEF Request
<1>18. QED
  BY <1>15, <1>16, <1>17 DEF Next

LEMMA UnloggedHolds == Spec => []UnloggedInv
<1>1. Init => UnloggedInv
  <2> SUFFICES ASSUME Init
               PROVE  UnloggedInv
    OBVIOUS
  <2>1. /\ pc = "task" /\ trace # "open" /\ laneOn /\ deliveryOn /\ cached = Nothing /\ noted = 0
        /\ Deliveries = {}
    BY NoDeliveryYet DEF Init
  <2>2. QED
    BY <2>1, FS_EmptySet DEF UnloggedInv, Unopened, Numbered
<1>2. UnloggedInv /\ TrailInv /\ IntervalInv /\ [Next]_vars => UnloggedInv'
  <2> SUFFICES ASSUME UnloggedInv, TrailInv, IntervalInv, [Next]_vars
               PROVE  UnloggedInv'
    OBVIOUS
  <2>1. IsFiniteSet(Deliveries)' /\ Unopened' /\ Numbered'
    BY DeliveriesFinite, UnopenedStep, NumberedStep DEF UnloggedInv, TrailInv
  <2>2. QED
    BY <2>1, UnloggedStep DEF UnloggedInv
<1>3. QED
  BY <1>1, <1>2, TrailHolds, IntervalHolds, PTL DEF Spec

\* In a session that opened, a placed block whose delivery is not on the trajectory
\* leaves memory.json a record (note_undelivered_recall, _recall_rendered).
THEOREM MissingDeliveriesAreLogged == Spec => []MissingDeliveryIsLogged
<1>1. UnloggedInv /\ TrailInv => MissingDeliveryIsLogged
  <2> SUFFICES ASSUME UnloggedInv, TrailInv, trace = "open", Missing, logged = {}
               PROVE  FALSE
    BY DEF MissingDeliveryIsLogged
  <2>1. Awaited = 0 /\ Unlogged
    BY DEF Missing, Settled, Awaited, UnloggedInv
  <2>2. Cardinality(Deliveries) \in Nat /\ noted \in Nat
    BY FS_CardinalityType DEF UnloggedInv, TrailInv, TraceTypeOK
  <2>3. Cardinality(Deliveries) = noted
    BY <2>1, <2>2 DEF Unlogged
  <2>4. QED
    BY <2>2, <2>3 DEF Missing
<1>2. QED
  BY <1>1, UnloggedHolds, TrailHolds, PTL
=============================================================================

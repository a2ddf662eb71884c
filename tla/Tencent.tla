------------------------------ MODULE Tencent ------------------------------
(***************************************************************************)
(* Episodes of the TencentDB integration (tencentdb_bridge/backend.py), one*)
(* after another over one gateway, beside one add of the memory endpoint   *)
(* (tencentdb_bridge/endpoint.py).  The episodes are of one repository.    *)
(*                                                                         *)
(* The gateway is external, and as client and backend describe it: an      *)
(* add persists its messages and, if one of them is a user's, either       *)
(* queues an extraction task of its session or arms the session's idle     *)
(* timer; a task consumes CycleRows messages, and chains or leaves its     *)
(* tail to the timer; the status tells of queued tasks and never of        *)
(* timers; a merge replaces a row of the same task_id by one with a fresh  *)
(* id.  Time counts the moments the windows tell apart.                    *)
(***************************************************************************)
EXTENDS HostedArm

CONSTANTS
    ChunkMessages,   \* ADD_CHUNK_MESSAGES
    CycleRows,       \* messages one task of the gateway consumes
    PageLimit,       \* QUERY_PAGE_LIMIT
    MaxEpisodes,     \* bound: episodes of the run
    MaxRows          \* bound: rows ever stored

ASSUME TencentAssumption ==
    /\ ChunkMessages \in Nat \ {0} /\ CycleRows \in Nat \ {0} /\ PageLimit \in Nat \ {0}
    /\ CycleRows <= ChunkMessages    \* an add of no more than a cycle is one POST
    /\ MaxEpisodes \in Nat /\ MaxRows \in Nat

VARIABLES
    \* the gateway
    backlog,     \* messages of each session its tasks have not consumed
    queued,      \* sessions with a task queued or running
    armed,       \* sessions with the idle timer armed
    unheard,     \* sessions with an add that had no user round: it notified nobody
    rows,        \* L1: session, version, moment, whether it is live; by id
    \* the backend
    now,
    episode,     \* the current session
    sent,        \* messages of the buffer whose chunks the gateway confirmed
    added,       \* _added
    watermark,   \* _watermark (0: None)
    due,         \* timers armed when the idle wait began
    offset, gathered,   \* the query under way
    counted,     \* _counted
    count,       \* memories_added + memories_updated
    windows,     \* _windows: session, start, end (0: open), in the order opened
    sidecar,     \* the records of episodes.jsonl
    \* what the properties speak about
    seen,        \* rows a finished query of this episode has shown
    gaveUp,      \* has an episode ended without its final drain, in this run?
    whole,       \* did the last episode's final extraction succeed?
    \* the endpoint
    epc,
    esize,       \* messages of the add
    eleft,       \* those not sent yet
    eheard,      \* has a chunk of it carried a user round?
    edue         \* timers armed when its idle wait began

gateway  == <<backlog, queued, armed, unheard, rows>>
delivery == <<sent, added, watermark, due>>
query    == <<offset, gathered, counted, count, seen>>
clock    == <<now, windows, sidecar>>
outcome  == <<gaveUp, whole>>
endpoint == <<epc, esize, eleft, eheard, edue>>
tencentVars == <<gateway, episode, delivery, query, clock, outcome, endpoint>>

Tag      == MaxEpisodes + 1    \* the session the endpoint mints
Sessions == 1..Tag
Unknown  == 0                  \* _UNKNOWN_ORIGIN

TencentInit ==
    /\ backlog = [s \in Sessions |-> 0] /\ queued = {} /\ armed = {} /\ unheard = {} /\ rows = <<>>
    /\ now = 0 /\ episode = 0 /\ sent = 0 /\ added = FALSE /\ watermark = 0 /\ due = {}
    /\ offset = 0 /\ gathered = {} /\ counted = {} /\ count = 0 /\ seen = {}
    /\ windows = <<>> /\ sidecar = <<>>
    /\ gaveUp = FALSE /\ whole = FALSE
    /\ epc = "idle" /\ esize = 0 /\ eleft = 0 /\ eheard = FALSE /\ edue = {}

-----------------------------------------------------------------------------
(* The gateway.                                                            *)

\* A user round queues the session's task or arms its timer: the first of a session
\* always queues, and so does one that fills a cycle (in a conversation that alternates
\* it has reached everyNConversations).
Notifies(s, n, queues) ==
    IF queues \/ s \in queued \/ backlog[s] + n >= CycleRows
    THEN queued' = queued \cup {s} /\ UNCHANGED armed
    ELSE armed' = armed \cup {s} /\ UNCHANGED queued

Persists(s, n, queues, round) ==
    /\ backlog' = [backlog EXCEPT ![s] = @ + n]
    /\ \/ round /\ Notifies(s, n, queues) /\ UNCHANGED unheard
       \/ ~round /\ unheard' = unheard \cup {s} /\ UNCHANGED <<queued, armed>>

LiveIds == {i \in DOMAIN rows : rows[i].live}
NewRow(s, version) == [of |-> s, version |-> version, at |-> now, live |-> TRUE]

Extracts(s) ==
    \/ UNCHANGED rows
    \/ Len(rows) < MaxRows /\ rows' = Append(rows, NewRow(s, 0))
    \/ \E i \in LiveIds : Len(rows) < MaxRows /\ ((rows[i].of = Tag) <=> (s = Tag))
         /\ rows' = Append([rows EXCEPT ![i].live = FALSE], NewRow(s, rows[i].version + 1))

L1Task(s) ==
    /\ s \in queued
    /\ LET left == IF backlog[s] > CycleRows THEN backlog[s] - CycleRows ELSE 0
       IN  /\ backlog' = [backlog EXCEPT ![s] = left]
           /\ queued' = IF left < CycleRows THEN queued \ {s} ELSE queued
           /\ armed' = IF left \in 1..(CycleRows - 1) THEN armed \cup {s} ELSE armed \ {s}
    /\ Extracts(s)
    /\ UNCHANGED <<armVars, unheard, episode, delivery, query, clock, outcome, endpoint>>

TimerFires(s) ==
    /\ s \in armed
    /\ armed' = armed \ {s} /\ queued' = queued \cup {s}
    /\ due' = due \ {s} /\ edue' = edue \ {s}
    /\ UNCHANGED <<armVars, backlog, unheard, rows, episode, sent, added, watermark, query, clock, outcome,
                   epc, esize, eleft, eheard>>

-----------------------------------------------------------------------------
(* Episode windows.                                                        *)

Recorded(event, s) == [event |-> event, of |-> s, at |-> now']
Opens(s, at) == [of |-> s, start |-> at, end |-> 0]

Closes(ws, s, at) ==    \* the newest window of the session
    LET I == {i \in DOMAIN ws : ws[i].of = s}
    IN  IF I = {} THEN ws ELSE [ws EXCEPT ![CHOOSE i \in I : \A j \in I : j <= i].end = at]

Replayed(ws, r) == IF r.event = "start" THEN Append(ws, Opens(r.of, r.at)) ELSE Closes(ws, r.of, r.at)

LoadWindows ==
    LET loaded[n \in 0..Len(sidecar)] == IF n = 0 THEN <<>> ELSE Replayed(loaded[n - 1], sidecar[n])
    IN  loaded[Len(sidecar)]

Spans(w, at) == w.start <= at /\ (w.end = 0 \/ at < w.end)

OriginSession(at) ==
    LET I == {i \in DOMAIN windows : Spans(windows[i], at)}
    IN  IF I = {} THEN Unknown ELSE windows[CHOOSE i \in I : \A j \in I : j <= i].of

\* A record that cannot be written is logged and missing.
AppendSidecar(record) == sidecar' = sidecar \/ sidecar' = Append(sidecar, record)

StartEpisode ==
    /\ pc \in {"down", "closed"} /\ episode < MaxEpisodes /\ pc' = "idle"
    /\ episode' = episode + 1 /\ now' = now + 1
    /\ final' = FALSE /\ recorded' = 0 /\ pending' = <<>> /\ fed' = None /\ doubt' = None
    /\ sent' = 0 /\ added' = FALSE /\ watermark' = 0 /\ due' = {}
    /\ offset' = 0 /\ gathered' = {} /\ counted' = {} /\ count' = 0 /\ seen' = {}
    /\ windows' = Append(LoadWindows, Opens(episode', now'))
    /\ AppendSidecar(Recorded("start", episode'))
    /\ whole' = FALSE
    /\ UNCHANGED <<gateway, gaveUp, endpoint>>

Crash ==    \* between any two steps; nothing but the sidecar survives
    /\ pc \notin {"down", "closed"} /\ pc' = "down"
    /\ gaveUp' = TRUE
    /\ UNCHANGED <<final, recorded, pending, fed, doubt, gateway, episode, delivery, query, clock, whole, endpoint>>

\* Once per window; a final tick that failed has its window closed as well.
RecordDrain ==
    LET open == \E i \in DOMAIN windows : windows[i].of = episode /\ windows[i].end = 0
    IN  IF open THEN /\ now' = now + 1
                     /\ AppendSidecar(Recorded("drain", episode))
                     /\ windows' = Closes(windows, episode, now')
                ELSE UNCHANGED clock

-----------------------------------------------------------------------------
(* _perform_extraction                                                     *)

NothingToFlush ==
    /\ pc = "idle" /\ pending = <<>> /\ ~added
    /\ pc' = "closed" /\ RecordDrain
    /\ whole' = TRUE
    /\ UNCHANGED <<final, recorded, pending, fed, doubt, gateway, episode, delivery, query, gaveUp, endpoint>>

BeginExtraction(isFinal) ==
    /\ pc = "idle" /\ (pending # <<>> \/ (isFinal /\ added))
    /\ final' = isFinal
    /\ pc' = IF pending # <<>> THEN "send" ELSE "drain"
    /\ IF pending # <<>> /\ watermark = 0
       THEN now' = now + 1 /\ watermark' = now' ELSE UNCHANGED <<now, watermark>>
    /\ UNCHANGED <<recorded, pending, fed, doubt, gateway, episode, sent, added, due, query, windows, sidecar, outcome, endpoint>>

Chunk == SubSeq(pending, sent + 1, IF sent + ChunkMessages < Len(pending) THEN sent + ChunkMessages ELSE Len(pending))

\* The first message of an episode is a user's for the gateway: roles other than the
\* assistant's are folded to it.
ChunkPersists(queues, round) ==
    /\ 1 \in Range(Chunk) => round
    /\ Persists(episode, Len(Chunk), queues \/ (\A m \in Message : fed[m] = 0), round)
    /\ fed' = Also(fed, Chunk)
    /\ UNCHANGED rows

\* Mutant: the buffer outlives the add, until the extraction has succeeded.
KeepsUntilDrained == pending

AfterAdd == <<>>    \* _pending.clear() right after the add returned

SendChunk(queues, round) ==
    /\ pc = "send" /\ ChunkPersists(queues, round)
    /\ IF sent + Len(Chunk) < Len(pending)
       THEN sent' = sent + Len(Chunk) /\ UNCHANGED <<pc, pending, added>>
       ELSE sent' = 0 /\ pc' = "drain" /\ pending' = AfterAdd /\ added' = TRUE
    /\ UNCHANGED <<final, recorded, doubt, episode, watermark, due, query, clock, outcome, endpoint>>

\* The chunk was refused, or persisted and its answer lost: the confirmed prefix goes.
SendFails(queues, round) ==
    /\ pc = "send" /\ pc' = "raise"
    /\ ChunkPersists(queues, round) \/ UNCHANGED <<gateway, fed>>
    /\ doubt' = Also(doubt, Chunk)
    /\ pending' = SubSeq(pending, sent + 1, Len(pending)) /\ sent' = 0
    /\ UNCHANGED <<final, recorded, episode, added, watermark, due, query, clock, outcome, endpoint>>

\* One poll of wait_l1_idle found no task queued or running.
DrainIdle ==
    /\ pc = "drain" /\ queued = {}
    /\ IF final THEN pc' = "wait" /\ due' = armed ELSE pc' = "resolve" /\ UNCHANGED due
    /\ UNCHANGED <<final, recorded, pending, fed, doubt, gateway, episode, sent, added, watermark, query, clock, outcome, endpoint>>

\* Mutant: the idle timers are not waited for.
NoWait == TRUE

TimersFired == due = {}    \* l1_idle_timeout and its margin are over

IdleWait ==
    /\ pc = "wait" /\ TimersFired /\ pc' = "tail"
    /\ UNCHANGED <<final, recorded, pending, fed, doubt, tencentVars>>

TailIdle ==
    /\ pc = "tail" /\ queued = {} /\ pc' = "resolve"
    /\ RecordDrain
    /\ UNCHANGED <<final, recorded, pending, fed, doubt, gateway, episode, delivery, query, outcome, endpoint>>

DrainTimesOut ==    \* tasks still chain, or no poll was answered
    /\ pc \in {"drain", "tail"} /\ pc' = "raise"
    /\ UNCHANGED <<final, recorded, pending, fed, doubt, tencentVars>>

Produced == {i \in LiveIds : watermark # 0 /\ rows[i].at >= watermark /\ rows[i].of # Tag}

\* atomic/query: one page, newest first.
Page == {i \in Produced : Cardinality({j \in Produced : j > i}) \in offset..(offset + PageLimit - 1)}

Uncounted(i) == <<i, rows[i].version>> \notin counted

ResolvePage ==
    /\ pc = "resolve"
    /\ LET found == gathered \cup Page
           fresh == {i \in found : Uncounted(i)}
       IN  IF offset + Cardinality(Page) < Cardinality(Produced)
           THEN /\ offset' = offset + Cardinality(Page) /\ gathered' = found
                /\ UNCHANGED <<pc, counted, count, seen, whole>>
           ELSE /\ pc' = Resume
                /\ counted' = counted \cup {<<i, rows[i].version>> : i \in fresh}
                /\ count' = count + Cardinality(fresh)
                /\ seen' = seen \cup found
                /\ offset' = 0 /\ gathered' = {}
                /\ whole' = final
    /\ UNCHANGED <<final, recorded, pending, fed, doubt, gateway, episode, delivery, clock, gaveUp, endpoint>>

ResolveFails ==
    /\ pc = "resolve" /\ pc' = "raise"
    /\ offset' = 0 /\ gathered' = {}
    /\ UNCHANGED <<final, recorded, pending, fed, doubt, gateway, episode, delivery, counted, count, seen, clock, outcome, endpoint>>

ExtractionRaises ==
    /\ pc = "raise" /\ pc' = Resume
    /\ IF final THEN RecordDrain /\ gaveUp' = TRUE ELSE UNCHANGED <<clock, gaveUp>>
    /\ UNCHANGED <<final, recorded, pending, fed, doubt, gateway, episode, delivery, query, whole, endpoint>>

-----------------------------------------------------------------------------
(* The endpoint's add: a session of its own, sent chunk by chunk.          *)

EndpointAdds(n) ==
    /\ epc = "idle" /\ epc' = "send"
    /\ esize' = n /\ eleft' = n /\ eheard' = FALSE
    /\ UNCHANGED <<armVars, gateway, episode, delivery, query, clock, outcome, edue>>

EndpointChunk == IF eleft < ChunkMessages THEN eleft ELSE ChunkMessages

\* Somewhere in the add there is a user round: one without any is answered 400.
EndpointPersists(queues, round) ==
    /\ round \/ eheard \/ EndpointChunk < eleft
    /\ Persists(Tag, EndpointChunk, queues \/ ~eheard, round)
    /\ UNCHANGED rows

EndpointSends(queues, round) ==
    /\ epc = "send" /\ EndpointPersists(queues, round)
    /\ eleft' = eleft - EndpointChunk /\ eheard' = (eheard \/ round)
    /\ epc' = IF EndpointChunk < eleft THEN "send" ELSE "drain"
    /\ UNCHANGED <<armVars, episode, delivery, query, clock, outcome, esize, edue>>

\* The chunk was refused, or persisted and its answer lost; those before it stay.
EndpointSendFails(queues, round) ==
    /\ epc = "send" /\ epc' = "500"
    /\ EndpointPersists(queues, round) \/ UNCHANGED gateway
    /\ eleft' = 0
    /\ UNCHANGED <<armVars, episode, delivery, query, clock, outcome, esize, eheard, edue>>

\* Mutant: an add of any size is done when the status is idle.
NeverATail == FALSE

MayLeaveTail == esize > CycleRows

EndpointDrain ==
    /\ epc = "drain" /\ queued = {}
    /\ IF MayLeaveTail THEN epc' = "wait" /\ edue' = armed ELSE epc' = "resolve" /\ UNCHANGED edue
    /\ UNCHANGED <<armVars, gateway, episode, delivery, query, clock, outcome, esize, eleft, eheard>>

EndpointWait ==
    /\ epc = "wait" /\ edue = {} /\ epc' = "tail"
    /\ UNCHANGED <<armVars, gateway, episode, delivery, query, clock, outcome, esize, eleft, eheard, edue>>

EndpointTail ==
    /\ epc = "tail" /\ queued = {} /\ epc' = "resolve"
    /\ UNCHANGED <<armVars, gateway, episode, delivery, query, clock, outcome, esize, eleft, eheard, edue>>

EndpointAnswers ==
    /\ epc = "resolve" /\ epc' = "ok"
    /\ UNCHANGED <<armVars, gateway, episode, delivery, query, clock, outcome, esize, eleft, eheard, edue>>

EndpointFails ==
    /\ epc \in {"drain", "tail", "resolve"} /\ epc' = "500"
    /\ UNCHANGED <<armVars, gateway, episode, delivery, query, clock, outcome, esize, eleft, eheard, edue>>

TencentNext ==
    \/ \E s \in Sessions : L1Task(s) \/ TimerFires(s)
    \/ StartEpisode \/ Crash
    \/ RecordMessage /\ UNCHANGED tencentVars
    \/ NothingToFlush
    \/ \E isFinal \in BOOLEAN : BeginExtraction(isFinal)
    \/ \E queues, round \in BOOLEAN : SendChunk(queues, round) \/ SendFails(queues, round)
    \/ DrainIdle \/ IdleWait \/ TailIdle \/ DrainTimesOut
    \/ ResolvePage \/ ResolveFails \/ ExtractionRaises
    \/ \E n \in 1..(CycleRows + 1) : EndpointAdds(n)
    \/ \E queues, round \in BOOLEAN : EndpointSends(queues, round) \/ EndpointSendFails(queues, round)
    \/ EndpointDrain \/ EndpointWait \/ EndpointTail \/ EndpointAnswers \/ EndpointFails

TencentSpec == pc = "down" /\ ArmInit /\ TencentInit /\ [][TencentNext]_<<armVars, tencentVars>>

-----------------------------------------------------------------------------
\* Episodes whose window was never seen to end.
Unclosed == {windows[j].of : j \in {k \in DOMAIN windows : windows[k].end = 0}}

(* While every add carried a user round, an episode whose final extraction *)
(* succeeded has nothing left in the gateway: its queries have shown every *)
(* row it produced, each counted once and each its own for the windows.    *)
(* While every episode before it drained too, it has counted no row of     *)
(* theirs, and every row belongs to its episode for the windows, or, where *)
(* the start record of that is lost, to none or to an episode whose drain  *)
(* record is lost as well (tencentdb_bridge/backend.py:220-225, 415-418,   *)
(* 699-721, 811-836).                                                      *)
DrainedEpisodeIsWhole ==
    pc = "closed" /\ whole /\ unheard \subseteq {Tag} =>
        LET own == {i \in LiveIds : rows[i].of = episode}
        IN  /\ backlog[episode] = 0 /\ episode \notin queued \cup armed
            /\ own \subseteq seen
            /\ count = Cardinality(seen)
            /\ \A i \in own : OriginSession(rows[i].at) = episode
            /\ ~gaveUp =>
                 /\ \A i \in seen : rows[i].of = episode
                 /\ \A i \in DOMAIN rows : rows[i].of # Tag =>
                      IF \E j \in DOMAIN windows : windows[j].of = rows[i].of
                      THEN OriginSession(rows[i].at) = rows[i].of
                      ELSE OriginSession(rows[i].at) \in {Unknown} \cup Unclosed

(* An endpoint add that answers success, and each chunk of which carried a *)
(* user round, has been extracted to the last message, the tail behind the *)
(* idle timer included (tencentdb_bridge/endpoint.py:206-221).             *)
EndpointAddIsSearchable ==
    epc = "ok" /\ Tag \notin unheard => backlog[Tag] = 0 /\ Tag \notin queued \cup armed
=============================================================================

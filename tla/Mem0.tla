-------------------------------- MODULE Mem0 --------------------------------
(***************************************************************************)
(* One episode of the mem0 integration (mem0_bridge/backend.py) over a     *)
(* hosted store (mem0_bridge/client.py, stores/), beside a memory endpoint *)
(* (mem0_bridge/endpoint.py) on the same store.                            *)
(*                                                                         *)
(* The engine may process an add within its request or as an event of its  *)
(* own that lands at any later time, after the caller gave up included.    *)
(* What it writes is external: any adds, updates and deletions of the      *)
(* user's memories, with receipts that tell the truth, tell of writes that *)
(* never were, or leave writes out.                                        *)
(***************************************************************************)
EXTENDS HostedArm, SequencesExt

CONSTANTS
    User, Me,      \* the users of the store; effective_user_id of the episode
    Text,
    Gone,          \* the text of a memory deleted for good
    ListingCap,    \* a listing this long may not be all of the scope
    MaxMemories,   \* bound: memories ever stored
    MaxActs        \* bound: the memories one add writes

ASSUME Mem0Assumption ==
    /\ Me \in User /\ Gone \notin Text
    /\ ListingCap \in Nat /\ MaxMemories \in Nat /\ MaxActs \in Nat

VARIABLES
    memories,    \* by id: owner and text
    late,        \* batches of adds that raised and that the engine may yet take in
    job,         \* the add under way, for the engine: status, receipts, their truth
    before,      \* the audit's first snapshot
    disturbed,   \* did anything but this add write to the user's memories since?
    audit,       \* the verdict ("unknown", "clean" or "drift") and the second snapshot
    request      \* the endpoint request whose ownership check passed

mem0Vars == <<memories, late, job, before, disturbed, audit, request>>

NoRequest == [id |-> 0, user |-> Me]
Id == 1..MaxMemories
Untraced == [known |-> FALSE, rows |-> <<>>]
NoAudit  == [verdict |-> "none", after |-> Untraced]
Job(status, receipts, true) == [status |-> status, receipts |-> receipts, true |-> true]
NoJob    == Job("none", <<>>, TRUE)

Has(user, table, id) == id \in DOMAIN table /\ table[id].user = user /\ table[id].text # Gone
Alive(id, user) == Has(user, memories, id)
Scope == [id \in {i \in Id : Alive(i, Me)} |-> memories[id].text]

Mem0Init ==
    /\ memories = <<>> /\ late = <<>> /\ job = NoJob
    /\ before = Untraced /\ disturbed = FALSE /\ audit = NoAudit
    /\ request = NoRequest

-----------------------------------------------------------------------------
(* The engine.                                                             *)

Act(event, id, text) == [event |-> event, id |-> id, text |-> text]

\* Engine-minted ids: an add takes a new one, nothing re-adds a deleted one.
Acts(user, table) ==
    {Act("ADD", Len(table) + 1, t) : t \in IF Len(table) < MaxMemories THEN Text ELSE {}}
    \cup {Act("UPDATE", i, t) : i \in {j \in DOMAIN table : Has(user, table, j)}, t \in Text}
    \cup {Act("DELETE", i, Gone) : i \in {j \in DOMAIN table : Has(user, table, j)}}

Done(user, table, a) ==
    IF a.event = "ADD" THEN Append(table, [user |-> user, text |-> a.text])
                       ELSE [table EXCEPT ![a.id].text = a.text]

\* The series of acts of one add, each with the table it leaves.
SeriesOf(user) ==
    LET s[n \in 0..MaxActs] ==
            IF n = 0 THEN {[acts |-> <<>>, table |-> memories]}
            ELSE s[n - 1] \cup UNION {{[acts |-> Append(r.acts, a), table |-> Done(user, r.table, a)] : a \in Acts(user, r.table)}
                                        : r \in {q \in s[n - 1] : Len(q.acts) = n - 1}}
    IN s[MaxActs]
Series == SeriesOf(Me)

(* The engine takes the batch in: truthful, silent (receipts over an empty *)
(* write) or untold (writes without a receipt).                            *)
Processes(series, telling) ==
    /\ telling # "truth" => series.acts # <<>>
    /\ memories' = IF telling = "silent" THEN memories ELSE series.table

Receipts(series, telling) == IF telling = "untold" THEN <<>> ELSE series.acts

Outcome(series, telling) == Job("SUCCEEDED", Receipts(series, telling), telling = "truth")

JobLands(series, telling) ==
    /\ job.status = "PENDING"
    /\ Processes(series, telling)
    /\ job' = Outcome(series, telling)
    /\ fed' = Also(fed, pending)
    /\ UNCHANGED <<pc, final, recorded, pending, doubt, late, before, disturbed, audit, request>>

JobFails ==
    /\ job.status = "PENDING" /\ job' = Job("FAILED", <<>>, TRUE)
    /\ UNCHANGED <<armVars, memories, late, before, disturbed, audit, request>>

LateJobLands(j, series) ==
    /\ j \in DOMAIN late
    /\ Processes(series, "truth")
    /\ fed' = Also(fed, late[j]) /\ late' = RemoveAt(late, j)
    /\ disturbed' = (disturbed \/ memories' # memories)
    /\ UNCHANGED <<pc, final, recorded, pending, doubt, job, before, audit, request>>

LateJobFails(j) ==
    /\ j \in DOMAIN late /\ late' = RemoveAt(late, j)
    /\ UNCHANGED <<armVars, memories, job, before, disturbed, audit, request>>

-----------------------------------------------------------------------------
(* The audit of one extraction.                                            *)

\* A failed listing, an untraced run and a full page all leave no snapshot.
Snapshots == {Untraced} \cup
    IF Cardinality(DOMAIN Scope) >= ListingCap THEN {} ELSE {[known |-> TRUE, rows |-> Scope]}

ActionOf == [ADD |-> "create", UPDATE |-> "update", DELETE |-> "delete"]
Claimed(receipts, id) == {ActionOf[receipts[i].event] : i \in {k \in DOMAIN receipts : receipts[k].id = id}}

Observed(b, a, id) ==
    CASE id \notin DOMAIN b /\ id \in DOMAIN a -> {"create"}
      [] id \in DOMAIN b /\ id \notin DOMAIN a -> {"delete"}
      [] id \in DOMAIN b /\ id \in DOMAIN a /\ a[id] # b[id] -> {"update"}
      [] OTHER -> {}

\* Mutant: every claimed row has to be there, deleted ones too.
NetIgnoresDeletes(claims, present) == claims # {} /\ ~present

NotReflected(claims, present) == claims # {} /\ (("delete" \in claims) = present)

Unexplained(receipts, b, a) ==
    {id \in Id : ~(Observed(b, a, id) \subseteq Claimed(receipts, id))
                 \/ NotReflected(Claimed(receipts, id), id \in DOMAIN a)}

Verdict(receipts, after) ==
    IF ~before.known \/ ~after.known THEN "unknown"
    ELSE IF Unexplained(receipts, before.rows, after.rows) = {} THEN "clean" ELSE "drift"

-----------------------------------------------------------------------------
(* _perform_extraction                                                     *)

BeginAdd(isFinal, snapshot) ==
    /\ pc = "idle" /\ pending # <<>> /\ pc' = "post"
    /\ final' = isFinal
    /\ before' = snapshot /\ disturbed' = FALSE
    /\ UNCHANGED <<recorded, pending, fed, doubt, memories, late, job, audit, request>>

NothingPending ==
    /\ pc = "idle" /\ pending = <<>> /\ pc' = "closed"
    /\ UNCHANGED <<final, recorded, pending, fed, doubt, mem0Vars>>

\* An error status, a dead transport or an answer with neither results nor an event (of
\* the server: without results): the engine may have accepted the add all the same.
PostRaises ==
    /\ pc = "post" /\ pc' = "raise"
    /\ job' \in {NoJob, Job("PENDING", <<>>, TRUE)}
    /\ UNCHANGED <<final, recorded, pending, fed, doubt, memories, late, before, disturbed, audit, request>>

PostQueues ==
    /\ pc = "post" /\ pc' = "poll"
    /\ job' = Job("PENDING", <<>>, TRUE)
    /\ UNCHANGED <<final, recorded, pending, fed, doubt, memories, late, before, disturbed, audit, request>>

PostAnswers(series, telling) ==
    /\ pc = "post" /\ pc' = "finish"
    /\ Processes(series, telling)
    /\ job' = Outcome(series, telling)
    /\ fed' = Also(fed, pending)
    /\ UNCHANGED <<final, recorded, pending, doubt, late, before, disturbed, audit, request>>

PollAnswers ==
    /\ pc = "poll" /\ job.status = "SUCCEEDED" /\ pc' = "finish"
    /\ UNCHANGED <<final, recorded, pending, fed, doubt, mem0Vars>>

(* The poll raises: the event failed, succeeded with a payload of no known *)
(* shape, is pending past the deadline, or the request itself failed.      *)
PollRaises ==
    /\ pc = "poll" /\ pc' = "raise"
    /\ UNCHANGED <<final, recorded, pending, fed, doubt, mem0Vars>>

\* Mutant: a failed add drops its batch.
DropsOnFailure == <<>>

AfterFailure == pending    \* the buffer is retained across failures

(* The report of an add that raised is the observed diff between two       *)
(* snapshots, marked partial; nothing is kept of it, and it is left out.   *)
FinishException ==
    /\ pc = "raise" /\ pc' = Resume
    /\ pending' = AfterFailure
    /\ doubt' = Also(doubt, pending)
    /\ late' = IF job.status = "PENDING" THEN Append(late, pending) ELSE late
    /\ job' = NoJob /\ before' = Untraced /\ disturbed' = FALSE
    /\ UNCHANGED <<final, recorded, fed, memories, audit, request>>

Finish(after) ==    \* a success clears the buffer; then the audit
    /\ pc = "finish" /\ pc' = "report"
    /\ pending' = <<>>
    /\ audit' = [verdict |-> Verdict(job.receipts, after), after |-> after]
    /\ UNCHANGED <<final, recorded, fed, doubt, memories, late, job, before, disturbed, request>>

Report ==    \* the change events and the operation's end are posted
    /\ pc = "report" /\ pc' = Resume
    /\ job' = NoJob /\ before' = Untraced /\ disturbed' = FALSE /\ audit' = NoAudit
    /\ UNCHANGED <<final, recorded, pending, fed, doubt, memories, late, request>>

-----------------------------------------------------------------------------
(* The endpoint: an add is an engine call of its own, an update or a       *)
(* deletion reads the memory first and writes by its id, which is global   *)
(* to the store.                                                           *)

Touches(id) == disturbed' = (disturbed \/ (id \in DOMAIN memories' /\ memories'[id].user = Me))

(* The engine takes in an add of the endpoint, an inferring one or a plain *)
(* one.  The endpoint keeps nothing, so this is an answered add as well as *)
(* one answered with 500 that lands all the same, at once or late; one     *)
(* that never lands changes nothing.                                       *)
EndpointAdd(user, series) ==
    /\ memories' = series.table
    /\ disturbed' = (disturbed \/ (user = Me /\ memories' # memories))
    /\ UNCHANGED <<armVars, late, job, before, audit, request>>

\* Mutant: any memory that exists will do.
ScopedToAny(id, user) == id \in DOMAIN memories /\ memories[id].text # Gone

Scoped(id, user) == Alive(id, user)    \* 404 otherwise

EndpointCheck(id, user) ==
    /\ request = NoRequest /\ Scoped(id, user)
    /\ request' = [id |-> id, user |-> user]
    /\ UNCHANGED <<armVars, memories, late, job, before, disturbed, audit>>

EndpointWrite(text) ==    \* text = Gone: delete; the engine answers 404 for a deleted id
    /\ request # NoRequest /\ request' = NoRequest
    /\ memories' = IF memories[request.id].text = Gone THEN memories ELSE [memories EXCEPT ![request.id].text = text]
    /\ Touches(request.id)
    /\ UNCHANGED <<armVars, late, job, before, audit>>

Telling == {"truth", "silent", "untold"}

Mem0Next ==
    \/ RecordMessage /\ UNCHANGED mem0Vars
    \/ \E isFinal \in BOOLEAN, s \in Snapshots : BeginAdd(isFinal, s)
    \/ NothingPending \/ PostRaises \/ PostQueues \/ PollAnswers \/ PollRaises \/ FinishException
    \/ \E r \in Series, t \in Telling : PostAnswers(r, t)
    \/ \E s \in Snapshots : Finish(s)
    \/ Report \/ JobFails
    \/ \E r \in Series, t \in Telling : JobLands(r, t)
    \/ \E j \in DOMAIN late : LateJobFails(j) \/ \E r \in Series : LateJobLands(j, r)
    \/ \E u \in User : \E r \in SeriesOf(u) : EndpointAdd(u, r)
    \/ \E i \in Id, u \in User : EndpointCheck(i, u)
    \/ \E t \in Text \cup {Gone} : EndpointWrite(t)

Mem0Spec == pc = "idle" /\ ArmInit /\ Mem0Init /\ [][Mem0Next]_<<armVars, mem0Vars>>

-----------------------------------------------------------------------------
(* The receipt audit accuses nobody falsely and clears nobody falsely:     *)
(* with truthful receipts and no other writer it finds no drift, and when  *)
(* it finds none, the memories that came, went and changed between its two *)
(* snapshots are those the receipts claim, net of deletions                *)
(* (mem0_bridge/backend.py:372-398).                                       *)
AuditIsHonest ==
    LET Ids(event) == {job.receipts[i].id : i \in {k \in DOMAIN job.receipts : job.receipts[k].event = event}}
        b == before.rows
        a == audit.after.rows
    IN  /\ audit.verdict = "drift" => disturbed \/ ~job.true
        /\ audit.verdict = "clean" =>
             /\ DOMAIN a = (DOMAIN b \cup Ids("ADD")) \ Ids("DELETE")
             /\ \A id \in DOMAIN a \cap DOMAIN b : a[id] # b[id] => id \in Ids("UPDATE")

(* A request of the endpoint changes only memories of the user it names,   *)
(* although ids are global to the store and the check and the write are    *)
(* two calls (mem0_bridge/endpoint.py:112-123).                            *)
EndpointKeepsOwners ==
    [][\A id \in DOMAIN memories :
         request # NoRequest /\ request' = NoRequest /\ memories'[id] # memories[id]
            => memories[id].user = request.user]_<<memories, request>>
=============================================================================

----------------------------- MODULE CureSystem -----------------------------
(***************************************************************************)
(* The CURE memory system of one run (cure_memory/system.py): episodes,    *)
(* one after another, record messages and extract memories from them; the  *)
(* bridge audits every extraction (cure_memory_bridge/backend.py); a       *)
(* memory endpoint (cure_memory_bridge/endpoint.py) edits the same         *)
(* database over a connection of its own.                                  *)
(*                                                                         *)
(* A step of an extraction is one statement on the database or the call of *)
(* the language model; a failure or a crash may fall between any two.      *)
(* Live rows are never updated while they live, so "updated_at DESC, id    *)
(* DESC" is the order of the ids.  A request of the endpoint is short and  *)
(* is one step.                                                            *)
(***************************************************************************)
EXTENDS CureExtractor, SequencesExt

CONSTANTS
    MaxItems,      \* the most candidates of a decision
    CommitFaults   \* may a COMMIT fail?

ASSUME SystemAssumption == MaxItems \in Nat /\ CommitFaults \in BOOLEAN

VARIABLES
    shared,       \* may the endpoint serve requests while an extraction runs?
    pc,
    repo,         \* current_project_id
    recorded,     \* messages of the session, by number
    checkpoint,   \* _last_extracted_message_id_by_session
    upto,         \* the messages listed by the extraction under way
    before,       \* the bridge's snapshot of the visible rows
    listed,       \* existing: the rows shown to the model
    reply,        \* the model's last reply in this extraction
    deleted, candidates,   \* the decision
    done,         \* per handled candidate: its row (New: none) and what it supersedes
    held,         \* the copies an upsert has listed and is about to supersede
    outcome,      \* how the extraction ended
    elsewhere,    \* did the endpoint write during this extraction?
    evident       \* were the bridge's snapshots of this extraction read?

session  == <<repo, recorded, checkpoint>>
decision == <<deleted, candidates>>
work     == <<upto, before, listed, reply, decision, done, held, outcome>>
audited == <<elsewhere, evident>>
vars == <<storeVars, shared, pc, session, work, audited>>

Resting == {"down", "idle"}
PC == Resting \cup {"list", "ask", "delete", "deleting", "next", "begin", "saving", "audit"}

Restricted(t, ids) == [i \in ids |-> t[i]]
Newest(S) == CHOOSE i \in S : \A j \in S : j <= i

Idle ==
    /\ upto' = 0 /\ before' = <<>> /\ listed' = <<>> /\ reply' = "none"
    /\ deleted' = {} /\ candidates' = <<>> /\ done' = <<>> /\ held' = <<>>
    /\ outcome' = "none" /\ elsewhere' = FALSE /\ evident' = TRUE

Init ==
    /\ StoreInit
    /\ shared \in BOOLEAN /\ pc = "down"
    /\ repo \in Repo /\ recorded = 0 /\ checkpoint = 0
    /\ upto = 0 /\ before = <<>> /\ listed = <<>> /\ reply = "none"
    /\ deleted = {} /\ candidates = <<>> /\ done = <<>> /\ held = <<>>
    /\ outcome = "none" /\ elsewhere = FALSE /\ evident = TRUE

-----------------------------------------------------------------------------
(* Sessions and messages.                                                  *)

\* Mutant: the checkpoint is one per system, not one per session.
OpenKeepsCheckpoint(r) ==
    /\ pc = "down" /\ pc' = "idle"
    /\ repo' = r /\ recorded' = 0
    /\ UNCHANGED <<storeVars, shared, checkpoint, work, audited>>

OpenEpisode(r) ==    \* a new system over the database, a new session id
    /\ pc = "down" /\ pc' = "idle"
    /\ repo' = r /\ recorded' = 0 /\ checkpoint' = 0
    /\ UNCHANGED <<storeVars, shared, work, audited>>

CloseEpisode ==      \* close() or the end of the process, whatever it was doing
    /\ pc # "down" /\ pc' = "down"
    /\ RollBack /\ Idle
    /\ UNCHANGED <<shared, session>>

RecordMessage ==
    /\ pc = "idle" /\ LoneWrite
    /\ recorded' = recorded + 1
    /\ UNCHANGED <<shared, pc, repo, checkpoint, work, audited>>

RecordFails ==       \* counted by the lifecycle shell, the message is skipped
    /\ pc = "idle"
    /\ LoneWriteFails \/ (CommitFaults /\ CommitFails)
    /\ UNCHANGED <<shared, pc, session, work, audited>>

-----------------------------------------------------------------------------
(* extract_runtime_memories, between the bridge's two snapshots.           *)

Snapshot ==          \* a failed snapshot is None: the extraction goes on without it
    /\ pc = "idle" /\ pc' = "list"
    /\ recorded > checkpoint
    /\ evident' \in BOOLEAN
    /\ before' = IF evident' THEN Restricted(view, Visible(view, repo)) ELSE <<>>
    /\ UNCHANGED <<storeVars, shared, session, upto, listed, reply, decision, done, held, outcome, elsewhere>>

List ==
    /\ pc = "list" /\ pc' = "ask"
    /\ upto' = recorded
    /\ listed' = Restricted(view, Visible(view, repo))
    /\ UNCHANGED <<storeVars, shared, session, before, reply, decision, done, held, outcome, audited>>

NothingToAsk ==      \* every message is blank or sensitive: no call, an empty decision
    /\ pc = "ask" /\ pc' = "delete"
    /\ listed' = <<>>
    /\ UNCHANGED <<storeVars, shared, session, upto, before, reply, decision, done, held, outcome, audited>>

AskFails(run) ==
    /\ pc = "ask" /\ pc' = "audit"
    /\ LastError(run)
    /\ reply' = Last(run) /\ outcome' = "errors"
    /\ listed' = <<>>
    /\ UNCHANGED <<storeVars, shared, session, upto, before, decision, done, held, audited>>

Decide(targets, items) ==    \* each deletion names a scope and a key
    /\ pc = "ask" /\ pc' = "delete"
    /\ \E run \in Calls : ~LastError(run) /\ reply' = Last(run)
    /\ deleted' = UNION {Matching(listed, d[1], d[2], repo) : d \in targets}
    /\ listed' = Restricted(listed, deleted')    \* result.deleted keeps those copies
    /\ candidates' = [n \in 1..Len(items) |-> MemoryOf(items[n], repo)]
    /\ UNCHANGED <<storeVars, shared, session, upto, before, done, held, outcome, audited>>

DeletionBatch ==     \* the copies were listed before the model was asked
    LET ids == SetToSeq(deleted)
    IN  [n \in 1..Len(ids) |-> [id |-> ids[n], row |-> [listed[ids[n]] EXCEPT !.status = "deleted"]]]

BeginDeletions ==
    /\ pc = "delete" /\ pc' = "deleting"
    /\ Begin(DeletionBatch)
    /\ UNCHANGED <<shared, session, work, audited>>

\* The rows an upsert of m finds active, and the first of them.
Active(t, m) ==
    {i \in Ids(t) : Live(t[i]) /\ t[i].key = m.key /\ t[i].layer \in {m.layer, General}}

NoOp(t, m) ==
    Active(t, m) # {} /\ LET first == t[Newest(Active(t, m))]
                         IN  first.value = m.value /\ first.status = m.status

\* Mutant: a repository's refinement supersedes the general rows it can see.
SupersedesGeneral(t, m) == Active(t, m)

\* Mutant: only the first active row is superseded.
SupersedesFirst(t, m) ==
    IF Active(t, m) = {} THEN {} ELSE {i \in {Newest(Active(t, m))} : t[i].layer = m.layer}

Superseded(t, m) == {i \in Active(t, m) : t[i].layer = m.layer}

UpsertNoOp ==
    /\ pc = "next" /\ Len(done) < Len(candidates)
    /\ NoOp(view, candidates[Len(done) + 1])
    /\ done' = Append(done, [id |-> New, of |-> {}])
    /\ UNCHANGED <<storeVars, shared, pc, session, upto, before, listed, reply, decision, held, outcome, audited>>

UpsertList ==
    /\ pc = "next" /\ Len(done) < Len(candidates)
    /\ ~NoOp(view, candidates[Len(done) + 1])
    /\ held' = Restricted(view, Superseded(view, candidates[Len(done) + 1]))
    /\ pc' = "begin"
    /\ UNCHANGED <<storeVars, shared, session, upto, before, listed, reply, decision, done, outcome, audited>>

UpsertUnit(m, new) ==
    LET ids == SetToSeq(DOMAIN held)
        Supersede(by) == [n \in 1..Len(ids) |->
            [id |-> ids[n], row |-> [held[ids[n]] EXCEPT !.status = "superseded", !.by = by]]]
    IN  Supersede(0) \o <<[id |-> New, row |-> [m EXCEPT !.of = DOMAIN held]]>> \o Supersede(new)

BeginUpsert ==
    /\ pc = "begin" /\ pc' = "saving"
    /\ Begin(UpsertUnit(candidates[Len(done) + 1], Len(rows) + 1))
    /\ done' = Append(done, [id |-> Len(rows) + 1, of |-> DOMAIN held])
    /\ UNCHANGED <<shared, session, upto, before, listed, reply, decision, held, outcome, audited>>

Write1 ==
    /\ pc \in {"deleting", "saving"} /\ WriteNext
    /\ UNCHANGED <<shared, pc, session, work, audited>>

CommitUnit ==
    /\ pc \in {"deleting", "saving"} /\ Commit
    /\ pc' = "next" /\ held' = <<>>
    /\ UNCHANGED <<shared, session, upto, before, listed, reply, decision, done, outcome, audited>>

\* Mutant: the checkpoint advances before the candidates are stored.
AfterDeletions == pc = "next"

AllStored == pc = "next" /\ Len(done) = Len(candidates)

AdvanceCheckpoint ==
    /\ AllStored /\ pc' = "audit"
    /\ checkpoint' = upto /\ outcome' = "clean"
    /\ UNCHANGED <<storeVars, shared, repo, recorded, upto, before, listed, reply, decision, done, held, audited>>

\* A statement fails, or handling the reply does.  Inside a unit that rolls it back; a
\* BEGIN fails by itself in an open transaction; a failing COMMIT rolls nothing back.
Raise ==
    /\ pc \notin {"down", "idle", "audit"} /\ pc' = "audit"
    /\ IF tx = "unit" THEN RollBack \/ (CommitFaults /\ CommitFails) ELSE UNCHANGED storeVars
    /\ outcome' = "raised"
    /\ UNCHANGED <<shared, session, upto, before, listed, reply, decision, done, held, audited>>

AfterUnread ==       \* the after snapshot fails: no claim is made about the rows
    /\ pc = "audit" /\ evident /\ evident' = FALSE
    /\ UNCHANGED <<storeVars, shared, pc, session, work, elsewhere>>

Audited ==
    /\ pc = "audit" /\ pc' = "idle"
    /\ Idle
    /\ UNCHANGED <<storeVars, shared, session>>

-----------------------------------------------------------------------------
(* The bridge's audit, made of the two snapshots and the result.           *)

After == Restricted(view, Visible(view, repo))
Handled == IF outcome = "clean" THEN Len(done) ELSE 0
Deletions == IF outcome = "clean" THEN deleted ELSE {}
Made(n) == {done[k].id : k \in 1..n} \ {New}

\* The before snapshot with the deletions and the first n candidates replayed on it.
ReplayView(n) ==
    [i \in DOMAIN before \cup Made(n) |->
        LET base == IF i \notin DOMAIN before THEN candidates[CHOOSE k \in 1..n : done[k].id = i]
                    ELSE IF i \in Deletions THEN [before[i] EXCEPT !.status = "deleted"] ELSE before[i]
            later == {k \in 1..n : i \in done[k].of}
        IN  IF later = {} THEN base
            ELSE [base EXCEPT !.status = "superseded", !.by = done[Newest(later)].id]]

Same(r, s) == r.status = s.status /\ r.by = s.by

\* Mutant: a candidate without a row is looked for in the snapshot, not in the replay.
NoOpInSnapshot(n) == NoOp(before, candidates[n])

AttributesNoOp(n) == NoOp(ReplayView(n - 1), candidates[n])

\* The rows and candidates the replay cannot account for.
Drift ==
    LET replay == ReplayView(Handled)
    IN  {i \in DOMAIN replay \cup DOMAIN After :
            \/ i \notin DOMAIN After \/ i \notin DOMAIN replay
            \/ ~Same(replay[i], After[i])}
Explained ==
    /\ Deletions \subseteq DOMAIN before
    /\ \A n \in 1..Handled : /\ done[n].of \subseteq DOMAIN ReplayView(n - 1)
                             /\ done[n].id = New => AttributesNoOp(n)
    /\ Drift = {}

Cited == Deletions \cup Made(Handled) \cup UNION {done[n].of : n \in 1..Handled}
Changed == {i \in DOMAIN After : i \notin DOMAIN before \/ ~Same(before[i], After[i])}

\* Mutant: a new row that succeeds an old one is cited again as a creation.
CoversNothing == {}

\* After an exception there is no result to replay: the transitions between the
\* snapshots, one per old row and one per new row that succeeds no old one.

Covered == {After[i].by : i \in {j \in DOMAIN before \cap DOMAIN After :
                /\ before[j].status # "superseded"
                /\ After[j].status = "superseded" /\ After[j].by # 0}}

Transitions ==
    {[old |-> {}, new |-> {i}] : i \in DOMAIN After \ (DOMAIN before \cup Covered)}
    \cup {[old |-> {i}, new |-> IF After[i].status = "superseded" THEN {After[i].by} \cap DOMAIN After
                                ELSE IF After[i].status = "deleted" THEN {} ELSE {i}] :
             i \in {j \in DOMAIN before \cap DOMAIN After : before[j].status # After[j].status}}

-----------------------------------------------------------------------------
(* The endpoint: update, delete, and an add whose extraction stores m.     *)

Serves == shared \/ pc \in Resting

Serve(table) ==
    /\ Serves /\ CommitElsewhere(table)
    /\ elsewhere' = (pc \notin Resting)
    /\ UNCHANGED <<shared, pc, session, work, evident>>

Replaced(t, ids, m) ==    \* a unit that supersedes ids with m, seen as a whole
    [i \in 1..(Len(t) + 1) |->
        IF i > Len(t) THEN [m EXCEPT !.of = ids]
        ELSE IF i \in ids THEN [t[i] EXCEPT !.status = "superseded", !.by = Len(t) + 1] ELSE t[i]]

EndpointUpdate(i, v) ==
    /\ i \in Ids(rows) /\ Live(rows[i])
    /\ Serve(Replaced(rows, {i}, [rows[i] EXCEPT !.value = v, !.status = "approved", !.of = {}]))

EndpointDelete(i) ==
    /\ i \in Ids(rows) /\ Live(rows[i])
    /\ Serve([rows EXCEPT ![i].status = "deleted"])

EndpointAdd(item) ==
    LET m == MemoryOf(item, General)
    IN  /\ ~NoOp(rows, m)
        /\ Serve(Replaced(rows, Superseded(rows, m), m))

-----------------------------------------------------------------------------
Next ==
    \/ \E r \in Repo : OpenEpisode(r)
    \/ CloseEpisode \/ RecordMessage \/ RecordFails
    \/ Snapshot \/ List \/ NothingToAsk \/ BeginDeletions \/ UpsertNoOp \/ UpsertList \/ BeginUpsert
    \/ Write1 \/ CommitUnit \/ AdvanceCheckpoint \/ Raise \/ AfterUnread \/ Audited
    \/ \E run \in Calls : AskFails(run)
    \/ /\ pc = "ask"
       /\ \E targets \in SUBSET ({"user", "project", "other"} \X Key), n \in 0..MaxItems :
              \E items \in [1..n -> Item] : Decide(targets, items)
    \/ \E i \in Ids(rows) : EndpointDelete(i) \/ \E v \in Value : EndpointUpdate(i, v)
    \/ \E item \in Item : EndpointAdd(item)

Spec == Init /\ [][Next]_vars
-----------------------------------------------------------------------------
(* Properties.                                                             *)

Copies(f) == DOMAIN f \subseteq Ids(view) /\ \A i \in DOMAIN f : f[i] \in Row

\* The shape of every variable.
CureTypeOK ==
    /\ rows \in Seq(Row) /\ view \in Seq(Row) /\ todo \in Seq(Write)
    /\ tx \in {"none", "implicit", "unit"}
    /\ shared \in BOOLEAN /\ elsewhere \in BOOLEAN /\ evident \in BOOLEAN
    /\ pc \in PC /\ repo \in Repo /\ recorded \in Nat
    /\ checkpoint \in 0..recorded /\ upto \in 0..recorded
    /\ Copies(before) /\ Copies(listed) /\ Copies(held)
    /\ reply \in Reply \cup {"none"}
    /\ deleted \subseteq DOMAIN listed
    /\ candidates \in Seq(Row) /\ done \in Seq([id : Nat, of : SUBSET Nat])
    /\ Len(done) <= Len(candidates)
    /\ outcome \in {"none", "clean", "errors", "raised"}

\* A layer never has two live rows for one key on disk, whatever fails or crashes
\* between the statements of a replacement (atomic, _upsert_memory, memory_replace).
OneLiveRow ==
    ~shared => \A i, j \in Ids(rows) :
        Live(rows[i]) /\ Live(rows[j]) /\ rows[i].layer = rows[j].layer /\ rows[i].key = rows[j].key
            => i = j

\* The history on disk is whole: a superseded row names a later row of its layer and
\* key that names it back, and nothing else is named.
ChainsSound ==
    ~shared => \A i \in Ids(rows) :
        /\ rows[i].status = "superseded" <=> rows[i].by # 0
        /\ rows[i].by # 0 =>
              /\ rows[i].by \in (i + 1)..Len(rows)
              /\ i \in rows[rows[i].by].of
              /\ rows[rows[i].by].layer = rows[i].layer /\ rows[rows[i].by].key = rows[i].key
        /\ \A k \in rows[i].of : k \in 1..(i - 1) /\ rows[k].by = i

\* An extraction touches no row of another repository, and a candidate ends only rows
\* of its own layer: a refinement by one repository never costs the run a general row,
\* a general lesson never costs a repository its refinement.
LayersIsolated ==
    [][\A i \in Ids(rows) :
        ~shared /\ pc \notin Resting /\ rows'[i] # rows[i] =>
            /\ rows[i].layer \in {repo, General}
            /\ pc = "saving" => rows[i].layer = candidates[Len(done)].layer]_vars

\* The checkpoint passes a message only when the model answered for it (or nothing was
\* there to ask) and all the answer asked for is on disk.
CheckpointEarned ==
    [][checkpoint' > checkpoint =>
        /\ reply \in {"none", "decision"}
        /\ \A i \in deleted : ~Live(rows[i])
        /\ \A n \in 1..Len(candidates) : \E i \in Ids(rows) :
              /\ rows[i].key = candidates[n].key /\ rows[i].value = candidates[n].value
              /\ rows[i].layer \in {candidates[n].layer, General}]_vars

\* The replay audit raises no false alarm, and what it passes as clean holds no change
\* of another writer: the cited rows are exactly the changed ones.  (Without one of the
\* snapshots the bridge makes no claim: its state_evidence is "unknown".)
AuditIsExact ==
    pc = "audit" /\ outcome # "raised" /\ evident =>
        /\ Explained => Changed = Cited
        /\ ~elsewhere => Explained

\* After an exception each changed row is the old row of one transition, each new one
\* the new row of one, so no half-done extraction leaves a change unreported.
DiffCoversChanges ==
    pc = "audit" /\ outcome = "raised" /\ evident /\ ~shared =>
        \A i \in Changed :
            Cardinality({t \in Transitions : i \in IF i \in DOMAIN before THEN t.old ELSE t.new}) = 1

\* Between two operations no transaction is open and nothing is uncommitted, on every
\* path on which a COMMIT that is reached succeeds.
NothingLeftOpen == pc \in {"down", "idle", "audit"} => tx = "none" /\ view = rows

\* The rows of a unit that failed, its COMMIT included, are undone: once an extraction
\* has raised, its connection sees the committed table ("rolling back on any error",
\* store.py:108, atomic's docstring).
FailedUnitIsUndone == pc = "audit" /\ outcome = "raised" => view = rows
=============================================================================

------------------------- MODULE CureSystem_proofs -------------------------
(***************************************************************************)
(* Proofs about CureSystem: for every set of repositories, keys and        *)
(* values, every decision the model may reply with, any number of rows,    *)
(* messages and episodes.                                                  *)
(***************************************************************************)
EXTENDS CureSystem, FiniteSetTheorems, SequenceTheorems, Induction, TLAPS

-----------------------------------------------------------------------------
(* Operators.                                                              *)

LEMMA SetToSeqLists ==
    ASSUME NEW S, IsFiniteSet(S)
    PROVE  /\ SetToSeq(S) \in [1..Cardinality(S) -> S] /\ Cardinality(S) \in Nat
           /\ \A x \in S : \E n \in 1..Cardinality(S) : SetToSeq(S)[n] = x
<1> DEFINE N == Cardinality(S)
<1>1. N \in Nat /\ ExistsBijection(1..N, S)
  BY FS_CardinalityType
<1>2. \E f \in [1..N -> S] : IsInjective(f)
  BY <1>1 DEF ExistsBijection, Bijection, Injection, IsInjective
<1>3. SetToSeq(S) \in [1..N -> S] /\ IsInjective(SetToSeq(S))
  BY <1>2 DEF SetToSeq
<1>4. SetToSeq(S) \in Injection(1..N, S)
  BY <1>3 DEF Injection
<1>5. Cardinality(1..N) = N
  BY <1>1, FS_Interval
<1>6. SetToSeq(S) \in Surjection(1..N, S)
  BY <1>4, <1>5, FS_Injection
<1>7. QED
  BY <1>1, <1>3, <1>6 DEF Surjection

LEMMA StatusType ==
    ASSUME NEW item \in RawItem
    PROVE  StatusOf(item) \in Status \ Inactive
BY DEF RawItem, StatusOf, Status, Inactive

\* A candidate is a live row of the session's layer or of the general one.
Fresh(layer) == {r \in Row : Live(r) /\ r.by = 0 /\ r.of = {} /\ r.layer \in {layer, General}}

LEMMA MemoryIsFresh ==
    ASSUME NEW item \in Item, NEW home \in Layer
    PROVE  MemoryOf(item, home) \in Fresh(home)
<1>1. item \in RawItem
  BY ExtractorAssumption
<1>2. item.key \in Key /\ item.value \in Value
  BY <1>1 DEF RawItem
<1>3. LayerOf(item, home) \in {home, General} /\ General \in Layer
  BY DEF LayerOf, Layer
<1>4. StatusOf(item) \in Status /\ StatusOf(item) \notin Inactive
  BY <1>1, StatusType
<1>5. MemoryOf(item, home) \in Row
  BY <1>2, <1>3, <1>4 DEF MemoryOf, Row
<1>6. QED
  BY <1>3, <1>4, <1>5 DEF MemoryOf, Fresh, Live

LEMMA EditedType ==
    ASSUME NEW r \in Row, NEW by \in Nat, NEW ids \in SUBSET Nat
    PROVE  /\ [r EXCEPT !.status = "superseded", !.by = by] \in Row
           /\ [r EXCEPT !.status = "deleted"] \in Row
           /\ [r EXCEPT !.of = ids] \in Row
BY DEF Row, Status, Inactive

LEMMA AppliedType ==
    ASSUME NEW t \in Seq(Row), NEW w \in Write
    PROVE  Applied(t, w) \in Seq(Row) /\ Len(t) <= Len(Applied(t, w))
<1>1. w.id \in Nat /\ w.row \in Row
  BY DEF Write
<1>2. CASE w.id = New
  BY <1>1, <1>2 DEF Applied
<1>3. CASE w.id # New
  <2> DEFINE n == Len(t)
             s == [t EXCEPT ![w.id] = w.row]
  <2>a. t \in [1..n -> Row] /\ n \in Nat
    OBVIOUS
  <2>b. DOMAIN s = 1..n /\ s = [i \in 1..n |-> s[i]]
    BY <2>a
  <2>c. \A i \in 1..n : s[i] \in Row
    BY <1>1, <2>a
  <2>1. [t EXCEPT ![w.id] = w.row] \in [1..Len(t) -> Row]
    BY <2>b, <2>c
  <2>2. [t EXCEPT ![w.id] = w.row] \in Seq(Row) /\ Len([t EXCEPT ![w.id] = w.row]) = Len(t)
    BY <2>1
  <2>3. QED
    BY <1>3, <2>2 DEF Applied
<1>4. QED
  BY <1>2, <1>3

LEMMA ReplacedType ==
    ASSUME NEW t \in Seq(Row), NEW ids \in SUBSET Ids(t), NEW m \in Row
    PROVE  Replaced(t, ids, m) \in Seq(Row) /\ Len(Replaced(t, ids, m)) = Len(t) + 1
<1>1. Len(t) + 1 \in Nat /\ ids \subseteq Nat
  BY DEF Ids
<1>2. \A i \in 1..(Len(t) + 1) :
        (IF i > Len(t) THEN [m EXCEPT !.of = ids]
         ELSE IF i \in ids THEN [t[i] EXCEPT !.status = "superseded", !.by = Len(t) + 1] ELSE t[i]) \in Row
  <2> TAKE i \in 1..(Len(t) + 1)
  <2>1. [m EXCEPT !.of = ids] \in Row
    BY <1>1, EditedType
  <2>2. CASE i <= Len(t)
    <3>1. t[i] \in Row
      BY <2>2
    <3>2. [t[i] EXCEPT !.status = "superseded", !.by = Len(t) + 1] \in Row
      BY <1>1, <3>1, EditedType
    <3>3. QED
      BY <2>2, <3>1, <3>2
  <2>3. QED
    BY <2>1, <2>2
<1>3. Replaced(t, ids, m) \in [1..(Len(t) + 1) -> Row]
  BY <1>2 DEF Replaced
<1>4. QED
  BY <1>3

\* The copies a restriction holds.
LEMMA RestrictedCopies ==
    ASSUME NEW t, NEW ids
    PROVE  DOMAIN Restricted(t, ids) = ids /\ \A i \in ids : Restricted(t, ids)[i] = t[i]
BY DEF Restricted

-----------------------------------------------------------------------------
(* Types.                                                                  *)

StoreInv ==
    /\ rows \in Seq(Row) /\ view \in Seq(Row) /\ todo \in Seq(Write)
    /\ tx \in {"none", "implicit", "unit"}
    /\ tx = "none" => view = rows
    /\ tx # "unit" => todo = <<>>
    /\ tx = "unit" => Len(rows) <= Len(view)

\* The table a connection falls back to when what it does now is undone.
Base == IF tx = "unit" THEN rows ELSE view

RootedIn(f, t) == DOMAIN f \subseteq Ids(t) /\ \A i \in DOMAIN f : f[i] \in Row
Rooted(f) == RootedIn(f, Base)

WorkInv ==
    /\ shared \in BOOLEAN /\ elsewhere \in BOOLEAN /\ pc \in PC /\ repo \in Repo
    /\ recorded \in Nat /\ checkpoint \in 0..recorded /\ upto \in 0..recorded
    /\ Rooted(before) /\ Rooted(listed) /\ Rooted(held)
    /\ reply \in Reply \cup {"none"}
    /\ outcome \in {"none", "clean", "errors", "raised"}
    /\ deleted \subseteq DOMAIN listed
    /\ candidates \in Seq(Row) /\ \A n \in 1..Len(candidates) : candidates[n] \in Fresh(repo)
    /\ done \in Seq([id : Nat, of : SUBSET Nat]) /\ Len(done) <= Len(candidates)
    /\ pc = "begin" => Len(done) < Len(candidates)
    /\ pc \in Resting \cup {"list", "ask"} => deleted = {} /\ candidates = <<>> /\ done = <<>>
    /\ pc \in Resting => upto = 0

ShapeInv == StoreInv /\ WorkInv

LEMMA RootedFinite ==
    ASSUME ShapeInv
    PROVE  IsFiniteSet(deleted) /\ IsFiniteSet(DOMAIN held) /\ DOMAIN held \subseteq Nat /\ deleted \subseteq Nat
<1>1. Ids(Base) = 1..Len(Base) /\ Len(Base) \in Nat
  BY DEF ShapeInv, StoreInv, Base, Ids
<1>2. IsFiniteSet(Ids(Base)) /\ Ids(Base) \subseteq Nat
  BY <1>1, FS_Interval
<1>3. DOMAIN held \subseteq Ids(Base) /\ deleted \subseteq Ids(Base)
  BY DEF ShapeInv, WorkInv, Rooted, RootedIn
<1>4. QED
  BY <1>2, <1>3, FS_Subset

LEMMA DeletionBatchType ==
    ASSUME ShapeInv
    PROVE  DeletionBatch \in Seq(Write)
<1> DEFINE ids == SetToSeq(deleted)
           N == Cardinality(deleted)
<1>1. ids \in [1..N -> deleted] /\ N \in Nat
  BY RootedFinite, SetToSeqLists
<1>2. Len(ids) = N
  BY <1>1
<1>3. ASSUME NEW n \in 1..N
      PROVE  [id |-> ids[n], row |-> [listed[ids[n]] EXCEPT !.status = "deleted"]] \in Write
  <2>1. ids[n] \in deleted
    BY <1>1
  <2>2. ids[n] \in Nat /\ listed[ids[n]] \in Row
    BY <2>1, RootedFinite DEF ShapeInv, WorkInv, Rooted, RootedIn
  <2>3. [listed[ids[n]] EXCEPT !.status = "deleted"] \in Row
    BY <2>2, EditedType
  <2>4. QED
    BY <2>2, <2>3 DEF Write
<1>4. DeletionBatch = [n \in 1..N |-> [id |-> ids[n], row |-> [listed[ids[n]] EXCEPT !.status = "deleted"]]]
  BY <1>2 DEF DeletionBatch
<1>5. DeletionBatch \in [1..N -> Write]
  BY <1>3, <1>4
<1>6. QED
  BY <1>1, <1>5

\* One pass over the held rows.
Pass(by) ==
    LET ids == SetToSeq(DOMAIN held)
    IN  [n \in 1..Len(ids) |->
            [id |-> ids[n], row |-> [held[ids[n]] EXCEPT !.status = "superseded", !.by = by]]]

LEMMA PassType ==
    ASSUME ShapeInv, NEW by \in Nat
    PROVE  /\ Pass(by) \in Seq(Write)
           /\ \A n \in 1..Len(Pass(by)) : \E i \in DOMAIN held :
                Pass(by)[n] = [id |-> i, row |-> [held[i] EXCEPT !.status = "superseded", !.by = by]]
           /\ \A i \in DOMAIN held : \E n \in 1..Len(Pass(by)) :
                Pass(by)[n] = [id |-> i, row |-> [held[i] EXCEPT !.status = "superseded", !.by = by]]
<1> DEFINE ids == SetToSeq(DOMAIN held)
           N == Cardinality(DOMAIN held)
           W(i) == [id |-> i, row |-> [held[i] EXCEPT !.status = "superseded", !.by = by]]
<1>1. ids \in [1..N -> DOMAIN held] /\ N \in Nat /\ \A i \in DOMAIN held : \E n \in 1..N : ids[n] = i
  BY RootedFinite, SetToSeqLists
<1>2. Len(ids) = N
  BY <1>1
<1>3. ASSUME NEW i \in DOMAIN held
      PROVE  W(i) \in Write
  <2>1. i \in Nat /\ held[i] \in Row
    BY RootedFinite DEF ShapeInv, WorkInv, Rooted, RootedIn
  <2>2. [held[i] EXCEPT !.status = "superseded", !.by = by] \in Row
    BY <2>1, EditedType
  <2>3. QED
    BY <2>1, <2>2 DEF Write
<1>4. Pass(by) = [n \in 1..N |-> W(ids[n])]
  BY <1>2 DEF Pass
<1> HIDE DEF W
<1>5. \A n \in 1..N : W(ids[n]) \in Write
  BY <1>1, <1>3
<1>6. Pass(by) \in [1..N -> Write]
  BY <1>4, <1>5
<1>7. Pass(by) \in Seq(Write) /\ Len(Pass(by)) = N
  BY <1>1, <1>6
<1>8. \A n \in 1..N : ids[n] \in DOMAIN held /\ Pass(by)[n] = W(ids[n])
  BY <1>1, <1>4
<1>9. /\ \A n \in 1..N : \E i \in DOMAIN held : Pass(by)[n] = W(i)
      /\ \A i \in DOMAIN held : \E n \in 1..N : Pass(by)[n] = W(i)
  BY <1>1, <1>8
<1>10. QED
  BY <1>7, <1>9 DEF W

LEMMA UnitIsPasses ==
    ASSUME NEW m, NEW new
    PROVE  UpsertUnit(m, new) = Pass(0) \o <<[id |-> New, row |-> [m EXCEPT !.of = DOMAIN held]]>> \o Pass(new)
BY DEF UpsertUnit, Pass

LEMMA UpsertUnitType ==
    ASSUME ShapeInv, NEW m \in Row, NEW new \in Nat
    PROVE  UpsertUnit(m, new) \in Seq(Write)
<1>1. Pass(0) \in Seq(Write) /\ Pass(new) \in Seq(Write)
  BY PassType
<1>2. [m EXCEPT !.of = DOMAIN held] \in Row
  BY EditedType, RootedFinite
<1>3. [id |-> New, row |-> [m EXCEPT !.of = DOMAIN held]] \in Write
  BY <1>2 DEF Write, New
<1> DEFINE w == [id |-> New, row |-> [m EXCEPT !.of = DOMAIN held]]
<1> HIDE DEF w
<1>4. <<w>> \in Seq(Write)
  BY <1>3 DEF w
<1>5. Pass(0) \o <<w>> \o Pass(new) \in Seq(Write)
  BY <1>1, <1>4
<1>6. QED
  BY <1>5, UnitIsPasses DEF w

\* What every step is to the database.
StoreStep ==
    \/ UNCHANGED storeVars
    \/ \E writes \in Seq(Write) : Begin(writes)
    \/ WriteNext \/ Commit \/ LoneWrite \/ LoneWriteFails
    \/ (CloseEpisode \/ tx = "unit") /\ RollBack
    \/ CommitFaults /\ CommitFails
    \/ \E table \in Seq(Row) : Len(rows) <= Len(table) /\ CommitElsewhere(table)

LEMMA UpdatedTable ==
    ASSUME NEW t \in Seq(Row), NEW i \in Ids(t), NEW v \in Value
    PROVE  LET new == Replaced(t, {i}, [t[i] EXCEPT !.value = v, !.status = "approved", !.of = {}])
           IN  new \in Seq(Row) /\ Len(t) <= Len(new)
<1>1. t[i] \in Row /\ {i} \in SUBSET Ids(t) /\ Len(t) \in Nat
  BY DEF Ids
<1>2. [t[i] EXCEPT !.value = v, !.status = "approved", !.of = {}] \in Row
  BY <1>1 DEF Row, Status
<1>3. QED
  BY <1>1, <1>2, ReplacedType

LEMMA DeletedTable ==
    ASSUME NEW t \in Seq(Row), NEW i \in Ids(t)
    PROVE  LET new == [t EXCEPT ![i].status = "deleted"]
           IN  new \in Seq(Row) /\ Len(t) <= Len(new)
<1> DEFINE w == [id |-> i, row |-> [t[i] EXCEPT !.status = "deleted"]]
<1>1. t[i] \in Row /\ i \in Nat /\ i # New
  BY DEF Ids, New
<1>2. [t[i] EXCEPT !.status = "deleted"] \in Row
  BY <1>1, EditedType
<1>3. w \in Write
  BY <1>1, <1>2 DEF Write
<1>4. [t EXCEPT ![i].status = "deleted"] = Applied(t, w)
  BY <1>1 DEF Applied
<1>5. Applied(t, w) \in Seq(Row) /\ Len(t) <= Len(Applied(t, w))
  BY <1>3, AppliedType
<1>6. QED
  BY <1>4, <1>5

LEMMA AddedTable ==
    ASSUME NEW t \in Seq(Row), NEW item \in Item
    PROVE  LET m == MemoryOf(item, General)
               new == Replaced(t, Superseded(t, m), m)
           IN  new \in Seq(Row) /\ Len(t) <= Len(new)
<1> DEFINE m == MemoryOf(item, General)
<1>1. m \in Row
  BY MemoryIsFresh DEF Fresh, Layer
<1>2. Superseded(t, m) \subseteq Ids(t) /\ Len(t) \in Nat
  BY DEF Superseded, Active
<1> HIDE DEF m
<1>3. QED
  BY <1>1, <1>2, ReplacedType DEF m

LEMMA EndpointStep ==
    ASSUME ShapeInv,
           \/ \E i \in Ids(rows) : EndpointDelete(i) \/ \E v \in Value : EndpointUpdate(i, v)
           \/ \E item \in Item : EndpointAdd(item)
    PROVE  \E table \in Seq(Row) : Len(rows) <= Len(table) /\ Serve(table)
<1>0. rows \in Seq(Row)
  BY DEF ShapeInv, StoreInv
<1>1. ASSUME NEW i \in Ids(rows), EndpointDelete(i)
      PROVE  \E table \in Seq(Row) : Len(rows) <= Len(table) /\ Serve(table)
  BY <1>0, <1>1, DeletedTable DEF EndpointDelete
<1>2. ASSUME NEW i \in Ids(rows), NEW v \in Value, EndpointUpdate(i, v)
      PROVE  \E table \in Seq(Row) : Len(rows) <= Len(table) /\ Serve(table)
  BY <1>0, <1>2, UpdatedTable DEF EndpointUpdate
<1>3. ASSUME NEW item \in Item, EndpointAdd(item)
      PROVE  \E table \in Seq(Row) : Len(rows) <= Len(table) /\ Serve(table)
  BY <1>0, <1>3, AddedTable DEF EndpointAdd
<1>4. QED
  BY <1>1, <1>2, <1>3

LEMMA StepOfStore ==
    ASSUME ShapeInv, [Next]_vars
    PROVE  StoreStep
<1>1. CASE CloseEpisode \/ RecordMessage \/ RecordFails \/ Raise \/ Write1 \/ CommitUnit
  BY <1>1 DEF StoreStep, CloseEpisode, RecordMessage, RecordFails, Raise, Write1, CommitUnit
<1>2. CASE BeginDeletions
  BY <1>2, DeletionBatchType DEF StoreStep, BeginDeletions
<1>3. CASE BeginUpsert
  <2>1. Len(done) + 1 \in 1..Len(candidates) /\ Len(rows) + 1 \in Nat /\ candidates \in Seq(Row)
    BY <1>3 DEF BeginUpsert, ShapeInv, WorkInv, StoreInv
  <2>2. candidates[Len(done) + 1] \in Row
    BY <2>1
  <2>3. QED
    BY <1>3, <2>1, <2>2, UpsertUnitType DEF StoreStep, BeginUpsert
<1>4. ASSUME \/ \E i \in Ids(rows) : EndpointDelete(i) \/ \E v \in Value : EndpointUpdate(i, v)
             \/ \E item \in Item : EndpointAdd(item)
      PROVE  StoreStep
  BY <1>4, EndpointStep DEF Serve, StoreStep
<1>5. ASSUME UNCHANGED storeVars
      PROVE  StoreStep
  BY <1>5 DEF StoreStep
<1>6. CASE \/ \E r \in Repo : OpenEpisode(r)
           \/ Snapshot \/ List \/ NothingToAsk \/ UpsertNoOp \/ UpsertList \/ AdvanceCheckpoint \/ AfterUnread \/ Audited
           \/ \E run \in Calls : AskFails(run)
           \/ \E targets, items : Decide(targets, items)
           \/ UNCHANGED vars
  BY <1>5, <1>6 DEF OpenEpisode, Snapshot, List, NothingToAsk, UpsertNoOp, UpsertList, AdvanceCheckpoint, AfterUnread, Audited,
     AskFails, Decide, vars
<1>7. QED
  BY <1>1, <1>2, <1>3, <1>4, <1>6 DEF Next

LEMMA StoreKept ==
    ASSUME ShapeInv, [Next]_vars
    PROVE  /\ StoreInv'
           /\ Len(Base) \in Nat /\ Len(Base') \in Nat /\ Ids(Base) = 1..Len(Base) /\ Ids(Base)' = 1..Len(Base')
           /\ CloseEpisode \/ Len(Base) <= Len(Base')
<1> USE DEF storeVars, Base
<1>1. StoreStep /\ StoreInv
  BY StepOfStore DEF ShapeInv
<1>2. StoreInv' /\ (CloseEpisode \/ Len(Base) <= Len(Base'))
  <2>1. CASE UNCHANGED storeVars
    BY <1>1, <2>1 DEF StoreInv
  <2>2. CASE \E writes \in Seq(Write) : Begin(writes)
    BY <1>1, <2>2 DEF StoreInv, Begin
  <2>3. CASE WriteNext
    <3>1. Head(todo) \in Write /\ Tail(todo) \in Seq(Write)
      BY <1>1, <2>3 DEF StoreInv, WriteNext
    <3>2. view' \in Seq(Row) /\ Len(view) <= Len(view')
      BY <1>1, <2>3, <3>1, AppliedType DEF StoreInv, WriteNext
    <3>3. tx = "unit" /\ tx' = "unit" /\ rows' = rows /\ todo' = Tail(todo)
      BY <2>3 DEF WriteNext, CommitsNow
    <3>4. Len(rows) <= Len(view')
      BY <1>1, <3>2, <3>3 DEF StoreInv
    <3>5. QED
      BY <1>1, <3>1, <3>2, <3>3, <3>4 DEF StoreInv
  <2>a. Len(rows) \in Nat /\ Len(view) \in Nat /\ <<>> \in Seq(Write)
    BY <1>1 DEF StoreInv
  <2>4. CASE Commit
    BY <1>1, <2>4, <2>a DEF StoreInv, Commit
  <2>8. CASE (CloseEpisode \/ tx = "unit") /\ RollBack
    BY <1>1, <2>8, <2>a DEF StoreInv, RollBack
  <2>5. CASE LoneWrite \/ LoneWriteFails
    BY <1>1, <2>5, <2>a DEF StoreInv, LoneWrite, LoneWriteFails, AfterFailedWrite
  <2>9. CASE CommitFails
    BY <1>1, <2>9, <2>a DEF StoreInv, CommitFails
  <2>6. CASE \E table \in Seq(Row) : Len(rows) <= Len(table) /\ CommitElsewhere(table)
    BY <1>1, <2>6 DEF StoreInv, CommitElsewhere
  <2>7. QED
    BY <1>1, <2>1, <2>2, <2>3, <2>4, <2>5, <2>6, <2>8, <2>9 DEF StoreStep
<1>3. QED
  BY <1>1, <1>2 DEF StoreInv, Ids

LEMMA RootsKept ==
    ASSUME ShapeInv, [Next]_vars, ~CloseEpisode, NEW f, Rooted(f)
    PROVE  RootedIn(f, Base')
BY StoreKept DEF Rooted, RootedIn, Ids

LEMMA EmptyRooted ==
    ASSUME NEW t
    PROVE  RootedIn(<<>>, t)
BY DEF RootedIn

LEMMA VisibleRooted ==
    ASSUME ShapeInv, tx # "unit", NEW layer
    PROVE  Rooted(Restricted(view, Visible(view, layer)))
<1>1. view \in Seq(Row) /\ Visible(view, layer) \subseteq Ids(view) /\ Base = view
  BY DEF ShapeInv, StoreInv, Visible, Base
<1>2. \A i \in Ids(view) : view[i] \in Row
  BY <1>1 DEF Ids
<1>3. QED
  BY <1>1, <1>2, RestrictedCopies DEF Rooted, RootedIn

LEMMA SmallerRooted ==
    ASSUME NEW f, NEW ids \in SUBSET DOMAIN f, Rooted(f)
    PROVE  Rooted(Restricted(f, ids)) /\ DOMAIN Restricted(f, ids) = ids
BY RestrictedCopies DEF Rooted, RootedIn

\* While a transaction is open only a snapshot or the next operation meets it.
OpenInv == tx = "unit" <=> pc \in {"deleting", "saving"}

LEMMA OpenStep ==
    ASSUME OpenInv, [Next]_vars
    PROVE  OpenInv'
<1> USE DEF OpenInv
<1>1. CASE CloseEpisode
  BY <1>1 DEF CloseEpisode, RollBack
<1>2. CASE RecordMessage \/ RecordFails
  BY <1>2 DEF RecordMessage, RecordFails, LoneWrite, LoneWriteFails, CommitFails, AfterFailedWrite
<1>3. CASE BeginDeletions \/ BeginUpsert
  BY <1>3 DEF BeginDeletions, BeginUpsert, Begin
<1>4. CASE Write1
  BY <1>4 DEF Write1, WriteNext
<1>5. CASE CommitUnit
  BY <1>5 DEF CommitUnit, Commit
<1>6. CASE Raise
  BY <1>6 DEF Raise, RollBack, CommitFails, storeVars
<1>7. ASSUME NEW table, Serve(table)
      PROVE  OpenInv'
  BY <1>7 DEF Serve, CommitElsewhere
<1>8. CASE \/ \E i \in Ids(rows) : EndpointDelete(i) \/ \E v \in Value : EndpointUpdate(i, v)
           \/ \E item \in Item : EndpointAdd(item)
  BY <1>7, <1>8 DEF EndpointDelete, EndpointUpdate, EndpointAdd
<1>9. CASE \/ \E r \in Repo : OpenEpisode(r)
           \/ Snapshot \/ List \/ NothingToAsk \/ UpsertNoOp \/ UpsertList \/ AdvanceCheckpoint \/ AfterUnread \/ Audited
           \/ \E run \in Calls : AskFails(run)
           \/ \E targets, items : Decide(targets, items)
           \/ UNCHANGED vars
  BY <1>9 DEF OpenEpisode, Snapshot, List, NothingToAsk, UpsertNoOp, UpsertList, AdvanceCheckpoint, AfterUnread, Audited,
     AskFails, Decide, vars, storeVars, AllStored
<1>10. QED
  BY <1>1, <1>2, <1>3, <1>4, <1>5, <1>6, <1>8, <1>9 DEF Next

LEMMA LastReply ==
    ASSUME NEW run \in Calls
    PROVE  Last(run) \in Reply
<1>1. PICK n \in 1..(1 + LlmRetries) : run \in [1..n -> Reply]
  BY DEF Calls
<1>2. n \in Nat /\ 1 <= n
  BY ExtractorAssumption
<1>3. Len(run) = n /\ run[n] \in Reply
  BY <1>1, <1>2
<1>4. QED
  BY <1>3 DEF Last

LEMMA MatchingListed ==
    ASSUME NEW targets, NEW f, NEW home
    PROVE  UNION {Matching(f, d[1], d[2], home) : d \in targets} \subseteq DOMAIN f
BY DEF Matching, Addressed

LEMMA CandidatesFresh ==
    ASSUME NEW n \in 0..MaxItems, NEW items \in [1..n -> Item], NEW home \in Layer
    PROVE  LET cs == [k \in 1..Len(items) |-> MemoryOf(items[k], home)]
           IN  cs \in Seq(Row) /\ Len(cs) = n /\ \A k \in 1..n : cs[k] \in Fresh(home)
<1> DEFINE cs == [k \in 1..Len(items) |-> MemoryOf(items[k], home)]
<1>1. n \in Nat /\ Len(items) = n
  BY SystemAssumption
<1>2. \A k \in 1..n : items[k] \in Item
  OBVIOUS
<1>3. \A k \in 1..n : MemoryOf(items[k], home) \in Fresh(home)
  BY <1>2, MemoryIsFresh
<1>4. cs = [k \in 1..n |-> MemoryOf(items[k], home)]
  BY <1>1
<1>5. \A k \in 1..n : cs[k] \in Fresh(home)
  BY <1>3, <1>4
<1>6. \A k \in 1..n : cs[k] \in Row
  BY <1>5 DEF Fresh
<1>7. cs \in [1..n -> Row]
  BY <1>4, <1>6
<1>8. QED
  BY <1>1, <1>5, <1>7

LEMMA WorkStep ==
    ASSUME ShapeInv, OpenInv, [Next]_vars
    PROVE  WorkInv'
<1> USE DEF session, decision, work, audited
<1>w. WorkInv
  BY DEF ShapeInv
<1>k. ~CloseEpisode => RootedIn(before, Base') /\ RootedIn(listed, Base') /\ RootedIn(held, Base')
  BY <1>w, RootsKept DEF WorkInv
\* A step that changes neither the decision nor the snapshots.
<1>1. ASSUME ~CloseEpisode, UNCHANGED work, repo' = repo, shared' = shared, elsewhere' \in BOOLEAN, pc' \in PC,
             recorded' \in {recorded, recorded + 1}, checkpoint' = checkpoint,
             pc' \in Resting \cup {"list", "ask"} => pc \in Resting \cup {"list", "ask"},
             pc' = "begin" => pc = "begin", pc' \in Resting => pc \in Resting
      PROVE  WorkInv'
  BY <1>1, <1>k, <1>w DEF WorkInv, Rooted
<1>2. ASSUME Idle, pc' \in Resting, shared' = shared, repo' \in Repo, recorded' \in Nat, checkpoint' \in 0..recorded'
      PROVE  WorkInv'
  <2>1. <<>> \in Seq(Row) /\ <<>> \in Seq([id : Nat, of : SUBSET Nat]) /\ Len(<<>>) = 0
    OBVIOUS
  <2>2. pc' # "begin" /\ pc' \in PC
    BY <1>2 DEF Resting, PC
  <2>3. shared' \in BOOLEAN /\ elsewhere' \in BOOLEAN
    BY <1>2, <1>w DEF Idle, WorkInv
  <2>4. QED
    BY <1>2, <2>1, <2>2, <2>3, EmptyRooted DEF Idle, WorkInv, Rooted
<1>3. CASE CloseEpisode \/ Audited
  BY <1>2, <1>3, <1>w DEF CloseEpisode, Audited, Resting, WorkInv
<1>4. ASSUME NEW r \in Repo, OpenEpisode(r)
      PROVE  WorkInv'
  <2>1. pc' \in PC /\ pc' # "begin" /\ 0 \in 0..0
    BY <1>4 DEF OpenEpisode, PC, Resting
  <2>2. candidates = <<>> /\ Len(candidates) = 0
    BY <1>4, <1>w DEF OpenEpisode, WorkInv, Resting
  <2>3. ~CloseEpisode
    BY <1>4 DEF OpenEpisode, CloseEpisode
  <2>4. upto = 0
    BY <1>4, <1>w DEF OpenEpisode, WorkInv, Resting
  <2>5. QED
    BY <1>4, <1>k, <1>w, <2>1, <2>2, <2>3, <2>4 DEF OpenEpisode, WorkInv, Resting, Rooted
<1>5. CASE RecordMessage \/ RecordFails
  BY <1>1, <1>5, <1>w DEF RecordMessage, RecordFails, CloseEpisode, WorkInv, PC, Resting
<1>6. CASE Snapshot \/ List
  <2>1. tx # "unit" /\ ~CloseEpisode
    BY <1>6 DEF Snapshot, List, OpenInv, CloseEpisode
  <2>2. Rooted(Restricted(view, Visible(view, repo))) /\ Base' = Base
    BY <1>6, <2>1, VisibleRooted DEF Snapshot, List, storeVars, Base
  <2>3. RootedIn(Restricted(view, Visible(view, repo)), Base')
    BY <2>2 DEF Rooted
  <2>4. deleted = {} /\ candidates = <<>> /\ done = <<>> /\ recorded \in 0..recorded
    BY <1>6, <1>w DEF Snapshot, List, WorkInv, Resting
  <2>5. CASE Snapshot
    BY <2>5, <1>k, <1>w, <2>1, <2>3, <2>4, EmptyRooted DEF Snapshot, WorkInv, Rooted, PC, Resting
  <2>6. CASE List
    BY <2>6, <1>k, <1>w, <2>1, <2>3, <2>4 DEF List, WorkInv, Rooted, PC, Resting
  <2>7. QED
    BY <1>6, <2>5, <2>6
<1>7. CASE NothingToAsk \/ \E run \in Calls : AskFails(run)
  <2>1. ~CloseEpisode /\ pc = "ask" /\ pc' \in {"delete", "audit"}
    BY <1>7 DEF NothingToAsk, AskFails, CloseEpisode
  <2>2. deleted = {} /\ candidates = <<>> /\ done = <<>>
    BY <1>w, <2>1 DEF WorkInv
  <2>3. listed' = <<>> /\ deleted' = {} /\ candidates' = <<>> /\ done' = <<>> /\ before' = before /\ held' = held
    BY <1>7, <2>2 DEF NothingToAsk, AskFails
  <2>4. reply' \in Reply \cup {"none"} /\ outcome' \in {"none", "clean", "errors", "raised"}
    BY <1>7, <1>w, LastReply DEF NothingToAsk, AskFails, WorkInv
  <2>5. UNCHANGED <<shared, elsewhere, repo, recorded, checkpoint, upto>>
    BY <1>7 DEF NothingToAsk, AskFails
  <2>6. QED
    BY <1>k, <1>w, <2>1, <2>2, <2>3, <2>4, <2>5, EmptyRooted DEF WorkInv, Rooted, PC, Resting
<1>8. ASSUME NEW targets, NEW n \in 0..MaxItems, NEW items \in [1..n -> Item], Decide(targets, items)
      PROVE  WorkInv'
  <2>1. ~CloseEpisode /\ pc = "ask" /\ pc' = "delete"
    BY <1>8 DEF Decide, CloseEpisode
  <2>2. done = <<>> /\ repo \in Layer
    BY <1>w, <2>1 DEF WorkInv, Layer
  <2>3. deleted' \in SUBSET DOMAIN listed /\ listed' = Restricted(listed, deleted')
    <3>1. deleted' = UNION {Matching(listed, d[1], d[2], repo) : d \in targets} /\ listed' = Restricted(listed, deleted')
      BY <1>8 DEF Decide
    <3>2. UNION {Matching(listed, d[1], d[2], repo) : d \in targets} \subseteq DOMAIN listed
      BY MatchingListed
    <3>3. QED
      BY <3>1, <3>2
  <2>4. Rooted(listed') /\ DOMAIN listed' = deleted'
    BY <1>w, <2>3, SmallerRooted DEF WorkInv
  <2>5. Base' = Base
    BY <1>8 DEF Decide, storeVars, Base
  <2>6. /\ candidates' \in Seq(Row) /\ Len(candidates') = n
        /\ \A k \in 1..n : candidates'[k] \in Fresh(repo)
    BY <1>8, <2>2, CandidatesFresh DEF Decide
  <2>7. reply' = "decision" /\ n \in Nat
    BY <1>8, SystemAssumption DEF Decide, LastError, Last
  <2>8. UNCHANGED <<shared, elsewhere, repo, recorded, checkpoint, upto, before, done, held, outcome>>
    BY <1>8 DEF Decide
  <2>9. QED
    BY <1>k, <1>w, <2>1, <2>2, <2>3, <2>4, <2>5, <2>6, <2>7, <2>8 DEF WorkInv, Rooted, PC, Resting, Reply
<1>9. CASE BeginDeletions \/ Write1 \/ AfterUnread
  BY <1>1, <1>9, <1>w DEF BeginDeletions, Write1, AfterUnread, CloseEpisode, WorkInv, PC, Resting
<1>10. CASE UpsertNoOp
  <2>1. [id |-> New, of |-> {}] \in [id : Nat, of : SUBSET Nat]
    BY DEF New
  <2>2. done' \in Seq([id : Nat, of : SUBSET Nat]) /\ Len(done') = Len(done) + 1 /\ Len(done') <= Len(candidates)
    BY <1>10, <1>w, <2>1 DEF UpsertNoOp, WorkInv
  <2>3. ~CloseEpisode /\ pc' = "next"
    BY <1>10 DEF UpsertNoOp, CloseEpisode, storeVars, Resting
  <2>4. QED
    BY <1>10, <1>k, <1>w, <2>2, <2>3 DEF UpsertNoOp, WorkInv, Rooted, PC, Resting
<1>11. CASE UpsertList
  <2>1. ~CloseEpisode /\ tx # "unit"
    BY <1>11 DEF UpsertList, CloseEpisode, OpenInv
  <2>2. Superseded(view, candidates[Len(done) + 1]) \subseteq Ids(view)
    BY DEF Superseded, Active
  <2>3. \A i \in Ids(view) : view[i] \in Row
    BY DEF ShapeInv, StoreInv, Ids
  <2>4. RootedIn(held', view) /\ Base' = view
    BY <1>11, <2>1, <2>2, <2>3, RestrictedCopies DEF UpsertList, RootedIn, Base, storeVars
  <2>5. QED
    BY <1>11, <1>k, <1>w, <2>1, <2>4 DEF UpsertList, WorkInv, Rooted, PC, Resting
<1>12. CASE BeginUpsert
  <2>1. Len(rows) + 1 \in Nat /\ DOMAIN held \in SUBSET Nat
    BY RootedFinite DEF ShapeInv, StoreInv
  <2> DEFINE d == [id |-> Len(rows) + 1, of |-> DOMAIN held]
  <2>2. d \in [id : Nat, of : SUBSET Nat] /\ done' = Append(done, d)
    BY <1>12, <2>1 DEF BeginUpsert
  <2> HIDE DEF d
  <2>3. done' \in Seq([id : Nat, of : SUBSET Nat]) /\ Len(done') = Len(done) + 1 /\ Len(done') <= Len(candidates)
    BY <1>12, <1>w, <2>2 DEF BeginUpsert, WorkInv
  <2>4. ~CloseEpisode /\ pc' = "saving"
    BY <1>12 DEF BeginUpsert, CloseEpisode
  <2>5. QED
    BY <1>12, <1>k, <1>w, <2>3, <2>4 DEF BeginUpsert, WorkInv, Rooted, PC, Resting
<1>13. CASE CommitUnit
  <2>1. ~CloseEpisode /\ pc' = "next" /\ held' = <<>>
    BY <1>13 DEF CommitUnit, CloseEpisode
  <2>2. QED
    BY <1>13, <1>k, <1>w, <2>1, EmptyRooted DEF CommitUnit, WorkInv, Rooted, PC, Resting
<1>14. CASE AdvanceCheckpoint \/ Raise
  <2>1. ~CloseEpisode /\ pc' = "audit" /\ checkpoint' \in {checkpoint, upto} /\ outcome' \in {"clean", "raised"}
    BY <1>14 DEF AdvanceCheckpoint, Raise, CloseEpisode
  <2>2. UNCHANGED <<shared, elsewhere, repo, recorded, upto, before, listed, reply, deleted, candidates, done, held>>
    BY <1>14 DEF AdvanceCheckpoint, Raise
  <2>3. QED
    BY <1>k, <1>w, <2>1, <2>2 DEF WorkInv, Rooted, PC, Resting
<1>15. ASSUME NEW table, Serve(table)
       PROVE  WorkInv'
  BY <1>1, <1>15, <1>w DEF Serve, CloseEpisode, WorkInv
<1>16. CASE \/ \E i \in Ids(rows) : EndpointDelete(i) \/ \E v \in Value : EndpointUpdate(i, v)
            \/ \E item \in Item : EndpointAdd(item)
  BY <1>15, <1>16 DEF EndpointDelete, EndpointUpdate, EndpointAdd
<1>17. CASE UNCHANGED vars
  <2>1. Base' = Base
    BY <1>17 DEF vars, storeVars, Base
  <2>2. QED
    BY <1>17, <1>w, <2>1 DEF vars, WorkInv, Rooted
<1>18. QED
  BY <1>3, <1>4, <1>5, <1>6, <1>7, <1>8, <1>9, <1>10, <1>11, <1>12, <1>13, <1>14, <1>16, <1>17 DEF Next

LEMMA ShapeInit == Init => ShapeInv /\ OpenInv
<1> SUFFICES ASSUME Init
             PROVE  ShapeInv /\ OpenInv
  OBVIOUS
<1>1. rows = <<>> /\ view = <<>> /\ tx = "none" /\ todo = <<>> /\ pc = "down" /\ recorded = 0 /\ checkpoint = 0 /\ upto = 0
  BY DEF Init, StoreInit
<1>2. /\ before = <<>> /\ listed = <<>> /\ held = <<>> /\ reply = "none" /\ outcome = "none"
      /\ deleted = {} /\ candidates = <<>> /\ done = <<>>
  BY DEF Init
<1>3. shared \in BOOLEAN /\ elsewhere \in BOOLEAN /\ repo \in Repo
  BY DEF Init
<1>4. StoreInv
  BY <1>1 DEF StoreInv
<1>5. <<>> \in Seq(Row) /\ <<>> \in Seq([id : Nat, of : SUBSET Nat]) /\ Len(<<>>) = 0
  OBVIOUS
<1>6. WorkInv
  BY <1>1, <1>2, <1>3, <1>5, EmptyRooted DEF WorkInv, Rooted, PC, Resting
<1>7. QED
  BY <1>1, <1>4, <1>6 DEF ShapeInv, OpenInv

LEMMA ShapeHolds == Spec => [](ShapeInv /\ OpenInv)
<1>1. ShapeInv /\ OpenInv /\ [Next]_vars => ShapeInv' /\ OpenInv'
  BY StoreKept, WorkStep, OpenStep DEF ShapeInv
<1>2. QED
  BY <1>1, ShapeInit, PTL DEF Spec

EvidentInv == evident \in BOOLEAN

LEMMA EvidentHolds == Spec => []EvidentInv
<1>1. Init => EvidentInv
  BY DEF Init, EvidentInv
<1>2. EvidentInv /\ [Next]_vars => EvidentInv'
  BY DEF EvidentInv, audited, Next, vars, OpenEpisode, CloseEpisode, RecordMessage, RecordFails, Snapshot, List, NothingToAsk, AskFails,
     Decide, BeginDeletions, UpsertNoOp, UpsertList, BeginUpsert, Write1, CommitUnit, AdvanceCheckpoint, Raise,
     AfterUnread, Audited, EndpointDelete, EndpointUpdate, EndpointAdd, Serve, Idle
<1>3. QED
  BY <1>1, <1>2, PTL DEF Spec

\* The shape of every variable.
THEOREM CureTypeCorrect == Spec => []CureTypeOK
<1>1. ShapeInv /\ EvidentInv => CureTypeOK
  <2> SUFFICES ASSUME ShapeInv, EvidentInv
               PROVE  CureTypeOK
    OBVIOUS
  <2>1. Ids(Base) \subseteq Ids(view)
    BY DEF ShapeInv, StoreInv, Base, Ids
  <2>2. \A f : Rooted(f) => Copies(f)
    BY <2>1 DEF Rooted, RootedIn, Copies
  <2>3. QED
    BY <2>2 DEF ShapeInv, StoreInv, WorkInv, EvidentInv, CureTypeOK
<1>2. QED
  BY <1>1, ShapeHolds, EvidentHolds, PTL

\* Without a COMMIT that fails, a transaction is a unit.
SafeInv == ShapeInv /\ OpenInv /\ tx # "implicit"

LEMMA SafeStep ==
    ASSUME CommitFaults = FALSE, SafeInv, [Next]_vars
    PROVE  SafeInv'
<1>1. StoreStep
  BY StepOfStore DEF SafeInv
<1>2. tx' # "implicit"
  BY <1>1 DEF SafeInv, StoreStep, storeVars, Begin, WriteNext, Commit, RollBack, LoneWrite, LoneWriteFails,
     AfterFailedWrite, CommitElsewhere
<1>3. QED
  BY <1>2, StoreKept, WorkStep, OpenStep DEF SafeInv, ShapeInv

LEMMA SafeHolds == CommitFaults = FALSE /\ Spec => []SafeInv
<1> SUFFICES ASSUME CommitFaults = FALSE
             PROVE  Spec => []SafeInv
  OBVIOUS
<1>1. Init => SafeInv
  BY ShapeInit DEF SafeInv, Init, StoreInit
<1>2. SafeInv /\ [Next]_vars => SafeInv'
  BY SafeStep
<1>3. QED
  BY <1>1, <1>2, PTL DEF Spec

\* Between two operations no transaction is open and nothing is uncommitted, provided
\* no COMMIT fails (atomic, _write).
THEOREM NothingStaysOpen == CommitFaults = FALSE /\ Spec => []NothingLeftOpen
<1>1. SafeInv => NothingLeftOpen
  BY DEF SafeInv, ShapeInv, StoreInv, OpenInv, NothingLeftOpen
<1>2. QED
  BY <1>1, SafeHolds, PTL

-----------------------------------------------------------------------------
(* Tables.                                                                 *)

OneLive(t) ==
    \A i, j \in Ids(t) :
        Live(t[i]) /\ Live(t[j]) /\ t[i].layer = t[j].layer /\ t[i].key = t[j].key => i = j

Chained(t) ==
    \A i \in Ids(t) :
        /\ t[i].status = "superseded" <=> t[i].by # 0
        /\ t[i].by # 0 =>
              /\ t[i].by \in (i + 1)..Len(t)
              /\ i \in t[t[i].by].of
              /\ t[t[i].by].layer = t[i].layer /\ t[t[i].by].key = t[i].key
        /\ \A k \in t[i].of : k \in 1..(i - 1) /\ t[k].by = i

Sound(t) == OneLive(t) /\ Chained(t)

\* What a replacement makes of a table: the rows H give way to the new row m.
Succeeds(s, t, H, m) ==
    /\ Len(s) = Len(t) + 1
    /\ s[Len(t) + 1] = [m EXCEPT !.of = H]
    /\ \A i \in Ids(t) : s[i] = IF i \in H THEN [t[i] EXCEPT !.status = "superseded", !.by = Len(t) + 1] ELSE t[i]

\* The rows a replacement by m has to end: exactly the live ones of its layer and key.
Precedes(H, t, m) ==
    /\ H \subseteq Ids(t)
    /\ \A i \in Ids(t) : i \in H <=> Live(t[i]) /\ t[i].layer = m.layer /\ t[i].key = m.key

LEMMA IdsOf ==
    ASSUME NEW t \in Seq(Row)
    PROVE  Len(t) \in Nat /\ Ids(t) = 1..Len(t)
BY DEF Ids

LEMMA RowsOf ==
    ASSUME NEW t \in Seq(Row), NEW i \in Ids(t)
    PROVE  t[i] \in Row
BY DEF Ids

LEMMA SuccessionSound ==
    ASSUME NEW t \in Seq(Row), NEW s \in Seq(Row), NEW m \in Row, NEW H,
           Live(m), m.by = 0, Precedes(H, t, m), Succeeds(s, t, H, m), Sound(t)
    PROVE  Sound(s)
<1> DEFINE N == Len(t) + 1
<1>a. Len(s) = Len(t) + 1
  BY DEF Succeeds
<1>b. Len(t) \in Nat /\ Ids(t) = 1..Len(t) /\ Ids(s) = 1..Len(s)
  BY IdsOf
<1>1. Len(t) \in Nat /\ Ids(t) = 1..Len(t) /\ Ids(s) = 1..N /\ N # 0
  BY <1>a, <1>b
<1>2. \A i \in 1..Len(t) : t[i] \in Row
  OBVIOUS
<1>3. /\ s[N].layer = m.layer /\ s[N].key = m.key /\ s[N].status = m.status
      /\ s[N].by = 0 /\ s[N].of = H
  BY DEF Succeeds, Row
<1>4. \A i \in 1..Len(t) : s[i].layer = t[i].layer /\ s[i].key = t[i].key /\ s[i].of = t[i].of
  BY <1>1, <1>2 DEF Succeeds, Row
<1>5. \A i \in H : s[i].status = "superseded" /\ s[i].by = N
  BY <1>1, <1>2 DEF Succeeds, Precedes, Row
<1>6. \A i \in (1..Len(t)) \ H : s[i].status = t[i].status /\ s[i].by = t[i].by
  BY <1>1 DEF Succeeds
<1>7. H \subseteq 1..Len(t)
  BY <1>1 DEF Precedes
<1>8. \A i \in H : t[i].by = 0 /\ t[i].layer = m.layer /\ t[i].key = m.key
  BY <1>1, <1>7 DEF Precedes, Sound, Chained, Live, Inactive
<1>9. m.status # "superseded"
  BY DEF Live, Inactive
<1>10. OneLive(s)
  <2> SUFFICES ASSUME NEW i \in 1..N, NEW j \in 1..N, Live(s[i]), Live(s[j]), s[i].layer = s[j].layer, s[i].key = s[j].key
               PROVE  i = j
    BY <1>1 DEF OneLive
  <2>1. i \notin H /\ j \notin H
    BY <1>5 DEF Live, Inactive
  <2>2. CASE i \in 1..Len(t) /\ j \in 1..Len(t)
    BY <1>1, <1>4, <1>6, <2>1, <2>2 DEF Sound, OneLive, Live
  <2>3. ASSUME NEW k \in 1..Len(t), k \notin H
        PROVE  ~(Live(s[k]) /\ s[k].layer = m.layer /\ s[k].key = m.key)
    BY <1>1, <1>4, <1>6, <2>3 DEF Precedes, Live
  <2>4. CASE i = N /\ j \in 1..Len(t)
    BY <1>3, <2>1, <2>3, <2>4
  <2>5. CASE j = N /\ i \in 1..Len(t)
    BY <1>3, <2>1, <2>3, <2>5
  <2>6. (i = N \/ i \in 1..Len(t)) /\ (j = N \/ j \in 1..Len(t))
    BY <1>1
  <2>7. QED
    BY <2>2, <2>4, <2>5, <2>6
<1>11. Chained(s)
  <2> SUFFICES ASSUME NEW i \in 1..N
               PROVE  /\ s[i].status = "superseded" <=> s[i].by # 0
                      /\ s[i].by # 0 =>
                            /\ s[i].by \in (i + 1)..N
                            /\ i \in s[s[i].by].of
                            /\ s[s[i].by].layer = s[i].layer /\ s[s[i].by].key = s[i].key
                      /\ \A k \in s[i].of : k \in 1..(i - 1) /\ s[k].by = i
    BY <1>1 DEF Chained, Succeeds
  <2>1. CASE i = N
    <3>1. s[i].by = 0 /\ s[i].status # "superseded" /\ s[i].of = H
      BY <1>3, <1>9, <2>1
    <3>2. \A k \in H : k \in 1..(i - 1) /\ s[k].by = i
      <4> TAKE k \in H
      <4>1. k \in 1..Len(t) /\ s[k].by = N
        BY <1>5, <1>7
      <4>2. QED
        BY <1>1, <2>1, <4>1
    <3>3. QED
      BY <3>1, <3>2
  <2>2. ASSUME i \in 1..Len(t), NEW k \in s[i].of
        PROVE  k \in 1..(i - 1) /\ s[k].by = i
    <3>1. k \in 1..(i - 1) /\ t[k].by = i /\ i # 0
      BY <1>1, <1>4, <2>2 DEF Sound, Chained
    <3>2. k \notin H /\ k \in 1..Len(t)
      BY <1>1, <1>8, <2>2, <3>1
    <3>3. QED
      BY <1>6, <3>1, <3>2
  <2>3. CASE i \in H
    BY <1>1, <1>3, <1>4, <1>5, <1>7, <1>8, <2>2, <2>3
  <2>4. CASE i \in (1..Len(t)) \ H
    <3>1. s[i].status = t[i].status /\ s[i].by = t[i].by
      BY <1>6, <2>4
    <3>2. /\ t[i].status = "superseded" <=> t[i].by # 0
          /\ t[i].by # 0 =>
                /\ t[i].by \in (i + 1)..Len(t)
                /\ i \in t[t[i].by].of
                /\ t[t[i].by].layer = t[i].layer /\ t[t[i].by].key = t[i].key
      BY <1>1, <2>4 DEF Sound, Chained
    <3>3. t[i].by # 0 => t[i].by \in 1..Len(t) /\ t[i].by \in (i + 1)..N
      BY <1>1, <2>4, <3>2
    <3>4. QED
      BY <1>4, <2>2, <2>4, <3>1, <3>2, <3>3
  <2>5. QED
    BY <1>1, <2>1, <2>3, <2>4
<1>12. QED
  BY <1>10, <1>11 DEF Sound

LEMMA ErasureSound ==
    ASSUME NEW t \in Seq(Row), NEW s \in Seq(Row), Len(s) = Len(t), Sound(t),
           \A i \in Ids(t) : s[i] = t[i] \/ (Live(t[i]) /\ s[i] = [t[i] EXCEPT !.status = "deleted"])
    PROVE  Sound(s)
<1>1. Len(t) \in Nat /\ Ids(t) = 1..Len(t) /\ Ids(s) = 1..Len(t)
  BY DEF Ids
<1>2. \A i \in 1..Len(t) : t[i] \in Row
  OBVIOUS
<1>3. \A i \in 1..Len(t) :
        /\ s[i].layer = t[i].layer /\ s[i].key = t[i].key /\ s[i].of = t[i].of /\ s[i].by = t[i].by
        /\ s[i].status = t[i].status \/ (Live(t[i]) /\ s[i].status = "deleted")
  BY <1>1, <1>2 DEF Row
<1>4. \A i \in 1..Len(t) : /\ Live(s[i]) => Live(t[i])
                           /\ s[i].status = "superseded" <=> t[i].status = "superseded"
  BY <1>3 DEF Live, Inactive
<1>5. OneLive(s)
  BY <1>1, <1>3, <1>4 DEF Sound, OneLive
<1>6. Chained(s)
  <2> SUFFICES ASSUME NEW i \in 1..Len(t)
               PROVE  /\ s[i].status = "superseded" <=> s[i].by # 0
                      /\ s[i].by # 0 =>
                            /\ s[i].by \in (i + 1)..Len(t)
                            /\ i \in s[s[i].by].of
                            /\ s[s[i].by].layer = s[i].layer /\ s[s[i].by].key = s[i].key
                      /\ \A k \in s[i].of : k \in 1..(i - 1) /\ s[k].by = i
    BY <1>1 DEF Chained
  <2>1. /\ t[i].status = "superseded" <=> t[i].by # 0
        /\ t[i].by # 0 =>
              /\ t[i].by \in (i + 1)..Len(t)
              /\ i \in t[t[i].by].of
              /\ t[t[i].by].layer = t[i].layer /\ t[t[i].by].key = t[i].key
        /\ \A k \in t[i].of : k \in 1..(i - 1) /\ t[k].by = i
    BY <1>1 DEF Sound, Chained
  <2>2. t[i].by # 0 => t[i].by \in 1..Len(t)
    BY <1>1, <2>1
  <2>3. \A k \in t[i].of : k \in 1..Len(t)
    BY <1>1, <2>1
  <2>4. QED
    BY <1>3, <1>4, <2>1, <2>2, <2>3
<1>7. QED
  BY <1>5, <1>6 DEF Sound

LEMMA ReplacedSucceeds ==
    ASSUME NEW t \in Seq(Row), NEW m \in Row, NEW H \in SUBSET Ids(t)
    PROVE  Succeeds(Replaced(t, H, m), t, H, m)
<1> DEFINE R(i) == IF i > Len(t) THEN [m EXCEPT !.of = H]
                   ELSE IF i \in H THEN [t[i] EXCEPT !.status = "superseded", !.by = Len(t) + 1] ELSE t[i]
<1>1. Len(t) \in Nat /\ Ids(t) = 1..Len(t)
  BY IdsOf
<1>2. Replaced(t, H, m) = [i \in 1..(Len(t) + 1) |-> R(i)]
  BY DEF Replaced
<1> HIDE DEF R
<1>3. \A i \in 1..(Len(t) + 1) : Replaced(t, H, m)[i] = R(i)
  BY <1>2
<1>4. Len(t) + 1 \in Nat
  BY <1>1
<1>5. Len(Replaced(t, H, m)) = Len(t) + 1
  BY <1>2, <1>4
<1>6. Replaced(t, H, m)[Len(t) + 1] = R(Len(t) + 1)
  BY <1>1, <1>3
<1>7. R(Len(t) + 1) = [m EXCEPT !.of = H]
  BY <1>1 DEF R
<1>8. \A i \in 1..Len(t) : i \in 1..(Len(t) + 1) /\ ~(i > Len(t))
  BY <1>1
<1>9. \A i \in Ids(t) : Replaced(t, H, m)[i] =
           IF i \in H THEN [t[i] EXCEPT !.status = "superseded", !.by = Len(t) + 1] ELSE t[i]
  BY <1>1, <1>3, <1>8 DEF R
<1>10. QED
  BY <1>5, <1>6, <1>7, <1>9 DEF Succeeds

LEMMA SupersededPrecedes ==
    ASSUME NEW t, NEW m
    PROVE  Precedes(Superseded(t, m), t, m)
BY DEF Precedes, Superseded, Active

-----------------------------------------------------------------------------
(* Units on tables: t is the table on disk, s the connection's view of it, *)
(* ws the writes left.                                                     *)

Erased(r)    == [r EXCEPT !.status = "deleted"]
Ended(r, by) == [r EXCEPT !.status = "superseded", !.by = by]

Erasing(t, s, ws, D) ==
    /\ Len(s) = Len(t)
    /\ \A i \in Ids(t) : s[i] = t[i] \/ (i \in D /\ s[i] = Erased(t[i]))
    /\ \A n \in 1..Len(ws) : ws[n].id \in D /\ ws[n].row = Erased(t[ws[n].id])

\* The insertion is the p-th of the writes left; at 0 it has been made.
Left(t, ws, H, m, p) ==
    \A n \in 1..Len(ws) :
        /\ n < p => ws[n].id \in H
        /\ n = p => ws[n].id = New /\ ws[n].row = [m EXCEPT !.of = H]
        /\ n > p => ws[n].id \in H /\ ws[n].row = Ended(t[ws[n].id], Len(t) + 1)

LeftFor(ws, p, i) == \E n \in (p + 1)..Len(ws) : ws[n].id = i

Saving(t, s, ws, H, m, p) ==
    /\ Len(s) = IF p = 0 THEN Len(t) + 1 ELSE Len(t)
    /\ p = 0 => s[Len(t) + 1] = [m EXCEPT !.of = H]
    /\ \A i \in Ids(t) \ H : s[i] = t[i]
    /\ \A i \in H : LeftFor(ws, p, i) \/ (p = 0 /\ s[i] = Ended(t[i], Len(t) + 1))
    /\ Left(t, ws, H, m, p)

LEMMA HeadAndTail ==
    ASSUME NEW ws \in Seq(Write), ws # <<>>
    PROVE  /\ Len(ws) \in Nat /\ 1 <= Len(ws) /\ Head(ws) = ws[1] /\ Head(ws) \in Write
           /\ Tail(ws) \in Seq(Write) /\ Len(Tail(ws)) = Len(ws) - 1
           /\ \A n \in 1..Len(Tail(ws)) : n + 1 \in 1..Len(ws) /\ Tail(ws)[n] = ws[n + 1]
OBVIOUS

LEMMA Updated ==
    ASSUME NEW s \in Seq(Row), NEW w \in Write, w.id \in Ids(s)
    PROVE  /\ Len(Applied(s, w)) = Len(s) /\ Applied(s, w)[w.id] = w.row
           /\ \A i \in Ids(s) : i # w.id => Applied(s, w)[i] = s[i]
<1>1. Ids(s) = 1..Len(s) /\ Len(s) \in Nat
  BY IdsOf
<1>2. w.id # New
  BY <1>1 DEF New
<1>3. Applied(s, w) = [s EXCEPT ![w.id] = w.row]
  BY <1>2 DEF Applied
<1>4. QED
  BY <1>1, <1>3

LEMMA Inserted ==
    ASSUME NEW s \in Seq(Row), NEW w \in Write, w.id = New
    PROVE  /\ Len(Applied(s, w)) = Len(s) + 1 /\ Applied(s, w)[Len(s) + 1] = w.row
           /\ \A i \in Ids(s) : Applied(s, w)[i] = s[i]
<1>1. Ids(s) = 1..Len(s) /\ Len(s) \in Nat
  BY IdsOf
<1>2. Applied(s, w) = Append(s, w.row) /\ w.row \in Row
  BY DEF Applied, Write
<1>3. QED
  BY <1>1, <1>2

LEMMA EraseOne ==
    ASSUME NEW t \in Seq(Row), NEW s \in Seq(Row), NEW ws \in Seq(Write), NEW D,
           ws # <<>>, D \subseteq Ids(t), Erasing(t, s, ws, D)
    PROVE  Erasing(t, Applied(s, Head(ws)), Tail(ws), D)
<1> DEFINE w == ws[1]
           u == Applied(s, w)
<1>1. /\ Len(ws) \in Nat /\ 1 <= Len(ws) /\ Head(ws) = w /\ w \in Write
      /\ \A n \in 1..Len(Tail(ws)) : n + 1 \in 1..Len(ws) /\ Tail(ws)[n] = ws[n + 1]
  BY HeadAndTail
<1>2. w.id \in D /\ w.row = Erased(t[w.id])
  BY <1>1 DEF Erasing
<1>3. Ids(t) = 1..Len(t) /\ Ids(s) = 1..Len(s) /\ Len(s) = Len(t)
  BY IdsOf DEF Erasing
<1>4. w.id \in Ids(s) /\ w.id \in Ids(t)
  BY <1>2, <1>3
<1> HIDE DEF w
<1>5. Len(u) = Len(s) /\ u[w.id] = w.row /\ \A i \in Ids(s) : i # w.id => u[i] = s[i]
  BY <1>1, <1>4, Updated
<1> HIDE DEF u
<1>6. \A i \in Ids(t) : u[i] = t[i] \/ (i \in D /\ u[i] = Erased(t[i]))
  BY <1>2, <1>3, <1>5 DEF Erasing
<1>7. \A n \in 1..Len(Tail(ws)) : Tail(ws)[n].id \in D /\ Tail(ws)[n].row = Erased(t[Tail(ws)[n].id])
  BY <1>1 DEF Erasing
<1>8. Erasing(t, u, Tail(ws), D)
  BY <1>3, <1>5, <1>6, <1>7 DEF Erasing
<1>9. QED
  BY <1>1, <1>8 DEF u

\* Where the insertion is once the first of the writes left is made.
Nearer(p) == IF p = 0 THEN 0 ELSE p - 1

LEMMA SavingTail ==
    ASSUME NEW t \in Seq(Row), NEW s \in Seq(Row), NEW ws \in Seq(Write), NEW H, NEW m \in Row,
           NEW p \in 0..Len(ws), ws # <<>>, Saving(t, s, ws, H, m, p)
    PROVE  /\ Nearer(p) \in 0..Len(Tail(ws))
           /\ Left(t, Tail(ws), H, m, Nearer(p))
           /\ \A i : (i # ws[1].id \/ p # 0) /\ LeftFor(ws, p, i) => LeftFor(Tail(ws), Nearer(p), i)
<1> DEFINE q == Nearer(p)
<1> USE DEF Nearer
<1>1. /\ Len(ws) \in Nat /\ 1 <= Len(ws) /\ Len(Tail(ws)) = Len(ws) - 1
      /\ \A n \in 1..Len(Tail(ws)) : n + 1 \in 1..Len(ws) /\ Tail(ws)[n] = ws[n + 1]
  BY HeadAndTail
<1>2. q \in 0..Len(Tail(ws))
  BY <1>1
<1>3. ASSUME NEW n \in 1..Len(Tail(ws))
      PROVE  /\ n < q => Tail(ws)[n].id \in H
             /\ n = q => Tail(ws)[n].id = New /\ Tail(ws)[n].row = [m EXCEPT !.of = H]
             /\ n > q => Tail(ws)[n].id \in H /\ Tail(ws)[n].row = Ended(t[Tail(ws)[n].id], Len(t) + 1)
  <2>1. n + 1 \in 1..Len(ws) /\ Tail(ws)[n] = ws[n + 1]
    BY <1>1
  <2>2. /\ n + 1 < p => ws[n + 1].id \in H
        /\ n + 1 = p => ws[n + 1].id = New /\ ws[n + 1].row = [m EXCEPT !.of = H]
        /\ n + 1 > p => ws[n + 1].id \in H /\ ws[n + 1].row = Ended(t[ws[n + 1].id], Len(t) + 1)
    BY <2>1 DEF Saving, Left
  <2>3. (n < q => n + 1 < p) /\ (n = q => n + 1 = p) /\ (n > q => n + 1 > p)
    OBVIOUS
  <2>4. QED
    BY <2>1, <2>2, <2>3
<1>4. ASSUME NEW i, i # ws[1].id \/ p # 0, NEW n \in (p + 1)..Len(ws), ws[n].id = i
      PROVE  \E k \in (q + 1)..Len(Tail(ws)) : Tail(ws)[k].id = i
  <2>1. n - 1 \in (q + 1)..Len(Tail(ws)) /\ n - 1 \in 1..Len(Tail(ws)) /\ (n - 1) + 1 = n
    BY <1>1, <1>4
  <2>2. Tail(ws)[n - 1] = ws[n]
    BY <1>1, <2>1
  <2>3. QED
    BY <1>4, <2>1, <2>2
<1>5. QED
  BY <1>2, <1>3, <1>4 DEF Left, LeftFor

LEMMA SaveOne ==
    ASSUME NEW t \in Seq(Row), NEW s \in Seq(Row), NEW ws \in Seq(Write), NEW H, NEW m \in Row,
           NEW p \in 0..Len(ws), ws # <<>>, H \subseteq Ids(t), Saving(t, s, ws, H, m, p)
    PROVE  \E q \in 0..Len(Tail(ws)) : Saving(t, Applied(s, Head(ws)), Tail(ws), H, m, q)
<1> DEFINE w == ws[1]
           u == Applied(s, w)
           q == Nearer(p)
<1>1. Len(ws) \in Nat /\ 1 <= Len(ws) /\ Head(ws) = w /\ w \in Write
  BY HeadAndTail
<1>2. /\ p = 0 => q = 0
      /\ p = 1 => q = 0
      /\ p > 1 => q # 0
  BY DEF Nearer
<1>3. /\ q \in 0..Len(Tail(ws)) /\ Left(t, Tail(ws), H, m, q)
      /\ \A i : (i # w.id \/ p # 0) /\ LeftFor(ws, p, i) => LeftFor(Tail(ws), q, i)
  BY SavingTail
<1>4. Ids(t) = 1..Len(t) /\ Ids(s) = 1..Len(s) /\ Len(t) \in Nat
  BY IdsOf
<1>5. /\ Len(s) = IF p = 0 THEN Len(t) + 1 ELSE Len(t)
      /\ p = 0 => s[Len(t) + 1] = [m EXCEPT !.of = H]
      /\ \A i \in Ids(t) \ H : s[i] = t[i]
      /\ \A i \in H : LeftFor(ws, p, i) \/ (p = 0 /\ s[i] = Ended(t[i], Len(t) + 1))
  BY DEF Saving
<1>6. /\ 1 < p => w.id \in H
      /\ p = 1 => w.id = New /\ w.row = [m EXCEPT !.of = H]
      /\ p = 0 => w.id \in H /\ w.row = Ended(t[w.id], Len(t) + 1)
  <2>1. \A n \in 1..Len(ws) :
          /\ n < p => ws[n].id \in H
          /\ n = p => ws[n].id = New /\ ws[n].row = [m EXCEPT !.of = H]
          /\ n > p => ws[n].id \in H /\ ws[n].row = Ended(t[ws[n].id], Len(t) + 1)
    BY DEF Saving, Left
  <2>2. 1 \in 1..Len(ws)
    BY <1>1
  <2>3. /\ 1 < p => ws[1].id \in H
        /\ 1 = p => ws[1].id = New /\ ws[1].row = [m EXCEPT !.of = H]
        /\ 1 > p => ws[1].id \in H /\ ws[1].row = Ended(t[ws[1].id], Len(t) + 1)
    BY <2>1, <2>2
  <2> HIDE DEF w
  <2>4. QED
    BY <2>3 DEF w
<1>7. /\ Len(u) = IF q = 0 THEN Len(t) + 1 ELSE Len(t)
      /\ q = 0 => u[Len(t) + 1] = [m EXCEPT !.of = H]
      /\ \A i \in Ids(t) \ H : u[i] = t[i]
      /\ p = 0 => \A i \in H : \/ i = w.id /\ u[i] = Ended(t[i], Len(t) + 1)
                               \/ i # w.id /\ u[i] = s[i]
  <2> HIDE DEF w
  <2>1. CASE p = 1
    <3>1. Len(u) = Len(s) + 1 /\ u[Len(s) + 1] = w.row /\ \A i \in Ids(s) : u[i] = s[i]
      BY <1>1, <1>6, <2>1, Inserted
    <3> HIDE DEF u
    <3>2. q = 0 /\ Len(s) = Len(t) /\ w.row = [m EXCEPT !.of = H]
      BY <1>2, <1>5, <1>6, <2>1
    <3>3. \A i \in Ids(t) \ H : u[i] = t[i]
      BY <1>4, <1>5, <3>1, <3>2
    <3> HIDE DEF q
    <3>4. QED
      BY <2>1, <3>1, <3>2, <3>3
  <2>2. CASE p # 1
    <3>1. w.id \in H /\ w.id \in Ids(s) /\ Ids(t) \subseteq Ids(s)
      BY <1>4, <1>5, <1>6, <2>2
    <3>2. Len(u) = Len(s) /\ u[w.id] = w.row /\ \A i \in Ids(s) : i # w.id => u[i] = s[i]
      BY <1>1, <3>1, Updated
    <3> HIDE DEF u
    <3>b. q = 0 <=> p = 0
      BY <1>2, <2>2
    <3> HIDE DEF q
    <3>3. Len(u) = IF q = 0 THEN Len(t) + 1 ELSE Len(t)
      BY <1>5, <3>2, <3>b
    <3>4. \A i \in Ids(t) \ H : u[i] = t[i]
      BY <1>5, <3>1, <3>2
    <3>5. ASSUME q = 0
          PROVE  u[Len(t) + 1] = [m EXCEPT !.of = H]
      <4>1. p = 0 /\ Len(t) + 1 \in Ids(s) /\ Len(t) + 1 # w.id
        BY <1>4, <1>5, <3>1, <3>5, <3>b
      <4>2. QED
        BY <1>5, <3>2, <4>1
    <3>6. ASSUME p = 0, NEW i \in H
          PROVE  (i = w.id /\ u[i] = Ended(t[i], Len(t) + 1)) \/ (i # w.id /\ u[i] = s[i])
      BY <1>6, <3>1, <3>2, <3>6
    <3>7. QED
      BY <3>3, <3>4, <3>5, <3>6
  <2>3. QED
    BY <2>1, <2>2
<1> HIDE DEF w, u
<1> HIDE DEF q
<1>8. ASSUME NEW i \in H
      PROVE  LeftFor(Tail(ws), q, i) \/ (q = 0 /\ u[i] = Ended(t[i], Len(t) + 1))
  BY <1>2, <1>3, <1>5, <1>7
<1>9. Saving(t, u, Tail(ws), H, m, q)
  BY <1>3, <1>7, <1>8 DEF Saving
<1>10. QED
  BY <1>1, <1>3, <1>9 DEF u, w

LEMMA SavedSucceeds ==
    ASSUME NEW t \in Seq(Row), NEW s \in Seq(Row), NEW H, NEW m, Saving(t, s, <<>>, H, m, 0)
    PROVE  Succeeds(s, t, H, m)
<1>1. <<>> \in Seq(Write) /\ Len(<<>>) = 0 /\ 1..0 = {}
  OBVIOUS
<1>2. \A i \in H : s[i] = Ended(t[i], Len(t) + 1)
  BY <1>1 DEF Saving, LeftFor
<1>3. \A i \in Ids(t) : s[i] = IF i \in H THEN [t[i] EXCEPT !.status = "superseded", !.by = Len(t) + 1] ELSE t[i]
  BY <1>2 DEF Saving, Ended
<1>4. Len(s) = Len(t) + 1 /\ s[Len(t) + 1] = [m EXCEPT !.of = H]
  BY DEF Saving
<1>5. QED
  BY <1>3, <1>4 DEF Succeeds

LEMMA ErasedSound ==
    ASSUME NEW t \in Seq(Row), NEW s \in Seq(Row), NEW D, Erasing(t, s, <<>>, D), Sound(t),
           \A i \in D : Live(t[i])
    PROVE  Sound(s)
<1>1. \A i \in Ids(t) : s[i] = t[i] \/ (Live(t[i]) /\ s[i] = [t[i] EXCEPT !.status = "deleted"])
  BY DEF Erasing, Erased
<1>2. Len(s) = Len(t)
  BY DEF Erasing
<1>3. QED
  BY <1>1, <1>2, ErasureSound

-----------------------------------------------------------------------------
(* The history.                                                            *)

LEMMA BatchErases ==
    ASSUME ShapeInv, deleted \subseteq Ids(rows), \A i \in deleted : listed[i] = rows[i]
    PROVE  Erasing(rows, rows, DeletionBatch, deleted)
<1> DEFINE ids == SetToSeq(deleted)
           N == Cardinality(deleted)
<1>1. ids \in [1..N -> deleted] /\ N \in Nat
  BY RootedFinite, SetToSeqLists
<1>2. Len(ids) = N
  BY <1>1
<1>3. DeletionBatch = [n \in 1..N |-> [id |-> ids[n], row |-> Erased(listed[ids[n]])]]
  BY <1>2 DEF DeletionBatch, Erased
<1> HIDE DEF ids
<1>4. Len(DeletionBatch) = N
  BY <1>1, <1>3
<1>5. \A n \in 1..N : DeletionBatch[n].id = ids[n] /\ DeletionBatch[n].row = Erased(listed[ids[n]])
  BY <1>3
<1>6. \A n \in 1..N : ids[n] \in deleted /\ listed[ids[n]] = rows[ids[n]]
  BY <1>1
<1>7. QED
  BY <1>4, <1>5, <1>6 DEF Erasing

LEMMA Joined ==
    ASSUME NEW a \in Seq(Write), NEW w \in Write, NEW b \in Seq(Write)
    PROVE  LET u == a \o <<w>> \o b
           IN  /\ Len(a) \in Nat /\ Len(u) = Len(a) + 1 + Len(b)
               /\ \A n \in 1..Len(a) : u[n] = a[n]
               /\ u[Len(a) + 1] = w
               /\ \A n \in 1..Len(b) : u[Len(a) + 1 + n] = b[n]
               /\ \A n \in (Len(a) + 2)..Len(u) : n - (Len(a) + 1) \in 1..Len(b) /\ u[n] = b[n - (Len(a) + 1)]
<1> DEFINE v == a \o <<w>>
           u == v \o b
<1>1. Len(a) \in Nat /\ Len(b) \in Nat /\ <<w>> \in Seq(Write) /\ Len(<<w>>) = 1
  OBVIOUS
<1>2. /\ v \in Seq(Write) /\ Len(v) = Len(a) + 1
      /\ v[Len(a) + 1] = w /\ \A n \in 1..Len(a) : v[n] = a[n]
  BY <1>1
<1> HIDE DEF v
<1>3. Len(u) = Len(v) + Len(b) /\ \A n \in 1..Len(u) : u[n] = IF n <= Len(v) THEN v[n] ELSE b[n - Len(v)]
  BY <1>1, <1>2
<1> HIDE DEF u
<1>4. Len(u) = Len(a) + 1 + Len(b)
  BY <1>1, <1>2, <1>3
<1>5. \A n \in 1..Len(a) : n \in 1..Len(u) /\ n <= Len(v) /\ u[n] = a[n]
  BY <1>1, <1>2, <1>3
<1>6. u[Len(a) + 1] = w
  BY <1>1, <1>2, <1>3
<1>7. \A n \in (Len(a) + 2)..Len(u) : n - (Len(a) + 1) \in 1..Len(b) /\ u[n] = b[n - (Len(a) + 1)]
  BY <1>1, <1>2, <1>3
<1>8. ASSUME NEW n \in 1..Len(b)
      PROVE  u[Len(a) + 1 + n] = b[n]
  <2>1. Len(a) + 1 + n \in (Len(a) + 2)..Len(u) /\ (Len(a) + 1 + n) - (Len(a) + 1) = n
    BY <1>1, <1>4
  <2>2. QED
    BY <1>7, <2>1
<1>9. QED
  BY <1>1, <1>4, <1>5, <1>6, <1>7, <1>8 DEF u, v

LEMMA PassEnds ==
    ASSUME ShapeInv, NEW by \in Nat
    PROVE  /\ Pass(by) \in Seq(Write)
           /\ \A n \in 1..Len(Pass(by)) : Pass(by)[n].id \in DOMAIN held /\ Pass(by)[n].row = Ended(held[Pass(by)[n].id], by)
           /\ \A i \in DOMAIN held : \E n \in 1..Len(Pass(by)) : Pass(by)[n].id = i
<1> DEFINE W(i) == [id |-> i, row |-> [held[i] EXCEPT !.status = "superseded", !.by = by]]
           P == Pass(by)
<1>1. /\ P \in Seq(Write)
      /\ \A n \in 1..Len(P) : \E i \in DOMAIN held : P[n] = W(i)
      /\ \A i \in DOMAIN held : \E n \in 1..Len(P) : P[n] = W(i)
  BY PassType
<1>2. \A i : W(i).id = i /\ W(i).row = Ended(held[i], by)
  BY DEF Ended
<1> HIDE DEF W, P
<1>3. /\ \A n \in 1..Len(P) : P[n].id \in DOMAIN held /\ P[n].row = Ended(held[P[n].id], by)
      /\ \A i \in DOMAIN held : \E n \in 1..Len(P) : P[n].id = i
  BY <1>1, <1>2
<1>4. QED
  BY <1>1, <1>3 DEF P

LEMMA UnitSaves ==
    ASSUME ShapeInv, NEW m \in Row, DOMAIN held \subseteq Ids(rows), \A i \in DOMAIN held : held[i] = rows[i]
    PROVE  LET u == UpsertUnit(m, Len(rows) + 1)
           IN  \E p \in 0..Len(u) : Saving(rows, rows, u, DOMAIN held, m, p)
<1> DEFINE H == DOMAIN held
           N == Len(rows) + 1
           w == [id |-> New, row |-> [m EXCEPT !.of = H]]
           a == Pass(0)
           b == Pass(N)
           u == a \o <<w>> \o b
           p == Len(a) + 1
<1>1. rows \in Seq(Row) /\ Len(rows) \in Nat /\ N \in Nat
  BY DEF ShapeInv, StoreInv
<1>2. /\ a \in Seq(Write) /\ b \in Seq(Write)
      /\ \A n \in 1..Len(a) : a[n].id \in H
      /\ \A n \in 1..Len(b) : b[n].id \in H /\ b[n].row = Ended(held[b[n].id], N)
      /\ \A i \in H : \E n \in 1..Len(b) : b[n].id = i
  BY <1>1, PassEnds
<1>3. w \in Write
  <2>1. [m EXCEPT !.of = H] \in Row
    BY EditedType, RootedFinite
  <2>2. QED
    BY <2>1 DEF Write, New
<1>4. w.id = New /\ w.row = [m EXCEPT !.of = H]
  OBVIOUS
<1> HIDE DEF a, b, w
<1>5. /\ Len(a) \in Nat /\ Len(u) = Len(a) + 1 + Len(b) /\ Len(b) \in Nat
      /\ \A n \in 1..Len(a) : u[n] = a[n]
      /\ u[p] = w
      /\ \A n \in 1..Len(b) : u[p + n] = b[n]
      /\ \A n \in (Len(a) + 2)..Len(u) : n - p \in 1..Len(b) /\ u[n] = b[n - p]
  <2>1. LET k == Len(a)
        IN  /\ k \in Nat /\ Len(u) = k + 1 + Len(b)
            /\ \A n \in 1..k : u[n] = a[n]
            /\ u[k + 1] = w
            /\ \A n \in 1..Len(b) : u[k + 1 + n] = b[n]
            /\ \A n \in (k + 2)..Len(u) : n - (k + 1) \in 1..Len(b) /\ u[n] = b[n - (k + 1)]
    BY <1>2, <1>3, Joined
  <2>2. Len(b) \in Nat
    BY <1>2
  <2> HIDE DEF u
  <2>3. QED
    BY <2>1, <2>2
<1>6. UpsertUnit(m, N) = u
  BY UnitIsPasses DEF a, b, w
<1> HIDE DEF u
<1>7. p \in 0..Len(u) /\ p # 0
  BY <1>5
<1>8. Left(rows, u, H, m, p)
  <2> SUFFICES ASSUME NEW n \in 1..Len(u)
               PROVE  /\ n < p => u[n].id \in H
                      /\ n = p => u[n].id = New /\ u[n].row = [m EXCEPT !.of = H]
                      /\ n > p => u[n].id \in H /\ u[n].row = Ended(rows[u[n].id], Len(rows) + 1)
    BY DEF Left
  <2>1. CASE n < p
    <3>1. n \in 1..Len(a)
      BY <1>5, <2>1
    <3>2. QED
      BY <1>2, <1>5, <2>1, <3>1
  <2>2. CASE n = p
    BY <1>4, <1>5, <2>2
  <2>3. CASE n > p
    <3>1. n - p \in 1..Len(b) /\ u[n] = b[n - p]
      BY <1>5, <2>3
    <3>2. u[n].id \in H /\ u[n].row = Ended(held[u[n].id], N)
      BY <1>2, <3>1
    <3>3. QED
      BY <1>5, <2>3, <3>2
  <2>4. QED
    BY <1>5, <2>1, <2>2, <2>3
<1>9. ASSUME NEW i \in H
      PROVE  LeftFor(u, p, i)
  <2>1. PICK n \in 1..Len(b) : b[n].id = i
    BY <1>2
  <2>2. p + n \in (p + 1)..Len(u) /\ u[p + n] = b[n]
    BY <1>5
  <2>3. QED
    BY <2>1, <2>2 DEF LeftFor
<1> HIDE DEF p
<1>10. Saving(rows, rows, u, H, m, p)
  BY <1>7, <1>8, <1>9 DEF Saving
<1>11. QED
  BY <1>6, <1>7, <1>10

\* What an extraction has read is what the disk holds, and its unit is under way from there.
ReadInv ==
    /\ pc \in {"ask", "delete", "deleting"} =>
          \A i \in DOMAIN listed : i \in Ids(rows) /\ listed[i] = rows[i] /\ rows[i].layer \in {repo, General}
    /\ pc \in {"delete", "deleting"} => \A i \in deleted : Live(rows[i])
    /\ pc \in {"begin", "saving"} => \A i \in DOMAIN held : held[i] = rows[i]
    /\ pc = "begin" => Precedes(DOMAIN held, rows, candidates[Len(done) + 1])
    /\ pc = "saving" => 1 <= Len(done) /\ Precedes(DOMAIN held, rows, candidates[Len(done)])
    /\ pc = "deleting" => Erasing(rows, view, todo, deleted)
    /\ pc = "saving" => \E p \in 0..Len(todo) : Saving(rows, view, todo, DOMAIN held, candidates[Len(done)], p)

HistoryInv == ~shared => Sound(rows) /\ ReadInv

LEMMA EmptySound == Sound(<<>>)
BY DEF Sound, OneLive, Chained, Ids

LEMMA EndpointSound ==
    ASSUME rows \in Seq(Row), Sound(rows),
           \/ \E i \in Ids(rows) : EndpointDelete(i) \/ \E v \in Value : EndpointUpdate(i, v)
           \/ \E item \in Item : EndpointAdd(item)
    PROVE  Sound(rows')
<1>1. ASSUME NEW i \in Ids(rows), EndpointDelete(i)
      PROVE  Sound(rows')
  <2> DEFINE s == [rows EXCEPT ![i].status = "deleted"]
  <2>1. s \in Seq(Row)
    BY DeletedTable
  <2>2. Len(s) = Len(rows) /\ rows \in [1..Len(rows) -> Row] /\ Ids(rows) = 1..Len(rows)
    BY IdsOf
  <2>3. \A k \in Ids(rows) : s[k] = rows[k] \/ (Live(rows[k]) /\ s[k] = [rows[k] EXCEPT !.status = "deleted"])
    BY <1>1, <2>2 DEF EndpointDelete
  <2> HIDE DEF s
  <2>4. Sound(s)
    BY <2>1, <2>2, <2>3, ErasureSound
  <2>5. rows' = s
    BY <1>1 DEF EndpointDelete, Serve, CommitElsewhere, s
  <2>6. QED
    BY <2>4, <2>5
<1>2. ASSUME NEW i \in Ids(rows), NEW v \in Value, EndpointUpdate(i, v)
      PROVE  Sound(rows')
  <2> DEFINE m == [rows[i] EXCEPT !.value = v, !.status = "approved", !.of = {}]
  <2>1. rows[i] \in Row /\ Live(rows[i])
    <3>1. rows[i] \in Row
      BY RowsOf
    <3>2. QED
      BY <1>2, <3>1, Zenon DEF EndpointUpdate
  <2>2. m \in Row /\ m.by = rows[i].by /\ m.layer = rows[i].layer /\ m.key = rows[i].key /\ m.status = "approved"
    BY <2>1 DEF Row, Status
  <2>3. m.by = 0 /\ Live(m)
    BY <2>1, <2>2 DEF Live, Inactive, Sound, Chained
  <2>4. {i} \in SUBSET Ids(rows)
    OBVIOUS
  <2>5. Precedes({i}, rows, m)
    BY <2>1, <2>2 DEF Precedes, Sound, OneLive
  <2> HIDE DEF m
  <2>6. Replaced(rows, {i}, m) \in Seq(Row) /\ Succeeds(Replaced(rows, {i}, m), rows, {i}, m)
    BY <2>2, <2>4, ReplacedType, ReplacedSucceeds
  <2>7. Sound(Replaced(rows, {i}, m))
    BY <2>2, <2>3, <2>5, <2>6, SuccessionSound
  <2>8. rows' = Replaced(rows, {i}, m)
    BY <1>2 DEF EndpointUpdate, Serve, CommitElsewhere, m
  <2>9. QED
    BY <2>7, <2>8
<1>3. ASSUME NEW item \in Item, EndpointAdd(item)
      PROVE  Sound(rows')
  <2> DEFINE m == MemoryOf(item, General)
             H == Superseded(rows, m)
  <2>1. m \in Row /\ m.by = 0 /\ Live(m)
    BY MemoryIsFresh DEF Fresh, Layer
  <2>2. rows' = Replaced(rows, H, m)
    BY <1>3 DEF EndpointAdd, Serve, CommitElsewhere
  <2> HIDE DEF m
  <2>3. Precedes(H, rows, m)
    BY SupersededPrecedes
  <2>4. H \in SUBSET Ids(rows)
    BY <2>3 DEF Precedes
  <2> HIDE DEF H
  <2>5. Replaced(rows, H, m) \in Seq(Row) /\ Succeeds(Replaced(rows, H, m), rows, H, m)
    BY <2>1, <2>4, ReplacedType, ReplacedSucceeds
  <2>6. QED
    BY <2>1, <2>2, <2>3, <2>5, SuccessionSound
<1>4. QED
  BY <1>1, <1>2, <1>3

\* What the commit of a unit makes of the disk.
LEMMA CommitSound ==
    ASSUME SafeInv, ~shared, Sound(rows), ReadInv, CommitUnit
    PROVE  /\ Sound(rows')
           /\ \A i \in Ids(rows) : rows'[i] # rows[i] =>
                 /\ rows[i].layer \in {repo, General}
                 /\ pc = "saving" => rows[i].layer = candidates[Len(done)].layer
<1>1. rows \in Seq(Row) /\ view \in Seq(Row) /\ rows' = view /\ todo = <<>> /\ Len(todo) = 0
  BY DEF SafeInv, ShapeInv, StoreInv, CommitUnit, Commit
<1>2. CASE pc = "deleting"
  <2>1. Erasing(rows, view, <<>>, deleted) /\ \A i \in deleted : Live(rows[i])
    BY <1>1, <1>2 DEF ReadInv
  <2>2. Sound(view)
    BY <1>1, <2>1, ErasedSound
  <2>3. \A i \in deleted : rows[i].layer \in {repo, General}
    BY <1>2 DEF ReadInv, SafeInv, ShapeInv, WorkInv
  <2>4. QED
    BY <1>1, <1>2, <2>1, <2>2, <2>3 DEF Erasing
<1>3. CASE pc = "saving"
  <2> DEFINE m == candidates[Len(done)]
             H == DOMAIN held
  <2>1. Len(done) \in 1..Len(candidates)
    BY <1>3 DEF ReadInv, SafeInv, ShapeInv, WorkInv
  <2>2. m \in Fresh(repo)
    BY <2>1 DEF SafeInv, ShapeInv, WorkInv
  <2>3. Precedes(H, rows, m) /\ \E p \in 0..Len(todo) : Saving(rows, view, todo, H, m, p)
    BY <1>3 DEF ReadInv
  <2> HIDE DEF m, H
  <2>4. m \in Row /\ Live(m) /\ m.by = 0 /\ m.layer \in {repo, General}
    BY <2>2 DEF Fresh
  <2>5. Saving(rows, view, <<>>, H, m, 0)
    BY <1>1, <2>3
  <2>6. Succeeds(view, rows, H, m)
    BY <1>1, <2>5, SavedSucceeds
  <2>7. Sound(view)
    BY <1>1, <2>3, <2>4, <2>6, SuccessionSound
  <2>8. \A i \in Ids(rows) : view[i] # rows[i] => i \in H
    BY <2>6 DEF Succeeds
  <2>9. \A i \in H : rows[i].layer = m.layer
    BY <2>3 DEF Precedes
  <2>10. QED
    BY <1>1, <2>4, <2>7, <2>8, <2>9 DEF m
<1>4. QED
  BY <1>2, <1>3 DEF CommitUnit

\* A step outside the extraction's reading and writing.
LEMMA CalmRead ==
    ASSUME pc' \notin {"ask", "delete", "deleting", "begin", "saving"}
    PROVE  ReadInv'
BY DEF ReadInv

EndpointWrites ==
    \/ \E i \in Ids(rows) : EndpointDelete(i) \/ \E v \in Value : EndpointUpdate(i, v)
    \/ \E item \in Item : EndpointAdd(item)

LEMMA SharedStays ==
    ASSUME [Next]_vars
    PROVE  shared' = shared
BY DEF Next, vars, OpenEpisode, CloseEpisode, RecordMessage, RecordFails, Snapshot, List, NothingToAsk, AskFails,
   Decide, BeginDeletions, UpsertNoOp, UpsertList, BeginUpsert, Write1, CommitUnit, AdvanceCheckpoint, Raise,
   AfterUnread, Audited, EndpointDelete, EndpointUpdate, EndpointAdd, Serve

\* What an extraction has read stays what the disk holds, unless the endpoint writes during it.
LEMMA ReadStep ==
    ASSUME SafeInv, ReadInv, [Next]_vars, EndpointWrites => pc \in Resting
    PROVE  ReadInv' /\ (rows' = rows \/ CommitUnit \/ EndpointWrites)
<1>b. ShapeInv /\ StoreInv /\ WorkInv /\ OpenInv
  BY DEF SafeInv, ShapeInv
<1>c. rows \in Seq(Row) /\ (pc \notin {"deleting", "saving"} => view = rows /\ Base = rows)
  BY <1>b DEF SafeInv, StoreInv, OpenInv, Base
<1>2. CASE \/ \E r \in Repo : OpenEpisode(r)
           \/ CloseEpisode \/ RecordMessage \/ RecordFails
           \/ Snapshot \/ UpsertNoOp \/ AdvanceCheckpoint \/ Raise \/ AfterUnread \/ Audited
           \/ \E run \in Calls : AskFails(run)
  <2>1. pc' \notin {"ask", "delete", "deleting", "begin", "saving"}
    BY <1>2 DEF OpenEpisode, CloseEpisode, RecordMessage, RecordFails, Snapshot, UpsertNoOp, AdvanceCheckpoint,
       AllStored, Raise, AfterUnread, Audited, AskFails
  <2>2. rows' = rows
    BY <1>2, <1>c DEF OpenEpisode, CloseEpisode, RecordMessage, RecordFails, Snapshot, UpsertNoOp, AdvanceCheckpoint,
       Raise, AfterUnread, Audited, AskFails, RollBack, LoneWrite, LoneWriteFails, CommitFails, storeVars
  <2>3. QED
    BY <2>1, <2>2, CalmRead
<1>3. CASE List
  <2>1. pc = "list" /\ pc' = "ask" /\ listed' = Restricted(view, Visible(view, repo))
        /\ rows' = rows /\ repo' = repo
    BY <1>3 DEF List, storeVars, session
  <2>2. view = rows
    BY <1>c, <2>1
  <2>3. repo \in Repo /\ repo # General
    BY <1>b, LayerAssumption DEF WorkInv
  <2>4. \A i \in Visible(rows, repo) : i \in Ids(rows) /\ rows[i].layer \in {repo, General}
    BY <2>3 DEF Visible
  <2>5. DOMAIN listed' = Visible(rows, repo) /\ \A i \in Visible(rows, repo) : listed'[i] = rows[i]
    BY <2>1, <2>2, RestrictedCopies
  <2>6. ReadInv'
    BY <2>1, <2>4, <2>5 DEF ReadInv
  <2>7. QED
    BY <2>1, <2>6
<1>4. CASE NothingToAsk
  <2>1. pc = "ask" /\ pc' = "delete" /\ listed' = <<>> /\ deleted' = deleted /\ rows' = rows
    BY <1>4 DEF NothingToAsk, storeVars, decision
  <2>2. deleted = {}
    BY <1>b, <2>1 DEF WorkInv
  <2>3. ReadInv'
    BY <2>1, <2>2 DEF ReadInv
  <2>4. QED
    BY <2>1, <2>3
<1>5. ASSUME NEW targets, NEW items, Decide(targets, items)
      PROVE  ReadInv' /\ rows' = rows
  <2>1. /\ pc = "ask" /\ pc' = "delete" /\ rows' = rows /\ repo' = repo
        /\ deleted' = UNION {Matching(listed, d[1], d[2], repo) : d \in targets}
        /\ listed' = Restricted(listed, deleted')
    BY <1>5 DEF Decide, storeVars, session
  <2>2. \A i \in deleted' : i \in DOMAIN listed /\ Live(listed[i])
    BY <2>1 DEF Matching, Addressed
  <2>3. DOMAIN listed' = deleted' /\ \A i \in deleted' : listed'[i] = listed[i]
    BY <2>1, RestrictedCopies
  <2>4. \A i \in DOMAIN listed : i \in Ids(rows) /\ listed[i] = rows[i] /\ rows[i].layer \in {repo, General}
    BY <2>1 DEF ReadInv
  <2>5. ReadInv'
    BY <2>1, <2>2, <2>3, <2>4 DEF ReadInv
  <2>6. QED
    BY <2>1, <2>5
<1>6. CASE BeginDeletions
  <2>1. /\ pc = "delete" /\ pc' = "deleting" /\ rows' = rows /\ repo' = repo
        /\ listed' = listed /\ deleted' = deleted /\ view' = rows /\ todo' = DeletionBatch
    BY <1>6 DEF BeginDeletions, Begin, session, work, decision
  <2>2. \A i \in DOMAIN listed : i \in Ids(rows) /\ listed[i] = rows[i] /\ rows[i].layer \in {repo, General}
    BY <2>1 DEF ReadInv
  <2>3. \A i \in deleted : Live(rows[i])
    BY <2>1 DEF ReadInv
  <2>4. deleted \subseteq DOMAIN listed
    BY <1>b DEF WorkInv
  <2>5. Erasing(rows, rows, DeletionBatch, deleted)
    BY <1>b, <2>2, <2>4, BatchErases
  <2>6. Erasing(rows', view', todo', deleted')
    BY <2>1, <2>5
  <2>7. ReadInv'
    BY <2>1, <2>2, <2>3, <2>6 DEF ReadInv
  <2>8. QED
    BY <2>1, <2>7
<1>7. CASE UpsertList
  <2> DEFINE m == candidates[Len(done) + 1]
  <2>1. /\ pc = "next" /\ pc' = "begin" /\ rows' = rows
        /\ candidates' = candidates /\ done' = done /\ held' = Restricted(view, Superseded(view, m))
    BY <1>7 DEF UpsertList, storeVars, decision
  <2>2. view = rows
    BY <1>c, <2>1
  <2> HIDE DEF m
  <2>3. DOMAIN held' = Superseded(rows, m) /\ \A i \in Superseded(rows, m) : held'[i] = rows[i]
    BY <2>1, <2>2, RestrictedCopies
  <2>4. Precedes(DOMAIN held', rows', m)
    BY <2>1, <2>3, SupersededPrecedes
  <2>5. m = candidates'[Len(done') + 1]
    BY <2>1 DEF m
  <2>6. ReadInv'
    BY <2>1, <2>3, <2>4, <2>5 DEF ReadInv
  <2>7. QED
    BY <2>1, <2>6
<1>8. CASE BeginUpsert
  <2> DEFINE m == candidates[Len(done) + 1]
             u == UpsertUnit(m, Len(rows) + 1)
  <2>1. /\ pc = "begin" /\ pc' = "saving" /\ rows' = rows
        /\ candidates' = candidates /\ held' = held /\ view' = rows /\ todo' = u
        /\ done' = Append(done, [id |-> Len(rows) + 1, of |-> DOMAIN held])
    BY <1>8 DEF BeginUpsert, Begin, decision
  <2>2. Len(done) \in Nat /\ Len(done') = Len(done) + 1 /\ Len(done) + 1 \in 1..Len(candidates)
    <3>1. done \in Seq([id : Nat, of : SUBSET Nat]) /\ Len(done) < Len(candidates) /\ candidates \in Seq(Row)
      BY <1>b, <2>1 DEF WorkInv
    <3>2. QED
      BY <2>1, <3>1
  <2>3. m = candidates'[Len(done')] /\ m \in Row
    <3>1. candidates \in Seq(Row)
      BY <1>b DEF WorkInv
    <3>2. QED
      BY <2>1, <2>2, <3>1
  <2>4. Precedes(DOMAIN held, rows, m) /\ \A i \in DOMAIN held : held[i] = rows[i]
    BY <2>1 DEF ReadInv
  <2> HIDE DEF m
  <2>5. \E p \in 0..Len(u) : Saving(rows, rows, u, DOMAIN held, m, p)
    BY <1>b, <2>3, <2>4, UnitSaves DEF Precedes
  <2> HIDE DEF u
  <2>6. 1 <= Len(done')
    BY <2>2
  <2>7. Precedes(DOMAIN held', rows', candidates'[Len(done')])
    BY <2>1, <2>3, <2>4
  <2>8. \E p \in 0..Len(todo') : Saving(rows', view', todo', DOMAIN held', candidates'[Len(done')], p)
    BY <2>1, <2>3, <2>5
  <2>9. ReadInv'
    BY <2>1, <2>4, <2>6, <2>7, <2>8 DEF ReadInv
  <2>10. QED
    BY <2>1, <2>9
<1>9. CASE Write1
  <2>1. /\ pc \in {"deleting", "saving"} /\ pc' = pc /\ rows' = rows /\ repo' = repo
        /\ listed' = listed /\ deleted' = deleted /\ held' = held /\ candidates' = candidates /\ done' = done
        /\ todo # <<>> /\ todo' = Tail(todo) /\ view' = Applied(view, Head(todo))
    BY <1>9 DEF Write1, WriteNext, CommitsNow, session, work, decision
  <2>2. view \in Seq(Row) /\ todo \in Seq(Write)
    BY <1>b DEF StoreInv
  <2>3. CASE pc = "deleting"
    <3>1. Erasing(rows, view, todo, deleted) /\ deleted \subseteq Ids(rows)
      BY <1>b, <2>3 DEF ReadInv, WorkInv
    <3>2. Erasing(rows, Applied(view, Head(todo)), Tail(todo), deleted)
      BY <1>c, <2>1, <2>2, <3>1, EraseOne
    <3>3. Erasing(rows', view', todo', deleted')
      BY <2>1, <3>2
    <3>4. ReadInv'
      BY <2>1, <2>3, <3>3 DEF ReadInv
    <3>5. QED
      BY <2>1, <3>4
  <2>4. CASE pc = "saving"
    <3> DEFINE m == candidates[Len(done)]
    <3>1. Len(done) \in 1..Len(candidates)
      BY <1>b, <2>4 DEF ReadInv, WorkInv
    <3>2. m \in Row
      BY <1>b, <3>1 DEF WorkInv
    <3>3. Precedes(DOMAIN held, rows, m) /\ \E p \in 0..Len(todo) : Saving(rows, view, todo, DOMAIN held, m, p)
      BY <2>4 DEF ReadInv
    <3> HIDE DEF m
    <3>4. DOMAIN held \subseteq Ids(rows)
      BY <3>3 DEF Precedes
    <3>5. \E q \in 0..Len(Tail(todo)) : Saving(rows, Applied(view, Head(todo)), Tail(todo), DOMAIN held, m, q)
      BY <1>c, <2>1, <2>2, <3>2, <3>3, <3>4, SaveOne
    <3>6. \E q \in 0..Len(todo') : Saving(rows', view', todo', DOMAIN held', candidates'[Len(done')], q)
      BY <2>1, <3>5 DEF m
    <3>7. ReadInv'
      BY <2>1, <2>4, <3>6 DEF ReadInv
    <3>8. QED
      BY <2>1, <3>7
  <2>5. QED
    BY <2>1, <2>3, <2>4
<1>10. CASE CommitUnit
  <2>1. pc' = "next"
    BY <1>10 DEF CommitUnit
  <2>2. ReadInv'
    BY <2>1, CalmRead
  <2>3. QED
    BY <1>10, <2>2
<1>11. CASE EndpointWrites
  <2>1. pc \in Resting /\ pc' = pc
    BY <1>11 DEF EndpointWrites, EndpointDelete, EndpointUpdate, EndpointAdd, Serve
  <2>2. ReadInv'
    BY <2>1, CalmRead DEF Resting
  <2>3. QED
    BY <1>11, <2>2
<1>12. CASE UNCHANGED vars
  BY <1>12 DEF vars, storeVars, session, work, decision, ReadInv
<1>13. QED
  BY <1>2, <1>3, <1>4, <1>5, <1>6, <1>7, <1>8, <1>9, <1>10, <1>11, <1>12 DEF Next, EndpointWrites

LEMMA HistoryStep ==
    ASSUME SafeInv, HistoryInv, ~shared, [Next]_vars
    PROVE  /\ Sound(rows') /\ ReadInv'
           /\ \A i \in Ids(rows) : pc \notin Resting /\ rows'[i] # rows[i] =>
                 /\ rows[i].layer \in {repo, General}
                 /\ pc = "saving" => rows[i].layer = candidates[Len(done)].layer
<1>1. Sound(rows) /\ ReadInv /\ rows \in Seq(Row)
  BY DEF HistoryInv, SafeInv, ShapeInv, StoreInv
<1>2. EndpointWrites => pc \in Resting
  BY DEF EndpointWrites, EndpointDelete, EndpointUpdate, EndpointAdd, Serve, Serves
<1>3. ReadInv' /\ (rows' = rows \/ CommitUnit \/ EndpointWrites)
  BY <1>1, <1>2, ReadStep
<1>4. CASE rows' = rows
  BY <1>1, <1>3, <1>4
<1>5. CASE CommitUnit
  BY <1>1, <1>3, <1>5, CommitSound
<1>6. CASE EndpointWrites
  BY <1>1, <1>2, <1>3, <1>6, EndpointSound DEF EndpointWrites
<1>7. QED
  BY <1>3, <1>4, <1>5, <1>6

LEMMA HistoryHolds == CommitFaults = FALSE /\ Spec => [](SafeInv /\ HistoryInv)
<1> SUFFICES ASSUME CommitFaults = FALSE
             PROVE  Spec => [](SafeInv /\ HistoryInv)
  OBVIOUS
<1>1. Init => HistoryInv
  BY EmptySound DEF Init, StoreInit, HistoryInv, ReadInv
<1>2. SafeInv /\ HistoryInv /\ [Next]_vars => HistoryInv'
  <2> SUFFICES ASSUME SafeInv, HistoryInv, [Next]_vars, ~shared'
               PROVE  Sound(rows') /\ ReadInv'
    BY DEF HistoryInv
  <2>1. shared' = shared
    BY SharedStays
  <2>2. QED
    BY <2>1, HistoryStep
<1>3. QED
  BY <1>1, <1>2, SafeHolds, PTL DEF Spec

\* A layer never has two live rows for one key on disk (atomic, _upsert_memory,
\* memory_replace), provided no COMMIT fails.
THEOREM OneRowLives == CommitFaults = FALSE /\ Spec => []OneLiveRow
<1>1. HistoryInv => OneLiveRow
  BY DEF HistoryInv, Sound, OneLive, OneLiveRow
<1>2. QED
  BY <1>1, HistoryHolds, PTL

\* The chains of superseded rows on disk are whole, provided no COMMIT fails.
THEOREM HistoryIsWhole == CommitFaults = FALSE /\ Spec => []ChainsSound
<1>1. HistoryInv => ChainsSound
  BY DEF HistoryInv, Sound, Chained, ChainsSound
<1>2. QED
  BY <1>1, HistoryHolds, PTL

\* An extraction ends no row of another repository, a candidate none of another layer
\* (_upsert_memory, memory_matches_delete_scope), provided no COMMIT fails.
THEOREM LayersStayApart == CommitFaults = FALSE /\ Spec => LayersIsolated
<1> SUFFICES ASSUME CommitFaults = FALSE
             PROVE  Spec => LayersIsolated
  OBVIOUS
<1> DEFINE Kept == \A i \in Ids(rows) :
                      ~shared /\ pc \notin Resting /\ rows'[i] # rows[i] =>
                          /\ rows[i].layer \in {repo, General}
                          /\ pc = "saving" => rows[i].layer = candidates[Len(done)].layer
<1>1. SafeInv /\ HistoryInv /\ [Next]_vars => Kept
  BY HistoryStep
<1>2. SafeInv /\ HistoryInv /\ [Next]_vars => [Kept]_vars
  BY <1>1
<1>3. QED
  BY <1>2, HistoryHolds, PTL DEF Spec, LayersIsolated

-----------------------------------------------------------------------------
(* Tables in time: no row changes its layer, key or value, and none that   *)
(* has been ended lives again, whoever writes.                             *)

Cols(r, s) == r.layer = s.layer /\ r.key = s.key /\ r.value = s.value

Outlives(s, t) ==
    /\ Len(t) <= Len(s)
    /\ \A i \in Ids(t) : Cols(s[i], t[i]) /\ (Live(s[i]) => Live(t[i]))

LEMMA OutlivesSelf ==
    ASSUME NEW t \in Seq(Row)
    PROVE  Outlives(t, t)
BY DEF Outlives, Cols

\* A write that ends a row of t, or makes a new one.
Proper(w, t) == w.id = New \/ (w.id \in Ids(t) /\ Cols(w.row, t[w.id]) /\ ~Live(w.row))

LEMMA ProperOutlives ==
    ASSUME NEW t \in Seq(Row), NEW s \in Seq(Row), NEW w \in Write, Outlives(s, t), Proper(w, t)
    PROVE  Outlives(Applied(s, w), t)
<1>1. Len(t) \in Nat /\ Len(s) \in Nat /\ Ids(t) = 1..Len(t) /\ Ids(s) = 1..Len(s) /\ Len(t) <= Len(s)
  BY IdsOf DEF Outlives
<1>2. Ids(t) \subseteq Ids(s)
  BY <1>1
<1>3. CASE w.id = New
  BY <1>1, <1>2, <1>3, Inserted DEF Outlives
<1>4. CASE w.id # New
  <2>1. w.id \in Ids(t) /\ Cols(w.row, t[w.id]) /\ ~Live(w.row) /\ w.id \in Ids(s)
    BY <1>2, <1>4 DEF Proper
  <2>2. Len(Applied(s, w)) = Len(s) /\ Applied(s, w)[w.id] = w.row /\ \A i \in Ids(s) : i # w.id => Applied(s, w)[i] = s[i]
    BY <2>1, Updated
  <2>3. QED
    BY <1>1, <1>2, <2>1, <2>2 DEF Outlives
<1>5. QED
  BY <1>3, <1>4

LEMMA EditKeeps ==
    ASSUME NEW r \in Row, NEW by \in Nat
    PROVE  /\ Cols(Erased(r), r) /\ ~Live(Erased(r))
           /\ Cols(Ended(r, by), r) /\ ~Live(Ended(r, by))
BY DEF Erased, Ended, Cols, Live, Inactive, Row

LEMMA EndpointOutlives ==
    ASSUME rows \in Seq(Row), EndpointWrites
    PROVE  rows' \in Seq(Row) /\ Outlives(rows', rows)
<1>0. Len(rows) \in Nat /\ Ids(rows) = 1..Len(rows) /\ \A i \in Ids(rows) : rows[i] \in Row
  BY IdsOf, RowsOf
<1>a. ASSUME NEW m \in Row, NEW H \in SUBSET Ids(rows), rows' = Replaced(rows, H, m)
      PROVE  rows' \in Seq(Row) /\ Outlives(rows', rows)
  <2>1. rows' \in Seq(Row) /\ Succeeds(rows', rows, H, m)
    BY <1>a, ReplacedType, ReplacedSucceeds
  <2>2. Len(rows) <= Len(rows')
    <3>1. Len(rows') = Len(rows) + 1
      BY <2>1 DEF Succeeds
    <3>2. QED
      BY <1>0, <3>1
  <2>3. \A i \in Ids(rows) : rows'[i] = rows[i] \/ rows'[i] = Ended(rows[i], Len(rows) + 1)
    BY <2>1 DEF Succeeds, Ended
  <2>4. Len(rows) + 1 \in Nat
    BY <1>0
  <2>5. \A i \in Ids(rows) : Cols(rows'[i], rows[i]) /\ (Live(rows'[i]) => Live(rows[i]))
    <3>1. \A i \in Ids(rows) : Cols(Ended(rows[i], Len(rows) + 1), rows[i]) /\ ~Live(Ended(rows[i], Len(rows) + 1))
      BY <1>0, <2>4, EditKeeps
    <3>2. \A i \in Ids(rows) : Cols(rows[i], rows[i])
      BY DEF Cols
    <3>3. QED
      BY <2>3, <3>1, <3>2
  <2>6. QED
    BY <2>1, <2>2, <2>5 DEF Outlives
<1>1. ASSUME NEW i \in Ids(rows), EndpointDelete(i)
      PROVE  rows' \in Seq(Row) /\ Outlives(rows', rows)
  <2> DEFINE s == [rows EXCEPT ![i].status = "deleted"]
  <2>1. s \in Seq(Row)
    BY DeletedTable
  <2>2. Len(s) = Len(rows) /\ \A k \in Ids(rows) : s[k] = rows[k] \/ (k = i /\ s[k] = Erased(rows[k]))
    BY <1>0 DEF Erased
  <2>3. rows' = s
    BY <1>1 DEF EndpointDelete, Serve, CommitElsewhere
  <2> HIDE DEF s
  <2>4. \A k \in Ids(rows) : Cols(Erased(rows[k]), rows[k]) /\ ~Live(Erased(rows[k])) /\ Cols(rows[k], rows[k])
    <3>1. \A k \in Ids(rows) : Cols(Erased(rows[k]), rows[k]) /\ ~Live(Erased(rows[k]))
      BY <1>0, EditKeeps
    <3>2. QED
      BY <3>1 DEF Cols
  <2>5. Outlives(s, rows)
    BY <1>0, <2>2, <2>4 DEF Outlives
  <2>6. QED
    BY <2>1, <2>3, <2>5
<1>2. ASSUME NEW i \in Ids(rows), NEW v \in Value, EndpointUpdate(i, v)
      PROVE  rows' \in Seq(Row) /\ Outlives(rows', rows)
  <2> DEFINE m == [rows[i] EXCEPT !.value = v, !.status = "approved", !.of = {}]
  <2>1. m \in Row
    <3>1. rows[i] \in Row
      BY <1>0
    <3>2. QED
      BY <3>1 DEF Row, Status
  <2>2. rows' = Replaced(rows, {i}, m) /\ {i} \in SUBSET Ids(rows)
    BY <1>2 DEF EndpointUpdate, Serve, CommitElsewhere
  <2> HIDE DEF m
  <2>3. QED
    BY <1>a, <2>1, <2>2
<1>3. ASSUME NEW item \in Item, EndpointAdd(item)
      PROVE  rows' \in Seq(Row) /\ Outlives(rows', rows)
  <2> DEFINE m == MemoryOf(item, General)
  <2>1. m \in Row
    BY MemoryIsFresh DEF Fresh, Layer
  <2>2. rows' = Replaced(rows, Superseded(rows, m), m)
    BY <1>3 DEF EndpointAdd, Serve, CommitElsewhere
  <2> HIDE DEF m
  <2>3. Superseded(rows, m) \in SUBSET Ids(rows)
    BY DEF Superseded, Active
  <2>4. QED
    BY <1>a, <2>1, <2>2, <2>3
<1>4. QED
  BY <1>1, <1>2, <1>3 DEF EndpointWrites

-----------------------------------------------------------------------------
(* The writes of the two units.                                            *)

LEMMA BatchWrites ==
    ASSUME ShapeInv
    PROVE  /\ \A n \in 1..Len(DeletionBatch) :
                DeletionBatch[n].id \in deleted /\ DeletionBatch[n].row = Erased(listed[DeletionBatch[n].id])
           /\ \A i \in deleted : \E n \in 1..Len(DeletionBatch) : DeletionBatch[n].id = i
<1> DEFINE ids == SetToSeq(deleted)
           N == Cardinality(deleted)
<1>1. ids \in [1..N -> deleted] /\ N \in Nat /\ \A i \in deleted : \E n \in 1..N : ids[n] = i
  BY RootedFinite, SetToSeqLists
<1>2. Len(ids) = N
  BY <1>1
<1>3. DeletionBatch = [n \in 1..N |-> [id |-> ids[n], row |-> Erased(listed[ids[n]])]]
  BY <1>2 DEF DeletionBatch, Erased
<1> HIDE DEF ids
<1>4. Len(DeletionBatch) = N
  BY <1>1, <1>3
<1>5. \A n \in 1..N : DeletionBatch[n].id = ids[n] /\ DeletionBatch[n].row = Erased(listed[ids[n]])
  BY <1>3
<1>6. QED
  BY <1>1, <1>4, <1>5

LEMMA UnitWrites ==
    ASSUME ShapeInv, NEW m \in Row, NEW new \in Nat
    PROVE  LET u == UpsertUnit(m, new)
           IN  /\ \A n \in 1..Len(u) :
                    \/ u[n].id = New /\ u[n].row = [m EXCEPT !.of = DOMAIN held]
                    \/ u[n].id \in DOMAIN held /\ \E by \in Nat : u[n].row = Ended(held[u[n].id], by)
               /\ \E n \in 1..Len(u) : u[n].id = New /\ u[n].row = [m EXCEPT !.of = DOMAIN held]
<1> DEFINE H == DOMAIN held
           w == [id |-> New, row |-> [m EXCEPT !.of = H]]
           a == Pass(0)
           b == Pass(new)
           u == a \o <<w>> \o b
<1>2. /\ a \in Seq(Write) /\ b \in Seq(Write)
      /\ \A n \in 1..Len(a) : a[n].id \in H /\ a[n].row = Ended(held[a[n].id], 0)
      /\ \A n \in 1..Len(b) : b[n].id \in H /\ b[n].row = Ended(held[b[n].id], new)
  BY PassEnds
<1>3. w \in Write
  <2>1. [m EXCEPT !.of = H] \in Row
    BY EditedType, RootedFinite
  <2>2. QED
    BY <2>1 DEF Write, New
<1>4. w.id = New /\ w.row = [m EXCEPT !.of = H]
  OBVIOUS
<1> HIDE DEF a, b, w
<1>5. LET k == Len(a)
      IN  /\ k \in Nat /\ Len(u) = k + 1 + Len(b)
          /\ \A n \in 1..k : u[n] = a[n]
          /\ u[k + 1] = w
          /\ \A n \in 1..Len(b) : u[k + 1 + n] = b[n]
          /\ \A n \in (k + 2)..Len(u) : n - (k + 1) \in 1..Len(b) /\ u[n] = b[n - (k + 1)]
  BY <1>2, <1>3, Joined
<1>6. UpsertUnit(m, new) = u
  BY UnitIsPasses DEF a, b, w
<1>7. Len(b) \in Nat
  BY <1>2
<1> HIDE DEF u
<1>8. ASSUME NEW n \in 1..Len(u)
      PROVE  \/ u[n].id = New /\ u[n].row = [m EXCEPT !.of = H]
             \/ u[n].id \in H /\ \E by \in Nat : u[n].row = Ended(held[u[n].id], by)
  <2>1. CASE n <= Len(a)
    <3>1. n \in 1..Len(a) /\ u[n] = a[n]
      BY <1>5, <1>7, <2>1
    <3>2. QED
      BY <1>2, <3>1
  <2>2. CASE n = Len(a) + 1
    BY <1>4, <1>5, <2>2
  <2>3. CASE n > Len(a) + 1
    <3>1. n - (Len(a) + 1) \in 1..Len(b) /\ u[n] = b[n - (Len(a) + 1)]
      BY <1>5, <1>7, <2>3
    <3>2. QED
      BY <1>2, <3>1
  <2>4. QED
    BY <1>5, <2>1, <2>2, <2>3
<1>9. Len(a) + 1 \in 1..Len(u)
  BY <1>5, <1>7
<1>10. QED
  BY <1>4, <1>5, <1>6, <1>8, <1>9

-----------------------------------------------------------------------------
(* What a unit does to the rows it is about.                               *)

CopiesOf(f, t) == \A i \in DOMAIN f : i \in Ids(t) /\ Cols(f[i], t[i])

TableInv ==
    /\ tx = "unit" => Outlives(view, rows)
    /\ \A n \in 1..Len(todo) : Proper(todo[n], rows)
    /\ CopiesOf(before, rows) /\ CopiesOf(listed, rows) /\ CopiesOf(held, rows)

LEMMA CopiesKept ==
    ASSUME NEW t \in Seq(Row), NEW s \in Seq(Row), Outlives(s, t), NEW f, CopiesOf(f, t)
    PROVE  CopiesOf(f, s)
<1>1. Ids(t) \subseteq Ids(s)
  BY IdsOf DEF Outlives
<1>2. QED
  BY <1>1 DEF CopiesOf, Outlives, Cols

LEMMA RestrictedAre ==
    ASSUME NEW f, NEW t, NEW ids \in SUBSET DOMAIN f, CopiesOf(f, t)
    PROVE  CopiesOf(Restricted(f, ids), t)
BY RestrictedCopies DEF CopiesOf

LEMMA TableRestricted ==
    ASSUME NEW t \in Seq(Row), NEW ids \in SUBSET Ids(t)
    PROVE  CopiesOf(Restricted(t, ids), t)
BY RestrictedCopies DEF CopiesOf, Cols

LEMMA TableStep ==
    ASSUME CommitFaults = FALSE, SafeInv, TableInv, [Next]_vars
    PROVE  TableInv' /\ Outlives(rows', rows)
<1>a. /\ rows \in Seq(Row) /\ view \in Seq(Row) /\ todo \in Seq(Write) /\ Len(<<>>) = 0
      /\ tx # "unit" => tx = "none" /\ view = rows /\ todo = <<>>
      /\ tx = "unit" <=> pc \in {"deleting", "saving"}
      /\ rows' \in Seq(Row) /\ ShapeInv
  <2>1. ShapeInv /\ OpenInv /\ StoreInv
    BY DEF SafeInv, ShapeInv
  <2>2. rows' \in Seq(Row)
    BY <2>1, StoreKept DEF StoreInv
  <2>3. QED
    BY <2>1, <2>2 DEF SafeInv, StoreInv, OpenInv
<1>b. Outlives(rows, rows)
  BY <1>a, OutlivesSelf
\* A step that leaves the table, or moves on to one that outlives it, outside a unit.
<1>c. ASSUME Outlives(rows', rows), tx' # "unit", todo' = <<>>,
             before' = before \/ CopiesOf(before', rows'), listed' = listed \/ CopiesOf(listed', rows'),
             held' = held \/ CopiesOf(held', rows')
      PROVE  TableInv' /\ Outlives(rows', rows)
  <2>1. CopiesOf(before, rows') /\ CopiesOf(listed, rows') /\ CopiesOf(held, rows')
    BY <1>a, <1>c, CopiesKept DEF TableInv
  <2>2. CopiesOf(before', rows') /\ CopiesOf(listed', rows') /\ CopiesOf(held', rows')
    BY <1>c, <2>1
  <2>3. \A n \in 1..Len(todo') : Proper(todo'[n], rows')
    BY <1>a, <1>c
  <2>4. QED
    BY <1>c, <2>2, <2>3 DEF TableInv
<1>d. CopiesOf(<<>>, rows')
  BY DEF CopiesOf
<1>1. CASE \/ \E r \in Repo : OpenEpisode(r)
           \/ CloseEpisode \/ RecordMessage \/ RecordFails
           \/ NothingToAsk \/ UpsertNoOp \/ AdvanceCheckpoint \/ Raise \/ AfterUnread \/ Audited
           \/ \E run \in Calls : AskFails(run)
  <2>1. rows' = rows /\ tx' # "unit" /\ todo' = <<>>
    BY <1>1, <1>a DEF OpenEpisode, CloseEpisode, RecordMessage, RecordFails, NothingToAsk, UpsertNoOp, AdvanceCheckpoint,
       Raise, AfterUnread, Audited, AskFails, RollBack, LoneWrite, LoneWriteFails, AfterFailedWrite, CommitFails, AllStored, storeVars
  <2>2. (before' = before \/ before' = <<>>) /\ (listed' = listed \/ listed' = <<>>) /\ (held' = held \/ held' = <<>>)
    BY <1>1 DEF OpenEpisode, CloseEpisode, RecordMessage, RecordFails, NothingToAsk, UpsertNoOp, AdvanceCheckpoint,
       Raise, AfterUnread, Audited, AskFails, Idle, work
  <2>3. QED
    BY <1>b, <1>c, <1>d, <2>1, <2>2
<1>2. CASE Snapshot \/ List
  <2>1. /\ UNCHANGED storeVars /\ tx # "unit" /\ held' = held
        /\ \/ before' \in {<<>>, Restricted(view, Visible(view, repo))} /\ listed' = listed
           \/ before' = before /\ listed' = Restricted(view, Visible(view, repo))
    BY <1>2, <1>a DEF Snapshot, List
  <2>2. CopiesOf(Restricted(rows, Visible(rows, repo)), rows)
    BY <1>a, TableRestricted DEF Visible
  <2>3. rows' = rows /\ view = rows /\ tx' # "unit" /\ todo' = <<>>
    BY <1>a, <2>1 DEF storeVars
  <2>4. QED
    BY <1>b, <1>c, <1>d, <2>1, <2>2, <2>3
<1>3. ASSUME NEW targets, NEW items, Decide(targets, items)
      PROVE  TableInv' /\ Outlives(rows', rows)
  <2>1. /\ UNCHANGED storeVars /\ tx # "unit" /\ held' = held /\ before' = before
        /\ deleted' = UNION {Matching(listed, d[1], d[2], repo) : d \in targets} /\ listed' = Restricted(listed, deleted')
    BY <1>3, <1>a DEF Decide
  <2>2. CopiesOf(listed', rows)
    BY <2>1, MatchingListed, RestrictedAre DEF TableInv
  <2>3. rows' = rows /\ tx' # "unit" /\ todo' = <<>>
    BY <1>a, <2>1 DEF storeVars
  <2>4. QED
    BY <1>b, <1>c, <2>1, <2>2, <2>3
<1>4. CASE UpsertList
  <2>1. /\ UNCHANGED storeVars /\ tx # "unit" /\ before' = before /\ listed' = listed
        /\ held' = Restricted(view, Superseded(view, candidates[Len(done) + 1]))
    BY <1>4, <1>a DEF UpsertList
  <2>2. rows' = rows /\ view = rows /\ tx' # "unit" /\ todo' = <<>>
    BY <1>a, <2>1 DEF storeVars
  <2>3. CopiesOf(held', rows)
    BY <1>a, <2>1, <2>2, TableRestricted DEF Superseded, Active
  <2>4. QED
    BY <1>b, <1>c, <2>1, <2>2, <2>3
\* A unit begins over a table, with writes that end rows of it or make new ones.
<1>e. ASSUME NEW ws, Begin(ws), UNCHANGED <<before, listed, held>>, \A n \in 1..Len(ws) : Proper(ws[n], rows)
      PROVE  TableInv' /\ Outlives(rows', rows)
  BY <1>b, <1>e DEF Begin, TableInv
<1>5. CASE BeginDeletions
  <2>1. Begin(DeletionBatch) /\ UNCHANGED <<before, listed, held>>
    BY <1>5 DEF BeginDeletions, work
  <2>2. \A n \in 1..Len(DeletionBatch) : Proper(DeletionBatch[n], rows)
    <3>1. \A i \in deleted : i \in DOMAIN listed /\ i \in Ids(rows) /\ Cols(listed[i], rows[i]) /\ listed[i] \in Row
      BY <1>a DEF ShapeInv, WorkInv, Rooted, RootedIn, TableInv, CopiesOf
    <3>2. \A i \in deleted : Cols(Erased(listed[i]), listed[i]) /\ ~Live(Erased(listed[i]))
      BY <3>1, EditKeeps
    <3>3. \A i \in deleted : Cols(Erased(listed[i]), rows[i])
      BY <3>1, <3>2 DEF Cols
    <3>4. QED
      BY <1>a, <3>1, <3>2, <3>3, BatchWrites DEF Proper
  <2>3. QED
    BY <1>e, <2>1, <2>2
<1>6. CASE BeginUpsert
  <2> DEFINE m == candidates[Len(done) + 1]
             u == UpsertUnit(m, Len(rows) + 1)
  <2>1. Begin(u) /\ UNCHANGED <<before, listed, held>>
    BY <1>6 DEF BeginUpsert
  <2>2. m \in Row /\ Len(rows) + 1 \in Nat
    <3>1. candidates \in Seq(Row) /\ Len(done) + 1 \in 1..Len(candidates)
      BY <1>6, <1>a DEF BeginUpsert, ShapeInv, WorkInv
    <3>2. QED
      BY <1>a, <3>1
  <2> HIDE DEF m
  <2>3. \A n \in 1..Len(u) : Proper(u[n], rows)
    <3>1. \A i \in DOMAIN held : i \in Ids(rows) /\ Cols(held[i], rows[i]) /\ held[i] \in Row
      BY <1>a DEF ShapeInv, WorkInv, Rooted, RootedIn, TableInv, CopiesOf
    <3>2. \A i \in DOMAIN held : \A by \in Nat : Cols(Ended(held[i], by), held[i]) /\ ~Live(Ended(held[i], by))
      BY <3>1, EditKeeps
    <3>3. \A i \in DOMAIN held : \A by \in Nat : Cols(Ended(held[i], by), rows[i])
      BY <3>1, <3>2 DEF Cols
    <3>4. \A n \in 1..Len(u) : \/ u[n].id = New /\ u[n].row = [m EXCEPT !.of = DOMAIN held]
                               \/ u[n].id \in DOMAIN held /\ \E by \in Nat : u[n].row = Ended(held[u[n].id], by)
      <4> HIDE DEF m
      <4>1. ShapeInv
        BY <1>a
      <4>2. QED
        BY <2>2, <4>1, UnitWrites, Zenon
    <3> HIDE DEF u
    <3>5. QED
      BY <3>1, <3>2, <3>3, <3>4 DEF Proper
  <2>4. QED
    BY <1>e, <2>1, <2>3
<1>7. CASE Write1
  <2>1. /\ tx = "unit" /\ todo # <<>> /\ rows' = rows /\ tx' = tx /\ todo' = Tail(todo) /\ view' = Applied(view, Head(todo))
        /\ UNCHANGED <<before, listed, held>>
    BY <1>7 DEF Write1, WriteNext, CommitsNow, work
  <2>2. /\ Head(todo) \in Write /\ Head(todo) = todo[1] /\ 1 \in 1..Len(todo)
        /\ \A n \in 1..Len(Tail(todo)) : n + 1 \in 1..Len(todo) /\ Tail(todo)[n] = todo[n + 1]
    <3>1. /\ Len(todo) \in Nat /\ 1 <= Len(todo) /\ Head(todo) = todo[1] /\ Head(todo) \in Write
          /\ \A n \in 1..Len(Tail(todo)) : n + 1 \in 1..Len(todo) /\ Tail(todo)[n] = todo[n + 1]
      BY <1>a, <2>1, HeadAndTail
    <3>2. QED
      BY <3>1
  <2>3. Outlives(view', rows)
    BY <1>a, <2>1, <2>2, ProperOutlives DEF TableInv
  <2>4. \A n \in 1..Len(todo') : Proper(todo'[n], rows')
    BY <2>1, <2>2 DEF TableInv
  <2>5. QED
    BY <1>b, <2>1, <2>3, <2>4 DEF TableInv
<1>8. CASE CommitUnit
  <2>1. /\ rows' = view /\ tx = "unit" /\ tx' = "none" /\ todo' = <<>> /\ before' = before /\ listed' = listed /\ held' = <<>>
    BY <1>8 DEF CommitUnit, Commit
  <2>2. Outlives(rows', rows)
    BY <2>1 DEF TableInv
  <2>3. QED
    BY <1>c, <1>d, <2>1, <2>2
<1>9. CASE EndpointWrites
  <2>1. Outlives(rows', rows)
    BY <1>9, <1>a, EndpointOutlives
  <2>2. tx = "none" /\ tx' = tx /\ todo' = todo /\ UNCHANGED <<before, listed, held>>
    BY <1>9 DEF EndpointWrites, EndpointDelete, EndpointUpdate, EndpointAdd, Serve, CommitElsewhere, work
  <2>3. QED
    BY <1>a, <1>c, <2>1, <2>2
<1>10. CASE UNCHANGED vars
  <2>1. UNCHANGED <<rows, view, tx, todo, before, listed, held>>
    BY <1>10 DEF vars, storeVars, work
  <2>2. QED
    BY <1>b, <2>1 DEF TableInv
<1>11. QED
  BY <1>1, <1>2, <1>3, <1>4, <1>5, <1>6, <1>7, <1>8, <1>9, <1>10 DEF Next, EndpointWrites

LEMMA NewestIs ==
    ASSUME NEW N \in Nat, NEW S \in SUBSET (1..N), S # {}
    PROVE  Newest(S) \in S /\ \A j \in S : j <= Newest(S)
<1>1. \E i \in S : \A j \in S : j <= i
  BY GreatestExists
<1>2. QED
  BY <1>1 DEF Newest

LEMMA AppliedIs ==
    ASSUME NEW s \in Seq(Row), NEW w \in Write, w.id = New \/ w.id \in Ids(s)
    PROVE  /\ Len(s) \in Nat /\ Ids(s) = 1..Len(s)
           /\ Applied(s, w) \in Seq(Row) /\ Ids(s) \subseteq Ids(Applied(s, w))
           /\ \A i \in Ids(s) : Applied(s, w)[i] = IF i = w.id THEN w.row ELSE s[i]
           /\ w.id = New => Len(s) + 1 \in Ids(Applied(s, w)) /\ Applied(s, w)[Len(s) + 1] = w.row
<1>1. Ids(s) = 1..Len(s) /\ Len(s) \in Nat
  BY IdsOf
<1>2. Applied(s, w) \in Seq(Row)
  BY AppliedType
<1>3. Ids(Applied(s, w)) = 1..Len(Applied(s, w))
  BY <1>2, IdsOf
<1>4. CASE w.id = New
  <2>1. /\ Len(Applied(s, w)) = Len(s) + 1 /\ Applied(s, w)[Len(s) + 1] = w.row
        /\ \A i \in Ids(s) : Applied(s, w)[i] = s[i]
    BY <1>4, Inserted
  <2>2. \A i \in Ids(s) : i # w.id
    BY <1>1, <1>4 DEF New
  <2>3. QED
    BY <1>1, <1>2, <1>3, <2>1, <2>2
<1>5. CASE w.id # New
  <2>1. /\ Len(Applied(s, w)) = Len(s) /\ Applied(s, w)[w.id] = w.row
        /\ \A i \in Ids(s) : i # w.id => Applied(s, w)[i] = s[i]
    BY <1>5, Updated
  <2>2. QED
    BY <1>1, <1>2, <1>3, <1>5, <2>1
<1>6. QED
  BY <1>4, <1>5

-----------------------------------------------------------------------------
(* The checkpoint.                                                         *)

Stored(t, m) ==
    \E i \in Ids(t) : t[i].key = m.key /\ t[i].value = m.value /\ t[i].layer \in {m.layer, General}

LEMMA StoredStays ==
    ASSUME NEW t \in Seq(Row), NEW s \in Seq(Row), Outlives(s, t), NEW m, Stored(t, m)
    PROVE  Stored(s, m)
<1>1. Ids(t) \subseteq Ids(s)
  BY IdsOf DEF Outlives
<1>2. QED
  BY <1>1 DEF Stored, Outlives, Cols

Placing == {"next", "begin", "saving"}
Settled == IF pc = "saving" THEN Len(done) - 1 ELSE Len(done)    \* candidates whose unit is over

EarnInv ==
    /\ pc \in Resting \cup {"list", "ask"} => reply = "none"
    /\ pc \in {"delete", "deleting"} \cup Placing => reply \in {"none", "decision"}
    /\ pc \in {"delete", "deleting"} => done = <<>>
    /\ pc = "deleting" => \A i \in deleted : ~Live(view[i]) \/ \E n \in 1..Len(todo) : todo[n].id = i
    /\ pc \in Placing => \A i \in deleted : i \in Ids(rows) /\ ~Live(rows[i])
    /\ pc = "saving" =>
          /\ 1 <= Len(done)
          /\ \/ Stored(view, candidates[Len(done)])
             \/ \E n \in 1..Len(todo) : todo[n].id = New /\ Cols(todo[n].row, candidates[Len(done)])
    /\ pc \in Placing => \A n \in 1..Settled : Stored(rows, candidates[n])

LEMMA NoOpStored ==
    ASSUME NEW t \in Seq(Row), NEW m, NoOp(t, m)
    PROVE  Stored(t, m)
<1>1. Len(t) \in Nat /\ Active(t, m) \in SUBSET (1..Len(t)) /\ Active(t, m) # {}
  BY IdsOf DEF Active, NoOp
<1>2. Newest(Active(t, m)) \in Active(t, m)
  BY <1>1, NewestIs
<1>3. QED
  BY <1>2 DEF NoOp, Stored, Active

LEMMA EarnStep ==
    ASSUME CommitFaults = FALSE, SafeInv, TableInv, EarnInv, [Next]_vars
    PROVE  EarnInv'
<1>a. /\ rows \in Seq(Row) /\ view \in Seq(Row) /\ todo \in Seq(Write)
      /\ tx # "unit" => tx = "none" /\ view = rows /\ todo = <<>>
      /\ tx = "unit" <=> pc \in {"deleting", "saving"}
      /\ rows' \in Seq(Row) /\ ShapeInv
  <2>1. ShapeInv /\ OpenInv /\ StoreInv
    BY DEF SafeInv, ShapeInv
  <2>2. rows' \in Seq(Row)
    BY <2>1, StoreKept DEF StoreInv
  <2>3. QED
    BY <2>1, <2>2 DEF SafeInv, StoreInv, OpenInv
<1>b. Outlives(rows', rows) /\ Outlives(rows, rows)
  BY <1>a, TableStep, OutlivesSelf
<1>c. /\ candidates \in Seq(Row) /\ done \in Seq([id : Nat, of : SUBSET Nat]) /\ Len(done) \in Nat
      /\ Len(done) <= Len(candidates) /\ Len(candidates) \in Nat
      /\ pc = "begin" => Len(done) < Len(candidates)
      /\ deleted \subseteq Ids(Base) /\ (tx = "unit" => deleted \subseteq Ids(rows))
      /\ pc \in Resting \cup {"list", "ask"} => done = <<>> /\ deleted = {}
  <2>1. WorkInv
    BY <1>a DEF ShapeInv
  <2>2. candidates \in Seq(Row) /\ done \in Seq([id : Nat, of : SUBSET Nat]) /\ deleted \subseteq Ids(Base)
    BY <2>1 DEF WorkInv, Rooted, RootedIn
  <2>3. QED
    BY <2>1, <2>2 DEF WorkInv, Base
<1>d. \A i \in Ids(rows) : i \in Ids(rows') /\ (~Live(rows[i]) => ~Live(rows'[i]))
  <2>1. Ids(rows) = 1..Len(rows) /\ Ids(rows') = 1..Len(rows') /\ Len(rows) \in Nat /\ Len(rows') \in Nat
    BY <1>a, IdsOf
  <2>2. QED
    BY <1>b, <2>1 DEF Outlives
<1>e. Len(<<>>) = 0
  OBVIOUS
\* The extraction is over, or has not begun to write.
<1>f. ASSUME pc' \notin {"delete", "deleting"} \cup Placing, pc' \in Resting \cup {"list", "ask"} => reply' = "none"
      PROVE  EarnInv'
  BY <1>f DEF EarnInv, Placing
\* It writes on, at rest between two units; the decision stands.
<1>g. ASSUME pc \in Placing, pc' \in {"next", "begin"}, UNCHANGED <<reply, deleted, candidates>>,
             \A n \in 1..Len(done') : Stored(rows', candidates[n])
      PROVE  EarnInv'
  <2>1. \A i \in deleted : i \in Ids(rows') /\ ~Live(rows'[i])
    BY <1>d, <1>g DEF EarnInv
  <2>2. Settled' = Len(done')
    BY <1>g DEF Settled
  <2>3. reply \in {"none", "decision"}
    BY <1>g DEF EarnInv
  <2>4. pc' \notin Resting \cup {"list", "ask", "delete", "deleting", "saving"}
    BY <1>g DEF Resting
  <2>5. \A n \in 1..Settled' : Stored(rows', candidates'[n])
    BY <1>g, <2>2
  <2>6. QED
    BY <1>g, <2>1, <2>3, <2>4, <2>5 DEF EarnInv
\* It deletes, or is about to.
<1>i. ASSUME pc' = "delete", reply' \in {"none", "decision"}, done' = <<>>
      PROVE  EarnInv'
  <2>1. pc' \notin Resting \cup {"list", "ask"} \cup Placing /\ pc' # "deleting" /\ pc' # "saving"
    BY <1>i DEF Resting, Placing
  <2>2. QED
    BY <1>i, <2>1 DEF EarnInv
<1>j. ASSUME pc' = "deleting", reply' \in {"none", "decision"}, done' = <<>>,
             \A i \in deleted' : ~Live(view'[i]) \/ \E n \in 1..Len(todo') : todo'[n].id = i
      PROVE  EarnInv'
  <2>1. pc' \notin Resting \cup {"list", "ask"} \cup Placing /\ pc' # "saving"
    BY <1>j DEF Resting, Placing
  <2>2. QED
    BY <1>j, <2>1 DEF EarnInv
\* It saves.
<1>k. ASSUME pc' = "saving", reply' \in {"none", "decision"},
             \A i \in deleted' : i \in Ids(rows') /\ ~Live(rows'[i]),
             1 <= Len(done'), \A n \in 1..Settled' : Stored(rows', candidates'[n]),
             \/ Stored(view', candidates'[Len(done')])
             \/ \E n \in 1..Len(todo') : todo'[n].id = New /\ Cols(todo'[n].row, candidates'[Len(done')])
      PROVE  EarnInv'
  <2>1. pc' \notin Resting \cup {"list", "ask", "delete", "deleting"}
    BY <1>k DEF Resting
  <2>2. QED
    BY <1>k, <2>1 DEF EarnInv
<1>h. \A n : Stored(rows, candidates[n]) => Stored(rows', candidates[n])
  BY <1>a, <1>b, StoredStays
<1>1. CASE \/ \E r \in Repo : OpenEpisode(r)
           \/ CloseEpisode \/ RecordMessage \/ RecordFails
           \/ Snapshot \/ List \/ AdvanceCheckpoint \/ Raise \/ AfterUnread \/ Audited
           \/ \E run \in Calls : AskFails(run)
  <2>1. pc' \notin {"delete", "deleting"} \cup Placing
    BY <1>1 DEF OpenEpisode, CloseEpisode, RecordMessage, RecordFails, Snapshot, List, AdvanceCheckpoint, AllStored, Raise,
       AfterUnread, Audited, AskFails, Placing
  <2>2. pc' \in Resting \cup {"list", "ask"} => reply' = "none"
    BY <1>1 DEF OpenEpisode, CloseEpisode, RecordMessage, RecordFails, Snapshot, List, AdvanceCheckpoint, AllStored, Raise,
       AfterUnread, Audited, AskFails, Idle, work, EarnInv, Resting
  <2>3. QED
    BY <1>f, <2>1, <2>2
<1>2. CASE NothingToAsk
  <2>1. pc = "ask" /\ pc' = "delete" /\ reply' = reply /\ done' = done
    BY <1>2 DEF NothingToAsk
  <2>2. done = <<>> /\ reply = "none"
    BY <1>c, <2>1 DEF EarnInv
  <2>3. QED
    BY <1>i, <2>1, <2>2
<1>3. ASSUME NEW targets, NEW items, Decide(targets, items)
      PROVE  EarnInv'
  <2>1. pc = "ask" /\ pc' = "delete" /\ done' = done /\ \E run \in Calls : ~LastError(run) /\ reply' = Last(run)
    BY <1>3 DEF Decide
  <2>2. reply' = "decision"
    BY <2>1 DEF LastError, Last
  <2>3. QED
    BY <1>c, <1>i, <2>1, <2>2
<1>4. CASE BeginDeletions
  <2>1. /\ pc = "delete" /\ pc' = "deleting" /\ todo' = DeletionBatch /\ deleted' = deleted /\ done' = done /\ reply' = reply
    BY <1>4 DEF BeginDeletions, Begin, work, decision
  <2>2. \A i \in deleted : \E n \in 1..Len(DeletionBatch) : DeletionBatch[n].id = i
    BY <1>a, BatchWrites
  <2>3. reply \in {"none", "decision"} /\ done = <<>>
    BY <2>1 DEF EarnInv
  <2>4. QED
    BY <1>j, <2>1, <2>2, <2>3
<1>5. CASE UpsertNoOp
  <2>1. /\ pc = "next" /\ pc' = pc /\ UNCHANGED <<reply, deleted, candidates>> /\ rows' = rows /\ view = rows
        /\ done' = Append(done, [id |-> New, of |-> {}]) /\ NoOp(view, candidates[Len(done) + 1])
    BY <1>5, <1>a DEF UpsertNoOp, storeVars, decision
  <2>2. Stored(rows, candidates[Len(done) + 1])
    BY <1>a, <2>1, NoOpStored
  <2>3. Len(done') = Len(done) + 1
    BY <1>c, <2>1
  <2>4. \A n \in 1..Len(done) : Stored(rows, candidates[n])
    BY <2>1 DEF EarnInv, Settled, Placing
  <2>5. \A n \in 1..Len(done') : Stored(rows', candidates[n])
    BY <1>c, <2>1, <2>2, <2>3, <2>4
  <2>6. QED
    BY <1>g, <2>1, <2>5 DEF Placing
<1>6. CASE UpsertList
  <2>1. pc = "next" /\ pc' = "begin" /\ UNCHANGED <<reply, deleted, candidates, rows, done>>
    BY <1>6 DEF UpsertList, storeVars, decision
  <2>2. \A n \in 1..Len(done) : Stored(rows, candidates[n])
    BY <2>1 DEF EarnInv, Settled, Placing
  <2>3. QED
    BY <1>g, <2>1, <2>2 DEF Placing
<1>7. CASE BeginUpsert
  <2> DEFINE m == candidates[Len(done) + 1]
             u == UpsertUnit(m, Len(rows) + 1)
  <2>1. /\ pc = "begin" /\ pc' = "saving" /\ todo' = u /\ UNCHANGED <<reply, deleted, candidates, rows>>
        /\ done' = Append(done, [id |-> Len(rows) + 1, of |-> DOMAIN held])
    BY <1>7 DEF BeginUpsert, Begin, decision
  <2>2. Len(done') = Len(done) + 1
    BY <1>c, <2>1
  <2>3. m \in Row /\ Len(rows) + 1 \in Nat
    BY <1>a, <1>c, <2>1
  <2>4. candidates'[Len(done')] = m /\ Settled' = Len(done)
    BY <1>c, <2>1, <2>2 DEF Settled
  <2> HIDE DEF m
  <2>5. \E n \in 1..Len(u) : u[n].id = New /\ u[n].row = [m EXCEPT !.of = DOMAIN held]
    <3>1. ShapeInv
      BY <1>a
    <3>2. QED
      BY <2>3, <3>1, UnitWrites, Zenon
  <2>6. Cols([m EXCEPT !.of = DOMAIN held], m)
    BY <2>3 DEF Cols, Row
  <2> HIDE DEF u
  <2>7. \E n \in 1..Len(todo') : todo'[n].id = New /\ Cols(todo'[n].row, candidates'[Len(done')])
    BY <2>1, <2>4, <2>5, <2>6
  <2>8. \A n \in 1..Len(done) : Stored(rows, candidates[n])
    BY <2>1 DEF EarnInv, Settled, Placing
  <2>9. \A i \in deleted : i \in Ids(rows) /\ ~Live(rows[i])
    BY <2>1 DEF EarnInv, Placing
  <2>10. 1 <= Len(done')
    BY <1>c, <2>2
  <2>11. reply \in {"none", "decision"}
    BY <2>1 DEF EarnInv, Placing
  <2>12. QED
    BY <1>k, <2>1, <2>4, <2>7, <2>8, <2>9, <2>10, <2>11
<1>8. CASE Write1
  <2>1. /\ pc \in {"deleting", "saving"} /\ pc' = pc /\ tx = "unit" /\ todo # <<>> /\ rows' = rows
        /\ todo' = Tail(todo) /\ view' = Applied(view, Head(todo))
        /\ UNCHANGED <<reply, deleted, candidates, done>>
    BY <1>8 DEF Write1, WriteNext, CommitsNow, work, decision
  <2> DEFINE w == todo[1]
  <2>2. /\ Len(todo) \in Nat /\ 1 <= Len(todo) /\ Head(todo) = w /\ w \in Write
        /\ Len(Tail(todo)) = Len(todo) - 1 /\ \A n \in 1..Len(Tail(todo)) : Tail(todo)[n] = todo[n + 1]
    BY <1>a, <2>1, HeadAndTail
  <2>3. Proper(w, rows) /\ Outlives(view, rows)
    BY <2>1, <2>2 DEF TableInv
  <2>4. Ids(rows) \subseteq Ids(view)
    BY <1>a, <2>3, IdsOf DEF Outlives
  <2>5. w.id = New \/ w.id \in Ids(view)
    BY <2>3, <2>4 DEF Proper
  <2>6. /\ Len(view) \in Nat /\ Ids(view) = 1..Len(view)
        /\ \A i \in Ids(view) : view'[i] = IF i = w.id THEN w.row ELSE view[i]
        /\ w.id = New => Len(view) + 1 \in Ids(view') /\ view'[Len(view) + 1] = w.row
        /\ Ids(view) \subseteq Ids(view')
    <3> HIDE DEF w
    <3>1. w \in Write /\ view' = Applied(view, w)
      BY <2>1, <2>2
    <3>2. QED
      BY <1>a, <2>5, <3>1, AppliedIs
  <2> HIDE DEF w
  <2>7. \A n \in 1..Len(todo) : todo[n] # w => \E k \in 1..Len(Tail(todo)) : Tail(todo)[k] = todo[n]
    <3> SUFFICES ASSUME NEW n \in 1..Len(todo), todo[n] # w
                 PROVE  \E k \in 1..Len(Tail(todo)) : Tail(todo)[k] = todo[n]
      OBVIOUS
    <3>1. n # 1
      BY DEF w
    <3>2. n - 1 \in 1..Len(Tail(todo)) /\ (n - 1) + 1 = n
      BY <2>2, <3>1
    <3>3. QED
      BY <2>2, <3>2
  <2>8. CASE pc = "deleting"
    <3>1. ASSUME NEW i \in deleted
          PROVE  ~Live(view'[i]) \/ \E n \in 1..Len(todo') : todo'[n].id = i
      <4>1. i \in Ids(view) /\ i # New
        BY <1>c, <2>1, <2>4, <2>6 DEF New
      <4>2. CASE i = w.id
        <5>1. ~Live(w.row)
          BY <2>3, <4>1, <4>2 DEF Proper
        <5>2. QED
          BY <2>6, <4>1, <4>2, <5>1
      <4>3. CASE i # w.id
        <5>1. ~Live(view[i]) \/ \E n \in 1..Len(todo) : todo[n].id = i
          BY <2>8 DEF EarnInv
        <5>2. CASE ~Live(view[i])
          BY <2>6, <4>1, <4>3, <5>2
        <5>3. CASE \E n \in 1..Len(todo) : todo[n].id = i
          BY <2>1, <2>7, <4>3, <5>3
        <5>4. QED
          BY <5>1, <5>2, <5>3
      <4>4. QED
        BY <4>2, <4>3
    <3>2. done = <<>> /\ reply \in {"none", "decision"}
      BY <2>8 DEF EarnInv
    <3>3. QED
      BY <1>j, <2>1, <2>8, <3>1, <3>2
  <2>9. CASE pc = "saving"
    <3> DEFINE m == candidates[Len(done)]
    <3>1. Stored(view', m) \/ \E n \in 1..Len(todo') : todo'[n].id = New /\ Cols(todo'[n].row, m)
      <4>1. Stored(view, m) \/ \E n \in 1..Len(todo) : todo[n].id = New /\ Cols(todo[n].row, m)
        BY <2>9 DEF EarnInv
      <4> HIDE DEF m
      <4>2. CASE Stored(view, m)
        <5>1. PICK i \in Ids(view) : view[i].key = m.key /\ view[i].value = m.value /\ view[i].layer \in {m.layer, General}
          BY <4>2 DEF Stored
        <5>2. i # w.id \/ Cols(view'[i], view[i])
          BY <2>3, <2>6 DEF Proper, Outlives, Cols, New
        <5>3. Cols(view'[i], view[i])
          BY <2>6, <5>2 DEF Cols
        <5>4. QED
          BY <2>6, <5>1, <5>3 DEF Stored, Cols
      <4>3. CASE \E n \in 1..Len(todo) : todo[n].id = New /\ Cols(todo[n].row, m)
        <5>1. PICK n \in 1..Len(todo) : todo[n].id = New /\ Cols(todo[n].row, m)
          BY <4>3
        <5>2. CASE todo[n] = w
          BY <2>6, <5>1, <5>2 DEF Stored, Cols
        <5>3. CASE todo[n] # w
          BY <2>1, <2>7, <5>1, <5>3
        <5>4. QED
          BY <5>2, <5>3
      <4>4. QED
        BY <4>1, <4>2, <4>3
    <3>2. /\ 1 <= Len(done) /\ reply \in {"none", "decision"}
          /\ \A i \in deleted : i \in Ids(rows) /\ ~Live(rows[i])
          /\ \A n \in 1..Settled : Stored(rows, candidates[n])
      BY <2>9 DEF EarnInv, Placing
    <3>3. Settled' = Settled
      BY <2>1 DEF Settled
    <3>4. QED
      BY <1>k, <2>1, <2>9, <3>1, <3>2, <3>3
  <2>10. QED
    BY <2>1, <2>8, <2>9
<1>9. CASE CommitUnit
  <2>1. /\ pc \in {"deleting", "saving"} /\ pc' = "next" /\ rows' = view /\ tx = "unit" /\ todo = <<>>
        /\ UNCHANGED <<reply, deleted, candidates, done>>
    BY <1>9 DEF CommitUnit, Commit, decision
  <2>2. Settled' = Len(done)
    BY <2>1 DEF Settled
  <2>3. CASE pc = "deleting"
    <3>1. done = <<>> /\ reply \in {"none", "decision"} /\ \A i \in deleted : ~Live(view[i])
      BY <1>e, <2>1, <2>3 DEF EarnInv
    <3>2. \A i \in deleted : i \in Ids(rows')
      BY <1>c, <1>d, <2>1
    <3>3. reply' \in {"none", "decision"} /\ \A i \in deleted' : i \in Ids(rows') /\ ~Live(rows'[i])
      BY <2>1, <3>1, <3>2
    <3>4. Settled' = 0
      BY <1>e, <2>2, <3>1
    <3>5. \A n \in 1..Settled' : Stored(rows', candidates'[n])
      BY <3>4
    <3>6. pc' \notin Resting \cup {"list", "ask", "delete", "deleting", "saving"}
      BY <2>1 DEF Resting
    <3>7. QED
      BY <3>3, <3>5, <3>6 DEF EarnInv
  <2>4. CASE pc = "saving"
    <3>1. Stored(view, candidates[Len(done)])
      BY <1>e, <2>1, <2>4 DEF EarnInv
    <3>2. \A n \in 1..(Len(done) - 1) : Stored(rows, candidates[n])
      BY <2>4 DEF EarnInv, Settled, Placing
    <3>3. \A n \in 1..Len(done) : n = Len(done) \/ n \in 1..(Len(done) - 1)
      BY <1>c
    <3>4. \A n \in 1..Len(done) : Stored(rows', candidates[n])
      BY <1>h, <2>1, <3>1, <3>2, <3>3
    <3>5. QED
      BY <1>g, <2>1, <2>4, <3>4 DEF Placing
  <2>5. QED
    BY <2>1, <2>3, <2>4
<1>10. CASE EndpointWrites
  <2>1. tx = "none" /\ UNCHANGED <<pc, reply, deleted, candidates, done, todo>>
    BY <1>10 DEF EndpointWrites, EndpointDelete, EndpointUpdate, EndpointAdd, Serve, CommitElsewhere, work, decision
  <2>2. pc \notin {"deleting", "saving"}
    BY <1>a, <2>1
  <2>3. CASE pc \in Placing
    <3>1. \A n \in 1..Len(done) : Stored(rows, candidates[n])
      BY <2>2, <2>3 DEF EarnInv, Settled
    <3>2. QED
      BY <1>g, <1>h, <2>1, <2>2, <2>3, <3>1 DEF Placing
  <2>4. CASE pc \notin Placing
    BY <2>1, <2>2, <2>4 DEF EarnInv, Placing
  <2>5. QED
    BY <2>3, <2>4
<1>11. CASE UNCHANGED vars
  <2>1. UNCHANGED <<pc, rows, view, todo, reply, deleted, candidates, done>>
    BY <1>11 DEF vars, storeVars, work, decision
  <2>2. Settled' = Settled
    BY <2>1 DEF Settled
  <2>3. QED
    BY <2>1, <2>2 DEF EarnInv
<1>12. QED
  BY <1>1, <1>2, <1>3, <1>4, <1>5, <1>6, <1>7, <1>8, <1>9, <1>10, <1>11 DEF Next, EndpointWrites

LEMMA EarnedHolds == CommitFaults = FALSE /\ Spec => [](SafeInv /\ TableInv /\ EarnInv)
<1> SUFFICES ASSUME CommitFaults = FALSE
             PROVE  Spec => [](SafeInv /\ TableInv /\ EarnInv)
  OBVIOUS
<1>1. Init => TableInv /\ EarnInv
  <2> SUFFICES ASSUME Init PROVE TableInv /\ EarnInv
    OBVIOUS
  <2>1. /\ tx = "none" /\ todo = <<>> /\ Len(<<>>) = 0 /\ before = <<>> /\ listed = <<>> /\ held = <<>>
        /\ pc = "down" /\ reply = "none" /\ DOMAIN <<>> = {}
    BY DEF Init, StoreInit
  <2>2. TableInv
    BY <2>1 DEF TableInv, CopiesOf
  <2>3. EarnInv
    BY <2>1 DEF EarnInv, Placing, Resting
  <2>4. QED
    BY <2>2, <2>3
<1>2. SafeInv /\ TableInv /\ EarnInv /\ [Next]_vars => TableInv' /\ EarnInv'
  BY TableStep, EarnStep
<1>3. QED
  BY <1>1, <1>2, SafeHolds, PTL DEF Spec

\* The checkpoint passes a message only when the model answered for it and all the answer
\* asked for is on disk (extract_runtime_memories), provided no COMMIT fails, and however
\* the endpoint edits the database meanwhile.
THEOREM CheckpointIsEarned == CommitFaults = FALSE /\ Spec => CheckpointEarned
<1> SUFFICES ASSUME CommitFaults = FALSE
             PROVE  Spec => CheckpointEarned
  OBVIOUS
<1>1. ASSUME SafeInv, EarnInv, [Next]_vars, checkpoint' > checkpoint
      PROVE  /\ reply \in {"none", "decision"}
             /\ \A i \in deleted : ~Live(rows[i])
             /\ \A n \in 1..Len(candidates) : \E i \in Ids(rows) :
                   /\ rows[i].key = candidates[n].key /\ rows[i].value = candidates[n].value
                   /\ rows[i].layer \in {candidates[n].layer, General}
  <2>1. checkpoint \in Nat
    <3>1. recorded \in Nat /\ checkpoint \in 0..recorded
      BY <1>1 DEF SafeInv, ShapeInv, WorkInv
    <3>2. QED
      BY <3>1
  <2>2. AdvanceCheckpoint
    <3>1. checkpoint' # checkpoint /\ checkpoint' # 0
      BY <1>1, <2>1
    <3>2. QED
      BY <1>1, <3>1 DEF Next, vars, session, OpenEpisode, CloseEpisode, RecordMessage, RecordFails, Snapshot, List,
       NothingToAsk, AskFails, Decide, BeginDeletions, UpsertNoOp, UpsertList, BeginUpsert, Write1, CommitUnit, Raise,
       AfterUnread, Audited, EndpointDelete, EndpointUpdate, EndpointAdd, Serve
  <2>3. pc = "next" /\ Len(done) = Len(candidates)
    BY <2>2 DEF AdvanceCheckpoint, AllStored
  <2>4. QED
    BY <1>1, <2>3 DEF EarnInv, Placing, Settled, Stored
<1>2. SafeInv /\ TableInv /\ EarnInv /\ [Next]_vars
        => [checkpoint' > checkpoint =>
              /\ reply \in {"none", "decision"}
              /\ \A i \in deleted : ~Live(rows[i])
              /\ \A n \in 1..Len(candidates) : \E i \in Ids(rows) :
                    /\ rows[i].key = candidates[n].key /\ rows[i].value = candidates[n].value
                    /\ rows[i].layer \in {candidates[n].layer, General}]_vars
  BY <1>1
<1>3. QED
  BY <1>2, EarnedHolds, PTL DEF Spec, CheckpointEarned

-----------------------------------------------------------------------------
(* The replay, over what an extraction has deleted and placed so far.      *)

MadeOf(dn, n) == {dn[k].id : k \in 1..n} \ {New}
LaterOf(dn, n, i) == {k \in 1..n : i \in dn[k].of}

BaseOf(b, D, cs, dn, n, i) ==
    IF i \notin DOMAIN b THEN cs[CHOOSE k \in 1..n : dn[k].id = i]
    ELSE IF i \in D THEN [b[i] EXCEPT !.status = "deleted"] ELSE b[i]

ReplayOf(b, D, cs, dn, n) ==
    [i \in DOMAIN b \cup MadeOf(dn, n) |->
        IF LaterOf(dn, n, i) = {} THEN BaseOf(b, D, cs, dn, n, i)
        ELSE [BaseOf(b, D, cs, dn, n, i) EXCEPT !.status = "superseded", !.by = dn[Newest(LaterOf(dn, n, i))].id]]

Alike(r, s) == Cols(r, s) /\ Same(r, s)

\* R shows, up to the links back, what a session of the repository sees in t.
Mirrors(R, t, r) == DOMAIN R = Visible(t, r) /\ \A i \in DOMAIN R : Alike(R[i], t[i])

Linked == [id : Nat, of : SUBSET Nat]

\* No row is made twice, and none was there before.
Apart(b, dn, n) ==
    \A j \in 1..n : /\ dn[j].id \notin DOMAIN b
                    /\ \A k \in 1..n : dn[j].id = dn[k].id /\ dn[j].id # New => j = k

LEMMA LaterIs ==
    ASSUME NEW n \in Nat, NEW dn, NEW i, LaterOf(dn, n, i) # {}
    PROVE  Newest(LaterOf(dn, n, i)) \in LaterOf(dn, n, i) /\ \A k \in LaterOf(dn, n, i) : k <= Newest(LaterOf(dn, n, i))
<1>1. LaterOf(dn, n, i) \in SUBSET (1..n)
  BY DEF LaterOf
<1>2. QED
  BY <1>1, NewestIs

\* What a replay of n candidates takes for granted.
Basis(b, cs, dn, n) ==
    /\ cs \in Seq(Row) /\ dn \in Seq(Linked) /\ n \in 0..Len(dn) /\ n <= Len(cs)
    /\ Apart(b, dn, n) /\ \A i \in DOMAIN b : b[i] \in Row

\* The k-th of n candidates made row i.
Makes(dn, n, k, i) == k \in 1..n /\ dn[k].id = i /\ i # New

LEMMA MadeIs ==
    ASSUME NEW b, NEW cs, NEW dn, NEW n, Basis(b, cs, dn, n), NEW i \in MadeOf(dn, n)
    PROVE  i \notin DOMAIN b /\ \E k \in 1..n : Makes(dn, n, k, i)
BY DEF MadeOf, Apart, Basis, Makes

LEMMA BaseOld ==
    ASSUME NEW b, NEW D, NEW cs, NEW dn, NEW n, NEW i \in DOMAIN b
    PROVE  BaseOf(b, D, cs, dn, n, i) = IF i \in D THEN Erased(b[i]) ELSE b[i]
BY DEF BaseOf, Erased

LEMMA BaseNew ==
    ASSUME NEW b, NEW D, NEW cs, NEW dn, NEW n, Basis(b, cs, dn, n), NEW i, NEW k, Makes(dn, n, k, i)
    PROVE  BaseOf(b, D, cs, dn, n, i) = cs[k]
<1>1. (CHOOSE j \in 1..n : dn[j].id = i) \in {j \in 1..n : dn[j].id = i}
  BY DEF Makes
<1>2. (CHOOSE j \in 1..n : dn[j].id = i) = k
  BY <1>1 DEF Apart, Basis, Makes
<1>3. i \notin DOMAIN b
  BY DEF Apart, Basis, Makes
<1>4. QED
  BY <1>2, <1>3 DEF BaseOf

LEMMA BaseType ==
    ASSUME NEW b, NEW D, NEW cs, NEW dn, NEW n, Basis(b, cs, dn, n), NEW i \in DOMAIN b \cup MadeOf(dn, n)
    PROVE  BaseOf(b, D, cs, dn, n, i) \in Row
<1>1. CASE i \in DOMAIN b
  <2>1. b[i] \in Row
    BY <1>1 DEF Basis
  <2>2. Erased(b[i]) \in Row
    BY <2>1, EditedType DEF Erased
  <2>3. QED
    BY <1>1, <2>1, <2>2, BaseOld
<1>2. CASE i \in MadeOf(dn, n)
  <2>1. PICK k \in 1..n : Makes(dn, n, k, i)
    BY <1>2, MadeIs
  <2>2. cs[k] \in Row
    <3>1. cs \in Seq(Row) /\ n \in Nat /\ n <= Len(cs) /\ Len(cs) \in Nat
      BY DEF Basis
    <3>2. k \in 1..Len(cs)
      BY <3>1
    <3>3. QED
      BY <3>1, <3>2
  <2>3. BaseOf(b, D, cs, dn, n, i) = cs[k]
    BY <2>1, BaseNew
  <2>4. QED
    BY <2>2, <2>3
<1>3. QED
  BY <1>1, <1>2

\* The replay of the first n candidates depends on them alone, and not on no-ops after them.
Trails(ds, m, dn, n) ==
    /\ n <= m
    /\ \A k \in 1..n : ds[k] = dn[k]
    /\ \A k \in (n + 1)..m : ds[k] = [id |-> New, of |-> {}]

LEMMA ReplaySame ==
    ASSUME NEW b, NEW D, NEW cs, NEW dn, NEW ds, NEW n, NEW m, Basis(b, cs, dn, n), Basis(b, cs, ds, m), Trails(ds, m, dn, n)
    PROVE  ReplayOf(b, D, cs, ds, m) = ReplayOf(b, D, cs, dn, n)
<1>0. /\ n \in Nat /\ m \in Nat /\ n <= m
      /\ \A k \in 1..n : ds[k] = dn[k]
      /\ \A k \in (n + 1)..m : ds[k] = [id |-> New, of |-> {}]
  <2>1. n \in Nat /\ m \in Nat
    BY DEF Basis
  <2>2. QED
    BY <2>1 DEF Trails
<1>1. \A k \in 1..m : k \in 1..n \/ k \in (n + 1)..m
  BY <1>0
<1>2. 1..n \subseteq 1..m /\ n \in Nat /\ m \in Nat
  BY <1>0
<1>3. MadeOf(ds, m) = MadeOf(dn, n)
  <2>1. \A k \in 1..m : ds[k].id # New => k \in 1..n /\ ds[k].id = dn[k].id
    BY <1>0, <1>1
  <2>2. \A k \in 1..n : k \in 1..m /\ dn[k].id = ds[k].id
    BY <1>0, <1>2
  <2>3. \A i : i \in MadeOf(ds, m) <=> i \in MadeOf(dn, n)
    BY <2>1, <2>2 DEF MadeOf
  <2>4. QED
    BY <2>3
<1>4. \A i : LaterOf(ds, m, i) = LaterOf(dn, n, i)
  BY <1>0, <1>1, <1>2 DEF LaterOf
<1>5. \A i \in DOMAIN b \cup MadeOf(dn, n) : BaseOf(b, D, cs, ds, m, i) = BaseOf(b, D, cs, dn, n, i)
  <2>1. \A i \in DOMAIN b : BaseOf(b, D, cs, ds, m, i) = BaseOf(b, D, cs, dn, n, i)
    BY DEF BaseOf
  <2>2. ASSUME NEW i \in MadeOf(dn, n)
        PROVE  BaseOf(b, D, cs, ds, m, i) = BaseOf(b, D, cs, dn, n, i)
    <3>1. PICK k \in 1..n : Makes(dn, n, k, i)
      BY MadeIs
    <3>2. BaseOf(b, D, cs, dn, n, i) = cs[k]
      BY <3>1, BaseNew
    <3>3. Makes(ds, m, k, i)
      BY <1>0, <1>2, <3>1 DEF Makes
    <3>4. BaseOf(b, D, cs, ds, m, i) = cs[k]
      BY <3>1, <3>3, BaseNew
    <3>5. QED
      BY <3>1, <3>2, <3>3, <3>4
  <2>3. QED
    BY <2>1, <2>2
<1>6. \A i \in DOMAIN b \cup MadeOf(dn, n) : LaterOf(dn, n, i) # {} =>
        ds[Newest(LaterOf(ds, m, i))].id = dn[Newest(LaterOf(dn, n, i))].id
  <2> SUFFICES ASSUME NEW i, LaterOf(dn, n, i) # {}
               PROVE  ds[Newest(LaterOf(ds, m, i))].id = dn[Newest(LaterOf(dn, n, i))].id
    OBVIOUS
  <2>1. Newest(LaterOf(dn, n, i)) \in 1..n
    BY <1>2, LaterIs DEF LaterOf
  <2>2. QED
    BY <1>0, <1>4, <2>1
<1>7. QED
  BY <1>3, <1>4, <1>5, <1>6 DEF ReplayOf

\* One more candidate that has been stored: it is there, and it ends what it supersedes.
Follows(S, R, d, m) ==
    /\ DOMAIN S = DOMAIN R \cup {d.id}
    /\ S[d.id] = m
    /\ \A i \in DOMAIN R : IF i \in d.of THEN Cols(S[i], R[i]) /\ S[i].status = "superseded" /\ S[i].by = d.id
                           ELSE S[i] = R[i]

LEMMA ReplayNext ==
    ASSUME NEW b, NEW D, NEW cs, NEW dn, NEW n, n # 0, Basis(b, cs, dn, n), dn[n].id # New,
           \A k \in 1..n : dn[n].id \notin dn[k].of
    PROVE  Follows(ReplayOf(b, D, cs, dn, n), ReplayOf(b, D, cs, dn, n - 1), dn[n], cs[n])
<1> DEFINE p == n - 1
<1> DEFINE R == ReplayOf(b, D, cs, dn, p)
           S == ReplayOf(b, D, cs, dn, n)
           B(i) == BaseOf(b, D, cs, dn, p, i)
           C(i) == BaseOf(b, D, cs, dn, n, i)
<1>1. /\ n \in Nat /\ p \in Nat
      /\ \A k \in 1..n : k = n \/ k \in 1..p
      /\ \A k \in 1..p : k \in 1..n /\ k # n
      /\ n \in 1..n
  BY DEF Basis
<1>2. Basis(b, cs, dn, p)
  BY <1>1 DEF Basis, Apart
<1> HIDE DEF p
<1>3. MadeOf(dn, n) = MadeOf(dn, p) \cup {dn[n].id}
  BY <1>1 DEF MadeOf
<1>4. /\ \A i \in DOMAIN b : B(i) = C(i) /\ B(i) \in Row
      /\ \A k, i : Makes(dn, p, k, i) => B(i) = cs[k]
      /\ \A i \in MadeOf(dn, p) : B(i) \in Row /\ \E k \in 1..p : Makes(dn, p, k, i)
  <2>1. \A i \in DOMAIN b : B(i) = C(i)
    BY DEF BaseOf
  <2>2. \A k, i : Makes(dn, p, k, i) => B(i) = cs[k]
    BY <1>2, BaseNew
  <2>3. \A i \in DOMAIN b \cup MadeOf(dn, p) : B(i) \in Row
    BY <1>2, BaseType
  <2>4. \A i \in MadeOf(dn, p) : \E k \in 1..p : Makes(dn, p, k, i)
    BY <1>2, MadeIs
  <2>5. QED
    BY <2>1, <2>2, <2>3, <2>4
<1>5. \A k, i : Makes(dn, n, k, i) => C(i) = cs[k]
  BY BaseNew
<1>6. /\ DOMAIN R = DOMAIN b \cup MadeOf(dn, p)
      /\ \A i \in DOMAIN R :
            R[i] = IF LaterOf(dn, p, i) = {} THEN B(i) ELSE Ended(B(i), dn[Newest(LaterOf(dn, p, i))].id)
  BY DEF ReplayOf, Ended
<1>7. /\ DOMAIN S = DOMAIN b \cup MadeOf(dn, n)
      /\ \A i \in DOMAIN S : S[i] = IF LaterOf(dn, n, i) = {} THEN C(i) ELSE Ended(C(i), dn[Newest(LaterOf(dn, n, i))].id)
  BY DEF ReplayOf, Ended
<1> HIDE DEF R, S, B, C
<1>8. DOMAIN S = DOMAIN R \cup {dn[n].id}
  BY <1>3, <1>6, <1>7
<1>9. S[dn[n].id] = cs[n]
  <2>1. LaterOf(dn, n, dn[n].id) = {}
    BY DEF LaterOf
  <2>2. C(dn[n].id) = cs[n]
    BY <1>1, <1>5 DEF Makes
  <2>3. QED
    BY <1>7, <1>8, <2>1, <2>2
<1>10. ASSUME NEW i \in DOMAIN R
       PROVE  C(i) = B(i) /\ B(i) \in Row /\ i \in DOMAIN S
  <2>1. CASE i \in DOMAIN b
    BY <1>4, <1>5, <1>6, <1>8, <2>1
  <2>2. CASE i \in MadeOf(dn, p)
    <3>1. PICK k \in 1..p : Makes(dn, p, k, i)
      BY <1>4, <2>2
    <3>2. Makes(dn, n, k, i)
      BY <1>1, <3>1 DEF Makes
    <3>3. QED
      BY <1>4, <1>5, <1>6, <1>8, <2>2, <3>1, <3>2
  <2>3. QED
    BY <1>6, <2>1, <2>2
<1>11. ASSUME NEW i \in DOMAIN R, i \in dn[n].of
       PROVE  Cols(S[i], R[i]) /\ S[i].status = "superseded" /\ S[i].by = dn[n].id
  <2>1. n \in LaterOf(dn, n, i) /\ LaterOf(dn, n, i) \in SUBSET (1..n)
    BY <1>1, <1>11 DEF LaterOf
  <2>2. Newest(LaterOf(dn, n, i)) = n
    <3>1. Newest(LaterOf(dn, n, i)) \in LaterOf(dn, n, i) /\ n <= Newest(LaterOf(dn, n, i))
      BY <1>1, <2>1, LaterIs
    <3>2. QED
      BY <1>1, <2>1, <3>1
  <2>3. S[i] = Ended(B(i), dn[n].id)
    BY <1>7, <1>10, <2>1, <2>2
  <2>4. Cols(R[i], B(i))
    <3>1. Cols(B(i), B(i)) /\ \A x : Cols(Ended(B(i), x), B(i))
      BY <1>10 DEF Cols, Ended, Row
    <3>2. QED
      BY <1>6, <3>1
  <2>5. Cols(S[i], B(i)) /\ S[i].status = "superseded" /\ S[i].by = dn[n].id
    BY <1>10, <2>3 DEF Cols, Ended, Row
  <2>6. QED
    BY <2>4, <2>5 DEF Cols
<1>12. ASSUME NEW i \in DOMAIN R, i \notin dn[n].of
       PROVE  S[i] = R[i]
  <2>1. LaterOf(dn, n, i) = LaterOf(dn, p, i)
    BY <1>1, <1>12 DEF LaterOf
  <2>2. QED
    BY <1>6, <1>7, <1>10, <2>1
<1>13. QED
  BY <1>8, <1>9, <1>11, <1>12 DEF Follows, R, S, p

\* A session finds the same rows active in what it sees of a table and in its replay.
LEMMA NoOpMirrored ==
    ASSUME NEW t \in Seq(Row), NEW R, NEW r \in Repo, NEW m, m.layer \in {r, General}, Mirrors(R, t, r)
    PROVE  NoOp(R, m) <=> NoOp(t, m)
<1>0. r # General
  BY LayerAssumption
<1>1. \A i \in Ids(t) : t[i].layer \in {r, General} => i \in DOMAIN R
  BY <1>0 DEF Mirrors, Visible
<1>2. \A i \in DOMAIN R : i \in Ids(t) /\ Alike(R[i], t[i])
  BY DEF Mirrors, Visible
<1>3. Active(R, m) = Active(t, m)
  BY <1>1, <1>2 DEF Active, Alike, Cols, Same, Live, Ids
<1>4. ASSUME Active(t, m) # {}
      PROVE  Newest(Active(t, m)) \in DOMAIN R
  <2>1. Active(t, m) \in SUBSET (1..Len(t)) /\ Len(t) \in Nat
    BY IdsOf DEF Active
  <2>2. Newest(Active(t, m)) \in Active(R, m)
    BY <1>3, <1>4, <2>1, NewestIs
  <2>3. QED
    BY <2>2 DEF Active, Ids
<1>5. QED
  BY <1>2, <1>3, <1>4 DEF NoOp, Alike, Cols, Same

Replay(n) == ReplayOf(before, deleted, candidates, done, n)

Traced ==
    /\ deleted \subseteq DOMAIN before
    /\ \A k \in 1..Len(done) :
          /\ done[k].of \subseteq DOMAIN Replay(k - 1)
          /\ done[k].id = New => NoOp(Replay(k - 1), candidates[k])
    /\ \A k \in 1..Settled : done[k].id \in Ids(rows) \cup {New} /\ done[k].of \subseteq Ids(rows)
    /\ \A j, k \in 1..Len(done) : done[j].id = done[k].id /\ done[j].id # New => j = k
    /\ Mirrors(Replay(Settled), rows, repo)
    /\ pc = "saving" => done[Len(done)].id = Len(rows) + 1 /\ done[Len(done)].of = DOMAIN held

ExactInv ==
    ~elsewhere /\ evident =>
        /\ ReadInv
        /\ pc \in {"list", "ask", "delete", "deleting"} \/ (pc = "audit" /\ outcome = "errors")
              => before = Restricted(rows, Visible(rows, repo))
        /\ pc \in Placing \/ (pc = "audit" /\ outcome = "clean") => Traced

CiteInv ==
    /\ pc = "audit" => outcome \in {"clean", "errors", "raised"}
    /\ \A i \in DOMAIN before : Live(rows[i]) => Live(before[i])
    /\ pc = "ask" => \A i \in DOMAIN before \cap DOMAIN listed : Live(listed[i]) => Live(before[i])
    /\ \A i \in deleted \cap DOMAIN before : Live(before[i])
    /\ \A k \in 1..Len(done) :
          done[k].id \notin DOMAIN before /\ \A i \in done[k].of \cap DOMAIN before : Live(before[i])
    /\ pc = "begin" => \A i \in DOMAIN held \cap DOMAIN before : Live(before[i])

DiffInv ==
    /\ pc \in Resting => before = <<>>
    /\ ~shared =>
          /\ OneLive(before)
          /\ \A i \in DOMAIN before :
                /\ before[i].status = "superseded" <=> before[i].by # 0
                /\ ~Live(before[i]) => Same(rows[i], before[i])

LEMMA CiteStep ==
    ASSUME CommitFaults = FALSE, SafeInv, TableInv, CiteInv, [Next]_vars
    PROVE  CiteInv'
<1>a. /\ rows \in Seq(Row) /\ (tx # "unit" => view = rows) /\ (tx = "unit" <=> pc \in {"deleting", "saving"})
      /\ rows' \in Seq(Row) /\ Ids(rows) = 1..Len(rows) /\ Len(rows) \in Nat /\ Len(<<>>) = 0 /\ DOMAIN <<>> = {}
  <2>1. ShapeInv /\ OpenInv /\ StoreInv
    BY DEF SafeInv, ShapeInv
  <2>2. rows' \in Seq(Row)
    BY <2>1, StoreKept DEF StoreInv
  <2>3. QED
    BY <2>1, <2>2, IdsOf DEF SafeInv, StoreInv, OpenInv
<1>b. \A i \in DOMAIN before : i \in Ids(rows) /\ (Live(rows[i]) => Live(before[i])) /\ (Live(rows'[i]) => Live(before[i]))
  BY TableStep DEF TableInv, CopiesOf, CiteInv, Outlives
<1>c. /\ done \in Seq(Linked) /\ Len(done) \in Nat
      /\ pc \in Resting \cup {"list", "ask"} => done = <<>> /\ deleted = {}
  <2>1. WorkInv
    BY DEF SafeInv, ShapeInv
  <2>2. done \in Seq(Linked)
    BY <2>1 DEF WorkInv, Linked
  <2>3. QED
    BY <2>1, <2>2 DEF WorkInv
\* Nothing more is listed, held or placed.
<1>d. ASSUME before' = before \/ before' = <<>>, deleted' = deleted \/ deleted' = {}, done' = done \/ done' = <<>>,
             pc' \notin {"ask", "begin"}, pc' = "audit" => outcome' \in {"clean", "errors", "raised"}
      PROVE  CiteInv'
  <2>1. \A i \in DOMAIN before' : i \in DOMAIN before /\ before'[i] = before[i]
    BY <1>a, <1>d
  <2>2. \A i \in deleted' : i \in deleted
    BY <1>d
  <2>3. \A k \in 1..Len(done') : k \in 1..Len(done) /\ done'[k] = done[k]
    BY <1>a, <1>d
  <2>4. QED
    BY <1>b, <1>d, <2>1, <2>2, <2>3 DEF CiteInv
\* It stays where it is, with one more candidate placed or other rows held.
<1>e. ASSUME UNCHANGED <<before, deleted>>, pc' \notin {"ask", "audit"},
             \A k \in 1..Len(done') :
                done'[k].id \notin DOMAIN before /\ \A i \in done'[k].of \cap DOMAIN before : Live(before[i]),
             pc' = "begin" => \A i \in DOMAIN held' \cap DOMAIN before : Live(before[i])
      PROVE  CiteInv'
  BY <1>b, <1>e DEF CiteInv
<1>1. CASE \/ \E r \in Repo : OpenEpisode(r)
           \/ CloseEpisode \/ RecordMessage \/ RecordFails \/ NothingToAsk \/ BeginDeletions
           \/ Write1 \/ CommitUnit \/ AdvanceCheckpoint \/ Raise \/ AfterUnread \/ Audited
           \/ \E run \in Calls : AskFails(run)
  <2>1. /\ before' = before \/ before' = <<>>
        /\ deleted' = deleted \/ deleted' = {}
        /\ done' = done \/ done' = <<>>
    BY <1>1 DEF OpenEpisode, CloseEpisode, RecordMessage, RecordFails, NothingToAsk, BeginDeletions, Write1, CommitUnit,
       AdvanceCheckpoint, Raise, AfterUnread, Audited, AskFails, Idle, work, decision
  <2>2. pc' \notin {"ask", "begin"} /\ (pc' = "audit" => outcome' \in {"clean", "errors", "raised"})
    BY <1>1 DEF OpenEpisode, CloseEpisode, RecordMessage, RecordFails, NothingToAsk, BeginDeletions, Write1, CommitUnit,
       AdvanceCheckpoint, AllStored, Raise, AfterUnread, Audited, AskFails, work, CiteInv
  <2>3. QED
    BY <1>d, <2>1, <2>2
<1>11. CASE Snapshot /\ ~evident'
  BY <1>d, <1>11 DEF Snapshot, decision
<1>2. CASE Snapshot /\ evident'
  <2>1. /\ pc = "idle" /\ pc' = "list" /\ before' = Restricted(view, Visible(view, repo)) /\ rows' = rows /\ tx # "unit"
        /\ deleted' = deleted /\ done' = done
    BY <1>2, <1>a DEF Snapshot, storeVars, decision
  <2>2. DOMAIN before' = Visible(rows, repo) /\ \A i \in Visible(rows, repo) : before'[i] = rows[i]
    BY <1>a, <2>1, RestrictedCopies
  <2>3. done' = <<>> /\ deleted' = {}
    BY <1>c, <2>1 DEF Resting
  <2>4. QED
    BY <1>a, <2>1, <2>2, <2>3 DEF CiteInv
<1>3. CASE List
  <2>1. /\ pc = "list" /\ pc' = "ask" /\ listed' = Restricted(view, Visible(view, repo)) /\ rows' = rows /\ tx # "unit"
        /\ deleted' = deleted /\ done' = done /\ before' = before
    BY <1>3, <1>a DEF List, storeVars, decision
  <2>2. \A i \in DOMAIN listed' : listed'[i] = rows[i]
    BY <1>a, <2>1, RestrictedCopies
  <2>3. done' = <<>> /\ deleted' = {}
    BY <1>c, <2>1
  <2>4. QED
    BY <1>a, <1>b, <2>1, <2>2, <2>3 DEF CiteInv
<1>4. ASSUME NEW targets, NEW items, Decide(targets, items)
      PROVE  CiteInv'
  <2>1. /\ pc = "ask" /\ pc' = "delete" /\ before' = before /\ done' = done /\ rows' = rows
        /\ deleted' = UNION {Matching(listed, d[1], d[2], repo) : d \in targets}
    BY <1>4 DEF Decide, storeVars
  <2>2. \A i \in deleted' : i \in DOMAIN listed /\ Live(listed[i])
    BY <2>1 DEF Matching, Addressed
  <2>3. done' = <<>>
    BY <1>c, <2>1
  <2>4. \A i \in deleted' \cap DOMAIN before' : Live(before'[i])
    BY <2>1, <2>2 DEF CiteInv
  <2>5. QED
    BY <1>a, <1>b, <2>1, <2>3, <2>4 DEF CiteInv
<1>5. CASE UpsertNoOp
  <2>1. /\ pc = "next" /\ pc' = pc /\ UNCHANGED <<before, deleted>> /\ done' = Append(done, [id |-> New, of |-> {}])
    BY <1>5 DEF UpsertNoOp, decision
  <2>2. Len(done') = Len(done) + 1 /\ \A k \in 1..Len(done') :
            (k \in 1..Len(done) /\ done'[k] = done[k]) \/ done'[k] = [id |-> New, of |-> {}]
    BY <1>c, <2>1
  <2>3. New \notin DOMAIN before
    BY <1>a, <1>b DEF New
  <2>4. \A k \in 1..Len(done') :
            done'[k].id \notin DOMAIN before /\ \A i \in done'[k].of \cap DOMAIN before : Live(before[i])
    BY <2>2, <2>3 DEF CiteInv
  <2>5. QED
    BY <1>e, <2>1, <2>4
<1>6. CASE UpsertList
  <2> DEFINE H == Superseded(view, candidates[Len(done) + 1])
  <2>1. /\ pc' = "begin" /\ UNCHANGED <<before, deleted, done>> /\ tx # "unit" /\ held' = Restricted(view, H)
    BY <1>6, <1>a DEF UpsertList, decision
  <2>2. \A i \in H : Live(rows[i])
    BY <1>a, <2>1 DEF Superseded, Active
  <2>3. DOMAIN held' = H
    BY <2>1, RestrictedCopies
  <2> HIDE DEF H
  <2>4. \A i \in DOMAIN held' \cap DOMAIN before : Live(before[i])
    BY <1>b, <2>2, <2>3
  <2>5. QED
    BY <1>e, <2>1, <2>4 DEF CiteInv
<1>7. CASE BeginUpsert
  <2> DEFINE d == [id |-> Len(rows) + 1, of |-> DOMAIN held]
  <2>1. /\ pc = "begin" /\ pc' = "saving" /\ UNCHANGED <<before, deleted>> /\ done' = Append(done, d)
    BY <1>7 DEF BeginUpsert, decision
  <2>2. d.id \notin DOMAIN before /\ \A i \in d.of \cap DOMAIN before : Live(before[i])
    BY <1>a, <1>b, <2>1 DEF CiteInv
  <2> HIDE DEF d
  <2>3. Len(done') = Len(done) + 1 /\ \A k \in 1..Len(done') : (k \in 1..Len(done) /\ done'[k] = done[k]) \/ done'[k] = d
    BY <1>c, <2>1
  <2>4. \A k \in 1..Len(done') :
            done'[k].id \notin DOMAIN before /\ \A i \in done'[k].of \cap DOMAIN before : Live(before[i])
    BY <2>2, <2>3 DEF CiteInv
  <2>5. QED
    BY <1>e, <2>1, <2>4
<1>8. CASE EndpointWrites
  <2>1. UNCHANGED <<pc, before, listed, deleted, done, held, outcome>>
    BY <1>8 DEF EndpointWrites, EndpointDelete, EndpointUpdate, EndpointAdd, Serve, work, decision
  <2>2. QED
    BY <1>b, <2>1 DEF CiteInv
<1>9. CASE UNCHANGED vars
  <2>1. UNCHANGED <<pc, before, listed, deleted, done, held, outcome>>
    BY <1>9 DEF vars, work, decision
  <2>2. QED
    BY <1>b, <2>1 DEF CiteInv
<1>10. QED
  BY <1>1, <1>2, <1>3, <1>4, <1>5, <1>6, <1>7, <1>8, <1>9, <1>11 DEF Next, EndpointWrites

\* The candidates placed so far are a basis for the replay of any number of them.
Ground(b, cs, dn) == Basis(b, cs, dn, Len(dn))

LEMMA GroundBasis ==
    ASSUME NEW b, NEW cs, NEW dn, NEW n \in 0..Len(dn), Ground(b, cs, dn)
    PROVE  Basis(b, cs, dn, n)
<1>1. Len(dn) \in Nat /\ Len(cs) \in Nat /\ n \in Nat /\ n <= Len(dn) /\ Len(dn) <= Len(cs)
  BY DEF Ground, Basis
<1>2. \A k \in 1..n : k \in 1..Len(dn)
  BY <1>1
<1>3. n <= Len(cs)
  BY <1>1
<1>4. QED
  BY <1>2, <1>3 DEF Ground, Basis, Apart

\* One more candidate: what it may be.
Joins(b, cs, dn, d) ==
    /\ Ground(b, cs, dn) /\ d \in Linked /\ Len(dn) < Len(cs)
    /\ d.id \notin DOMAIN b /\ (d.id = New \/ \A k \in 1..Len(dn) : dn[k].id # d.id)

LEMMA GroundOn ==
    ASSUME NEW b, NEW cs, NEW dn, NEW d, Joins(b, cs, dn, d)
    PROVE  /\ Ground(b, cs, Append(dn, d)) /\ Len(dn) \in Nat
           /\ Len(Append(dn, d)) = Len(dn) + 1 /\ Append(dn, d)[Len(dn) + 1] = d
           /\ \A k \in 1..Len(dn) : k \in 1..Len(Append(dn, d)) /\ Append(dn, d)[k] = dn[k]
           /\ \A k \in 1..Len(Append(dn, d)) : k \in 1..Len(dn) \/ k = Len(dn) + 1
<1> DEFINE ds == Append(dn, d)
<1>1. /\ dn \in Seq(Linked) /\ Len(dn) \in Nat /\ cs \in Seq(Row) /\ Len(cs) \in Nat /\ Apart(b, dn, Len(dn))
      /\ \A i \in DOMAIN b : b[i] \in Row
      /\ d \in Linked /\ Len(dn) < Len(cs) /\ d.id \notin DOMAIN b /\ (d.id = New \/ \A k \in 1..Len(dn) : dn[k].id # d.id)
  BY DEF Joins, Ground, Basis
<1>2. /\ ds \in Seq(Linked) /\ Len(ds) = Len(dn) + 1 /\ Len(ds) \in Nat /\ ds[Len(dn) + 1] = d
      /\ \A k \in 1..Len(dn) : k \in 1..Len(ds) /\ ds[k] = dn[k]
      /\ \A k \in 1..Len(ds) : k \in 1..Len(dn) \/ k = Len(dn) + 1
  BY <1>1
<1> HIDE DEF ds
<1>3. Apart(b, ds, Len(ds))
  BY <1>1, <1>2 DEF Apart
<1>4. Ground(b, cs, ds)
  BY <1>1, <1>2, <1>3 DEF Ground, Basis
<1>5. QED
  BY <1>1, <1>2, <1>4 DEF ds

LEMMA ReplayKept ==
    ASSUME NEW b, NEW D, NEW cs, NEW dn, NEW d, Joins(b, cs, dn, d), NEW n \in 0..Len(dn)
    PROVE  ReplayOf(b, D, cs, Append(dn, d), n) = ReplayOf(b, D, cs, dn, n)
<1> DEFINE ds == Append(dn, d)
<1>1. /\ Ground(b, cs, ds) /\ Ground(b, cs, dn) /\ Len(dn) \in Nat /\ Len(ds) = Len(dn) + 1
      /\ \A k \in 1..Len(dn) : ds[k] = dn[k]
  BY GroundOn DEF Joins
<1> HIDE DEF ds
<1>2. n \in Nat /\ n <= n /\ n \in 0..Len(ds) /\ (n + 1)..n = {} /\ \A k \in 1..n : k \in 1..Len(dn)
  BY <1>1
<1>3. Basis(b, cs, dn, n) /\ Basis(b, cs, ds, n)
  BY <1>1, <1>2, GroundBasis
<1>4. \A k \in 1..n : ds[k] = dn[k]
  BY <1>1, <1>2
<1>5. Trails(ds, n, dn, n)
  BY <1>2, <1>4 DEF Trails
<1>6. ReplayOf(b, D, cs, ds, n) = ReplayOf(b, D, cs, dn, n)
  BY <1>3, <1>5, ReplaySame
<1>7. QED
  BY <1>6 DEF ds

LEMMA ReplayWithNoOp ==
    ASSUME NEW b, NEW D, NEW cs, NEW dn, NEW d, Joins(b, cs, dn, d), d = [id |-> New, of |-> {}]
    PROVE  ReplayOf(b, D, cs, Append(dn, d), Len(dn) + 1) = ReplayOf(b, D, cs, dn, Len(dn))
<1> DEFINE ds == Append(dn, d)
           n == Len(dn)
           m == n + 1
<1>1. /\ Ground(b, cs, ds) /\ Ground(b, cs, dn) /\ n \in Nat /\ Len(ds) = m /\ ds[m] = d
      /\ \A k \in 1..n : ds[k] = dn[k]
  BY GroundOn DEF Joins
<1>2. Basis(b, cs, dn, n) /\ Basis(b, cs, ds, m)
  BY <1>1 DEF Ground
<1> HIDE DEF ds, n
<1>3. Trails(ds, m, dn, n)
  BY <1>1 DEF Trails
<1> HIDE DEF m
<1>4. ReplayOf(b, D, cs, ds, m) = ReplayOf(b, D, cs, dn, n)
  BY <1>2, <1>3, ReplaySame
<1>5. QED
  BY <1>4 DEF ds, n, m

LEMMA TracedGround ==
    ASSUME SafeInv, CiteInv, Traced
    PROVE  /\ Ground(before, candidates, done) /\ done \in Seq(Linked) /\ Len(done) \in Nat
           /\ Len(candidates) \in Nat /\ repo \in Repo
           /\ \A n \in 1..Len(candidates) : candidates[n] \in Row /\ candidates[n].layer \in {repo, General}
<1>1. /\ done \in Seq(Linked) /\ candidates \in Seq(Row) /\ Len(done) <= Len(candidates) /\ repo \in Repo
      /\ \A i \in DOMAIN before : before[i] \in Row
      /\ \A n \in 1..Len(candidates) : candidates[n] \in Fresh(repo)
  BY DEF SafeInv, ShapeInv, WorkInv, Rooted, RootedIn, Linked
<1>2. Apart(before, done, Len(done))
  BY DEF CiteInv, Traced, Apart
<1>3. QED
  BY <1>1, <1>2 DEF Ground, Basis, Fresh

LEMMA TraceNoOp ==
    ASSUME SafeInv, CiteInv, Traced, UpsertNoOp
    PROVE  Traced'
<1> DEFINE d == [id |-> New, of |-> {}]
           m == candidates[Len(done) + 1]
<1>1. /\ pc = "next" /\ pc' = pc /\ UNCHANGED <<rows, repo, before, deleted, candidates, held>>
      /\ done' = Append(done, d) /\ Len(done) < Len(candidates) /\ NoOp(view, m)
  BY DEF UpsertNoOp, storeVars, session, decision
<1>2. view = rows /\ rows \in Seq(Row) /\ New \notin DOMAIN before
  <2>1. view = rows /\ rows \in Seq(Row)
    BY <1>1 DEF SafeInv, ShapeInv, StoreInv, OpenInv
  <2>2. DOMAIN before \subseteq 1..Len(view)
    BY <1>1, IdsOf DEF SafeInv, ShapeInv, StoreInv, WorkInv, OpenInv, Rooted, RootedIn, Base
  <2>3. QED
    BY <2>1, <2>2 DEF New
<1>3. /\ Ground(before, candidates, done) /\ done \in Seq(Linked) /\ Len(done) \in Nat /\ Len(candidates) \in Nat /\ repo \in Repo
      /\ m.layer \in {repo, General} /\ d \in Linked /\ d.id = New
  <2>1. Len(done) + 1 \in 1..Len(candidates)
    BY <1>1, TracedGround
  <2>2. QED
    BY <2>1, TracedGround DEF Linked, New
<1>4. /\ Len(done') = Len(done) + 1 /\ done'[Len(done) + 1] = d
      /\ \A k \in 1..Len(done) : done'[k] = done[k]
      /\ \A k \in 1..Len(done') : k \in 1..Len(done) \/ k = Len(done) + 1
      /\ \A k \in 1..(Len(done) + 1) : k - 1 \in 0..Len(done)
      /\ Len(done) \in 0..Len(done) /\ (Len(done) + 1) - 1 = Len(done)
  BY <1>1, <1>3
<1>d. d = [id |-> New, of |-> {}] /\ m = candidates[Len(done) + 1]
  OBVIOUS
<1> HIDE DEF d, m
<1>j. Joins(before, candidates, done, d)
  BY <1>1, <1>2, <1>3 DEF Joins
<1> DEFINE R(n) == ReplayOf(before, deleted, candidates, done', n)
<1>5. (\A n \in 0..Len(done) : R(n) = Replay(n)) /\ R(Len(done) + 1) = Replay(Len(done))
  BY <1>1, <1>d, <1>j, ReplayKept, ReplayWithNoOp DEF Replay
<1>6. Settled = Len(done) /\ Settled' = Len(done')
  BY <1>1 DEF Settled
<1>7. Mirrors(Replay(Len(done)), rows, repo)
  BY <1>6 DEF Traced
<1>8. NoOp(Replay(Len(done)), m)
  BY <1>1, <1>2, <1>3, <1>7, NoOpMirrored
<1>9. \A k \in 1..Len(done') : /\ done'[k].of \subseteq DOMAIN R(k - 1)
                               /\ done'[k].id = New => NoOp(R(k - 1), candidates[k])
  <2> TAKE k \in 1..Len(done')
  <2>1. CASE k \in 1..Len(done)
    <3>1. R(k - 1) = Replay(k - 1)
      BY <1>4, <1>5, <2>1
    <3>2. QED
      BY <1>4, <2>1, <3>1 DEF Traced
  <2>2. CASE k = Len(done) + 1
    <3>1. R(k - 1) = Replay(Len(done)) /\ done'[k] = d
      BY <1>4, <1>5, <2>2
    <3>2. QED
      BY <1>8, <1>d, <2>2, <3>1
  <2>3. QED
    BY <1>4, <2>1, <2>2
<1>10. \A k \in 1..Len(done') : done'[k].id \in Ids(rows) \cup {New} /\ done'[k].of \subseteq Ids(rows)
  BY <1>4, <1>6, <1>d DEF Traced
<1>11. \A j, k \in 1..Len(done') : done'[j].id = done'[k].id /\ done'[j].id # New => j = k
  BY <1>4, <1>d DEF Traced
<1>12. deleted \subseteq DOMAIN before /\ Mirrors(R(Len(done')), rows, repo) /\ pc' # "saving"
  BY <1>1, <1>4, <1>5, <1>7 DEF Traced
<1>13. QED
  BY <1>1, <1>6, <1>9, <1>10, <1>11, <1>12 DEF Traced, Replay

LEMMA TraceBegin ==
    ASSUME SafeInv, CiteInv, Traced, ReadInv, BeginUpsert
    PROVE  Traced'
<1> DEFINE H == DOMAIN held
           d == [id |-> Len(rows) + 1, of |-> H]
           m == candidates[Len(done) + 1]
<1>1. /\ pc = "begin" /\ pc' = "saving" /\ UNCHANGED <<rows, repo, before, deleted, candidates, held>>
      /\ done' = Append(done, d)
  BY DEF BeginUpsert, Begin, session, decision
<1>2. /\ rows \in Seq(Row) /\ Len(rows) \in Nat /\ Ids(rows) = 1..Len(rows) /\ Len(done) < Len(candidates)
      /\ DOMAIN before \subseteq Ids(rows) /\ H \subseteq Ids(rows)
  <2>1. rows \in Seq(Row) /\ view = rows /\ Len(done) < Len(candidates)
    BY <1>1 DEF SafeInv, ShapeInv, StoreInv, OpenInv, WorkInv
  <2>2. DOMAIN before \subseteq Ids(rows) /\ H \subseteq Ids(rows)
    BY <1>1, <2>1 DEF SafeInv, ShapeInv, WorkInv, OpenInv, Rooted, RootedIn, Base
  <2>3. QED
    BY <2>1, <2>2, IdsOf
<1>3. /\ Ground(before, candidates, done) /\ done \in Seq(Linked) /\ Len(done) \in Nat /\ Len(candidates) \in Nat
      /\ repo \in Repo /\ m.layer \in {repo, General}
  <2>1. Len(done) + 1 \in 1..Len(candidates)
    BY <1>2, TracedGround
  <2>2. QED
    BY <2>1, TracedGround
<1>d. /\ d.id = Len(rows) + 1 /\ d.of = H /\ d \in Linked
      /\ Precedes(H, rows, m)
  BY <1>1, <1>2 DEF Linked, ReadInv
<1> HIDE DEF d, m, H
<1>5. Settled = Len(done)
  BY <1>1 DEF Settled
<1>6. d.id \notin DOMAIN before /\ d.id # New /\ d.id \notin Ids(rows)
  BY <1>2, <1>d DEF New
<1>7. \A k \in 1..Len(done) : done[k].id # d.id
  BY <1>5, <1>6 DEF Traced
<1>j. Joins(before, candidates, done, d)
  BY <1>2, <1>3, <1>d, <1>6, <1>7 DEF Joins
<1>4. /\ Len(done') = Len(done) + 1 /\ done'[Len(done) + 1] = d
      /\ \A k \in 1..Len(done) : done'[k] = done[k]
      /\ \A k \in 1..Len(done') : k \in 1..Len(done) \/ k = Len(done) + 1
      /\ \A k \in 1..(Len(done) + 1) : k - 1 \in 0..Len(done)
      /\ Len(done) \in 0..Len(done) /\ (Len(done) + 1) - 1 = Len(done)
  <2>1. Len(done') = Len(done) + 1 /\ done'[Len(done) + 1] = d /\ \A k \in 1..Len(done) : done'[k] = done[k]
    BY <1>1, <1>j, GroundOn
  <2>2. QED
    BY <1>3, <2>1
<1> DEFINE R(n) == ReplayOf(before, deleted, candidates, done', n)
<1>8. \A n \in 0..Len(done) : R(n) = Replay(n)
  BY <1>1, <1>j, ReplayKept DEF Replay
<1>9. Settled' = Len(done)
  BY <1>1, <1>3, <1>4 DEF Settled
<1>10. Mirrors(Replay(Len(done)), rows, repo)
  BY <1>5 DEF Traced
<1>11. H \subseteq DOMAIN Replay(Len(done))
  BY <1>3, <1>d, <1>10 DEF Precedes, Mirrors, Visible
<1>12. \A k \in 1..Len(done') : /\ done'[k].of \subseteq DOMAIN R(k - 1)
                                /\ done'[k].id = New => NoOp(R(k - 1), candidates[k])
  <2> TAKE k \in 1..Len(done')
  <2>1. CASE k \in 1..Len(done)
    <3>1. R(k - 1) = Replay(k - 1)
      BY <1>4, <1>8, <2>1
    <3>2. QED
      BY <1>4, <2>1, <3>1 DEF Traced
  <2>2. CASE k = Len(done) + 1
    <3>1. R(k - 1) = Replay(Len(done)) /\ done'[k] = d
      BY <1>4, <1>8, <2>2
    <3>2. QED
      BY <1>6, <1>11, <1>d, <3>1
  <2>3. QED
    BY <1>4, <2>1, <2>2
<1>13. \A j, k \in 1..Len(done') : done'[j].id = done'[k].id /\ done'[j].id # New => j = k
  BY <1>4, <1>7 DEF Traced
<1>14. \A k \in 1..Len(done) : done'[k].id \in Ids(rows) \cup {New} /\ done'[k].of \subseteq Ids(rows)
  BY <1>4, <1>5 DEF Traced
<1>15. Mirrors(R(Len(done)), rows, repo) /\ deleted \subseteq DOMAIN before
  BY <1>4, <1>8, <1>10 DEF Traced
<1>16. done'[Len(done')].id = Len(rows) + 1 /\ done'[Len(done')].of = DOMAIN held
  BY <1>4, <1>d DEF H
<1>17. QED
  BY <1>1, <1>9, <1>12, <1>13, <1>14, <1>15, <1>16 DEF Traced, Replay

LEMMA TraceSaved ==
    ASSUME SafeInv, CiteInv, Traced, ReadInv, CommitUnit, pc = "saving"
    PROVE  Traced'
<1> DEFINE H == DOMAIN held
           N == Len(done)
           p == N - 1
           m == candidates[N]
           new == Len(rows) + 1
           R == Replay(p)
           S == Replay(N)
<1>1. /\ pc' = "next" /\ UNCHANGED <<repo, before, deleted, candidates, done>> /\ rows' = view /\ todo = <<>> /\ Len(todo) = 0
  BY DEF CommitUnit, Commit, session, decision
<1>2. /\ rows \in Seq(Row) /\ view \in Seq(Row) /\ Len(rows) \in Nat /\ Ids(rows) = 1..Len(rows)
      /\ Ids(view) = 1..Len(view) /\ 1 <= N /\ Precedes(H, rows, m)
      /\ \E q \in 0..0 : Saving(rows, view, <<>>, H, m, q)
  <2>1. rows \in Seq(Row) /\ view \in Seq(Row)
    BY DEF SafeInv, ShapeInv, StoreInv
  <2>2. QED
    BY <1>1, <2>1, IdsOf DEF ReadInv
<1>3. Succeeds(view, rows, H, m)
  BY <1>2, SavedSucceeds
<1>4. /\ Ground(before, candidates, done) /\ done \in Seq(Linked) /\ N \in Nat /\ Len(candidates) \in Nat
      /\ repo \in Repo /\ m \in Row /\ m.layer \in {repo, General} /\ N <= Len(candidates)
  <2>1. Len(done) <= Len(candidates) /\ Len(done) \in Nat /\ Len(candidates) \in Nat
    BY TracedGround DEF SafeInv, ShapeInv, WorkInv
  <2>2. N \in 1..Len(candidates)
    BY <1>2, <2>1
  <2>3. QED
    BY <2>1, <2>2, TracedGround
<1>5. /\ p \in 0..N /\ N \in 1..N /\ N # 0 /\ \A k \in 1..N : k \in 1..p \/ k = N
      /\ Settled = p /\ Settled' = N
  <2>1. Settled' = Len(done')
    BY <1>1 DEF Settled
  <2>2. Settled = p
    BY DEF Settled
  <2>3. QED
    BY <1>1, <1>2, <1>4, <2>1, <2>2
<1>6. /\ done[N].id = new /\ done[N].of = H /\ new \in Nat /\ new # New /\ new \notin Ids(rows) /\ H \subseteq Ids(rows)
      /\ \A k \in 1..p : done[k].id \in Ids(rows) \cup {New} /\ done[k].of \subseteq Ids(rows)
  <2>1. \A k \in 1..p : done[k].id \in Ids(rows) \cup {New} /\ done[k].of \subseteq Ids(rows)
    BY <1>5 DEF Traced
  <2>2. done[N].id = new /\ done[N].of = H
    BY DEF Traced
  <2>3. QED
    BY <1>2, <2>1, <2>2 DEF New, Precedes
<1>7. /\ Len(view) = new /\ view[new] = [m EXCEPT !.of = H]
      /\ \A i \in Ids(rows) : view[i] = IF i \in H THEN Ended(rows[i], new) ELSE rows[i]
  BY <1>3 DEF Succeeds, Ended
<1>8. Mirrors(R, rows, repo)
  BY <1>5 DEF Traced
<1>9. /\ DOMAIN S = DOMAIN R \cup {new}
      /\ S[new] = m
      /\ \A i \in DOMAIN R : IF i \in H THEN Cols(S[i], R[i]) /\ S[i].status = "superseded" /\ S[i].by = new ELSE S[i] = R[i]
  <2>1. Basis(before, candidates, done, N)
    BY <1>4 DEF Ground
  <2>2. \A k \in 1..N : done[N].id \notin done[k].of
    BY <1>5, <1>6
  <2>3. Follows(ReplayOf(before, deleted, candidates, done, N), ReplayOf(before, deleted, candidates, done, N - 1),
                done[N], candidates[N])
    BY <1>5, <1>6, <2>1, <2>2, ReplayNext
  <2>4. QED
    BY <1>6, <2>3 DEF Replay, Follows
<1> HIDE DEF R, S, m, H, new, p, N
<1>10. Ids(view) = Ids(rows) \cup {new} /\ Ids(rows) \subseteq Ids(view)
  BY <1>2, <1>7 DEF new
<1>11. /\ \A i \in Ids(rows) : view[i].layer = rows[i].layer
       /\ view[new].layer = m.layer /\ Alike(m, view[new])
       /\ \A i \in H : Cols(view[i], rows[i]) /\ view[i].status = "superseded" /\ view[i].by = new
  <2>1. \A i \in Ids(rows) : rows[i] \in Row
    BY <1>2, RowsOf
  <2>2. view[new].layer = m.layer /\ Alike(m, view[new])
    BY <1>4, <1>7 DEF Alike, Cols, Same, Row
  <2>3. ASSUME NEW i \in H
        PROVE  Cols(view[i], rows[i]) /\ view[i].status = "superseded" /\ view[i].by = new
    <3>1. view[i] = Ended(rows[i], new) /\ rows[i] \in Row
      BY <1>6, <1>7, <2>1
    <3>2. QED
      BY <3>1 DEF Ended, Cols, Row
  <2>4. \A i \in Ids(rows) : view[i].layer = rows[i].layer
    BY <1>7, <2>3 DEF Cols
  <2>5. QED
    BY <2>2, <2>3, <2>4
<1>12. Visible(view, repo) = Visible(rows, repo) \cup {new}
  BY <1>4, <1>10, <1>11 DEF Visible
<1>13. \A i \in DOMAIN S : Alike(S[i], view[i])
  <2>1. Alike(S[new], view[new])
    BY <1>9, <1>11
  <2>2. ASSUME NEW i \in DOMAIN R
        PROVE  Alike(S[i], view[i])
    <3>1. i \in Ids(rows) /\ Alike(R[i], rows[i])
      BY <1>8 DEF Mirrors, Visible
    <3>2. CASE i \in H
      BY <1>9, <1>11, <3>1, <3>2 DEF Alike, Cols, Same
    <3>3. CASE i \notin H
      BY <1>7, <1>9, <3>1, <3>3
    <3>4. QED
      BY <3>2, <3>3
  <2>3. QED
    BY <1>9, <2>1, <2>2
<1>14. Mirrors(S, view, repo)
  BY <1>8, <1>9, <1>12, <1>13 DEF Mirrors
<1>15. \A k \in 1..N : done[k].id \in Ids(view) \cup {New} /\ done[k].of \subseteq Ids(view)
  BY <1>5, <1>6, <1>10
<1>16. /\ deleted \subseteq DOMAIN before
       /\ \A k \in 1..Len(done) : /\ done[k].of \subseteq DOMAIN Replay(k - 1)
                                  /\ done[k].id = New => NoOp(Replay(k - 1), candidates[k])
       /\ \A j, k \in 1..Len(done) : done[j].id = done[k].id /\ done[j].id # New => j = k
  BY DEF Traced
<1>17. QED
  BY <1>1, <1>5, <1>14, <1>15, <1>16 DEF Traced, Replay, S, N

LEMMA TraceDeleted ==
    ASSUME SafeInv, CiteInv, EarnInv, ReadInv, before = Restricted(rows, Visible(rows, repo)), CommitUnit, pc = "deleting"
    PROVE  Traced'
<1>1. /\ pc' = "next" /\ UNCHANGED <<repo, before, deleted, candidates, done>> /\ rows' = view /\ todo = <<>> /\ Len(todo) = 0
  BY DEF CommitUnit, Commit, session, decision
<1>2. /\ rows \in Seq(Row) /\ view \in Seq(Row) /\ repo \in Repo /\ Ids(rows) = 1..Len(rows) /\ Ids(view) = 1..Len(view)
  BY IdsOf DEF SafeInv, ShapeInv, StoreInv, WorkInv
<1>3. /\ done = <<>> /\ Len(<<>>) = 0 /\ 1..0 = {} /\ Settled' = 0
  <2>1. done = <<>> /\ Len(<<>>) = 0
    BY DEF EarnInv
  <2>2. QED
    BY <1>1, <2>1 DEF Settled
<1>4. DOMAIN before = Visible(rows, repo) /\ \A i \in DOMAIN before : i \in Ids(rows) /\ before[i] = rows[i]
  BY RestrictedCopies DEF Visible
<1>5. \A i \in deleted : i \in Ids(rows) /\ rows[i].layer \in {repo, General} /\ Live(rows[i]) /\ ~Live(view[i])
  <2>1. deleted \subseteq DOMAIN listed
    BY DEF SafeInv, ShapeInv, WorkInv
  <2>2. \A i \in deleted : ~Live(view[i])
    BY <1>1, <1>3 DEF EarnInv
  <2>3. QED
    BY <2>1, <2>2 DEF ReadInv
<1>6. deleted \subseteq DOMAIN before
  BY <1>4, <1>5 DEF Visible
<1>7. Ids(view) = Ids(rows) /\ \A i \in Ids(rows) : view[i] = IF i \in deleted THEN Erased(rows[i]) ELSE rows[i]
  <2>1. Len(view) = Len(rows) /\ \A i \in Ids(rows) : view[i] = rows[i] \/ (i \in deleted /\ view[i] = Erased(rows[i]))
    BY DEF ReadInv, Erasing
  <2>2. QED
    BY <1>2, <1>5, <2>1
<1>8. \A i \in Ids(rows) : view[i].layer = rows[i].layer
  <2>1. \A i \in Ids(rows) : rows[i] \in Row
    BY <1>2, RowsOf
  <2>2. \A i \in Ids(rows) : Cols(Erased(rows[i]), rows[i])
    <3>1. 0 \in Nat
      OBVIOUS
    <3>2. QED
      BY <2>1, <3>1, EditKeeps
  <2>3. QED
    BY <1>7, <2>2 DEF Cols
<1>9. Visible(view, repo) = DOMAIN before
  BY <1>4, <1>7, <1>8 DEF Visible
<1> DEFINE S == ReplayOf(before, deleted, candidates, done, 0)
<1>10. DOMAIN S = DOMAIN before /\ \A i \in DOMAIN before : S[i] = IF i \in deleted THEN Erased(before[i]) ELSE before[i]
  <2>1. MadeOf(done, 0) = {} /\ \A i : LaterOf(done, 0, i) = {}
    BY <1>3 DEF MadeOf, LaterOf
  <2>2. QED
    BY <2>1 DEF ReplayOf, BaseOf, Erased
<1> HIDE DEF S
<1>11. \A i \in DOMAIN S : S[i] = view[i]
  BY <1>4, <1>7, <1>10
<1>12. Mirrors(S, view, repo)
  BY <1>9, <1>10, <1>11 DEF Mirrors, Alike, Cols, Same
<1>13. QED
  BY <1>1, <1>3, <1>6, <1>12 DEF Traced, Replay, S

LEMMA TraceStays ==
    ASSUME Traced, UNCHANGED <<rows, repo, before, deleted, candidates, done>>, Settled' = Settled,
           pc' = "saving" => pc = "saving" /\ held' = held
    PROVE  Traced'
BY DEF Traced, Replay

\* Whatever the replay relates is at hand as long as the endpoint stays away.
LEMMA ExactStep ==
    ASSUME CommitFaults = FALSE, SafeInv, TableInv, EarnInv, CiteInv, ExactInv, [Next]_vars
    PROVE  ExactInv'
<1>a. /\ tx # "unit" => view = rows
      /\ tx = "unit" <=> pc \in {"deleting", "saving"}
  BY DEF SafeInv, ShapeInv, StoreInv, OpenInv
\* Between two extractions nothing is asked.
<1>b. ASSUME pc' \in Resting
      PROVE  ExactInv'
  <2>1. pc' \notin {"list", "ask", "delete", "deleting", "begin", "saving", "audit"} \cup Placing
    BY <1>b DEF Resting, Placing
  <2>2. ReadInv'
    BY <2>1, CalmRead
  <2>3. QED
    BY <2>1, <2>2 DEF ExactInv
<1>1. CASE \/ \E r \in Repo : OpenEpisode(r)
           \/ CloseEpisode \/ RecordMessage \/ RecordFails \/ Audited
  BY <1>b, <1>1 DEF OpenEpisode, CloseEpisode, RecordMessage, RecordFails, Audited, Resting
<1>2. CASE EndpointWrites
  <2>1. pc' = pc /\ elsewhere' = (pc \notin Resting)
    BY <1>2 DEF EndpointWrites, EndpointDelete, EndpointUpdate, EndpointAdd, Serve
  <2>2. QED
    BY <1>b, <2>1 DEF ExactInv
<1>7. CASE Snapshot /\ evident'
  <2>1. pc' = "list" /\ before' = Restricted(view, Visible(view, repo)) /\ UNCHANGED <<rows, repo>> /\ view = rows
    BY <1>7, <1>a DEF Snapshot, storeVars, session
  <2>2. ReadInv'
    BY <2>1, CalmRead
  <2>3. QED
    BY <2>1, <2>2 DEF ExactInv, Placing
<1> DEFINE Step == \/ List \/ NothingToAsk \/ BeginDeletions \/ UpsertNoOp \/ UpsertList \/ BeginUpsert
                   \/ Write1 \/ CommitUnit \/ AdvanceCheckpoint \/ Raise
                   \/ \E run \in Calls : AskFails(run)
                   \/ \E targets, items : Decide(targets, items)
                   \/ UNCHANGED vars
<1>3. ASSUME Step, ~elsewhere', evident', ~EndpointWrites
      PROVE  ExactInv'
  <2>1. elsewhere' = elsewhere /\ evident' = evident /\ repo' = repo
    BY <1>3 DEF audited, List, NothingToAsk, BeginDeletions, UpsertNoOp, UpsertList, BeginUpsert, Write1, CommitUnit,
       AdvanceCheckpoint, Raise, AskFails, Decide, session, vars
  <2>2. /\ ReadInv
        /\ pc \in {"list", "ask", "delete", "deleting"} => before = Restricted(rows, Visible(rows, repo))
        /\ pc \in Placing => Traced
        /\ pc = "audit" /\ outcome = "errors" => before = Restricted(rows, Visible(rows, repo))
        /\ pc = "audit" /\ outcome = "clean" => Traced
    BY <1>3, <2>1 DEF ExactInv
  <2>3. ReadInv'
    BY <1>3, <2>2, ReadStep
  \* The snapshot is what the disk shows.
  <2>4. ASSUME pc' \in {"list", "ask", "delete", "deleting"} \/ (pc' = "audit" /\ outcome' = "errors"),
               (before = Restricted(rows, Visible(rows, repo)))'
        PROVE  ExactInv'
    <3>1. pc' \notin Placing /\ ~(pc' = "audit" /\ outcome' = "clean")
      BY <2>4 DEF Placing
    <3>2. QED
      BY <2>3, <2>4, <3>1 DEF ExactInv
  \* The candidates placed are.
  <2>5. ASSUME pc' \in Placing \/ (pc' = "audit" /\ outcome' = "clean"), Traced'
        PROVE  ExactInv'
    <3>1. pc' \notin {"list", "ask", "delete", "deleting"} /\ ~(pc' = "audit" /\ outcome' = "errors")
      BY <2>5 DEF Placing
    <3>2. QED
      BY <2>3, <2>5, <3>1 DEF ExactInv
  <2>7. CASE \/ List \/ NothingToAsk \/ BeginDeletions \/ (Write1 /\ pc = "deleting")
             \/ \E run \in Calls : AskFails(run)
             \/ \E targets, items : Decide(targets, items)
    <3>1. /\ pc \in {"list", "ask", "delete", "deleting"} /\ before' = before /\ rows' = rows
          /\ pc' \in {"list", "ask", "delete", "deleting"} \/ (pc' = "audit" /\ outcome' = "errors")
      BY <1>a, <2>7 DEF List, NothingToAsk, BeginDeletions, Write1, AskFails, Decide, storeVars, Begin, WriteNext, CommitsNow, work
    <3>2. QED
      BY <2>1, <2>2, <2>4, <3>1
  <2>8. CASE (Write1 /\ pc = "saving") \/ UpsertList \/ AdvanceCheckpoint
    <3>1. /\ pc \in Placing /\ UNCHANGED <<rows, repo, before, deleted, candidates, done>>
          /\ pc' = "saving" => pc = "saving" /\ held' = held
          /\ pc' \in Placing \/ (pc' = "audit" /\ outcome' = "clean")
          /\ pc' = "saving" <=> pc = "saving"
      BY <1>a, <2>1, <2>8 DEF UpsertList, Write1, AdvanceCheckpoint, AllStored, storeVars, WriteNext, CommitsNow, work, decision, Placing
    <3>2. Settled' = Settled
      BY <3>1 DEF Settled
    <3>3. QED
      BY <2>2, <2>5, <3>1, <3>2, TraceStays
  <2>9. CASE UpsertNoOp
    <3>1. pc = "next" /\ pc' = "next"
      BY <2>9 DEF UpsertNoOp
    <3>2. QED
      BY <2>2, <2>5, <2>9, <3>1, TraceNoOp DEF Placing
  <2>10. CASE BeginUpsert
    <3>1. pc = "begin" /\ pc' = "saving"
      BY <2>10 DEF BeginUpsert
    <3>2. QED
      BY <2>2, <2>5, <2>10, <3>1, TraceBegin DEF Placing
  <2>11. CASE CommitUnit
    <3>1. pc \in {"deleting", "saving"} /\ pc' = "next"
      BY <2>11 DEF CommitUnit
    <3>2. CASE pc = "deleting"
      BY <2>2, <2>5, <2>11, <3>1, <3>2, TraceDeleted DEF Placing
    <3>3. CASE pc = "saving"
      BY <2>2, <2>5, <2>11, <3>1, <3>3, TraceSaved DEF Placing
    <3>4. QED
      BY <3>1, <3>2, <3>3
  <2>12. CASE Raise
    <3>1. pc' = "audit" /\ outcome' = "raised"
      BY <2>12 DEF Raise
    <3>2. QED
      BY <2>3, <3>1 DEF ExactInv, Placing
  <2>13. CASE UNCHANGED vars
    <3>1. UNCHANGED <<pc, outcome, rows, repo, before, deleted, candidates, done, held>>
      BY <2>13 DEF vars, storeVars, session, work, decision
    <3>2. Settled' = Settled
      BY <3>1 DEF Settled
    <3>3. Traced => Traced'
      BY <3>1, <3>2, TraceStays
    <3>4. (before = Restricted(rows, Visible(rows, repo)))' <=> before = Restricted(rows, Visible(rows, repo))
      BY <3>1
    <3>5. CASE pc \in Placing \/ (pc = "audit" /\ outcome = "clean")
      BY <2>2, <2>5, <3>1, <3>3, <3>5
    <3>6. CASE pc \in {"list", "ask", "delete", "deleting"} \/ (pc = "audit" /\ outcome = "errors")
      BY <2>2, <2>4, <3>1, <3>4, <3>6
    <3>7. CASE /\ pc \notin Placing /\ ~(pc = "audit" /\ outcome = "clean")
               /\ pc \notin {"list", "ask", "delete", "deleting"} /\ ~(pc = "audit" /\ outcome = "errors")
      <4>1. /\ pc' \notin Placing /\ ~(pc' = "audit" /\ outcome' = "clean")
            /\ pc' \notin {"list", "ask", "delete", "deleting"} /\ ~(pc' = "audit" /\ outcome' = "errors")
        BY <3>1, <3>7
      <4>2. QED
        BY <2>3, <4>1 DEF ExactInv
    <3>8. QED
      BY <3>5, <3>6, <3>7
  <2>14. Write1 => (Write1 /\ pc = "deleting") \/ (Write1 /\ pc = "saving")
    BY DEF Write1
  <2> DEFINE Others == \/ List \/ NothingToAsk \/ BeginDeletions \/ UpsertList \/ Write1 \/ AdvanceCheckpoint
                       \/ \E run \in Calls : AskFails(run)
                       \/ \E targets, items : Decide(targets, items)
  <2>15. CASE Others
    BY <2>7, <2>8, <2>14, <2>15
  <2>16. UpsertNoOp \/ BeginUpsert \/ CommitUnit \/ Raise \/ UNCHANGED vars \/ Others
    BY <1>3
  <2>17. QED
    BY <2>9, <2>10, <2>11, <2>12, <2>13, <2>15, <2>16
<1>4. CASE elsewhere' \/ ~evident'
  BY <1>4 DEF ExactInv
<1>5. Step \/ EndpointWrites \/ Snapshot \/ (AfterUnread /\ ~evident') \/ (\E r \in Repo : OpenEpisode(r)) \/ CloseEpisode \/ RecordMessage \/ RecordFails \/ Audited
  BY DEF Next, EndpointWrites, AfterUnread
<1>6. QED
  BY <1>1, <1>2, <1>3, <1>4, <1>5, <1>7

LEMMA ExactHolds == CommitFaults = FALSE /\ Spec => [](SafeInv /\ TableInv /\ CiteInv /\ ExactInv)
<1> SUFFICES ASSUME CommitFaults = FALSE
             PROVE  Spec => [](SafeInv /\ TableInv /\ CiteInv /\ ExactInv)
  OBVIOUS
<1>1. Init => CiteInv /\ ExactInv
  <2> SUFFICES ASSUME Init PROVE CiteInv /\ ExactInv
    OBVIOUS
  <2>1. /\ before = <<>> /\ deleted = {} /\ done = <<>> /\ Len(<<>>) = 0 /\ DOMAIN <<>> = {} /\ pc = "down"
    BY DEF Init
  <2>2. CiteInv
    BY <2>1 DEF CiteInv
  <2>3. ExactInv
    BY <2>1 DEF ExactInv, ReadInv, Placing
  <2>4. QED
    BY <2>2, <2>3
<1>2. SafeInv /\ TableInv /\ EarnInv /\ CiteInv /\ ExactInv /\ [Next]_vars => CiteInv' /\ ExactInv'
  BY CiteStep, ExactStep
<1>3. QED
  BY <1>1, <1>2, EarnedHolds, PTL DEF Spec

-----------------------------------------------------------------------------
(* The audit of an extraction without an exception.                        *)

\* The replay the audit makes is the one the proofs follow.
LEMMA AuditReplays ==
    ASSUME outcome \in {"clean", "errors"}
    PROVE  /\ outcome = "clean" => Handled = Len(done) /\ Deletions = deleted /\ \A n : ReplayView(n) = Replay(n)
           /\ outcome = "errors" => Handled = 0 /\ Deletions = {} /\ \A n : ReplayView(n) = ReplayOf(before, {}, candidates, done, n)
<1>1. CASE outcome = "clean"
  <2>1. Handled = Len(done) /\ Deletions = deleted
    BY <1>1 DEF Handled, Deletions
  <2>2. QED
    BY <1>1, <2>1 DEF ReplayView, Replay, ReplayOf, BaseOf, LaterOf, MadeOf, Made
<1>2. CASE outcome = "errors"
  <2>1. Handled = 0 /\ Deletions = {}
    BY <1>2 DEF Handled, Deletions
  <2>2. QED
    BY <1>2, <2>1 DEF ReplayView, ReplayOf, BaseOf, LaterOf, MadeOf, Made
<1>3. QED
  BY <1>1, <1>2

\* A replay of no candidate changes what was deleted, and nothing else.
LEMMA ReplayOfNone ==
    ASSUME NEW b, NEW D, NEW cs, NEW dn
    PROVE  LET R == ReplayOf(b, D, cs, dn, 0)
           IN  DOMAIN R = DOMAIN b /\ \A i \in DOMAIN b : R[i] = IF i \in D THEN Erased(b[i]) ELSE b[i]
<1>1. 1..0 = {}
  OBVIOUS
<1>2. MadeOf(dn, 0) = {} /\ \A i : LaterOf(dn, 0, i) = {}
  BY <1>1 DEF MadeOf, LaterOf
<1>3. QED
  BY <1>2 DEF ReplayOf, BaseOf, Erased

LEMMA AuditIsExactOnce ==
    ASSUME SafeInv, CiteInv, ExactInv, pc = "audit", outcome # "raised", evident
    PROVE  (Explained => Changed = Cited) /\ (~elsewhere => Explained)
<1>1. /\ outcome \in {"clean", "errors"} /\ view = rows /\ rows \in Seq(Row)
      /\ done \in Seq(Linked) /\ Len(done) \in Nat
      /\ \A i \in DOMAIN before : before[i] \in Row
  BY DEF CiteInv, SafeInv, ShapeInv, StoreInv, OpenInv, WorkInv, Rooted, RootedIn, Linked
<1>2. DOMAIN After = Visible(rows, repo) /\ \A i \in DOMAIN After : After[i] = rows[i]
  BY <1>1, RestrictedCopies DEF After
<1>3. Drift = {} <=> /\ DOMAIN ReplayView(Handled) = DOMAIN After
                     /\ \A i \in DOMAIN After : Same(ReplayView(Handled)[i], After[i])
  BY DEF Drift
<1>4. CASE outcome = "errors"
  <2> DEFINE R == ReplayOf(before, {}, candidates, done, 0)
  <2>1. Handled = 0 /\ Deletions = {} /\ ReplayView(0) = R /\ 1..0 = {}
    BY <1>4, AuditReplays
  <2>2. DOMAIN R = DOMAIN before /\ \A i \in DOMAIN before : R[i] = before[i]
    BY ReplayOfNone
  <2>3. Cited = {}
    BY <2>1 DEF Cited, Made
  <2>4. Explained <=> DOMAIN before = DOMAIN After /\ \A i \in DOMAIN After : Same(before[i], After[i])
    BY <1>3, <2>1, <2>2 DEF Explained
  <2>5. Explained => Changed = {}
    BY <2>4 DEF Changed
  <2>6. ~elsewhere => Explained
    <3> SUFFICES ASSUME ~elsewhere PROVE Explained
      OBVIOUS
    <3>1. before = Restricted(rows, Visible(rows, repo))
      BY <1>4 DEF ExactInv
    <3>2. QED
      BY <1>1, <2>4, <3>1 DEF After, Same
  <2>7. QED
    BY <2>3, <2>5, <2>6
<1>5. CASE outcome = "clean"
  <2> DEFINE N == Len(done)
  <2>1. Handled = N /\ Deletions = deleted /\ \A n : ReplayView(n) = Replay(n)
    BY <1>5, AuditReplays
  <2>2. Explained <=> /\ deleted \subseteq DOMAIN before
                      /\ \A n \in 1..N : /\ done[n].of \subseteq DOMAIN Replay(n - 1)
                                         /\ done[n].id = New => NoOp(Replay(n - 1), candidates[n])
                      /\ DOMAIN Replay(N) = DOMAIN After
                      /\ \A i \in DOMAIN After : Same(Replay(N)[i], After[i])
    BY <1>3, <2>1 DEF Explained, AttributesNoOp
  <2>3. ~elsewhere => Explained
    <3> SUFFICES ASSUME ~elsewhere PROVE Explained
      OBVIOUS
    <3>1. Traced /\ Settled = N
      BY <1>5 DEF ExactInv, Settled
    <3>2. Mirrors(Replay(N), rows, repo)
      BY <3>1 DEF Traced
    <3>3. QED
      BY <1>2, <2>2, <3>1, <3>2 DEF Traced, Mirrors, Alike
  <2>4. ASSUME Explained
        PROVE  Changed = Cited
    <3>1. /\ \A n \in 0..N : DOMAIN Replay(n) = DOMAIN before \cup MadeOf(done, n)
          /\ \A i \in DOMAIN Replay(N) :
                Replay(N)[i] = IF LaterOf(done, N, i) = {} THEN BaseOf(before, deleted, candidates, done, N, i)
                               ELSE Ended(BaseOf(before, deleted, candidates, done, N, i), done[Newest(LaterOf(done, N, i))].id)
      BY DEF Replay, ReplayOf, Ended
    <3>2. Cited = deleted \cup MadeOf(done, N) \cup UNION {done[n].of : n \in 1..N}
      BY <2>1 DEF Cited, Made, MadeOf
    <3>3. DOMAIN After = DOMAIN before \cup MadeOf(done, N) /\ \A i \in DOMAIN After : Same(Replay(N)[i], After[i])
      <4>1. N \in 0..N
        BY <1>1
      <4>2. DOMAIN Replay(N) = DOMAIN before \cup MadeOf(done, N)
        BY <3>1, <4>1
      <4>3. DOMAIN Replay(N) = DOMAIN After /\ \A i \in DOMAIN After : Same(Replay(N)[i], After[i])
        BY <2>2, <2>4
      <4>4. QED
        BY <4>2, <4>3
    <3>4. \A i \in MadeOf(done, N) : i \notin DOMAIN before
      BY DEF MadeOf, CiteInv
    \* Before, the rows cited were alive; after, they are not.
    <3>5. ASSUME NEW i \in DOMAIN before
          PROVE  Same(before[i], After[i]) <=> i \notin Cited
      <4> DEFINE L == LaterOf(done, N, i)
                 r == IF i \in deleted THEN Erased(before[i]) ELSE before[i]
      <4>1. before[i] \in Row /\ r \in Row
        BY <1>1, EditedType DEF Erased
      <4>2. Replay(N)[i] = IF L = {} THEN r ELSE Ended(r, done[Newest(L)].id)
        <5>1. N \in 0..N
          BY <1>1
        <5>2. i \in DOMAIN Replay(N)
          BY <3>1, <5>1
        <5>3. BaseOf(before, deleted, candidates, done, N, i) = r
          BY DEF BaseOf, Erased
        <5>4. QED
          BY <3>1, <5>2, <5>3
      <4>3. Same(Replay(N)[i], After[i])
        BY <3>3
      <4>4. i \in Cited <=> i \in deleted \/ L # {}
        BY <3>2, <3>4 DEF LaterOf
      <4>5. (i \in deleted \/ L # {}) => Live(before[i])
        BY DEF LaterOf, CiteInv
      <4> HIDE DEF L
      <4>6. CASE i \in Cited
        <5>1. before[i].status \notin {"deleted", "superseded"}
          BY <4>4, <4>5, <4>6 DEF Live, Inactive
        <5>2. CASE L # {}
          BY <4>1, <4>2, <4>3, <4>6, <5>1, <5>2 DEF Same, Ended, Row
        <5>3. CASE L = {}
          BY <4>1, <4>2, <4>3, <4>4, <4>6, <5>1, <5>3 DEF Same, Erased, Row
        <5>4. QED
          BY <5>2, <5>3
      <4>7. CASE i \notin Cited
        BY <4>2, <4>3, <4>4, <4>7
      <4>8. QED
        BY <4>6, <4>7
    \* What is cited is there.
    <3>6. Cited \subseteq DOMAIN After
      <4>1. \A n \in 1..N : MadeOf(done, n - 1) \subseteq MadeOf(done, N) /\ n - 1 \in 0..N
        BY <1>1 DEF MadeOf
      <4>2. \A n \in 1..N : done[n].of \subseteq DOMAIN before \cup MadeOf(done, N)
        BY <2>2, <2>4, <3>1, <4>1
      <4>3. QED
        BY <2>2, <2>4, <3>2, <3>3, <4>2
    <3>7. \A i \in DOMAIN After : i \notin DOMAIN before => i \in Cited
      BY <3>2, <3>3
    <3>8. QED
      BY <3>3, <3>5, <3>6, <3>7 DEF Changed
  <2>5. QED
    BY <2>3, <2>4
<1>6. QED
  BY <1>1, <1>4, <1>5

\* The replay audit of an extraction raises no false alarm, and when it raises none the
\* cited rows are exactly the changed ones, whoever else writes (collect of the hooks of
\* the CURE backend), provided no COMMIT fails.
THEOREM ExtractionAuditIsExact == CommitFaults = FALSE /\ Spec => []AuditIsExact
<1>1. SafeInv /\ CiteInv /\ ExactInv => AuditIsExact
  BY AuditIsExactOnce DEF AuditIsExact
<1>2. QED
  BY <1>1, ExactHolds, PTL

-----------------------------------------------------------------------------
(* The transitions reported after an exception.                            *)

\* A unit ends live rows only.
LEMMA DeadStay ==
    ASSUME SafeInv, ReadInv, CommitUnit, NEW i \in Ids(rows), ~Live(rows[i])
    PROVE  rows'[i] = rows[i]
<1>1. rows \in Seq(Row) /\ view \in Seq(Row) /\ rows' = view /\ todo = <<>> /\ Len(todo) = 0
  BY DEF SafeInv, ShapeInv, StoreInv, CommitUnit, Commit
<1>2. CASE pc = "deleting"
  <2>1. Erasing(rows, view, <<>>, deleted) /\ \A k \in deleted : Live(rows[k])
    BY <1>1, <1>2 DEF ReadInv
  <2>2. QED
    BY <1>1, <2>1 DEF Erasing
<1>3. CASE pc = "saving"
  <2> DEFINE m == candidates[Len(done)]
             H == DOMAIN held
  <2>1. Precedes(H, rows, m) /\ \E p \in 0..Len(todo) : Saving(rows, view, todo, H, m, p)
    BY <1>3 DEF ReadInv
  <2> HIDE DEF m, H
  <2>2. Saving(rows, view, <<>>, H, m, 0)
    BY <1>1, <2>1
  <2>3. Succeeds(view, rows, H, m)
    BY <1>1, <2>2, SavedSucceeds
  <2>4. QED
    BY <1>1, <2>1, <2>3 DEF Succeeds, Precedes
<1>4. QED
  BY <1>2, <1>3 DEF CommitUnit

LEMMA DiffStep ==
    ASSUME CommitFaults = FALSE, SafeInv, HistoryInv, TableInv, DiffInv, [Next]_vars
    PROVE  DiffInv'
<1>1. pc' \in Resting => before' = <<>>
  BY DEF DiffInv, Next, vars, OpenEpisode, CloseEpisode, RecordMessage, RecordFails, Snapshot, List, NothingToAsk, AskFails,
     Decide, BeginDeletions, UpsertNoOp, UpsertList, BeginUpsert, Write1, CommitUnit, AdvanceCheckpoint, Raise,
     AfterUnread, Audited, EndpointDelete, EndpointUpdate, EndpointAdd, Serve, Resting, Idle, work
<1>2. SUFFICES ASSUME ~shared'
               PROVE  /\ OneLive(before')
                      /\ \A i \in DOMAIN before' :
                            /\ before'[i].status = "superseded" <=> before'[i].by # 0
                            /\ ~Live(before'[i]) => Same(rows'[i], before'[i])
  BY <1>1 DEF DiffInv
<1>3. ~shared
  BY <1>2, SharedStays
<1>4. Sound(rows) /\ ReadInv /\ rows \in Seq(Row) /\ (pc = "idle" => view = rows)
  BY <1>3 DEF HistoryInv, SafeInv, ShapeInv, StoreInv, OpenInv
<1>5. (before' = before) \/ (before' = <<>>) \/ Snapshot
  BY DEF Next, vars, OpenEpisode, CloseEpisode, RecordMessage, RecordFails, List, NothingToAsk, AskFails,
     Decide, BeginDeletions, UpsertNoOp, UpsertList, BeginUpsert, Write1, CommitUnit, AdvanceCheckpoint, Raise,
     AfterUnread, Audited, EndpointDelete, EndpointUpdate, EndpointAdd, Serve, Idle, work
<1>6. CASE before' = <<>>
  BY <1>6 DEF OneLive, Ids
<1>7. CASE before' = before /\ before # <<>>
  <2>1. pc \notin Resting
    BY <1>7 DEF DiffInv
  <2>2. rows' = rows \/ CommitUnit
    <3>1. ~EndpointWrites
      BY <1>3, <2>1 DEF EndpointWrites, EndpointDelete, EndpointUpdate, EndpointAdd, Serve, Serves
    <3>2. QED
      BY <1>4, <3>1, ReadStep
  <2>3. /\ OneLive(before)
        /\ \A i \in DOMAIN before :
              /\ before[i].status = "superseded" <=> before[i].by # 0
              /\ ~Live(before[i]) => Same(rows[i], before[i])
    BY <1>3 DEF DiffInv
  <2>4. \A i \in DOMAIN before : i \in Ids(rows)
    BY DEF TableInv, CopiesOf
  <2>5. \A i \in DOMAIN before : ~Live(before[i]) => rows'[i] = rows[i]
    <3>1. \A i \in DOMAIN before : ~Live(before[i]) => ~Live(rows[i])
      BY <2>3 DEF Same, Live
    <3>2. QED
      BY <1>4, <2>2, <2>4, <3>1, DeadStay
  <2>6. QED
    BY <1>7, <2>3, <2>5 DEF Same
<1>8. CASE Snapshot /\ before' # <<>>
  <2>1. /\ before' = Restricted(rows, Visible(rows, repo)) /\ rows' = rows
    BY <1>4, <1>8 DEF Snapshot, storeVars
  <2>2. DOMAIN before' \subseteq Ids(rows) /\ \A i \in DOMAIN before' : before'[i] = rows[i]
    BY <2>1, RestrictedCopies DEF Visible
  <2>3. OneLive(before')
    BY <1>4, <2>2 DEF Sound, OneLive, Ids
  <2>4. \A i \in DOMAIN before' : before'[i].status = "superseded" <=> before'[i].by # 0
    BY <1>4, <2>2 DEF Sound, Chained
  <2>5. QED
    BY <2>1, <2>2, <2>3, <2>4 DEF Same
<1>9. QED
  BY <1>5, <1>6, <1>7, <1>8

LEMMA DiffHolds == CommitFaults = FALSE /\ Spec => [](SafeInv /\ HistoryInv /\ TableInv /\ DiffInv)
<1> SUFFICES ASSUME CommitFaults = FALSE
             PROVE  Spec => [](SafeInv /\ HistoryInv /\ TableInv /\ DiffInv)
  OBVIOUS
<1>1. Init => DiffInv
  BY DEF Init, DiffInv, OneLive, Ids
<1>2. SafeInv /\ HistoryInv /\ TableInv /\ DiffInv /\ [Next]_vars => DiffInv'
  BY DiffStep
<1>3. QED
  BY <1>1, <1>2, HistoryHolds, EarnedHolds, PTL DEF Spec

\* Of the rows there were before, the ones a transition is about have changed their status.
Moved == {j \in DOMAIN before \cap DOMAIN After : before[j].status # After[j].status}
OldMove(j) ==
    [old |-> {j}, new |-> IF After[j].status = "superseded" THEN {After[j].by} \cap DOMAIN After
                          ELSE IF After[j].status = "deleted" THEN {} ELSE {j}]
NewMove(i) == [old |-> {}, new |-> {i}]

LEMMA TransitionsAre ==
    Transitions = {NewMove(i) : i \in DOMAIN After \ (DOMAIN before \cup Covered)} \cup {OldMove(j) : j \in Moved}
BY DEF Transitions, NewMove, OldMove, Moved

LEMMA DiffCoversOnce ==
    ASSUME SafeInv, HistoryInv, TableInv, DiffInv, pc = "audit", ~shared, NEW i \in Changed
    PROVE  Cardinality({t \in Transitions : i \in IF i \in DOMAIN before THEN t.old ELSE t.new}) = 1
<1> DEFINE T == {t \in Transitions : i \in IF i \in DOMAIN before THEN t.old ELSE t.new}
<1>1. /\ view = rows /\ rows \in Seq(Row) /\ Sound(rows)
  BY DEF HistoryInv, SafeInv, ShapeInv, StoreInv, OpenInv
<1>2. DOMAIN After = Visible(rows, repo) /\ \A k \in DOMAIN After : After[k] = rows[k] /\ k \in Ids(rows)
  BY <1>1 DEF After, Restricted, Visible
<1>3. i \in DOMAIN After /\ (i \in DOMAIN before => ~Same(before[i], After[i]))
  BY DEF Changed
<1>4. \A j \in DOMAIN before :
          /\ before[j].status = "superseded" <=> before[j].by # 0
          /\ ~Live(before[j]) => Same(rows[j], before[j])
  BY DEF DiffInv
<1>5. \A j \in Ids(rows) : rows[j].status = "superseded" <=> rows[j].by # 0
  BY <1>1 DEF Sound, Chained
<1>6. SUFFICES \E t : T = {t}
  BY FS_Singleton
<1>7. CASE i \in DOMAIN before
  <2>1. before[i].status # After[i].status
    <3> SUFFICES ASSUME before[i].status = After[i].status
                 PROVE  Same(before[i], After[i])
      BY <1>3, <1>7
    <3>1. CASE before[i].status = "superseded"
      BY <1>2, <1>3, <1>4, <1>7, <3>1 DEF Live, Inactive, Same
    <3>2. CASE before[i].status # "superseded"
      BY <1>2, <1>3, <1>4, <1>5, <1>7, <3>2 DEF Same
    <3>3. QED
      BY <3>1, <3>2
  <2>2. i \in Moved
    BY <1>3, <1>7, <2>1 DEF Moved
  <2>3. /\ \A j : OldMove(j).old = {j}
        /\ \A k : NewMove(k).old = {}
    BY DEF OldMove, NewMove
  <2>4. T = {t \in Transitions : i \in t.old}
    BY <1>7
  <2> HIDE DEF T
  <2>5. \A t \in T : t = OldMove(i)
    BY <2>3, <2>4, TransitionsAre
  <2>6. OldMove(i) \in T
    BY <2>2, <2>3, <2>4, TransitionsAre
  <2>7. QED
    BY <2>5, <2>6
<1>8. CASE i \notin DOMAIN before
  <2> DEFINE Into(j) == j \in Moved /\ After[j].status = "superseded" /\ After[j].by = i
  <2>1. T = {t \in Transitions : i \in t.new}
    BY <1>8
  <2>2. \A k : i \in NewMove(k).new <=> k = i
    BY DEF NewMove
  <2>3. \A j \in Moved : i \in OldMove(j).new <=> Into(j)
    <3> SUFFICES ASSUME NEW j \in Moved
                 PROVE  i \in OldMove(j).new <=> Into(j)
      OBVIOUS
    <3>1. i # j
      BY <1>8 DEF Moved
    <3>2. QED
      BY <1>3, <3>1 DEF OldMove
  <2>4. i \in Covered <=> \E j : Into(j)
    <3>1. i # 0
      BY <1>1, <1>2, <1>3, IdsOf
    <3>2. QED
      BY <3>1 DEF Covered, Moved
  <2>5. ASSUME NEW j, NEW k, Into(j), Into(k)
        PROVE  j = k
    <3>1. /\ j \in DOMAIN before /\ k \in DOMAIN before /\ j \in Ids(rows) /\ k \in Ids(rows)
          /\ rows[j].by = i /\ rows[k].by = i /\ rows[j].by # 0 /\ rows[k].by # 0
          /\ before[j].status # rows[j].status /\ before[k].status # rows[k].status
      BY <1>2, <1>5, <2>5 DEF Moved
    <3>2. Live(before[j]) /\ Live(before[k])
      BY <1>4, <3>1 DEF Same
    <3>3. /\ rows[i].layer = rows[j].layer /\ rows[i].key = rows[j].key
          /\ rows[i].layer = rows[k].layer /\ rows[i].key = rows[k].key
      BY <1>1, <3>1 DEF Sound, Chained
    <3>4. before[j].layer = before[k].layer /\ before[j].key = before[k].key
      BY <3>1, <3>3 DEF TableInv, CopiesOf, Cols
    <3>5. QED
      BY <3>1, <3>2, <3>4 DEF DiffInv, OneLive, Ids
  <2> HIDE DEF T, Into
  <2>6. CASE i \in Covered
    <3>1. PICK j : Into(j)
      BY <2>4, <2>6
    <3>2. j \in Moved
      BY <3>1 DEF Into
    <3>3. OldMove(j) \in T
      BY <2>1, <2>3, <3>1, <3>2, TransitionsAre
    <3>4. \A t \in T : t = OldMove(j)
      BY <2>1, <2>2, <2>3, <2>5, <2>6, <3>1, TransitionsAre
    <3>5. QED
      BY <3>3, <3>4
  <2>7. CASE i \notin Covered
    <3>1. NewMove(i) \in T
      BY <1>3, <1>8, <2>1, <2>2, <2>7, TransitionsAre
    <3>2. \A t \in T : t = NewMove(i)
      BY <2>1, <2>2, <2>3, <2>4, <2>7, TransitionsAre
    <3>3. QED
      BY <3>1, <3>2
  <2>8. QED
    BY <2>6, <2>7
<1>9. QED
  BY <1>7, <1>8

\* After an exception the report of the bridge (_transitions) shows every change of the
\* extraction once, provided no COMMIT fails and the endpoint stays away.
THEOREM EveryChangeIsReported == CommitFaults = FALSE /\ Spec => []DiffCoversChanges
<1>1. SafeInv /\ HistoryInv /\ TableInv /\ DiffInv => DiffCoversChanges
  BY DiffCoversOnce DEF DiffCoversChanges
<1>2. QED
  BY <1>1, DiffHolds, PTL
=============================================================================

----------------------------- MODULE CureStore -----------------------------
(***************************************************************************)
(* The memories table of one CURE database (cure_memory/store.py) and the  *)
(* commit discipline of one connection to it: a write outside atomic()     *)
(* commits by itself, the writes of an atomic unit commit together.        *)
(*                                                                         *)
(* A row's id is its place in the table.  The identity of a memory is its  *)
(* user, memory_type and key; user and type are one, so Key stands for it. *)
(* Updates write every column of the copy the caller holds.                *)
(***************************************************************************)
EXTENDS Naturals, Sequences, FiniteSets

CONSTANTS
    Repo,       \* the repositories of the run: project_id of a repo-bound row
    General,    \* the NULL project_id of a general row
    Key, Value

ASSUME LayerAssumption == General \notin Repo

Layer    == Repo \cup {General}
Inactive == {"deleted", "superseded"}
Status   == {"approved", "pending_review", "candidate"} \cup Inactive
Row == [layer : Layer, key : Key, value : Value, status : Status,
        by : Nat, of : SUBSET Nat]      \* superseded_by (0: NULL), supersedes
New == 0
Write == [id : Nat, row : Row]          \* id = New: INSERT, otherwise UPDATE

VARIABLES
    rows,    \* the committed table
    view,    \* the table as the connection sees it
    tx,      \* its transaction: "none", "implicit" or the "unit" of atomic()
    todo     \* the writes left in the unit

storeVars == <<rows, view, tx, todo>>

Live(r) == r.status \notin Inactive
Ids(t)  == DOMAIN t

\* The rows a session of the layer sees: its own and the general ones; an endpoint
\* passes no project and sees them all.
Visible(t, layer) == {i \in Ids(t) : t[i].layer \in {layer, General} \/ layer = General}

Applied(t, w) == IF w.id = New THEN Append(t, w.row) ELSE [t EXCEPT ![w.id] = w.row]

StoreInit == rows = <<>> /\ view = <<>> /\ tx = "none" /\ todo = <<>>

\* Mutant: every write commits, inside a unit too.
CommitsAlways == TRUE

CommitsNow == tx # "unit"

Begin(writes) ==
    /\ tx = "none"
    /\ tx' = "unit" /\ todo' = writes /\ view' = rows
    /\ UNCHANGED rows

WriteNext ==
    /\ tx = "unit" /\ todo # <<>>
    /\ view' = Applied(view, Head(todo))
    /\ todo' = Tail(todo)
    /\ rows' = IF CommitsNow THEN view' ELSE rows
    /\ UNCHANGED tx

Commit ==
    /\ tx = "unit" /\ todo = <<>>
    /\ rows' = view /\ tx' = "none"
    /\ UNCHANGED <<view, todo>>

RollBack ==
    /\ view' = rows /\ tx' = "none" /\ todo' = <<>>
    /\ UNCHANGED rows

\* Mutant: a failed write leaves the implicit transaction open.
LeavesImplicit == "implicit"

AfterFailedWrite == "none"

\* A write outside any unit fails.
LoneWriteFails ==
    /\ tx = "none" /\ tx' = AfterFailedWrite
    /\ UNCHANGED <<rows, view, todo>>

\* A write outside any unit succeeds: its commit takes an open transaction along.
LoneWrite ==
    /\ tx # "unit" /\ tx' = "none"
    /\ rows' = view
    /\ UNCHANGED <<view, todo>>

\* A COMMIT fails: neither atomic() nor _write() rolls back, and the transaction stays
\* open on the connection.
CommitFails ==
    /\ tx \in {"none", "unit"} /\ todo = <<>>
    /\ tx' = "implicit"
    /\ UNCHANGED <<rows, view, todo>>

\* Another connection commits a unit of its own while this one holds no lock.
CommitElsewhere(table) ==
    /\ tx = "none"
    /\ rows' = table /\ view' = table
    /\ UNCHANGED <<tx, todo>>
=============================================================================

--------------------------- MODULE RecallService ---------------------------
(***************************************************************************)
(* What recall promises the agent: a service with no cache.  Every answer  *)
(* is what a search of the store as it is now, for the query as it is now, *)
(* renders.  The service may decline (dormant) or fail, and then answers   *)
(* nothing.  Every call is a step of its own, also one that repeats the    *)
(* answer before it: a repeated answer must be the right one too.          *)
(***************************************************************************)
EXTENDS Naturals

CONSTANT Blank   \* the <<store version, query>> pairs that render nothing

VARIABLES store, query, ret

Answer(v, q) == IF <<v, q>> \in Blank THEN {} ELSE {<<v, q>>}

vars == <<store, query, ret>>

Init ==
    /\ store \in Nat
    /\ query \in Nat \X Nat
    /\ ret = [status |-> "dormant", hits |-> {}, turn |-> FALSE]

Write == store' = store + 1 /\ UNCHANGED <<query, ret>>

Ask == query' \in Nat \X Nat /\ UNCHANGED <<store, ret>>

Recall ==
    /\ ret' = [status |-> "answer", hits |-> Answer(store, query), turn |-> ~ret.turn]
    /\ UNCHANGED <<store, query>>

Decline ==
    /\ \E s \in {"dormant", "failed"} : ret' = [status |-> s, hits |-> {}, turn |-> ~ret.turn]
    /\ UNCHANGED <<store, query>>

Next == Write \/ Ask \/ Recall \/ Decline

Spec == Init /\ [][Next]_vars
=============================================================================

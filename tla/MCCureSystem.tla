---------------------------- MODULE MCCureSystem ----------------------------
(***************************************************************************)
(* CureSystem bounded for TLC: MaxRows rows ever stored, MaxMessages       *)
(* messages per session.  The repositories are interchangeable.            *)
(***************************************************************************)
EXTENDS CureSystem, TLC

CONSTANTS MaxRows, MaxMessages

\* Both scopes and both values; one of the repository's items is not approved.
MCItem == {i \in RawItem :
    /\ i.scope # "other" /\ i.status = "approved" /\ ~i.unverified
    /\ ~i.sure <=> (i.scope = "project" /\ i.value = CHOOSE v \in Value : TRUE)}

Symmetry == Permutations(Repo)

\* The endpoint writes at most once during an extraction.
OnceElsewhere == elsewhere => ~(tx = "none" /\ tx' = "none" /\ pc' = pc /\ rows' # rows)

Room == IF shared THEN MaxRows - 1 ELSE MaxRows
NewRows == Len(view) + Len(SelectSeq(todo, LAMBDA w : w.id = New))

Bounded ==
    /\ NewRows <= Room /\ recorded <= MaxMessages
    /\ pc = "list" => Len(view) < Room    \* an extraction has room for a row

MCNext == Next /\ OnceElsewhere /\ Bounded'
MCSpec == Init /\ [][MCNext]_vars
=============================================================================

---------------------------- MODULE MCAlgorithms ----------------------------
(***************************************************************************)
(* The pure algorithms on every small input: of the two, a behaviour       *)
(* checks the one it is about.                                             *)
(***************************************************************************)
EXTENDS RecallBudget, Paging

CONSTANTS MaxLines, MaxSize, MaxTotal

VARIABLE about

Lines == {l \in [size : 0..MaxSize, blanks : 0..MaxBlanks, exempt : BOOLEAN] : l.exempt => l.blanks = 0 /\ l.size < 2}

SmallRecall ==
    /\ perMemory \in 0..(MaxSize - 1) /\ total \in 0..MaxTotal
    /\ selected \in UNION {[1..n -> Lines] : n \in 0..MaxLines}
    /\ walked = 0 /\ body = <<>> /\ budget = 0

NoRecall ==
    /\ perMemory = 0 /\ total = 0 /\ selected = <<>>
    /\ walked = 0 /\ body = <<>> /\ budget = 0

NoPaging ==
    /\ client = "gateway" /\ listed = 0 /\ malformed = {} /\ told = FALSE /\ limit = 1
    /\ position = 0 /\ got = <<>> /\ over = FALSE

MCInit ==
    \/ about = "recall" /\ SmallRecall /\ NoPaging
    \/ about = "paging" /\ PagingInit /\ NoRecall

MCNext ==
    /\ UNCHANGED about
    /\ \/ about = "recall" /\ TakeHit /\ UNCHANGED pagingVars
       \/ about = "paging" /\ PagingNext /\ UNCHANGED recallVars

MCSpec == MCInit /\ [][MCNext]_<<about, recallVars, pagingVars>>
=============================================================================

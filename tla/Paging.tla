------------------------------- MODULE Paging -------------------------------
(***************************************************************************)
(* The two walks over a paginated listing that nobody writes to: get_all   *)
(* of the mem0 platform (mem0_bridge/stores/platform.py) and atomic_query  *)
(* of TencentDB (tencentdb_bridge/client.py).  The servers are external:   *)
(* the platform pages by number and says what is next, or drifts and says  *)
(* so after the last page too; the gateway pages by offset, may give less  *)
(* than asked for, and tells the total, or tells none and gives full pages.*)
(***************************************************************************)
EXTENDS Naturals, Sequences

CONSTANTS
    PageSize,    \* page_size, QUERY_PAGE_LIMIT
    MaxListed    \* bound: rows of the listing

ASSUME PagingAssumption == PageSize \in Nat \ {0} /\ MaxListed \in Nat

VARIABLES
    client,      \* whose walk
    listed,      \* how many rows there are
    malformed,   \* rows of the platform's listing that are no objects
    told,        \* does the gateway tell the total?  does the platform drift?
    limit,
    position,    \* the page number; the offset
    got, over

pagingVars == <<client, listed, malformed, told, limit, position, got, over>>

Rows(first, last) == [i \in 1..(IF last < first THEN 0 ELSE last - first + 1) |-> first + i - 1]
Least(a, b) == IF a < b THEN a ELSE b

\* The rows that are objects.
WellFormed(rows) ==
    LET kept[n \in 0..Len(rows)] ==
            IF n = 0 THEN <<>>
            ELSE IF rows[n] \in malformed THEN kept[n - 1] ELSE Append(kept[n - 1], rows[n])
    IN  kept[Len(rows)]

PagingInit ==
    /\ client \in {"platform", "gateway"}
    /\ listed \in 0..MaxListed /\ told \in BOOLEAN
    /\ malformed \in IF client = "platform" THEN SUBSET (1..listed) ELSE {{}}
    /\ limit \in 1..(MaxListed + 1)
    /\ position = (IF client = "platform" THEN 1 ELSE 0)
    /\ got = <<>> /\ over = FALSE

\* Mutant: the last page asks for no more rows than are missing.
ShrinksLast == Least(PageSize, limit - Len(got))

Asked == PageSize    \* constant across the walk

PlatformPage ==
    /\ client = "platform" /\ ~over /\ Len(got) < limit
    /\ LET page == Rows((position - 1) * Asked + 1, Least(position * Asked, listed))
           next == told \/ position * Asked < listed
           all  == got \o WellFormed(page)
       IN  /\ got' = SubSeq(all, 1, Least(limit, Len(all)))
           /\ over' = (~next \/ page = <<>> \/ Len(all) >= limit)
           /\ position' = IF over' THEN position ELSE position + 1
    /\ UNCHANGED <<client, listed, malformed, told, limit>>

GatewayPage(size) ==
    /\ client = "gateway" /\ ~over /\ Len(got) < limit
    /\ size \in IF listed - position = 0 THEN {0}
                ELSE IF told THEN 1..Least(PageSize, listed - position)
                ELSE {Least(PageSize, listed - position)}
    /\ got' = got \o Rows(position + 1, position + size)
    /\ position' = position + size
    /\ over' = (\/ size = 0
                \/ told /\ Len(got') >= Least(listed, limit)
                \/ ~told /\ size < PageSize
                \/ Len(got') >= limit)
    /\ UNCHANGED <<client, listed, malformed, told, limit>>

PagingNext == PlatformPage \/ \E size \in 0..PageSize : GatewayPage(size)

PagingSpec == PagingInit /\ [][PagingNext]_pagingVars

-----------------------------------------------------------------------------
(* A walk that is over has every row of the listing once and in order, or  *)
(* has reached its limit: no page boundary, short page, malformed row or   *)
(* drifting next field makes it skip, repeat or stop early                 *)
(* (mem0_bridge/stores/platform.py:57-86, tencentdb_bridge/client.py:293). *)
EveryRowOnce ==
    over => LET all == WellFormed(Rows(1, listed))
            IN  /\ Len(got) <= Len(all) /\ got = SubSeq(all, 1, Len(got))
                /\ Len(got) = Len(all) \/ Len(got) >= limit
=============================================================================

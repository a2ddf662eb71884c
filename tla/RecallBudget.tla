---------------------------- MODULE RecallBudget ----------------------------
(***************************************************************************)
(* Rank-then-fill: how recall_context (shared_bridge/backend.py) places    *)
(* the ranked lines of one search into the character budget of the prompt. *)
(* A line is its size; a cut strips the blanks before it.                  *)
(***************************************************************************)
EXTENDS Integers, Sequences

CONSTANTS
    Marker,     \* len(RECALL_LINE_TRUNCATION)
    MinRoom,    \* _MIN_TRUNCATED_RECALL_LINE_CHARS
    MaxBlanks   \* bound: blanks before a cut

ASSUME BudgetAssumption == Marker \in Nat /\ MinRoom \in Nat /\ Marker + MaxBlanks < MinRoom /\ MaxBlanks \in Nat

\* A rendered hit, provenance suffix included; size 0 is a hit that renders to nothing.
Line == [size : Nat, blanks : 0..MaxBlanks, exempt : BOOLEAN]

VARIABLES
    perMemory, total,   \* max_chars_per_memory, max_total_recall_chars; 0: off
    selected,           \* the ranked hits
    walked,             \* how many of them have been considered
    body,               \* the placed lines: rank, size, cost, whether whole
    budget              \* chars the lines that are not exempt consumed

recallVars == <<perMemory, total, selected, walked, body, budget>>

RecallInit ==
    /\ perMemory \in Nat /\ total \in Nat
    /\ selected \in Seq(Line)
    /\ walked = 0 /\ body = <<>> /\ budget = 0

Separator == IF body = <<>> THEN 0 ELSE 1
Placed(rank, size, cost, whole) == [rank |-> rank, size |-> size, cost |-> cost, whole |-> whole]

\* The per-memory cap, its suffix included; a cap too small for the marker is a plain cut.
Capped(line) ==
    IF perMemory = 0 \/ line.size <= perMemory THEN line.size
    ELSE IF perMemory <= Marker THEN perMemory
    ELSE IF perMemory - Marker < line.blanks THEN Marker ELSE perMemory - line.blanks

\* Mutant: the separator is not counted.
FitsBare(size) == total = 0 \/ budget + size <= total

Fits(size) == total = 0 \/ budget + size + Separator <= total
Remaining  == total - budget - Separator

Place(rank, size, whole) ==
    /\ body' = Append(body, Placed(rank, size, size + Separator, whole))
    /\ budget' = budget + size + Separator

TakeHit ==
    /\ walked < Len(selected) /\ walked' = walked + 1
    /\ LET line == selected[walked']
           size == Capped(line)
       IN  CASE line.size = 0 -> UNCHANGED <<body, budget>>
             [] line.size # 0 /\ line.exempt ->
                  body' = Append(body, Placed(walked', line.size, 0, TRUE)) /\ UNCHANGED budget
             [] line.size # 0 /\ ~line.exempt /\ Fits(size) -> Place(walked', size, TRUE)
             [] line.size # 0 /\ ~line.exempt /\ ~Fits(size) ->
                  IF Remaining < MinRoom THEN UNCHANGED <<body, budget>>
                  ELSE Place(walked', Remaining - line.blanks, FALSE)
    /\ UNCHANGED <<perMemory, total, selected>>

RecallSpec == RecallInit /\ [][TakeHit]_recallVars

-----------------------------------------------------------------------------
\* What a placed line takes of the budget: its chars and, but for the first line of the
\* body, the newline before it; nothing for an exempt one.
Charge(placed, n) ==
    IF selected[placed[n].rank].exempt THEN 0 ELSE placed[n].size + IF n = 1 THEN 0 ELSE 1

\* What the first n lines of a body take.
GovernedOf(placed) ==
    LET sum[n \in 0..Len(placed)] == IF n = 0 THEN 0 ELSE sum[n - 1] + Charge(placed, n)
    IN  sum
Governed == GovernedOf(body)

BudgetHeld == total > 0 => budget <= total
BudgetIsSpent == budget = Governed[Len(body)]

(* The governed lines never exceed the total, counted over the text that   *)
(* is placed; lines keep their rank; and a line is cut or left out only    *)
(* when the lines ranked above it leave no room for all of it, whatever    *)
(* was skipped on the way (shared_bridge/backend.py:900-951).              *)
RankThenFill ==
    /\ BudgetHeld /\ BudgetIsSpent
    /\ \A i, j \in DOMAIN body : i < j => body[i].rank < body[j].rank
    /\ \A k \in 1..walked :
         selected[k].size > 0 /\ (\A i \in DOMAIN body : body[i].rank = k => ~body[i].whole) =>
            LET above == {i \in DOMAIN body : body[i].rank < k}
                n == IF above = {} THEN 0 ELSE CHOOSE i \in above : \A j \in above : j <= i
            IN  /\ ~selected[k].exempt
                /\ Governed[n] + Capped(selected[k]) + (IF n = 0 THEN 0 ELSE 1) > total
=============================================================================

-------------------------- MODULE Algorithms_proofs --------------------------
(***************************************************************************)
(* Proofs about the two pure algorithms: the recall budget, for every      *)
(* ranking, cap and total, and the two paginated walks, for every listing, *)
(* page size and limit.                                                    *)
(***************************************************************************)
EXTENDS RecallBudget, Paging, Induction, SequenceTheorems, TLAPS

-----------------------------------------------------------------------------
(* What the placed lines take of the budget.                               *)

PlacedLine == [rank : Nat, size : Nat, cost : Nat, whole : BOOLEAN]

\* Lines of the ranking, placed.
Body(placed) == placed \in Seq(PlacedLine) /\ \A n \in 1..Len(placed) : placed[n].rank \in 1..Len(selected)

LEMMA ChargeType ==
    ASSUME selected \in Seq(Line), NEW placed, Body(placed), NEW n \in 1..Len(placed)
    PROVE  Charge(placed, n) \in Nat
<1>1. placed[n] \in PlacedLine
  BY DEF Body
<1>2. placed[n].size \in Nat
  BY <1>1 DEF PlacedLine
<1>3. QED
  BY <1>2 DEF Charge

LEMMA GovernedIs ==
    ASSUME selected \in Seq(Line), NEW placed, Body(placed)
    PROVE  /\ \A n \in 0..Len(placed) : GovernedOf(placed)[n] \in Nat
           /\ GovernedOf(placed)[0] = 0
           /\ \A n \in 1..Len(placed) : GovernedOf(placed)[n] = GovernedOf(placed)[n - 1] + Charge(placed, n)
<1> DEFINE N == Len(placed)
           C(n) == Charge(placed, n)
           step(g, n) == IF n = 0 THEN 0 ELSE g[n - 1] + C(n)
           sum == CHOOSE g : g = [n \in 0..N |-> step(g, n)]
           G == [n \in 1..N |-> [s \in Nat |-> s + C(n)]]
<1>1. N \in Nat /\ \A n \in 1..N : C(n) \in Nat
  BY ChargeType DEF Body
<1>2. GovernedOf(placed) = sum
  BY DEF GovernedOf
<1> HIDE DEF C
<1>3. PICK f \in [0..N -> Nat] : Steps(f, 0, G, N)
  <2>1. G \in [1..N -> [Nat -> Nat]]
    BY <1>1
  <2> HIDE DEF G
  <2>2. QED
    BY <1>1, <2>1, StepsExist
<1>4. f[0] = 0 /\ \A n \in 1..N : f[n] = f[n - 1] + C(n)
  <2>1. f[0] = 0 /\ \A n \in 1..N : f[n] = G[n][f[n - 1]]
    BY <1>3 DEF Steps
  <2>2. \A n \in 1..N : n - 1 \in 0..N
    BY <1>1
  <2>3. \A n \in 1..N : G[n][f[n - 1]] = f[n - 1] + C(n)
    BY <2>2
  <2>4. QED
    BY <2>1, <2>3
<1>5. f = [n \in 0..N |-> step(f, n)]
  <2>1. \A n \in 0..N : n # 0 => n \in 1..N
    BY <1>1
  <2>2. \A n \in 0..N : f[n] = step(f, n)
    BY <1>4, <2>1
  <2>3. QED
    BY <2>2
<1>6. sum = [n \in 0..N |-> step(sum, n)]
  <2>1. \E g : g = [n \in 0..N |-> step(g, n)]
    BY <1>5
  <2> QED
    BY <2>1, Zenon
<1> HIDE DEF sum
<1>7. \A n \in 0..N : sum[n] = f[n]
  <2> DEFINE T == {n \in 0..N : sum[n] = f[n]}
  <2>1. 0 \in T
    BY <1>1, <1>4, <1>6
  <2>2. ASSUME NEW n \in 0..(N - 1), n \in T
        PROVE  n + 1 \in T
    <3>1. n + 1 \in 0..N /\ n + 1 \in 1..N /\ n + 1 # 0 /\ (n + 1) - 1 = n
      BY <1>1
    <3>2. sum[n + 1] = sum[n] + C(n + 1)
      BY <1>6, <3>1
    <3>3. f[n + 1] = f[n] + C(n + 1)
      BY <1>4, <3>1
    <3>4. QED
      BY <2>2, <3>1, <3>2, <3>3
  <2> HIDE DEF T
  <2>3. \A n \in 0..N : n \in T
    BY <1>1, <2>1, <2>2, UpToInduction
  <2>4. QED
    BY <2>3 DEF T
<1>8. QED
  <2>1. \A n \in 1..N : n \in 0..N /\ n - 1 \in 0..N
    BY <1>1
  <2>2. 0 \in 0..N
    BY <1>1
  <2>3. QED
    BY <1>2, <1>4, <1>7, <2>1, <2>2 DEF C

\* A line more takes its charge, and leaves what the lines before it take.
LEMMA GovernedGrows ==
    ASSUME selected \in Seq(Line), NEW placed, Body(placed), NEW p, Body(Append(placed, p))
    PROVE  LET more == Append(placed, p)
           IN  /\ \A n \in 0..Len(placed) : GovernedOf(more)[n] = GovernedOf(placed)[n]
               /\ GovernedOf(more)[Len(more)] = GovernedOf(placed)[Len(placed)] + Charge(more, Len(more))
<1> DEFINE more == Append(placed, p)
           N == Len(placed)
           f == GovernedOf(placed)
           h == GovernedOf(more)
<1>1. N \in Nat /\ Len(more) = N + 1 /\ \A n \in 1..N : more[n] = placed[n]
  BY DEF Body
<1>2. /\ f[0] = 0 /\ h[0] = 0
      /\ \A n \in 1..N : f[n] = f[n - 1] + Charge(placed, n)
      /\ \A n \in 1..(N + 1) : h[n] = h[n - 1] + Charge(more, n)
  <2>1. f[0] = 0 /\ \A n \in 1..Len(placed) : f[n] = f[n - 1] + Charge(placed, n)
    BY GovernedIs
  <2>2. h[0] = 0 /\ \A n \in 1..Len(more) : h[n] = h[n - 1] + Charge(more, n)
    BY GovernedIs
  <2>3. QED
    BY <1>1, <2>1, <2>2
<1>3. \A n \in 1..N : Charge(more, n) = Charge(placed, n)
  BY <1>1 DEF Charge
<1> HIDE DEF more, f, h
<1>4. \A n \in 0..N : h[n] = f[n]
  <2> DEFINE T == {n \in 0..N : h[n] = f[n]}
  <2>1. 0 \in T
    BY <1>1, <1>2
  <2>2. ASSUME NEW n \in 0..(N - 1), n \in T
        PROVE  n + 1 \in T
    <3>1. n + 1 \in 0..N /\ n + 1 \in 1..N /\ n + 1 \in 1..(N + 1) /\ (n + 1) - 1 = n
      BY <1>1
    <3>2. QED
      BY <1>2, <1>3, <2>2, <3>1
  <2> HIDE DEF T
  <2>3. \A n \in 0..N : n \in T
    BY <1>1, <2>1, <2>2, UpToInduction
  <2>4. QED
    BY <2>3 DEF T
<1>5. N \in 0..N /\ N + 1 \in 1..(N + 1) /\ (N + 1) - 1 = N
  BY <1>1
<1>6. h[N + 1] = f[N] + Charge(more, N + 1)
  BY <1>2, <1>4, <1>5
<1>7. QED
  BY <1>1, <1>4, <1>6 DEF more, f, h

-----------------------------------------------------------------------------
(* The walk over the ranking.                                              *)

\* A hit that is not in the body with all of its line.
Short(k) == selected[k].size > 0 /\ \A i \in 1..Len(body) : body[i].rank = k => ~body[i].whole

\* The first n lines of the body are the ones ranked above k.
Above(k, n) == n \in 0..Len(body) /\ \A i \in 1..Len(body) : i <= n <=> body[i].rank < k

\* After n lines there is no room for the line of hit k.
Crowded(k, n) ==
    ~selected[k].exempt /\ Governed[n] + Capped(selected[k]) + (IF n = 0 THEN 0 ELSE 1) > total

RecallType ==
    /\ selected \in Seq(Line) /\ perMemory \in Nat /\ total \in Nat
    /\ walked \in 0..Len(selected)
    /\ Body(body) /\ budget \in Nat

RecallInv ==
    /\ RecallType
    /\ BudgetHeld /\ budget = Governed[Len(body)]
    /\ \A i \in 1..Len(body) : body[i].rank \in 1..walked
    /\ \A i, j \in 1..Len(body) : i < j => body[i].rank < body[j].rank
    /\ \A k \in 1..walked : Short(k) => \E n \in 0..Len(body) : Above(k, n) /\ Crowded(k, n)

LEMMA CappedType ==
    ASSUME RecallType, NEW line \in Line
    PROVE  Capped(line) \in Nat
BY BudgetAssumption DEF RecallType, Capped, Line

\* The next hit is the last of those walked, below all the body has.
LEMMA NextIsLast ==
    ASSUME RecallInv
    PROVE  Above(walked + 1, Len(body)) /\ Len(body) \in Nat /\ walked \in Nat
<1>1. Len(body) \in Nat /\ walked \in Nat /\ \A i \in 1..Len(body) : body[i].rank \in 1..walked
  BY DEF RecallInv, RecallType, Body
<1>2. QED
  BY <1>1 DEF Above

\* A hit that is left out.
LEMMA SkipKeeps ==
    ASSUME RecallInv, walked < Len(selected), walked' = walked + 1,
           UNCHANGED <<perMemory, total, selected, body, budget>>,
           selected[walked + 1].size = 0 \/ Crowded(walked + 1, Len(body))
    PROVE  RecallInv'
<1>1. walked \in Nat /\ Len(selected) \in Nat /\ Len(body) \in Nat /\ Above(walked + 1, Len(body))
  BY NextIsLast DEF RecallInv, RecallType
<1>2. RecallType' /\ BudgetHeld' /\ (budget = Governed[Len(body)])'
  <2>1. RecallType'
    BY <1>1 DEF RecallInv, RecallType, Body
  <2>2. BudgetHeld'
    BY DEF RecallInv, BudgetHeld
  <2>3. Governed' = Governed
    BY DEF Governed, GovernedOf, Charge
  <2>4. QED
    BY <2>1, <2>2, <2>3 DEF RecallInv
<1>3. \A i \in 1..Len(body') : body'[i].rank \in 1..walked'
  BY <1>1 DEF RecallInv
<1>4. \A i, j \in 1..Len(body') : i < j => body'[i].rank < body'[j].rank
  BY DEF RecallInv
<1>5. ASSUME NEW k \in 1..walked', Short(k)'
      PROVE  \E n \in 0..Len(body') : Above(k, n)' /\ Crowded(k, n)'
  <2>1. Governed' = Governed
    BY DEF Governed, GovernedOf, Charge
  <2>2. Short(k)
    BY <1>5 DEF Short
  <2>3. \A n : (Above(k, n) => Above(k, n)') /\ (Crowded(k, n) => Crowded(k, n)')
    BY <2>1 DEF Above, Crowded, Capped
  <2>4. CASE k \in 1..walked
    BY <2>2, <2>3, <2>4 DEF RecallInv
  <2>5. CASE k = walked + 1
    <3>1. Crowded(k, Len(body))
      BY <2>2, <2>5 DEF Short
    <3>2. Len(body) \in 0..Len(body')
      BY <1>1
    <3>3. QED
      BY <1>1, <2>3, <2>5, <3>1, <3>2
  <2>6. QED
    BY <1>1, <2>4, <2>5
<1>6. QED
  BY <1>2, <1>3, <1>4, <1>5 DEF RecallInv

\* A hit that is placed, whole or cut.
LEMMA PlaceKeeps ==
    ASSUME RecallInv, walked < Len(selected), walked' = walked + 1, UNCHANGED <<perMemory, total, selected>>,
           NEW size \in Nat, NEW cost \in Nat, NEW whole \in BOOLEAN,
           body' = Append(body, Placed(walked + 1, size, cost, whole)),
           budget' = budget + IF selected[walked + 1].exempt THEN 0 ELSE size + Separator,
           total > 0 => budget' <= total,
           whole \/ Crowded(walked + 1, Len(body))
    PROVE  RecallInv'
<1> DEFINE p == Placed(walked + 1, size, cost, whole)
           N == Len(body)
<1>1. /\ walked \in Nat /\ Len(selected) \in Nat /\ N \in Nat /\ Above(walked + 1, N)
      /\ body \in Seq(PlacedLine) /\ selected \in Seq(Line) /\ Body(body) /\ budget \in Nat
      /\ walked + 1 \in 1..Len(selected)
  BY NextIsLast DEF RecallInv, RecallType, Body
<1>2. p \in PlacedLine /\ p.rank = walked + 1 /\ p.size = size /\ p.whole = whole
  BY <1>1 DEF PlacedLine, Placed
<1> HIDE DEF p
<1>3. /\ body' \in Seq(PlacedLine) /\ Len(body') = N + 1
      /\ \A i \in 1..N : body'[i] = body[i]
      /\ body'[N + 1] = p
      /\ \A i \in 1..(N + 1) : i = N + 1 \/ i \in 1..N
  BY <1>1, <1>2 DEF p
<1>4. Body(body') /\ Body(body)'
  <2>1. \A n \in 1..Len(body') : body'[n].rank \in 1..Len(selected)
    BY <1>1, <1>2, <1>3 DEF Body
  <2>2. QED
    BY <1>3, <2>1 DEF Body
<1>5. /\ Governed' = GovernedOf(body')
      /\ \A n \in 0..N : GovernedOf(body')[n] = Governed[n]
      /\ GovernedOf(body')[N + 1] = Governed[N] + Charge(body', N + 1)
  <2>1. GovernedOf(body)' = GovernedOf(body')
    BY DEF GovernedOf, Charge
  <2>2. Body(Append(body, p)) /\ body' = Append(body, p)
    BY <1>4 DEF p
  <2>3. QED
    BY <1>1, <1>3, <2>1, <2>2, GovernedGrows DEF Governed
<1>6. Charge(body', N + 1) = IF selected[walked + 1].exempt THEN 0 ELSE size + Separator
  <2>1. N + 1 = 1 <=> body = <<>>
    BY <1>1
  <2>2. QED
    BY <1>2, <1>3, <2>1 DEF Charge, Separator
<1>7. RecallType'
  <2>1. budget' \in Nat
    BY <1>1 DEF Separator
  <2>2. QED
    BY <1>1, <1>4, <2>1 DEF RecallInv, RecallType
<1>8. BudgetHeld' /\ (budget = Governed[Len(body)])'
  BY <1>1, <1>3, <1>5, <1>6 DEF BudgetHeld, RecallInv
<1>9. \A i \in 1..Len(body') : body'[i].rank \in 1..walked'
  BY <1>1, <1>2, <1>3 DEF RecallInv
<1>10. \A i, j \in 1..Len(body') : i < j => body'[i].rank < body'[j].rank
  <2> SUFFICES ASSUME NEW i \in 1..(N + 1), NEW j \in 1..(N + 1), i < j
               PROVE  body'[i].rank < body'[j].rank
    BY <1>3
  <2>1. i \in 1..N
    BY <1>1
  <2>2. body[i].rank \in 1..walked
    BY <2>1 DEF RecallInv
  <2>3. CASE j = N + 1
    BY <1>1, <1>2, <1>3, <2>1, <2>2, <2>3
  <2>4. CASE j \in 1..N
    BY <1>3, <2>1, <2>4 DEF RecallInv
  <2>5. QED
    BY <1>3, <2>3, <2>4
<1>11. ASSUME NEW k \in 1..walked', Short(k)'
       PROVE  \E n \in 0..Len(body') : Above(k, n)' /\ Crowded(k, n)'
  <2>1. \A n \in 0..N : Crowded(k, n) => Crowded(k, n)'
    BY <1>5 DEF Crowded, Capped
  <2>2. \A n \in 0..N : Above(k, n) => Above(k, n)'
    <3> SUFFICES ASSUME NEW n \in 0..N, Above(k, n)
                 PROVE  Above(k, n)'
      OBVIOUS
    <3>1. ~(N + 1 <= n) /\ ~(walked + 1 < k) /\ n \in 0..(N + 1)
      BY <1>1
    <3>2. QED
      BY <1>2, <1>3, <3>1 DEF Above
  <2>3. \A n \in 0..N : n \in 0..Len(body')
    BY <1>1, <1>3
  <2>4. CASE k \in 1..walked
    <3>1. Short(k)
      BY <1>3, <1>11 DEF Short
    <3>2. PICK n \in 0..N : Above(k, n) /\ Crowded(k, n)
      BY <2>4, <3>1 DEF RecallInv
    <3>3. QED
      BY <2>1, <2>2, <2>3, <3>2
  <2>5. CASE k = walked + 1
    <3>1. ~whole
      BY <1>2, <1>3, <1>11, <2>5, <1>1 DEF Short
    <3>2. Crowded(k, N) /\ Above(k, N) /\ N \in 0..N
      BY <1>1, <2>5, <3>1
    <3>3. QED
      BY <2>1, <2>2, <2>3, <3>2
  <2>6. QED
    BY <1>1, <2>4, <2>5
<1>12. QED
  BY <1>7, <1>8, <1>9, <1>10, <1>11 DEF RecallInv

LEMMA HitKeeps ==
    ASSUME RecallInv, TakeHit
    PROVE  RecallInv'
<1> DEFINE line == selected[walked + 1]
           size == Capped(line)
           N == Len(body)
<1>1. /\ walked < Len(selected) /\ walked' = walked + 1 /\ UNCHANGED <<perMemory, total, selected>>
      /\ walked \in Nat /\ Len(selected) \in Nat /\ selected \in Seq(Line) /\ N \in Nat /\ body \in Seq(PlacedLine)
      /\ budget \in Nat /\ total \in Nat /\ RecallType /\ BudgetHeld
  BY DEF TakeHit, RecallInv, RecallType, Body
<1>2. line \in Line
  BY <1>1
<1>3. size \in Nat /\ line.size \in Nat /\ line.blanks \in 0..MaxBlanks /\ line.exempt \in BOOLEAN
  BY <1>1, <1>2, CappedType DEF Line
<1>4. Separator \in Nat /\ Separator = (IF N = 0 THEN 0 ELSE 1)
  BY <1>1 DEF Separator
<1>5. budget = Governed[N]
  BY DEF RecallInv
<1>6. \/ line.size = 0 /\ UNCHANGED <<body, budget>>
      \/ line.size # 0 /\ line.exempt /\ body' = Append(body, Placed(walked + 1, line.size, 0, TRUE)) /\ budget' = budget
      \/ line.size # 0 /\ ~line.exempt /\ Fits(size) /\ Place(walked + 1, size, TRUE)
      \/ line.size # 0 /\ ~line.exempt /\ ~Fits(size) /\ Remaining < MinRoom /\ UNCHANGED <<body, budget>>
      \/ line.size # 0 /\ ~line.exempt /\ ~Fits(size) /\ ~(Remaining < MinRoom)
            /\ Place(walked + 1, Remaining - line.blanks, FALSE)
  BY <1>1 DEF TakeHit
<1> HIDE DEF line, size
<1>7. ~line.exempt /\ ~Fits(size) => Crowded(walked + 1, N)
  BY <1>1, <1>3, <1>4, <1>5 DEF Fits, Crowded, line, size
<1>8. CASE line.size = 0 /\ UNCHANGED <<body, budget>>
  BY <1>1, <1>8, SkipKeeps DEF line
<1>9. CASE line.exempt /\ body' = Append(body, Placed(walked + 1, line.size, 0, TRUE)) /\ budget' = budget
  <2>1. body' = Append(body, Placed(walked + 1, line.size, 0, TRUE)) /\ line.size \in Nat /\ 0 \in Nat
    BY <1>3, <1>9
  <2>2. budget' = budget + (IF selected[walked + 1].exempt THEN 0 ELSE line.size + Separator)
    BY <1>1, <1>9 DEF line
  <2>3. total > 0 => budget' <= total
    BY <1>1, <1>9 DEF BudgetHeld
  <2>4. QED
    BY <1>1, <2>1, <2>2, <2>3, PlaceKeeps
<1>10. CASE ~line.exempt /\ Fits(size) /\ Place(walked + 1, size, TRUE)
  <2>1. /\ body' = Append(body, Placed(walked + 1, size, size + Separator, TRUE))
        /\ budget' = budget + (size + Separator) /\ size + Separator \in Nat
    BY <1>1, <1>3, <1>4, <1>10 DEF Place
  <2>2. total > 0 => budget' <= total
    BY <1>1, <1>3, <1>4, <1>10, <2>1 DEF Fits
  <2>3. QED
    BY <1>1, <1>3, <1>10, <2>1, <2>2, PlaceKeeps DEF line
<1>11. CASE ~line.exempt /\ ~Fits(size) /\ UNCHANGED <<body, budget>>
  BY <1>1, <1>7, <1>11, SkipKeeps
<1>12. CASE ~line.exempt /\ ~Fits(size) /\ ~(Remaining < MinRoom) /\ Place(walked + 1, Remaining - line.blanks, FALSE)
  <2> DEFINE cut == Remaining - line.blanks
  <2>1. cut \in Nat /\ budget + (cut + Separator) <= total
    BY <1>1, <1>3, <1>4, <1>12, BudgetAssumption DEF Remaining
  <2> HIDE DEF cut
  <2>2. /\ body' = Append(body, Placed(walked + 1, cut, cut + Separator, FALSE))
        /\ budget' = budget + (cut + Separator) /\ cut + Separator \in Nat
    BY <1>1, <1>4, <1>12, <2>1 DEF Place, cut
  <2>3. QED
    BY <1>1, <1>7, <1>12, <2>1, <2>2, PlaceKeeps DEF line
<1>13. QED
  BY <1>6, <1>8, <1>9, <1>10, <1>11, <1>12

LEMMA RecallInitial == RecallInit => RecallInv
<1> SUFFICES ASSUME RecallInit PROVE RecallInv
  OBVIOUS
<1>1. body = <<>> /\ Len(<<>>) = 0 /\ <<>> \in Seq(PlacedLine) /\ 1..0 = {} /\ selected \in Seq(Line) /\ walked = 0 /\ budget = 0
  BY DEF RecallInit
<1>2. Body(body)
  BY <1>1 DEF Body
<1>3. Governed[0] = 0
  BY <1>1, <1>2, GovernedIs DEF Governed
<1>4. RecallType /\ BudgetHeld
  BY <1>1, <1>2 DEF RecallInit, RecallType, BudgetHeld
<1>5. QED
  BY <1>1, <1>3, <1>4 DEF RecallInv

LEMMA FillIsByRank == RecallInv => RankThenFill
<1> SUFFICES ASSUME RecallInv PROVE RankThenFill
  OBVIOUS
<1>1. DOMAIN body = 1..Len(body) /\ Len(body) \in Nat
  BY DEF RecallInv, RecallType, Body
<1>2. BudgetHeld /\ BudgetIsSpent /\ \A i, j \in DOMAIN body : i < j => body[i].rank < body[j].rank
  BY <1>1 DEF RecallInv, BudgetIsSpent
<1> DEFINE above(k) == {i \in DOMAIN body : body[i].rank < k}
           last(k) == IF above(k) = {} THEN 0 ELSE CHOOSE i \in above(k) : \A j \in above(k) : j <= i
<1>3. ASSUME NEW k \in 1..walked, selected[k].size > 0, \A i \in DOMAIN body : body[i].rank = k => ~body[i].whole
      PROVE  Crowded(k, last(k))
  <2>1. Short(k)
    BY <1>1, <1>3 DEF Short
  <2>2. PICK n \in 0..Len(body) : Above(k, n) /\ Crowded(k, n)
    BY <2>1 DEF RecallInv
  <2>3. above(k) = 1..n
    BY <1>1, <2>2 DEF Above
  <2>4. last(k) = n
    <3>1. CASE n = 0
      BY <2>3, <3>1
    <3>2. CASE n # 0
      <4>1. n \in 1..n /\ above(k) # {}
        BY <2>3, <3>2
      <4>2. \A i \in 1..n : (\A j \in 1..n : j <= i) => i = n
        BY <4>1
      <4>3. (CHOOSE i \in 1..n : \A j \in 1..n : j <= i) = n
        BY <4>1, <4>2
      <4>4. QED
        BY <2>3, <4>1, <4>3
    <3>3. QED
      BY <3>1, <3>2
  <2>5. QED
    BY <2>2, <2>4
<1>4. QED
  BY <1>2, <1>3 DEF RankThenFill, Crowded

(* Whatever is ranked and whatever the caps, the governed lines stay       *)
(* within the total, keep their rank, and a line is cut or left out only   *)
(* when those ranked above it leave no room for all of it                  *)
(* (recall_context).                                                       *)
THEOREM BudgetIsFilledByRank == RecallSpec => []RankThenFill
<1>1. RecallInv /\ [TakeHit]_recallVars => RecallInv'
  <2> SUFFICES ASSUME RecallInv, [TakeHit]_recallVars PROVE RecallInv'
    OBVIOUS
  <2>1. CASE TakeHit
    BY <2>1, HitKeeps
  <2>2. CASE UNCHANGED recallVars
    <3>1. UNCHANGED <<perMemory, total, selected, walked, body, budget>>
      BY <2>2 DEF recallVars
    <3>2. RecallType' /\ BudgetHeld' /\ Governed' = Governed
      BY <3>1 DEF RecallInv, RecallType, Body, BudgetHeld, Governed, GovernedOf, Charge
    <3>3. \A k, n : Short(k)' = Short(k) /\ Above(k, n)' = Above(k, n) /\ Crowded(k, n)' = Crowded(k, n)
      BY <3>1, <3>2 DEF Short, Above, Crowded, Capped
    <3>4. QED
      BY <3>1, <3>2, <3>3 DEF RecallInv
  <2>3. QED
    BY <2>1, <2>2
<1>2. QED
  BY <1>1, RecallInitial, FillIsByRank, PTL DEF RecallSpec

-----------------------------------------------------------------------------
(* The rows that are objects.                                              *)

Keeps(f, rs) ==
    /\ f[0] = <<>>
    /\ \A n \in 1..Len(rs) : f[n] = IF rs[n] \in malformed THEN f[n - 1] ELSE Append(f[n - 1], rs[n])

LEMMA KeepsExist ==
    ASSUME NEW rs \in Seq(Nat)
    PROVE  \E f \in [0..Len(rs) -> Seq(Nat)] : Keeps(f, rs)
<1> DEFINE N == Len(rs)
           G == [n \in 1..N |-> [s \in Seq(Nat) |-> IF rs[n] \in malformed THEN s ELSE Append(s, rs[n])]]
<1>1. N \in Nat /\ \A n \in 1..N : rs[n] \in Nat
  OBVIOUS
<1>2. G \in [1..N -> [Seq(Nat) -> Seq(Nat)]]
  <2>1. \A n \in 1..N : \A s \in Seq(Nat) : (IF rs[n] \in malformed THEN s ELSE Append(s, rs[n])) \in Seq(Nat)
    BY <1>1
  <2>2. QED
    BY <2>1
<1>3. \A n \in 1..N : \A s \in Seq(Nat) : G[n][s] = IF rs[n] \in malformed THEN s ELSE Append(s, rs[n])
  OBVIOUS
<1> HIDE DEF G
<1>4. PICK f \in [0..N -> Seq(Nat)] : Steps(f, <<>>, G, N)
  <2>1. <<>> \in Seq(Nat)
    OBVIOUS
  <2>2. QED
    BY <1>1, <1>2, <2>1, StepsExist
<1>5. \A n \in 1..N : f[n - 1] \in Seq(Nat)
  <2>1. \A n \in 1..N : n - 1 \in 0..N
    BY <1>1
  <2>2. QED
    BY <1>4, <2>1
<1>6. Keeps(f, rs)
  BY <1>3, <1>4, <1>5 DEF Steps, Keeps
<1>7. QED
  BY <1>4, <1>6

LEMMA WellFormedIs ==
    ASSUME NEW rs \in Seq(Nat), NEW f, Keeps(f, rs)
    PROVE  WellFormed(rs) = f[Len(rs)]
<1> DEFINE N == Len(rs)
           step(g, n) == IF n = 0 THEN <<>>
                         ELSE IF rs[n] \in malformed THEN g[n - 1] ELSE Append(g[n - 1], rs[n])
           h == [n \in 0..N |-> f[n]]
           kept == CHOOSE g : g = [n \in 0..N |-> step(g, n)]
<1>1. N \in Nat
  OBVIOUS
<1>2. h = [n \in 0..N |-> step(h, n)]
  <2>1. \A n \in 0..N : f[n] = step(h, n)
    <3> SUFFICES ASSUME NEW n \in 0..N PROVE f[n] = step(h, n)
      OBVIOUS
    <3>1. CASE n = 0
      BY <3>1 DEF Keeps
    <3>2. CASE n # 0
      <4>1. n \in 1..N /\ n - 1 \in 0..N
        BY <1>1, <3>2
      <4>2. h[n - 1] = f[n - 1]
        BY <4>1
      <4>3. QED
        BY <4>1, <4>2 DEF Keeps
    <3>3. QED
      BY <3>1, <3>2
  <2>2. QED
    BY <2>1, Zenon
<1>3. kept = [n \in 0..N |-> step(kept, n)]
  <2> HIDE DEF h
  <2>1. \E g : g = [n \in 0..N |-> step(g, n)]
    BY <1>2
  <2> QED
    BY <2>1, Zenon
<1>4. WellFormed(rs) = kept[N]
  BY DEF WellFormed
<1> HIDE DEF kept
<1>5. Keeps(kept, rs)
  <2>1. kept[0] = <<>>
    BY <1>1, <1>3
  <2>2. \A n \in 1..N : n \in 0..N /\ n # 0
    BY <1>1
  <2>3. \A n \in 1..N : kept[n] = IF rs[n] \in malformed THEN kept[n - 1] ELSE Append(kept[n - 1], rs[n])
    BY <1>3, <2>2
  <2>4. QED
    BY <2>1, <2>3 DEF Keeps
<1>6. \A n \in 0..N : kept[n] = f[n]
  <2> DEFINE T == {n \in 0..N : kept[n] = f[n]}
  <2>1. 0 \in T
    BY <1>1, <1>5 DEF Keeps
  <2>2. ASSUME NEW n \in 0..(N - 1), n \in T
        PROVE  n + 1 \in T
    <3>1. n + 1 \in 0..N /\ n + 1 \in 1..N /\ (n + 1) - 1 = n
      BY <1>1
    <3>2. QED
      BY <1>5, <2>2, <3>1 DEF Keeps
  <2> HIDE DEF T
  <2>3. \A n \in 0..N : n \in T
    BY <1>1, <2>1, <2>2, UpToInduction
  <2>4. QED
    BY <2>3 DEF T
<1>7. QED
  BY <1>1, <1>4, <1>6

LEMMA WellFormedType ==
    ASSUME NEW rs \in Seq(Nat)
    PROVE  WellFormed(rs) \in Seq(Nat)
<1>1. PICK f \in [0..Len(rs) -> Seq(Nat)] : Keeps(f, rs)
  BY KeepsExist
<1>2. Len(rs) \in 0..Len(rs)
  OBVIOUS
<1>3. QED
  BY <1>1, <1>2, WellFormedIs

LEMMA AppendJoins ==
    ASSUME NEW a \in Seq(Nat), NEW b \in Seq(Nat), NEW x \in Nat
    PROVE  a \o Append(b, x) = Append(a \o b, x)
OBVIOUS

\* Page by page is all at once.
LEMMA WellFormedJoins ==
    ASSUME NEW rs \in Seq(Nat), NEW ss \in Seq(Nat)
    PROVE  WellFormed(rs \o ss) = WellFormed(rs) \o WellFormed(ss)
<1> DEFINE K == Len(rs)
           M == Len(ss)
           all == rs \o ss
<1>1. PICK f \in [0..K -> Seq(Nat)] : Keeps(f, rs)
  BY KeepsExist
<1>2. PICK g \in [0..M -> Seq(Nat)] : Keeps(g, ss)
  BY KeepsExist
<1> DEFINE h == [n \in 0..(K + M) |-> IF n <= K THEN f[n] ELSE f[K] \o g[n - K]]
<1>3. /\ K \in Nat /\ M \in Nat /\ all \in Seq(Nat) /\ Len(all) = K + M
      /\ \A n \in 1..K : all[n] = rs[n]
      /\ \A n \in (K + 1)..(K + M) : all[n] = ss[n - K] /\ n - K \in 1..M /\ (n - K) - 1 = (n - 1) - K
  OBVIOUS
<1>4. /\ \A n \in 0..K : h[n] = f[n]
      /\ \A n \in (K + 1)..(K + M) : h[n] = f[K] \o g[n - K]
  BY <1>3
<1>5. h[K + M] = f[K] \o g[M]
  <2>1. CASE M = 0
    <3>2. K \in 0..K /\ K + M = K
      BY <1>3, <2>1
    <3>1. f[K] \in Seq(Nat) /\ g[0] = <<>>
      BY <1>1, <1>2, <3>2 DEF Keeps
    <3>3. f[K] \o <<>> = f[K]
      BY <3>1
    <3>4. QED
      BY <1>4, <2>1, <3>1, <3>2, <3>3
  <2>2. CASE M # 0
    <3>1. K + M \in (K + 1)..(K + M) /\ (K + M) - K = M
      BY <1>3, <2>2
    <3>2. QED
      BY <1>4, <3>1
  <2>3. QED
    BY <2>1, <2>2
<1> HIDE DEF h, all
<1>6. Keeps(h, all)
  <2>1. h[0] = <<>>
    BY <1>1, <1>3, <1>4 DEF Keeps
  <2>2. ASSUME NEW n \in 1..Len(all)
        PROVE  h[n] = IF all[n] \in malformed THEN h[n - 1] ELSE Append(h[n - 1], all[n])
    <3>1. CASE n <= K
      <4>1. n \in 1..K /\ n \in 0..K /\ n - 1 \in 0..K
        BY <1>3, <3>1
      <4>2. QED
        BY <1>1, <1>3, <1>4, <4>1 DEF Keeps
    <3>2. CASE n > K
      <4>1. n \in (K + 1)..(K + M) /\ n - K \in 1..M /\ (n - K) - 1 \in 0..M /\ n - K \in 0..M
        BY <1>3, <3>2
      <4>2. h[n] = f[K] \o g[n - K] /\ all[n] = ss[n - K]
        BY <1>3, <1>4, <4>1
      <4>3. h[n - 1] = f[K] \o g[(n - K) - 1]
        <5>1. CASE n = K + 1
          <6>1. (n - K) - 1 = 0 /\ n - 1 = K /\ K \in 0..K
            BY <1>3, <5>1
          <6>2. g[0] = <<>> /\ f[K] \in Seq(Nat)
            BY <1>1, <1>2, <6>1 DEF Keeps
          <6>3. f[K] \o <<>> = f[K]
            BY <6>2
          <6>4. QED
            BY <1>4, <6>1, <6>2, <6>3
        <5>2. CASE n # K + 1
          <6>1. n - 1 \in (K + 1)..(K + M) /\ (n - 1) - K = (n - K) - 1
            BY <1>3, <4>1, <5>2
          <6>2. QED
            BY <1>4, <6>1
        <5>3. QED
          BY <5>1, <5>2
      <4>4. g[n - K] = IF all[n] \in malformed THEN g[(n - K) - 1] ELSE Append(g[(n - K) - 1], all[n])
        BY <1>2, <4>1, <4>2 DEF Keeps
      <4>5. f[K] \in Seq(Nat) /\ g[(n - K) - 1] \in Seq(Nat) /\ all[n] \in Nat
        <5>1. K \in 0..K /\ n \in 1..Len(all)
          BY <1>3
        <5>2. f[K] \in Seq(Nat)
          BY <1>1, <5>1
        <5>3. g[(n - K) - 1] \in Seq(Nat)
          BY <1>2, <4>1
        <5>4. all[n] \in Nat
          BY <1>3, <5>1
        <5>5. QED
          BY <5>2, <5>3, <5>4
      <4>6. f[K] \o Append(g[(n - K) - 1], all[n]) = Append(f[K] \o g[(n - K) - 1], all[n])
        BY <4>5, AppendJoins
      <4>7. QED
        BY <4>2, <4>3, <4>4, <4>6
    <3>3. QED
      BY <1>3, <3>1, <3>2
  <2>3. QED
    BY <2>1, <2>2 DEF Keeps
<1>7. WellFormed(all) = h[K + M]
  BY <1>3, <1>6, WellFormedIs
<1>8. WellFormed(rs) = f[K] /\ WellFormed(ss) = g[M]
  BY <1>1, <1>2, WellFormedIs
<1>9. QED
  BY <1>5, <1>7, <1>8 DEF all

LEMMA AllWellFormed ==
    ASSUME NEW rs \in Seq(Nat), malformed = {}
    PROVE  WellFormed(rs) = rs
<1> DEFINE N == Len(rs)
           f == [n \in 0..N |-> SubSeq(rs, 1, n)]
<1>1. N \in Nat /\ f[0] = <<>> /\ f[N] = rs
  OBVIOUS
<1>2. ASSUME NEW n \in 1..N
      PROVE  f[n] = Append(f[n - 1], rs[n])
  <2>1. n - 1 \in 0..N /\ n \in 0..N /\ n - 1 + 1 = n
    BY <1>1
  <2>2. SubSeq(rs, 1, n) = Append(SubSeq(rs, 1, n - 1), rs[n])
    BY <1>1, <2>1
  <2>3. QED
    BY <2>1, <2>2
<1> HIDE DEF f
<1>3. Keeps(f, rs)
  BY <1>1, <1>2 DEF Keeps
<1>4. QED
  BY <1>1, <1>3, WellFormedIs

-----------------------------------------------------------------------------
(* The two walks.                                                          *)

LEMMA RowsUpTo ==
    ASSUME NEW f \in Nat \ {0}, NEW b \in Nat, f <= b + 1
    PROVE  /\ Rows(f, b) \in Seq(Nat) /\ Len(Rows(f, b)) = b + 1 - f
           /\ \A i \in 1..(b + 1 - f) : Rows(f, b)[i] = f + i - 1
BY DEF Rows

LEMMA RowsNone ==
    ASSUME NEW f \in Nat \ {0}, NEW b \in Nat, b < f
    PROVE  Rows(f, b) = <<>>
BY DEF Rows

LEMMA RowsJoin ==
    ASSUME NEW f \in Nat \ {0}, NEW b \in Nat, NEW c \in Nat, f <= b + 1, b <= c
    PROVE  Rows(f, c) = Rows(f, b) \o Rows(b + 1, c)
<1> DEFINE x == Rows(f, b)
           y == Rows(b + 1, c)
           z == Rows(f, c)
<1>1. /\ x \in Seq(Nat) /\ Len(x) = b + 1 - f /\ \A i \in 1..(b + 1 - f) : x[i] = f + i - 1
  BY RowsUpTo
<1>2. y \in Seq(Nat) /\ Len(y) = c - b /\ \A i \in 1..(c - b) : y[i] = b + i
  <2>1. b + 1 \in Nat \ {0} /\ b + 1 <= c + 1 /\ c + 1 - (b + 1) = c - b
    OBVIOUS
  <2>2. y \in Seq(Nat) /\ Len(y) = c + 1 - (b + 1) /\ \A i \in 1..(c + 1 - (b + 1)) : y[i] = (b + 1) + i - 1
    BY <2>1, RowsUpTo
  <2> HIDE DEF y
  <2>3. QED
    BY <2>1, <2>2
<1>3. z \in Seq(Nat) /\ Len(z) = c + 1 - f /\ \A i \in 1..(c + 1 - f) : z[i] = f + i - 1
  <2>1. f <= c + 1
    OBVIOUS
  <2>2. QED
    BY <2>1, RowsUpTo
<1> HIDE DEF x, y, z
<1> DEFINE w == x \o y
<1>4. w \in Seq(Nat) /\ Len(w) = Len(x) + Len(y)
       /\ \A i \in 1..(Len(x) + Len(y)) : w[i] = IF i <= Len(x) THEN x[i] ELSE y[i - Len(x)]
  BY <1>1, <1>2, ConcatProperties
<1> HIDE DEF w
<1>5. Len(w) = Len(z) /\ Len(z) \in Nat
  BY <1>1, <1>2, <1>3, <1>4
<1>6. ASSUME NEW i \in 1..Len(z)
      PROVE  w[i] = z[i]
  <2>1. z[i] = f + i - 1 /\ w[i] = IF i <= Len(x) THEN x[i] ELSE y[i - Len(x)]
    BY <1>1, <1>2, <1>3, <1>4
  <2>2. CASE i <= Len(x)
    BY <1>1, <2>1, <2>2
  <2>3. CASE i > Len(x)
    <3>1. i - Len(x) \in 1..(c - b) /\ b + (i - Len(x)) = f + i - 1
      BY <1>1, <1>3, <2>3
    <3>2. y[i - Len(x)] = b + (i - Len(x))
      BY <1>2, <3>1
    <3>3. ~(i <= Len(x))
      BY <1>1, <2>3
    <3>4. QED
      BY <2>1, <3>1, <3>2, <3>3
  <2>4. QED
    BY <1>1, <1>5, <2>2, <2>3
<1>7. w = z
  BY <1>3, <1>4, <1>5, <1>6
<1>8. QED
  BY <1>7 DEF w, x, y, z

\* The same for what is listed from the first row on, or after the a-th.
LEMMA RowsBetween ==
    ASSUME NEW a \in Nat, NEW b \in Nat, a <= b
    PROVE  /\ Rows(1, a) \in Seq(Nat) /\ Len(Rows(1, a)) = a
           /\ Rows(a + 1, b) \in Seq(Nat) /\ Len(Rows(a + 1, b)) = b - a
           /\ Rows(1, b) = Rows(1, a) \o Rows(a + 1, b)
<1>1. 1 \in Nat \ {0} /\ 1 <= a + 1 /\ a + 1 - 1 = a
  OBVIOUS
<1>2. a + 1 \in Nat \ {0} /\ a + 1 <= b + 1 /\ b + 1 - (a + 1) = b - a
  OBVIOUS
<1>3. Rows(1, a) \in Seq(Nat) /\ Len(Rows(1, a)) = a + 1 - 1
  BY <1>1, RowsUpTo
<1>4. Rows(a + 1, b) \in Seq(Nat) /\ Len(Rows(a + 1, b)) = b + 1 - (a + 1)
  BY <1>2, RowsUpTo
<1>5. Rows(1, b) = Rows(1, a) \o Rows(a + 1, b)
  BY <1>1, RowsJoin
<1>6. QED
  BY <1>1, <1>2, <1>3, <1>4, <1>5

LEMMA SubSeqOfJoin ==
    ASSUME NEW a \in Seq(Nat), NEW b \in Seq(Nat), NEW n \in 0..Len(a)
    PROVE  SubSeq(a \o b, 1, n) = SubSeq(a, 1, n) /\ Len(SubSeq(a, 1, n)) = n /\ Len(a) <= Len(a \o b)
OBVIOUS

\* The rows of the listing up to the n-th that are objects.
Good(n) == WellFormed(Rows(1, n))

LEMMA GoodType ==
    ASSUME NEW n \in Nat
    PROVE  Good(n) \in Seq(Nat) /\ Len(Good(n)) \in Nat
<1>1. Rows(1, n) \in Seq(Nat)
  BY RowsBetween
<1>2. QED
  BY <1>1, WellFormedType DEF Good

LEMMA GoodJoins ==
    ASSUME NEW a \in Nat, NEW b \in Nat, a <= b
    PROVE  /\ Rows(a + 1, b) \in Seq(Nat) /\ WellFormed(Rows(a + 1, b)) \in Seq(Nat)
           /\ Good(b) = Good(a) \o WellFormed(Rows(a + 1, b))
<1>1. /\ Rows(1, a) \in Seq(Nat) /\ Rows(a + 1, b) \in Seq(Nat)
      /\ Rows(1, b) = Rows(1, a) \o Rows(a + 1, b)
  BY RowsBetween
<1>2. QED
  BY <1>1, WellFormedJoins, WellFormedType DEF Good

\* What a finished walk has: a prefix, and all of it unless the limit was reached.
Complete(g) ==
    /\ Len(g) <= Len(Good(listed)) /\ g = SubSeq(Good(listed), 1, Len(g))
    /\ Len(g) = Len(Good(listed)) \/ Len(g) >= limit

Passed == Least((position - 1) * PageSize, listed)    \* rows of the pages the platform has given

PagingInv ==
    /\ client \in {"platform", "gateway"}
    /\ listed \in Nat /\ limit \in Nat /\ position \in Nat /\ told \in BOOLEAN /\ over \in BOOLEAN
    /\ client = "platform" => position >= 1
    /\ client = "gateway" => malformed = {} /\ position <= listed
    /\ client = "platform" /\ ~over => got = Good(Passed)
    /\ client = "gateway" /\ ~over => got = Rows(1, position)
    /\ over => Complete(got)

\* The first rows, cut at the limit.
LEMMA CutIsComplete ==
    ASSUME NEW n \in Nat, listed \in Nat, limit \in Nat, n <= listed,
           n = listed \/ Len(Good(n)) >= limit
    PROVE  Complete(SubSeq(Good(n), 1, Least(limit, Len(Good(n)))))
<1> DEFINE a == Good(n)
           b == WellFormed(Rows(n + 1, listed))
           m == Least(limit, Len(a))
<1>1. a \in Seq(Nat) /\ b \in Seq(Nat) /\ Good(listed) = a \o b
  BY GoodType, GoodJoins
<1> HIDE DEF a, b
<1>2. Len(a) \in Nat /\ m \in 0..Len(a) /\ (m = limit \/ m = Len(a)) /\ (Len(a) >= limit => m = limit)
  BY <1>1 DEF Least
<1> HIDE DEF m
<1>3. SubSeq(a \o b, 1, m) = SubSeq(a, 1, m) /\ Len(SubSeq(a, 1, m)) = m /\ Len(a) <= Len(a \o b)
  BY <1>1, <1>2, SubSeqOfJoin
<1>4. Len(a \o b) \in Nat
  BY <1>1
<1>5. n = listed => a = a \o b
  BY <1>1 DEF a
<1>6. m <= Len(Good(listed)) /\ (m = Len(Good(listed)) \/ m >= limit)
  <2>1. CASE n = listed
    BY <1>1, <1>2, <1>3, <1>5, <2>1
  <2>2. CASE Len(a) >= limit
    BY <1>1, <1>2, <1>3, <1>4, <2>2
  <2>3. QED
    BY <2>1, <2>2 DEF a
<1>7. Complete(SubSeq(a, 1, m))
  BY <1>1, <1>3, <1>6 DEF Complete
<1>8. QED
  BY <1>7 DEF a, m

LEMMA PlatformStep ==
    ASSUME PagingInv, PlatformPage
    PROVE  PagingInv'
<1> DEFINE q == (position - 1) * PageSize
           r == position * PageSize
           n == Least(r, listed)
           page == Rows(q + 1, n)
           all == got \o WellFormed(page)
<1>1. /\ client = "platform" /\ ~over /\ position \in Nat /\ position >= 1 /\ listed \in Nat /\ limit \in Nat
      /\ told \in BOOLEAN /\ got = Good(Least(q, listed)) /\ Len(got) < limit
      /\ UNCHANGED <<client, listed, malformed, told, limit>>
  BY DEF PagingInv, PlatformPage, Passed
<1>2. q \in Nat /\ r \in Nat /\ r = q + PageSize /\ PageSize \in Nat \ {0}
  <2>1. PageSize \in Nat \ {0}
    BY PagingAssumption
  <2>2. position * PageSize = (position - 1) * PageSize + PageSize
    BY <1>1, <2>1
  <2>3. (position - 1) * PageSize \in Nat /\ position * PageSize \in Nat
    <3>1. position - 1 \in Nat
      BY <1>1
    <3>2. \A x, y \in Nat : x * y \in Nat
      OBVIOUS
    <3>3. QED
      BY <1>1, <2>1, <3>1, <3>2
  <2>4. QED
    BY <2>1, <2>2, <2>3
<1>3. /\ got' = SubSeq(all, 1, Least(limit, Len(all)))
      /\ over' = (~(told \/ r < listed) \/ page = <<>> \/ Len(all) >= limit)
      /\ position' = IF over' THEN position ELSE position + 1
  BY DEF PlatformPage, Asked
<1> HIDE DEF q, r
<1>4. n \in Nat /\ n <= listed /\ (r >= listed => n = listed) /\ Least(q, listed) \in Nat
  BY <1>1, <1>2 DEF Least
<1>5. all = Good(n) /\ (page = <<>> => n = listed)
  <2>1. CASE q < listed
    <3>1. Least(q, listed) = q /\ q <= n /\ q < n
      BY <1>1, <1>2, <1>4, <2>1 DEF Least
    <3>2. Good(n) = Good(q) \o WellFormed(Rows(q + 1, n))
      BY <1>2, <1>4, <3>1, GoodJoins
    <3>3. Len(page) = n - q
      BY <1>2, <1>4, <3>1, RowsBetween
    <3>4. page # <<>>
      BY <1>2, <1>4, <3>1, <3>3
    <3>5. QED
      BY <1>1, <3>1, <3>2, <3>4
  <2>2. CASE q >= listed
    <3>1. Least(q, listed) = listed /\ n = listed
      BY <1>1, <1>2, <2>2 DEF Least
    <3>2. page = <<>>
      BY <1>1, <1>2, <2>2, <3>1, RowsNone
    <3>3. WellFormed(<<>>) = <<>>
      <4>1. Rows(listed + 1, listed) = <<>>
        <5>1. listed + 1 \in Nat \ {0} /\ listed < listed + 1
          BY <1>1
        <5>2. QED
          BY <1>1, <5>1, RowsNone
      <4>2. Good(listed) = Good(listed) \o WellFormed(<<>>) /\ Good(listed) \in Seq(Nat) /\ WellFormed(<<>>) \in Seq(Nat)
        <5>1. listed <= listed
          BY <1>1
        <5>2. /\ WellFormed(Rows(listed + 1, listed)) \in Seq(Nat)
              /\ Good(listed) = Good(listed) \o WellFormed(Rows(listed + 1, listed))
          BY <1>1, <5>1, GoodJoins
        <5>3. Good(listed) \in Seq(Nat)
          BY <1>1, GoodType
        <5>4. QED
          BY <4>1, <5>2, <5>3
      <4>3. \A s, t \in Seq(Nat) : s = s \o t => t = <<>>
        OBVIOUS
      <4>4. QED
        BY <4>2, <4>3
    <3>4. Good(listed) \o <<>> = Good(listed)
      <4>1. Good(listed) \in Seq(Nat)
        BY <1>1, GoodType
      <4>2. QED
        BY <4>1
    <3>5. QED
      BY <1>1, <3>1, <3>2, <3>3, <3>4
  <2>3. QED
    BY <1>1, <1>2, <2>1, <2>2
<1>6. Good(n) \in Seq(Nat) /\ Len(Good(n)) \in Nat
  BY <1>4, GoodType
<1> HIDE DEF n, page, all
<1>7. \A k : Good(k)' = Good(k')
  BY <1>1 DEF Good, WellFormed
<1>8. CASE over'
  <2>1. n = listed \/ Len(Good(n)) >= limit
    <3>1. ~(told \/ r < listed) \/ page = <<>> \/ Len(Good(n)) >= limit
      BY <1>3, <1>5, <1>8
    <3>2. ~(r < listed) => r >= listed
      BY <1>1, <1>2
    <3>3. QED
      BY <1>4, <1>5, <3>1, <3>2
  <2>2. Complete(SubSeq(Good(n), 1, Least(limit, Len(Good(n)))))
    BY <1>1, <1>4, <2>1, CutIsComplete
  <2>3. Complete(got')
    BY <1>3, <1>5, <2>2
  <2>4. Complete(got)'
    BY <1>1, <2>3 DEF Complete, Good, WellFormed
  <2>5. QED
    BY <1>1, <1>3, <1>8, <2>4 DEF PagingInv
<1>9. CASE ~over'
  <2>1. Len(Good(n)) < limit /\ position' = position + 1 /\ over' = FALSE
    <3>1. ~(Len(Good(n)) >= limit)
      BY <1>3, <1>5, <1>9
    <3>2. Len(Good(n)) < limit
      BY <1>1, <1>6, <3>1
    <3>3. position' = position + 1
      BY <1>3, <1>9
    <3>4. over' \in BOOLEAN
      BY <1>3
    <3>5. QED
      BY <1>9, <3>2, <3>3, <3>4
  <2>2. got' = Good(n)
    <3>1. Least(limit, Len(Good(n))) = Len(Good(n))
      BY <1>1, <1>6, <2>1 DEF Least
    <3>2. SubSeq(Good(n), 1, Len(Good(n))) = Good(n)
      BY <1>6
    <3>3. QED
      BY <1>3, <1>5, <3>1, <3>2
  <2>3. Passed' = n
    <3>1. (position + 1) - 1 = position
      BY <1>1
    <3>2. QED
      BY <1>1, <2>1, <3>1 DEF Passed, n, r
  <2>4. Good(Passed)' = Good(n)
    BY <1>1, <2>3 DEF Good, WellFormed
  <2>5. position' \in Nat /\ position' >= 1
    BY <1>1, <2>1
  <2>6. client' = "platform" /\ listed' \in Nat /\ limit' \in Nat /\ told' \in BOOLEAN
    BY <1>1
  <2>7. got' = Good(Passed)'
    BY <2>2, <2>4
  <2>8. QED
    BY <2>1, <2>5, <2>6, <2>7 DEF PagingInv
<1>10. QED
  BY <1>8, <1>9

LEMMA GatewayStep ==
    ASSUME PagingInv, NEW size \in 0..PageSize, GatewayPage(size)
    PROVE  PagingInv'
<1> DEFINE p == position + size
<1>1. /\ client = "gateway" /\ ~over /\ position \in Nat /\ position <= listed /\ listed \in Nat /\ limit \in Nat
      /\ told \in BOOLEAN /\ malformed = {} /\ got = Rows(1, position) /\ PageSize \in Nat \ {0}
      /\ UNCHANGED <<client, listed, malformed, told, limit>>
      /\ got' = got \o Rows(position + 1, position + size) /\ position' = p
      /\ over' = (\/ size = 0
                  \/ told /\ Len(got') >= Least(listed, limit)
                  \/ ~told /\ size < PageSize
                  \/ Len(got') >= limit)
  BY PagingAssumption DEF PagingInv, GatewayPage
<1>2. /\ size \in Nat /\ p \in Nat /\ p <= listed
      /\ (size = 0 => p = listed) /\ (~told /\ size < PageSize => p = listed)
  <2>1. size \in IF listed - position = 0 THEN {0}
                 ELSE IF told THEN 1..Least(PageSize, listed - position)
                 ELSE {Least(PageSize, listed - position)}
    BY DEF GatewayPage
  <2>2. QED
    BY <1>1, <2>1 DEF Least
<1>3. got' = Rows(1, p)
  <2>1. Rows(1, p) = Rows(1, position) \o Rows(position + 1, p)
    <3>1. position <= p
      BY <1>1, <1>2
    <3>2. QED
      BY <1>1, <1>2, <3>1, RowsBetween
  <2>2. QED
    BY <1>1, <2>1
<1>4. Len(got') = p /\ got' \in Seq(Nat)
  BY <1>2, <1>3, RowsBetween
<1>5. ASSUME over'
      PROVE  Complete(got)'
  <2>1. Good(listed) = Rows(1, listed) /\ Rows(1, listed) \in Seq(Nat) /\ Len(Rows(1, listed)) = listed
    <3>1. Rows(1, listed) \in Seq(Nat) /\ Len(Rows(1, listed)) = listed
      <4>1. listed <= listed
        BY <1>1
      <4>2. QED
        BY <1>1, <4>1, RowsBetween
    <3>2. QED
      BY <1>1, <3>1, AllWellFormed DEF Good
  <2>2. Rows(1, listed) = Rows(1, p) \o Rows(p + 1, listed) /\ Rows(p + 1, listed) \in Seq(Nat)
    BY <1>1, <1>2, RowsBetween
  <2>3. SubSeq(Rows(1, listed), 1, p) = Rows(1, p)
    <3>1. Rows(1, p) \in Seq(Nat) /\ Len(Rows(1, p)) = p
      BY <1>3, <1>4
    <3>2. SubSeq(Rows(1, p), 1, p) = Rows(1, p)
      BY <3>1
    <3>3. p \in 0..Len(Rows(1, p))
      BY <1>2, <3>1
    <3>4. QED
      BY <2>2, <3>1, <3>2, <3>3, SubSeqOfJoin
  <2>4. p = listed \/ p >= limit
    <3>1. CASE size = 0
      BY <1>2, <3>1
    <3>2. CASE told /\ Len(got') >= Least(listed, limit)
      BY <1>1, <1>2, <1>4, <3>2 DEF Least
    <3>3. CASE ~told /\ size < PageSize
      BY <1>2, <3>3
    <3>4. CASE Len(got') >= limit
      BY <1>4, <3>4
    <3>5. QED
      BY <1>1, <1>5, <3>1, <3>2, <3>3, <3>4
  <2>5. Complete(got')
    BY <1>2, <1>3, <1>4, <2>1, <2>3, <2>4 DEF Complete
  <2>6. QED
    BY <1>1, <2>5 DEF Complete, Good, WellFormed
<1> HIDE DEF p
<1>6. over' \in BOOLEAN
  BY <1>1
<1>7. QED
  BY <1>1, <1>2, <1>3, <1>5, <1>6 DEF PagingInv

LEMMA PagingInitial == PagingInit => PagingInv
<1> SUFFICES ASSUME PagingInit PROVE PagingInv
  OBVIOUS
<1>1. /\ client \in {"platform", "gateway"} /\ listed \in Nat /\ limit \in Nat /\ told \in BOOLEAN /\ over = FALSE
      /\ (client = "gateway" => malformed = {} /\ position = 0)
      /\ (client = "platform" => position = 1) /\ got = <<>>
  BY PagingAssumption DEF PagingInit
<1>2. Rows(1, 0) = <<>>
  BY RowsNone
<1>3. Good(0) = <<>>
  <2>1. Good(0) \in Seq(Nat) /\ Good(0) = Good(0) \o Good(0)
    <3>1. Good(0) \in Seq(Nat)
      BY GoodType
    <3>2. Good(0) = Good(0) \o WellFormed(Rows(0 + 1, 0))
      BY GoodJoins
    <3>3. QED
      BY <3>1, <3>2 DEF Good
  <2>2. \A s \in Seq(Nat) : s = s \o s => s = <<>>
    OBVIOUS
  <2>3. QED
    BY <2>1, <2>2
<1>4. client = "platform" => Passed = 0
  BY <1>1, PagingAssumption DEF Passed, Least
<1>5. position \in Nat /\ (client = "platform" => position >= 1) /\ (client = "gateway" => position <= listed)
  BY <1>1
<1>6. client = "platform" => got = Good(Passed)
  BY <1>1, <1>3, <1>4
<1>7. client = "gateway" => got = Rows(1, position)
  BY <1>1, <1>2
<1>8. QED
  BY <1>1, <1>5, <1>6, <1>7 DEF PagingInv

(* A walk that is over has every row of the listing once and in order, or  *)
(* has reached its limit, whatever the page size, the gaps of malformed    *)
(* rows, the short pages and the drift of the next field                   *)
(* (mem0_bridge/stores/platform.py, tencentdb_bridge/client.py).           *)
THEOREM WalksReturnEachRowOnce == PagingSpec => []EveryRowOnce
<1>1. PagingInv /\ [PagingNext]_pagingVars => PagingInv'
  <2> SUFFICES ASSUME PagingInv, [PagingNext]_pagingVars PROVE PagingInv'
    OBVIOUS
  <2>1. CASE PagingNext
    BY <2>1, PlatformStep, GatewayStep DEF PagingNext
  <2>2. CASE UNCHANGED pagingVars
    <3>1. UNCHANGED <<client, listed, malformed, told, limit, position, got, over>>
      BY <2>2 DEF pagingVars
    <3>2. Good(Passed)' = Good(Passed) /\ (Complete(got))' = Complete(got)
      BY <3>1 DEF Passed, Complete, Good, WellFormed
    <3>3. QED
      BY <3>1, <3>2 DEF PagingInv
  <2>3. QED
    BY <2>1, <2>2
<1>2. PagingInv => EveryRowOnce
  BY DEF PagingInv, EveryRowOnce, Complete, Good
<1>3. QED
  BY <1>1, <1>2, PagingInitial, PTL DEF PagingSpec
=============================================================================

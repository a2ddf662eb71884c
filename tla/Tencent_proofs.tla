--------------------------- MODULE Tencent_proofs ---------------------------
(***************************************************************************)
(* Proofs about Tencent.  BufferInv follows the buffered messages into the *)
(* gateway, EndpointInv the endpoint's session through its drain.          *)
(* EpisodeInv is what makes a drained episode whole: what the gateway may  *)
(* still have of a session (SessionInv), what each stage of an extraction  *)
(* has established (StageInv), when rows land and windows open and close   *)
(* (RowInv, WindowInv), that the sidecar tells the truth of the rows       *)
(* (SidecarInv), and what the pages of a query have shown so far           *)
(* (CountInv).                                                             *)
(***************************************************************************)
EXTENDS Tencent, Induction, FiniteSetTheorems, TLAPS

-----------------------------------------------------------------------------
(* The steps of the endpoint: those that change nothing but the request,   *)
(* and the chunks that may persist.                                        *)

EndpointOnly ==
    \/ \E n \in 1..(CycleRows + 1) : EndpointAdds(n)
    \/ EndpointDrain \/ EndpointWait \/ EndpointTail \/ EndpointAnswers \/ EndpointFails

EndpointWrites == \E q, r \in BOOLEAN : EndpointSends(q, r) \/ EndpointSendFails(q, r)

LEMMA EndpointOnlyIs ==
    EndpointOnly => UNCHANGED <<armVars, gateway, episode, delivery, query, clock, outcome>>
BY DEF EndpointOnly, EndpointAdds, EndpointDrain, EndpointWait, EndpointTail, EndpointAnswers, EndpointFails

LEMMA EndpointWritesIs ==
    ASSUME EndpointWrites
    PROVE  /\ UNCHANGED <<armVars, rows, episode, delivery, query, clock, outcome>>
           /\ UNCHANGED gateway \/ \E q, r \in BOOLEAN : EndpointPersists(q, r)
BY DEF EndpointWrites, EndpointSends, EndpointSendFails, EndpointPersists, gateway

-----------------------------------------------------------------------------
(* The buffered messages.                                                  *)

LEMMA MessageIs ==
    /\ Message \subseteq Nat
    /\ \A n \in Nat : n \in Message <=> 1 <= n /\ n <= MaxMessages
BY MessagesAssumption DEF Message

LEMMA SliceIs ==
    ASSUME NEW S, NEW seq \in Seq(S), NEW a \in 0..Len(seq), NEW b \in a..Len(seq)
    PROVE  /\ SubSeq(seq, a + 1, b) \in Seq(S) /\ Len(SubSeq(seq, a + 1, b)) = b - a
           /\ \A i \in 1..(b - a) : SubSeq(seq, a + 1, b)[i] = seq[a + i]
OBVIOUS

LEMMA RangeOfSlice ==
    ASSUME NEW S, NEW seq \in Seq(S), NEW a \in 0..Len(seq), NEW b \in a..Len(seq)
    PROVE  Range(SubSeq(seq, a + 1, b)) = {seq[k] : k \in (a + 1)..b}
<1> DEFINE slice == SubSeq(seq, a + 1, b)
<1>1. DOMAIN slice = 1..(b - a) /\ \A i \in 1..(b - a) : slice[i] = seq[a + i]
  BY SliceIs
<1> HIDE DEF slice
<1>2. ASSUME NEW k \in (a + 1)..b
      PROVE  \E i \in 1..(b - a) : slice[i] = seq[k]
  <2>1. k - a \in 1..(b - a) /\ a + (k - a) = k
    OBVIOUS
  <2>2. slice[k - a] = seq[a + (k - a)]
    BY <1>1, <2>1
  <2>3. QED
    BY <2>1, <2>2
<1>3. ASSUME NEW i \in 1..(b - a)
      PROVE  \E k \in (a + 1)..b : slice[i] = seq[k]
  <2>1. a + i \in (a + 1)..b
    OBVIOUS
  <2>2. QED
    BY <1>1, <2>1
<1>4. \A e : e \in Range(slice) <=> \E i \in 1..(b - a) : slice[i] = e
  BY <1>1, Zenon DEF Range
<1>5. \A e : e \in {seq[k] : k \in (a + 1)..b} <=> \E k \in (a + 1)..b : seq[k] = e
  BY Zenon
<1>6. \A e : e \in Range(slice) <=> e \in {seq[k] : k \in (a + 1)..b}
  BY <1>2, <1>3, <1>4, <1>5, Zenon
<1>7. QED
  BY <1>6, Zenon DEF slice

LEMMA AlsoIs ==
    ASSUME NEW bag \in [Message -> Nat], NEW batch
    PROVE  /\ Also(bag, batch) \in [Message -> Nat]
           /\ \A m \in Message : Also(bag, batch)[m] = IF m \in Range(batch) THEN bag[m] + 1 ELSE bag[m]
BY DEF Also

\* sent is confirmed, up to hi goes with the next chunk.
LEMMA ChunkIs ==
    ASSUME pending \in Seq(Message), sent \in 0..Len(pending)
    PROVE  \E hi \in sent..Len(pending) :
             Len(Chunk) = hi - sent /\ Range(Chunk) = {pending[k] : k \in (sent + 1)..hi}
<1> DEFINE hi == IF sent + ChunkMessages < Len(pending) THEN sent + ChunkMessages ELSE Len(pending)
<1>1. hi \in sent..Len(pending)
  BY TencentAssumption
<1>2. Chunk = SubSeq(pending, sent + 1, hi)
  BY DEF Chunk
<1> HIDE DEF hi
<1>3. Len(Chunk) = hi - sent
  BY <1>1, <1>2, SliceIs
<1>4. Range(Chunk) = {pending[k] : k \in (sent + 1)..hi}
  BY <1>1, <1>2, RangeOfSlice
<1>5. QED
  BY <1>1, <1>3, <1>4

\* The buffer holds no message twice.  The engine has the confirmed prefix, and
\* of the rest only what calls that raised carried.
BufferType ==
    /\ recorded \in 0..MaxMessages
    /\ pending \in Seq(Message)
    /\ fed \in [Message -> Nat] /\ doubt \in [Message -> Nat]
    /\ sent \in 0..Len(pending)

Distinct    == \A i, j \in 1..Len(pending) : i # j => pending[i] # pending[j]
Past        == \A i \in 1..Len(pending) : pending[i] <= recorded
PrefixFed   == \A i \in 1..sent : fed[pending[i]] > 0
RestDoubted == \A i \in (sent + 1)..Len(pending) : fed[pending[i]] <= doubt[pending[i]]
FutureUnfed == \A m \in Message : m > recorded => fed[m] = 0
NoneDropped == \A m \in 1..recorded : (\E i \in 1..Len(pending) : pending[i] = m) \/ fed[m] > 0

BufferInv ==
    /\ BufferType
    /\ pc \notin {"send", "down"} => sent = 0
    /\ Distinct /\ Past /\ PrefixFed /\ RestDoubted /\ FutureUnfed /\ NoneDropped
    /\ FedOncePerDoubt

LEMMA BufferFacts ==
    ASSUME BufferType
    PROVE  /\ recorded \in Nat /\ MaxMessages \in Nat /\ recorded <= MaxMessages
           /\ Len(pending) \in Nat /\ sent \in Nat /\ sent <= Len(pending)
           /\ \A i \in 1..Len(pending) : pending[i] \in Message /\ pending[i] \in Nat
           /\ \A m \in Message : m \in Nat /\ fed[m] \in Nat /\ doubt[m] \in Nat
           /\ \A m \in 1..recorded : m \in Message
<1>1. /\ recorded \in Nat /\ MaxMessages \in Nat /\ recorded <= MaxMessages
      /\ Len(pending) \in Nat /\ sent \in Nat /\ sent <= Len(pending)
  BY MessagesAssumption DEF BufferType
<1>2. \A i \in 1..Len(pending) : pending[i] \in Message
  BY DEF BufferType
<1>3. \A m \in Message : m \in Nat
  BY MessageIs
<1>4. \A m \in Message : fed[m] \in Nat /\ doubt[m] \in Nat
  BY DEF BufferType
<1>5. \A m \in 1..recorded : m \in Message
  BY <1>1, MessageIs
<1>6. QED
  BY <1>1, <1>2, <1>3, <1>4, <1>5

\* Feeding what lies between sent and hi feeds that and nothing else.
LEMMA ChunkFeeds ==
    ASSUME BufferType, Distinct, NEW hi \in sent..Len(pending),
           Range(Chunk) = {pending[k] : k \in (sent + 1)..hi},
           NEW bag \in [Message -> Nat]
    PROVE  /\ Also(bag, Chunk) \in [Message -> Nat]
           /\ \A m \in Message : Also(bag, Chunk)[m] \in {bag[m], bag[m] + 1}
           /\ \A k \in 1..Len(pending) :
                Also(bag, Chunk)[pending[k]] = IF k \in (sent + 1)..hi THEN bag[pending[k]] + 1 ELSE bag[pending[k]]
           /\ \A m \in Message : (\A k \in (sent + 1)..hi : pending[k] # m) => Also(bag, Chunk)[m] = bag[m]
<1> DEFINE more == Also(bag, Chunk)
<1>1. more \in [Message -> Nat] /\ \A m \in Message : more[m] = IF m \in Range(Chunk) THEN bag[m] + 1 ELSE bag[m]
  BY AlsoIs
<1> HIDE DEF more
<1>2. \A m : m \in Range(Chunk) <=> \E k \in (sent + 1)..hi : pending[k] = m
  OBVIOUS
<1>3. \A k \in 1..Len(pending) : pending[k] \in Message
  BY BufferFacts
<1>4. \A k \in (sent + 1)..hi : k \in 1..Len(pending)
  BY BufferFacts
<1>5. \A k \in 1..Len(pending) : pending[k] \in Range(Chunk) <=> k \in (sent + 1)..hi
  BY <1>2, <1>4 DEF Distinct
<1>6. \A k \in 1..Len(pending) : more[pending[k]] = IF k \in (sent + 1)..hi THEN bag[pending[k]] + 1 ELSE bag[pending[k]]
  BY <1>1, <1>3, <1>5
<1>7. \A m \in Message : (\A k \in (sent + 1)..hi : pending[k] # m) => more[m] = bag[m]
  BY <1>1, <1>2
<1>8. QED
  BY <1>1, <1>6, <1>7 DEF more

LEMMA RecordKeepsBuffer ==
    ASSUME BufferInv, pc = "idle", recorded < MaxMessages, recorded' = recorded + 1,
           pending' = Append(pending, recorded'), UNCHANGED <<pc, fed, doubt, sent>>
    PROVE  BufferInv'
<1> DEFINE n == Len(pending)
<1>1. BufferType /\ sent = 0 /\ Distinct /\ Past
  BY DEF BufferInv
<1>2. /\ recorded \in Nat /\ MaxMessages \in Nat /\ n \in Nat /\ recorded + 1 \in Message
      /\ \A i \in 1..n : pending[i] \in Message /\ pending[i] \in Nat
  BY <1>1, BufferFacts, MessageIs
<1>3. pending' \in Seq(Message) /\ Len(pending') = n + 1
  BY <1>1, <1>2 DEF BufferType
<1>4. (\A i \in 1..n : pending'[i] = pending[i]) /\ pending'[n + 1] = recorded + 1
  BY <1>1 DEF BufferType
<1>5. BufferType'
  BY <1>1, <1>2, <1>3 DEF BufferType
<1> HIDE DEF n
<1>6. \A i \in 1..Len(pending') : i \in 1..n \/ i = n + 1
  BY <1>2, <1>3
<1>7. Distinct' /\ Past'
  <2>1. \A i \in 1..n : pending[i] <= recorded /\ pending[i] # recorded + 1
    BY <1>1, <1>2 DEF Past, n
  <2>2. Past'
    BY <1>2, <1>4, <1>6, <2>1 DEF Past
  <2>3. Distinct'
    BY <1>1, <1>4, <1>6, <2>1 DEF Distinct, n
  <2>4. QED
    BY <2>2, <2>3
<1>8. PrefixFed'
  BY <1>1 DEF PrefixFed
<1>9. RestDoubted'
  <2>1. \A i \in 1..n : fed[pending[i]] <= doubt[pending[i]]
    BY <1>1 DEF BufferInv, RestDoubted, n
  <2>2. fed[recorded + 1] <= doubt[recorded + 1]
    <3>1. fed[recorded + 1] = 0
      BY <1>2 DEF BufferInv, FutureUnfed
    <3>2. doubt[recorded + 1] \in Nat
      BY <1>1, <1>2, BufferFacts
    <3>3. QED
      BY <3>1, <3>2
  <2>3. QED
    BY <1>1, <1>4, <1>6, <2>1, <2>2 DEF RestDoubted
<1>10. FutureUnfed'
  <2>1. \A m \in Message : m \in Nat /\ (m > recorded => fed[m] = 0)
    BY MessageIs DEF BufferInv, FutureUnfed
  <2>2. QED
    BY <1>2, <2>1 DEF FutureUnfed
<1>11. NoneDropped'
  <2>1. \A m \in 1..recorded : (\E i \in 1..n : pending'[i] = m) \/ fed[m] > 0
    BY <1>4 DEF BufferInv, NoneDropped, n
  <2>2. 1..n \subseteq 1..Len(pending') /\ n + 1 \in 1..Len(pending')
    BY <1>2, <1>3
  <2>3. \A m \in 1..(recorded + 1) : m \in 1..recorded \/ m = recorded + 1
    BY <1>2
  <2>4. QED
    BY <1>4, <2>1, <2>2, <2>3 DEF NoneDropped
<1>12. FedOncePerDoubt'
  BY DEF BufferInv, FedOncePerDoubt
<1>13. QED
  BY <1>1, <1>5, <1>7, <1>8, <1>9, <1>10, <1>11, <1>12 DEF BufferInv

LEMMA SendKeepsBuffer ==
    ASSUME BufferInv, NEW q \in BOOLEAN, NEW r \in BOOLEAN, SendChunk(q, r)
    PROVE  BufferInv'
<1> DEFINE n == Len(pending)
<1>1. BufferType /\ Distinct /\ Past /\ PrefixFed /\ RestDoubted /\ FutureUnfed /\ NoneDropped /\ FedOncePerDoubt
  BY DEF BufferInv
<1>2. /\ recorded \in Nat /\ n \in Nat /\ sent \in Nat /\ sent <= n
      /\ \A i \in 1..n : pending[i] \in Message /\ pending[i] \in Nat
      /\ \A m \in Message : m \in Nat /\ fed[m] \in Nat /\ doubt[m] \in Nat
      /\ \A m \in 1..recorded : m \in Message
  BY <1>1, BufferFacts
<1>3. PICK hi \in sent..n : Len(Chunk) = hi - sent /\ Range(Chunk) = {pending[k] : k \in (sent + 1)..hi}
  BY <1>1, ChunkIs DEF BufferType
<1>4. hi \in Nat /\ sent <= hi /\ hi <= n /\ sent + Len(Chunk) = hi
  BY <1>2, <1>3
<1>5. fed' = Also(fed, Chunk) /\ UNCHANGED <<recorded, doubt>> /\ pc = "send"
  BY DEF SendChunk, ChunkPersists
<1>6. /\ fed' \in [Message -> Nat]
      /\ \A m \in Message : fed'[m] \in {fed[m], fed[m] + 1}
      /\ \A k \in 1..n : fed'[pending[k]] = IF k \in (sent + 1)..hi THEN fed[pending[k]] + 1 ELSE fed[pending[k]]
      /\ \A m \in Message : (\A k \in (sent + 1)..hi : pending[k] # m) => fed'[m] = fed[m]
  <2>1. fed \in [Message -> Nat]
    BY <1>1 DEF BufferType
  <2>2. QED
    BY <1>1, <1>3, <1>5, <2>1, ChunkFeeds
<1> HIDE DEF n
<1>7. \A i \in 1..hi : fed'[pending[i]] > 0
  <2>1. ASSUME NEW i \in 1..hi
        PROVE  fed'[pending[i]] > 0
    <3>1. i \in 1..n /\ (i \in 1..sent \/ i \in (sent + 1)..hi)
      BY <1>2, <1>4
    <3>2. fed[pending[i]] \in Nat
      BY <1>2, <3>1
    <3>3. CASE i \in 1..sent
      <4>1. fed[pending[i]] > 0 /\ i \notin (sent + 1)..hi
        BY <1>1, <1>2, <3>3 DEF PrefixFed
      <4>2. QED
        BY <1>6, <3>1, <4>1
    <3>4. CASE i \in (sent + 1)..hi
      BY <1>6, <3>1, <3>2, <3>4
    <3>5. QED
      BY <3>1, <3>3, <3>4
  <2>2. QED
    BY <2>1
<1>8. FedOncePerDoubt'
  <2>1. ASSUME NEW m \in Message
        PROVE  fed'[m] <= 1 + doubt[m]
    <3>1. fed[m] \in Nat /\ doubt[m] \in Nat /\ fed[m] <= 1 + doubt[m]
      BY <1>1, <1>2 DEF FedOncePerDoubt
    <3>2. ASSUME NEW k \in (sent + 1)..hi, pending[k] = m
          PROVE  fed'[m] <= 1 + doubt[m]
      <4>1. k \in 1..n /\ k \in (sent + 1)..n
        BY <1>2, <1>4
      <4>2. fed[m] <= doubt[m]
        BY <1>1, <3>2, <4>1 DEF RestDoubted, n
      <4>3. fed'[m] = fed[m] + 1
        BY <1>6, <3>2, <4>1
      <4>4. QED
        BY <3>1, <4>2, <4>3
    <3>3. QED
      BY <1>6, <3>1, <3>2
  <2>2. QED
    BY <1>5, <2>1 DEF FedOncePerDoubt
<1>9. FutureUnfed'
  <2>1. ASSUME NEW m \in Message, m > recorded
        PROVE  fed'[m] = 0
    <3>1. \A k \in (sent + 1)..hi : k \in 1..n
      BY <1>2, <1>4
    <3>2. \A k \in 1..n : pending[k] # m
      BY <1>1, <1>2, <2>1 DEF Past, n
    <3>3. fed[m] = 0
      BY <1>1, <2>1 DEF FutureUnfed
    <3>4. QED
      BY <1>6, <3>1, <3>2, <3>3
  <2>2. QED
    BY <1>5, <2>1 DEF FutureUnfed
<1>10. ASSUME NEW m \in 1..recorded
       PROVE  (\E i \in 1..n : pending[i] = m) \/ fed'[m] > 0
  <2>1. fed[m] \in Nat /\ fed'[m] \in {fed[m], fed[m] + 1}
    BY <1>2, <1>6
  <2>2. (\E i \in 1..n : pending[i] = m) \/ fed[m] > 0
    BY <1>1 DEF NoneDropped, n
  <2>3. QED
    BY <2>1, <2>2
<1>11. CASE hi < n
  <2>1. sent' = hi /\ pending' = pending /\ pc' = pc
    BY <1>4, <1>11 DEF SendChunk, n
  <2>2. BufferType'
    BY <1>1, <1>3, <1>5, <1>6, <2>1 DEF BufferType, n
  <2>3. Distinct' /\ Past' /\ PrefixFed' /\ NoneDropped'
    BY <1>1, <1>5, <1>7, <1>10, <2>1 DEF Distinct, Past, PrefixFed, NoneDropped, n
  <2>4. RestDoubted'
    <3>1. ASSUME NEW i \in (hi + 1)..n
          PROVE  fed'[pending[i]] <= doubt[pending[i]]
      <4>1. i \in 1..n /\ i \in (sent + 1)..n /\ i \notin (sent + 1)..hi
        BY <1>2, <1>4
      <4>2. fed[pending[i]] <= doubt[pending[i]]
        BY <1>1, <4>1 DEF RestDoubted, n
      <4>3. QED
        BY <1>6, <4>1, <4>2
    <3>2. QED
      BY <1>5, <2>1, <3>1 DEF RestDoubted, n
  <2>5. QED
    BY <1>5, <1>8, <1>9, <2>1, <2>2, <2>3, <2>4 DEF BufferInv
<1>12. CASE hi = n
  <2>1. sent' = 0 /\ pending' = <<>> /\ Len(<<>>) = 0
    BY <1>4, <1>12 DEF SendChunk, AfterAdd, n
  <2>2. BufferType'
    <3>1. /\ recorded' \in 0..MaxMessages /\ doubt' \in [Message -> Nat] /\ fed' \in [Message -> Nat]
      BY <1>1, <1>5, <1>6 DEF BufferType
    <3>2. pending' \in Seq(Message) /\ sent' \in 0..Len(pending')
      BY <2>1
    <3>3. QED
      BY <3>1, <3>2 DEF BufferType
  <2>3. Distinct' /\ Past' /\ PrefixFed' /\ RestDoubted'
    BY <2>1 DEF Distinct, Past, PrefixFed, RestDoubted
  <2>4. NoneDropped'
    <3>1. \A m \in 1..recorded : fed'[m] > 0
      BY <1>7, <1>10, <1>12
    <3>2. QED
      BY <1>5, <3>1 DEF NoneDropped
  <2>5. QED
    BY <1>8, <1>9, <2>1, <2>2, <2>3, <2>4 DEF BufferInv
<1>13. QED
  BY <1>2, <1>4, <1>11, <1>12

LEMMA FailureKeepsBuffer ==
    ASSUME BufferInv, NEW q \in BOOLEAN, NEW r \in BOOLEAN, SendFails(q, r)
    PROVE  BufferInv'
<1> DEFINE n == Len(pending)
<1>1. BufferType /\ Distinct /\ Past /\ PrefixFed /\ RestDoubted /\ FutureUnfed /\ NoneDropped /\ FedOncePerDoubt
  BY DEF BufferInv
<1>2. /\ recorded \in Nat /\ n \in Nat /\ sent \in Nat /\ sent <= n
      /\ \A i \in 1..n : pending[i] \in Message /\ pending[i] \in Nat
      /\ \A m \in Message : m \in Nat /\ fed[m] \in Nat /\ doubt[m] \in Nat
      /\ \A m \in 1..recorded : m \in Message
  BY <1>1, BufferFacts
<1>3. PICK hi \in sent..n : Range(Chunk) = {pending[k] : k \in (sent + 1)..hi}
  BY <1>1, ChunkIs DEF BufferType
<1>4. hi \in Nat /\ sent <= hi /\ hi <= n
  BY <1>2, <1>3
<1>5. /\ fed' = fed \/ fed' = Also(fed, Chunk)
      /\ doubt' = Also(doubt, Chunk) /\ UNCHANGED recorded
      /\ pending' = SubSeq(pending, sent + 1, n) /\ sent' = 0
  BY DEF SendFails, ChunkPersists
<1>6. fed \in [Message -> Nat] /\ doubt \in [Message -> Nat]
  BY <1>1 DEF BufferType
<1>7. /\ Also(fed, Chunk) \in [Message -> Nat]
      /\ \A m \in Message : Also(fed, Chunk)[m] \in {fed[m], fed[m] + 1}
      /\ \A k \in 1..n :
           Also(fed, Chunk)[pending[k]] = IF k \in (sent + 1)..hi THEN fed[pending[k]] + 1 ELSE fed[pending[k]]
      /\ \A m \in Message : (\A k \in (sent + 1)..hi : pending[k] # m) => Also(fed, Chunk)[m] = fed[m]
  BY <1>1, <1>3, <1>6, ChunkFeeds
<1>8. /\ doubt' \in [Message -> Nat]
      /\ \A m \in Message : doubt'[m] \in {doubt[m], doubt[m] + 1}
      /\ \A k \in 1..n : doubt'[pending[k]] = IF k \in (sent + 1)..hi THEN doubt[pending[k]] + 1 ELSE doubt[pending[k]]
  BY <1>1, <1>3, <1>5, <1>6, ChunkFeeds
<1>9. /\ pending' \in Seq(Message) /\ Len(pending') = n - sent
      /\ \A i \in 1..(n - sent) : pending'[i] = pending[sent + i]
  <2>1. pending \in Seq(Message) /\ sent \in 0..Len(pending) /\ Len(pending) \in sent..Len(pending)
    BY <1>1, <1>2 DEF BufferType
  <2>2. QED
    BY <1>5, <2>1, SliceIs
<1> HIDE DEF n
<1>10. /\ fed' \in [Message -> Nat]
       /\ \A m \in Message : fed'[m] \in {fed[m], fed[m] + 1}
       /\ \A k \in 1..n : fed'[pending[k]] = fed[pending[k]] \/
                          (k \in (sent + 1)..hi /\ fed'[pending[k]] = fed[pending[k]] + 1)
       /\ \A m \in Message : (\A k \in (sent + 1)..hi : pending[k] # m) => fed'[m] = fed[m]
  <2>1. CASE fed' = fed
    BY <1>6, <2>1
  <2>2. CASE fed' = Also(fed, Chunk)
    BY <1>7, <2>2
  <2>3. QED
    BY <1>5, <2>1, <2>2
<1>11. ASSUME NEW k \in (sent + 1)..n
       PROVE  k \in 1..n /\ pending[k] \in Message /\ fed'[pending[k]] <= doubt'[pending[k]]
  <2>1. k \in 1..n /\ pending[k] \in Message
    BY <1>2
  <2>2. fed[pending[k]] <= doubt[pending[k]]
    BY <1>1 DEF RestDoubted, n
  <2>3. fed[pending[k]] \in Nat /\ doubt[pending[k]] \in Nat
    BY <1>2, <2>1
  <2>4. QED
    BY <1>8, <1>10, <2>1, <2>2, <2>3
<1>12. FedOncePerDoubt'
  <2>1. ASSUME NEW m \in Message
        PROVE  fed'[m] <= 1 + doubt'[m]
    <3>1. fed[m] \in Nat /\ doubt[m] \in Nat /\ fed[m] <= 1 + doubt[m] /\ doubt'[m] \in {doubt[m], doubt[m] + 1}
      BY <1>1, <1>2, <1>8 DEF FedOncePerDoubt
    <3>2. ASSUME NEW k \in (sent + 1)..hi, pending[k] = m
          PROVE  fed'[m] <= doubt'[m]
      <4>1. k \in (sent + 1)..n
        BY <1>2, <1>4
      <4>2. QED
        BY <1>11, <3>2, <4>1
    <3>3. fed'[m] \in {fed[m], fed[m] + 1} /\ (fed'[m] = fed[m] \/ fed'[m] <= doubt'[m])
      BY <1>10, <3>2
    <3>4. QED
      BY <3>1, <3>3
  <2>2. QED
    BY <2>1 DEF FedOncePerDoubt
<1>13. FutureUnfed'
  <2>1. ASSUME NEW m \in Message, m > recorded
        PROVE  fed'[m] = 0
    <3>1. \A k \in (sent + 1)..hi : k \in 1..n
      BY <1>2, <1>4
    <3>2. \A k \in 1..n : pending[k] # m
      BY <1>1, <1>2, <2>1 DEF Past, n
    <3>3. fed[m] = 0
      BY <1>1, <2>1 DEF FutureUnfed
    <3>4. QED
      BY <1>10, <3>1, <3>2, <3>3
  <2>2. QED
    BY <1>5, <2>1 DEF FutureUnfed
<1>14. ASSUME NEW k \in (sent + 1)..n
       PROVE  \E i \in 1..(n - sent) : pending'[i] = pending[k]
  <2>1. k - sent \in 1..(n - sent) /\ sent + (k - sent) = k
    BY <1>2
  <2>2. pending'[k - sent] = pending[sent + (k - sent)]
    BY <1>9, <2>1
  <2>3. QED
    BY <2>1, <2>2
<1>15. NoneDropped'
  <2>1. ASSUME NEW m \in 1..recorded
        PROVE  (\E i \in 1..(n - sent) : pending'[i] = m) \/ fed'[m] > 0
    <3>1. fed[m] \in Nat /\ fed'[m] \in {fed[m], fed[m] + 1}
      BY <1>2, <1>10
    <3>2. (\E k \in 1..n : pending[k] = m) \/ fed[m] > 0
      BY <1>1 DEF NoneDropped, n
    <3>3. ASSUME NEW k \in 1..n, pending[k] = m, k \notin (sent + 1)..n
          PROVE  fed[m] > 0
      <4>1. k \in 1..sent
        BY <1>2, <3>3
      <4>2. QED
        BY <1>1, <3>3, <4>1 DEF PrefixFed
    <3>4. QED
      BY <1>14, <3>1, <3>2, <3>3
  <2>2. QED
    BY <1>5, <1>9, <2>1 DEF NoneDropped
<1>16. ASSUME NEW i \in 1..(n - sent)
       PROVE  pending'[i] = pending[sent + i] /\ sent + i \in (sent + 1)..n /\ sent + i \in 1..n
  <2>1. sent + i \in (sent + 1)..n /\ sent + i \in 1..n
    BY <1>2
  <2>2. QED
    BY <1>9, <2>1
<1>17. RestDoubted'
  <2>1. \A i \in 1..(n - sent) : fed'[pending'[i]] <= doubt'[pending'[i]]
    BY <1>11, <1>16
  <2>2. QED
    BY <1>5, <1>9, <2>1 DEF RestDoubted
<1>18. Distinct'
  <2>1. ASSUME NEW i \in 1..(n - sent), NEW j \in 1..(n - sent), i # j
        PROVE  pending'[i] # pending'[j]
    <3>1. sent + i # sent + j
      BY <1>2, <2>1
    <3>2. QED
      BY <1>1, <1>16, <3>1 DEF Distinct, n
  <2>2. QED
    BY <1>9, <2>1 DEF Distinct
<1>19. Past'
  BY <1>1, <1>5, <1>9, <1>16 DEF Past, n
<1>20. PrefixFed'
  BY <1>5 DEF PrefixFed
<1>21. BufferType'
  <2>1. recorded' \in 0..MaxMessages
    BY <1>1, <1>5 DEF BufferType
  <2>2. sent' \in 0..Len(pending')
    BY <1>2, <1>5, <1>9
  <2>3. QED
    BY <1>8, <1>9, <1>10, <2>1, <2>2 DEF BufferType
<1>22. QED
  BY <1>5, <1>12, <1>13, <1>15, <1>17, <1>18, <1>19, <1>20, <1>21 DEF BufferInv

LEMMA EmptyFacts ==
    /\ None \in [Message -> Nat] /\ \A m \in Message : None[m] = 0
    /\ <<>> \in Seq(Message) /\ Len(<<>>) = 0 /\ 0 \in 0..MaxMessages /\ 1..0 = {}
BY MessagesAssumption DEF None

LEMMA BufferStep ==
    ASSUME BufferInv, [TencentNext]_<<armVars, tencentVars>>
    PROVE  BufferInv'
<1>a. ASSUME UNCHANGED <<recorded, pending, fed, doubt, sent>>, pc \notin {"send", "down"} \/ pc' \in {"send", "down"}
      PROVE  BufferInv'
  BY <1>a DEF BufferInv, BufferType, Distinct, Past, PrefixFed, RestDoubted, FutureUnfed, NoneDropped, FedOncePerDoubt
<1>1. CASE UNCHANGED <<armVars, tencentVars>>
  BY <1>a, <1>1 DEF armVars, tencentVars, delivery
<1>2. ASSUME NEW s \in Sessions, L1Task(s) \/ TimerFires(s)
      PROVE  BufferInv'
  BY <1>a, <1>2 DEF L1Task, TimerFires, armVars, delivery
<1>3. CASE StartEpisode
  <2>1. recorded' = 0 /\ pending' = <<>> /\ fed' = None /\ doubt' = None /\ sent' = 0
    BY <1>3 DEF StartEpisode
  <2>2. BufferType'
    BY <2>1, EmptyFacts DEF BufferType
  <2>3. Distinct' /\ Past' /\ PrefixFed' /\ RestDoubted' /\ NoneDropped'
    BY <2>1, EmptyFacts DEF Distinct, Past, PrefixFed, RestDoubted, NoneDropped
  <2>4. FutureUnfed' /\ FedOncePerDoubt'
    BY <2>1, EmptyFacts DEF FutureUnfed, FedOncePerDoubt
  <2>5. QED
    BY <2>1, <2>2, <2>3, <2>4 DEF BufferInv
<1>4. CASE Crash
  BY <1>a, <1>4 DEF Crash, delivery
<1>5. CASE RecordMessage /\ UNCHANGED tencentVars
  BY <1>5, RecordKeepsBuffer DEF RecordMessage, tencentVars, delivery
<1>6. CASE NothingToFlush
  BY <1>a, <1>6 DEF NothingToFlush, delivery
<1>7. ASSUME NEW f \in BOOLEAN, BeginExtraction(f)
      PROVE  BufferInv'
  BY <1>a, <1>7 DEF BeginExtraction
<1>8. ASSUME NEW q \in BOOLEAN, NEW r \in BOOLEAN, SendChunk(q, r) \/ SendFails(q, r)
      PROVE  BufferInv'
  BY <1>8, SendKeepsBuffer, FailureKeepsBuffer
<1>9. CASE DrainIdle \/ IdleWait \/ TailIdle \/ DrainTimesOut
  BY <1>a, <1>9 DEF DrainIdle, IdleWait, TailIdle, DrainTimesOut, tencentVars, delivery
<1>10. CASE ResolvePage \/ ResolveFails \/ ExtractionRaises
  BY <1>a, <1>10 DEF ResolvePage, ResolveFails, ExtractionRaises, delivery
<1>11. CASE EndpointWrites \/ EndpointOnly
  BY <1>a, <1>11, EndpointWritesIs, EndpointOnlyIs DEF armVars, delivery
<1>12. QED
  BY <1>1, <1>2, <1>3, <1>4, <1>5, <1>6, <1>7, <1>8, <1>9, <1>10, <1>11
  DEF TencentNext, EndpointWrites, EndpointOnly

LEMMA BufferInvariant == TencentSpec => []BufferInv
<1>1. pc = "down" /\ ArmInit /\ TencentInit => BufferInv
  <2> SUFFICES ASSUME pc = "down", ArmInit, TencentInit
               PROVE  BufferInv
    OBVIOUS
  <2>1. recorded = 0 /\ pending = <<>> /\ fed = None /\ doubt = None /\ sent = 0
    BY DEF ArmInit, TencentInit
  <2>2. BufferType
    BY <2>1, EmptyFacts DEF BufferType
  <2>3. Distinct /\ Past /\ PrefixFed /\ RestDoubted /\ NoneDropped
    BY <2>1, EmptyFacts DEF Distinct, Past, PrefixFed, RestDoubted, NoneDropped
  <2>4. FutureUnfed /\ FedOncePerDoubt
    BY <2>1, EmptyFacts DEF FutureUnfed, FedOncePerDoubt
  <2>5. QED
    BY <2>1, <2>2, <2>3, <2>4 DEF BufferInv
<1>2. BufferInv /\ [TencentNext]_<<armVars, tencentVars>> => BufferInv'
  BY BufferStep
<1>3. QED
  BY <1>1, <1>2, PTL DEF TencentSpec

(* No recorded message is lost to the memory, whichever chunk, drain or    *)
(* resolve fails (tencentdb_bridge/backend.py:681-688, 784-792).           *)
THEOREM TencentDropsNothing == TencentSpec => []NothingDropped
<1>1. BufferInv => NothingDropped
  BY DEF BufferInv, BufferType, NoneDropped, NothingDropped, Range
<1>2. QED
  BY <1>1, BufferInvariant, PTL

(* The gateway is fed a message again only for a chunk whose outcome was   *)
(* unknown: never one of the confirmed prefix, and never for a drain or a  *)
(* resolve that failed (tencentdb_bridge/backend.py:681-686, 784-792).     *)
THEOREM TencentFeedsOncePerDoubt == TencentSpec => []FedOncePerDoubt
<1>1. BufferInv => FedOncePerDoubt
  BY DEF BufferInv
<1>2. QED
  BY <1>1, BufferInvariant, PTL

-----------------------------------------------------------------------------
(* The add of the endpoint.                                                *)

USE TencentAssumption

\* The endpoint's session has a timer or a task as long as it has a backlog; the first
\* chunk queues, and only an add of more than a cycle leaves a tail; and from the idle
\* wait on, the tail is all there is.
TagInv ==
    /\ epc = "idle" => backlog[Tag] = 0 /\ Tag \notin queued /\ Tag \notin armed
    /\ epc = "send" => /\ eleft \in 1..esize
                       /\ eleft = esize => ~eheard
                       /\ eleft < esize => esize > ChunkMessages
    /\ epc # "idle" => backlog[Tag] + eleft <= esize
    /\ Tag \notin queued => backlog[Tag] < CycleRows
    /\ Tag \notin queued /\ Tag \notin armed => backlog[Tag] = 0
    /\ Tag \in armed => esize > CycleRows
    /\ epc \in {"wait", "tail", "resolve", "ok"} => backlog[Tag] < CycleRows
    /\ epc = "wait" => (Tag \in armed => Tag \in edue)
    /\ epc = "tail" => Tag \notin armed
    /\ epc \in {"resolve", "ok"} => Tag \notin armed /\ Tag \notin queued

EndpointInv ==
    /\ episode \in 0..MaxEpisodes /\ (pc # "down" => episode > 0)
    /\ backlog \in [Sessions -> Nat] /\ esize \in Nat /\ eleft \in Nat /\ eheard \in BOOLEAN
    /\ epc \in {"idle", "send", "drain", "wait", "tail", "resolve", "ok", "500"}
    /\ Tag \notin unheard => TagInv

\* What persisting n messages of s does to s, and that it does nothing to another session.
LEMMA PersistsLeaves ==
    ASSUME NEW s \in Sessions, NEW n \in Nat, NEW q \in BOOLEAN, NEW r \in BOOLEAN, Persists(s, n, q, r),
           backlog \in [Sessions -> Nat]
    PROVE  /\ backlog' \in [Sessions -> Nat] /\ backlog'[s] = backlog[s] + n
           /\ \A t \in Sessions : t # s => backlog'[t] = backlog[t]
           /\ \A t : t # s => /\ (t \in queued' <=> t \in queued) /\ (t \in armed' <=> t \in armed)
                             /\ (t \in unheard' <=> t \in unheard)
           /\ queued' \subseteq queued \cup {s} /\ armed' \subseteq armed \cup {s}
           /\ unheard \subseteq unheard' /\ (s \notin unheard' => r /\ Notifies(s, n, q))
<1>1. backlog' \in [Sessions -> Nat] /\ backlog'[s] = backlog[s] + n
  BY DEF Persists
<1>2. \A t \in Sessions : t # s => backlog'[t] = backlog[t]
  BY DEF Persists
<1>3. \/ queued' = queued \cup {s} /\ armed' = armed
      \/ armed' = armed \cup {s} /\ queued' = queued
      \/ armed' = armed /\ queued' = queued
  BY DEF Persists, Notifies
<1>4. \/ unheard' = unheard /\ r /\ Notifies(s, n, q)
      \/ unheard' = unheard \cup {s}
  BY DEF Persists
<1>5. QED
  BY <1>1, <1>2, <1>3, <1>4

\* A chunk of the endpoint: some of what is left, the rest of it or a full chunk.
LEMMA EndpointChunkIs ==
    ASSUME eleft \in Nat
    PROVE  /\ EndpointChunk \in Nat /\ EndpointChunk <= eleft /\ eleft - EndpointChunk \in Nat
           /\ EndpointChunk < eleft => EndpointChunk = ChunkMessages
           /\ eleft > 0 => EndpointChunk > 0
BY DEF EndpointChunk

LEMMA EndpointStep ==
    ASSUME BufferInv, EndpointInv, [TencentNext]_<<armVars, tencentVars>>
    PROVE  EndpointInv'
<1> USE DEF EndpointInv
<1>0. Tag \in Sessions /\ Tag \notin 1..MaxEpisodes /\ 1..MaxEpisodes \subseteq Sessions /\ Tag' = Tag
  BY DEF Tag, Sessions
<1>a. ASSUME UNCHANGED <<gateway, endpoint>>, episode' \in 0..MaxEpisodes, pc' # "down" => episode' > 0
      PROVE  EndpointInv'
  BY <1>0, <1>a DEF gateway, endpoint, TagInv
\* A step of another session.
<1>b. ASSUME /\ backlog' \in [Sessions -> Nat] /\ backlog'[Tag] = backlog[Tag]
             /\ (Tag \in queued' <=> Tag \in queued) /\ (Tag \in armed' <=> Tag \in armed)
             /\ (Tag \in unheard' <=> Tag \in unheard) /\ (Tag \in edue' <=> Tag \in edue)
             /\ UNCHANGED <<episode, epc, esize, eleft, eheard>> /\ (pc' # "down" => pc # "down")
      PROVE  EndpointInv'
  BY <1>0, <1>b DEF TagInv
<1>1. CASE UNCHANGED <<armVars, tencentVars>>
  BY <1>a, <1>1 DEF armVars, tencentVars
<1>2. ASSUME NEW s \in Sessions, L1Task(s)
      PROVE  EndpointInv'
  <2>1. UNCHANGED <<pc, unheard, episode, epc, esize, eleft, eheard, edue>>
    BY <1>2 DEF L1Task, armVars, endpoint
  <2>2. CASE s # Tag
    <3>1. backlog' \in [Sessions -> Nat] /\ backlog'[Tag] = backlog[Tag]
      BY <1>0, <1>2, <2>2 DEF L1Task
    <3>2. (Tag \in queued' <=> Tag \in queued) /\ (Tag \in armed' <=> Tag \in armed)
      BY <1>2, <2>2 DEF L1Task
    <3>3. QED
      BY <1>b, <2>1, <3>1, <3>2
  <2>3. CASE s = Tag
    <3> DEFINE left == IF backlog[Tag] > CycleRows THEN backlog[Tag] - CycleRows ELSE 0
    <3>1. /\ backlog' = [backlog EXCEPT ![Tag] = left] /\ Tag \in queued
          /\ queued' = IF left < CycleRows THEN queued \ {Tag} ELSE queued
          /\ armed' = IF left \in 1..(CycleRows - 1) THEN armed \cup {Tag} ELSE armed \ {Tag}
      BY <1>2, <2>3 DEF L1Task
    <3>2. left \in Nat /\ backlog' \in [Sessions -> Nat] /\ backlog'[Tag] = left
      BY <1>0, <3>1
    <3>3. left <= backlog[Tag] /\ (left # 0 => backlog[Tag] > CycleRows)
      BY <1>0
    <3> HIDE DEF left
    <3>4. (Tag \in queued' <=> left >= CycleRows) /\ (Tag \in armed' <=> left \in 1..(CycleRows - 1))
      BY <3>1, <3>2
    <3>5. ASSUME Tag \notin unheard, TagInv
          PROVE  TagInv'
      <4>1. epc \notin {"idle", "resolve", "ok"}
        BY <3>1, <3>5 DEF TagInv
      <4>2. backlog[Tag] \in Nat /\ backlog[Tag] + eleft <= esize
        BY <1>0, <3>5, <4>1 DEF TagInv
      <4>3. (left # 0 => esize > CycleRows) /\ left + eleft <= esize
        BY <3>2, <3>3, <4>2
      <4>4. epc \in {"wait", "tail"} => left = 0
        BY <3>3, <3>5, <4>2 DEF TagInv
      <4>5. QED
        BY <1>0, <2>1, <3>2, <3>4, <3>5, <4>1, <4>3, <4>4 DEF TagInv
    <3>6. QED
      BY <1>0, <2>1, <3>2, <3>5
  <2>4. QED
    BY <2>2, <2>3
<1>3. ASSUME NEW s \in Sessions, TimerFires(s)
      PROVE  EndpointInv'
  <2>1. /\ s \in armed /\ armed' = armed \ {s} /\ queued' = queued \cup {s} /\ edue' = edue \ {s}
        /\ UNCHANGED <<backlog, unheard, episode, pc, epc, esize, eleft, eheard>>
    BY <1>3 DEF TimerFires, armVars
  <2>2. CASE s # Tag
    BY <1>b, <2>1, <2>2
  <2>3. CASE s = Tag
    <3>1. TagInv => TagInv'
      BY <1>0, <2>1, <2>3 DEF TagInv
    <3>2. QED
      BY <1>0, <2>1, <3>1
  <2>4. QED
    BY <2>2, <2>3
<1>4. CASE StartEpisode
  BY <1>a, <1>4 DEF StartEpisode
<1>5. CASE Crash
  BY <1>a, <1>5 DEF Crash
<1>6. CASE RecordMessage /\ UNCHANGED tencentVars
  BY <1>a, <1>6 DEF RecordMessage, tencentVars
<1>7. CASE NothingToFlush
  BY <1>a, <1>7 DEF NothingToFlush
<1>8. ASSUME NEW f \in BOOLEAN, BeginExtraction(f)
      PROVE  EndpointInv'
  BY <1>a, <1>8 DEF BeginExtraction
<1>9. ASSUME NEW q \in BOOLEAN, NEW r \in BOOLEAN, SendChunk(q, r) \/ SendFails(q, r)
      PROVE  EndpointInv'
  <2>1. pc = "send" /\ UNCHANGED <<episode, endpoint>>
    BY <1>9 DEF SendChunk, SendFails
  <2>2. episode \in Sessions /\ episode # Tag
    BY <1>0, <2>1
  <2>3. CASE ChunkPersists(q, r)
    <3>1. PICK b \in BOOLEAN : Persists(episode, Len(Chunk), b, r)
      BY <2>3 DEF ChunkPersists
    <3>2. Len(Chunk) \in Nat
      BY ChunkIs DEF BufferInv, BufferType
    <3>3. /\ backlog' \in [Sessions -> Nat] /\ backlog'[Tag] = backlog[Tag]
          /\ (Tag \in queued' <=> Tag \in queued) /\ (Tag \in armed' <=> Tag \in armed)
          /\ (Tag \in unheard' <=> Tag \in unheard)
      BY <1>0, <2>2, <3>1, <3>2, PersistsLeaves
    <3>4. QED
      BY <1>b, <2>1, <3>3 DEF endpoint
  <2>4. CASE UNCHANGED gateway
    BY <1>a, <2>1, <2>4
  <2>5. QED
    BY <1>9, <2>3, <2>4 DEF SendChunk, SendFails
<1>10. CASE DrainIdle \/ IdleWait \/ TailIdle \/ DrainTimesOut
  <2>1. pc # "down"
    BY <1>10 DEF DrainIdle, IdleWait, TailIdle, DrainTimesOut
  <2>2. UNCHANGED <<episode, gateway, endpoint>>
    BY <1>10 DEF DrainIdle, IdleWait, TailIdle, DrainTimesOut, tencentVars
  <2>3. QED
    BY <1>a, <2>1, <2>2
<1>11. CASE ResolvePage \/ ResolveFails \/ ExtractionRaises
  <2>1. pc # "down"
    BY <1>11 DEF ResolvePage, ResolveFails, ExtractionRaises
  <2>2. UNCHANGED <<episode, gateway, endpoint>>
    BY <1>11 DEF ResolvePage, ResolveFails, ExtractionRaises
  <2>3. QED
    BY <1>a, <2>1, <2>2
<1>12. ASSUME NEW n \in 1..(CycleRows + 1), EndpointAdds(n)
       PROVE  EndpointInv'
  <2>1. /\ epc = "idle" /\ epc' = "send" /\ esize' = n /\ eleft' = n /\ eheard' = FALSE
        /\ UNCHANGED <<pc, episode, backlog, queued, armed, unheard, edue>>
    BY <1>12 DEF EndpointAdds, armVars, gateway
  <2>2. TagInv => TagInv'
    BY <1>0, <2>1 DEF TagInv
  <2>3. esize' \in Nat /\ eleft' \in Nat
    BY <2>1
  <2>4. eheard' \in BOOLEAN
    BY <2>1, Zenon
  <2>5. QED
    BY <1>0, <2>1, <2>2, <2>3, <2>4
<1>13. ASSUME NEW q \in BOOLEAN, NEW r \in BOOLEAN, EndpointSends(q, r) \/ EndpointSendFails(q, r)
       PROVE  EndpointInv'
  <2> DEFINE k == EndpointChunk
  <2>1. /\ epc = "send" /\ epc' \in {"send", "drain", "500"} /\ UNCHANGED <<pc, episode, esize, edue>>
        /\ eleft' \in {eleft - k, 0} /\ eheard' \in BOOLEAN
        /\ epc' = "send" => k < eleft /\ eleft' = eleft - k
        /\ epc' # "send" => eleft' = 0
    <3>1. k \in Nat /\ k <= eleft /\ eleft - k \in Nat
      BY EndpointChunkIs
    <3>2. CASE EndpointSends(q, r)
      BY <3>1, <3>2 DEF EndpointSends, armVars
    <3>3. CASE EndpointSendFails(q, r)
      BY <3>3 DEF EndpointSendFails, armVars
    <3>4. QED
      BY <1>13, <3>2, <3>3
  <2>2. /\ k \in Nat /\ k <= eleft /\ eleft - k \in Nat /\ (k < eleft => k = ChunkMessages) /\ (eleft > 0 => k > 0)
    BY EndpointChunkIs
  <2>3. \/ EndpointPersists(q, r)
        \/ UNCHANGED gateway /\ epc' = "500"
    BY <1>13 DEF EndpointSends, EndpointSendFails
  <2> HIDE DEF k
  <2>4. CASE UNCHANGED gateway /\ epc' = "500"
    <3>1. TagInv => TagInv'
      BY <1>0, <2>1, <2>4 DEF TagInv, gateway
    <3>2. QED
      BY <1>0, <2>1, <2>4, <3>1 DEF gateway
  <2>5. CASE EndpointPersists(q, r)
    <3>1. PICK b \in BOOLEAN : Persists(Tag, k, b, r) /\ (~eheard => b)
      BY <2>5 DEF EndpointPersists, k
    <3>2. /\ backlog' \in [Sessions -> Nat] /\ backlog'[Tag] = backlog[Tag] + k
          /\ unheard \subseteq unheard' /\ (Tag \notin unheard' => Notifies(Tag, k, b))
      BY <1>0, <2>2, <3>1, PersistsLeaves
    <3>3. ASSUME Tag \notin unheard'
          PROVE  TagInv'
      <4>1. TagInv /\ Notifies(Tag, k, b)
        BY <3>2, <3>3
      <4>2. /\ eleft \in 1..esize /\ backlog[Tag] \in Nat /\ backlog[Tag] + eleft <= esize
            /\ eleft < esize => esize > CycleRows
            /\ eleft = esize => b
        BY <1>0, <2>1, <3>1, <4>1 DEF TagInv
      <4>3. backlog'[Tag] + eleft' <= esize
        BY <2>1, <2>2, <3>2, <4>2
      <4>4. epc' = "send" => eleft' \in 1..esize /\ eleft' < esize /\ esize > ChunkMessages
        BY <2>1, <2>2, <4>2
      <4>5. CASE Tag \in queued'
        <5>1. UNCHANGED armed \/ esize > CycleRows
          BY <4>1, <4>2 DEF Notifies
        <5>2. Tag \in armed' => esize > CycleRows
          BY <4>1, <5>1 DEF TagInv
        <5>3. QED
          BY <1>0, <2>1, <4>3, <4>4, <4>5, <5>2 DEF TagInv
      <4>6. CASE Tag \notin queued'
        <5>1. ~b /\ backlog[Tag] + k < CycleRows /\ Tag \in armed'
          BY <1>0, <2>2, <4>1, <4>2, <4>6 DEF Notifies
        <5>2. esize > CycleRows
          BY <4>2, <5>1
        <5>3. QED
          BY <1>0, <2>1, <3>2, <4>3, <4>4, <4>6, <5>1, <5>2 DEF TagInv
      <4>7. QED
        BY <4>5, <4>6
    <3>4. QED
      BY <1>0, <2>1, <2>2, <3>2, <3>3
  <2>6. QED
    BY <2>3, <2>4, <2>5
<1>14. CASE EndpointDrain
  <2>1. /\ epc = "drain" /\ Tag \notin queued
        /\ UNCHANGED <<pc, episode, backlog, queued, armed, unheard, esize, eleft, eheard>>
    BY <1>14 DEF EndpointDrain, armVars, gateway
  <2>2. (epc' = "wait" /\ edue' = armed) \/ (epc' = "resolve" /\ esize <= CycleRows)
    BY <1>14 DEF EndpointDrain, MayLeaveTail
  <2>3. TagInv => TagInv'
    <3>1. CASE epc' = "wait" /\ edue' = armed
      BY <1>0, <2>1, <3>1 DEF TagInv
    <3>2. CASE epc' = "resolve" /\ esize <= CycleRows
      BY <1>0, <2>1, <3>2 DEF TagInv
    <3>3. QED
      BY <2>2, <3>1, <3>2
  <2>4. QED
    BY <1>0, <2>1, <2>2, <2>3
<1>15. CASE EndpointWait \/ EndpointTail \/ EndpointAnswers \/ EndpointFails
  <2>1. /\ UNCHANGED <<pc, episode, backlog, queued, armed, unheard, esize, eleft, eheard, edue>>
        /\ \/ epc = "wait" /\ edue = {} /\ epc' = "tail"
           \/ epc = "tail" /\ queued = {} /\ epc' = "resolve"
           \/ epc = "resolve" /\ epc' = "ok"
           \/ epc \in {"drain", "tail", "resolve"} /\ epc' = "500"
    BY <1>15 DEF EndpointWait, EndpointTail, EndpointAnswers, EndpointFails, armVars, gateway
  <2>2. TagInv => TagInv'
    BY <1>0, <2>1 DEF TagInv
  <2>3. QED
    BY <1>0, <2>1, <2>2
<1>16. QED
  BY <1>1, <1>2, <1>3, <1>4, <1>5, <1>6, <1>7, <1>8, <1>9, <1>10, <1>11, <1>12, <1>13, <1>14, <1>15 DEF TencentNext

LEMMA EndpointInvariant == TencentSpec => []EndpointInv
<1>1. pc = "down" /\ ArmInit /\ TencentInit => EndpointInv
  <2> SUFFICES ASSUME pc = "down", TencentInit
               PROVE  EndpointInv
    OBVIOUS
  <2>1. /\ backlog = [s \in Sessions |-> 0] /\ queued = {} /\ armed = {} /\ episode = 0
        /\ epc = "idle" /\ esize = 0 /\ eleft = 0 /\ eheard = FALSE /\ edue = {}
    BY DEF TencentInit
  <2>2. Tag \in Sessions
    BY DEF Tag, Sessions
  <2>3. backlog \in [Sessions -> Nat] /\ backlog[Tag] = 0
    BY <2>1, <2>2
  <2>4. TagInv
    BY <2>1, <2>3 DEF TagInv
  <2>5. eheard \in BOOLEAN
    BY <2>1, Zenon
  <2>6. esize \in Nat /\ eleft \in Nat /\ episode \in 0..MaxEpisodes
    BY <2>1
  <2>7. QED
    BY <2>1, <2>3, <2>4, <2>5, <2>6 DEF EndpointInv
<1>2. BufferInv /\ EndpointInv /\ [TencentNext]_<<armVars, tencentVars>> => EndpointInv'
  BY EndpointStep
<1>3. QED
  BY <1>1, <1>2, BufferInvariant, PTL DEF TencentSpec

(* An endpoint add that is answered with success, and each chunk of which  *)
(* carried a user round, has been extracted to its last message, the tail  *)
(* behind the idle timer included, whatever the episodes on the same       *)
(* gateway do (tencentdb_bridge/endpoint.py:206-228).                      *)
THEOREM AnsweredAddsAreExtracted == TencentSpec => []EndpointAddIsSearchable
<1>1. EndpointInv => EndpointAddIsSearchable
  BY DEF EndpointInv, TagInv, EndpointAddIsSearchable
<1>2. QED
  BY <1>1, EndpointInvariant, PTL

-----------------------------------------------------------------------------
(* A drained episode.                                                      *)

Row    == [of : Sessions, version : Nat, at : Nat, live : BOOLEAN]
Window == [of : Nat, start : Nat, end : Nat]
Record == [event : {"start", "drain"}, of : Nat, at : Nat]

Shape ==
    /\ pc \in {"down", "closed", "idle", "send", "drain", "wait", "tail", "resolve", "raise"}
    /\ final \in BOOLEAN /\ added \in BOOLEAN /\ gaveUp \in BOOLEAN /\ whole \in BOOLEAN
    /\ queued \subseteq Sessions /\ armed \subseteq Sessions
    /\ rows \in Seq(Row) /\ windows \in Seq(Window) /\ sidecar \in Seq(Record)
    /\ now \in Nat /\ watermark \in Nat /\ offset \in Nat /\ count \in Nat
    /\ gathered \subseteq DOMAIN rows /\ seen \subseteq DOMAIN rows

\* No add of an episode went unheard.
Loud == unheard \subseteq {Tag}

\* An episode with a backlog has a task or a timer; sessions to come have neither.
SessionInv ==
    /\ \A s \in queued \cup armed : s = Tag \/ s <= episode
    /\ \A s \in Sessions \ {Tag} : /\ s \notin queued => backlog[s] < CycleRows
                                   /\ s \notin queued /\ s \notin armed => backlog[s] = 0

AtRest(s)  == s \notin queued /\ s \notin armed
Untouched  == AtRest(episode) /\ \A i \in DOMAIN rows : rows[i].of # episode
Intact     == pc # "down" /\ (pc = "closed" => whole)      \* nothing has failed for good
Drained    == (pc = "resolve" /\ final) \/ (pc = "closed" /\ whole)

StageInv ==
    /\ pc = "send" => sent < Len(pending) /\ watermark # 0
    /\ watermark = 0 => Untouched
    /\ pending = <<>> /\ ~added => Untouched
    /\ pc = "idle" => ~final
    /\ pc \in {"wait", "tail"} => final /\ backlog[episode] < CycleRows
    /\ pc = "wait" /\ episode \in armed => episode \in due
    /\ pc = "tail" => episode \notin armed
    /\ whole => pc = "closed"
    /\ Drained => AtRest(episode)
    /\ ~gaveUp => /\ \A s \in 1..(episode - 1) : AtRest(s)
                  /\ episode > 0 => Intact

\* A row is stored under a session that has begun, and not before its watermark.
RowInv ==
    /\ watermark <= now
    /\ \A i \in DOMAIN rows : /\ rows[i].at <= now
                              /\ rows[i].of = Tag \/ rows[i].of \in 1..episode
                              /\ rows[i].of = episode => rows[i].at >= watermark

\* The window of the episode is the newest, and is over only when its rows have landed.
Current == windows[Len(windows)]
Going   == pc \in {"idle", "send", "drain", "wait", "tail"} \/ (pc \in {"resolve", "raise"} /\ ~final)

WindowInv ==
    /\ \A j \in DOMAIN windows : windows[j].start <= now /\ windows[j].end <= now /\ windows[j].of \in 1..episode
    /\ \A j, k \in DOMAIN windows : j < k => windows[j].of < windows[k].of
    /\ episode > 0 =>
         /\ windows # <<>> /\ Current.of = episode
         /\ watermark # 0 => Current.start <= watermark
         /\ Going => Current.end = 0
         /\ \A i \in DOMAIN rows : rows[i].of = episode => Current.start <= rows[i].at
         /\ Intact /\ Current.end # 0 =>
              AtRest(episode) /\ \A i \in DOMAIN rows : rows[i].of = episode => rows[i].at < Current.end

\* What a start or drain of the session's window says of the rows.
BeginsAt(s, at) == \A i \in DOMAIN rows : rows[i].of # Tag =>
    (rows[i].of < s => rows[i].at < at) /\ (rows[i].of = s => at <= rows[i].at)
EndsAt(s, at) == \A i \in DOMAIN rows : rows[i].of # Tag =>
    (rows[i].of = s => rows[i].at < at) /\ (rows[i].of > s => at <= rows[i].at)

SidecarInv ==
    /\ \A k \in DOMAIN sidecar : sidecar[k].at <= now /\ sidecar[k].of \in 1..episode
    /\ \A j, k \in DOMAIN sidecar :
         j < k /\ sidecar[j].event = "start" /\ sidecar[k].event = "start" => sidecar[j].of < sidecar[k].of
    /\ \A k \in DOMAIN sidecar : sidecar[k].event = "drain" /\ sidecar[k].of = episode => Current.end # 0
    /\ ~gaveUp => /\ \A k \in DOMAIN sidecar : IF sidecar[k].event = "start" THEN BeginsAt(sidecar[k].of, sidecar[k].at)
                                               ELSE EndsAt(sidecar[k].of, sidecar[k].at)
                  /\ \A j \in DOMAIN windows : /\ BeginsAt(windows[j].of, windows[j].start)
                                               /\ windows[j].end # 0 => EndsAt(windows[j].of, windows[j].end)

Own     == {i \in LiveIds : rows[i].of = episode}
Rank(i) == Cardinality({j \in Produced : j > i})

CountInv ==
    /\ \A i \in seen \cup gathered : rows[i].of # Tag /\ watermark # 0 /\ rows[i].at >= watermark
    /\ counted = {<<i, rows[i].version>> : i \in seen}
    /\ count = Cardinality(seen)
    /\ pc \notin {"resolve", "down"} => offset = 0 /\ gathered = {}
    /\ pc = "resolve" /\ final => \A i \in Own : Rank(i) < offset => i \in gathered
    /\ pc = "closed" /\ whole => Own \subseteq seen

-----------------------------------------------------------------------------
(* What a step does to the rows.                                           *)

KeptRows ==
    /\ DOMAIN rows \subseteq DOMAIN rows'
    /\ \A i \in DOMAIN rows : /\ rows'[i].of = rows[i].of /\ rows'[i].at = rows[i].at
                              /\ rows'[i].version = rows[i].version
                              /\ rows'[i].live => rows[i].live
NewRows(s) == \A i \in DOMAIN rows' : i \notin DOMAIN rows => rows'[i].of = s /\ rows'[i].at = now

LEMMA NewRowIs ==
    ASSUME NEW s \in Sessions, NEW v \in Nat, now \in Nat
    PROVE  NewRow(s, v) \in Row /\ NewRow(s, v).of = s /\ NewRow(s, v).at = now
BY DEF NewRow, Row

LEMMA AppendedIs ==
    ASSUME NEW S, NEW seq \in Seq(S), NEW e \in S
    PROVE  /\ Append(seq, e) \in Seq(S) /\ DOMAIN Append(seq, e) = DOMAIN seq \cup {Len(seq) + 1}
           /\ Len(Append(seq, e)) = Len(seq) + 1 /\ Len(seq) + 1 \notin DOMAIN seq
           /\ \A i \in DOMAIN seq : Append(seq, e)[i] = seq[i]
           /\ Append(seq, e)[Len(seq) + 1] = e
OBVIOUS

\* A merge leaves the merged row behind, no longer live.
Superseded(i) == [rows EXCEPT ![i].live = FALSE]

LEMMA SupersededIs ==
    ASSUME rows \in Seq(Row), NEW i \in DOMAIN rows
    PROVE  /\ Superseded(i) \in Seq(Row) /\ DOMAIN Superseded(i) = DOMAIN rows /\ Len(Superseded(i)) = Len(rows)
           /\ \A j \in DOMAIN rows : /\ Superseded(i)[j].of = rows[j].of /\ Superseded(i)[j].at = rows[j].at
                                     /\ Superseded(i)[j].version = rows[j].version
                                     /\ Superseded(i)[j].live = (rows[j].live /\ j # i)
<1>1. \A j \in DOMAIN rows : rows[j] \in Row
  OBVIOUS
<1>2. [rows[i] EXCEPT !.live = FALSE] \in Row
  BY <1>1 DEF Row
<1>3. /\ DOMAIN Superseded(i) = DOMAIN rows
      /\ \A j \in DOMAIN rows : Superseded(i)[j] = IF j = i THEN [rows[i] EXCEPT !.live = FALSE] ELSE rows[j]
  BY DEF Superseded
<1>4. Superseded(i) \in Seq(Row) /\ Len(Superseded(i)) = Len(rows)
  <2>1. \A j \in DOMAIN rows : Superseded(i)[j] \in Row
    BY <1>1, <1>2, <1>3
  <2>2. Superseded(i) = [j \in 1..Len(rows) |-> Superseded(i)[j]]
    <3>1. DOMAIN rows = 1..Len(rows)
      OBVIOUS
    <3>2. Superseded(i) = [j \in DOMAIN rows |-> IF j = i THEN [rows[i] EXCEPT !.live = FALSE] ELSE rows[j]]
      BY DEF Superseded
    <3> HIDE DEF Superseded
    <3>3. QED
      BY <1>3, <3>1, <3>2
  <2>3. DOMAIN rows = 1..Len(rows) /\ Len(rows) \in Nat
    OBVIOUS
  <2> DEFINE t == Superseded(i)
  <2>4. t = [j \in 1..Len(rows) |-> t[j]] /\ \A j \in 1..Len(rows) : t[j] \in Row
    BY <2>1, <2>2, <2>3
  <2> HIDE DEF t
  <2>5. t \in Seq(Row) /\ Len(t) = Len(rows)
    BY <2>3, <2>4
  <2>6. QED
    BY <2>5 DEF t
<1>5. QED
  BY <1>1, <1>3, <1>4 DEF Row

LEMMA ExtractsIs ==
    ASSUME rows \in Seq(Row), now \in Nat, NEW s \in Sessions, Extracts(s)
    PROVE  rows' \in Seq(Row) /\ KeptRows /\ NewRows(s)
<1>1. CASE UNCHANGED rows
  BY <1>1 DEF KeptRows, NewRows
<1>2. CASE rows' = Append(rows, NewRow(s, 0))
  <2>1. NewRow(s, 0) \in Row /\ NewRow(s, 0).of = s /\ NewRow(s, 0).at = now
    BY NewRowIs
  <2>2. QED
    BY <1>2, <2>1, AppendedIs DEF KeptRows, NewRows
<1>3. ASSUME NEW i \in LiveIds, rows' = Append(Superseded(i), NewRow(s, rows[i].version + 1))
      PROVE  rows' \in Seq(Row) /\ KeptRows /\ NewRows(s)
  <2>1. i \in DOMAIN rows /\ rows[i].version \in Nat
    <3>1. i \in DOMAIN rows
      BY DEF LiveIds
    <3>2. rows[i] \in Row
      BY <3>1
    <3>3. QED
      BY <3>1, <3>2 DEF Row
  <2> DEFINE e == NewRow(s, rows[i].version + 1)
             t == Superseded(i)
  <2>2. e \in Row /\ e.of = s /\ e.at = now
    BY <2>1, NewRowIs
  <2>3. /\ t \in Seq(Row) /\ DOMAIN t = DOMAIN rows
        /\ \A j \in DOMAIN rows : /\ t[j].of = rows[j].of /\ t[j].at = rows[j].at /\ t[j].version = rows[j].version
                                  /\ t[j].live = (rows[j].live /\ j # i)
    BY <2>1, SupersededIs
  <2> HIDE DEF e, t
  <2>4. /\ Append(t, e) \in Seq(Row) /\ DOMAIN Append(t, e) = DOMAIN t \cup {Len(t) + 1}
        /\ \A j \in DOMAIN t : Append(t, e)[j] = t[j]
        /\ Append(t, e)[Len(t) + 1] = e
    BY <2>2, <2>3, AppendedIs
  <2>5. rows' = Append(t, e)
    BY <1>3 DEF t, e
  <2>6. QED
    BY <2>2, <2>3, <2>4, <2>5 DEF KeptRows, NewRows
<1>4. QED
  BY <1>1, <1>2, <1>3 DEF Extracts, Superseded

-----------------------------------------------------------------------------
(* The windows.                                                            *)

\* The window that closes: the newest of the session, if there is one.
LEMMA ClosesIs ==
    ASSUME NEW ws \in Seq(Window), NEW s \in Nat, NEW at \in Nat
    PROVE  /\ Closes(ws, s, at) \in Seq(Window) /\ Len(Closes(ws, s, at)) = Len(ws)
           /\ \A j \in 1..Len(ws) :
                /\ Closes(ws, s, at)[j].of = ws[j].of /\ Closes(ws, s, at)[j].start = ws[j].start
                /\ \/ Closes(ws, s, at)[j].end = ws[j].end
                   \/ ws[j].of = s /\ Closes(ws, s, at)[j].end = at
           /\ ws # <<>> /\ ws[Len(ws)].of = s =>
                /\ Closes(ws, s, at)[Len(ws)].end = at
                /\ \A j \in 1..(Len(ws) - 1) : Closes(ws, s, at)[j] = ws[j]
<1> DEFINE I == {i \in DOMAIN ws : ws[i].of = s}
           c == CHOOSE i \in I : \A j \in I : j <= i
           done == [ws EXCEPT ![c].end = at]
<1>1. Closes(ws, s, at) = IF I = {} THEN ws ELSE done
  BY DEF Closes
<1>2. DOMAIN ws = 1..Len(ws) /\ Len(ws) \in Nat /\ \A j \in 1..Len(ws) : ws[j] \in Window
  OBVIOUS
<1>3. CASE I = {}
  <2>1. ws = <<>> \/ (Len(ws) \in DOMAIN ws /\ ws[Len(ws)].of # s)
    BY <1>2, <1>3
  <2>2. QED
    BY <1>1, <1>2, <1>3, <2>1
<1>4. CASE I # {}
  <2>1. I \in SUBSET (1..Len(ws))
    BY <1>2
  <2>2. \E i \in I : \A j \in I : j <= i
    <3> HIDE DEF I
    <3>1. QED
      BY <1>2, <1>4, <2>1, GreatestExists
  <2>3. c \in I /\ \A j \in I : j <= c
    <3> HIDE DEF I
    <3>1. QED
      BY <2>2
  <2>4. c \in 1..Len(ws) /\ ws[c].of = s
    BY <2>3
  <2>5. ws # <<>> /\ ws[Len(ws)].of = s => c = Len(ws)
    <3>1. ASSUME ws # <<>>, ws[Len(ws)].of = s
          PROVE  c = Len(ws)
      <4>1. Len(ws) \in 1..Len(ws)
        BY <1>2, <3>1
      <4>2. Len(ws) \in I
        BY <1>2, <3>1, <4>1
      <4>3. Len(ws) <= c
        BY <2>3, <4>2
      <4>4. QED
        BY <1>2, <2>4, <4>3
    <3>2. QED
      BY <3>1
  <2> HIDE DEF c, I
  <2>6. /\ DOMAIN done = 1..Len(ws)
        /\ \A j \in 1..Len(ws) : done[j] = IF j = c THEN [ws[c] EXCEPT !.end = at] ELSE ws[j]
    BY <1>2
  <2>7. [ws[c] EXCEPT !.end = at] \in Window /\ [ws[c] EXCEPT !.end = at].of = ws[c].of
        /\ [ws[c] EXCEPT !.end = at].start = ws[c].start /\ [ws[c] EXCEPT !.end = at].end = at
    BY <1>2, <2>4 DEF Window
  <2>8. done = [j \in 1..Len(ws) |-> done[j]]
    BY <2>6
  <2> HIDE DEF done
  <2>9. done \in Seq(Window) /\ Len(done) = Len(ws)
    <3>1. \A j \in 1..Len(ws) : done[j] \in Window
      BY <1>2, <2>6, <2>7
    <3>2. QED
      BY <1>2, <2>6, <2>8, <3>1
  <2>10. \A j \in 1..Len(ws) : /\ done[j].of = ws[j].of /\ done[j].start = ws[j].start
                               /\ (done[j].end = ws[j].end \/ (ws[j].of = s /\ done[j].end = at))
    BY <2>4, <2>6, <2>7
  <2>11. ASSUME ws # <<>>, ws[Len(ws)].of = s
         PROVE  done[Len(ws)].end = at /\ \A j \in 1..(Len(ws) - 1) : done[j] = ws[j]
    <3>1. c = Len(ws)
      BY <2>5, <2>11
    <3>2. \A j \in 1..(Len(ws) - 1) : j \in 1..Len(ws) /\ j # Len(ws)
      <4>1. \A n \in Nat : \A j \in 1..(n - 1) : j \in 1..n /\ j # n
        OBVIOUS
      <4>2. QED
        BY <1>2, <4>1
    <3>3. QED
      BY <2>4, <2>6, <2>7, <3>1, <3>2
  <2>12. QED
    BY <1>1, <1>4, <2>9, <2>10, <2>11
<1>5. QED
  BY <1>3, <1>4

\* One more record keeps the windows what they are.
LEMMA ReplayedType ==
    ASSUME NEW ws \in Seq(Window), NEW r \in Record
    PROVE  Replayed(ws, r) \in Seq(Window)
<1>1. r.of \in Nat /\ r.at \in Nat
  BY DEF Record
<1>2. Opens(r.of, r.at) \in Window
  BY <1>1 DEF Opens, Window
<1>3. Append(ws, Opens(r.of, r.at)) \in Seq(Window)
  BY <1>2
<1>4. Closes(ws, r.of, r.at) \in Seq(Window)
  BY <1>1, ClosesIs
<1>5. QED
  BY <1>3, <1>4 DEF Replayed

\* LoadWindows is what replaying one record after another comes to.
LoadsBy(f) ==
    /\ f \in [0..Len(sidecar) -> Seq(Window)] /\ f[0] = <<>>
    /\ \A n \in 1..Len(sidecar) : f[n] = Replayed(f[n - 1], sidecar[n])

LEMMA LoadedIs ==
    ASSUME sidecar \in Seq(Record)
    PROVE  \E f : LoadsBy(f) /\ LoadWindows = f[Len(sidecar)]
<1> DEFINE N == Len(sidecar)
           G == [n \in 1..N |-> [ws \in Seq(Window) |-> Replayed(ws, sidecar[n])]]
           step(g, n) == IF n = 0 THEN <<>> ELSE Replayed(g[n - 1], sidecar[n])
           loaded == CHOOSE g : g = [n \in 0..N |-> step(g, n)]
<1>1. N \in Nat /\ \A n \in 1..N : sidecar[n] \in Record
  OBVIOUS
<1>2. G \in [1..N -> [Seq(Window) -> Seq(Window)]]
  BY <1>1, ReplayedType
<1>3. \A n \in 1..N : \A ws \in Seq(Window) : G[n][ws] = Replayed(ws, sidecar[n])
  OBVIOUS
<1> HIDE DEF G
<1>4. PICK f \in [0..N -> Seq(Window)] : Steps(f, <<>>, G, N)
  <2>1. <<>> \in Seq(Window)
    OBVIOUS
  <2>2. QED
    BY <1>1, <1>2, <2>1, StepsExist
<1>5. LoadsBy(f)
  <2>1. \A n \in 1..N : f[n - 1] \in Seq(Window)
    <3>1. \A n \in 1..N : n - 1 \in 0..N
      BY <1>1
    <3>2. QED
      BY <1>4, <3>1
  <2>2. QED
    BY <1>3, <1>4, <2>1 DEF Steps, LoadsBy
<1>6. LoadWindows = loaded[N]
  BY DEF LoadWindows
<1>7. f = [n \in 0..N |-> step(f, n)]
  <2>1. \A n \in 0..N : f[n] = step(f, n)
    <3>1. ASSUME NEW n \in 0..N
          PROVE  f[n] = step(f, n)
      <4>1. CASE n = 0
        BY <1>5, <4>1 DEF LoadsBy
      <4>2. CASE n # 0
        <5>1. n \in 1..N
          BY <1>1, <4>2
        <5>2. QED
          BY <1>5, <4>2, <5>1 DEF LoadsBy
      <4>3. QED
        BY <4>1, <4>2
    <3>2. QED
      BY <3>1
  <2>2. f = [n \in 0..N |-> f[n]]
    BY <1>4
  <2>3. QED
    BY <2>1, <2>2, Zenon
<1>8. loaded = [n \in 0..N |-> step(loaded, n)]
  <2>1. \E g : g = [n \in 0..N |-> step(g, n)]
    BY <1>7
  <2> QED
    BY <2>1, Zenon
<1> HIDE DEF loaded
<1>9. \A n \in 0..N : loaded[n] = f[n]
  <2> DEFINE T == {n \in 0..N : loaded[n] = f[n]}
  <2>1. 0 \in T
    BY <1>1, <1>5, <1>8 DEF LoadsBy
  <2>2. ASSUME NEW n \in 0..(N - 1), n \in T
        PROVE  n + 1 \in T
    <3>1. n + 1 \in 0..N /\ n + 1 \in 1..N /\ (n + 1) - 1 = n /\ n + 1 # 0
      BY <1>1
    <3>2. loaded[n + 1] = Replayed(loaded[n], sidecar[n + 1])
      BY <1>8, <3>1
    <3>3. f[n + 1] = Replayed(f[n], sidecar[n + 1])
      BY <1>5, <3>1 DEF LoadsBy
    <3>4. QED
      BY <2>2, <3>1, <3>2, <3>3
  <2> HIDE DEF T
  <2>3. \A n \in 0..N : n \in T
    BY <1>1, <2>1, <2>2, UpToInduction
  <2>4. QED
    BY <2>3 DEF T
<1>10. N \in 0..N
  BY <1>1
<1>11. QED
  BY <1>5, <1>6, <1>9, <1>10

-----------------------------------------------------------------------------
(* What every step keeps of the shape of the state.                        *)

LEMMA SidecarIs ==
    ASSUME sidecar \in Seq(Record), now' \in Nat, NEW e \in {"start", "drain"}, NEW s \in Nat,
           AppendSidecar(Recorded(e, s))
    PROVE  /\ sidecar' \in Seq(Record)
           /\ \A k \in DOMAIN sidecar : k \in DOMAIN sidecar' /\ sidecar'[k] = sidecar[k]
           /\ \A k \in DOMAIN sidecar' : k \notin DOMAIN sidecar =>
                /\ sidecar'[k].event = e /\ sidecar'[k].of = s /\ sidecar'[k].at = now'
                /\ \A j \in DOMAIN sidecar' : j <= k
<1> DEFINE r == Recorded(e, s)
<1>1. r \in Record /\ r.event = e /\ r.of = s /\ r.at = now'
  BY DEF Recorded, Record
<1>2. sidecar' = sidecar \/ sidecar' = Append(sidecar, r)
  BY DEF AppendSidecar
<1> HIDE DEF r
<1>3. CASE sidecar' = sidecar
  BY <1>3
<1>4. CASE sidecar' = Append(sidecar, r)
  <2>1. /\ sidecar' \in Seq(Record) /\ DOMAIN sidecar' = DOMAIN sidecar \cup {Len(sidecar) + 1}
        /\ \A i \in DOMAIN sidecar : sidecar'[i] = sidecar[i]
        /\ sidecar'[Len(sidecar) + 1] = r
    BY <1>1, <1>4, AppendedIs
  <2>2. \A j \in DOMAIN sidecar' : j <= Len(sidecar) + 1
    BY <2>1
  <2>3. QED
    BY <1>1, <2>1, <2>2
<1>5. QED
  BY <1>2, <1>3, <1>4

\* No window of the episode is open, or its newest closes now.
Drains ==
    /\ now' = now + 1
    /\ AppendSidecar(Recorded("drain", episode))
    /\ windows' = Closes(windows, episode, now')

LEMMA DrainIs ==
    ASSUME Shape, episode \in Nat, RecordDrain
    PROVE  /\ UNCHANGED clock \/ Drains
           /\ windows' \in Seq(Window) /\ sidecar' \in Seq(Record) /\ now' \in Nat /\ now <= now'
<1>1. UNCHANGED clock \/ Drains
  BY DEF RecordDrain, Drains
<1>2. windows \in Seq(Window) /\ sidecar \in Seq(Record) /\ now \in Nat
  BY DEF Shape
<1>3. CASE UNCHANGED clock
  BY <1>2, <1>3 DEF clock
<1>4. CASE Drains
  <2>1. now' \in Nat /\ now <= now'
    BY <1>2, <1>4 DEF Drains
  <2>2. windows' \in Seq(Window)
    BY <1>2, <1>4, <2>1, ClosesIs DEF Drains
  <2>3. sidecar' \in Seq(Record)
    BY <1>2, <1>4, <2>1, SidecarIs DEF Drains
  <2>4. QED
    BY <1>4, <2>1, <2>2, <2>3
<1>5. QED
  BY <1>1, <1>3, <1>4

LEMMA StartIs ==
    ASSUME Shape, episode \in Nat, StartEpisode
    PROVE  /\ LoadWindows \in Seq(Window)
           /\ Opens(episode', now') \in Window /\ windows' = Append(LoadWindows, Opens(episode', now'))
           /\ windows' \in Seq(Window) /\ sidecar' \in Seq(Record) /\ now' = now + 1 /\ now' \in Nat
           /\ AppendSidecar(Recorded("start", episode')) /\ episode' = episode + 1
<1>1. now \in Nat /\ sidecar \in Seq(Record)
  BY DEF Shape
<1>2. /\ now' = now + 1 /\ episode' = episode + 1 /\ AppendSidecar(Recorded("start", episode'))
      /\ windows' = Append(LoadWindows, Opens(episode', now'))
  BY DEF StartEpisode
<1>3. now' \in Nat /\ episode' \in Nat
  BY <1>1, <1>2
<1>4. Opens(episode', now') \in Window
  BY <1>3 DEF Opens, Window
<1>5. LoadWindows \in Seq(Window)
  <2>1. PICK f : LoadsBy(f) /\ LoadWindows = f[Len(sidecar)]
    BY <1>1, LoadedIs
  <2>2. Len(sidecar) \in 0..Len(sidecar)
    BY <1>1
  <2>3. QED
    BY <2>1, <2>2 DEF LoadsBy
<1>6. sidecar' \in Seq(Record)
  BY <1>1, <1>2, <1>3, SidecarIs
<1>7. windows' \in Seq(Window)
  BY <1>2, <1>4, <1>5
<1>8. QED
  BY <1>2, <1>3, <1>4, <1>5, <1>6, <1>7

LEMMA RowsAreFinite ==
    ASSUME rows \in Seq(Row)
    PROVE  /\ IsFiniteSet(DOMAIN rows) /\ DOMAIN rows \subseteq Nat
           /\ \A S \in SUBSET DOMAIN rows : IsFiniteSet(S) /\ Cardinality(S) \in Nat
<1>1. DOMAIN rows = 1..Len(rows) /\ Len(rows) \in Nat
  OBVIOUS
<1>2. IsFiniteSet(1..Len(rows))
  BY <1>1, FS_Interval
<1>3. \A S \in SUBSET (1..Len(rows)) : IsFiniteSet(S) /\ Cardinality(S) \in Nat
  BY <1>2, FS_Subset, FS_CardinalityType
<1>4. QED
  BY <1>1, <1>2, <1>3

LEMMA PageIsOfRows == Page \subseteq Produced /\ Produced \subseteq LiveIds /\ LiveIds \subseteq DOMAIN rows
BY DEF Page, Produced, LiveIds

LEMMA ShapeStep ==
    ASSUME Shape, EndpointInv, [TencentNext]_<<armVars, tencentVars>>
    PROVE  Shape'
<1> USE DEF Shape
<1>0. episode \in Nat
  BY TencentAssumption DEF EndpointInv
<1>1. CASE UNCHANGED <<armVars, tencentVars>>
  BY <1>1 DEF armVars, tencentVars, gateway, delivery, query, clock, outcome
<1>2. ASSUME NEW s \in Sessions, L1Task(s)
      PROVE  Shape'
  <2>1. rows' \in Seq(Row) /\ KeptRows
    BY <1>2, ExtractsIs DEF L1Task
  <2>2. queued' \subseteq Sessions /\ armed' \subseteq Sessions
    BY <1>2 DEF L1Task
  <2>3. QED
    BY <1>2, <2>1, <2>2 DEF L1Task, KeptRows, armVars, delivery, query, clock, outcome
<1>3. ASSUME NEW s \in Sessions, TimerFires(s)
      PROVE  Shape'
  BY <1>3 DEF TimerFires, armVars, query, clock, outcome
<1>4. CASE StartEpisode
  <2>1. windows' \in Seq(Window) /\ sidecar' \in Seq(Record) /\ now' \in Nat
    BY <1>0, <1>4, StartIs
  <2>2. QED
    BY <1>4, <2>1 DEF StartEpisode, gateway
<1>5. CASE Crash
  BY <1>5 DEF Crash, gateway, delivery, query, clock
<1>6. CASE RecordMessage /\ UNCHANGED tencentVars
  BY <1>6 DEF RecordMessage, tencentVars, gateway, delivery, query, clock, outcome
<1>7. CASE NothingToFlush
  <2>1. windows' \in Seq(Window) /\ sidecar' \in Seq(Record) /\ now' \in Nat
    BY <1>0, <1>7, DrainIs DEF NothingToFlush
  <2>2. QED
    BY <1>7, <2>1 DEF NothingToFlush, gateway, delivery, query
<1>8. ASSUME NEW f \in BOOLEAN, BeginExtraction(f)
      PROVE  Shape'
  BY <1>8 DEF BeginExtraction, gateway, query, outcome
<1>9. ASSUME NEW q \in BOOLEAN, NEW r \in BOOLEAN, SendChunk(q, r)
      PROVE  Shape'
  <2>1. queued' \subseteq Sessions /\ armed' \subseteq Sessions
    <3>1. episode \in Sessions
      BY <1>9, TencentAssumption DEF SendChunk, EndpointInv, Sessions, Tag
    <3>2. QED
      BY <1>9, <3>1 DEF SendChunk, ChunkPersists, Persists, Notifies
  <2>2. UNCHANGED rows /\ pc' \in {"send", "drain"} /\ added' \in BOOLEAN
    BY <1>9 DEF SendChunk, ChunkPersists
  <2>3. QED
    BY <1>9, <2>1, <2>2 DEF SendChunk, query, clock, outcome
<1>10. ASSUME NEW q \in BOOLEAN, NEW r \in BOOLEAN, SendFails(q, r)
       PROVE  Shape'
  <2>1. queued' \subseteq Sessions /\ armed' \subseteq Sessions /\ UNCHANGED rows
    <3>1. episode \in Sessions
      BY <1>10, TencentAssumption DEF SendFails, EndpointInv, Sessions, Tag
    <3>2. QED
      BY <1>10, <3>1 DEF SendFails, ChunkPersists, Persists, Notifies, gateway
  <2>2. QED
    BY <1>10, <2>1 DEF SendFails, query, clock, outcome
<1>11. CASE DrainIdle
  BY <1>11 DEF DrainIdle, gateway, query, clock, outcome
<1>12. CASE IdleWait
  BY <1>12 DEF IdleWait, tencentVars, gateway, delivery, query, clock, outcome
<1>13. CASE TailIdle
  <2>1. windows' \in Seq(Window) /\ sidecar' \in Seq(Record) /\ now' \in Nat
    BY <1>0, <1>13, DrainIs DEF TailIdle
  <2>2. QED
    BY <1>13, <2>1 DEF TailIdle, gateway, delivery, query, outcome
<1>14. CASE DrainTimesOut
  BY <1>14 DEF DrainTimesOut, tencentVars, gateway, delivery, query, clock, outcome
<1>15. CASE ResolvePage
  <2> DEFINE found == gathered \cup Page
             fresh == {i \in found : Uncounted(i)}
  <2>1. rows \in Seq(Row) /\ found \subseteq DOMAIN rows /\ fresh \subseteq DOMAIN rows
    BY PageIsOfRows
  <2>2. Cardinality(Page) \in Nat /\ Cardinality(fresh) \in Nat
    BY <2>1, PageIsOfRows, RowsAreFinite
  <2>3. /\ \/ offset' = offset + Cardinality(Page) /\ gathered' = found /\ UNCHANGED <<pc, counted, count, seen, whole>>
           \/ /\ pc' = Resume /\ count' = count + Cardinality(fresh) /\ seen' = seen \cup found
              /\ offset' = 0 /\ gathered' = {} /\ whole' = final
        /\ UNCHANGED <<final, added, gaveUp, queued, armed, rows, windows, sidecar, now, watermark>>
    BY <1>15 DEF ResolvePage, gateway, delivery, clock
  <2> HIDE DEF found, fresh
  <2>4. QED
    BY <2>1, <2>2, <2>3 DEF Resume
<1>16. CASE ResolveFails
  BY <1>16 DEF ResolveFails, gateway, delivery, clock, outcome
<1>17. CASE ExtractionRaises
  <2>1. windows' \in Seq(Window) /\ sidecar' \in Seq(Record) /\ now' \in Nat /\ gaveUp' \in BOOLEAN
    BY <1>0, <1>17, DrainIs DEF ExtractionRaises, clock
  <2>2. QED
    BY <1>17, <2>1 DEF ExtractionRaises, Resume, gateway, delivery, query
<1>18. CASE EndpointWrites
  <2>1. queued' \subseteq Sessions /\ armed' \subseteq Sessions
    <3>1. Tag \in Sessions
      BY TencentAssumption DEF Tag, Sessions
    <3>2. QED
      BY <1>18, <3>1, EndpointWritesIs DEF EndpointPersists, Persists, Notifies, gateway
  <2>2. QED
    BY <1>18, <2>1, EndpointWritesIs DEF armVars, delivery, query, clock, outcome
<1>19. CASE EndpointOnly
  BY <1>19, EndpointOnlyIs DEF armVars, gateway, delivery, query, clock, outcome
<1>20. QED
  BY <1>1, <1>2, <1>3, <1>4, <1>5, <1>6, <1>7, <1>8, <1>9, <1>10, <1>11, <1>12, <1>13, <1>14, <1>15, <1>16, <1>17,
     <1>18, <1>19 DEF TencentNext, EndpointWrites, EndpointOnly

-----------------------------------------------------------------------------
(* What the gateway still has of a session.                                *)

LEMMA SessionsAre ==
    ASSUME EndpointInv
    PROVE  /\ Tag \in Sessions /\ episode \in Nat /\ episode < Tag /\ (episode > 0 => episode \in Sessions)
           /\ Tag \in Nat /\ Sessions \subseteq Nat /\ 0 \notin Sessions /\ \A s \in Sessions : backlog[s] \in Nat
BY TencentAssumption DEF EndpointInv, Tag, Sessions

LEMMA PersistsIs ==
    ASSUME EndpointInv, SessionInv, NEW s \in Sessions, NEW n \in Nat, NEW q \in BOOLEAN, NEW r \in BOOLEAN,
           Persists(s, n, q, r), s = Tag \/ (s <= episode /\ r), UNCHANGED episode
    PROVE  SessionInv'
<1>1. backlog \in [Sessions -> Nat] /\ Tag' = Tag /\ CycleRows \in Nat
  BY TencentAssumption DEF EndpointInv, Tag
<1>2. /\ backlog'[s] = backlog[s] + n /\ \A t \in Sessions : t # s => backlog'[t] = backlog[t]
      /\ \A t : t # s => (t \in queued' <=> t \in queued) /\ (t \in armed' <=> t \in armed)
      /\ queued' \subseteq queued \cup {s} /\ armed' \subseteq armed \cup {s}
  BY <1>1, PersistsLeaves
<1>3. s # Tag => \/ s \in queued'
                 \/ s \in armed' /\ backlog[s] + n < CycleRows
  <2>1. backlog[s] + n \in Nat
    BY <1>1
  <2>2. QED
    BY <1>1, <2>1 DEF Persists, Notifies
<1>4. \A t \in Sessions \ {Tag} : /\ t \notin queued' => backlog'[t] < CycleRows
                                  /\ t \notin queued' /\ t \notin armed' => backlog'[t] = 0
  <2>1. ASSUME NEW t \in Sessions \ {Tag}
        PROVE  /\ t \notin queued' => backlog'[t] < CycleRows
               /\ t \notin queued' /\ t \notin armed' => backlog'[t] = 0
    <3>1. CASE t = s
      BY <1>2, <1>3, <3>1
    <3>2. CASE t # s
      BY <1>2, <3>2 DEF SessionInv
    <3>3. QED
      BY <3>1, <3>2
  <2>2. QED
    BY <2>1
<1>5. \A t \in queued' \cup armed' : t = Tag \/ t <= episode
  BY <1>2 DEF SessionInv
<1>6. QED
  BY <1>1, <1>4, <1>5 DEF SessionInv

\* A task of s leaves the rest of its backlog to itself or to the timer.
LEMMA TaskIs ==
    ASSUME EndpointInv, SessionInv, NEW s \in Sessions, L1Task(s)
    PROVE  /\ SessionInv'
           /\ \A t \in Sessions : t # s => backlog'[t] = backlog[t]
           /\ \A t : t # s => (t \in queued' <=> t \in queued) /\ (t \in armed' <=> t \in armed)
           /\ backlog'[s] <= backlog[s]
           /\ backlog[s] < CycleRows => backlog'[s] = 0 /\ s \notin queued' /\ s \notin armed'
<1> DEFINE left == IF backlog[s] > CycleRows THEN backlog[s] - CycleRows ELSE 0
<1>1. backlog \in [Sessions -> Nat] /\ CycleRows \in Nat \ {0} /\ UNCHANGED episode /\ Tag' = Tag /\ s \in queued
  BY TencentAssumption DEF EndpointInv, L1Task, Tag
<1>2. left \in Nat /\ left <= backlog[s] /\ (backlog[s] < CycleRows => left = 0)
  BY <1>1
<1>3. /\ backlog' = [backlog EXCEPT ![s] = left]
      /\ queued' = IF left < CycleRows THEN queued \ {s} ELSE queued
      /\ armed' = IF left \in 1..(CycleRows - 1) THEN armed \cup {s} ELSE armed \ {s}
  BY DEF L1Task
<1> HIDE DEF left
<1>4. backlog'[s] = left /\ \A t \in Sessions : t # s => backlog'[t] = backlog[t]
  BY <1>1, <1>3
<1>5. \A t : t # s => (t \in queued' <=> t \in queued) /\ (t \in armed' <=> t \in armed)
  BY <1>3
<1>6. s \notin queued' => left < CycleRows
  BY <1>1, <1>3
<1>7. s \notin queued' /\ s \notin armed' => left = 0
  BY <1>1, <1>2, <1>3
<1>8. left = 0 => s \notin queued' /\ s \notin armed'
  BY <1>1, <1>3
<1>9. \A t \in Sessions \ {Tag} : /\ t \notin queued' => backlog'[t] < CycleRows
                                  /\ t \notin queued' /\ t \notin armed' => backlog'[t] = 0
  <2>1. ASSUME NEW t \in Sessions \ {Tag}
        PROVE  /\ t \notin queued' => backlog'[t] < CycleRows
               /\ t \notin queued' /\ t \notin armed' => backlog'[t] = 0
    <3>1. CASE t = s
      BY <1>4, <1>6, <1>7, <3>1
    <3>2. CASE t # s
      BY <1>4, <1>5, <3>2 DEF SessionInv
    <3>3. QED
      BY <3>1, <3>2
  <2>2. QED
    BY <2>1
<1>10. \A t \in queued' \cup armed' : t = Tag \/ t <= episode
  BY <1>1, <1>5 DEF SessionInv
<1>11. QED
  BY <1>1, <1>2, <1>4, <1>5, <1>8, <1>9, <1>10 DEF SessionInv

LEMMA TimerIs ==
    ASSUME SessionInv, NEW s \in Sessions, TimerFires(s)
    PROVE  SessionInv' /\ \A t : t # s => (t \in queued' <=> t \in queued) /\ (t \in armed' <=> t \in armed)
BY DEF SessionInv, TimerFires, Tag

\* The actions that leave the gateway alone.
Elsewhere ==
    \/ Crash \/ NothingToFlush \/ DrainIdle \/ IdleWait \/ TailIdle \/ DrainTimesOut
    \/ ResolvePage \/ ResolveFails \/ ExtractionRaises
    \/ (RecordMessage /\ UNCHANGED tencentVars) \/ \E f \in BOOLEAN : BeginExtraction(f)
    \/ EndpointOnly
    \/ UNCHANGED <<armVars, tencentVars>>

LEMMA ElsewhereIs == Elsewhere => UNCHANGED <<gateway, episode>>
BY DEF Elsewhere, Crash, NothingToFlush, DrainIdle, IdleWait, TailIdle, DrainTimesOut, ResolvePage, ResolveFails,
       ExtractionRaises, BeginExtraction, EndpointOnly, EndpointAdds, EndpointDrain, EndpointWait, EndpointTail,
       EndpointAnswers, EndpointFails, tencentVars

LEMMA NextIs ==
    ASSUME [TencentNext]_<<armVars, tencentVars>>
    PROVE  \/ Elsewhere \/ StartEpisode
           \/ \E s \in Sessions : L1Task(s) \/ TimerFires(s)
           \/ \E q, r \in BOOLEAN : SendChunk(q, r) \/ SendFails(q, r)
           \/ EndpointWrites
BY DEF TencentNext, Elsewhere, EndpointOnly, EndpointWrites

\* A chunk that may be on its way persists for the episode, or changes nothing.
LEMMA SendIs ==
    ASSUME BufferInv, EndpointInv, NEW q \in BOOLEAN, NEW r \in BOOLEAN, SendChunk(q, r) \/ SendFails(q, r)
    PROVE  /\ pc = "send" /\ episode \in Sessions /\ episode # Tag /\ UNCHANGED <<episode, rows>>
           /\ Len(Chunk) \in Nat
           /\ UNCHANGED gateway \/ \E b \in BOOLEAN : Persists(episode, Len(Chunk), b, r)
<1>1. pc = "send" /\ UNCHANGED <<episode, rows>>
  BY DEF SendChunk, SendFails, ChunkPersists, gateway
<1>2. episode \in Sessions /\ episode # Tag
  BY <1>1, SessionsAre DEF EndpointInv
<1>3. Len(Chunk) \in Nat
  BY ChunkIs DEF BufferInv, BufferType
<1>4. UNCHANGED gateway \/ ChunkPersists(q, r)
  BY DEF SendChunk, SendFails
<1>5. ChunkPersists(q, r) => \E b \in BOOLEAN : Persists(episode, Len(Chunk), b, r)
  BY DEF ChunkPersists
<1>6. QED
  BY <1>1, <1>2, <1>3, <1>4, <1>5

\* A chunk of the endpoint persists for its session, or changes nothing.
LEMMA WriteIs ==
    ASSUME EndpointInv, EndpointWrites
    PROVE  \/ UNCHANGED gateway
           \/ \E k \in Nat, b \in BOOLEAN, r \in BOOLEAN : Persists(Tag, k, b, r)
<1>1. EndpointChunk \in Nat
  BY EndpointChunkIs DEF EndpointInv
<1>2. ASSUME NEW q \in BOOLEAN, NEW r \in BOOLEAN, EndpointPersists(q, r)
      PROVE  \E k \in Nat, b \in BOOLEAN, c \in BOOLEAN : Persists(Tag, k, b, c)
  <2>1. PICK b \in BOOLEAN : Persists(Tag, EndpointChunk, b, r)
    BY <1>2 DEF EndpointPersists, EndpointInv
  <2>2. QED
    BY <1>1, <2>1
<1>3. QED
  BY <1>2, EndpointWritesIs

\* What it leaves alone of every other session.
LEMMA WriteLeaves ==
    ASSUME EndpointInv, EndpointWrites
    PROVE  /\ UNCHANGED <<armVars, rows, episode, delivery, query, clock, outcome>>
           /\ \A t \in Sessions : t # Tag => backlog'[t] = backlog[t]
           /\ \A t : t # Tag => (t \in queued' <=> t \in queued) /\ (t \in armed' <=> t \in armed)
           /\ unheard \subseteq unheard'
<1>1. UNCHANGED <<armVars, rows, episode, delivery, query, clock, outcome>>
  BY EndpointWritesIs
<1>2. backlog \in [Sessions -> Nat] /\ Tag \in Sessions
  BY SessionsAre DEF EndpointInv
<1>3. CASE UNCHANGED gateway
  BY <1>1, <1>3 DEF gateway
<1>4. ASSUME NEW k \in Nat, NEW b \in BOOLEAN, NEW r \in BOOLEAN, Persists(Tag, k, b, r)
      PROVE  /\ \A t \in Sessions : t # Tag => backlog'[t] = backlog[t]
             /\ \A t : t # Tag => (t \in queued' <=> t \in queued) /\ (t \in armed' <=> t \in armed)
             /\ unheard \subseteq unheard'
  BY <1>2, <1>4, PersistsLeaves
<1>5. QED
  BY <1>1, <1>3, <1>4, WriteIs

\* What went unheard stays so.
LEMMA LoudBefore ==
    ASSUME BufferInv, EndpointInv, [TencentNext]_<<armVars, tencentVars>>, Loud'
    PROVE  Loud
<1>1. unheard \subseteq unheard'
  <2>1. CASE Elsewhere \/ StartEpisode
    BY <2>1, ElsewhereIs DEF StartEpisode, gateway
  <2>2. ASSUME NEW s \in Sessions, L1Task(s) \/ TimerFires(s)
        PROVE  unheard \subseteq unheard'
    BY <2>2 DEF L1Task, TimerFires
  <2>3. ASSUME NEW q \in BOOLEAN, NEW r \in BOOLEAN, SendChunk(q, r) \/ SendFails(q, r)
        PROVE  unheard \subseteq unheard'
    <3>1. episode \in Sessions /\ Len(Chunk) \in Nat
          /\ (UNCHANGED gateway \/ \E b \in BOOLEAN : Persists(episode, Len(Chunk), b, r))
      BY <2>3, SendIs
    <3>2. QED
      BY <3>1, PersistsLeaves DEF gateway, EndpointInv
  <2>4. CASE EndpointWrites
    BY <2>4, WriteLeaves
  <2>5. QED
    BY <2>1, <2>2, <2>3, <2>4, NextIs
<1>2. QED
  BY <1>1 DEF Loud, Tag

LEMMA SessionStep ==
    ASSUME BufferInv, EndpointInv, Shape, SessionInv, [TencentNext]_<<armVars, tencentVars>>, Loud'
    PROVE  SessionInv'
<1>a. ASSUME UNCHANGED <<backlog, queued, armed>>, episode' \in Nat, episode <= episode'
      PROVE  SessionInv'
  <2>1. \A s \in queued \cup armed : s = Tag \/ s <= episode'
    <3>1. \A s \in queued \cup armed : s \in Nat
      BY SessionsAre DEF Shape
    <3>2. QED
      BY <1>a, <3>1, SessionsAre DEF SessionInv
  <2>2. QED
    BY <1>a, <2>1 DEF SessionInv, Tag
<1>1. CASE Elsewhere
  BY <1>a, <1>1, ElsewhereIs, SessionsAre DEF gateway
<1>2. CASE StartEpisode
  BY <1>a, <1>2, SessionsAre DEF StartEpisode, gateway
<1>3. ASSUME NEW s \in Sessions, L1Task(s) \/ TimerFires(s)
      PROVE  SessionInv'
  BY <1>3, TaskIs, TimerIs
<1>4. ASSUME NEW q \in BOOLEAN, NEW r \in BOOLEAN, SendChunk(q, r) \/ SendFails(q, r)
      PROVE  SessionInv'
  <2>1. /\ episode \in Sessions /\ episode # Tag /\ UNCHANGED episode /\ Len(Chunk) \in Nat
        /\ UNCHANGED gateway \/ \E b \in BOOLEAN : Persists(episode, Len(Chunk), b, r)
    BY <1>4, SendIs
  <2>2. CASE UNCHANGED gateway
    BY <1>a, <2>1, <2>2, SessionsAre DEF gateway
  <2>3. ASSUME NEW b \in BOOLEAN, Persists(episode, Len(Chunk), b, r)
        PROVE  SessionInv'
    <3>1. episode <= episode
      BY SessionsAre
    <3>2. episode \notin unheard'
      BY <2>1 DEF Loud, Tag
    <3>3. r
      BY <2>3, <3>2 DEF Persists
    <3>4. QED
      BY <2>1, <2>3, <3>1, <3>3, PersistsIs
  <2>4. QED
    BY <2>1, <2>2, <2>3
<1>5. CASE EndpointWrites
  <2>1. UNCHANGED episode /\ Tag \in Sessions
    BY <1>5, WriteLeaves, SessionsAre
  <2>2. CASE UNCHANGED gateway
    BY <1>a, <2>1, <2>2, SessionsAre DEF gateway
  <2>3. ASSUME NEW k \in Nat, NEW b \in BOOLEAN, NEW r \in BOOLEAN, Persists(Tag, k, b, r)
        PROVE  SessionInv'
    BY <2>1, <2>3, PersistsIs
  <2>4. QED
    BY <1>5, <2>2, <2>3, WriteIs
<1>6. QED
  BY <1>1, <1>2, <1>3, <1>4, <1>5, NextIs

-----------------------------------------------------------------------------
(* The stages of an extraction.                                            *)

\* A stage that ends hands on what the next one needs.
LEMMA StageElsewhere ==
    ASSUME BufferInv, EndpointInv, Shape, SessionInv, StageInv, Elsewhere
    PROVE  StageInv'
<1>1. UNCHANGED <<backlog, queued, armed, rows, episode>>
  BY ElsewhereIs DEF gateway
<1>2. Untouched' = Untouched /\ \A s : AtRest(s)' = AtRest(s)
  BY <1>1 DEF Untouched, AtRest
<1> USE DEF StageInv, Intact, Drained
<1>a. ASSUME UNCHANGED <<pending, sent, added, watermark, final, whole, due, pc, gaveUp>>
      PROVE  StageInv'
  BY <1>1, <1>2, <1>a
<1>3. CASE UNCHANGED <<armVars, tencentVars>>
  BY <1>a, <1>3 DEF armVars, tencentVars, delivery, outcome
<1>4. CASE Crash
  BY <1>1, <1>2, <1>4 DEF Crash, delivery, outcome
<1>5. CASE NothingToFlush
  <2>1. /\ pc = "idle" /\ pending = <<>> /\ ~added /\ pc' = "closed" /\ whole' = TRUE
        /\ UNCHANGED <<pending, sent, added, watermark, final, due, gaveUp>>
    BY <1>5 DEF NothingToFlush, delivery
  <2>2. AtRest(episode)
    BY <2>1 DEF Untouched
  <2>3. QED
    BY <1>1, <1>2, <2>1, <2>2
<1>6. CASE DrainIdle
  <2>1. /\ pc = "drain" /\ queued = {}
        /\ UNCHANGED <<pending, sent, added, watermark, final, whole, gaveUp>>
        /\ IF final THEN pc' = "wait" /\ due' = armed ELSE pc' = "resolve" /\ UNCHANGED due
    BY <1>6 DEF DrainIdle, outcome
  <2>2. backlog[episode] < CycleRows
    BY <2>1, SessionsAre DEF SessionInv, EndpointInv
  <2>3. QED
    BY <1>1, <1>2, <2>1, <2>2
<1>7. CASE IdleWait
  <2>1. /\ pc = "wait" /\ due = {} /\ pc' = "tail"
        /\ UNCHANGED <<pending, sent, added, watermark, final, whole, due, gaveUp>>
    BY <1>7 DEF IdleWait, TimersFired, tencentVars, delivery, outcome
  <2>2. QED
    BY <1>1, <1>2, <2>1
<1>8. CASE TailIdle
  <2>1. /\ pc = "tail" /\ queued = {} /\ pc' = "resolve"
        /\ UNCHANGED <<pending, sent, added, watermark, final, whole, due, gaveUp>>
    BY <1>8 DEF TailIdle, delivery, outcome
  <2>2. AtRest(episode)
    BY <2>1 DEF AtRest
  <2>3. QED
    BY <1>1, <1>2, <2>1, <2>2
<1>9. CASE DrainTimesOut
  BY <1>1, <1>2, <1>9 DEF DrainTimesOut, tencentVars, delivery, outcome
<1>10. CASE ResolvePage
  <2>1. /\ pc = "resolve"
        /\ UNCHANGED <<pending, sent, added, watermark, final, due, gaveUp>>
        /\ UNCHANGED <<pc, whole>> \/ (pc' = Resume /\ whole' = final)
    BY <1>10 DEF ResolvePage, delivery
  <2>2. CASE UNCHANGED <<pc, whole>>
    BY <1>a, <2>1, <2>2
  <2>3. CASE pc' = Resume /\ whole' = final
    BY <1>1, <1>2, <2>1, <2>3 DEF Resume, Shape
  <2>4. QED
    BY <2>1, <2>2, <2>3
<1>11. CASE ResolveFails
  BY <1>1, <1>2, <1>11 DEF ResolveFails, delivery, outcome
<1>12. CASE ExtractionRaises
  <2>1. /\ pc = "raise" /\ pc' = Resume /\ (final => gaveUp' = TRUE) /\ (~final => gaveUp' = gaveUp)
        /\ UNCHANGED <<pending, sent, added, watermark, final, whole, due>>
    BY <1>12 DEF ExtractionRaises, delivery
  <2>2. QED
    BY <1>1, <1>2, <2>1 DEF Resume, Shape
<1>13. CASE RecordMessage /\ UNCHANGED tencentVars
  <2>1. pc = "idle" /\ pending' = Append(pending, recorded') /\ recorded' \in Nat
        /\ UNCHANGED <<pc, sent, added, watermark, final, whole, due, gaveUp>>
    BY <1>13, BufferFacts DEF RecordMessage, tencentVars, delivery, outcome, BufferInv
  <2>2. pending' # <<>>
    <3>1. recorded' \in Message
      BY <1>13, BufferFacts, MessageIs DEF RecordMessage, BufferInv
    <3>2. pending \in Seq(Message)
      BY DEF BufferInv, BufferType
    <3>3. Len(pending') = Len(pending) + 1 /\ Len(pending) \in Nat
      BY <2>1, <3>1, <3>2
    <3>4. QED
      BY <3>3
  <2>3. QED
    BY <1>1, <1>2, <2>1, <2>2
<1>14. ASSUME NEW f \in BOOLEAN, BeginExtraction(f)
       PROVE  StageInv'
  <2>1. /\ pc = "idle" /\ final' = f /\ pc' = IF pending # <<>> THEN "send" ELSE "drain"
        /\ UNCHANGED <<pending, sent, added, whole, due, gaveUp>>
        /\ (pending # <<>> /\ watermark = 0 => watermark' = now + 1)
        /\ (~(pending # <<>> /\ watermark = 0) => watermark' = watermark)
        /\ pending # <<>> \/ (f /\ added)
    BY <1>14 DEF BeginExtraction, outcome
  <2>2. pending # <<>> => watermark' # 0
    BY <2>1 DEF Shape
  <2>3. pending # <<>> => sent < Len(pending)
    <3>1. sent = 0 /\ pending \in Seq(Message)
      BY <2>1 DEF BufferInv, BufferType
    <3>2. QED
      BY <3>1
  <2>4. watermark' = 0 => watermark = 0
    BY <2>1 DEF Shape
  <2>5. QED
    BY <1>1, <1>2, <2>1, <2>2, <2>3, <2>4
<1>15. CASE EndpointOnly
  BY <1>a, <1>15, EndpointOnlyIs DEF armVars, delivery, outcome
<1>16. QED
  BY <1>3, <1>4, <1>5, <1>6, <1>7, <1>8, <1>9, <1>10, <1>11, <1>12, <1>13, <1>14, <1>15 DEF Elsewhere

\* The next episode starts from an episode at rest.
LEMMA StageStart ==
    ASSUME BufferInv, EndpointInv, Shape, SessionInv, StageInv, RowInv, StartEpisode
    PROVE  StageInv'
<1>1. /\ pc' = "idle" /\ pc \in {"down", "closed"} /\ final' = FALSE /\ pending' = <<>> /\ sent' = 0 /\ added' = FALSE /\ watermark' = 0
      /\ whole' = FALSE /\ episode' = episode + 1 /\ UNCHANGED <<backlog, queued, armed, rows, gaveUp>>
  BY DEF StartEpisode, gateway
<1>2. episode \in Nat /\ episode + 1 < Tag
  BY TencentAssumption DEF EndpointInv, StartEpisode, Tag
<1>3. \A s \in queued \cup armed : s = Tag \/ s <= episode
  BY DEF SessionInv
<1>4. \A s : AtRest(s)' = AtRest(s)
  BY <1>1 DEF AtRest
<1>5. AtRest(episode + 1)
  BY <1>2, <1>3 DEF AtRest
<1>6. \A i \in DOMAIN rows : rows[i].of # episode + 1
  BY <1>2 DEF RowInv
<1>7. Untouched'
  BY <1>1, <1>4, <1>5, <1>6 DEF Untouched
<1>8. ~gaveUp => \A s \in 1..episode : AtRest(s)
  <2>1. ASSUME ~gaveUp, NEW s \in 1..episode
        PROVE  AtRest(s)
    <3>1. CASE s = episode
      <4>1. episode > 0 /\ Intact
        BY <1>2, <2>1, <3>1 DEF StageInv
      <4>2. Drained
        BY <1>1, <4>1 DEF Intact, Drained
      <4>3. QED
        BY <3>1, <4>2 DEF StageInv
    <3>2. CASE s # episode
      <4>1. s \in 1..(episode - 1)
        BY <1>2, <3>2
      <4>2. QED
        BY <2>1, <4>1 DEF StageInv
    <3>3. QED
      BY <3>1, <3>2
  <2>2. QED
    BY <2>1
<1>9. \A s \in 1..(episode' - 1) : s \in 1..episode
  BY <1>1, <1>2
<1>10. QED
  BY <1>1, <1>4, <1>7, <1>8, <1>9 DEF StageInv, Intact, Drained

\* An add persists for the episode only while it sends.
LEMMA StageSend ==
    ASSUME BufferInv, EndpointInv, Shape, SessionInv, StageInv,
           NEW q \in BOOLEAN, NEW r \in BOOLEAN, SendChunk(q, r) \/ SendFails(q, r)
    PROVE  StageInv'
<1>1. /\ pc = "send" /\ episode \in Sessions /\ UNCHANGED <<episode, rows>> /\ Len(Chunk) \in Nat
      /\ UNCHANGED gateway \/ \E b \in BOOLEAN : Persists(episode, Len(Chunk), b, r)
  BY SendIs
<1>2. sent < Len(pending) /\ watermark # 0 /\ pending # <<>> /\ episode > 0
  <2>1. sent < Len(pending) /\ watermark # 0
    BY <1>1 DEF StageInv
  <2>2. pending \in Seq(Message) /\ sent \in Nat
    BY BufferFacts DEF BufferInv, BufferType
  <2>3. QED
    BY <1>1, <2>1, <2>2, SessionsAre
<1>3. UNCHANGED <<final, watermark, whole, gaveUp>>
  BY DEF SendChunk, SendFails, outcome
<1>4. \A s : s # episode => AtRest(s)' = AtRest(s)
  <2>1. CASE UNCHANGED gateway
    BY <2>1 DEF AtRest, gateway
  <2>2. ASSUME NEW b \in BOOLEAN, Persists(episode, Len(Chunk), b, r)
        PROVE  \A s : s # episode => AtRest(s)' = AtRest(s)
    <3>1. \A t : t # episode => (t \in queued' <=> t \in queued) /\ (t \in armed' <=> t \in armed)
      BY <1>1, <2>2, PersistsLeaves DEF EndpointInv
    <3>2. QED
      BY <3>1 DEF AtRest
  <2>3. QED
    BY <1>1, <2>1, <2>2
<1>5. ~gaveUp => \A s \in 1..(episode - 1) : AtRest(s)'
  <2>1. \A s \in 1..(episode - 1) : s # episode
    BY SessionsAre
  <2>2. QED
    BY <1>4, <2>1 DEF StageInv
<1>6. \/ pc' = "send" /\ sent' < Len(pending') /\ pending' # <<>>
      \/ pc' = "drain" /\ added' = TRUE
      \/ pc' = "raise" /\ pending' # <<>>
  <2>1. CASE SendChunk(q, r)
    <3>1. \/ sent' = sent + Len(Chunk) /\ sent' < Len(pending) /\ UNCHANGED <<pc, pending>>
          \/ pc' = "drain" /\ added' = TRUE
      BY <2>1 DEF SendChunk
    <3>2. CASE sent' = sent + Len(Chunk) /\ sent' < Len(pending) /\ UNCHANGED <<pc, pending>>
      <4>1. pc' = "send" /\ pending' = pending
        BY <1>1, <3>2
      <4>2. sent' < Len(pending') /\ pending' # <<>>
        BY <1>2, <3>2, <4>1
      <4>3. QED
        BY <4>1, <4>2
    <3>3. QED
      BY <3>1, <3>2
  <2>2. CASE SendFails(q, r)
    <3>1. pc' = "raise" /\ pending' = SubSeq(pending, sent + 1, Len(pending))
      BY <2>2 DEF SendFails
    <3>2. pending \in Seq(Message) /\ sent \in 0..Len(pending) /\ Len(pending) \in sent..Len(pending)
      BY BufferFacts DEF BufferInv, BufferType
    <3>3. pending' \in Seq(Message) /\ Len(pending') = Len(pending) - sent
      BY <3>1, <3>2, SliceIs
    <3>4. Len(pending') > 0
      BY <1>2, <3>2, <3>3
    <3>5. pending' # <<>>
      BY <3>4
    <3>6. QED
      BY <3>1, <3>5, Zenon
  <2>3. QED
    BY <2>1, <2>2
<1>7. ~whole
  BY <1>1 DEF StageInv
<1>8. QED
  BY <1>1, <1>2, <1>3, <1>5, <1>6, <1>7 DEF StageInv, Intact, Drained

\* Tasks and timers of the episode; the episode's tail once its backlog is less than a cycle.
LEMMA StageGateway ==
    ASSUME BufferInv, EndpointInv, Shape, SessionInv, StageInv, NEW s \in Sessions, L1Task(s) \/ TimerFires(s)
    PROVE  StageInv'
<1>1. /\ s \in queued \/ s \in armed
      /\ UNCHANGED <<armVars, episode, sent, added, watermark, outcome>>
      /\ \A t : t # s => (t \in queued' <=> t \in queued) /\ (t \in armed' <=> t \in armed)
  BY TaskIs, TimerIs DEF L1Task, TimerFires, delivery
<1>2. UNCHANGED <<pc, final, pending, sent, added, watermark, whole, gaveUp, episode>>
  BY <1>1 DEF armVars, outcome
<1>3. \A t : AtRest(t) => AtRest(t)'
  BY <1>1 DEF AtRest
<1>4. Untouched => Untouched'
  <2>1. ASSUME Untouched
        PROVE  Untouched'
    <3>1. s # episode
      BY <1>1, <2>1 DEF Untouched, AtRest
    <3>2. KeptRows /\ NewRows(s)
      BY ExtractsIs DEF L1Task, TimerFires, Shape, KeptRows, NewRows
    <3>3. \A i \in DOMAIN rows' : rows'[i].of # episode
      BY <2>1, <3>1, <3>2 DEF KeptRows, NewRows, Untouched
    <3>4. QED
      BY <1>2, <1>3, <2>1, <3>3 DEF Untouched
  <2>2. QED
    BY <2>1
<1>5. pc \in {"wait", "tail"} => backlog'[episode] < CycleRows
  <2>1. ASSUME pc \in {"wait", "tail"}
        PROVE  backlog'[episode] < CycleRows
    <3>1. backlog[episode] < CycleRows /\ episode \in Sessions
      BY <2>1, SessionsAre DEF StageInv, EndpointInv
    <3>2. CASE L1Task(s)
      BY <3>1, <3>2, TaskIs, TencentAssumption
    <3>3. CASE TimerFires(s)
      BY <3>1, <3>3 DEF TimerFires
    <3>4. QED
      BY <3>2, <3>3
  <2>2. QED
    BY <2>1
<1>6. /\ (pc = "wait" /\ episode \in armed' => episode \in due')
      /\ (pc = "tail" => episode \notin armed')
  <2>1. ASSUME pc \in {"wait", "tail"}
        PROVE  /\ (pc = "wait" /\ episode \in armed' => episode \in due')
               /\ (pc = "tail" => episode \notin armed')
    <3>1. backlog[episode] < CycleRows /\ episode \in Sessions
      BY <2>1, SessionsAre DEF StageInv, EndpointInv
    <3>2. CASE L1Task(s)
      <4>1. due' = due
        BY <3>2 DEF L1Task, delivery
      <4>2. s = episode => episode \notin armed'
        BY <3>1, <3>2, TaskIs
      <4>3. QED
        BY <1>1, <4>1, <4>2 DEF StageInv
    <3>3. CASE TimerFires(s)
      BY <3>3 DEF TimerFires, StageInv
    <3>4. QED
      BY <3>2, <3>3
  <2>2. QED
    BY <2>1
<1>7. QED
  BY <1>2, <1>3, <1>4, <1>5, <1>6 DEF StageInv, Intact, Drained

LEMMA StageStep ==
    ASSUME BufferInv, EndpointInv, Shape, SessionInv, StageInv, RowInv, [TencentNext]_<<armVars, tencentVars>>
    PROVE  StageInv'
<1>1. CASE EndpointWrites
  <2>1. /\ UNCHANGED <<pc, final, pending, sent, added, watermark, whole, gaveUp, episode, due, rows>>
        /\ \A t \in Sessions : t # Tag => backlog'[t] = backlog[t]
        /\ \A t : t # Tag => (t \in queued' <=> t \in queued) /\ (t \in armed' <=> t \in armed)
    BY <1>1, WriteLeaves DEF armVars, delivery, outcome
  <2>2. episode # Tag /\ (pc # "down" => episode \in Sessions) /\ \A s \in 1..(episode - 1) : s # Tag
    BY SessionsAre DEF EndpointInv
  <2>3. \A s : s # Tag => AtRest(s)' = AtRest(s)
    BY <2>1 DEF AtRest
  <2>4. Untouched' = Untouched
    BY <2>1, <2>2, <2>3 DEF Untouched
  <2>5. pc # "down" => backlog'[episode] = backlog[episode]
    BY <2>1, <2>2, SessionsAre DEF EndpointInv
  <2>6. QED
    BY <2>1, <2>2, <2>3, <2>4, <2>5 DEF StageInv, Intact, Drained
<1>2. QED
  BY <1>1, NextIs, StageElsewhere, StageStart, StageSend, StageGateway

-----------------------------------------------------------------------------
(* Rows and their moments.                                                 *)

LEMMA RowFacts ==
    ASSUME Shape, RowInv
    PROVE  /\ now \in Nat /\ watermark \in Nat
           /\ \A i \in DOMAIN rows : rows[i] \in Row /\ rows[i].at \in Nat /\ rows[i].of \in Sessions /\ rows[i].at <= now
<1>1. \A i \in DOMAIN rows : rows[i] \in Row
  BY DEF Shape
<1>2. QED
  BY <1>1 DEF Shape, RowInv, Row

LEMMA RowStep ==
    ASSUME EndpointInv, Shape, SessionInv, StageInv, RowInv, [TencentNext]_<<armVars, tencentVars>>
    PROVE  RowInv' /\ now <= now'
<1>0. /\ now \in Nat /\ watermark \in Nat /\ watermark <= now /\ episode \in Nat
      /\ \A i \in DOMAIN rows : rows[i].at \in Nat /\ rows[i].at <= now
  BY RowFacts, SessionsAre DEF RowInv
<1>a. ASSUME UNCHANGED <<rows, watermark, episode>>, now' \in Nat, now <= now'
      PROVE  RowInv' /\ now <= now'
  <2>1. \A i \in DOMAIN rows : rows[i].at <= now'
    BY <1>0, <1>a
  <2>2. watermark <= now'
    BY <1>0, <1>a
  <2>3. QED
    BY <1>a, <2>1, <2>2 DEF RowInv, Tag
<1>1. CASE Elsewhere
  <2>1. UNCHANGED <<rows, episode>>
    BY <1>1, ElsewhereIs DEF gateway
  <2>2. CASE RecordDrain /\ UNCHANGED watermark
    BY <1>0, <1>a, <2>1, <2>2, DrainIs
  <2>3. CASE UNCHANGED <<now, watermark>>
    BY <1>0, <1>a, <2>1, <2>3
  <2>4. ASSUME watermark = 0, watermark' = now + 1, now' = now + 1
        PROVE  RowInv' /\ now <= now'
    <3>1. \A i \in DOMAIN rows : rows[i].of # episode
      BY <2>4 DEF StageInv, Untouched
    <3>2. now + 1 \in Nat /\ now <= now + 1 /\ \A i \in DOMAIN rows : rows[i].at <= now + 1
      BY <1>0
    <3>3. \A i \in DOMAIN rows : rows[i].of = Tag \/ rows[i].of \in 1..episode
      BY DEF RowInv
    <3>4. QED
      BY <2>1, <2>4, <3>1, <3>2, <3>3 DEF RowInv, Tag
  <2>5. \/ RecordDrain /\ UNCHANGED watermark
        \/ UNCHANGED <<now, watermark>>
        \/ watermark = 0 /\ watermark' = now + 1 /\ now' = now + 1
    <3>1. CASE NothingToFlush \/ TailIdle \/ ExtractionRaises
      BY <3>1 DEF NothingToFlush, TailIdle, ExtractionRaises, delivery, clock
    <3>2. CASE \E f \in BOOLEAN : BeginExtraction(f)
      BY <3>2 DEF BeginExtraction
    <3>3. CASE Crash \/ DrainIdle \/ IdleWait \/ DrainTimesOut \/ ResolvePage \/ ResolveFails
      BY <3>3 DEF Crash, DrainIdle, IdleWait, DrainTimesOut, ResolvePage, ResolveFails, tencentVars, delivery, clock
    <3>4. CASE (RecordMessage /\ UNCHANGED tencentVars) \/ UNCHANGED <<armVars, tencentVars>>
      BY <3>4 DEF tencentVars, delivery, clock
    <3>5. CASE EndpointOnly
      BY <3>5, EndpointOnlyIs DEF delivery, clock
    <3>6. QED
      BY <1>1, <3>1, <3>2, <3>3, <3>4, <3>5 DEF Elsewhere
  <2>6. QED
    BY <2>2, <2>3, <2>4, <2>5
<1>2. CASE StartEpisode
  <2>1. now' = now + 1 /\ episode' = episode + 1 /\ watermark' = 0 /\ UNCHANGED rows
    BY <1>2 DEF StartEpisode, gateway
  <2>2. now + 1 \in Nat /\ now <= now + 1 /\ \A i \in DOMAIN rows : rows[i].at <= now + 1 /\ rows[i].at >= 0
    BY <1>0
  <2>3. \A i \in DOMAIN rows : rows[i].of = Tag \/ rows[i].of \in 1..(episode + 1)
    BY <1>0 DEF RowInv
  <2>4. QED
    BY <2>1, <2>2, <2>3 DEF RowInv, Tag
<1>3. ASSUME NEW s \in Sessions, L1Task(s) \/ TimerFires(s)
      PROVE  RowInv' /\ now <= now'
  <2>1. UNCHANGED <<now, watermark, episode>>
    BY <1>3 DEF L1Task, TimerFires, delivery, clock
  <2>2. CASE L1Task(s)
    <3>1. KeptRows /\ NewRows(s)
      BY <2>2, ExtractsIs DEF L1Task, Shape
    <3>2. s = Tag \/ s \in 1..episode
      BY <2>2, SessionsAre DEF L1Task, SessionInv
    <3>3. \A i \in DOMAIN rows : rows'[i].of = rows[i].of /\ rows'[i].at = rows[i].at
      BY <3>1 DEF KeptRows
    <3>4. \A i \in DOMAIN rows' : i \in DOMAIN rows \/ (rows'[i].of = s /\ rows'[i].at = now)
      BY <3>1 DEF NewRows
    <3>5. QED
      BY <1>0, <2>1, <3>2, <3>3, <3>4 DEF RowInv, Tag
  <2>3. CASE TimerFires(s)
    BY <1>0, <1>a, <2>1, <2>3 DEF TimerFires
  <2>4. QED
    BY <1>3, <2>2, <2>3
<1>4. ASSUME NEW q \in BOOLEAN, NEW r \in BOOLEAN, SendChunk(q, r) \/ SendFails(q, r)
      PROVE  RowInv' /\ now <= now'
  BY <1>0, <1>a, <1>4 DEF SendChunk, SendFails, ChunkPersists, gateway, clock
<1>5. CASE EndpointWrites
  BY <1>0, <1>a, <1>5, EndpointWritesIs DEF delivery, clock
<1>6. QED
  BY <1>1, <1>2, <1>3, <1>4, <1>5, NextIs

-----------------------------------------------------------------------------
(* The windows that are read back.                                         *)

\* A window stands for a start record and, if it is closed, for a drain record.
Documented(ws, n) ==
    /\ \A j \in DOMAIN ws :
         /\ \E k \in 1..n : sidecar[k].event = "start" /\ sidecar[k].of = ws[j].of /\ sidecar[k].at = ws[j].start
         /\ ws[j].end = 0 \/ \E k \in 1..n : sidecar[k].event = "drain" /\ sidecar[k].of = ws[j].of /\ sidecar[k].at = ws[j].end
    /\ \A j, k \in DOMAIN ws : j < k => ws[j].of < ws[k].of

LEMMA OneMoreRecord ==
    ASSUME sidecar \in Seq(Record), NEW n \in Nat, n + 1 \in 1..Len(sidecar), NEW ws \in Seq(Window), Documented(ws, n),
           \A j, k \in DOMAIN sidecar :
             j < k /\ sidecar[j].event = "start" /\ sidecar[k].event = "start" => sidecar[j].of < sidecar[k].of
    PROVE  Documented(Replayed(ws, sidecar[n + 1]), n + 1)
<1> DEFINE r == sidecar[n + 1]
           m == n + 1
<1>1. r.event \in {"start", "drain"} /\ r.of \in Nat /\ r.at \in Nat
  <2>1. r \in Record
    OBVIOUS
  <2>2. QED
    BY <2>1 DEF Record
<1>2. m \in 1..m /\ \A k \in 1..n : k \in 1..m /\ k \in DOMAIN sidecar /\ k < m
  OBVIOUS
<1>3. m \in DOMAIN sidecar
  OBVIOUS
<1>4. \A j \in DOMAIN ws : ws[j].of \in Nat
  <2>1. \A j \in DOMAIN ws : ws[j] \in Window
    OBVIOUS
  <2>2. QED
    BY <2>1 DEF Window
<1>5. CASE r.event = "start"
  <2> DEFINE w == Opens(r.of, r.at)
  <2>1. w \in Window /\ w.of = r.of /\ w.start = r.at /\ w.end = 0
    BY <1>1 DEF Opens, Window
  <2> HIDE DEF w
  <2>2. /\ Append(ws, w) \in Seq(Window) /\ DOMAIN Append(ws, w) = DOMAIN ws \cup {Len(ws) + 1}
        /\ \A i \in DOMAIN ws : Append(ws, w)[i] = ws[i] /\ i < Len(ws) + 1
        /\ Append(ws, w)[Len(ws) + 1] = w
    BY <2>1, AppendedIs
  <2>3. Replayed(ws, r) = Append(ws, w)
    BY <1>5 DEF Replayed, w
  <2>4. \A j \in DOMAIN ws : ws[j].of < r.of
    <3>1. ASSUME NEW j \in DOMAIN ws
          PROVE  ws[j].of < r.of
      <4>1. PICK k \in 1..n : sidecar[k].event = "start" /\ sidecar[k].of = ws[j].of
        BY DEF Documented
      <4>2. k \in DOMAIN sidecar /\ k < m
        BY <1>2
      <4>3. QED
        BY <1>3, <1>5, <4>1, <4>2
    <3>2. QED
      BY <3>1
  <2> DEFINE vs == Append(ws, w)
  <2> HIDE DEF vs, r, m
  <2>5. /\ DOMAIN vs = DOMAIN ws \cup {Len(ws) + 1} /\ vs[Len(ws) + 1] = w
        /\ \A i \in DOMAIN ws : vs[i] = ws[i] /\ i < Len(ws) + 1 /\ i \in Nat
    BY <2>2 DEF vs
  <2>6. \A j \in DOMAIN vs :
         /\ \E k \in 1..m : sidecar[k].event = "start" /\ sidecar[k].of = vs[j].of /\ sidecar[k].at = vs[j].start
         /\ vs[j].end = 0 \/ \E k \in 1..m : sidecar[k].event = "drain" /\ sidecar[k].of = vs[j].of /\ sidecar[k].at = vs[j].end
    <3>1. ASSUME NEW j \in DOMAIN ws
          PROVE  /\ \E k \in 1..m : sidecar[k].event = "start" /\ sidecar[k].of = ws[j].of /\ sidecar[k].at = ws[j].start
                 /\ \/ ws[j].end = 0
                    \/ \E k \in 1..m : sidecar[k].event = "drain" /\ sidecar[k].of = ws[j].of /\ sidecar[k].at = ws[j].end
      BY <1>2 DEF Documented
    <3>2. sidecar[m] = r /\ m \in 1..m
      BY <1>2 DEF r, m
    <3>3. ASSUME NEW j \in DOMAIN vs
          PROVE  /\ \E k \in 1..m : sidecar[k].event = "start" /\ sidecar[k].of = vs[j].of /\ sidecar[k].at = vs[j].start
                 /\ \/ vs[j].end = 0
                    \/ \E k \in 1..m : sidecar[k].event = "drain" /\ sidecar[k].of = vs[j].of /\ sidecar[k].at = vs[j].end
      <4>1. CASE j \in DOMAIN ws
        <5>1. vs[j] = ws[j]
          BY <2>5, <4>1
        <5>2. QED
          BY <3>1, <4>1, <5>1
      <4>2. CASE j = Len(ws) + 1
        <5>1. vs[j].of = r.of /\ vs[j].start = r.at /\ vs[j].end = 0
          BY <2>1, <2>5, <4>2
        <5>2. QED
          BY <1>5, <3>2, <5>1
      <4>3. QED
        BY <2>5, <4>1, <4>2
    <3>4. QED
      BY <3>3
  <2>7. \A j, k \in DOMAIN vs : j < k => vs[j].of < vs[k].of
    <3>1. \A j, k \in DOMAIN ws : j < k => ws[j].of < ws[k].of
      BY DEF Documented
    <3>2. Len(ws) + 1 \in Nat /\ ~(Len(ws) + 1 < Len(ws) + 1)
      OBVIOUS
    <3>3. \A j \in DOMAIN ws : ~(Len(ws) + 1 < j)
      BY <2>5, <3>2
    <3>4. QED
      BY <2>1, <2>4, <2>5, <3>1, <3>2, <3>3
  <2>8. Documented(vs, m)
    BY <2>6, <2>7 DEF Documented
  <2>9. Replayed(ws, r) = vs
    BY <2>3 DEF vs
  <2>10. QED
    BY <2>8, <2>9 DEF r, m
<1>6. CASE r.event = "drain"
  <2> DEFINE vs == Closes(ws, r.of, r.at)
  <2>1. /\ vs \in Seq(Window) /\ Len(vs) = Len(ws)
        /\ \A j \in 1..Len(ws) : /\ vs[j].of = ws[j].of /\ vs[j].start = ws[j].start
                                 /\ vs[j].end = ws[j].end \/ (ws[j].of = r.of /\ vs[j].end = r.at)
    BY <1>1, ClosesIs
  <2>2. Replayed(ws, r) = vs
    BY <1>6 DEF Replayed
  <2>3. DOMAIN vs = DOMAIN ws /\ DOMAIN ws = 1..Len(ws)
    BY <2>1
  <2>4. sidecar[m] = r /\ m \in 1..m
    BY <1>2
  <2> HIDE DEF vs, r, m
  <2>5. ASSUME NEW j \in DOMAIN vs
        PROVE  /\ \E k \in 1..m : sidecar[k].event = "start" /\ sidecar[k].of = vs[j].of /\ sidecar[k].at = vs[j].start
               /\ \/ vs[j].end = 0
                  \/ \E k \in 1..m : sidecar[k].event = "drain" /\ sidecar[k].of = vs[j].of /\ sidecar[k].at = vs[j].end
    <3>1. /\ \E k \in 1..n : sidecar[k].event = "start" /\ sidecar[k].of = ws[j].of /\ sidecar[k].at = ws[j].start
          /\ \/ ws[j].end = 0
             \/ \E k \in 1..n : sidecar[k].event = "drain" /\ sidecar[k].of = ws[j].of /\ sidecar[k].at = ws[j].end
      BY <2>3 DEF Documented
    <3>2. /\ vs[j].of = ws[j].of /\ vs[j].start = ws[j].start
          /\ vs[j].end = ws[j].end \/ (ws[j].of = r.of /\ vs[j].end = r.at)
      BY <2>1, <2>3
    <3>3. QED
      BY <1>2, <1>6, <2>4, <3>1, <3>2
  <2>6. \A j, k \in DOMAIN vs : j < k => vs[j].of < vs[k].of
    BY <2>1, <2>3 DEF Documented
  <2>7. QED
    BY <2>2, <2>5, <2>6 DEF Documented, r, m
<1>7. QED
  BY <1>1, <1>5, <1>6

LEMMA LoadedAreDocumented ==
    ASSUME sidecar \in Seq(Record),
           \A j, k \in DOMAIN sidecar :
             j < k /\ sidecar[j].event = "start" /\ sidecar[k].event = "start" => sidecar[j].of < sidecar[k].of
    PROVE  Documented(LoadWindows, Len(sidecar))
<1> DEFINE N == Len(sidecar)
<1>1. PICK f : LoadsBy(f) /\ LoadWindows = f[N]
  BY LoadedIs
<1> DEFINE T == {n \in 0..N : Documented(f[n], n)}
<1>2. N \in Nat
  OBVIOUS
<1>3. 0 \in T
  <2>1. f[0] = <<>> /\ DOMAIN <<>> = {}
    BY <1>1 DEF LoadsBy
  <2>2. QED
    BY <1>2, <2>1 DEF Documented
<1>4. ASSUME NEW n \in 0..(N - 1), n \in T
      PROVE  n + 1 \in T
  <2>1. n \in 0..N /\ n \in Nat /\ n + 1 \in 1..N /\ n + 1 \in 0..N /\ (n + 1) - 1 = n
    BY <1>2
  <2>2. f[n] \in Seq(Window) /\ f[n + 1] = Replayed(f[n], sidecar[n + 1])
    BY <1>1, <2>1 DEF LoadsBy
  <2>3. Documented(f[n], n)
    BY <1>4
  <2>4. Documented(f[n + 1], n + 1)
    BY <2>1, <2>2, <2>3, OneMoreRecord
  <2>5. QED
    BY <2>1, <2>4
<1> HIDE DEF T
<1>5. \A n \in 0..N : n \in T
  BY <1>2, <1>3, <1>4, UpToInduction
<1>6. N \in T
  BY <1>2, <1>5
<1>7. QED
  BY <1>1, <1>6 DEF T

-----------------------------------------------------------------------------
(* Windows and records: a step leaves them alone, closes the window of the *)
(* episode, or starts the next episode.                                    *)

Quiet ==
    /\ UNCHANGED <<windows, sidecar, episode>>
    /\ watermark' = watermark \/ (watermark = 0 /\ watermark' = now + 1)
    /\ gaveUp => gaveUp'
    /\ Going' => Going
    /\ Intact' => Intact
    /\ AtRest(episode) => AtRest(episode)' \/ Going
    /\ rows' = rows \/ \E s \in queued : KeptRows /\ NewRows(s)

Draining ==
    /\ RecordDrain
    /\ UNCHANGED <<rows, queued, armed, watermark, episode>>
    /\ pc \notin {"down", "closed"} /\ ~Going'
    /\ pc' # "raise"
    /\ gaveUp => gaveUp'
    /\ ~gaveUp' => Intact'
    /\ Intact' => AtRest(episode)

LEMMA StepIs ==
    ASSUME BufferInv, EndpointInv, Shape, StageInv, [TencentNext]_<<armVars, tencentVars>>
    PROVE  Quiet \/ Draining \/ StartEpisode
<1> USE DEF Quiet, Going, Intact
<1>a. ASSUME UNCHANGED <<rows, queued, armed, windows, sidecar, episode, watermark, pc, final, whole, gaveUp>>
      PROVE  Quiet
  BY <1>a DEF AtRest
<1>b. ASSUME UNCHANGED <<rows, queued, armed, windows, sidecar, episode, watermark, gaveUp>>,
             pc \in {"idle", "send", "drain", "wait", "tail"}
      PROVE  Quiet
  BY <1>b DEF AtRest
<1>1. CASE Elsewhere
  <2>1. UNCHANGED <<rows, queued, armed, episode>>
    BY <1>1, ElsewhereIs DEF gateway
  <2>2. CASE Crash
    BY <2>1, <2>2 DEF Crash, clock, delivery, AtRest
  <2>3. CASE NothingToFlush
    <3>1. AtRest(episode)
      BY <2>3 DEF NothingToFlush, StageInv, Untouched
    <3>2. QED
      BY <2>1, <2>3, <3>1 DEF NothingToFlush, Draining, delivery
  <2>4. CASE TailIdle
    <3>1. AtRest(episode) /\ final
      BY <2>4 DEF TailIdle, StageInv, AtRest
    <3>2. QED
      BY <2>1, <2>4, <3>1 DEF TailIdle, Draining, delivery, outcome
  <2>5. CASE ExtractionRaises
    <3>1. pc = "raise" /\ ~whole /\ whole' = whole /\ UNCHANGED <<final, watermark>> /\ pc' = Resume
      BY <2>5 DEF ExtractionRaises, StageInv, delivery
    <3>2. CASE final
      BY <2>1, <2>5, <3>1, <3>2 DEF ExtractionRaises, Draining, Resume
    <3>3. CASE ~final
      <4>1. UNCHANGED <<windows, sidecar, gaveUp>> /\ pc' = "idle"
        BY <2>5, <3>1, <3>3 DEF ExtractionRaises, Resume, clock
      <4>2. Quiet
        BY <2>1, <3>1, <3>3, <4>1 DEF AtRest
      <4>3. QED
        BY <4>2
    <3>4. QED
      BY <3>2, <3>3
  <2>6. CASE DrainIdle \/ IdleWait \/ DrainTimesOut
    BY <1>b, <2>1, <2>6 DEF DrainIdle, IdleWait, DrainTimesOut, clock, outcome, tencentVars, delivery
  <2>7. CASE ResolvePage
    <3>1. /\ pc = "resolve" /\ UNCHANGED <<windows, sidecar, watermark, gaveUp, final>>
          /\ UNCHANGED <<pc, whole>> \/ (pc' = Resume /\ whole' = final)
      BY <2>7 DEF ResolvePage, clock, delivery
    <3>2. Quiet
      BY <2>1, <3>1 DEF Resume, AtRest, Shape
    <3>3. QED
      BY <3>2
  <2>8. CASE ResolveFails
    BY <2>1, <2>8 DEF ResolveFails, clock, delivery, outcome, AtRest
  <2>9. ASSUME NEW f \in BOOLEAN, BeginExtraction(f)
        PROVE  Quiet
    BY <2>1, <2>9 DEF BeginExtraction, outcome, AtRest
  <2>10. CASE RecordMessage /\ UNCHANGED tencentVars
    BY <1>a, <2>1, <2>10 DEF RecordMessage, tencentVars, clock, outcome, delivery
  <2>11. CASE EndpointOnly
    BY <1>a, <2>1, <2>11, EndpointOnlyIs DEF armVars, delivery, clock, outcome
  <2>12. CASE UNCHANGED <<armVars, tencentVars>>
    BY <1>a, <2>1, <2>12 DEF armVars, tencentVars, delivery, clock, outcome
  <2>13. QED
    BY <1>1, <2>2, <2>3, <2>4, <2>5, <2>6, <2>7, <2>8, <2>9, <2>10, <2>11, <2>12 DEF Elsewhere
<1>2. ASSUME NEW s \in Sessions, L1Task(s)
      PROVE  Quiet
  <2>1. UNCHANGED <<windows, sidecar, episode, watermark, pc, final, whole, gaveUp>> /\ s \in queued
    BY <1>2 DEF L1Task, armVars, delivery, clock, outcome
  <2>2. KeptRows /\ NewRows(s)
    BY <1>2, ExtractsIs DEF L1Task, Shape
  <2>3. AtRest(episode) => AtRest(episode)'
    <3>1. \A t : t # s => (t \in queued' <=> t \in queued) /\ (t \in armed' <=> t \in armed)
      BY <1>2 DEF L1Task
    <3>2. QED
      BY <2>1, <3>1 DEF AtRest
  <2>4. QED
    BY <2>1, <2>2, <2>3
<1>3. ASSUME NEW s \in Sessions, TimerFires(s)
      PROVE  Quiet
  <2>1. UNCHANGED <<rows, windows, sidecar, episode, watermark, pc, final, whole, gaveUp>>
    BY <1>3 DEF TimerFires, armVars, delivery, clock, outcome
  <2>2. AtRest(episode) => AtRest(episode)'
    BY <1>3, <2>1 DEF TimerFires, AtRest
  <2>3. QED
    BY <2>1, <2>2
<1>4. ASSUME NEW q \in BOOLEAN, NEW r \in BOOLEAN, SendChunk(q, r) \/ SendFails(q, r)
      PROVE  Quiet
  <2>1. pc = "send" /\ UNCHANGED <<rows, episode, windows, sidecar, watermark, gaveUp>>
    BY <1>4, SendIs DEF SendChunk, SendFails, clock, outcome
  <2>2. QED
    BY <2>1
<1>5. CASE EndpointWrites
  <2>1. /\ UNCHANGED <<rows, windows, sidecar, episode, watermark, pc, final, whole, gaveUp>>
        /\ \A t : t # Tag => (t \in queued' <=> t \in queued) /\ (t \in armed' <=> t \in armed)
    BY <1>5, WriteLeaves DEF armVars, delivery, clock, outcome
  <2>2. AtRest(episode) => AtRest(episode)'
    BY <2>1, SessionsAre DEF AtRest
  <2>3. QED
    BY <2>1, <2>2
<1>6. QED
  BY <1>1, <1>2, <1>3, <1>4, <1>5, NextIs

\* Of the windows only the last is the episode's.
LEMMA CurrentIs ==
    ASSUME Shape, WindowInv, episode \in Nat, episode > 0
    PROVE  /\ Len(windows) \in DOMAIN windows /\ DOMAIN windows = 1..Len(windows) /\ Len(windows) \in Nat
           /\ Current \in Window /\ Current.of = episode
           /\ \A j \in DOMAIN windows : /\ j <= Len(windows)
                                        /\ windows[j] \in Window /\ windows[j].of \in Nat
                                        /\ windows[j].start \in Nat /\ windows[j].end \in Nat
                                        /\ windows[j].of = episode => j = Len(windows)
<1>1. windows \in Seq(Window) /\ windows # <<>> /\ Current.of = episode
  BY DEF Shape, WindowInv
<1>2. Len(windows) \in DOMAIN windows /\ DOMAIN windows = 1..Len(windows) /\ Len(windows) \in Nat
  BY <1>1
<1>3. \A j \in DOMAIN windows : windows[j] \in Window /\ j <= Len(windows) /\ j \in Nat
  BY <1>1, <1>2
<1>4. \A j \in DOMAIN windows : windows[j].of \in Nat /\ windows[j].start \in Nat /\ windows[j].end \in Nat
  BY <1>3 DEF Window
<1>5. \A j \in DOMAIN windows : windows[j].of = episode => j = Len(windows)
  <2>1. ASSUME NEW j \in DOMAIN windows, windows[j].of = episode, j # Len(windows)
        PROVE  FALSE
    <3>1. j < Len(windows)
      BY <1>2, <1>3, <2>1
    <3>2. windows[j].of < windows[Len(windows)].of
      BY <1>2, <3>1 DEF WindowInv
    <3>3. QED
      BY <1>1, <1>4, <2>1, <3>2 DEF Current
  <2>2. QED
    BY <2>1
<1>6. Current \in Window
  BY <1>2, <1>3 DEF Current
<1>7. QED
  BY <1>1, <1>2, <1>3, <1>4, <1>5, <1>6

LEMMA WindowQuiet ==
    ASSUME EndpointInv, Shape, SessionInv, StageInv, RowInv, WindowInv, Quiet, now' \in Nat, now <= now'
    PROVE  WindowInv'
<1>1. now \in Nat /\ episode \in Nat /\ watermark \in Nat /\ UNCHANGED <<windows, episode>> /\ Current' = Current
  BY RowFacts, SessionsAre DEF Quiet, Current
<1>2. \A j \in DOMAIN windows : windows[j].start <= now' /\ windows[j].end <= now'
  <2>1. \A j \in DOMAIN windows : windows[j] \in Window
    BY DEF Shape
  <2>2. \A j \in DOMAIN windows : windows[j].start \in Nat /\ windows[j].end \in Nat
    BY <2>1 DEF Window
  <2>3. \A j \in DOMAIN windows : windows[j].start <= now /\ windows[j].end <= now
    BY DEF WindowInv
  <2>4. QED
    BY <1>1, <2>2, <2>3
<1>3. ASSUME episode > 0
      PROVE  /\ watermark' # 0 => Current.start <= watermark'
             /\ Going' => Current.end = 0
             /\ \A i \in DOMAIN rows' : rows'[i].of = episode => Current.start <= rows'[i].at
             /\ Intact' /\ Current.end # 0 =>
                  AtRest(episode)' /\ \A i \in DOMAIN rows' : rows'[i].of = episode => rows'[i].at < Current.end
  <2>1. Len(windows) \in DOMAIN windows /\ Current \in Window
    BY <1>1, <1>3, CurrentIs
  <2>2. Current.start \in Nat /\ Current.end \in Nat /\ Current.start <= now
    BY <2>1 DEF Window, WindowInv, Current
  <2>3. watermark' # 0 => Current.start <= watermark'
    BY <1>1, <1>3, <2>2 DEF WindowInv, Quiet
  <2>4. Going' => Current.end = 0
    BY <1>3 DEF Quiet, WindowInv
  <2>5. Intact' /\ Current.end # 0 => AtRest(episode)' /\ AtRest(episode)
    BY <1>3 DEF Quiet, WindowInv
  <2>6. \A i \in DOMAIN rows' : rows'[i].of = episode =>
           \/ i \in DOMAIN rows /\ rows[i].of = episode /\ rows'[i].at = rows[i].at
           \/ rows'[i].at = now /\ ~AtRest(episode)
    <3>1. CASE rows' = rows
      BY <3>1
    <3>2. ASSUME NEW s \in queued, KeptRows, NewRows(s)
          PROVE  \A i \in DOMAIN rows' : rows'[i].of = episode =>
                    \/ i \in DOMAIN rows /\ rows[i].of = episode /\ rows'[i].at = rows[i].at
                    \/ rows'[i].at = now /\ ~AtRest(episode)
      BY <3>2 DEF KeptRows, NewRows, AtRest
    <3>3. QED
      BY <3>1, <3>2 DEF Quiet
  <2>7. \A i \in DOMAIN rows' : rows'[i].of = episode => Current.start <= rows'[i].at
    BY <1>3, <2>2, <2>6 DEF WindowInv
  <2>8. Intact' /\ Current.end # 0 => \A i \in DOMAIN rows' : rows'[i].of = episode => rows'[i].at < Current.end
    BY <1>3, <2>5, <2>6 DEF WindowInv, Quiet
  <2>9. QED
    BY <2>3, <2>4, <2>5, <2>7, <2>8
<1>4. episode' > 0 => windows' # <<>> /\ Current'.of = episode'
  BY <1>1 DEF WindowInv
<1>5. QED
  BY <1>1, <1>2, <1>3, <1>4 DEF WindowInv

\* The drain closes that one, and no other.
LEMMA DrainClosesCurrent ==
    ASSUME EndpointInv, Shape, WindowInv, Drains, episode > 0
    PROVE  /\ now \in Nat /\ now' = now + 1 /\ windows' \in Seq(Window)
           /\ DOMAIN windows' = DOMAIN windows /\ Len(windows') = Len(windows) /\ windows' # <<>>
           /\ Current'.of = Current.of /\ Current'.start = Current.start /\ Current'.end = now + 1
           /\ \A j \in DOMAIN windows : /\ windows'[j].of = windows[j].of /\ windows'[j].start = windows[j].start
                                        /\ windows'[j].end = windows[j].end \/ (j = Len(windows) /\ windows'[j].end = now + 1)
<1>1. now \in Nat /\ episode \in Nat /\ windows \in Seq(Window)
  BY SessionsAre DEF Shape
<1>2. /\ Len(windows) \in DOMAIN windows /\ DOMAIN windows = 1..Len(windows) /\ Len(windows) \in Nat /\ Current.of = episode
      /\ \A j \in DOMAIN windows : windows[j].of = episode => j = Len(windows)
  BY <1>1, CurrentIs
<1>3. now' = now + 1 /\ now' \in Nat /\ windows' = Closes(windows, episode, now')
  BY <1>1 DEF Drains
<1>4. windows # <<>> /\ windows[Len(windows)].of = episode
  BY <1>1, <1>2 DEF Current
<1> DEFINE ws == Closes(windows, episode, now')
<1>5. /\ ws \in Seq(Window) /\ Len(ws) = Len(windows)
      /\ \A j \in 1..Len(windows) :
           /\ ws[j].of = windows[j].of /\ ws[j].start = windows[j].start
           /\ (ws[j].end = windows[j].end \/ (windows[j].of = episode /\ ws[j].end = now'))
      /\ ws[Len(windows)].end = now'
  BY <1>1, <1>3, <1>4, ClosesIs
<1> HIDE DEF ws
<1>6. DOMAIN ws = DOMAIN windows /\ ws # <<>>
  <2>1. DOMAIN ws = 1..Len(ws)
    BY <1>5
  <2>2. QED
    BY <1>2, <1>5, <2>1
<1>7. windows' = ws
  BY <1>3 DEF ws
<1>8. Current' = ws[Len(windows)]
  BY <1>5, <1>7 DEF Current
<1>9. QED
  BY <1>1, <1>2, <1>3, <1>4, <1>5, <1>6, <1>7, <1>8 DEF Current

LEMMA WindowDrain ==
    ASSUME EndpointInv, Shape, SessionInv, StageInv, RowInv, WindowInv, Draining
    PROVE  WindowInv'
<1>1. /\ now \in Nat /\ episode \in Nat /\ episode > 0
      /\ UNCHANGED <<rows, queued, armed, watermark, episode>> /\ ~Going'
      /\ \A i \in DOMAIN rows : rows[i].at \in Nat /\ rows[i].at <= now
  <2>1. episode > 0
    BY SessionsAre DEF Draining, EndpointInv, Sessions
  <2>2. QED
    BY <2>1, RowFacts, SessionsAre DEF Draining
<1>2. Intact' => Intact /\ AtRest(episode)' /\ AtRest(episode)
  BY <1>1 DEF Draining, Intact, AtRest
<1>3. CASE UNCHANGED clock
  <2>1. UNCHANGED <<windows, now>> /\ Current' = Current
    BY <1>3 DEF clock, Current
  <2>2. QED
    BY <1>1, <1>2, <2>1 DEF WindowInv
<1>4. CASE Drains
  <2>1. /\ now' = now + 1
        /\ DOMAIN windows' = DOMAIN windows /\ windows' # <<>>
        /\ Current'.of = Current.of /\ Current'.start = Current.start /\ Current'.end = now + 1
        /\ \A j \in DOMAIN windows : /\ windows'[j].of = windows[j].of /\ windows'[j].start = windows[j].start
                                     /\ windows'[j].end = windows[j].end \/ windows'[j].end = now + 1
    BY <1>1, <1>4, DrainClosesCurrent
  <2>2. \A j \in DOMAIN windows : windows[j].start \in Nat /\ windows[j].end \in Nat
    BY <1>1, CurrentIs
  <2>3. \A j \in DOMAIN windows' : windows'[j].start <= now' /\ windows'[j].end <= now' /\ windows'[j].of \in 1..episode
    <3>1. \A j \in DOMAIN windows : windows[j].start <= now /\ windows[j].end <= now /\ windows[j].of \in 1..episode
      BY DEF WindowInv
    <3>2. QED
      BY <1>1, <2>1, <2>2, <3>1
  <2>4. \A j, k \in DOMAIN windows' : j < k => windows'[j].of < windows'[k].of
    BY <2>1 DEF WindowInv
  <2>5. \A i \in DOMAIN rows : rows[i].at < Current'.end
    BY <1>1, <2>1
  <2>6. QED
    BY <1>1, <1>2, <2>1, <2>3, <2>4, <2>5 DEF WindowInv
<1>5. QED
  BY <1>1, <1>3, <1>4, DrainIs DEF Draining

\* What the records say becomes the windows of the next episode.
LEMMA StartOpens ==
    ASSUME EndpointInv, Shape, SidecarInv, StartEpisode
    PROVE  /\ now \in Nat /\ episode \in Nat /\ now' = now + 1 /\ episode' = episode + 1 /\ now' \in Nat
           /\ Documented(LoadWindows, Len(sidecar)) /\ LoadWindows \in Seq(Window)
           /\ windows' \in Seq(Window) /\ windows' # <<>>
           /\ DOMAIN windows' = DOMAIN LoadWindows \cup {Len(LoadWindows) + 1}
           /\ Len(windows') = Len(LoadWindows) + 1
           /\ \A j \in DOMAIN LoadWindows : windows'[j] = LoadWindows[j] /\ j < Len(windows') /\ j \in Nat
           /\ Current'.of = episode + 1 /\ Current'.start = now + 1 /\ Current'.end = 0
<1>1. now \in Nat /\ episode \in Nat /\ sidecar \in Seq(Record)
  BY SessionsAre DEF Shape
<1>2. /\ LoadWindows \in Seq(Window) /\ Opens(episode', now') \in Window
      /\ windows' = Append(LoadWindows, Opens(episode', now'))
      /\ now' = now + 1 /\ episode' = episode + 1
  BY <1>1, StartIs
<1>3. Documented(LoadWindows, Len(sidecar))
  BY <1>1, LoadedAreDocumented DEF SidecarInv
<1> DEFINE w == Opens(episode', now')
           ws == LoadWindows
<1>4. w.of = episode + 1 /\ w.start = now + 1 /\ w.end = 0
  BY <1>2 DEF Opens
<1> HIDE DEF w, ws
<1>5. ws \in Seq(Window) /\ w \in Window /\ windows' = Append(ws, w)
  BY <1>2 DEF w, ws
<1>6. /\ Append(ws, w) \in Seq(Window) /\ DOMAIN Append(ws, w) = DOMAIN ws \cup {Len(ws) + 1}
      /\ Len(Append(ws, w)) = Len(ws) + 1
      /\ \A i \in DOMAIN ws : Append(ws, w)[i] = ws[i]
      /\ Append(ws, w)[Len(ws) + 1] = w
  BY <1>5, AppendedIs
<1>7. \A j \in DOMAIN ws : j < Len(ws) + 1 /\ j \in Nat
  BY <1>5
<1>8. windows' # <<>>
  BY <1>5, <1>6
<1>9. Current' = w
  BY <1>5, <1>6 DEF Current
<1>10. QED
  BY <1>1, <1>2, <1>3, <1>4, <1>5, <1>6, <1>7, <1>8, <1>9 DEF ws

LEMMA WindowStart ==
    ASSUME EndpointInv, Shape, RowInv, SidecarInv, StartEpisode
    PROVE  WindowInv'
<1> DEFINE ws == LoadWindows
<1>1. /\ now \in Nat /\ episode \in Nat /\ now' = now + 1 /\ episode' = episode + 1
      /\ Documented(ws, Len(sidecar)) /\ ws \in Seq(Window)
      /\ windows' # <<>> /\ DOMAIN windows' = DOMAIN ws \cup {Len(ws) + 1} /\ Len(windows') = Len(ws) + 1
      /\ \A j \in DOMAIN ws : windows'[j] = ws[j] /\ j < Len(windows') /\ j \in Nat
      /\ Current'.of = episode + 1 /\ Current'.start = now + 1 /\ Current'.end = 0
  BY StartOpens
<1> HIDE DEF ws
<1>2. UNCHANGED rows /\ watermark' = 0
  BY DEF StartEpisode, gateway
<1>3. \A j \in DOMAIN ws : ws[j].start <= now /\ ws[j].end <= now /\ ws[j].of \in 1..episode
  <2>1. \A k \in 1..Len(sidecar) : sidecar[k].at <= now /\ sidecar[k].of \in 1..episode
    BY DEF SidecarInv, Shape
  <2>2. 0 <= now
    BY <1>1
  <2>3. QED
    BY <1>1, <2>1, <2>2 DEF Documented
<1>4. \A j \in DOMAIN ws : ws[j].start \in Nat /\ ws[j].end \in Nat /\ ws[j].of \in Nat
  <2>1. \A j \in DOMAIN ws : ws[j] \in Window
    BY <1>1
  <2>2. QED
    BY <2>1 DEF Window
<1>5. Current' = windows'[Len(ws) + 1]
  BY <1>1 DEF Current
<1>6. \A j \in DOMAIN windows' : windows'[j].start <= now' /\ windows'[j].end <= now' /\ windows'[j].of \in 1..episode'
  <2>1. \A j \in DOMAIN ws : ws[j].start <= now + 1 /\ ws[j].end <= now + 1 /\ ws[j].of \in 1..(episode + 1)
    BY <1>1, <1>3, <1>4
  <2>2. now + 1 <= now + 1 /\ 0 <= now + 1 /\ episode + 1 \in 1..(episode + 1)
    BY <1>1
  <2>3. QED
    BY <1>1, <1>5, <2>1, <2>2
<1>7. \A j, k \in DOMAIN windows' : j < k => windows'[j].of < windows'[k].of
  <2>1. \A j, k \in DOMAIN ws : j < k => ws[j].of < ws[k].of
    BY <1>1 DEF Documented
  <2>2. \A j \in DOMAIN ws : ws[j].of < episode + 1
    BY <1>1, <1>3
  <2>3. ~(Len(ws) + 1 < Len(ws) + 1) /\ \A j \in DOMAIN ws : ~(Len(ws) + 1 < j)
    BY <1>1
  <2>4. QED
    BY <1>1, <1>5, <2>1, <2>2, <2>3
<1>8. \A i \in DOMAIN rows' : rows'[i].of # episode'
  <2>1. episode + 1 # Tag /\ Tag' = Tag
    BY <1>1, TencentAssumption DEF StartEpisode, Tag
  <2>2. QED
    BY <1>1, <1>2, <2>1 DEF RowInv
<1>9. QED
  BY <1>1, <1>2, <1>6, <1>7, <1>8 DEF WindowInv

LEMMA WindowStep ==
    ASSUME BufferInv, EndpointInv, Shape, SessionInv, StageInv, RowInv, WindowInv, SidecarInv,
           [TencentNext]_<<armVars, tencentVars>>
    PROVE  WindowInv'
<1>1. now' \in Nat /\ now <= now'
  BY ShapeStep, RowStep DEF Shape
<1>2. QED
  BY <1>1, StepIs, WindowQuiet, WindowDrain, WindowStart

-----------------------------------------------------------------------------
(* The records, and the rows they speak of.                                *)

\* Records and windows tell the truth of the rows.
Truthful ==
    /\ \A k \in DOMAIN sidecar : IF sidecar[k].event = "start" THEN BeginsAt(sidecar[k].of, sidecar[k].at)
                                 ELSE EndsAt(sidecar[k].of, sidecar[k].at)
    /\ \A j \in DOMAIN windows : /\ BeginsAt(windows[j].of, windows[j].start)
                                 /\ windows[j].end # 0 => EndsAt(windows[j].of, windows[j].end)

RecordFacts == \A k \in DOMAIN sidecar : sidecar[k] \in Record /\ sidecar[k].at \in Nat /\ sidecar[k].of \in Nat
                                         /\ sidecar[k].event \in {"start", "drain"}

LEMMA RecordsAre ==
    ASSUME Shape PROVE RecordFacts
<1>1. ASSUME NEW k \in DOMAIN sidecar
      PROVE  /\ sidecar[k] \in Record /\ sidecar[k].at \in Nat /\ sidecar[k].of \in Nat
             /\ sidecar[k].event \in {"start", "drain"}
  <2>1. sidecar[k] \in Record
    BY DEF Shape
  <2>2. QED
    BY <2>1 DEF Record
<1>2. QED
  BY <1>1 DEF RecordFacts

\* Rows are kept, and appear for the endpoint, or now for an episode with a task.
Lands(i) ==
    \/ i \in DOMAIN rows /\ rows'[i].of = rows[i].of /\ rows'[i].at = rows[i].at
    \/ rows'[i].of = Tag
    \/ rows'[i].of = episode /\ rows'[i].at = now /\ episode \in queued

\* A moment keeps its meaning, and the end of an episode that while it has no task.
LEMMA MomentsKeep ==
    ASSUME Shape, RowInv, EndpointInv, NEW t \in 1..episode, NEW at \in Nat, at <= now,
           \A i \in DOMAIN rows' : Lands(i)
    PROVE  /\ BeginsAt(t, at) => BeginsAt(t, at)'
           /\ EndsAt(t, at) /\ (t = episode => episode \notin queued) => EndsAt(t, at)'
<1>1. now \in Nat /\ episode \in Nat /\ Tag' = Tag /\ t \in Nat /\ t <= episode
  BY RowFacts, SessionsAre DEF Tag
<1>2. ASSUME BeginsAt(t, at)
      PROVE  BeginsAt(t, at)'
  <2>1. ASSUME NEW i \in DOMAIN rows', rows'[i].of # Tag
        PROVE  (rows'[i].of < t => rows'[i].at < at) /\ (rows'[i].of = t => at <= rows'[i].at)
    <3>1. CASE i \in DOMAIN rows /\ rows'[i].of = rows[i].of /\ rows'[i].at = rows[i].at
      BY <1>2, <2>1, <3>1 DEF BeginsAt
    <3>2. CASE rows'[i].of = episode /\ rows'[i].at = now
      BY <1>1, <3>2
    <3>3. Lands(i)
      BY <2>1
    <3>4. QED
      BY <2>1, <3>1, <3>2, <3>3 DEF Lands
  <2>2. QED
    BY <1>1, <2>1 DEF BeginsAt
<1>3. ASSUME EndsAt(t, at), t = episode => episode \notin queued
      PROVE  EndsAt(t, at)'
  <2>1. ASSUME NEW i \in DOMAIN rows', rows'[i].of # Tag
        PROVE  (rows'[i].of = t => rows'[i].at < at) /\ (rows'[i].of > t => at <= rows'[i].at)
    <3>1. CASE i \in DOMAIN rows /\ rows'[i].of = rows[i].of /\ rows'[i].at = rows[i].at
      BY <1>3, <2>1, <3>1 DEF EndsAt
    <3>2. CASE rows'[i].of = episode /\ rows'[i].at = now /\ t # episode
      BY <1>1, <3>2
    <3>3. Lands(i)
      BY <2>1
    <3>4. QED
      BY <1>3, <2>1, <3>1, <3>2, <3>3 DEF Lands
  <2>2. QED
    BY <1>1, <2>1 DEF EndsAt
<1>4. QED
  BY <1>2, <1>3

\* While every episode has drained, no task of an earlier one is left to store a row.
LEMMA RowsOfQuiet ==
    ASSUME EndpointInv, Shape, SessionInv, StageInv, Quiet, ~gaveUp
    PROVE  \A i \in DOMAIN rows' : Lands(i)
<1>1. CASE rows' = rows
  BY <1>1 DEF Lands
<1>2. ASSUME NEW s \in queued, KeptRows, NewRows(s)
      PROVE  \A i \in DOMAIN rows' : Lands(i)
  <2>1. s = Tag \/ s = episode
    <3>1. s \in Nat /\ s # 0 /\ episode \in Nat
      BY SessionsAre DEF Shape
    <3>2. s = Tag \/ s <= episode
      BY DEF SessionInv
    <3>3. \A t \in 1..(episode - 1) : t \notin queued
      BY DEF StageInv, AtRest
    <3>4. QED
      BY <3>1, <3>2, <3>3
  <2>2. QED
    BY <1>2, <2>1 DEF KeptRows, NewRows, Lands
<1>3. QED
  BY <1>1, <1>2 DEF Quiet

LEMMA SidecarQuiet ==
    ASSUME EndpointInv, Shape, SessionInv, StageInv, RowInv, WindowInv, SidecarInv, Quiet, now' \in Nat, now <= now'
    PROVE  SidecarInv'
<1>1. now \in Nat /\ episode \in Nat /\ UNCHANGED <<windows, sidecar, episode>> /\ Current' = Current
  BY RowFacts, SessionsAre DEF Quiet, Current
<1>2. RecordFacts
  BY RecordsAre
<1>3. \A k \in DOMAIN sidecar : sidecar[k].at <= now'
  <2>1. \A k \in DOMAIN sidecar : sidecar[k].at <= now /\ sidecar[k].at \in Nat
    BY <1>2 DEF SidecarInv, RecordFacts
  <2>2. QED
    BY <1>1, <2>1
<1>4. ASSUME ~gaveUp'
      PROVE  Truthful'
  <2>1. ~gaveUp /\ Truthful
    BY <1>4 DEF Quiet, SidecarInv, Truthful
  <2>2. \A i \in DOMAIN rows' : Lands(i)
    BY <2>1, RowsOfQuiet
  <2>3. episode > 0 /\ Current.end # 0 => episode \notin queued
    BY <2>1 DEF StageInv, WindowInv, AtRest
  <2>4. ASSUME NEW k \in DOMAIN sidecar
        PROVE  IF sidecar[k].event = "start" THEN BeginsAt(sidecar[k].of, sidecar[k].at)'
               ELSE EndsAt(sidecar[k].of, sidecar[k].at)'
    <3>1. sidecar[k].of \in 1..episode /\ sidecar[k].at \in Nat /\ sidecar[k].at <= now /\ sidecar[k].event \in {"start", "drain"}
      BY <1>2 DEF SidecarInv, RecordFacts
    <3>2. CASE sidecar[k].event = "start"
      <4>1. BeginsAt(sidecar[k].of, sidecar[k].at)
        BY <2>1, <3>2 DEF Truthful
      <4>2. QED
        BY <1>1, <2>2, <3>1, <3>2, <4>1, MomentsKeep
    <3>3. CASE sidecar[k].event = "drain"
      <4>1. EndsAt(sidecar[k].of, sidecar[k].at)
        BY <2>1, <3>3 DEF Truthful
      <4>2. sidecar[k].of = episode => episode \notin queued
        BY <1>1, <2>3, <3>1, <3>3 DEF SidecarInv
      <4>3. QED
        BY <1>1, <2>2, <3>1, <3>3, <4>1, <4>2, MomentsKeep
    <3>4. QED
      BY <3>1, <3>2, <3>3
  <2>5. ASSUME NEW j \in DOMAIN windows
        PROVE  /\ BeginsAt(windows[j].of, windows[j].start)'
               /\ windows[j].end # 0 => EndsAt(windows[j].of, windows[j].end)'
    <3>1. windows[j].of \in 1..episode /\ windows[j].start <= now /\ windows[j].end <= now
      BY DEF WindowInv
    <3>2. episode > 0
      BY <1>1, <3>1
    <3>3. windows[j].start \in Nat /\ windows[j].end \in Nat /\ (windows[j].of = episode => j = Len(windows))
      BY <1>1, <3>2, CurrentIs
    <3>4. BeginsAt(windows[j].of, windows[j].start)'
      <4>1. BeginsAt(windows[j].of, windows[j].start)
        BY <2>1 DEF Truthful
      <4>2. QED
        BY <1>1, <2>2, <3>1, <3>3, <4>1, MomentsKeep
    <3>5. ASSUME windows[j].end # 0
          PROVE  EndsAt(windows[j].of, windows[j].end)'
      <4>1. EndsAt(windows[j].of, windows[j].end)
        BY <2>1, <3>5 DEF Truthful
      <4>2. windows[j].of = episode => episode \notin queued
        BY <2>3, <3>2, <3>3, <3>5 DEF Current
      <4>3. QED
        BY <1>1, <2>2, <3>1, <3>3, <4>1, <4>2, MomentsKeep
    <3>6. QED
      BY <3>4, <3>5
  <2>6. QED
    BY <1>1, <2>4, <2>5 DEF Truthful
<1>5. QED
  BY <1>1, <1>3, <1>4 DEF SidecarInv, Truthful

LEMMA SameMoments ==
    ASSUME UNCHANGED rows, NEW t, NEW at
    PROVE  (BeginsAt(t, at)' <=> BeginsAt(t, at)) /\ (EndsAt(t, at)' <=> EndsAt(t, at))
BY DEF BeginsAt, EndsAt, Tag

LEMMA SidecarDrain ==
    ASSUME EndpointInv, Shape, RowInv, WindowInv, SidecarInv, Draining
    PROVE  SidecarInv'
<1>1. /\ now \in Nat /\ episode \in Nat /\ episode > 0 /\ episode < Tag /\ UNCHANGED <<rows, episode>>
      /\ \A i \in DOMAIN rows : rows[i].at \in Nat /\ rows[i].at <= now
      /\ ~gaveUp' => ~gaveUp
  <2>1. episode > 0
    BY SessionsAre DEF Draining, EndpointInv, Sessions
  <2>2. QED
    BY <2>1, RowFacts, SessionsAre DEF Draining
<1>2. RecordFacts
  BY RecordsAre
<1>3. CASE UNCHANGED clock
  <2>1. UNCHANGED <<windows, sidecar, now>> /\ Current' = Current
    BY <1>3 DEF clock, Current
  <2>2. \A t, at : (BeginsAt(t, at)' <=> BeginsAt(t, at)) /\ (EndsAt(t, at)' <=> EndsAt(t, at))
    BY <1>1, SameMoments
  <2>3. Truthful => Truthful'
    BY <2>1, <2>2 DEF Truthful
  <2>4. QED
    BY <1>1, <2>1, <2>3 DEF SidecarInv, Truthful
<1>4. CASE Drains
  <2>1. /\ now' = now + 1 /\ DOMAIN windows' = DOMAIN windows /\ Current'.end = now + 1
        /\ \A j \in DOMAIN windows : /\ windows'[j].of = windows[j].of /\ windows'[j].start = windows[j].start
                                     /\ windows'[j].end = windows[j].end \/ (j = Len(windows) /\ windows'[j].end = now + 1)
    BY <1>1, <1>4, DrainClosesCurrent
  <2>2. /\ \A k \in DOMAIN sidecar : k \in DOMAIN sidecar' /\ sidecar'[k] = sidecar[k]
        /\ \A k \in DOMAIN sidecar' : k \notin DOMAIN sidecar =>
             sidecar'[k].event = "drain" /\ sidecar'[k].of = episode /\ sidecar'[k].at = now'
    <3>1. sidecar \in Seq(Record) /\ now' \in Nat /\ AppendSidecar(Recorded("drain", episode))
      BY <1>1, <1>4, <2>1 DEF Shape, Drains
    <3>2. QED
      BY <1>1, <3>1, SidecarIs
  <2>3. \A k \in DOMAIN sidecar' : sidecar'[k].at <= now' /\ sidecar'[k].of \in 1..episode
    <3>1. \A k \in DOMAIN sidecar : sidecar[k].at <= now + 1 /\ sidecar[k].of \in 1..episode
      BY <1>1, <1>2 DEF SidecarInv, RecordFacts
    <3>2. now + 1 <= now + 1 /\ episode \in 1..episode
      BY <1>1
    <3>3. QED
      BY <2>1, <2>2, <3>1, <3>2
  <2>4. \A j, k \in DOMAIN sidecar' :
           j < k /\ sidecar'[j].event = "start" /\ sidecar'[k].event = "start" => sidecar'[j].of < sidecar'[k].of
    BY <2>2 DEF SidecarInv
  <2>5. Current'.end # 0
    BY <1>1, <2>1
  <2>6. EndsAt(episode, now + 1)
    <3>1. \A i \in DOMAIN rows : rows[i].of # Tag => rows[i].at < now + 1 /\ ~(rows[i].of > episode)
      BY <1>1 DEF RowInv
    <3>2. QED
      BY <3>1 DEF EndsAt
  <2>7. \A t, at : (BeginsAt(t, at)' <=> BeginsAt(t, at)) /\ (EndsAt(t, at)' <=> EndsAt(t, at))
    BY <1>1, SameMoments
  <2>8. ASSUME Truthful
        PROVE  Truthful'
    <3>1. \A k \in DOMAIN sidecar' : IF sidecar'[k].event = "start" THEN BeginsAt(sidecar'[k].of, sidecar'[k].at)
                                     ELSE EndsAt(sidecar'[k].of, sidecar'[k].at)
      <4>1. ASSUME NEW k \in DOMAIN sidecar'
            PROVE  IF sidecar'[k].event = "start" THEN BeginsAt(sidecar'[k].of, sidecar'[k].at)
                   ELSE EndsAt(sidecar'[k].of, sidecar'[k].at)
        <5>1. CASE k \in DOMAIN sidecar
          BY <2>2, <2>8, <5>1 DEF Truthful
        <5>2. CASE k \notin DOMAIN sidecar
          BY <2>1, <2>2, <2>6, <5>2
        <5>3. QED
          BY <5>1, <5>2
      <4>2. QED
        BY <4>1
    <3>2. \A j \in DOMAIN windows' : /\ BeginsAt(windows'[j].of, windows'[j].start)
                                     /\ windows'[j].end # 0 => EndsAt(windows'[j].of, windows'[j].end)
      <4>1. ASSUME NEW j \in DOMAIN windows
            PROVE  /\ BeginsAt(windows'[j].of, windows'[j].start)
                   /\ windows'[j].end # 0 => EndsAt(windows'[j].of, windows'[j].end)
        <5>1. BeginsAt(windows[j].of, windows[j].start) /\ (windows[j].end # 0 => EndsAt(windows[j].of, windows[j].end))
          BY <2>8 DEF Truthful
        <5>2. windows[Len(windows)].of = episode
          BY <1>1 DEF WindowInv, Current
        <5>3. QED
          BY <2>1, <2>6, <5>1, <5>2
      <4>2. QED
        BY <2>1, <4>1
    <3>3. QED
      BY <2>7, <3>1, <3>2 DEF Truthful
  <2>9. QED
    BY <1>1, <2>3, <2>4, <2>5, <2>8 DEF SidecarInv, Truthful
<1>5. QED
  BY <1>1, <1>3, <1>4, DrainIs DEF Draining

LEMMA SidecarStart ==
    ASSUME EndpointInv, Shape, RowInv, SidecarInv, StartEpisode
    PROVE  SidecarInv'
<1> DEFINE ws == LoadWindows
<1>1. /\ now \in Nat /\ episode \in Nat /\ now' = now + 1 /\ episode' = episode + 1 /\ now' \in Nat
      /\ Documented(ws, Len(sidecar))
      /\ DOMAIN windows' = DOMAIN ws \cup {Len(ws) + 1} /\ Len(windows') = Len(ws) + 1
      /\ \A j \in DOMAIN ws : windows'[j] = ws[j]
      /\ Current'.of = episode + 1 /\ Current'.start = now + 1 /\ Current'.end = 0
  BY StartOpens
<1> HIDE DEF ws
<1>2. UNCHANGED <<rows, gaveUp>> /\ episode + 1 \in Nat
  BY <1>1 DEF StartEpisode, gateway
<1>3. RecordFacts
  BY RecordsAre
<1>4. /\ \A k \in DOMAIN sidecar : k \in DOMAIN sidecar' /\ sidecar'[k] = sidecar[k]
      /\ \A k \in DOMAIN sidecar' : k \notin DOMAIN sidecar =>
           /\ sidecar'[k].event = "start" /\ sidecar'[k].of = episode + 1 /\ sidecar'[k].at = now + 1
           /\ \A j \in DOMAIN sidecar' : j <= k
      /\ \A k \in DOMAIN sidecar' : k \in Nat
  <2>1. sidecar \in Seq(Record) /\ AppendSidecar(Recorded("start", episode + 1))
    BY <1>1, StartIs DEF Shape
  <2>2. sidecar' \in Seq(Record)
    BY <1>1, StartIs
  <2>3. QED
    BY <1>1, <1>2, <2>1, <2>2, SidecarIs
<1>5. \A k \in DOMAIN sidecar : sidecar[k].at <= now + 1 /\ sidecar[k].of \in 1..(episode + 1) /\ sidecar[k].of < episode + 1
  <2>1. \A k \in DOMAIN sidecar : sidecar[k].at <= now /\ sidecar[k].of \in 1..episode /\ sidecar[k].at \in Nat
    BY <1>3 DEF SidecarInv, RecordFacts
  <2>2. QED
    BY <1>1, <2>1
<1>6. \A k \in DOMAIN sidecar' : sidecar'[k].at <= now' /\ sidecar'[k].of \in 1..episode'
  <2>1. now + 1 <= now + 1 /\ episode + 1 \in 1..(episode + 1)
    BY <1>1
  <2>2. QED
    BY <1>1, <1>4, <1>5, <2>1
<1>7. \A j, k \in DOMAIN sidecar' :
         j < k /\ sidecar'[j].event = "start" /\ sidecar'[k].event = "start" => sidecar'[j].of < sidecar'[k].of
  <2>1. ASSUME NEW j \in DOMAIN sidecar', NEW k \in DOMAIN sidecar', j < k,
               sidecar'[j].event = "start", sidecar'[k].event = "start"
        PROVE  sidecar'[j].of < sidecar'[k].of
    <3>1. CASE j \notin DOMAIN sidecar
      BY <1>4, <2>1, <3>1
    <3>2. CASE j \in DOMAIN sidecar /\ k \in DOMAIN sidecar
      BY <1>4, <2>1, <3>2 DEF SidecarInv
    <3>3. CASE j \in DOMAIN sidecar /\ k \notin DOMAIN sidecar
      BY <1>4, <1>5, <3>3
    <3>4. QED
      BY <3>1, <3>2, <3>3
  <2>2. QED
    BY <2>1
<1>8. \A k \in DOMAIN sidecar' : ~(sidecar'[k].event = "drain" /\ sidecar'[k].of = episode')
  <2>1. \A k \in DOMAIN sidecar : sidecar[k].of # episode + 1
    BY <1>1, <1>3, <1>5 DEF RecordFacts
  <2>2. QED
    BY <1>1, <1>4, <2>1
<1>9. BeginsAt(episode + 1, now + 1)
  <2>1. \A i \in DOMAIN rows : rows[i].of # Tag => rows[i].at < now + 1 /\ rows[i].of # episode + 1
    <3>1. \A i \in DOMAIN rows : rows[i].at \in Nat /\ rows[i].at <= now
      BY RowFacts
    <3>2. QED
      BY <1>1, <3>1 DEF RowInv
  <2>2. QED
    BY <2>1 DEF BeginsAt
<1>10. \A t, at : (BeginsAt(t, at)' <=> BeginsAt(t, at)) /\ (EndsAt(t, at)' <=> EndsAt(t, at))
  BY <1>2, SameMoments
<1>11. ASSUME Truthful
       PROVE  Truthful'
  <2>1. ASSUME NEW k \in DOMAIN sidecar'
        PROVE  IF sidecar'[k].event = "start" THEN BeginsAt(sidecar'[k].of, sidecar'[k].at)
               ELSE EndsAt(sidecar'[k].of, sidecar'[k].at)
    <3>1. CASE k \in DOMAIN sidecar
      BY <1>4, <1>11, <3>1 DEF Truthful
    <3>2. CASE k \notin DOMAIN sidecar
      BY <1>4, <1>9, <3>2
    <3>3. QED
      BY <3>1, <3>2
  <2>2. ASSUME NEW j \in DOMAIN ws
        PROVE  BeginsAt(ws[j].of, ws[j].start) /\ (ws[j].end # 0 => EndsAt(ws[j].of, ws[j].end))
    <3>1. \A k \in 1..Len(sidecar) : k \in DOMAIN sidecar
      BY DEF Shape
    <3>2. PICK k \in 1..Len(sidecar) : sidecar[k].event = "start" /\ sidecar[k].of = ws[j].of /\ sidecar[k].at = ws[j].start
      BY <1>1 DEF Documented
    <3>3. BeginsAt(ws[j].of, ws[j].start)
      BY <1>11, <3>1, <3>2 DEF Truthful
    <3>4. ASSUME ws[j].end # 0
          PROVE  EndsAt(ws[j].of, ws[j].end)
      <4>1. PICK n \in 1..Len(sidecar) : sidecar[n].event = "drain" /\ sidecar[n].of = ws[j].of /\ sidecar[n].at = ws[j].end
        BY <1>1, <3>4 DEF Documented
      <4>2. QED
        BY <1>11, <3>1, <4>1 DEF Truthful
    <3>5. QED
      BY <3>3, <3>4
  <2>3. ASSUME NEW j \in DOMAIN windows'
        PROVE  BeginsAt(windows'[j].of, windows'[j].start) /\ (windows'[j].end # 0 => EndsAt(windows'[j].of, windows'[j].end))
    <3>1. CASE j \in DOMAIN ws
      BY <1>1, <2>2, <3>1
    <3>2. CASE j = Len(ws) + 1
      <4>1. windows'[j] = Current'
        BY <1>1, <3>2 DEF Current
      <4>2. QED
        BY <1>1, <1>9, <4>1
    <3>3. QED
      BY <1>1, <3>1, <3>2
  <2>4. QED
    BY <1>10, <2>1, <2>3 DEF Truthful
<1>12. QED
  BY <1>2, <1>6, <1>7, <1>8, <1>11 DEF SidecarInv, Truthful

LEMMA SidecarStep ==
    ASSUME BufferInv, EndpointInv, Shape, SessionInv, StageInv, RowInv, WindowInv, SidecarInv,
           [TencentNext]_<<armVars, tencentVars>>
    PROVE  SidecarInv'
<1>1. now' \in Nat /\ now <= now'
  BY ShapeStep, RowStep DEF Shape
<1>2. QED
  BY <1>1, StepIs, SidecarQuiet, SidecarDrain, SidecarStart

-----------------------------------------------------------------------------
(* Paging through the produced rows, newest first.                         *)

Newer(i) == {j \in Produced : j > i}

LEMMA RankIs ==
    ASSUME rows \in Seq(Row)
    PROVE  /\ \A i : Rank(i) = Cardinality(Newer(i)) /\ Rank(i) \in Nat
           /\ IsFiniteSet(Produced) /\ Cardinality(Produced) \in Nat /\ Produced \subseteq Nat
           /\ \A i \in Produced : Rank(i) < Cardinality(Produced)
           /\ \A i, k \in Produced : i < k => Rank(k) < Rank(i)
<1>1. /\ Produced \subseteq DOMAIN rows /\ Produced \subseteq Nat
      /\ \A S \in SUBSET DOMAIN rows : IsFiniteSet(S) /\ Cardinality(S) \in Nat
  BY PageIsOfRows, RowsAreFinite
<1>2. IsFiniteSet(Produced) /\ Cardinality(Produced) \in Nat
  BY <1>1
<1>3. \A i : Newer(i) \subseteq Produced /\ Newer(i) \in SUBSET DOMAIN rows /\ Rank(i) = Cardinality(Newer(i))
  BY <1>1 DEF Newer, Rank
<1>4. \A i : IsFiniteSet(Newer(i)) /\ Rank(i) \in Nat
  BY <1>1, <1>3
<1>5. ASSUME NEW i \in Produced
      PROVE  Rank(i) < Cardinality(Produced)
  <2>1. i \notin Newer(i)
    BY <1>1 DEF Newer
  <2>2. Cardinality(Newer(i)) <= Cardinality(Produced) /\ (Cardinality(Produced) = Cardinality(Newer(i)) => Produced = Newer(i))
    BY <1>2, <1>3, FS_Subset
  <2>3. QED
    BY <1>2, <1>3, <1>4, <2>1, <2>2
<1>6. ASSUME NEW i \in Produced, NEW k \in Produced, i < k
      PROVE  Rank(k) < Rank(i)
  <2>1. Newer(k) \subseteq Newer(i) /\ k \in Newer(i) /\ k \notin Newer(k)
    BY <1>1, <1>6 DEF Newer
  <2>2. Cardinality(Newer(k)) <= Cardinality(Newer(i)) /\ (Cardinality(Newer(i)) = Cardinality(Newer(k)) => Newer(i) = Newer(k))
    BY <1>4, <2>1, FS_Subset
  <2>3. QED
    BY <1>3, <1>4, <2>1, <2>2
<1>7. QED
  BY <1>1, <1>2, <1>3, <1>4, <1>5, <1>6

LEMMA PageIs ==
    ASSUME Shape
    PROVE  /\ Cardinality(Page) \in Nat /\ Cardinality(Page) <= PageLimit
           /\ \A i : i \in Page <=> i \in Produced /\ Rank(i) \in offset..(offset + PageLimit - 1)
<1> DEFINE T == offset..(offset + PageLimit - 1)
           f == [i \in Page |-> Rank(i)]
<1>1. rows \in Seq(Row) /\ offset \in Nat /\ PageLimit \in Nat /\ PageLimit >= 1
  BY TencentAssumption DEF Shape
<1>2. \A i : i \in Page <=> i \in Produced /\ Rank(i) \in T
  BY DEF Page, Rank
<1>3. Cardinality(T) = PageLimit /\ IsFiniteSet(T)
  <2>1. offset \in Int /\ offset + PageLimit - 1 \in Int /\ ~(offset > offset + PageLimit - 1)
    BY <1>1
  <2>2. IsFiniteSet(T) /\ Cardinality(T) = (offset + PageLimit - 1) - offset + 1
    BY <2>1, FS_Interval
  <2>3. QED
    BY <1>1, <2>2
<1>4. Page \subseteq Produced /\ Page \in SUBSET DOMAIN rows
  BY PageIsOfRows
<1>5. /\ \A i, k \in Produced : i < k => Rank(k) < Rank(i)
      /\ \A i : Rank(i) \in Nat
      /\ Produced \subseteq Nat
  BY <1>1, RankIs
<1> HIDE DEF T
<1>6. f \in Injection(Page, T)
  <2>1. f \in [Page -> T]
    BY <1>2
  <2>2. \A i, k \in Page : f[i] = f[k] => i = k
    <3>1. ASSUME NEW i \in Page, NEW k \in Page, f[i] = f[k], i # k
          PROVE  FALSE
      <4>1. i \in Produced /\ k \in Produced /\ i \in Nat /\ k \in Nat /\ Rank(i) = Rank(k)
        BY <1>4, <1>5, <3>1
      <4>2. i < k \/ k < i
        BY <3>1, <4>1
      <4>3. Rank(i) < Rank(k) \/ Rank(k) < Rank(i)
        BY <1>5, <4>1, <4>2
      <4>4. QED
        BY <1>5, <4>1, <4>3
    <3>2. QED
      BY <3>1
  <2> HIDE DEF f
  <2>3. DOMAIN f = Page
    BY <2>1
  <2>4. QED
    BY <2>1, <2>2, <2>3 DEF Injection, IsInjective
<1> HIDE DEF f
<1>7. Cardinality(Page) <= PageLimit
  BY <1>3, <1>6, FS_Injection
<1>8. Cardinality(Page) \in Nat
  BY <1>1, <1>4, RowsAreFinite
<1>9. QED
  BY <1>2, <1>7, <1>8 DEF T

-----------------------------------------------------------------------------
(* The rows an episode's queries have shown.                               *)

\* What the episode stored, its query asks for.
LEMMA OwnIs ==
    ASSUME EndpointInv, Shape, RowInv, StageInv
    PROVE  Own \subseteq Produced
<1>1. ASSUME NEW i \in Own
      PROVE  i \in Produced
  <2>1. i \in LiveIds /\ i \in DOMAIN rows /\ rows[i].of = episode
    BY DEF Own, LiveIds
  <2>2. watermark # 0
    BY <2>1 DEF StageInv, Untouched
  <2>3. rows[i].at >= watermark /\ episode # Tag
    BY <2>1, SessionsAre DEF RowInv
  <2>4. QED
    BY <2>1, <2>2, <2>3 DEF Produced
<1>2. QED
  BY <1>1

LEMMA CountFrame ==
    ASSUME Shape, CountInv, UNCHANGED <<rows, episode, offset, gathered, counted, count, seen>>,
           watermark' = watermark \/ watermark = 0,
           pc' \notin {"resolve", "down"} => offset = 0 /\ gathered = {},
           pc' = "resolve" /\ final' => offset = 0 \/ (pc = "resolve" /\ final /\ UNCHANGED watermark),
           pc' = "closed" /\ whole' => Own = {} \/ (pc = "closed" /\ whole)
    PROVE  CountInv'
<1>1. Own' = Own /\ Tag' = Tag
  BY DEF Own, LiveIds, Tag
<1>2. \A i \in seen \cup gathered : rows[i].of # Tag /\ watermark' # 0 /\ rows[i].at >= watermark'
  BY DEF CountInv
<1>3. ASSUME pc' = "resolve" /\ final'
      PROVE  \A i \in Own : Rank(i)' < offset => i \in gathered
  <2>1. CASE offset = 0
    <3>1. rows' \in Seq(Row)
      BY DEF Shape
    <3>2. \A i : Rank(i)' \in Nat
      <4>1. \A S \in SUBSET DOMAIN rows : Cardinality(S) \in Nat
        BY RowsAreFinite DEF Shape
      <4>2. \A i : Rank(i)' = Cardinality({j \in Produced' : j > i})
        BY DEF Rank
      <4>3. Produced' \subseteq DOMAIN rows
        BY DEF Produced, LiveIds
      <4>4. \A i : {j \in Produced' : j > i} \in SUBSET DOMAIN rows
        BY <4>3
      <4>5. QED
        BY <4>1, <4>2, <4>4
    <3>3. QED
      BY <2>1, <3>2
  <2>2. CASE pc = "resolve" /\ final /\ UNCHANGED watermark
    <3>1. \A i : Rank(i)' = Rank(i)
      BY <2>2 DEF Rank, Produced, LiveIds, Tag
    <3>2. QED
      BY <2>2, <3>1 DEF CountInv
  <2>3. QED
    BY <1>3, <2>1, <2>2
<1>4. counted' = {<<i, rows[i].version>> : i \in seen} /\ count' = Cardinality(seen)
  BY DEF CountInv
<1>5. pc' = "closed" /\ whole' => Own \subseteq seen
  BY DEF CountInv
<1>6. QED
  BY <1>1, <1>2, <1>3, <1>4, <1>5 DEF CountInv

\* A merge replaces at most one produced row, and by a newer one.
LEMMA RanksGrow ==
    ASSUME Shape, RowInv, rows' \in Seq(Row), UNCHANGED watermark, NEW s \in Sessions, Extracts(s), NEW i \in DOMAIN rows
    PROVE  Rank(i) <= Rank(i)'
<1> DEFINE N == {j \in Produced : j > i}
           M == {j \in Produced' : j > i}
           n == Len(rows) + 1
<1>1. rows \in Seq(Row) /\ now \in Nat /\ watermark \in Nat /\ watermark <= now /\ Tag' = Tag
  BY RowFacts DEF Shape, RowInv, Tag
<1>2. n \in Nat /\ i < n /\ \A j \in DOMAIN rows : j < n
  BY <1>1
<1>3. IsFiniteSet(N) /\ Cardinality(N) \in Nat /\ N \subseteq DOMAIN rows
  <2>1. N \subseteq DOMAIN rows
    BY PageIsOfRows
  <2>2. QED
    BY <1>1, <2>1, RowsAreFinite
<1>4. IsFiniteSet(M) /\ Cardinality(M) \in Nat
  <2>1. M \subseteq DOMAIN rows'
    BY DEF Produced, LiveIds
  <2>2. \A S \in SUBSET DOMAIN rows' : IsFiniteSet(S) /\ Cardinality(S) \in Nat
    <3>1. DOMAIN rows' = 1..Len(rows') /\ Len(rows') \in Nat
      OBVIOUS
    <3>2. IsFiniteSet(1..Len(rows'))
      BY <3>1, FS_Interval
    <3>3. QED
      BY <3>1, <3>2, FS_Subset, FS_CardinalityType
  <2>3. QED
    BY <2>1, <2>2
<1>5. Rank(i) = Cardinality(N) /\ Rank(i)' = Cardinality(M)
  BY DEF Rank
<1>6. ASSUME \A j \in Produced : j \in Produced'
      PROVE  Rank(i) <= Rank(i)'
  <2>1. N \subseteq M
    BY <1>6
  <2> HIDE DEF N, M
  <2>2. Cardinality(N) <= Cardinality(M)
    BY <1>4, <2>1, FS_Subset
  <2>3. QED
    BY <1>5, <2>2
<1>7. CASE UNCHANGED rows
  <2>1. Produced' = Produced
    BY <1>7, <1>1 DEF Produced, LiveIds
  <2>2. QED
    BY <1>6, <2>1
<1>8. CASE rows' = Append(rows, NewRow(s, 0))
  <2>1. NewRow(s, 0) \in Row
    BY <1>1, NewRowIs
  <2>2. DOMAIN rows \subseteq DOMAIN rows' /\ \A j \in DOMAIN rows : rows'[j] = rows[j]
    BY <1>1, <1>8, <2>1, AppendedIs
  <2>3. \A j \in Produced : j \in Produced'
    BY <1>1, <2>2 DEF Produced, LiveIds
  <2>4. QED
    BY <1>6, <2>3
<1>9. ASSUME NEW k \in LiveIds, (rows[k].of = Tag) <=> (s = Tag),
             rows' = Append(Superseded(k), NewRow(s, rows[k].version + 1))
      PROVE  Rank(i) <= Rank(i)'
  <2> DEFINE e == NewRow(s, rows[k].version + 1)
             t == Superseded(k)
  <2>1. k \in DOMAIN rows
    BY DEF LiveIds
  <2>2. e \in Row /\ e.of = s /\ e.at = now /\ e.live = TRUE
    <3>1. rows[k] \in Row
      BY <1>1, <2>1
    <3>2. rows[k].version + 1 \in Nat
      BY <3>1 DEF Row
    <3>3. QED
      BY <1>1, <3>2, NewRowIs DEF NewRow
  <2>3. /\ t \in Seq(Row) /\ DOMAIN t = DOMAIN rows /\ Len(t) = Len(rows)
        /\ \A j \in DOMAIN rows : t[j].of = rows[j].of /\ t[j].at = rows[j].at /\ t[j].live = (rows[j].live /\ j # k)
    BY <1>1, <2>1, SupersededIs
  <2>4. rows' = Append(t, e)
    BY <1>9 DEF t, e
  <2> HIDE DEF e, t
  <2>5. /\ DOMAIN rows' = DOMAIN rows \cup {n} /\ rows'[n] = e
        /\ \A j \in DOMAIN rows : rows'[j] = t[j]
    <3>1. /\ Append(t, e) \in Seq(Row)
          /\ DOMAIN Append(t, e) = DOMAIN t \cup {Len(t) + 1} /\ Append(t, e)[Len(t) + 1] = e
          /\ \A j \in DOMAIN t : Append(t, e)[j] = t[j]
      <4>1. t \in Seq(Row)
        BY <2>3
      <4>2. e \in Row
        BY <2>2
      <4>3. QED
        BY <4>1, <4>2, AppendedIs
    <3>2. QED
      BY <2>3, <2>4, <3>1
  <2>6. \A j \in Produced : j # k => j \in Produced'
    BY <1>1, <2>3, <2>5 DEF Produced, LiveIds
  <2>7. CASE k \notin N
    <3>1. N \subseteq M
      BY <2>6, <2>7
    <3> HIDE DEF N, M
    <3>2. Cardinality(N) <= Cardinality(M)
      BY <1>4, <3>1, FS_Subset
    <3>3. QED
      BY <1>5, <3>2
  <2>8. CASE k \in N
    <3>1. watermark # 0 /\ rows[k].of # Tag
      BY <2>8 DEF Produced
    <3>2. s # Tag /\ n \in DOMAIN rows' /\ rows'[n].of = s /\ rows'[n].at = now /\ rows'[n].live
      BY <1>9, <2>2, <2>5, <3>1
    <3>3. n \in Produced'
      BY <1>1, <3>1, <3>2 DEF Produced, LiveIds
    <3>4. n > i /\ n \notin N
      BY <1>2, <1>3
    <3>5. (N \ {k}) \cup {n} \subseteq M
      BY <2>6, <3>3, <3>4
    <3> HIDE DEF N, M, n
    <3>6. IsFiniteSet(N \ {k}) /\ Cardinality(N \ {k}) = Cardinality(N) - 1
      BY <1>3, <2>8, FS_RemoveElement
    <3>7. Cardinality((N \ {k}) \cup {n}) = Cardinality(N)
      <4>1. n \notin N \ {k}
        BY <3>4
      <4>2. Cardinality((N \ {k}) \cup {n}) = Cardinality(N \ {k}) + 1
        BY <3>6, <4>1, FS_AddElement
      <4>3. QED
        BY <1>3, <3>6, <4>2
    <3>8. Cardinality((N \ {k}) \cup {n}) <= Cardinality(M)
      BY <1>4, <3>5, FS_Subset
    <3>9. QED
      BY <1>5, <3>7, <3>8
  <2>9. QED
    BY <2>7, <2>8
<1>10. QED
  BY <1>7, <1>8, <1>9 DEF Extracts, Superseded

\* A task may move the pages of a query under way; no row of the episode slips through.
LEMMA CountTask ==
    ASSUME EndpointInv, Shape, StageInv, RowInv, CountInv, NEW s \in Sessions, L1Task(s)
    PROVE  CountInv'
<1>1. /\ rows \in Seq(Row) /\ now \in Nat /\ s \in queued /\ Extracts(s) /\ Tag' = Tag /\ offset \in Nat
      /\ UNCHANGED <<pc, final, episode, watermark, offset, gathered, counted, count, seen, whole>>
  BY RowFacts DEF L1Task, Shape, armVars, delivery, query, outcome, Tag
<1>2. rows' \in Seq(Row) /\ KeptRows /\ NewRows(s)
  BY <1>1, ExtractsIs
<1>3. AtRest(episode) => Own' \subseteq Own
  BY <1>1, <1>2 DEF AtRest, Own, LiveIds, KeptRows, NewRows
<1>4. seen \cup gathered \subseteq DOMAIN rows
  BY DEF Shape
<1>5. \A i \in seen \cup gathered : rows'[i].of # Tag /\ watermark # 0 /\ rows'[i].at >= watermark
  BY <1>2, <1>4 DEF CountInv, KeptRows
<1>6. counted = {<<i, rows'[i].version>> : i \in seen}
  <2>1. \A i \in seen : rows'[i].version = rows[i].version
    BY <1>2, <1>4 DEF KeptRows
  <2>2. {<<i, rows'[i].version>> : i \in seen} = {<<i, rows[i].version>> : i \in seen}
    BY <2>1
  <2>3. QED
    BY <2>2 DEF CountInv
<1>7. pc = "resolve" /\ final => \A i \in Own' : Rank(i)' < offset => i \in gathered
  <2>1. ASSUME pc = "resolve", final, NEW i \in Own', Rank(i)' < offset
        PROVE  i \in gathered
    <3>1. i \in Own /\ i \in DOMAIN rows
      BY <1>3, <2>1 DEF StageInv, Drained, Own, LiveIds
    <3>2. Rank(i) <= Rank(i)'
      BY <1>1, <1>2, <3>1, RanksGrow
    <3>3. Rank(i) \in Nat /\ Rank(i)' \in Nat
      <4>1. Rank(i) \in Nat
        BY <1>1, RankIs
      <4>2. \A S \in SUBSET DOMAIN rows' : Cardinality(S) \in Nat
        <5>1. DOMAIN rows' = 1..Len(rows') /\ Len(rows') \in Nat
          BY <1>2
        <5>2. IsFiniteSet(1..Len(rows'))
          BY <5>1, FS_Interval
        <5>3. QED
          BY <5>1, <5>2, FS_Subset, FS_CardinalityType
      <4>3. {j \in Produced' : j > i} \in SUBSET DOMAIN rows'
        BY DEF Produced, LiveIds
      <4>4. Rank(i)' = Cardinality({j \in Produced' : j > i})
        BY DEF Rank
      <4>5. QED
        BY <4>1, <4>2, <4>3, <4>4
    <3>4. Rank(i) < offset
      BY <1>1, <2>1, <3>2, <3>3
    <3>5. QED
      BY <2>1, <3>1, <3>4 DEF CountInv
  <2>2. QED
    BY <2>1
<1>8. pc = "closed" /\ whole => Own' \subseteq seen
  BY <1>3 DEF StageInv, Drained, CountInv
<1>9. QED
  BY <1>1, <1>5, <1>6, <1>7, <1>8 DEF CountInv

\* A page adds the next ranks, and the last page the last of them.
LEMMA CountResolve ==
    ASSUME EndpointInv, Shape, StageInv, RowInv, CountInv, ResolvePage
    PROVE  CountInv'
<1> DEFINE found == gathered \cup Page
           fresh == {i \in found : Uncounted(i)}
<1>1. /\ pc = "resolve" /\ UNCHANGED <<final, rows, episode, watermark>> /\ Tag' = Tag
      /\ rows \in Seq(Row) /\ offset \in Nat /\ PageLimit \in Nat
  BY TencentAssumption DEF ResolvePage, gateway, delivery, Shape, Tag
<1>2. Own' = Own /\ Own \subseteq Produced
  BY <1>1, OwnIs DEF Own, LiveIds
<1>3. /\ Cardinality(Page) \in Nat /\ Cardinality(Page) <= PageLimit
      /\ \A i : i \in Page <=> i \in Produced /\ Rank(i) \in offset..(offset + PageLimit - 1)
  BY PageIs
<1>4. /\ \A i : Rank(i) \in Nat
      /\ \A i \in Produced : Rank(i) < Cardinality(Produced)
      /\ Cardinality(Produced) \in Nat
  BY <1>1, RankIs
<1>5. final => \A i \in Own : Rank(i) < offset + Cardinality(Page) => i \in found
  <2>1. ASSUME final, NEW i \in Own, Rank(i) < offset + Cardinality(Page)
        PROVE  i \in found
    <3>1. CASE Rank(i) < offset
      BY <1>1, <2>1, <3>1 DEF CountInv
    <3>2. CASE ~(Rank(i) < offset)
      <4>1. Rank(i) \in Nat
        BY <1>4
      <4>2. Rank(i) \in offset..(offset + PageLimit - 1)
        BY <1>1, <1>3, <2>1, <3>2, <4>1
      <4>3. QED
        BY <1>2, <1>3, <4>2
    <3>3. QED
      BY <3>1, <3>2
  <2>2. QED
    BY <2>1
<1>6. \A i \in Page : rows[i].of # Tag /\ watermark # 0 /\ rows[i].at >= watermark
  BY PageIsOfRows DEF Produced
<1>7. \A i \in seen \cup found : rows[i].of # Tag /\ watermark # 0 /\ rows[i].at >= watermark
  BY <1>6 DEF CountInv
<1>8. CASE offset + Cardinality(Page) < Cardinality(Produced)
  <2>1. offset' = offset + Cardinality(Page) /\ gathered' = found /\ UNCHANGED <<pc, counted, count, seen, whole>>
    BY <1>8 DEF ResolvePage
  <2>2. \A i : Rank(i)' = Rank(i)
    BY <1>1 DEF Rank, Produced, LiveIds
  <2> HIDE DEF found
  <2>3. QED
    BY <1>1, <1>2, <1>5, <1>7, <2>1, <2>2 DEF CountInv
<1>9. CASE ~(offset + Cardinality(Page) < Cardinality(Produced))
  <2>1. /\ pc' = Resume /\ offset' = 0 /\ gathered' = {} /\ whole' = final
        /\ counted' = counted \cup {<<i, rows[i].version>> : i \in fresh}
        /\ count' = count + Cardinality(fresh)
        /\ seen' = seen \cup found
    BY <1>9 DEF ResolvePage
  <2>2. \A i \in found : Uncounted(i) <=> i \notin seen
    <3>1. counted = {<<k, rows[k].version>> : k \in seen}
      BY DEF CountInv
    <3>2. \A i : <<i, rows[i].version>> \in counted <=> \E k \in seen : <<k, rows[k].version>> = <<i, rows[i].version>>
      BY <3>1
    <3>3. QED
      BY <3>2 DEF Uncounted
  <2>3. fresh = found \ seen
    BY <2>2
  <2>4. found \subseteq DOMAIN rows /\ seen \subseteq DOMAIN rows
    BY PageIsOfRows DEF Shape
  <2> HIDE DEF found, fresh
  <2>5. counted' = {<<i, rows[i].version>> : i \in seen'}
    <3>1. counted = {<<k, rows[k].version>> : k \in seen}
      BY DEF CountInv
    <3>2. seen' = seen \cup fresh
      BY <2>1, <2>3
    <3>3. QED
      BY <2>1, <3>1, <3>2
  <2>6. count' = Cardinality(seen')
    <3>1. IsFiniteSet(seen) /\ IsFiniteSet(fresh) /\ Cardinality(seen) \in Nat /\ Cardinality(fresh) \in Nat
      BY <1>1, <2>3, <2>4, RowsAreFinite
    <3>2. seen \cap fresh = {} /\ seen \cup fresh = seen'
      BY <2>1, <2>3
    <3>3. Cardinality(seen \cup fresh) = Cardinality(seen) + Cardinality(fresh) - Cardinality(seen \cap fresh)
      BY <3>1, FS_Union
    <3>4. Cardinality(seen \cap fresh) = 0
      BY <3>2, FS_EmptySet
    <3>5. count = Cardinality(seen)
      BY DEF CountInv
    <3>6. Cardinality(seen \cup fresh) = Cardinality(seen')
      BY <3>2
    <3>7. count' = Cardinality(seen) + Cardinality(fresh)
      BY <2>1, <3>5
    <3>8. QED
      BY <3>1, <3>3, <3>4, <3>6, <3>7
  <2>7. final => Own \subseteq seen'
    <3>1. ASSUME final, NEW i \in Own
          PROVE  i \in seen'
      <4>1. Rank(i) < Cardinality(Produced) /\ Rank(i) \in Nat
        BY <1>2, <1>4
      <4>2. Rank(i) < offset + Cardinality(Page)
        BY <1>1, <1>3, <1>4, <1>9, <4>1
      <4>3. QED
        BY <1>5, <2>1, <3>1, <4>2
    <3>2. QED
      BY <3>1
  <2>8. \A i \in seen' \cup gathered' : rows'[i].of # Tag' /\ watermark' # 0 /\ rows'[i].at >= watermark'
    BY <1>1, <1>7, <2>1
  <2>9. pc' # "resolve"
    BY <2>1 DEF Resume
  <2>10. counted' = {<<i, rows'[i].version>> : i \in seen'}
    BY <1>1, <2>5
  <2>11. pc' = "closed" /\ whole' => Own' \subseteq seen'
    BY <1>2, <2>1, <2>7
  <2>12. QED
    BY <2>1, <2>6, <2>8, <2>9, <2>10, <2>11 DEF CountInv
<1>10. QED
  BY <1>8, <1>9

LEMMA CountStep ==
    ASSUME BufferInv, EndpointInv, Shape, StageInv, RowInv, CountInv, [TencentNext]_<<armVars, tencentVars>>
    PROVE  CountInv'
<1>1. CASE UNCHANGED <<armVars, tencentVars>>
  BY <1>1, CountFrame DEF armVars, tencentVars, gateway, delivery, query, outcome, CountInv
<1>2. ASSUME NEW s \in Sessions, L1Task(s)
      PROVE  CountInv'
  BY <1>2, CountTask
<1>3. ASSUME NEW s \in Sessions, TimerFires(s)
      PROVE  CountInv'
  BY <1>3, CountFrame DEF TimerFires, armVars, query, outcome, CountInv
<1>4. CASE StartEpisode
  <2>1. /\ pc' = "idle" /\ UNCHANGED rows /\ seen' = {} /\ gathered' = {} /\ counted' = {} /\ count' = 0 /\ offset' = 0
    BY <1>4 DEF StartEpisode, gateway
  <2>2. Cardinality({}) = 0
    BY FS_EmptySet
  <2>3. QED
    BY <2>1, <2>2 DEF CountInv
<1>5. CASE Crash
  BY <1>5, CountFrame DEF Crash, gateway, delivery, query
<1>6. CASE RecordMessage /\ UNCHANGED tencentVars
  BY <1>6, CountFrame DEF RecordMessage, tencentVars, gateway, delivery, query, outcome, CountInv
<1>7. CASE NothingToFlush
  <2>1. Own = {}
    BY <1>7 DEF NothingToFlush, StageInv, Untouched, Own, LiveIds
  <2>2. QED
    BY <1>7, <2>1, CountFrame DEF NothingToFlush, gateway, delivery, query, CountInv
<1>8. ASSUME NEW f \in BOOLEAN, BeginExtraction(f)
      PROVE  CountInv'
  <2>1. /\ pc = "idle" /\ pc' \in {"send", "drain"} /\ (watermark' = watermark \/ watermark = 0)
        /\ UNCHANGED <<rows, episode, offset, gathered, counted, count, seen>>
    BY <1>8 DEF BeginExtraction, gateway, query
  <2>2. offset = 0 /\ gathered = {}
    BY <2>1 DEF CountInv
  <2>3. QED
    BY <2>1, <2>2, CountFrame
<1>9. ASSUME NEW q \in BOOLEAN, NEW r \in BOOLEAN, SendChunk(q, r) \/ SendFails(q, r)
      PROVE  CountInv'
  <2>1. /\ pc = "send" /\ pc' \in {"send", "drain", "raise"} /\ UNCHANGED watermark
        /\ UNCHANGED <<rows, episode, offset, gathered, counted, count, seen>>
    BY <1>9, SendIs DEF SendChunk, SendFails, query
  <2>2. offset = 0 /\ gathered = {}
    BY <2>1 DEF CountInv
  <2>3. QED
    BY <2>1, <2>2, CountFrame
<1>10. CASE DrainIdle \/ IdleWait \/ TailIdle \/ DrainTimesOut
  <2>1. /\ pc \in {"drain", "wait", "tail"} /\ pc' \in {"wait", "resolve", "tail", "raise"} /\ UNCHANGED watermark
        /\ UNCHANGED <<rows, episode, offset, gathered, counted, count, seen>>
    BY <1>10 DEF DrainIdle, IdleWait, TailIdle, DrainTimesOut, tencentVars, gateway, delivery, query
  <2>2. offset = 0 /\ gathered = {}
    BY <2>1 DEF CountInv
  <2>3. QED
    BY <2>1, <2>2, CountFrame
<1>11. CASE ResolvePage
  BY <1>11, CountResolve
<1>12. CASE ResolveFails
  <2>1. /\ pc' = "raise" /\ offset' = 0 /\ gathered' = {}
        /\ UNCHANGED <<rows, watermark, seen, counted, count>> /\ Tag' = Tag
    BY <1>12 DEF ResolveFails, gateway, delivery, Tag
  <2>2. QED
    BY <2>1 DEF CountInv
<1>13. CASE ExtractionRaises
  <2>1. /\ pc = "raise" /\ pc' = Resume /\ UNCHANGED <<watermark, whole>> /\ ~whole
        /\ UNCHANGED <<rows, episode, offset, gathered, counted, count, seen>>
    BY <1>13 DEF ExtractionRaises, gateway, delivery, query, StageInv
  <2>2. offset = 0 /\ gathered = {} /\ pc' # "resolve"
    BY <2>1 DEF CountInv, Resume
  <2>3. QED
    BY <2>1, <2>2, CountFrame
<1>14. CASE EndpointWrites
  BY <1>14, CountFrame, EndpointWritesIs DEF armVars, delivery, query, outcome, CountInv
<1>15. CASE EndpointOnly
  BY <1>15, CountFrame, EndpointOnlyIs DEF armVars, gateway, delivery, query, outcome, CountInv
<1>16. QED
  BY <1>1, <1>2, <1>3, <1>4, <1>5, <1>6, <1>7, <1>8, <1>9, <1>10, <1>11, <1>12, <1>13, <1>14, <1>15 DEF TencentNext, EndpointWrites, EndpointOnly

-----------------------------------------------------------------------------
(* What the windows say of a drained episode.                              *)

LEMMA NewestSpanning ==
    ASSUME Shape, NEW at, NEW k \in DOMAIN windows, Spans(windows[k], at),
           \A j \in DOMAIN windows : k < j => ~Spans(windows[j], at)
    PROVE  OriginSession(at) = windows[k].of
<1> DEFINE I == {i \in DOMAIN windows : Spans(windows[i], at)}
           c == CHOOSE i \in I : \A j \in I : j <= i
<1>1. DOMAIN windows \subseteq Nat
  BY DEF Shape
<1>2. k \in I /\ \A j \in I : j <= k
  <2>1. \A j \in I : j \in Nat /\ ~(k < j)
    BY <1>1
  <2>2. \A j \in I : j <= k
    BY <1>1, <2>1
  <2>3. QED
    BY <2>2
<1>3. I \subseteq Nat
  BY <1>1
<1>4. OriginSession(at) = IF I = {} THEN Unknown ELSE windows[c].of
  BY DEF OriginSession
<1> HIDE DEF I
<1>5. c \in I /\ \A j \in I : j <= c
  BY <1>2
<1>6. c = k
  BY <1>2, <1>3, <1>5
<1>7. QED
  BY <1>2, <1>4, <1>6

LEMMA SomeSpanning ==
    ASSUME Shape, NEW at
    PROVE  \/ OriginSession(at) = Unknown
           \/ \E k \in DOMAIN windows : Spans(windows[k], at) /\ OriginSession(at) = windows[k].of
<1> DEFINE I == {i \in DOMAIN windows : Spans(windows[i], at)}
           c == CHOOSE i \in I : \A j \in I : j <= i
<1>1. windows \in Seq(Window) /\ DOMAIN windows = 1..Len(windows) /\ Len(windows) \in Nat
  BY DEF Shape
<1>2. OriginSession(at) = IF I = {} THEN Unknown ELSE windows[c].of
  BY DEF OriginSession
<1>3. I \in SUBSET (1..Len(windows)) /\ \A i \in I : i \in DOMAIN windows /\ Spans(windows[i], at)
  BY <1>1
<1> HIDE DEF I
<1>4. CASE I = {}
  BY <1>2, <1>4
<1>5. CASE I # {}
  <2>1. \E i \in I : \A j \in I : j <= i
    BY <1>1, <1>3, <1>5, GreatestExists
  <2>2. c \in I
    BY <2>1
  <2>3. QED
    BY <1>2, <1>3, <1>5, <2>2
<1>6. QED
  BY <1>4, <1>5

\* The invariants make a drained episode whole.
LEMMA WhatDrainedSays ==
    ASSUME EndpointInv, Shape, SessionInv, StageInv, RowInv, WindowInv, SidecarInv, CountInv
    PROVE  DrainedEpisodeIsWhole
<1> SUFFICES ASSUME pc = "closed", whole
             PROVE  DrainedEpisodeIsWhole
  BY DEF DrainedEpisodeIsWhole
<1> DEFINE l == Len(windows)
<1>1. /\ episode \in Nat /\ episode > 0 /\ episode \in Sessions /\ episode # Tag
      /\ AtRest(episode) /\ Intact
  BY SessionsAre DEF EndpointInv, StageInv, Drained, Intact
<1>2. /\ l \in DOMAIN windows /\ l \in Nat /\ windows[l] = Current /\ Current \in Window /\ Current.of = episode
      /\ \A j \in DOMAIN windows : /\ j <= l /\ j \in Nat
                                   /\ windows[j].of \in Nat /\ windows[j].start \in Nat /\ windows[j].end \in Nat
  BY <1>1, CurrentIs DEF Current
<1>3. Current.start \in Nat /\ Current.end \in Nat
  BY <1>2 DEF Window
<1>4. watermark \in Nat /\ \A i \in DOMAIN rows : rows[i].at \in Nat /\ rows[i].of \in Nat
  BY RowFacts, SessionsAre
<1>5. backlog[episode] = 0 /\ episode \notin queued \cup armed
  BY <1>1 DEF SessionInv, AtRest
<1>6. Own \subseteq seen /\ count = Cardinality(seen)
  BY DEF CountInv
<1>7. ASSUME NEW i \in Own
      PROVE  OriginSession(rows[i].at) = episode
  <2>1. i \in DOMAIN rows /\ rows[i].of = episode
    BY DEF Own, LiveIds
  <2>2. Current.start <= rows[i].at /\ (Current.end # 0 => rows[i].at < Current.end)
    BY <1>1, <2>1 DEF WindowInv
  <2>3. Spans(windows[l], rows[i].at)
    BY <1>2, <2>2 DEF Spans
  <2>4. \A j \in DOMAIN windows : ~(l < j)
    BY <1>2
  <2>5. OriginSession(rows[i].at) = windows[l].of
    BY <1>2, <2>3, <2>4, NewestSpanning
  <2>6. QED
    BY <1>2, <2>5
<1>8. ASSUME ~gaveUp, NEW i \in seen
      PROVE  rows[i].of = episode
  <2>1. i \in DOMAIN rows /\ rows[i].of # Tag /\ watermark # 0 /\ rows[i].at >= watermark
    BY DEF Shape, CountInv
  <2>2. Current.start <= watermark
    BY <1>1, <2>1 DEF WindowInv
  <2>3. BeginsAt(episode, Current.start)
    BY <1>2, <1>8 DEF SidecarInv
  <2>4. ~(rows[i].of < episode)
    <3>1. rows[i].of < episode => rows[i].at < Current.start
      BY <2>1, <2>3 DEF BeginsAt
    <3>2. QED
      BY <1>3, <1>4, <2>1, <2>2, <3>1
  <2>5. rows[i].of \in 1..episode
    BY <2>1 DEF RowInv
  <2>6. QED
    BY <1>1, <2>4, <2>5
<1>9. ASSUME ~gaveUp, NEW i \in DOMAIN rows, rows[i].of # Tag
      PROVE  IF \E j \in DOMAIN windows : windows[j].of = rows[i].of
             THEN OriginSession(rows[i].at) = rows[i].of
             ELSE OriginSession(rows[i].at) \in {Unknown} \cup Unclosed
  <2>1. rows[i].at \in Nat /\ rows[i].of \in Nat
    BY <1>4
  <2>2. ASSUME NEW j \in DOMAIN windows
        PROVE  /\ rows[i].of < windows[j].of => rows[i].at < windows[j].start
               /\ rows[i].of = windows[j].of => windows[j].start <= rows[i].at
               /\ windows[j].end # 0 /\ rows[i].of = windows[j].of => rows[i].at < windows[j].end
               /\ windows[j].end # 0 /\ rows[i].of > windows[j].of => windows[j].end <= rows[i].at
    BY <1>9 DEF SidecarInv, BeginsAt, EndsAt
  <2>3. ASSUME NEW j \in DOMAIN windows, windows[j].of = rows[i].of
        PROVE  OriginSession(rows[i].at) = rows[i].of
    <3>1. Spans(windows[j], rows[i].at)
      BY <2>2, <2>3 DEF Spans
    <3>2. ASSUME NEW k \in DOMAIN windows, j < k
          PROVE  ~Spans(windows[k], rows[i].at)
      <4>1. windows[j].of < windows[k].of
        BY <3>2 DEF WindowInv
      <4>2. rows[i].at < windows[k].start
        BY <2>2, <2>3, <4>1
      <4>3. QED
        BY <1>2, <2>1, <4>2 DEF Spans
    <3>3. OriginSession(rows[i].at) = windows[j].of
      BY <3>1, <3>2, NewestSpanning
    <3>4. QED
      BY <2>3, <3>3
  <2>4. ASSUME ~\E j \in DOMAIN windows : windows[j].of = rows[i].of
        PROVE  OriginSession(rows[i].at) \in {Unknown} \cup Unclosed
    <3>1. ASSUME NEW k \in DOMAIN windows, Spans(windows[k], rows[i].at)
          PROVE  windows[k].of \in Unclosed
      <4>1. windows[k].start \in Nat /\ windows[k].end \in Nat /\ windows[k].of \in Nat
        BY <1>2
      <4>2. windows[k].start <= rows[i].at /\ (windows[k].end = 0 \/ rows[i].at < windows[k].end)
        BY <3>1 DEF Spans
      <4>3. rows[i].of > windows[k].of
        BY <2>1, <2>2, <2>4, <4>1, <4>2
      <4>4. windows[k].end = 0
        BY <2>1, <2>2, <4>1, <4>2, <4>3
      <4>5. QED
        BY <4>4 DEF Unclosed
    <3>2. QED
      BY <3>1, SomeSpanning
  <2>5. QED
    BY <2>3, <2>4
<1>10. Own = {i \in LiveIds : rows[i].of = episode}
  BY DEF Own
<1>11. QED
  BY <1>5, <1>6, <1>7, <1>8, <1>9, <1>10 DEF DrainedEpisodeIsWhole

\* All of it, at the start and from step to step.
EpisodeInv ==
    Shape /\ SessionInv /\ StageInv /\ RowInv /\ WindowInv /\ SidecarInv /\ CountInv

LEMMA EpisodeInvInit ==
    ASSUME pc = "down", ArmInit, TencentInit
    PROVE  EpisodeInv
<1> USE DEF ArmInit, TencentInit
<1>1. Shape
  <2>1. <<>> \in Seq(Row) /\ <<>> \in Seq(Window) /\ <<>> \in Seq(Record)
    OBVIOUS
  <2>2. QED
    BY <2>1 DEF Shape
<1>2. SessionInv
  BY TencentAssumption DEF SessionInv
<1>3. RowInv /\ WindowInv /\ SidecarInv
  BY DEF RowInv, WindowInv, SidecarInv
<1>4. StageInv
  <2>1. Untouched
    BY DEF Untouched, AtRest
  <2>2. 1..(episode - 1) = {}
    OBVIOUS
  <2>3. QED
    BY <2>1, <2>2 DEF StageInv, Drained
<1>5. CountInv
  BY FS_EmptySet DEF CountInv
<1>6. QED
  BY <1>1, <1>2, <1>3, <1>4, <1>5 DEF EpisodeInv

LEMMA EpisodeInvStep ==
    ASSUME BufferInv, EndpointInv, EpisodeInv, [TencentNext]_<<armVars, tencentVars>>, Loud'
    PROVE  EpisodeInv'
BY ShapeStep, SessionStep, StageStep, RowStep, WindowStep, SidecarStep, CountStep DEF EpisodeInv

(* While no add of an episode went unheard, an episode whose final drain   *)
(* succeeded is whole: nothing of it is left in the gateway, its queries   *)
(* have counted every row it produced once, and its rows and, while every  *)
(* episode drained, all rows belong to their episodes for the windows      *)
(* (tencentdb_bridge/backend.py:220-225, 415-418, 699-721, 811-836).       *)
THEOREM DrainedEpisodesAreWhole == TencentSpec => []DrainedEpisodeIsWhole
<1>1. pc = "down" /\ ArmInit /\ TencentInit => (Loud => EpisodeInv)
  BY EpisodeInvInit
<1>2. BufferInv /\ EndpointInv /\ (Loud => EpisodeInv) /\ [TencentNext]_<<armVars, tencentVars>>
          => (Loud => EpisodeInv)'
  BY LoudBefore, EpisodeInvStep
<1>3. EndpointInv /\ (Loud => EpisodeInv) => DrainedEpisodeIsWhole
  <2>1. EndpointInv /\ EpisodeInv => DrainedEpisodeIsWhole
    BY WhatDrainedSays DEF EpisodeInv
  <2>2. ~Loud => DrainedEpisodeIsWhole
    BY DEF Loud, DrainedEpisodeIsWhole
  <2>3. QED
    BY <2>1, <2>2
<1>4. QED
  BY <1>1, <1>2, <1>3, BufferInvariant, EndpointInvariant, PTL DEF TencentSpec
=============================================================================

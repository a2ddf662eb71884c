----------------------------- MODULE Mem0_proofs -----------------------------
(***************************************************************************)
(* Proofs about Mem0: for every store, every engine and every number of    *)
(* messages, memories and late adds.                                       *)
(***************************************************************************)
EXTENDS Mem0, FiniteSetTheorems, Induction

LEMMA RangeOfAppend ==
    ASSUME NEW S, NEW seq \in Seq(S), NEW e \in S
    PROVE  Range(Append(seq, e)) = Range(seq) \cup {e}
<1>1. DOMAIN Append(seq, e) = DOMAIN seq \cup {Len(seq) + 1}
  OBVIOUS
<1>2. \A i \in DOMAIN seq : Append(seq, e)[i] = seq[i]
  OBVIOUS
<1>3. Append(seq, e)[Len(seq) + 1] = e
  OBVIOUS
<1>4. QED
  BY <1>1, <1>2, <1>3, Zenon DEF Range

LEMMA AlsoFeeds ==
    ASSUME NEW bag \in [Message -> Nat], NEW batch
    PROVE  /\ Also(bag, batch) \in [Message -> Nat]
           /\ \A m \in Message : Also(bag, batch)[m] >= bag[m]
           /\ \A m \in Message : m \in Range(batch) => Also(bag, batch)[m] > 0
BY DEF Also

\* What the engine was fed covers the buffer as soon as an add succeeded, and
\* no add is under way while messages are recorded.
BufferInv ==
    /\ recorded \in 0..MaxMessages
    /\ fed \in [Message -> Nat]
    /\ pc \in {"idle", "closed", "post"} => job.status = "none"
    /\ pc = "finish" => job.status = "SUCCEEDED"
    /\ job.status = "SUCCEEDED" => \A m \in Range(pending) \cap Message : fed[m] > 0
    /\ pending \in Seq(Message)
    /\ NothingDropped

LEMMA BufferStep ==
    ASSUME BufferInv, [Mem0Next]_<<armVars, mem0Vars>>
    PROVE  BufferInv'
<1> USE MessagesAssumption DEF BufferInv, NothingDropped, Message
<1>1. CASE UNCHANGED <<armVars, mem0Vars>>
  BY <1>1 DEF armVars, mem0Vars
<1>2. CASE RecordMessage /\ UNCHANGED mem0Vars
  <2>1. recorded' = recorded + 1 /\ pending' = Append(pending, recorded + 1) /\ recorded + 1 \in Message
    BY <1>2 DEF RecordMessage
  <2>2. Range(pending') = Range(pending) \cup {recorded + 1}
    BY <2>1, RangeOfAppend
  <2>3. pending' \in Seq(Message)
    BY <2>1
  <2>4. pc = "idle" /\ pc' = pc /\ job' = job /\ fed' = fed
    BY <1>2 DEF RecordMessage, mem0Vars
  <2>5. ASSUME NEW m \in 1..(recorded + 1)
        PROVE  m \in Range(pending') \/ fed[m] > 0
    <3>1. CASE m = recorded + 1
      BY <2>2, <3>1
    <3>2. CASE m \in 1..recorded
      BY <2>2, <3>2
    <3>3. QED
      BY <3>1, <3>2
  <2>6. NothingDropped'
    BY <2>1, <2>4, <2>5
  <2>7. /\ recorded' \in 0..MaxMessages /\ fed' \in [Message -> Nat]
        /\ (pc' \in {"idle", "closed", "post"} => job'.status = "none") /\ pc' # "finish"
    BY <2>1, <2>4
  <2>8. job'.status # "SUCCEEDED"
    BY <2>4
  <2>9. QED
    BY <2>3, <2>6, <2>7, <2>8
<1>3. ASSUME NEW isFinal \in BOOLEAN, NEW s \in Snapshots, BeginAdd(isFinal, s)
      PROVE  BufferInv'
  BY <1>3 DEF BeginAdd
<1>4. CASE NothingPending
  BY <1>4 DEF NothingPending, mem0Vars
<1>5. CASE PostRaises
  BY <1>5 DEF PostRaises, NoJob, Job
<1>6. CASE PostQueues
  BY <1>6 DEF PostQueues, Job
<1>7. CASE PollAnswers
  BY <1>7 DEF PollAnswers, mem0Vars
<1>8. CASE PollRaises
  BY <1>8 DEF PollRaises, mem0Vars
<1>9. CASE FinishException
  BY <1>9 DEF FinishException, AfterFailure, NoJob, Job, Resume
<1>10. ASSUME NEW r \in Series, NEW t \in Telling, PostAnswers(r, t)
       PROVE  BufferInv'
  BY <1>10, AlsoFeeds DEF PostAnswers, Outcome, Job
<1>11. ASSUME NEW s \in Snapshots, Finish(s)
       PROVE  BufferInv'
  <2>1. pending' = <<>> /\ Range(<<>>) = {}
    BY <1>11 DEF Finish, Range
  <2>2. \A m \in 1..recorded : fed[m] > 0
    BY <1>11 DEF Finish
  <2>3. QED
    BY <1>11, <2>1, <2>2 DEF Finish
<1>12. CASE Report
  BY <1>12 DEF Report, NoJob, Job, Resume
<1>13. CASE JobFails
  BY <1>13 DEF JobFails, Job, armVars
<1>14. ASSUME NEW r \in Series, NEW t \in Telling, JobLands(r, t)
       PROVE  BufferInv'
  BY <1>14, AlsoFeeds DEF JobLands, Outcome, Job
<1>15. ASSUME NEW j \in DOMAIN late, LateJobFails(j)
       PROVE  BufferInv'
  BY <1>15 DEF LateJobFails, armVars
<1>16. ASSUME NEW j \in DOMAIN late, NEW r \in Series, LateJobLands(j, r)
       PROVE  BufferInv'
  <2>1. fed' \in [Message -> Nat] /\ \A m \in Message : fed'[m] >= fed[m]
    BY <1>16, AlsoFeeds DEF LateJobLands
  <2>2. QED
    BY <1>16, <2>1 DEF LateJobLands
<1>17. ASSUME NEW u \in User, NEW r \in SeriesOf(u), EndpointAdd(u, r)
       PROVE  BufferInv'
  BY <1>17 DEF EndpointAdd, armVars
<1>18. ASSUME NEW i \in Id, NEW u \in User, EndpointCheck(i, u)
       PROVE  BufferInv'
  BY <1>18 DEF EndpointCheck, armVars
<1>19. ASSUME NEW t \in Text \cup {Gone}, EndpointWrite(t)
       PROVE  BufferInv'
  BY <1>19 DEF EndpointWrite, armVars
<1>20. QED
  BY <1>1, <1>2, <1>3, <1>4, <1>5, <1>6, <1>7, <1>8, <1>9, <1>10, <1>11, <1>12, <1>13, <1>14, <1>15, <1>16,
     <1>17, <1>18, <1>19 DEF Mem0Next

(* No recorded message is lost to the memory, whatever the engine answers, *)
(* however late it does and however often an add fails                     *)
(* (mem0_bridge/backend.py:442-444, 488).                                  *)
THEOREM Mem0DropsNothing == Mem0Spec => []NothingDropped
<1>1. pc = "idle" /\ ArmInit /\ Mem0Init => BufferInv
  BY MessagesAssumption DEF ArmInit, Mem0Init, BufferInv, NothingDropped, None, Message, NoJob, Job
<1>2. BufferInv /\ [Mem0Next]_<<armVars, mem0Vars>> => BufferInv'
  BY BufferStep
<1>3. BufferInv => NothingDropped
  BY DEF BufferInv
<1>4. QED
  BY <1>1, <1>2, <1>3, PTL DEF Mem0Spec

-----------------------------------------------------------------------------
(* What a series of acts does.                                             *)

Memory   == [user : User, text : Text \cup {Gone}]
Receipt  == [event : {"ADD", "UPDATE", "DELETE"}, id : Id, text : Text \cup {Gone}]
Tells(acts, event, id) == \E k \in DOMAIN acts : acts[k].id = id /\ acts[k].event = event
ScopeOf(table) == [id \in {i \in Id : Has(Me, table, i)} |-> table[id].text]

\* The acts of one user lead from one table to the other, and tell all of it.
Leads(u, base, acts, table) ==
    /\ table \in Seq(Memory) /\ Len(base) <= Len(table) /\ Len(table) <= MaxMemories
    /\ acts \in Seq(Receipt)
    /\ \A i \in DOMAIN base : table[i].user = base[i].user
    /\ \A i \in DOMAIN base : base[i].user # u => table[i] = base[i]
    /\ \A i \in DOMAIN table : i \notin DOMAIN base => table[i].user = u
    /\ \A k \in DOMAIN acts : acts[k].id \in DOMAIN table
    /\ \A id \in Id :
        /\ Has(u, table, id) /\ ~Has(u, base, id) => Tells(acts, "ADD", id)
        /\ Has(u, base, id) /\ ~Has(u, table, id) => Tells(acts, "DELETE", id)
        /\ Has(u, base, id) /\ Has(u, table, id) /\ table[id].text # base[id].text => Tells(acts, "UPDATE", id)
        /\ Tells(acts, "DELETE", id) => ~Has(u, table, id)
        /\ (Tells(acts, "ADD", id) \/ Tells(acts, "UPDATE", id)) /\ ~Tells(acts, "DELETE", id) => Has(u, table, id)

LEMMA TellsMore ==
    ASSUME NEW acts \in Seq(Receipt), NEW a \in Receipt
    PROVE  /\ Append(acts, a) \in Seq(Receipt)
           /\ \A event, id : Tells(Append(acts, a), event, id)
                                <=> Tells(acts, event, id) \/ (a.id = id /\ a.event = event)
           /\ \A k \in DOMAIN Append(acts, a) : (k \in DOMAIN acts /\ Append(acts, a)[k] = acts[k]) \/ Append(acts, a)[k] = a
<1> DEFINE more == Append(acts, a)
<1>1. /\ more \in Seq(Receipt) /\ Len(more) = Len(acts) + 1 /\ DOMAIN more = 1..(Len(acts) + 1) /\ DOMAIN acts = 1..Len(acts)
      /\ Len(acts) \in Nat
  OBVIOUS
<1>2. (\A k \in 1..Len(acts) : more[k] = acts[k]) /\ more[Len(acts) + 1] = a
  OBVIOUS
<1> HIDE DEF more
<1>3. \A k \in 1..(Len(acts) + 1) : k \in 1..Len(acts) \/ k = Len(acts) + 1
  BY <1>1
<1>4. \A k \in 1..Len(acts) : k \in 1..(Len(acts) + 1)
  BY <1>1
<1>5. Len(acts) + 1 \in 1..(Len(acts) + 1)
  BY <1>1
<1>6. \A event, id : Tells(more, event, id) <=> Tells(acts, event, id) \/ (a.id = id /\ a.event = event)
  BY <1>1, <1>2, <1>3, <1>4, <1>5, Zenon DEF Tells
<1>7. QED
  BY <1>1, <1>2, <1>3, <1>6 DEF more

LEMMA LeadsOn ==
    ASSUME NEW u \in User, NEW base \in Seq(Memory), NEW acts, NEW table, Leads(u, base, acts, table), NEW a \in Acts(u, table)
    PROVE  Leads(u, base, Append(acts, a), Done(u, table, a))
<1> DEFINE more == Append(acts, a)
           after == Done(u, table, a)
<1>0. /\ table \in Seq(Memory) /\ acts \in Seq(Receipt) /\ Len(table) <= MaxMemories /\ Len(base) <= Len(table)
      /\ \A i \in DOMAIN base : table[i].user = base[i].user
      /\ \A i \in DOMAIN base : base[i].user # u => table[i] = base[i]
      /\ \A i \in DOMAIN table : i \notin DOMAIN base => table[i].user = u
      /\ \A k \in DOMAIN acts : acts[k].id \in DOMAIN table
  BY DEF Leads
<1>1. /\ Len(table) \in Nat /\ DOMAIN table = 1..Len(table) /\ Len(base) \in Nat /\ DOMAIN base = 1..Len(base)
      /\ MaxMemories \in Nat /\ u \in User /\ Gone \notin Text
  BY <1>0, Mem0Assumption
<1>2. DOMAIN base \subseteq DOMAIN table
  BY <1>0, <1>1
<1>3. CASE \E t \in Text : a = Act("ADD", Len(table) + 1, t) /\ Len(table) < MaxMemories
  <2>1. PICK t \in Text : a = Act("ADD", Len(table) + 1, t)
    BY <1>3
  <2>2. a.event = "ADD" /\ a.id = Len(table) + 1 /\ a.text = t /\ a \in Receipt
    <3>1. Len(table) + 1 \in Id
      BY <1>1, <1>3 DEF Id
    <3>2. QED
      BY <2>1, <3>1 DEF Act, Receipt
  <2>3. after = Append(table, [user |-> u, text |-> t])
    BY <2>2 DEF Done
  <2>4. [user |-> u, text |-> t] \in Memory
    BY <1>1 DEF Memory
  <2>5. /\ after \in Seq(Memory) /\ Len(after) = Len(table) + 1 /\ DOMAIN after = 1..(Len(table) + 1)
        /\ \A i \in 1..Len(table) : after[i] = table[i]
        /\ after[Len(table) + 1] = [user |-> u, text |-> t]
    BY <1>0, <2>3, <2>4
  <2> HIDE DEF after
  <2>6. \A id : Has(u, after, id) <=> Has(u, table, id) \/ id = Len(table) + 1
    <3>1. \A id : id \in DOMAIN after <=> id \in DOMAIN table \/ id = Len(table) + 1
      BY <1>1, <2>5
    <3>2. after[Len(table) + 1].user = u /\ after[Len(table) + 1].text # Gone
      BY <1>1, <2>5
    <3>3. QED
      BY <1>1, <2>5, <3>1, <3>2 DEF Has
  <2>7. \A id : Has(u, table, id) => id \in 1..Len(table) /\ id # Len(table) + 1 /\ after[id] = table[id]
    BY <1>1, <2>5 DEF Has
  <2>8. \A event, id : Tells(more, event, id) <=> Tells(acts, event, id) \/ (Len(table) + 1 = id /\ event = "ADD")
    BY <1>0, <2>2, TellsMore
  <2>9. ~Has(u, base, Len(table) + 1) /\ \A event : ~Tells(acts, event, Len(table) + 1)
    BY <1>0, <1>1, <1>2 DEF Has, Tells
  <2>10. \A k \in DOMAIN more : more[k].id \in DOMAIN after
    BY <1>0, <1>1, <2>2, <2>5, TellsMore
  <2>11. ASSUME NEW id \in Id
         PROVE  /\ Has(u, after, id) /\ ~Has(u, base, id) => Tells(more, "ADD", id)
                /\ Has(u, base, id) /\ ~Has(u, after, id) => Tells(more, "DELETE", id)
                /\ Has(u, base, id) /\ Has(u, after, id) /\ after[id].text # base[id].text => Tells(more, "UPDATE", id)
                /\ Tells(more, "DELETE", id) => ~Has(u, after, id)
                /\ (Tells(more, "ADD", id) \/ Tells(more, "UPDATE", id)) /\ ~Tells(more, "DELETE", id) => Has(u, after, id)
    <3> HIDE DEF more
    <3>1. CASE id = Len(table) + 1
      BY <2>6, <2>8, <2>9, <3>1
    <3>2. CASE id # Len(table) + 1
      <4>1. \A event : Tells(more, event, id) <=> Tells(acts, event, id)
        BY <2>8, <3>2
      <4>2. (Has(u, after, id) <=> Has(u, table, id)) /\ (Has(u, table, id) => after[id] = table[id])
        BY <2>6, <2>7, <3>2
      <4>3. QED
        BY <4>1, <4>2 DEF Leads
    <3>3. QED
      BY <3>1, <3>2
  <2>12. /\ more \in Seq(Receipt) /\ Len(base) <= Len(after) /\ Len(after) <= MaxMemories
         /\ \A i \in DOMAIN base : after[i].user = base[i].user
         /\ \A i \in DOMAIN base : base[i].user # u => after[i] = base[i]
         /\ \A i \in DOMAIN after : i \notin DOMAIN base => after[i].user = u
    <3>1. more \in Seq(Receipt) /\ Len(base) <= Len(after) /\ Len(after) <= MaxMemories
      BY <1>0, <1>1, <1>3, <2>2, <2>5, TellsMore
    <3>2. \A i \in DOMAIN base : i \in 1..Len(table) /\ after[i] = table[i]
      BY <1>1, <1>2, <2>5
    <3>3. \A i \in DOMAIN after : (i \in DOMAIN table /\ after[i] = table[i]) \/ i = Len(table) + 1
      BY <1>1, <2>5
    <3>4. after[Len(table) + 1].user = u
      BY <2>5
    <3>5. QED
      BY <1>0, <3>1, <3>2, <3>3, <3>4
  <2>13. Leads(u, base, more, after)
    BY <2>5, <2>10, <2>11, <2>12 DEF Leads
  <2>14. QED
    BY <2>13 DEF after
<1>4. CASE \E i \in DOMAIN table, t \in Text \cup {Gone} :
             /\ table[i].user = u /\ table[i].text # Gone
             /\ a = Act(IF t = Gone THEN "DELETE" ELSE "UPDATE", i, t)
  <2>1. PICK i \in DOMAIN table, t \in Text \cup {Gone} :
             /\ table[i].user = u /\ table[i].text # Gone
             /\ a = Act(IF t = Gone THEN "DELETE" ELSE "UPDATE", i, t)
    BY <1>4
  <2>2. a.event = (IF t = Gone THEN "DELETE" ELSE "UPDATE") /\ a.id = i /\ a.text = t /\ a \in Receipt
    <3>1. i \in Id
      BY <1>0, <1>1 DEF Id
    <3>2. QED
      BY <2>1, <3>1 DEF Act, Receipt
  <2>3. after = [table EXCEPT ![i].text = t]
    BY <2>2 DEF Done
  <2>4. i \in 1..Len(table) /\ table \in [1..Len(table) -> Memory] /\ table[i] \in Memory
    BY <1>0, <1>1
  <2>5. /\ after \in Seq(Memory) /\ Len(after) = Len(table) /\ DOMAIN after = 1..Len(table)
        /\ \A j \in 1..Len(table) : j # i => after[j] = table[j]
        /\ after[i].user = u /\ after[i].text = t
    <3> DEFINE changed == [table[i] EXCEPT !.text = t]
    <3>1. changed = [user |-> table[i].user, text |-> t]
      BY <2>4 DEF Memory
    <3>2. changed \in Memory /\ changed.user = u /\ changed.text = t
      <4>1. table[i].user \in User
        BY <2>4 DEF Memory
      <4>2. QED
        BY <2>1, <3>1, <4>1 DEF Memory
    <3>3. after = [table EXCEPT ![i] = changed]
      BY <2>3
    <3> HIDE DEF changed, after
    <3>4. after \in [1..Len(table) -> Memory] /\ after[i] = changed /\ \A j \in 1..Len(table) : j # i => after[j] = table[j]
      BY <2>4, <3>2, <3>3
    <3>5. after \in Seq(Memory) /\ Len(after) = Len(table)
      BY <1>1, <3>4
    <3>6. QED
      BY <3>2, <3>4, <3>5
  <2> HIDE DEF after
  <2>6. \A id : id # i => (Has(u, after, id) <=> Has(u, table, id)) /\ (id \in DOMAIN table => after[id] = table[id])
    BY <1>1, <2>5 DEF Has
  <2>7. Has(u, table, i) /\ (Has(u, after, i) <=> t # Gone)
    BY <1>1, <2>1, <2>5 DEF Has
  <2>8. \A event, id : Tells(more, event, id) <=> Tells(acts, event, id) \/ (id = i /\ event = a.event)
    BY <1>0, <2>2, TellsMore
  <2>9. \A k \in DOMAIN more : more[k].id \in DOMAIN after
    BY <1>0, <1>1, <2>2, <2>5, TellsMore
  <2>10. ASSUME NEW id \in Id
         PROVE  /\ Has(u, after, id) /\ ~Has(u, base, id) => Tells(more, "ADD", id)
                /\ Has(u, base, id) /\ ~Has(u, after, id) => Tells(more, "DELETE", id)
                /\ Has(u, base, id) /\ Has(u, after, id) /\ after[id].text # base[id].text => Tells(more, "UPDATE", id)
                /\ Tells(more, "DELETE", id) => ~Has(u, after, id)
                /\ (Tells(more, "ADD", id) \/ Tells(more, "UPDATE", id)) /\ ~Tells(more, "DELETE", id) => Has(u, after, id)
    <3> HIDE DEF more
    <3>1. CASE id = i
      <4>1. ~Tells(acts, "DELETE", i) /\ (~Has(u, base, i) => Tells(acts, "ADD", i))
        BY <2>7, <3>1 DEF Leads
      <4>2. Tells(more, "DELETE", i) <=> t = Gone
        BY <2>2, <2>8, <4>1
      <4>3. t # Gone => Tells(more, "UPDATE", i)
        BY <2>2, <2>8
      <4>4. Tells(acts, "ADD", i) => Tells(more, "ADD", i)
        BY <2>8
      <4>5. QED
        BY <2>7, <3>1, <4>1, <4>2, <4>3, <4>4
    <3>2. CASE id # i
      <4>1. \A event : Tells(more, event, id) <=> Tells(acts, event, id)
        BY <2>8, <3>2
      <4>2. (Has(u, after, id) <=> Has(u, table, id)) /\ (Has(u, table, id) => after[id] = table[id])
        BY <2>6, <3>2 DEF Has
      <4>3. QED
        BY <4>1, <4>2 DEF Leads
    <3>3. QED
      BY <3>1, <3>2
  <2>11. /\ more \in Seq(Receipt) /\ Len(base) <= Len(after) /\ Len(after) <= MaxMemories
    BY <1>0, <1>1, <2>2, <2>5, TellsMore
  <2>12. /\ \A j \in DOMAIN base : after[j].user = base[j].user
         /\ \A j \in DOMAIN base : base[j].user # u => after[j] = base[j]
         /\ \A j \in DOMAIN after : j \notin DOMAIN base => after[j].user = u
    BY <1>0, <1>1, <1>2, <2>1, <2>5
  <2>13. Leads(u, base, more, after)
    BY <2>5, <2>9, <2>10, <2>11, <2>12 DEF Leads
  <2>14. QED
    BY <2>13 DEF after
<1>5. QED
  BY <1>1, <1>3, <1>4 DEF Acts, Has

-----------------------------------------------------------------------------
(* The series of acts of one add.                                          *)

Longer(u, S, n) ==
    S \cup UNION {{[acts |-> Append(r.acts, a), table |-> Done(u, r.table, a)] : a \in Acts(u, r.table)}
                    : r \in {q \in S : Len(q.acts) = n - 1}}
Begun == {[acts |-> <<>>, table |-> memories]}

\* The recursive definition of the series has a solution.
LEMMA SeriesExists ==
    ASSUME NEW u, NEW N \in Nat
    PROVE  \E f : f = [n \in 0..N |-> IF n = 0 THEN Begun ELSE Longer(u, f[n - 1], n)]
<1> DEFINE T == {m \in Nat : \E f : f = [n \in 0..m |-> IF n = 0 THEN Begun ELSE Longer(u, f[n - 1], n)]}
<1>1. 0 \in T
  <2> DEFINE g == [n \in 0..0 |-> Begun]
  <2>1. \A n \in 0..0 : n = 0
    OBVIOUS
  <2>2. g = [n \in 0..0 |-> IF n = 0 THEN Begun ELSE Longer(u, g[n - 1], n)]
    BY <2>1
  <2>3. QED
    BY <2>2
<1>2. ASSUME NEW m \in Nat, m \in T
      PROVE  m + 1 \in T
  <2>1. PICK f : f = [n \in 0..m |-> IF n = 0 THEN Begun ELSE Longer(u, f[n - 1], n)]
    BY <1>2
  <2> DEFINE g == [n \in 0..(m + 1) |-> IF n = m + 1 THEN Longer(u, f[m], m + 1) ELSE f[n]]
             h == [n \in 0..(m + 1) |-> IF n = 0 THEN Begun ELSE Longer(u, g[n - 1], n)]
  <2>2. \A n \in 0..m : g[n] = f[n]
    OBVIOUS
  <2>3. ASSUME NEW n \in 0..(m + 1)
        PROVE  g[n] = IF n = 0 THEN Begun ELSE Longer(u, g[n - 1], n)
    <3>1. CASE n = 0
      <4>1. g[n] = f[0] /\ f[0] = Begun
        <5>1. 0 \in 0..m /\ n # m + 1
          BY <3>1
        <5>2. g[n] = f[0]
          BY <3>1, <5>1
        <5>3. f[0] = Begun
          BY <2>1, <5>1, Zenon
        <5>4. QED
          BY <5>2, <5>3
      <4>2. QED
        BY <3>1, <4>1
    <3>2. CASE n = m + 1
      <4>1. n - 1 = m /\ m \in 0..m /\ n # 0
        BY <3>2
      <4>2. g[n] = Longer(u, f[m], n) /\ g[m] = f[m]
        BY <2>2, <3>2, <4>1
      <4>3. QED
        BY <4>1, <4>2
    <3>3. CASE n # 0 /\ n # m + 1
      <4>1. n \in 0..m /\ n - 1 \in 0..m
        BY <3>3
      <4>2. g[n] = f[n] /\ g[n - 1] = f[n - 1]
        BY <2>2, <4>1
      <4>3. f[n] = IF n = 0 THEN Begun ELSE Longer(u, f[n - 1], n)
        BY <2>1, <4>1, Zenon
      <4>4. QED
        BY <4>2, <4>3
    <3>4. QED
      BY <3>1, <3>2, <3>3
  <2>4. g = [n \in 0..(m + 1) |-> g[n]]
    OBVIOUS
  <2> HIDE DEF g
  <2>5. g = [n \in 0..(m + 1) |-> IF n = 0 THEN Begun ELSE Longer(u, g[n - 1], n)]
    BY <2>3, <2>4, Zenon
  <2>6. QED
    BY <2>5
<1> HIDE DEF T
<1>3. \A n \in Nat : n \in T
  BY <1>1, <1>2, NatSetInduction
<1>4. QED
  BY <1>3 DEF T

LEMMA SeriesLeads ==
    ASSUME NEW u \in User, memories \in Seq(Memory), Len(memories) <= MaxMemories
    PROVE  \A r \in SeriesOf(u) : Leads(u, memories, r.acts, r.table)
<1> DEFINE s == CHOOSE f : f = [n \in 0..MaxActs |-> IF n = 0 THEN Begun ELSE Longer(u, f[n - 1], n)]
           T == {n \in Nat : \A r \in s[n] : Leads(u, memories, r.acts, r.table)}
<1>0. MaxActs \in Nat /\ MaxMemories \in Nat
  BY Mem0Assumption
<1>1. SeriesOf(u) = s[MaxActs]
  BY Zenon DEF SeriesOf, Begun, Longer
<1>2. s = [n \in 0..MaxActs |-> IF n = 0 THEN Begun ELSE Longer(u, s[n - 1], n)]
  BY <1>0, SeriesExists, Zenon
<1> HIDE DEF s
<1>3. \A n \in 0..MaxActs : s[n] = IF n = 0 THEN Begun ELSE Longer(u, s[n - 1], n)
  BY <1>2, Zenon
<1>4. Leads(u, memories, <<>>, memories)
  <2>1. <<>> \in Seq(Receipt) /\ DOMAIN <<>> = {}
    OBVIOUS
  <2>2. Len(memories) \in Nat
    OBVIOUS
  <2>3. \A event, id : ~Tells(<<>>, event, id)
    BY <2>1 DEF Tells
  <2>4. \A id : Has(u, memories, id) /\ Has(u, memories, id) => memories[id].text = memories[id].text
    OBVIOUS
  <2>5. QED
    BY <2>1, <2>2, <2>3 DEF Leads
<1>5. 0 \in T
  <2>1. s[0] = Begun
    BY <1>0, <1>3
  <2>2. \A r \in Begun : r.acts = <<>> /\ r.table = memories
    BY DEF Begun
  <2>3. QED
    BY <1>4, <2>1, <2>2
<1>6. ASSUME NEW n \in 0..(MaxActs - 1), n \in T
      PROVE  n + 1 \in T
  <2>1. n + 1 \in 0..MaxActs /\ n + 1 # 0 /\ (n + 1) - 1 = n /\ n + 1 \in Nat
    BY <1>0
  <2>2. s[n + 1] = Longer(u, s[n], n + 1)
    BY <1>3, <2>1
  <2>3. ASSUME NEW r \in Longer(u, s[n], n + 1)
        PROVE  Leads(u, memories, r.acts, r.table)
    <3>1. CASE r \in s[n]
      BY <1>6, <3>1
    <3>2. CASE r \notin s[n]
      <4>1. PICK q \in s[n] : \E a \in Acts(u, q.table) : r = [acts |-> Append(q.acts, a), table |-> Done(u, q.table, a)]
        BY <3>2, Zenon DEF Longer
      <4>2. PICK a \in Acts(u, q.table) : r = [acts |-> Append(q.acts, a), table |-> Done(u, q.table, a)]
        BY <4>1
      <4>3. Leads(u, memories, q.acts, q.table)
        BY <1>6
      <4>4. Leads(u, memories, Append(q.acts, a), Done(u, q.table, a))
        BY <4>3, LeadsOn
      <4>5. r.acts = Append(q.acts, a) /\ r.table = Done(u, q.table, a)
        BY <4>2
      <4>6. QED
        BY <4>4, <4>5
    <3>3. QED
      BY <3>1, <3>2
  <2>4. QED
    BY <2>1, <2>2, <2>3
<1> HIDE DEF T
<1>7. \A n \in 0..MaxActs : n \in T
  BY <1>0, <1>5, <1>6, UpToInduction
<1>8. MaxActs \in T
  BY <1>0, <1>7
<1>9. QED
  BY <1>1, <1>8 DEF T

LEMMA ClaimsTold ==
    ASSUME NEW acts \in Seq(Receipt), NEW id
    PROVE  /\ "create" \in Claimed(acts, id) <=> Tells(acts, "ADD", id)
           /\ "update" \in Claimed(acts, id) <=> Tells(acts, "UPDATE", id)
           /\ "delete" \in Claimed(acts, id) <=> Tells(acts, "DELETE", id)
           /\ Claimed(acts, id) # {} <=> Tells(acts, "ADD", id) \/ Tells(acts, "UPDATE", id) \/ Tells(acts, "DELETE", id)
<1>0. \A k \in DOMAIN acts : acts[k] \in Receipt
  OBVIOUS
<1>1. \A k \in DOMAIN acts : acts[k].event \in {"ADD", "UPDATE", "DELETE"}
  BY <1>0 DEF Receipt
<1>2. ActionOf["ADD"] = "create" /\ ActionOf["UPDATE"] = "update" /\ ActionOf["DELETE"] = "delete"
  BY DEF ActionOf
<1>3. \A x : x \in Claimed(acts, id) <=> \E k \in DOMAIN acts : acts[k].id = id /\ x = ActionOf[acts[k].event]
  BY DEF Claimed
<1>4. \A k \in DOMAIN acts : /\ ActionOf[acts[k].event] = "create" <=> acts[k].event = "ADD"
                             /\ ActionOf[acts[k].event] = "update" <=> acts[k].event = "UPDATE"
                             /\ ActionOf[acts[k].event] = "delete" <=> acts[k].event = "DELETE"
  BY <1>1, <1>2
<1>5. QED
  BY <1>1, <1>3, <1>4 DEF Tells

\* Truthful receipts over the writes they tell of leave nothing unexplained.
LEMMA TruthIsExplained ==
    ASSUME NEW base, NEW acts, NEW table, Leads(Me, base, acts, table)
    PROVE  Unexplained(acts, ScopeOf(base), ScopeOf(table)) = {}
<1> DEFINE b == ScopeOf(base)
           a == ScopeOf(table)
<1>1. acts \in Seq(Receipt)
  BY DEF Leads
<1>2. \A id \in Id : /\ id \in DOMAIN b <=> Has(Me, base, id)
                     /\ id \in DOMAIN a <=> Has(Me, table, id)
                     /\ Has(Me, base, id) => b[id] = base[id].text
                     /\ Has(Me, table, id) => a[id] = table[id].text
  BY DEF ScopeOf
<1> HIDE DEF a, b
<1>3. ASSUME NEW id \in Id
      PROVE  Observed(b, a, id) \subseteq Claimed(acts, id) /\ ~NotReflected(Claimed(acts, id), id \in DOMAIN a)
  <2>1. /\ Has(Me, table, id) /\ ~Has(Me, base, id) => Tells(acts, "ADD", id)
        /\ Has(Me, base, id) /\ ~Has(Me, table, id) => Tells(acts, "DELETE", id)
        /\ Has(Me, base, id) /\ Has(Me, table, id) /\ table[id].text # base[id].text => Tells(acts, "UPDATE", id)
        /\ Tells(acts, "DELETE", id) => ~Has(Me, table, id)
        /\ (Tells(acts, "ADD", id) \/ Tells(acts, "UPDATE", id)) /\ ~Tells(acts, "DELETE", id) => Has(Me, table, id)
    BY DEF Leads
  <2> DEFINE C == Claimed(acts, id)
  <2>2. /\ "create" \in C <=> Tells(acts, "ADD", id)
        /\ "update" \in C <=> Tells(acts, "UPDATE", id)
        /\ "delete" \in C <=> Tells(acts, "DELETE", id)
        /\ C # {} <=> Tells(acts, "ADD", id) \/ Tells(acts, "UPDATE", id) \/ Tells(acts, "DELETE", id)
    BY <1>1, ClaimsTold
  <2> HIDE DEF C
  <2>3. Observed(b, a, id) \subseteq C
    BY <1>2, <2>1, <2>2 DEF Observed
  <2>4. C # {} => ~("delete" \in C <=> id \in DOMAIN a)
    BY <1>2, <2>1, <2>2
  <2>5. ~NotReflected(C, id \in DOMAIN a)
    BY <2>4 DEF NotReflected
  <2>6. QED
    BY <2>3, <2>5 DEF C
<1>4. Unexplained(acts, b, a) = {}
  BY <1>3 DEF Unexplained
<1>5. QED
  BY <1>4 DEF a, b

\* What a clean audit of two listings says of them.
LEMMA ExplainedIsExact ==
    ASSUME NEW acts \in Seq(Receipt), NEW b, NEW a, DOMAIN b \subseteq Id, DOMAIN a \subseteq Id,
           Unexplained(acts, b, a) = {}
    PROVE  LET Ids(event) == {acts[i].id : i \in {k \in DOMAIN acts : acts[k].event = event}}
           IN  /\ DOMAIN a = (DOMAIN b \cup Ids("ADD")) \ Ids("DELETE")
               /\ \A id \in DOMAIN a \cap DOMAIN b : a[id] # b[id] => id \in Ids("UPDATE")
<1> DEFINE Ids(event) == {acts[i].id : i \in {k \in DOMAIN acts : acts[k].event = event}}
<1>1. \A event : \A id : id \in Ids(event) <=> Tells(acts, event, id)
  BY DEF Tells
<1>2. \A event : Ids(event) \subseteq Id
  <2>1. \A k \in DOMAIN acts : acts[k] \in Receipt
    OBVIOUS
  <2>2. \A k \in DOMAIN acts : acts[k].id \in Id
    BY <2>1 DEF Receipt
  <2>3. QED
    BY <2>2
<1> HIDE DEF Ids
<1>3. ASSUME NEW id \in Id
      PROVE  /\ id \in DOMAIN a <=> (id \in DOMAIN b \/ id \in Ids("ADD")) /\ id \notin Ids("DELETE")
             /\ id \in DOMAIN a /\ id \in DOMAIN b /\ a[id] # b[id] => id \in Ids("UPDATE")
  <2> DEFINE C == Claimed(acts, id)
  <2>1. /\ "create" \in C <=> Tells(acts, "ADD", id)
        /\ "update" \in C <=> Tells(acts, "UPDATE", id)
        /\ "delete" \in C <=> Tells(acts, "DELETE", id)
        /\ C # {} <=> Tells(acts, "ADD", id) \/ Tells(acts, "UPDATE", id) \/ Tells(acts, "DELETE", id)
    BY ClaimsTold
  <2>2. Observed(b, a, id) \subseteq C /\ ~NotReflected(C, id \in DOMAIN a)
    BY DEF Unexplained
  <2> HIDE DEF C
  <2>3. C = {} \/ ~("delete" \in C <=> id \in DOMAIN a)
    BY <2>2 DEF NotReflected
  <2>4. /\ id \notin DOMAIN b /\ id \in DOMAIN a => "create" \in C
        /\ id \in DOMAIN b /\ id \notin DOMAIN a => "delete" \in C
        /\ id \in DOMAIN b /\ id \in DOMAIN a /\ a[id] # b[id] => "update" \in C
    BY <2>2 DEF Observed
  <2>5. QED
    BY <1>1, <2>1, <2>3, <2>4
<1>4. DOMAIN a = (DOMAIN b \cup Ids("ADD")) \ Ids("DELETE")
  BY <1>2, <1>3
<1>5. \A id \in DOMAIN a \cap DOMAIN b : a[id] # b[id] => id \in Ids("UPDATE")
  BY <1>3
<1>6. QED
  BY <1>4, <1>5 DEF Ids

-----------------------------------------------------------------------------
(* The audit.                                                              *)

\* Until the add's own write, the memories are those of the first snapshot.
StillAsBefore == before.known /\ ~disturbed /\ job.status # "SUCCEEDED" => before.rows = Scope
\* After it, its receipts explain them.
ExplainedSince ==
    before.known /\ ~disturbed /\ job.status = "SUCCEEDED" /\ job.true
        => Unexplained(job.receipts, before.rows, Scope) = {}

AuditInv ==
    /\ memories \in Seq(Memory) /\ Len(memories) <= MaxMemories
    /\ request # NoRequest => request.id \in DOMAIN memories /\ memories[request.id].user = request.user
    /\ job.receipts \in Seq(Receipt)
    /\ before.known => DOMAIN before.rows \subseteq Id
    /\ StillAsBefore /\ ExplainedSince
    /\ audit.verdict # "none" => pc = "report" /\ job.status = "SUCCEEDED"
    /\ audit.verdict = "drift" => disturbed \/ ~job.true
    /\ audit.verdict = "clean" =>
         /\ before.known /\ DOMAIN audit.after.rows \subseteq Id
         /\ Unexplained(job.receipts, before.rows, audit.after.rows) = {}

\* Writes to other users' memories leave the user's scope as it was.
LEMMA ScopeStays ==
    ASSUME \A id \in Id : Alive(id, Me)' <=> Alive(id, Me),
           \A id \in Id : Alive(id, Me) => memories'[id].text = memories[id].text
    PROVE  Scope' = Scope
<1>1. {i \in Id : Alive(i, Me)'} = {i \in Id : Alive(i, Me)}
  OBVIOUS
<1>2. QED
  BY <1>1 DEF Scope, Id

LEMMA ScopeIs == Scope = ScopeOf(memories)
BY DEF Scope, ScopeOf, Alive, Has

LEMMA AuditStep ==
    ASSUME BufferInv, AuditInv, [Mem0Next]_<<armVars, mem0Vars>>
    PROVE  AuditInv'
<1> USE DEF AuditInv, StillAsBefore, ExplainedSince
<1>a. memories' = memories => Scope' = Scope
  BY DEF Scope, Alive, Has, Id
<1>b. DOMAIN Scope \subseteq Id
  BY DEF Scope
<1>c. /\ pc \in {"idle", "closed", "post"} => job.status = "none"
      /\ pc = "finish" => job.status = "SUCCEEDED"
      /\ job.status = "none" \/ job.status = "SUCCEEDED" => job.status # "PENDING"
  BY DEF BufferInv
<1>d. /\ MaxMemories \in Nat /\ Me \in User /\ Gone \notin Text
      /\ Len(memories) \in Nat /\ DOMAIN memories = 1..Len(memories)
      /\ memories \in [1..Len(memories) -> Memory]
  BY Mem0Assumption
<1>e. <<>> \in Seq(Receipt) /\ (NoJob.status = "none" /\ NoJob.receipts = <<>>)
      /\ \A st, rs, tr : Job(st, rs, tr).status = st /\ Job(st, rs, tr).receipts = rs /\ Job(st, rs, tr).true = tr
  BY DEF NoJob, Job
<1>f. \A s \in Snapshots : s.known => s.rows = Scope
  BY DEF Snapshots, Untraced
<1>g. ~Untraced.known /\ NoAudit.verdict = "none"
  BY DEF Untraced, NoAudit
<1>h. \A r \in Series : Leads(Me, memories, r.acts, r.table)
  BY <1>d, SeriesLeads DEF Series
\* The engine takes a batch in.
<1>p. ASSUME NEW r \in Series, NEW t \in Telling, Processes(r, t), job' = Outcome(r, t)
      PROVE  /\ memories' \in Seq(Memory) /\ Len(memories') <= MaxMemories
             /\ DOMAIN memories \subseteq DOMAIN memories' /\ \A i \in DOMAIN memories : memories'[i].user = memories[i].user
             /\ job'.receipts \in Seq(Receipt) /\ job'.status = "SUCCEEDED"
             /\ job'.true => Unexplained(job'.receipts, Scope, Scope') = {}
  <2>1. Leads(Me, memories, r.acts, r.table)
    BY <1>h
  <2>2. memories' = memories \/ memories' = r.table
    BY <1>p DEF Processes
  <2>3. /\ memories' \in Seq(Memory) /\ Len(memories') <= MaxMemories /\ Len(memories) <= Len(memories')
        /\ \A i \in DOMAIN memories : memories'[i].user = memories[i].user
    BY <1>d, <2>1, <2>2 DEF Leads
  <2>4. DOMAIN memories \subseteq DOMAIN memories'
    BY <1>d, <2>3
  <2>5. job'.receipts \in Seq(Receipt) /\ job'.status = "SUCCEEDED" /\ (job'.true <=> t = "truth")
    <3>1. r.acts \in Seq(Receipt)
      BY <2>1 DEF Leads
    <3>2. job' = Job("SUCCEEDED", Receipts(r, t), t = "truth")
      BY <1>p DEF Outcome
    <3>3. Receipts(r, t) \in Seq(Receipt)
      BY <1>e, <3>1 DEF Receipts
    <3>4. job'.receipts = Receipts(r, t) /\ job'.status = "SUCCEEDED" /\ job'.true = (t = "truth")
      BY <3>2 DEF Job
    <3>5. QED
      BY <3>3, <3>4
  <2>6. CASE t = "truth"
    <3>1. memories' = r.table /\ job'.receipts = r.acts
      BY <1>e, <1>p, <2>6 DEF Processes, Outcome, Receipts
    <3>2. Scope = ScopeOf(memories)
      BY ScopeIs
    <3>3. Scope' = ScopeOf(memories')
      BY DEF Scope, ScopeOf, Alive, Has
    <3>4. Unexplained(r.acts, ScopeOf(memories), ScopeOf(r.table)) = {}
      BY <2>1, TruthIsExplained
    <3>5. QED
      BY <2>3, <2>4, <2>5, <3>1, <3>2, <3>3, <3>4
  <2>7. QED
    BY <2>3, <2>4, <2>5, <2>6
<1>1. CASE UNCHANGED <<armVars, mem0Vars>>
  BY <1>1, <1>a DEF armVars, mem0Vars
<1>2. CASE RecordMessage /\ UNCHANGED mem0Vars
  BY <1>2, <1>a, <1>c DEF RecordMessage, mem0Vars
<1>3. ASSUME NEW isFinal \in BOOLEAN, NEW s \in Snapshots, BeginAdd(isFinal, s)
      PROVE  AuditInv'
  <2>1. memories' = memories /\ job' = job /\ job.status = "none" /\ request' = request /\ audit' = audit
        /\ audit.verdict = "none" /\ before' = s
    BY <1>3, <1>c DEF BeginAdd
  <2>2. before'.known => before'.rows = Scope
    BY <1>f, <2>1
  <2>3. QED
    BY <1>a, <1>b, <2>1, <2>2
<1>4. CASE NothingPending
  BY <1>4, <1>a, <1>c DEF NothingPending, mem0Vars
<1>5. CASE PostRaises
  <2>1. pc = "post" /\ job.status = "none" /\ memories' = memories /\ before' = before /\ disturbed' = disturbed
        /\ audit' = audit /\ request' = request
    BY <1>5, <1>c DEF PostRaises
  <2>2. job'.status # "SUCCEEDED" /\ job'.receipts = <<>>
    BY <1>5 DEF PostRaises, NoJob, Job
  <2>3. QED
    BY <1>a, <1>e, <2>1, <2>2
<1>6. CASE PostQueues
  <2>1. pc = "post" /\ job.status = "none" /\ memories' = memories /\ before' = before /\ disturbed' = disturbed
        /\ audit' = audit /\ request' = request
    BY <1>6, <1>c DEF PostQueues
  <2>2. job'.status # "SUCCEEDED" /\ job'.receipts = <<>>
    BY <1>6 DEF PostQueues, Job
  <2>3. QED
    BY <1>a, <1>e, <2>1, <2>2
<1>7. CASE PollAnswers
  BY <1>7, <1>a, <1>c DEF PollAnswers, mem0Vars
<1>8. CASE PollRaises
  BY <1>8, <1>a, <1>c DEF PollRaises, mem0Vars
<1>9. CASE FinishException
  BY <1>9, <1>a, <1>e, <1>g DEF FinishException
<1>10. ASSUME NEW r \in Series, NEW t \in Telling, PostAnswers(r, t)
       PROVE  AuditInv'
  <2>1. job.status = "none" /\ audit.verdict = "none"
    BY <1>10, <1>c DEF PostAnswers
  <2>2. before.known /\ ~disturbed => before.rows = Scope
    BY <2>1
  <2>3. Processes(r, t) /\ job' = Outcome(r, t) /\ before' = before /\ disturbed' = disturbed /\ audit' = audit /\ request' = request
    BY <1>10 DEF PostAnswers
  <2>4. QED
    BY <1>p, <2>1, <2>2, <2>3
<1>11. ASSUME NEW s \in Snapshots, Finish(s)
       PROVE  AuditInv'
  <2>1. /\ pc' = "report" /\ job.status = "SUCCEEDED" /\ memories' = memories /\ job' = job /\ before' = before
        /\ disturbed' = disturbed /\ request' = request
        /\ audit' = [verdict |-> Verdict(job.receipts, s), after |-> s]
    BY <1>11, <1>c DEF Finish
  <2>v. audit'.verdict = IF ~before.known \/ ~s.known THEN "unknown"
                         ELSE IF Unexplained(job.receipts, before.rows, s.rows) = {} THEN "clean" ELSE "drift"
    BY <2>1, Zenon DEF Verdict
  <2>2. audit'.verdict = "drift" =>
          before.known /\ s.known /\ Unexplained(job.receipts, before.rows, s.rows) # {}
    BY <2>v
  <2>3. audit'.verdict = "clean" =>
          before.known /\ s.known /\ Unexplained(job.receipts, before.rows, s.rows) = {}
    BY <2>v
  <2>4. s.known => s.rows = Scope
    BY <1>f
  <2>5. audit'.verdict = "drift" => disturbed \/ ~job.true
    BY <2>1, <2>2, <2>4
  <2>6. audit'.after = s
    BY <2>1
  <2>7. QED
    BY <1>a, <1>b, <2>1, <2>3, <2>4, <2>5, <2>6
<1>12. CASE Report
  BY <1>12, <1>a, <1>e, <1>g DEF Report
<1>13. CASE JobFails
  <2>1. job.status = "PENDING" /\ memories' = memories /\ before' = before /\ disturbed' = disturbed
        /\ audit' = audit /\ request' = request
    BY <1>13 DEF JobFails
  <2>2. job'.status # "SUCCEEDED" /\ job'.receipts = <<>>
    BY <1>13 DEF JobFails, Job
  <2>3. QED
    BY <1>a, <1>e, <2>1, <2>2
<1>14. ASSUME NEW r \in Series, NEW t \in Telling, JobLands(r, t)
       PROVE  AuditInv'
  <2>1. job.status = "PENDING" /\ audit.verdict = "none"
    BY <1>14, <1>c DEF JobLands
  <2>2. before.known /\ ~disturbed => before.rows = Scope
    BY <2>1
  <2>3. Processes(r, t) /\ job' = Outcome(r, t) /\ before' = before /\ disturbed' = disturbed /\ audit' = audit /\ request' = request
    BY <1>14 DEF JobLands
  <2>4. QED
    BY <1>p, <2>1, <2>2, <2>3
<1>15. ASSUME NEW j \in DOMAIN late, LateJobFails(j)
       PROVE  AuditInv'
  BY <1>15, <1>a DEF LateJobFails, armVars
<1>16. ASSUME NEW j \in DOMAIN late, NEW r \in Series, LateJobLands(j, r)
       PROVE  AuditInv'
  <2>1. Leads(Me, memories, r.acts, r.table) /\ memories' = r.table
    BY <1>16, <1>h DEF LateJobLands, Processes
  <2>2. /\ memories' \in Seq(Memory) /\ Len(memories') <= MaxMemories /\ Len(memories) <= Len(memories')
        /\ \A i \in DOMAIN memories : memories'[i].user = memories[i].user
    BY <2>1 DEF Leads
  <2>3. DOMAIN memories \subseteq DOMAIN memories'
    BY <1>d, <2>2
  <2>4. /\ pc' = pc /\ job' = job /\ before' = before /\ audit' = audit /\ request' = request
        /\ disturbed' = (disturbed \/ memories' # memories)
    BY <1>16 DEF LateJobLands
  <2>5. CASE memories' = memories
    BY <1>a, <2>4, <2>5
  <2>6. CASE memories' # memories
    BY <2>2, <2>3, <2>4, <2>6
  <2>7. QED
    BY <2>5, <2>6
<1>17. ASSUME NEW u \in User, NEW r \in SeriesOf(u), EndpointAdd(u, r)
       PROVE  AuditInv'
  <2>1. Leads(u, memories, r.acts, memories') /\ disturbed' = (disturbed \/ (u = Me /\ memories' # memories))
    BY <1>17, SeriesLeads DEF EndpointAdd
  <2>2. /\ memories' \in Seq(Memory) /\ Len(memories') <= MaxMemories /\ Len(memories) <= Len(memories')
        /\ \A i \in DOMAIN memories : memories'[i].user = memories[i].user
        /\ \A i \in DOMAIN memories : memories[i].user # u => memories'[i] = memories[i]
        /\ \A i \in DOMAIN memories' : i \notin DOMAIN memories => memories'[i].user = u
    BY <2>1 DEF Leads
  <2>3. DOMAIN memories \subseteq DOMAIN memories'
    BY <1>d, <2>2
  <2>4. pc' = pc /\ job' = job /\ before' = before /\ audit' = audit /\ request' = request
    BY <1>17 DEF EndpointAdd, armVars
  <2>5. CASE memories' = memories
    BY <1>a, <2>1, <2>4, <2>5
  <2>6. CASE u # Me
    <3>1. \A id \in Id : Alive(id, Me)' <=> Alive(id, Me)
      BY <2>2, <2>3, <2>6 DEF Alive, Has
    <3>2. \A id \in Id : Alive(id, Me) => memories'[id].text = memories[id].text
      BY <2>2, <2>6 DEF Alive, Has
    <3>3. Scope' = Scope
      BY <3>1, <3>2, ScopeStays
    <3>4. QED
      BY <2>1, <2>2, <2>3, <2>4, <2>6, <3>3
  <2>7. CASE u = Me /\ memories' # memories
    BY <2>1, <2>2, <2>3, <2>4, <2>7
  <2>8. QED
    BY <2>5, <2>6, <2>7
<1>18. ASSUME NEW i \in Id, NEW u \in User, EndpointCheck(i, u)
       PROVE  AuditInv'
  <2>1. i \in DOMAIN memories /\ memories[i].user = u
    BY <1>18 DEF EndpointCheck, Scoped, Alive, Has
  <2>2. request'.id = i /\ request'.user = u
    BY <1>18 DEF EndpointCheck
  <2>3. QED
    BY <1>18, <1>a, <2>1, <2>2 DEF EndpointCheck, armVars
<1>19. ASSUME NEW t \in Text \cup {Gone}, EndpointWrite(t)
       PROVE  AuditInv'
  <2> DEFINE k == request.id
  <2>1. k \in DOMAIN memories /\ request' = NoRequest
        /\ disturbed' = (disturbed \/ (k \in DOMAIN memories' /\ memories'[k].user = Me))
    BY <1>19 DEF EndpointWrite, Touches
  <2>2. CASE memories' = memories
    BY <1>19, <1>a, <2>1, <2>2 DEF EndpointWrite, armVars
  <2>3. CASE memories' # memories
    <3> DEFINE changed == [memories[k] EXCEPT !.text = t]
    <3>1. memories[k] \in Memory /\ memories' = [memories EXCEPT ![k] = changed]
      BY <1>19, <1>d, <2>1, <2>3 DEF EndpointWrite
    <3>2. changed = [user |-> memories[k].user, text |-> t] /\ memories[k].user \in User
      BY <3>1 DEF Memory
    <3>3. changed \in Memory /\ changed.user = memories[k].user
      BY <3>2 DEF Memory
    <3> HIDE DEF changed
    <3>4. /\ memories' \in [1..Len(memories) -> Memory] /\ memories'[k] = changed
          /\ \A i \in 1..Len(memories) : i # k => memories'[i] = memories[i]
      BY <1>d, <2>1, <3>1, <3>3
    <3>5. memories' \in Seq(Memory) /\ Len(memories') = Len(memories) /\ DOMAIN memories' = DOMAIN memories
      BY <1>d, <3>4
    <3>6. disturbed' = (disturbed \/ memories[k].user = Me)
      BY <2>1, <3>3, <3>4, <3>5
    <3>7. CASE memories[k].user # Me
      <4>1. \A id \in Id : Alive(id, Me)' <=> Alive(id, Me)
        BY <1>d, <3>3, <3>4, <3>5, <3>7 DEF Alive, Has
      <4>2. \A id \in Id : Alive(id, Me) => memories'[id].text = memories[id].text
        BY <1>d, <3>4, <3>7 DEF Alive, Has
      <4>3. Scope' = Scope
        BY <4>1, <4>2, ScopeStays
      <4>4. QED
        BY <1>19, <2>1, <3>5, <3>6, <4>3 DEF EndpointWrite, armVars
    <3>8. CASE memories[k].user = Me
      BY <1>19, <2>1, <3>5, <3>6, <3>8 DEF EndpointWrite, armVars
    <3>9. QED
      BY <3>7, <3>8
  <2>4. QED
    BY <2>2, <2>3
<1>20. QED
  BY <1>1, <1>2, <1>3, <1>4, <1>5, <1>6, <1>7, <1>8, <1>9, <1>10, <1>11, <1>12, <1>13, <1>14, <1>15, <1>16,
     <1>17, <1>18, <1>19 DEF Mem0Next

LEMMA AuditHolds == Mem0Spec => [](BufferInv /\ AuditInv)
<1> DEFINE Both == BufferInv /\ AuditInv
<1>1. pc = "idle" /\ ArmInit /\ Mem0Init => Both
  <2> SUFFICES ASSUME pc = "idle", ArmInit, Mem0Init PROVE Both
    OBVIOUS
  <2>1. BufferInv
    BY MessagesAssumption DEF ArmInit, Mem0Init, BufferInv, NothingDropped, None, Message, NoJob, Job
  <2>2. /\ memories \in Seq(Memory) /\ Len(memories) <= MaxMemories /\ job.receipts \in Seq(Receipt)
        /\ job.status = "none" /\ ~before.known /\ audit.verdict = "none" /\ request = NoRequest
    BY Mem0Assumption DEF Mem0Init, NoJob, Job, Untraced, NoAudit
  <2>3. QED
    BY <2>1, <2>2 DEF AuditInv, StillAsBefore, ExplainedSince
<1>2. Both /\ [Mem0Next]_<<armVars, mem0Vars>> => Both'
  BY BufferStep, AuditStep
<1> HIDE DEF Both
<1>3. Mem0Spec => []Both
  BY <1>1, <1>2, PTL DEF Mem0Spec
<1>4. QED
  BY <1>3 DEF Both

(* The receipt audit accuses nobody falsely and clears nobody falsely      *)
(* (mem0_bridge/backend.py:372-398), whatever the engine answers, whoever  *)
(* else writes and whenever its late adds land.                            *)
THEOREM AuditAccusesNobodyFalsely == Mem0Spec => []AuditIsHonest
<1>1. BufferInv /\ AuditInv => AuditIsHonest
  BY ExplainedIsExact, Zenon DEF AuditInv, AuditIsHonest
<1>2. QED
  BY <1>1, AuditHolds, PTL

(* A request of the endpoint changes only memories of the user it names    *)
(* (mem0_bridge/endpoint.py:112-123): no memory ever changes hands between *)
(* the check and the write.                                                *)
THEOREM RequestsKeepOwners == Mem0Spec => EndpointKeepsOwners
<1>1. ASSUME AuditInv, [Mem0Next]_<<armVars, mem0Vars>>,
             NEW id \in DOMAIN memories, request # NoRequest, request' = NoRequest, memories'[id] # memories[id]
      PROVE  memories[id].user = request.user
  <2>1. PICK t \in Text \cup {Gone} : EndpointWrite(t)
    <3>1. request' # request
      BY <1>1
    <3>2. /\ ~UNCHANGED <<armVars, mem0Vars>> /\ ~(RecordMessage /\ UNCHANGED mem0Vars)
          /\ ~NothingPending /\ ~PostRaises /\ ~PostQueues /\ ~PollAnswers /\ ~PollRaises /\ ~FinishException
          /\ ~Report /\ ~JobFails
      BY <3>1 DEF mem0Vars, NothingPending, PostRaises, PostQueues, PollAnswers, PollRaises, FinishException, Report, JobFails
    <3>3. /\ \A isFinal \in BOOLEAN, s \in Snapshots : ~BeginAdd(isFinal, s)
          /\ \A s \in Snapshots : ~Finish(s)
          /\ \A r \in Series, tell \in Telling : ~PostAnswers(r, tell) /\ ~JobLands(r, tell)
          /\ \A j \in DOMAIN late : ~LateJobFails(j) /\ \A r \in Series : ~LateJobLands(j, r)
          /\ \A u \in User : \A r \in SeriesOf(u) : ~EndpointAdd(u, r)
      BY <3>1, Zenon DEF BeginAdd, Finish, PostAnswers, JobLands, LateJobFails, LateJobLands, EndpointAdd
    <3>4. \A i \in Id, u \in User : ~EndpointCheck(i, u)
      BY <1>1 DEF EndpointCheck
    <3>5. QED
      BY <1>1, <3>2, <3>3, <3>4, Zenon DEF Mem0Next
  <2>2. request.id \in DOMAIN memories /\ memories[request.id].user = request.user
    BY <1>1 DEF AuditInv
  <2>3. id = request.id
    <3>1. CASE memories[request.id].text = Gone
      BY <1>1, <2>1, <3>1 DEF EndpointWrite
    <3>2. CASE memories' = [memories EXCEPT ![request.id].text = t]
      BY <1>1, <3>2
    <3>3. QED
      BY <2>1, <3>1, <3>2 DEF EndpointWrite
  <2>4. QED
    BY <2>2, <2>3
<1>2. BufferInv /\ AuditInv /\ [Mem0Next]_<<armVars, mem0Vars>>
        => [\A id \in DOMAIN memories :
              request # NoRequest /\ request' = NoRequest /\ memories'[id] # memories[id]
                 => memories[id].user = request.user]_<<memories, request>>
  BY <1>1
<1>3. QED
  BY <1>2, AuditHolds, PTL DEF Mem0Spec, EndpointKeepsOwners

-----------------------------------------------------------------------------
(* How often a message is fed.                                             *)

Carrying(batches, m) == {k \in DOMAIN batches : m \in Range(batches[k])}
Count(batches, m) == Cardinality(Carrying(batches, m))

LEMMA CountIsNat ==
    ASSUME NEW B, NEW batches \in Seq(B), NEW m
    PROVE  IsFiniteSet(Carrying(batches, m)) /\ Count(batches, m) \in Nat
<1>1. IsFiniteSet(1..Len(batches))
  BY FS_Interval
<1>2. Carrying(batches, m) \in SUBSET (1..Len(batches))
  BY DEF Carrying
<1>3. QED
  BY <1>1, <1>2, FS_Subset, FS_CardinalityType DEF Count

LEMMA CountOfAppend ==
    ASSUME NEW B, NEW batches \in Seq(B), NEW b \in B, NEW m
    PROVE  Count(Append(batches, b), m) = Count(batches, m) + IF m \in Range(b) THEN 1 ELSE 0
<1> DEFINE more == Append(batches, b)
           C == Carrying(batches, m)
           n == Len(batches) + 1
<1>1. /\ DOMAIN more = 1..n /\ DOMAIN batches = 1..Len(batches) /\ Len(batches) \in Nat
      /\ more[n] = b /\ \A k \in 1..Len(batches) : more[k] = batches[k]
  OBVIOUS
<1> HIDE DEF more
<1>2. n \notin C /\ \A k \in 1..n : k \in 1..Len(batches) \/ k = n
  BY <1>1 DEF Carrying
<1>3. CASE m \in Range(b)
  <2>1. Carrying(more, m) = C \cup {n}
    BY <1>1, <1>2, <1>3 DEF Carrying
  <2> HIDE DEF C, n
  <2>2. QED
    BY <1>2, <1>3, <2>1, CountIsNat, FS_AddElement DEF Count, C, more
<1>4. CASE m \notin Range(b)
  <2>1. Carrying(more, m) = C
    BY <1>1, <1>2, <1>4 DEF Carrying
  <2>2. QED
    BY <1>4, <2>1, CountIsNat DEF Count, more
<1>5. QED
  BY <1>3, <1>4

LEMMA JoinIs ==
    ASSUME NEW B, NEW front \in Seq(B), NEW back \in Seq(B)
    PROVE  /\ front \o back \in Seq(B) /\ Len(front \o back) = Len(front) + Len(back)
           /\ \A k \in 1..(Len(front) + Len(back)) :
                 (front \o back)[k] = IF k <= Len(front) THEN front[k] ELSE back[k - Len(front)]
OBVIOUS

LEMMA RemovedAt ==
    ASSUME NEW B, NEW seq \in Seq(B), NEW j \in DOMAIN seq
    PROVE  /\ RemoveAt(seq, j) \in Seq(B) /\ Len(RemoveAt(seq, j)) = Len(seq) - 1
           /\ \A k \in 1..(Len(seq) - 1) : RemoveAt(seq, j)[k] = IF k < j THEN seq[k] ELSE seq[k + 1]
<1> DEFINE front == SubSeq(seq, 1, j - 1)
           back  == SubSeq(seq, j + 1, Len(seq))
<1>1. j \in 1..Len(seq) /\ Len(seq) \in Nat
  OBVIOUS
<1>2. front \in Seq(B) /\ Len(front) = j - 1 /\ \A k \in 1..(j - 1) : front[k] = seq[k]
  BY <1>1
<1>3. back \in Seq(B) /\ Len(back) = Len(seq) - j /\ \A k \in 1..(Len(seq) - j) : back[k] = seq[j + k]
  BY <1>1
<1>4. RemoveAt(seq, j) = front \o back
  BY DEF RemoveAt
<1> HIDE DEF front, back
<1>5. /\ front \o back \in Seq(B) /\ Len(front \o back) = Len(seq) - 1
      /\ \A k \in 1..(Len(seq) - 1) : (front \o back)[k] = IF k <= Len(front) THEN front[k] ELSE back[k - Len(front)]
  <2>1. front \in Seq(B) /\ back \in Seq(B) /\ Len(front) + Len(back) = Len(seq) - 1
    BY <1>1, <1>2, <1>3
  <2>2. /\ front \o back \in Seq(B) /\ Len(front \o back) = Len(front) + Len(back)
        /\ \A k \in 1..(Len(front) + Len(back)) :
              (front \o back)[k] = IF k <= Len(front) THEN front[k] ELSE back[k - Len(front)]
    BY <2>1, JoinIs
  <2>3. QED
    BY <2>1, <2>2
<1>6. ASSUME NEW k \in 1..(Len(seq) - 1)
      PROVE  (front \o back)[k] = IF k < j THEN seq[k] ELSE seq[k + 1]
  <2>1. CASE k < j
    BY <1>1, <1>2, <1>5, <2>1
  <2>2. CASE ~(k < j)
    <3>1. k - (j - 1) \in 1..(Len(seq) - j) /\ j + (k - (j - 1)) = k + 1
      BY <1>1, <2>2
    <3>2. back[k - (j - 1)] = seq[k + 1]
      BY <1>3, <3>1
    <3>3. (front \o back)[k] = back[k - (j - 1)]
      BY <1>1, <1>2, <1>5, <2>2
    <3>4. QED
      BY <2>2, <3>2, <3>3
  <2>3. QED
    BY <2>1, <2>2
<1>7. QED
  BY <1>4, <1>5, <1>6

LEMMA CountOfRemoval ==
    ASSUME NEW B, NEW batches \in Seq(B), NEW j \in DOMAIN batches, NEW m
    PROVE  Count(RemoveAt(batches, j), m) + (IF m \in Range(batches[j]) THEN 1 ELSE 0) <= Count(batches, m)
<1> DEFINE rest == RemoveAt(batches, j)
           C == Carrying(batches, m) \ {j}
           R == Carrying(rest, m)
           f == [k \in R |-> IF k < j THEN k ELSE k + 1]
<1>1. /\ rest \in Seq(B) /\ DOMAIN rest = 1..(Len(batches) - 1) /\ DOMAIN batches = 1..Len(batches) /\ Len(batches) \in Nat
      /\ \A k \in 1..(Len(batches) - 1) : rest[k] = IF k < j THEN batches[k] ELSE batches[k + 1]
  <2>1. /\ rest \in Seq(B) /\ Len(rest) = Len(batches) - 1
        /\ \A k \in 1..(Len(batches) - 1) : rest[k] = IF k < j THEN batches[k] ELSE batches[k + 1]
    BY RemovedAt
  <2> HIDE DEF rest
  <2>2. QED
    BY <2>1
<1>2. IsFiniteSet(C) /\ Count(batches, m) \in Nat
      /\ Cardinality(C) = IF m \in Range(batches[j]) THEN Count(batches, m) - 1 ELSE Count(batches, m)
  <2>1. j \in Carrying(batches, m) <=> m \in Range(batches[j])
    BY DEF Carrying
  <2>2. QED
    BY <2>1, CountIsNat, FS_RemoveElement DEF Count
<1> HIDE DEF rest
<1>3. R \subseteq 1..(Len(batches) - 1)
  BY <1>1 DEF Carrying
<1>4. \A k \in R : (IF k < j THEN k ELSE k + 1) \in C
  <2>1. \A k \in R : k \in 1..(Len(batches) - 1) /\ m \in Range(rest[k])
    BY <1>1 DEF Carrying
  <2>2. \A k \in R : k < j => k \in C
    BY <1>1, <2>1 DEF Carrying
  <2>3. \A k \in R : ~(k < j) => k + 1 \in C
    BY <1>1, <2>1 DEF Carrying
  <2>4. QED
    BY <2>2, <2>3
<1> HIDE DEF C, R
<1>5. f \in [R -> C]
  BY <1>4
<1>6. \A k, l \in R : f[k] = f[l] => k = l
  BY <1>1, <1>3
<1>7. f \in Injection(R, C)
  BY <1>5, <1>6 DEF Injection, IsInjective
<1> HIDE DEF f
<1>8. Cardinality(R) <= Cardinality(C)
  BY <1>2, <1>7, FS_Injection
<1>9. Count(rest, m) = Cardinality(R) /\ Count(rest, m) \in Nat
  BY <1>1, CountIsNat DEF Count, R
<1>10. QED
  BY <1>2, <1>8, <1>9 DEF rest

Owed(m) == IF m \in Range(pending) /\ job.status # "SUCCEEDED" THEN 0 ELSE 1

\* Every feeding of a message beyond the first, one that is still to come included,
\* is paid for by a call that raised.
FedInv ==
    /\ fed \in [Message -> Nat] /\ doubt \in [Message -> Nat]
    /\ pending \in Seq(Message) /\ late \in Seq(Seq(Message))
    /\ recorded \in 0..MaxMessages
    /\ pc = "report" => pending = <<>>
    /\ \A m \in Range(pending) : m <= recorded
    /\ \A j \in DOMAIN late : \A m \in Range(late[j]) : m <= recorded
    /\ \A m \in Message : m > recorded => fed[m] = 0
    /\ \A m \in Message : fed[m] + Count(late, m) <= doubt[m] + Owed(m)

LEMMA FedOnInv == ASSUME FedInv PROVE FedOncePerDoubt
<1>1. \A m \in Message : fed[m] \in Nat /\ doubt[m] \in Nat /\ Count(late, m) \in Nat
  BY CountIsNat DEF FedInv
<1>2. \A m \in Message : Owed(m) \in {0, 1} /\ fed[m] + Count(late, m) <= doubt[m] + Owed(m)
  BY DEF FedInv, Owed
<1>3. QED
  BY <1>1, <1>2 DEF FedOncePerDoubt

LEMMA AlsoCounts ==
    ASSUME NEW bag \in [Message -> Nat], NEW batch
    PROVE  /\ Also(bag, batch) \in [Message -> Nat]
           /\ \A m \in Message : Also(bag, batch)[m] = bag[m] + IF m \in Range(batch) THEN 1 ELSE 0
BY DEF Also

LEMMA FedStep ==
    ASSUME BufferInv, FedInv, [Mem0Next]_<<armVars, mem0Vars>>
    PROVE  FedInv'
<1>0. \A m \in Message : /\ fed[m] \in Nat /\ doubt[m] \in Nat /\ Count(late, m) \in Nat
                         /\ fed[m] + Count(late, m) <= doubt[m] + Owed(m)
  BY CountIsNat DEF FedInv
<1>a. /\ pc \in {"idle", "closed", "post"} => job.status = "none"
      /\ pc = "finish" => job.status = "SUCCEEDED"
  BY DEF BufferInv
<1>b. \A m : Owed(m) = IF m \in Range(pending) /\ job.status # "SUCCEEDED" THEN 0 ELSE 1
  BY DEF Owed
<1>c. \A m : Owed(m)' = IF m \in Range(pending') /\ job'.status # "SUCCEEDED" THEN 0 ELSE 1
  BY DEF Owed
<1>d. \A st, rs, tr : Job(st, rs, tr).status = st
  BY DEF Job
<1>e. NoJob.status = "none"
  BY DEF NoJob, Job
\* Steps that leave the buffer, the late adds and the feedings alone.
<1>p. ASSUME UNCHANGED <<recorded, pending, fed, doubt, late>>, pc' = "report" => pc = "report",
             job'.status = "SUCCEEDED" \/ job.status # "SUCCEEDED" \/ pending = <<>>
      PROVE  FedInv'
  <2>1. Range(<<>>) = {}
    BY DEF Range
  <2>2. \A m \in Message : Owed(m) <= Owed(m)'
    BY <1>b, <1>c, <1>p, <2>1
  <2>3. \A m \in Message : Owed(m) \in {0, 1} /\ Owed(m)' \in {0, 1}
    BY <1>b, <1>c
  <2>4. \A m \in Message : fed'[m] + Count(late', m) <= doubt'[m] + Owed(m)'
    BY <1>0, <1>p, <2>2, <2>3
  <2>5. QED
    BY <1>p, <2>4 DEF FedInv
\* The engine takes the batch of the add under way in.
<1>q. ASSUME UNCHANGED <<recorded, pending, doubt, late>>, fed' = Also(fed, pending), pc' = "report" => pc = "report",
             job.status # "SUCCEEDED", job'.status = "SUCCEEDED"
      PROVE  FedInv'
  <2>1. fed' \in [Message -> Nat] /\ \A m \in Message : fed'[m] = fed[m] + IF m \in Range(pending) THEN 1 ELSE 0
    BY <1>q, AlsoCounts DEF FedInv
  <2>2. \A m \in Message : fed'[m] + Count(late', m) <= doubt'[m] + Owed(m)'
    BY <1>0, <1>b, <1>c, <1>q, <2>1
  <2>3. \A m \in Message : m > recorded => m \notin Range(pending)
    BY DEF FedInv, Message
  <2>4. QED
    BY <1>q, <2>1, <2>2, <2>3 DEF FedInv
<1>1. CASE UNCHANGED <<armVars, mem0Vars>>
  BY <1>1, <1>p DEF armVars, mem0Vars
<1>2. CASE RecordMessage /\ UNCHANGED mem0Vars
  <2> DEFINE n == recorded + 1
  <2>1. /\ pc = "idle" /\ pc' = pc /\ n \in Message /\ recorded' = n /\ pending' = Append(pending, n)
        /\ fed' = fed /\ doubt' = doubt /\ late' = late /\ job' = job /\ job.status = "none"
    BY <1>2, <1>a, MessagesAssumption DEF RecordMessage, mem0Vars, Message, FedInv
  <2>2. Range(pending') = Range(pending) \cup {n} /\ pending' \in Seq(Message)
    BY <2>1, RangeOfAppend DEF FedInv
  <2>3. fed[n] = 0 /\ n > recorded /\ recorded \in Nat
    BY <2>1 DEF FedInv, Message
  <2>4. Count(late, n) = 0
    <3>1. Carrying(late, n) = {}
      BY <2>3 DEF Carrying, FedInv
    <3>2. QED
      BY <3>1, FS_EmptySet DEF Count
  <2>5. \A m \in Message : m # n => Owed(m)' = Owed(m)
    BY <1>b, <1>c, <2>1, <2>2
  <2>6. \A m \in Message : Owed(m)' \in {0, 1}
    BY <1>c
  <2>7. \A m \in Message : fed'[m] + Count(late', m) <= doubt'[m] + Owed(m)'
    BY <1>0, <2>1, <2>3, <2>4, <2>5, <2>6
  <2>8. /\ \A m \in Range(pending') : m <= recorded'
        /\ \A j \in DOMAIN late' : \A m \in Range(late'[j]) : m <= recorded'
        /\ \A m \in Message : m > recorded' => fed'[m] = 0
    <3>1. \A m \in Message : m <= recorded => m <= n
      BY <2>3 DEF Message
    <3>2. \A j \in DOMAIN late : \A m \in Range(late[j]) : m \in Message
      BY DEF FedInv, Range
    <3>3. \A m \in Range(pending) : m \in Message
      BY DEF FedInv, Range
    <3>4. \A m \in Message : m > n => m > recorded
      BY <2>3 DEF Message
    <3>5. \A m \in Range(pending') : m <= recorded'
      <4>1. n <= recorded'
        BY <2>1, <2>3
      <4>2. \A m \in Range(pending) : m <= n
        BY <3>1, <3>3 DEF FedInv
      <4>3. QED
        BY <2>1, <2>2, <4>1, <4>2
    <3>6. \A j \in DOMAIN late' : \A m \in Range(late'[j]) : m <= recorded'
      BY <2>1, <3>1, <3>2 DEF FedInv
    <3>7. \A m \in Message : m > recorded' => fed'[m] = 0
      BY <2>1, <3>4 DEF FedInv
    <3>8. QED
      BY <3>5, <3>6, <3>7
  <2>9. recorded' \in 0..MaxMessages
    BY <2>1, MessagesAssumption DEF Message
  <2>10. QED
    BY <2>1, <2>2, <2>7, <2>8, <2>9 DEF FedInv
<1>3. ASSUME NEW isFinal \in BOOLEAN, NEW s \in Snapshots, BeginAdd(isFinal, s)
      PROVE  FedInv'
  BY <1>3, <1>a, <1>p DEF BeginAdd
<1>4. CASE NothingPending
  BY <1>4, <1>p DEF NothingPending, mem0Vars
<1>5. CASE PostRaises
  BY <1>5, <1>a, <1>p DEF PostRaises
<1>6. CASE PostQueues
  BY <1>6, <1>a, <1>p DEF PostQueues
<1>7. CASE PollAnswers
  BY <1>7, <1>p DEF PollAnswers, mem0Vars
<1>8. CASE PollRaises
  BY <1>8, <1>p DEF PollRaises, mem0Vars
<1>9. CASE FinishException
  <2>1. /\ pending' = pending /\ recorded' = recorded /\ fed' = fed /\ doubt' = Also(doubt, pending) /\ job' = NoJob
        /\ late' = IF job.status = "PENDING" THEN Append(late, pending) ELSE late
    BY <1>9 DEF FinishException, AfterFailure
  <2>2. doubt' \in [Message -> Nat] /\ \A m \in Message : doubt'[m] = doubt[m] + IF m \in Range(pending) THEN 1 ELSE 0
    BY <2>1, AlsoCounts DEF FedInv
  <2>3. \A m \in Message : Owed(m)' = IF m \in Range(pending) THEN 0 ELSE 1
    BY <1>c, <1>e, <2>1
  <2>4. pending \in Seq(Message) /\ late \in Seq(Seq(Message))
    BY DEF FedInv
  <2>5. CASE job.status = "PENDING"
    <3>1. late' = Append(late, pending) /\ late' \in Seq(Seq(Message))
      BY <2>1, <2>4, <2>5
    <3>2. \A m \in Message : Count(late', m) = Count(late, m) + IF m \in Range(pending) THEN 1 ELSE 0
      BY <2>4, <3>1, CountOfAppend
    <3>3. \A m \in Message : fed'[m] + Count(late', m) <= doubt'[m] + Owed(m)'
      BY <1>0, <1>b, <2>1, <2>2, <2>3, <2>5, <3>2
    <3>4. \A j \in DOMAIN late' : (j \in DOMAIN late /\ late'[j] = late[j]) \/ late'[j] = pending
      BY <2>4, <3>1
    <3>5. \A j \in DOMAIN late' : \A m \in Range(late'[j]) : m <= recorded'
      BY <2>1, <3>4 DEF FedInv
    <3>6. pc' # "report"
      BY <1>9 DEF FinishException, Resume
    <3>7. QED
      BY <2>1, <2>2, <3>1, <3>3, <3>5, <3>6 DEF FedInv
  <2>6. CASE job.status # "PENDING"
    <3>1. \A m \in Message : fed'[m] + Count(late', m) <= doubt'[m] + Owed(m)'
      BY <1>0, <1>b, <2>1, <2>2, <2>3, <2>6
    <3>2. pc' # "report"
      BY <1>9 DEF FinishException, Resume
    <3>3. QED
      BY <2>1, <2>2, <2>6, <3>1, <3>2 DEF FedInv
  <2>7. QED
    BY <2>5, <2>6
<1>10. ASSUME NEW r \in Series, NEW t \in Telling, PostAnswers(r, t)
       PROVE  FedInv'
  BY <1>10, <1>a, <1>d, <1>q DEF PostAnswers, Outcome
<1>11. ASSUME NEW s \in Snapshots, Finish(s)
       PROVE  FedInv'
  <2>1. /\ pending' = <<>> /\ recorded' = recorded /\ fed' = fed /\ doubt' = doubt /\ late' = late /\ job' = job
        /\ job.status = "SUCCEEDED"
    BY <1>11, <1>a DEF Finish
  <2>2. \A m \in Message : Owed(m) = 1 /\ Owed(m)' = 1
    BY <1>b, <1>c, <2>1
  <2>3. \A m \in Message : fed'[m] + Count(late', m) <= doubt'[m] + Owed(m)'
    BY <1>0, <2>1, <2>2
  <2>4. Range(<<>>) = {} /\ <<>> \in Seq(Message)
    BY DEF Range
  <2>5. QED
    BY <2>1, <2>3, <2>4 DEF FedInv
<1>12. CASE Report
  <2>1. pc = "report" /\ pending = <<>> /\ UNCHANGED <<recorded, pending, fed, doubt, late>> /\ pc' # "report"
    BY <1>12 DEF Report, FedInv, Resume
  <2>2. QED
    BY <1>p, <2>1
<1>13. CASE JobFails
  BY <1>13, <1>p DEF JobFails, armVars
<1>14. ASSUME NEW r \in Series, NEW t \in Telling, JobLands(r, t)
       PROVE  FedInv'
  <2>1. job.status # "SUCCEEDED" /\ job'.status = "SUCCEEDED"
    BY <1>14, <1>d DEF JobLands, Outcome
  <2>2. QED
    BY <1>14, <1>q, <2>1 DEF JobLands
\* A late add ends.
<1>r. ASSUME NEW j \in DOMAIN late, late' = RemoveAt(late, j)
      PROVE  /\ late' \in Seq(Seq(Message))
             /\ \A k \in DOMAIN late' : \A m \in Range(late'[k]) : m <= recorded
             /\ \A m \in Message : /\ Count(late', m) \in Nat
                                   /\ Count(late', m) + (IF m \in Range(late[j]) THEN 1 ELSE 0) <= Count(late, m)
  <2>0. late \in Seq(Seq(Message)) /\ Len(late) \in Nat /\ DOMAIN late = 1..Len(late)
    BY DEF FedInv
  <2>1. /\ late' \in Seq(Seq(Message)) /\ Len(late') = Len(late) - 1
        /\ \A k \in 1..(Len(late) - 1) : late'[k] = IF k < j THEN late[k] ELSE late[k + 1]
    BY <1>r, <2>0, RemovedAt
  <2>2. \A k \in DOMAIN late' : \E l \in DOMAIN late : late'[k] = late[l]
    <3>1. DOMAIN late' = 1..(Len(late) - 1)
      BY <2>0, <2>1
    <3>2. ASSUME NEW k \in 1..(Len(late) - 1)
          PROVE  \E l \in 1..Len(late) : late'[k] = late[l]
      <4>1. CASE k < j
        <5>1. k \in 1..Len(late) /\ late'[k] = late[k]
          BY <2>0, <2>1, <4>1
        <5>2. QED
          BY <5>1
      <4>2. CASE ~(k < j)
        <5>1. k + 1 \in 1..Len(late) /\ late'[k] = late[k + 1]
          BY <2>0, <2>1, <4>2
        <5>2. QED
          BY <5>1
      <4>3. QED
        BY <4>1, <4>2
    <3>3. QED
      BY <2>0, <3>1, <3>2
  <2>3. \A k \in DOMAIN late' : \A m \in Range(late'[k]) : m <= recorded
    BY <2>2 DEF FedInv
  <2>4. \A m : Count(late', m) + (IF m \in Range(late[j]) THEN 1 ELSE 0) <= Count(late, m)
    BY <1>r, <2>0, CountOfRemoval
  <2>5. \A m : Count(late', m) \in Nat
    BY <2>1, CountIsNat
  <2>6. QED
    BY <2>1, <2>3, <2>4, <2>5
<1>15. ASSUME NEW j \in DOMAIN late, LateJobFails(j)
       PROVE  FedInv'
  <2>1. UNCHANGED <<pc, recorded, pending, fed, doubt, job>> /\ late' = RemoveAt(late, j)
    BY <1>15 DEF LateJobFails, armVars
  <2>2. \A m \in Message : Owed(m)' = Owed(m) /\ Owed(m) \in {0, 1}
    BY <1>b, <1>c, <2>1
  <2>3. \A m \in Message : Count(late', m) \in Nat /\ Count(late', m) <= Count(late, m)
    BY <1>0, <1>r, <2>1
  <2>4. \A m \in Message : fed'[m] + Count(late', m) <= doubt'[m] + Owed(m)'
    BY <1>0, <2>1, <2>2, <2>3
  <2>5. QED
    BY <1>r, <2>1, <2>4 DEF FedInv
<1>16. ASSUME NEW j \in DOMAIN late, NEW r \in Series, LateJobLands(j, r)
       PROVE  FedInv'
  <2>1. UNCHANGED <<pc, recorded, pending, doubt, job>> /\ late' = RemoveAt(late, j) /\ fed' = Also(fed, late[j])
    BY <1>16 DEF LateJobLands
  <2>2. \A m \in Message : Owed(m)' = Owed(m) /\ Owed(m) \in {0, 1}
    BY <1>b, <1>c, <2>1
  <2>3. fed' \in [Message -> Nat] /\ \A m \in Message : fed'[m] = fed[m] + IF m \in Range(late[j]) THEN 1 ELSE 0
    BY <2>1, AlsoCounts DEF FedInv
  <2>4. \A m \in Message : fed'[m] + Count(late', m) <= doubt'[m] + Owed(m)'
    BY <1>0, <1>r, <2>1, <2>2, <2>3
  <2>5. \A m \in Message : m > recorded => m \notin Range(late[j])
    BY DEF FedInv, Message
  <2>6. \A m \in Message : m > recorded' => fed'[m] = 0
    BY <2>1, <2>3, <2>5 DEF FedInv
  <2>7. QED
    BY <1>r, <2>1, <2>3, <2>4, <2>6 DEF FedInv
<1>17. ASSUME NEW u \in User, NEW r \in SeriesOf(u), EndpointAdd(u, r)
       PROVE  FedInv'
  BY <1>17, <1>p DEF EndpointAdd, armVars
<1>18. ASSUME NEW i \in Id, NEW u \in User, EndpointCheck(i, u)
       PROVE  FedInv'
  BY <1>18, <1>p DEF EndpointCheck, armVars
<1>19. ASSUME NEW t \in Text \cup {Gone}, EndpointWrite(t)
       PROVE  FedInv'
  BY <1>19, <1>p DEF EndpointWrite, armVars
<1>20. QED
  BY <1>1, <1>2, <1>3, <1>4, <1>5, <1>6, <1>7, <1>8, <1>9, <1>10, <1>11, <1>12, <1>13, <1>14, <1>15, <1>16,
     <1>17, <1>18, <1>19 DEF Mem0Next

(* The engine is fed a message once, and once more at most for every call  *)
(* that raised with its outcome unknown (mem0_bridge/backend.py:442-444,   *)
(* 488): never after it confirmed the message, however late the adds that  *)
(* raised land.                                                            *)
THEOREM Mem0FeedsOncePerDoubt == Mem0Spec => []FedOncePerDoubt
<1> DEFINE Both == BufferInv /\ FedInv
<1>1. pc = "idle" /\ ArmInit /\ Mem0Init => Both
  <2> SUFFICES ASSUME pc = "idle", ArmInit, Mem0Init PROVE Both
    OBVIOUS
  <2>1. BufferInv
    BY MessagesAssumption DEF ArmInit, Mem0Init, BufferInv, NothingDropped, None, Message, NoJob, Job
  <2>2. /\ pending = <<>> /\ late = <<>> /\ recorded = 0 /\ Range(<<>>) = {} /\ DOMAIN <<>> = {}
        /\ pending \in Seq(Message) /\ late \in Seq(Seq(Message))
    BY DEF ArmInit, Mem0Init, Range
  <2>3. \A m \in Message : fed[m] = 0 /\ doubt[m] = 0
    BY DEF ArmInit, None
  <2>4. \A m \in Message : Count(late, m) = 0
    BY <2>2, FS_EmptySet DEF Count, Carrying
  <2>5. \A m \in Message : Owed(m) = 1
    BY <2>2 DEF Owed
  <2>6. FedInv
    BY <2>2, <2>3, <2>4, <2>5, MessagesAssumption DEF FedInv, ArmInit, None
  <2>7. QED
    BY <2>1, <2>6
<1>2. Both /\ [Mem0Next]_<<armVars, mem0Vars>> => Both'
  BY BufferStep, FedStep
<1>3. Both => FedOncePerDoubt
  BY FedOnInv
<1> HIDE DEF Both
<1>4. QED
  BY <1>1, <1>2, <1>3, PTL DEF Mem0Spec
=============================================================================

------------------------- MODULE MemoryAgent_proofs -------------------------
(***************************************************************************)
(* Proofs about MemoryAgent: for every step limit, schedule, store and     *)
(* integration, strict or not.                                             *)
(***************************************************************************)
EXTENDS MemoryAgent, MemoryBackend_proofs, Induction

-----------------------------------------------------------------------------
(* The run as a caller of the backend.                                     *)

\* How many messages may have been added, by the point the run has reached:
\* the prompt, a reply and an observation per call, the exit.
Paced ==
    /\ pc \in {"start", "set_task", "prologue"} => nAdded = 0 /\ nCalls = 0
    /\ pc \in {"recall", "call", "extract", "rewrite", "exit"} => nAdded <= 2 * nCalls + 1
    /\ pc \in {"reply", "resume"} => nAdded + 1 <= 2 * nCalls
    /\ pc = "reply" => result = "reply"
    /\ pc = "act" => nAdded <= 2 * nCalls
    /\ pc = "unplace" => /\ result = "interrupt" => nAdded + 1 <= 2 * nCalls
                         /\ result # "limit" => nAdded <= 2 * nCalls
                         /\ nAdded <= 2 * nCalls + 1
    /\ nAdded <= 2 * nCalls + 2

AgentInv == AgentTypeOK /\ Paced

\* A message that is added while the run goes on has a number of its own.
LEMMA MessageFits ==
    ASSUME AgentInv, pc \in {"prologue", "reply", "act", "resume", "exit"}
    PROVE  nAdded + 1 \in Message /\ nAdded + 1 \in 0..MaxMessages /\ MaxMessages \in Nat
<1>1. nAdded \in Nat /\ nCalls \in 0..StepLimit /\ StepLimit \in Nat /\ MaxMessages \in Nat
  BY AgentAssumption DEF AgentInv, AgentTypeOK, MaxMessages
<1>2. nAdded <= 2 * nCalls + 1
  BY <1>1 DEF AgentInv, Paced
<1>3. nAdded + 1 \in 1..MaxMessages
  BY <1>1, <1>2 DEF MaxMessages
<1>4. QED
  BY <1>1, <1>3, AgentAssumption

LEMMA AddCallsRecord ==
    ASSUME AgentInv, pc \in {"prologue", "reply", "act", "resume", "exit"}, NEW raises, AddMessage(raises)
    PROVE  /\ Record
           /\ nAdded' = nAdded + 1 /\ messages' = Append(messages, nAdded + 1)
BY MessageFits DEF AddMessage, Record

\* Every step of the run leaves the backend alone or is a call of it, or a write that lands.
LEMMA RunIsCaller ==
    ASSUME AgentInv, [Next]_vars
    PROVE  [BackendNext]_backendVars
<1> USE DEF BackendNext
<1>1. CASE AgentStart \/ AgentSetTask
  BY <1>1 DEF AgentStart, AgentSetTask
<1>2. CASE Prologue \/ AddReply \/ Resume \/ Exit
  BY <1>2, AddCallsRecord DEF Prologue, AddReply, Resume, Exit
<1>3. CASE Act
  BY <1>3, AddCallsRecord DEF Act
<1>4. CASE Place \/ PlaceFails
  BY <1>4 DEF Place, PlaceFails, RecallContext
<1>5. CASE Preflight \/ CallModel \/ Submit \/ ActCrashes
  BY <1>5 DEF Preflight, CallModel, Submit, ActCrashes
<1>6. CASE Unplace
  <2>1. fromCache \in BOOLEAN
    BY DEF AgentInv, AgentTypeOK
  <2>2. NoteRecall(fromCache) \/ UNCHANGED backendVars
    BY <1>6 DEF Unplace
  <2>3. QED
    BY <2>1, <2>2
<1>7. CASE AgentExtract \/ AgentRewrite
  <2>1. nCalls \in Step
    BY AgentAssumption DEF AgentInv, AgentTypeOK
  <2>2. QED
    BY <1>7, <2>1 DEF AgentExtract, AgentRewrite, MaybeExtract, MaybeRewrite
<1>8. CASE AgentFinalize
  BY <1>8 DEF AgentFinalize, FinalizeCall
<1>9. CASE StoreLands
  BY <1>9 DEF StoreLands
<1>10. CASE UNCHANGED vars
  BY <1>10 DEF vars
<1>11. QED
  BY <1>1, <1>2, <1>3, <1>4, <1>5, <1>6, <1>7, <1>8, <1>9, <1>10 DEF Next, AgentStep, Terminated

\* Taking the block out of a message list leaves a message list.
LEMMA WithoutMarkerType ==
    ASSUME NEW seq \in Seq(Nat)
    PROVE  WithoutMarker(seq) \in Seq(Nat)
<1> DEFINE Last(i) == seq[i] = Marker /\ \A j \in (i + 1)..Len(seq) : seq[j] # Marker
           at == CHOOSE i \in 1..Len(seq) : Last(i)
           cut == [j \in 1..(Len(seq) - 1) |-> IF j < at THEN seq[j] ELSE seq[j + 1]]
<1>1. CASE \E i \in 1..Len(seq) : seq[i] = Marker
  <2>1. Len(seq) - 1 \in Nat
    BY <1>1
  <2>2. \A j \in 1..(Len(seq) - 1) : seq[j] \in Nat /\ seq[j + 1] \in Nat
    BY <2>1
  <2>3. \A j \in 1..(Len(seq) - 1) : (IF j < at THEN seq[j] ELSE seq[j + 1]) \in Nat
    <3> HIDE DEF at
    <3> QED
      BY <2>2
  <2>4. cut \in [1..(Len(seq) - 1) -> Nat]
    <3> HIDE DEF at
    <3> QED
      BY <2>3
  <2>5. cut \in Seq(Nat)
    <3> HIDE DEF cut
    <3> QED
      BY <2>1, <2>4
  <2>6. WithoutMarker(seq) = cut
    BY <1>1 DEF WithoutMarker
  <2>7. QED
    BY <2>5, <2>6
<1>2. CASE ~\E i \in 1..Len(seq) : seq[i] = Marker
  BY <1>2 DEF WithoutMarker
<1>3. QED
  BY <1>1, <1>2

LEMMA AgentInvStep ==
    ASSUME TypeOK', AgentInv, [Next]_vars
    PROVE  AgentInv'
<1> USE AgentAssumption DEF AgentInv, AgentTypeOK, PC
<1>0. StepLimit \in Nat /\ MaxMessages \in Nat
  BY DEF MaxMessages
<1>1. CASE AgentStart
  BY <1>1 DEF AgentStart, Goto, Paced, frame, block
<1>2. CASE AgentSetTask
  BY <1>2 DEF AgentSetTask, Goto, Paced, frame, block
<1>3. CASE Prologue \/ Resume \/ Exit
  <2>1. pc \in {"prologue", "resume", "exit"}
    BY <1>3 DEF Prologue, Resume, Exit
  <2>2. PICK raises \in BOOLEAN : AddMessage(raises) /\ \E next \in {"recall", "finalize"} :
           /\ next = "finalize" <=> pc = "exit"
           /\ Goto(next, raises)
    BY <1>3 DEF Prologue, Resume, Exit
  <2>3. nAdded' = nAdded + 1 /\ messages' = Append(messages, nAdded + 1)
    BY <2>1, <2>2, AddCallsRecord
  <2>4. UNCHANGED <<strict, nCalls, placed, fromCache, callsBefore, result, outcome, cleanStep, shown>>
    BY <1>3, <2>2 DEF Prologue, Resume, Exit, block, Goto
  <2>5. messages' \in Seq(Nat) /\ nAdded' \in 0..MaxMessages
    BY <2>1, <2>3, MessageFits
  <2>6. pc' \in {"recall", "finalize"} /\ (pc' = "recall" => pc # "exit") /\ primary' \in {"none", "agent", "memory"}
    BY <2>2 DEF Goto
  <2>7. Paced'
    BY <1>0, <2>1, <2>3, <2>4, <2>6 DEF Paced
  <2>8. QED
    BY <2>4, <2>5, <2>6, <2>7
<1>4. CASE Place \/ PlaceFails
  <2>1. ret'.hits \in Payload /\ {} \in Payload
    BY DEF TypeOK, Reply, Payload
  <2>2. placed' \in Payload
    BY <1>4, <2>1 DEF Place, PlaceFails
  <2>3. fromCache' \in BOOLEAN
    <3>1. CASE Place
      <4>1. fromCache' = (ret'.status = "answer" /\ ~dirty)
        BY <3>1 DEF Place
      <4>2. QED
        BY <4>1, Zenon
    <3>2. CASE PlaceFails
      BY <3>2 DEF PlaceFails
    <3>3. QED
      BY <1>4, <3>1, <3>2
  <2>4. messages' \in Seq(Nat)
    <3>1. messages' = messages \/ messages' = Append(messages, Marker)
      BY <1>4 DEF Place, PlaceFails, frame
    <3>2. QED
      BY <3>1 DEF Marker
  <2>5. /\ pc = "recall" /\ pc' \in {"call", "finalize"} /\ primary' \in {"none", "agent", "memory"}
        /\ callsBefore' = nCalls
        /\ UNCHANGED <<strict, nCalls, nAdded, result, outcome, cleanStep, shown>>
    BY <1>4 DEF Place, PlaceFails, frame, Goto
  <2>6. Paced'
    BY <2>5 DEF Paced
  <2>7. QED
    BY <2>2, <2>3, <2>4, <2>5, <2>6
<1>5. CASE Preflight
  BY <1>5 DEF Preflight, Paced, frame, block, exits
<1>6. CASE CallModel
  <2>1. /\ pc = "call" /\ nCalls' = nCalls + 1 /\ nCalls < StepLimit
        /\ result' \in {"reply", "interrupt", "crash"} /\ pc' = IF result' = "reply" THEN "reply" ELSE "unplace"
        /\ UNCHANGED <<strict, nAdded, messages, placed, fromCache, callsBefore, primary, outcome, cleanStep>>
    BY <1>6 DEF CallModel, WithinLimit, block, exits
  <2>2. shown' \in [{"all", "cached"} -> Nat]
    BY <1>6 DEF CallModel
  <2>3. nCalls' \in 0..StepLimit
    BY <1>0, <2>1
  <2>4. Paced'
    BY <1>0, <2>1 DEF Paced
  <2>5. QED
    BY <2>1, <2>2, <2>3, <2>4
<1>7. CASE AddReply
  <2>1. PICK raises \in BOOLEAN : AddMessage(raises) /\ result' = IF raises THEN "memory" ELSE result
    BY <1>7 DEF AddReply
  <2>2. /\ pc = "reply" /\ pc' = "unplace"
        /\ UNCHANGED <<strict, nCalls, placed, fromCache, callsBefore, primary, outcome, cleanStep, shown>>
    BY <1>7 DEF AddReply, block, exits
  <2>3. nAdded' = nAdded + 1 /\ messages' = Append(messages, nAdded + 1)
    BY <2>1, <2>2, AddCallsRecord
  <2>4. messages' \in Seq(Nat) /\ nAdded' \in 0..MaxMessages
    BY <2>2, <2>3, MessageFits
  <2>5. result' \in {"none", "reply", "interrupt", "limit", "crash", "memory"}
    BY <2>1
  <2>6. nAdded \in Nat /\ nCalls \in Nat /\ nAdded + 1 <= 2 * nCalls
    BY <1>0, <2>2 DEF Paced
  <2>7. Paced'
    <3>1. result' # "limit" => nAdded' <= 2 * nCalls'
      BY <2>2, <2>3, <2>6
    <3>2. result' # "interrupt"
      BY <2>1, <2>2 DEF Paced
    <3>3. QED
      BY <2>2, <2>3, <2>6, <3>1, <3>2 DEF Paced
  <2>8. QED
    BY <2>2, <2>4, <2>5, <2>7
<1>8. CASE Unplace
  <2>1. messages' \in Seq(Nat) /\ {} \in Payload
    BY <1>8, WithoutMarkerType DEF Unplace, Payload
  <2>2. /\ pc = "unplace" /\ placed' = {} /\ fromCache' = FALSE /\ callsBefore' = 0 /\ result' = "none"
        /\ UNCHANGED <<strict, nCalls, nAdded, outcome, cleanStep, shown>>
    BY <1>8 DEF Unplace
  <2>3. primary' \in {"none", "agent", "memory"}
    BY <1>8 DEF Unplace
  <2>4. \/ result = "reply" /\ pc' = "act"
        \/ result = "interrupt" /\ pc' = "resume"
        \/ result = "limit" /\ pc' = "exit"
        \/ pc' = "finalize"
    BY <1>8 DEF Unplace
  <2>5. nAdded \in Nat /\ nCalls \in Nat
    BY <1>0
  <2>6. /\ result = "interrupt" => nAdded + 1 <= 2 * nCalls
        /\ result # "limit" => nAdded <= 2 * nCalls
        /\ nAdded <= 2 * nCalls + 1
    BY <2>2 DEF Paced
  <2>7. Paced'
    <3>1. CASE result = "reply" /\ pc' = "act"
      BY <2>2, <2>5, <2>6, <3>1 DEF Paced
    <3>2. CASE result = "interrupt" /\ pc' = "resume"
      BY <2>2, <2>5, <2>6, <3>2 DEF Paced
    <3>3. CASE result = "limit" /\ pc' = "exit"
      BY <2>2, <2>5, <2>6, <3>3 DEF Paced
    <3>4. CASE pc' = "finalize"
      BY <2>2, <2>5, <2>6, <3>4 DEF Paced
    <3>5. QED
      BY <2>4, <3>1, <3>2, <3>3, <3>4
  <2>8. pc' \in PC /\ 0 \in 0..StepLimit
    BY <1>0, <2>4
  <2>9. strict' \in BOOLEAN /\ placed' \in Payload /\ fromCache' \in BOOLEAN /\ outcome' = outcome
    BY <2>1, <2>2
  <2>10. AgentTypeOK'
    BY <2>1, <2>2, <2>3, <2>8, <2>9
  <2>11. QED
    BY <2>7, <2>10 DEF AgentInv
<1>9. CASE Act
  <2>1. PICK raises \in BOOLEAN : /\ AddMessage(raises) /\ Goto("extract", raises)
                                  /\ cleanStep' = IF raises THEN cleanStep ELSE nCalls
    BY <1>9 DEF Act
  <2>2. /\ pc = "act" /\ pc' \in {"extract", "finalize"} /\ primary' \in {"none", "agent", "memory"}
        /\ UNCHANGED <<strict, nCalls, placed, fromCache, callsBefore, result, outcome, shown>>
    BY <1>9, <2>1 DEF Act, block, Goto
  <2>3. nAdded' = nAdded + 1 /\ messages' = Append(messages, nAdded + 1)
    BY <2>1, <2>2, AddCallsRecord
  <2>4. messages' \in Seq(Nat) /\ nAdded' \in 0..MaxMessages
    BY <2>2, <2>3, MessageFits
  <2>5. QED
    BY <1>0, <2>1, <2>2, <2>3, <2>4 DEF Paced
<1>10. CASE Submit \/ ActCrashes
  BY <1>0, <1>10 DEF Submit, ActCrashes, Paced, frame, block, exits
<1>11. CASE AgentExtract \/ AgentRewrite
  <2>1. /\ pc \in {"extract", "rewrite"} /\ pc' \in {"rewrite", "recall", "finalize"}
        /\ primary' \in {"none", "agent", "memory"}
        /\ UNCHANGED <<strict, nCalls, nAdded, messages, placed, fromCache, callsBefore, result, outcome, cleanStep, shown>>
    BY <1>11 DEF AgentExtract, AgentRewrite, Goto, frame, block
  <2>2. QED
    BY <1>0, <2>1 DEF Paced
<1>12. CASE AgentFinalize
  <2>1. /\ pc = "finalize" /\ pc' = "done" /\ outcome' \in {primary, "memory", "returned"} /\ outcome' # "none"
        /\ UNCHANGED <<strict, nCalls, nAdded, messages, placed, fromCache, callsBefore, result, primary, cleanStep, shown>>
    BY <1>12 DEF AgentFinalize, frame, block
  <2>2. QED
    BY <1>0, <2>1 DEF Paced
<1>13. CASE StoreLands
  BY <1>13 DEF StoreLands, agentVars, Paced
<1>14. CASE UNCHANGED vars
  BY <1>14 DEF vars, agentVars, Paced
<1>15. QED
  BY <1>1, <1>2, <1>3, <1>4, <1>5, <1>6, <1>7, <1>8, <1>9, <1>10, <1>11, <1>12, <1>13, <1>14
     DEF Next, AgentStep, Terminated

\* A run starts well, and every step keeps both the backend's types and the run's.
LEMMA RunInvariant == Spec => [](TypeOK /\ AgentInv)
<1>1. Init => TypeOK /\ AgentInv
  <2>1. Init => TypeOK
    BY TypeInit DEF Init
  <2>2. ASSUME Init
        PROVE  AgentInv
    <3>1. /\ pc = "start" /\ nCalls = 0 /\ nAdded = 0 /\ messages = <<>> /\ placed = {} /\ fromCache = FALSE
          /\ callsBefore = 0 /\ result = "none" /\ primary = "none" /\ outcome = "running" /\ cleanStep = 0
          /\ strict \in BOOLEAN
      BY <2>2 DEF Init
    <3>2. shown \in [{"all", "cached"} -> Nat]
      BY <2>2 DEF Init
    <3>3. 0 \in 0..StepLimit /\ 0 \in 0..MaxMessages /\ {} \in Payload /\ <<>> \in Seq(Nat)
      BY AgentAssumption DEF MaxMessages, Payload
    <3>4. AgentTypeOK
      BY <3>1, <3>2, <3>3 DEF AgentTypeOK, PC
    <3>5. Paced
      BY <3>1 DEF Paced
    <3>6. QED
      BY <3>4, <3>5 DEF AgentInv
  <2>3. QED
    BY <2>1, <2>2
<1>2. TypeOK /\ AgentInv /\ [Next]_vars => (TypeOK /\ AgentInv)'
  BY RunIsCaller, TypeStep, AgentInvStep
<1>3. QED
  BY <1>1, <1>2, PTL DEF Spec

\* Every variable of a run keeps its type, and a run never adds more messages
\* than its calls account for.
THEOREM AgentTypeCorrect == Spec => []AgentTypeOK
<1>1. AgentInv => AgentTypeOK
  BY DEF AgentInv
<1>2. QED
  BY <1>1, RunInvariant, PTL

\* An agent run is one of the callers MemoryBackend's theorems are about: what
\* they say of a backend holds in every run (shared_bridge/agent.py).
THEOREM RunIsBackendSpec == Spec => BackendSpec
<1>1. Init => BackendInit
  BY DEF Init
<1>2. TypeOK /\ AgentInv /\ [Next]_vars => [BackendNext]_backendVars
  BY RunIsCaller
<1>3. QED
  BY <1>1, <1>2, RunInvariant, PTL DEF Spec, BackendSpec

-----------------------------------------------------------------------------
(* The prompt.                                                             *)

LEMMA PromptStep ==
    ASSUME LateLanding = FALSE, CacheInv, PromptIsCurrent, [Next]_vars
    PROVE  PromptIsCurrent'
<1> USE DEF PromptIsCurrent
<1>0. late = FALSE /\ (~dirty => cached = Answer(store, CurrentQuery))
  BY DEF CacheInv, CacheCoherent
<1>1. CASE Place
  <2>1. pc' = "call" => placed' = ret'.hits
    BY <1>1 DEF Place
  <2>2. CASE RecallDormant
    BY <2>2 DEF RecallDormant, Answers
  <2>3. CASE RecallFromCache
    <3>1. ret'.hits = cached /\ ~dirty /\ UNCHANGED <<store, CurrentQuery>>
      BY <2>3 DEF RecallFromCache, Answers, world, query, CurrentQuery
    <3>2. QED
      BY <1>0, <2>1, <3>1 DEF Answer
  <2>4. CASE RecallSearches
    <3>1. ret'.hits = Answer(store, CurrentQuery) /\ UNCHANGED <<store, CurrentQuery>>
      BY <2>4 DEF RecallSearches, Answers, world, query, CurrentQuery
    <3>2. QED
      BY <2>1, <3>1 DEF Answer
  <2>5. QED
    BY <1>1, <2>2, <2>3, <2>4 DEF Place
<1>2. CASE PlaceFails
  BY <1>2 DEF PlaceFails, RecallFails, Answers
<1>3. CASE UNCHANGED vars
  BY <1>3 DEF vars, backendVars, agentVars, Answer, CurrentQuery
<1>4. CASE StoreLands
  BY <1>0, <1>4 DEF StoreLands, LateWrite
<1>5. CASE AgentStart \/ AgentSetTask \/ Prologue \/ Resume \/ Exit \/ Act \/ AgentExtract \/ AgentRewrite
  <2>1. pc' # "call"
    BY <1>5 DEF AgentStart, AgentSetTask, Prologue, Resume, Exit, Act, AgentExtract, AgentRewrite, Goto
  <2>2. QED
    BY <2>1
<1>6. CASE Preflight \/ CallModel \/ AddReply \/ Unplace \/ Submit \/ ActCrashes \/ AgentFinalize
  <2>1. pc' # "call"
    BY <1>6 DEF Preflight, CallModel, AddReply, Unplace, Submit, ActCrashes, AgentFinalize
  <2>2. QED
    BY <2>1
<1>7. QED
  BY <1>1, <1>2, <1>3, <1>4, <1>5, <1>6 DEF Next, AgentStep, Terminated

\* With a store that applies a write before the call that makes it returns, the
\* model is never shown a block that contradicts memory: what is in the prompt
\* at the call is what the store has for the query then.
THEOREM PromptCorrect == LateLanding = FALSE /\ Spec => []PromptIsCurrent
<1> SUFFICES ASSUME LateLanding = FALSE PROVE Spec => []PromptIsCurrent
  OBVIOUS
<1>1. Init => PromptIsCurrent
  BY DEF Init, PromptIsCurrent
<1>2. CacheInv /\ PromptIsCurrent /\ [Next]_vars => PromptIsCurrent'
  BY PromptStep
<1>3. BackendSpec => []CacheInv
  BY CacheInvariant
<1>4. QED
  BY <1>1, <1>2, <1>3, RunIsBackendSpec, PTL DEF Spec

-----------------------------------------------------------------------------
(* The trajectory.                                                         *)

\* n messages as they were added, and the same with the block at p.
Plain(n) == [i \in 1..n |-> i]
Holding(n, p) == [j \in 1..(n + 1) |-> IF j < p THEN j ELSE IF j = p THEN Marker ELSE j - 1]

LEMMA SequencesAgree ==
    ASSUME NEW s \in Seq(Nat), NEW t \in Seq(Nat), Len(s) = Len(t), \A i \in 1..Len(s) : s[i] = t[i]
    PROVE  s = t
OBVIOUS

LEMMA PlainIs ==
    ASSUME NEW n \in Nat
    PROVE  Plain(n) \in Seq(Nat) /\ Len(Plain(n)) = n /\ \A i \in 1..n : Plain(n)[i] = i
BY DEF Plain

LEMMA HoldingIs ==
    ASSUME NEW n \in Nat, NEW p \in 1..(n + 1)
    PROVE  /\ Holding(n, p) \in Seq(Nat) /\ Len(Holding(n, p)) = n + 1
           /\ \A j \in 1..(n + 1) : Holding(n, p)[j] = IF j < p THEN j ELSE IF j = p THEN Marker ELSE j - 1
<1>1. \A j \in 1..(n + 1) : (IF j < p THEN j ELSE IF j = p THEN Marker ELSE j - 1) \in Nat
  BY DEF Marker
<1>2. QED
  BY <1>1 DEF Holding

LEMMA AppendIs ==
    ASSUME NEW s \in Seq(Nat), NEW e \in Nat
    PROVE  /\ Append(s, e) \in Seq(Nat) /\ Len(Append(s, e)) = Len(s) + 1
           /\ \A i \in 1..Len(s) : Append(s, e)[i] = s[i]
           /\ Append(s, e)[Len(s) + 1] = e
OBVIOUS

\* Appending the next message, and appending the block.
LEMMA PlainGrows ==
    ASSUME NEW n \in Nat
    PROVE  Append(Plain(n), n + 1) = Plain(n + 1) /\ Append(Plain(n), Marker) = Holding(n, n + 1)
<1>1. /\ Plain(n) \in Seq(Nat) /\ Len(Plain(n)) = n /\ \A i \in 1..n : Plain(n)[i] = i
      /\ Plain(n + 1) \in Seq(Nat) /\ Len(Plain(n + 1)) = n + 1 /\ \A i \in 1..(n + 1) : Plain(n + 1)[i] = i
  BY PlainIs
<1>2. /\ Holding(n, n + 1) \in Seq(Nat) /\ Len(Holding(n, n + 1)) = n + 1
      /\ \A j \in 1..(n + 1) : Holding(n, n + 1)[j] = IF j < n + 1 THEN j ELSE IF j = n + 1 THEN Marker ELSE j - 1
  BY HoldingIs
<1>3. \A i \in 1..(n + 1) : (i \in 1..n /\ i < n + 1) \/ i = n + 1
  OBVIOUS
<1>4. Append(Plain(n), n + 1) = Plain(n + 1)
  <2> DEFINE longer == Append(Plain(n), n + 1)
  <2>1. /\ longer \in Seq(Nat) /\ Len(longer) = n + 1
        /\ \A i \in 1..n : longer[i] = Plain(n)[i]
        /\ longer[n + 1] = n + 1
    BY <1>1, AppendIs
  <2> HIDE DEF longer
  <2>2. \A i \in 1..(n + 1) : longer[i] = Plain(n + 1)[i]
    BY <1>1, <1>3, <2>1
  <2>3. QED
    BY <1>1, <2>1, <2>2, SequencesAgree DEF longer
<1>5. Append(Plain(n), Marker) = Holding(n, n + 1)
  <2> DEFINE longer == Append(Plain(n), Marker)
  <2>1. /\ longer \in Seq(Nat) /\ Len(longer) = n + 1
        /\ \A i \in 1..n : longer[i] = Plain(n)[i]
        /\ longer[n + 1] = Marker
    BY <1>1, AppendIs DEF Marker
  <2> HIDE DEF longer
  <2>2. \A i \in 1..(n + 1) : longer[i] = Holding(n, n + 1)[i]
    BY <1>1, <1>2, <1>3, <2>1
  <2>3. QED
    BY <1>2, <2>1, <2>2, SequencesAgree DEF longer
<1>6. QED
  BY <1>4, <1>5

LEMMA HoldingGrows ==
    ASSUME NEW n \in Nat, NEW p \in 1..(n + 1)
    PROVE  Append(Holding(n, p), n + 1) = Holding(n + 1, p)
<1> DEFINE longer == Append(Holding(n, p), n + 1)
<1>1. /\ Holding(n, p) \in Seq(Nat) /\ Len(Holding(n, p)) = n + 1
      /\ \A j \in 1..(n + 1) : Holding(n, p)[j] = IF j < p THEN j ELSE IF j = p THEN Marker ELSE j - 1
  BY HoldingIs
<1>2. n + 1 \in Nat /\ p \in 1..((n + 1) + 1) /\ (n + 1) + 1 = n + 2
  OBVIOUS
<1>3. /\ Holding(n + 1, p) \in Seq(Nat) /\ Len(Holding(n + 1, p)) = n + 2
      /\ \A j \in 1..(n + 2) : Holding(n + 1, p)[j] = IF j < p THEN j ELSE IF j = p THEN Marker ELSE j - 1
  BY <1>2, HoldingIs
<1>4. /\ longer \in Seq(Nat) /\ Len(longer) = n + 2
      /\ \A i \in 1..(n + 1) : longer[i] = Holding(n, p)[i]
      /\ longer[n + 2] = n + 1
  BY <1>1, <1>2, AppendIs
<1> HIDE DEF longer
<1>5. \A i \in 1..(n + 2) : i \in 1..(n + 1) \/ (i = n + 2 /\ ~(i < p) /\ i # p /\ i - 1 = n + 1)
  OBVIOUS
<1>6. \A i \in 1..(n + 2) : longer[i] = Holding(n + 1, p)[i]
  BY <1>1, <1>3, <1>4, <1>5
<1>7. QED
  BY <1>3, <1>4, <1>6, SequencesAgree DEF longer

\* Removing the block gives the messages back, wherever it was.
LEMMA BlockGoes ==
    ASSUME NEW n \in Nat
    PROVE  /\ WithoutMarker(Plain(n)) = Plain(n)
           /\ \A p \in 1..(n + 1) : WithoutMarker(Holding(n, p)) = Plain(n)
<1>1. WithoutMarker(Plain(n)) = Plain(n)
  <2>1. ~\E i \in 1..Len(Plain(n)) : Plain(n)[i] = Marker
    BY PlainIs DEF Marker
  <2>2. QED
    BY <2>1 DEF WithoutMarker
<1>2. ASSUME NEW p \in 1..(n + 1)
      PROVE  WithoutMarker(Holding(n, p)) = Plain(n)
  <2> DEFINE seq == Holding(n, p)
             Last(i) == seq[i] = Marker /\ \A j \in (i + 1)..Len(seq) : seq[j] # Marker
             at == CHOOSE i \in 1..Len(seq) : Last(i)
             cut == [j \in 1..(Len(seq) - 1) |-> IF j < at THEN seq[j] ELSE seq[j + 1]]
  <2>1. Len(seq) = n + 1 /\ \A j \in 1..(n + 1) : seq[j] = IF j < p THEN j ELSE IF j = p THEN Marker ELSE j - 1
    BY HoldingIs
  <2> HIDE DEF seq
  <2>2. \A i \in 1..(n + 1) : seq[i] = Marker <=> i = p
    BY <2>1 DEF Marker
  <2>3. p \in 1..Len(seq) /\ Last(p)
    BY <2>1, <2>2
  <2>4. at \in 1..Len(seq) /\ Last(at)
    BY <2>3
  <2>5. at = p
    BY <2>1, <2>2, <2>4
  <2>6. WithoutMarker(seq) = cut
    BY <2>1, <2>2 DEF WithoutMarker
  <2>7. cut = [j \in 1..n |-> IF j < p THEN seq[j] ELSE seq[j + 1]]
    <3>1. Len(seq) - 1 = n
      BY <2>1
    <3> HIDE DEF at
    <3> QED
      BY <2>5, <3>1, Zenon
  <2>8. \A j \in 1..n : (IF j < p THEN seq[j] ELSE seq[j + 1]) = j
    <3>1. \A j \in 1..n : j \in 1..(n + 1) /\ j + 1 \in 1..(n + 1)
      OBVIOUS
    <3>2. QED
      BY <2>1, <3>1
  <2>9. QED
    BY <2>6, <2>7, <2>8 DEF Plain, seq
<1>3. QED
  BY <1>1, <1>2

InQuery == pc \in {"call", "reply", "unplace"}

\* During a query the block may stand anywhere among the messages.
TrajectoryInv ==
    /\ ~InQuery => messages = Plain(nAdded)
    /\ InQuery => messages = Plain(nAdded) \/ \E p \in 1..(nAdded + 1) : messages = Holding(nAdded, p)

LEMMA TrajectoryStep ==
    ASSUME AgentInv, TrajectoryInv, [Next]_vars
    PROVE  TrajectoryInv'
<1> USE DEF TrajectoryInv, InQuery
<1>0. nAdded \in Nat
  BY DEF AgentInv, AgentTypeOK
<1>a. ASSUME UNCHANGED <<messages, nAdded>>, InQuery' = InQuery
      PROVE  TrajectoryInv'
  BY <1>a
<1>1. CASE AgentStart \/ AgentSetTask \/ AgentExtract \/ AgentRewrite
  BY <1>1 DEF AgentStart, AgentSetTask, AgentExtract, AgentRewrite, Goto, frame
<1>2. CASE Prologue \/ Resume \/ Exit \/ Act
  <2>1. pc \in {"prologue", "resume", "exit", "act"} /\ pc' \in {"recall", "finalize", "extract"}
    BY <1>2 DEF Prologue, Resume, Exit, Act, Goto
  <2>2. \E raises \in BOOLEAN : AddMessage(raises)
    BY <1>2 DEF Prologue, Resume, Exit, Act
  <2>3. nAdded' = nAdded + 1 /\ messages' = Append(messages, nAdded + 1)
    BY <2>1, <2>2, AddCallsRecord
  <2>4. messages' = Plain(nAdded + 1)
    BY <1>0, <2>1, <2>3, PlainGrows
  <2>5. QED
    BY <2>1, <2>3, <2>4
<1>3. CASE Place
  <2>1. pc = "recall" /\ pc' = "call" /\ nAdded' = nAdded
    BY <1>3 DEF Place, Goto
  <2>2. messages' = messages \/ messages' = Append(messages, Marker)
    BY <1>3 DEF Place
  <2>3. messages' = Plain(nAdded) \/ messages' = Holding(nAdded, nAdded + 1)
    BY <1>0, <2>1, <2>2, PlainGrows
  <2>4. nAdded + 1 \in 1..(nAdded + 1)
    BY <1>0
  <2>5. QED
    BY <2>1, <2>3, <2>4
<1>4. CASE PlaceFails
  BY <1>4 DEF PlaceFails, Goto, frame
<1>5. CASE Preflight \/ CallModel
  <2>1. pc = "call" /\ pc' \in {"reply", "unplace"} /\ UNCHANGED <<messages, nAdded>>
    BY <1>5 DEF Preflight, CallModel, frame
  <2>2. QED
    BY <1>a, <2>1
<1>6. CASE AddReply
  <2>1. pc = "reply" /\ pc' = "unplace" /\ \E raises \in BOOLEAN : AddMessage(raises)
    BY <1>6 DEF AddReply
  <2>2. nAdded' = nAdded + 1 /\ messages' = Append(messages, nAdded + 1)
    BY <2>1, AddCallsRecord
  <2>3. CASE messages = Plain(nAdded)
    BY <1>0, <2>1, <2>2, <2>3, PlainGrows
  <2>4. ASSUME NEW p \in 1..(nAdded + 1), messages = Holding(nAdded, p)
        PROVE  TrajectoryInv'
    <3>1. messages' = Holding(nAdded + 1, p)
      BY <1>0, <2>2, <2>4, HoldingGrows
    <3>2. p \in 1..((nAdded + 1) + 1)
      BY <1>0
    <3>3. QED
      BY <2>1, <2>2, <3>1, <3>2
  <2>5. QED
    BY <2>1, <2>3, <2>4
<1>7. CASE Unplace
  <2>1. pc = "unplace" /\ messages' = WithoutMarker(messages) /\ nAdded' = nAdded
    BY <1>7 DEF Unplace
  <2>2. pc' \in {"act", "resume", "exit", "finalize"}
    BY <1>7 DEF Unplace
  <2>3. messages' = Plain(nAdded)
    BY <1>0, <2>1, BlockGoes
  <2>4. QED
    BY <2>1, <2>2, <2>3
<1>8. CASE Submit \/ ActCrashes
  BY <1>8 DEF Submit, ActCrashes, frame
<1>9. CASE AgentFinalize
  BY <1>9 DEF AgentFinalize, frame
<1>10. CASE StoreLands
  BY <1>10 DEF StoreLands, agentVars
<1>11. CASE UNCHANGED vars
  BY <1>11 DEF vars, agentVars
<1>12. QED
  BY <1>1, <1>2, <1>3, <1>4, <1>5, <1>6, <1>7, <1>8, <1>9, <1>10, <1>11 DEF Next, AgentStep, Terminated

\* The block is transient: outside a query the messages are exactly those that
\* were added, however the query ended and whatever was appended behind it.
THEOREM TrajectoryIsUntouched == Spec => []TrajectoryUntouched
<1>1. Init => TrajectoryInv
  <2>1. Plain(0) = <<>>
    BY PlainIs
  <2>2. QED
    BY <2>1 DEF Init, TrajectoryInv, InQuery
<1>2. AgentInv /\ TrajectoryInv /\ [Next]_vars => TrajectoryInv'
  BY TrajectoryStep
<1>3. TrajectoryInv => TrajectoryUntouched
  BY DEF TrajectoryInv, InQuery, TrajectoryUntouched, Plain
<1>4. QED
  BY <1>1, <1>2, <1>3, RunInvariant, PTL DEF Spec

-----------------------------------------------------------------------------
(* The counters.                                                           *)

Injected(c) == c["recall_injections"]
Hits(c)     == c["recall_cache_hits"]

\* Between a model call with a block in its prompt and the removal of the block
\* the counters are one behind.
CountInv ==
    /\ pc = "start" => shown = [s \in {"all", "cached"} |-> 0]
    /\ pc = "call" => callsBefore = nCalls
    /\ LET due == pc \in {"reply", "unplace"} /\ placed # {} /\ Attempted
       IN  /\ shown["all"] = Injected(counts) + IF due THEN 1 ELSE 0
           /\ shown["cached"] = Hits(counts) + IF due /\ fromCache THEN 1 ELSE 0

\* The calls of the backend that are not a search count neither.
LEMMA QuietCounts ==
    ASSUME TypeOK,
           \/ \E o : counts' = Tally(o)
           \/ \E c \in {"rewrite_successes", "search_calls"} : counts' = Bump(c)
           \/ counts' = [counts EXCEPT !["search_calls"] = @ + 1, !["recall_failures"] = @ + 1]
           \/ counts' = counts
    PROVE  Injected(counts') = Injected(counts) /\ Hits(counts') = Hits(counts)
BY DEF Tally, Bump, Injected, Hits, TypeOK, Counters

\* Which calls those are: all a run makes but start and note_recall.
LEMMA OnlyNotesCount ==
    ASSUME TypeOK, AgentInv, Next, ~AgentStart, ~Unplace
    PROVE  Injected(counts') = Injected(counts) /\ Hits(counts') = Hits(counts)
<1>1. CASE AgentSetTask
  BY <1>1 DEF AgentSetTask, SetTask
<1>2. CASE Prologue \/ AddReply \/ Act \/ Resume \/ Exit
  <2>1. \E raises \in BOOLEAN : AddMessage(raises)
    BY <1>2 DEF Prologue, AddReply, Act, Resume, Exit
  <2>2. counts' = counts
    BY <2>1 DEF AddMessage, RecordStores, RecordSkips, RecordFails, backendVars
  <2>3. QED
    BY <2>2
<1>3. CASE Place \/ PlaceFails
  <2>1. \/ counts' = Bump("search_calls") \/ counts' = counts
        \/ counts' = [counts EXCEPT !["search_calls"] = @ + 1, !["recall_failures"] = @ + 1]
    BY <1>3 DEF Place, PlaceFails, RecallDormant, RecallFromCache, RecallSearches, RecallFails
  <2>2. QED
    BY <2>1, QuietCounts
<1>4. CASE Preflight \/ CallModel \/ Submit \/ ActCrashes
  BY <1>4 DEF Preflight, CallModel, Submit, ActCrashes, backendVars
<1>5. CASE AgentExtract
  <2>1. counts' = counts \/ \E o : counts' = Tally(o)
    BY <1>5 DEF AgentExtract, ExtractTick, backendVars
  <2>2. QED
    BY <2>1, QuietCounts
<1>6. CASE AgentRewrite
  <2>1. counts' = counts \/ counts' = Bump("rewrite_successes")
    BY <1>6 DEF AgentRewrite, RewriteReplaces, RewriteFails, backendVars
  <2>2. QED
    BY <2>1, QuietCounts
<1>7. CASE AgentFinalize
  <2>1. \E o : counts' = Tally(o)
    BY <1>7 DEF AgentFinalize, Finalize
  <2>2. QED
    BY <2>1, QuietCounts
<1>8. CASE StoreLands
  BY <1>8 DEF StoreLands, LateWrite
<1>9. CASE Terminated
  BY <1>9 DEF Terminated, vars, backendVars
<1>10. QED
  BY <1>1, <1>2, <1>3, <1>4, <1>5, <1>6, <1>7, <1>8, <1>9 DEF Next, AgentStep

LEMMA CountStep ==
    ASSUME TypeOK, AgentInv, CountInv, [Next]_vars
    PROVE  CountInv'
<1> USE DEF CountInv, Attempted
<1>0. /\ nCalls \in Nat /\ callsBefore \in Nat /\ shown \in [{"all", "cached"} -> Nat]
      /\ Injected(counts) \in Nat /\ Hits(counts) \in Nat
  BY AgentAssumption DEF AgentInv, AgentTypeOK, TypeOK, Injected, Hits, Counters
<1>1. CASE AgentStart
  <2>1. counts' = [c \in Counters |-> 0] /\ pc = "start" /\ pc' \in {"set_task", "finalize"} /\ shown' = shown
    BY <1>1 DEF AgentStart, StartOk, StartFails, Reset, Goto
  <2>2. Injected(counts') = 0 /\ Hits(counts') = 0
    BY <2>1 DEF Injected, Hits, Counters
  <2>3. QED
    BY <2>1, <2>2
<1>a. ASSUME Next, ~AgentStart, ~Unplace, shown' = shown, pc # "start",
             pc \notin {"reply", "unplace"}, pc' \notin {"call", "reply", "unplace", "start"}
      PROVE  CountInv'
  BY <1>a, OnlyNotesCount
<1>b. pc # "unplace" => ~Unplace
  BY DEF Unplace
<1>c. pc # "start" => ~AgentStart
  BY DEF AgentStart
<1>2. CASE AgentSetTask \/ Prologue \/ Resume \/ Exit \/ Act \/ AgentExtract \/ AgentRewrite
  <2>1. /\ pc \notin {"start", "reply", "unplace"} /\ pc' \notin {"call", "reply", "unplace", "start"} /\ shown' = shown
    BY <1>2 DEF AgentSetTask, Prologue, Resume, Exit, Act, AgentExtract, AgentRewrite, Goto
  <2>2. QED
    BY <1>2, <1>a, <1>b, <1>c, <2>1 DEF Next, AgentStep
<1>3. CASE Submit \/ ActCrashes \/ AgentFinalize
  <2>1. /\ pc \notin {"start", "reply", "unplace"} /\ pc' \notin {"call", "reply", "unplace", "start"} /\ shown' = shown
    BY <1>3 DEF Submit, ActCrashes, AgentFinalize
  <2>2. QED
    BY <1>3, <1>a, <1>b, <1>c, <2>1 DEF Next, AgentStep
<1>4. CASE Place \/ PlaceFails
  <2>1. /\ pc = "recall" /\ pc' \in {"call", "finalize"} /\ shown' = shown
        /\ callsBefore' = nCalls /\ nCalls' = nCalls
    BY <1>4 DEF Place, PlaceFails, Goto, frame
  <2>2. Injected(counts') = Injected(counts) /\ Hits(counts') = Hits(counts)
    BY <1>4, <1>b, <1>c, <2>1, OnlyNotesCount DEF Next, AgentStep
  <2>3. QED
    BY <2>1, <2>2
<1>5. CASE Preflight
  <2>1. /\ pc = "call" /\ pc' = "unplace" /\ UNCHANGED <<shown, callsBefore, nCalls, placed, fromCache, counts>>
    BY <1>5 DEF Preflight, frame, block, backendVars
  <2>2. ~Attempted'
    BY <1>0, <2>1
  <2>3. Injected(counts') = Injected(counts) /\ Hits(counts') = Hits(counts)
    BY <2>1
  <2>4. QED
    BY <2>1, <2>2, <2>3
<1>6. CASE CallModel
  <2>1. /\ pc = "call" /\ pc' \in {"reply", "unplace"} /\ UNCHANGED <<callsBefore, placed, fromCache, counts>>
        /\ nCalls' = nCalls + 1
    BY <1>6 DEF CallModel, block, backendVars
  <2>2. Attempted'
    BY <1>0, <2>1
  <2>3. Injected(counts') = Injected(counts) /\ Hits(counts') = Hits(counts)
    BY <2>1
  <2>4. /\ shown'["all"] = IF placed # {} THEN shown["all"] + 1 ELSE shown["all"]
        /\ shown'["cached"] = IF placed # {} /\ fromCache THEN shown["cached"] + 1 ELSE shown["cached"]
    BY <1>0, <1>6 DEF CallModel
  <2>5. shown["all"] = Injected(counts) /\ shown["cached"] = Hits(counts)
    BY <1>0, <2>1
  <2>6. CASE placed = {}
    BY <1>0, <2>1, <2>3, <2>4, <2>5, <2>6
  <2>7. CASE placed # {} /\ fromCache
    BY <1>0, <2>1, <2>2, <2>3, <2>4, <2>5, <2>7
  <2>8. CASE placed # {} /\ ~fromCache
    BY <1>0, <2>1, <2>2, <2>3, <2>4, <2>5, <2>8
  <2>9. QED
    BY <2>6, <2>7, <2>8
<1>7. CASE AddReply
  <2>1. /\ pc = "reply" /\ pc' = "unplace" /\ UNCHANGED <<shown, nCalls, placed, fromCache, callsBefore>>
    BY <1>7 DEF AddReply, block
  <2>2. Injected(counts') = Injected(counts) /\ Hits(counts') = Hits(counts)
    BY <1>7, <1>b, <1>c, <2>1, OnlyNotesCount DEF Next, AgentStep
  <2>3. QED
    BY <2>1, <2>2
<1>8. CASE Unplace
  <2>1. /\ pc = "unplace" /\ placed' = {} /\ shown' = shown /\ pc' \in {"act", "resume", "exit", "finalize"}
    BY <1>8 DEF Unplace
  <2>2. CASE placed # {} /\ Attempted
    <3>1. NoteRecall(fromCache)
      BY <1>8, <2>2 DEF Unplace
    <3>2. /\ Injected(counts') = Injected(counts) + 1
          /\ Hits(counts') = IF fromCache THEN Hits(counts) + 1 ELSE Hits(counts)
      BY <3>1 DEF NoteRecall, TypeOK, Injected, Hits, Counters
    <3>3. shown["all"] = Injected(counts) + 1 /\ shown["cached"] = Hits(counts) + IF fromCache THEN 1 ELSE 0
      BY <2>1, <2>2
    <3>4. QED
      BY <1>0, <2>1, <3>2, <3>3
  <2>3. CASE ~(placed # {} /\ Attempted)
    <3>1. counts' = counts
      BY <1>8, <2>3 DEF Unplace, backendVars
    <3>2. QED
      BY <1>0, <2>1, <2>3, <3>1
  <2>4. QED
    BY <2>2, <2>3
<1>9. CASE StoreLands
  BY <1>9 DEF StoreLands, LateWrite, agentVars
<1>10. CASE UNCHANGED vars
  BY <1>10 DEF vars, backendVars, agentVars
<1>11. QED
  BY <1>1, <1>2, <1>3, <1>4, <1>5, <1>6, <1>7, <1>8, <1>9, <1>10 DEF Next, AgentStep, Terminated

\* The counters tell what the model saw: one injection per model call attempted
\* with a block in its prompt, none for a query a limit stopped before its call.
THEOREM InjectionsAreCounted == Spec => []InjectionsCounted
<1>1. Init => CountInv
  <2>1. Init => Injected(counts) = 0 /\ Hits(counts) = 0
    BY DEF Init, BackendInit, Injected, Hits, Counters
  <2>2. QED
    BY <2>1 DEF Init, CountInv, Attempted
<1>2. TypeOK /\ AgentInv /\ CountInv /\ [Next]_vars => CountInv'
  BY CountStep
<1>3. TypeOK /\ AgentInv /\ CountInv => InjectionsCounted
  <2> SUFFICES ASSUME TypeOK, CountInv PROVE InjectionsCounted
    OBVIOUS
  <2>1. counts["recall_injections"] \in Nat /\ counts["recall_cache_hits"] \in Nat
    BY DEF TypeOK, Counters
  <2>2. QED
    BY <2>1 DEF CountInv, InjectionsCounted, Injected, Hits
<1>4. QED
  BY <1>1, <1>2, <1>3, RunInvariant, PTL DEF Spec

\* A search beyond the first has been paid for, and a set dirty flag is a search to come.
Paid(c)   == c["extraction_calls"] + c["rewrite_successes"] + c["recall_failures"]
SearchInv ==
    /\ pc \in {"start", "set_task"} => dirty = TRUE
    /\ counts["search_calls"] + (IF dirty THEN 1 ELSE 0) <= Paid(counts) + 1

LEMMA TallyIs ==
    ASSUME TypeOK, NEW o \in Outcome
    PROVE  /\ Tally(o)["search_calls"] = counts["search_calls"]
           /\ Paid(Tally(o)) = Paid(counts) + IF o.counted THEN 1 ELSE 0
<1>1. counts \in [Counters -> Nat] /\ o.counted \in BOOLEAN
  BY DEF TypeOK, Outcome
<1>2. /\ Tally(o)["search_calls"] = counts["search_calls"]
      /\ Tally(o)["rewrite_successes"] = counts["rewrite_successes"]
      /\ Tally(o)["recall_failures"] = counts["recall_failures"]
      /\ Tally(o)["extraction_calls"] = counts["extraction_calls"] + IF o.counted THEN 1 ELSE 0
  BY <1>1 DEF Tally, Counters
<1>3. QED
  BY <1>1, <1>2 DEF Paid, Counters

LEMMA ExtractPays ==
    ASSUME TypeOK, SearchInv, NEW o \in Outcome, Extract(o), counts' = Tally(o)
    PROVE  counts'["search_calls"] + (IF dirty' THEN 1 ELSE 0) <= Paid(counts') + 1
<1>1. counts["search_calls"] \in Nat /\ Paid(counts) \in Nat /\ dirty \in BOOLEAN
  BY DEF TypeOK, Paid, Counters
<1>2. counts'["search_calls"] = counts["search_calls"] /\ Paid(counts') = Paid(counts) + IF o.counted THEN 1 ELSE 0
  BY TallyIs
<1>3. o.counted = TRUE \/ (o.counted = FALSE /\ dirty' = dirty)
  <2>1. o.counted \in BOOLEAN /\ dirty' = (dirty \/ o.counted)
    BY DEF Outcome, Extract, MarksStoreChanged
  <2>2. QED
    BY <1>1, <2>1, Zenon
<1>4. QED
  BY <1>1, <1>2, <1>3 DEF SearchInv

LEMMA SearchStep ==
    ASSUME TypeOK, AgentInv, SearchInv, [Next]_vars
    PROVE  SearchInv'
<1>0. /\ counts \in [Counters -> Nat] /\ dirty \in BOOLEAN
      /\ counts["search_calls"] \in Nat /\ Paid(counts) \in Nat
  BY DEF TypeOK, Paid, Counters
<1>a. ASSUME UNCHANGED <<counts, dirty>>, pc' \notin {"start", "set_task"}
      PROVE  SearchInv'
  BY <1>a DEF SearchInv
<1>1. CASE AgentStart
  <2>1. counts' = [c \in Counters |-> 0] /\ dirty' = TRUE
    BY <1>1 DEF AgentStart, StartOk, StartFails, Reset
  <2>2. counts'["search_calls"] = 0 /\ Paid(counts') = 0
    BY <2>1 DEF Paid, Counters
  <2>3. QED
    BY <2>1, <2>2 DEF SearchInv
<1>2. CASE AgentSetTask
  <2>1. pc = "set_task" /\ dirty' = TRUE /\ counts' = counts
    BY <1>2 DEF AgentSetTask, SetTask
  <2>2. QED
    BY <2>1 DEF SearchInv
<1>3. CASE Prologue \/ AddReply \/ Act \/ Resume \/ Exit
  <2>1. \E raises \in BOOLEAN : AddMessage(raises)
    BY <1>3 DEF Prologue, AddReply, Act, Resume, Exit
  <2>2. UNCHANGED <<counts, dirty>>
    BY <2>1 DEF AddMessage, RecordStores, RecordSkips, RecordFails, backendVars, cache
  <2>3. pc' \notin {"start", "set_task"}
    BY <1>3 DEF Prologue, AddReply, Act, Resume, Exit, Goto
  <2>4. QED
    BY <1>a, <2>2, <2>3
<1>4. CASE Place \/ PlaceFails
  <2>1. pc' \notin {"start", "set_task"}
    BY <1>4 DEF Place, PlaceFails, Goto
  <2>2. CASE RecallDormant \/ RecallFromCache
    BY <1>a, <2>1, <2>2 DEF RecallDormant, RecallFromCache, cache
  <2>3. CASE RecallSearches
    <3>1. dirty = TRUE /\ dirty' = FALSE /\ counts' = Bump("search_calls")
      BY <1>0, <2>3 DEF RecallSearches
    <3>2. counts'["search_calls"] = counts["search_calls"] + 1 /\ Paid(counts') = Paid(counts)
      BY <1>0, <3>1 DEF Bump, Paid, Counters
    <3>3. QED
      BY <1>0, <2>1, <3>1, <3>2 DEF SearchInv
  <2>4. CASE RecallFails
    <3>1. dirty' = dirty /\ counts' = [counts EXCEPT !["search_calls"] = @ + 1, !["recall_failures"] = @ + 1]
      BY <2>4 DEF RecallFails, cache
    <3>2. counts'["search_calls"] = counts["search_calls"] + 1 /\ Paid(counts') = Paid(counts) + 1
      BY <1>0, <3>1 DEF Paid, Counters
    <3>3. QED
      BY <1>0, <2>1, <3>1, <3>2 DEF SearchInv
  <2>5. QED
    BY <1>4, <2>2, <2>3, <2>4 DEF Place, PlaceFails
<1>5. CASE Preflight \/ CallModel \/ Submit \/ ActCrashes
  BY <1>5, <1>a DEF Preflight, CallModel, Submit, ActCrashes, backendVars
<1>6. CASE Unplace
  <2>1. pc' \notin {"start", "set_task"}
    BY <1>6 DEF Unplace
  <2>2. CASE NoteRecall(fromCache)
    <3>1. dirty' = dirty /\ counts'["search_calls"] = counts["search_calls"] /\ Paid(counts') = Paid(counts)
      BY <1>0, <2>2 DEF NoteRecall, cache, Paid, Counters
    <3>2. QED
      BY <2>1, <3>1 DEF SearchInv
  <2>3. CASE UNCHANGED backendVars
    BY <1>a, <2>1, <2>3 DEF backendVars
  <2>4. QED
    BY <1>6, <2>2, <2>3 DEF Unplace
<1>7. CASE AgentExtract
  <2>1. pc' \notin {"start", "set_task"}
    BY <1>7 DEF AgentExtract, Goto
  <2>2. CASE UNCHANGED backendVars
    BY <1>a, <2>1, <2>2 DEF backendVars
  <2>3. ASSUME NEW o \in Outcomes(FALSE), ExtractTick(nCalls, o)
        PROVE  SearchInv'
    BY <2>1, <2>3, OutcomeType, ExtractPays DEF ExtractTick, SearchInv
  <2>4. QED
    BY <1>7, <2>2, <2>3 DEF AgentExtract
<1>8. CASE AgentRewrite
  <2>1. pc' \notin {"start", "set_task"}
    BY <1>8 DEF AgentRewrite, Goto
  <2>2. CASE UNCHANGED <<counts, dirty>>
    BY <1>a, <2>1, <2>2
  <2>3. CASE RewriteReplaces(nCalls)
    <3>1. dirty' = TRUE /\ counts' = Bump("rewrite_successes")
      BY <2>3 DEF RewriteReplaces
    <3>2. counts'["search_calls"] = counts["search_calls"] /\ Paid(counts') = Paid(counts) + 1
      BY <1>0, <3>1 DEF Bump, Paid, Counters
    <3>3. QED
      BY <1>0, <2>1, <3>1, <3>2 DEF SearchInv
  <2>4. QED
    BY <1>8, <2>2, <2>3 DEF AgentRewrite, RewriteFails, cache, backendVars
<1>9. CASE AgentFinalize
  <2>1. pc' \notin {"start", "set_task"}
    BY <1>9 DEF AgentFinalize
  <2>2. PICK o \in FlushOutcomes : Extract(o) /\ counts' = Tally(o)
    BY <1>9 DEF AgentFinalize, Finalize
  <2>3. QED
    BY <2>1, <2>2, FlushType, ExtractPays DEF SearchInv
<1>10. CASE StoreLands
  BY <1>10 DEF StoreLands, LateWrite, agentVars, cache, SearchInv
<1>11. CASE UNCHANGED vars
  BY <1>11 DEF vars, backendVars, agentVars, SearchInv
<1>12. QED
  BY <1>1, <1>2, <1>3, <1>4, <1>5, <1>6, <1>7, <1>8, <1>9, <1>10, <1>11 DEF Next, AgentStep, Terminated

\* What the dirty flag buys: a run searches once, and again only for a counted
\* extraction, a replaced query or a recall that failed.
THEOREM SearchesAreBounded == Spec => []SearchesBounded
<1>1. Init => SearchInv
  <2>1. Init => counts["search_calls"] = 0 /\ Paid(counts) = 0
    BY DEF Init, BackendInit, Paid, Counters
  <2>2. QED
    BY <2>1 DEF Init, BackendInit, SearchInv
<1>2. TypeOK /\ AgentInv /\ SearchInv /\ [Next]_vars => SearchInv'
  BY SearchStep
<1>3. TypeOK /\ SearchInv => SearchesBounded
  <2> SUFFICES ASSUME TypeOK, SearchInv PROVE SearchesBounded
    OBVIOUS
  <2>1. \A c \in Counters : counts[c] \in Nat
    BY DEF TypeOK
  <2>2. QED
    BY <2>1 DEF SearchInv, SearchesBounded, Paid, Counters
<1>4. QED
  BY <1>1, <1>2, <1>3, RunInvariant, PTL DEF Spec

-----------------------------------------------------------------------------
(* The loop.                                                               *)

\* What a sequence is without the block, from what its prefixes are.
LEMMA UnmarkedIs ==
    ASSUME NEW seq \in Seq(Nat), NEW f, f[0] = <<>>,
           \A n \in 1..Len(seq) : f[n] = IF seq[n] = Marker THEN f[n - 1] ELSE Append(f[n - 1], seq[n])
    PROVE  Unmarked(seq) = f[Len(seq)]
<1> DEFINE body(g, n) == IF n = 0 THEN <<>>
                         ELSE IF seq[n] = Marker THEN g[n - 1] ELSE Append(g[n - 1], seq[n])
           h == [n \in 0..Len(seq) |-> f[n]]
           rest == CHOOSE g : g = [n \in 0..Len(seq) |-> body(g, n)]
<1>1. Len(seq) \in Nat
  OBVIOUS
<1>2. h = [n \in 0..Len(seq) |-> body(h, n)]
  <2>1. \A n \in 0..Len(seq) : f[n] = body(h, n)
    <3> SUFFICES ASSUME NEW n \in 0..Len(seq) PROVE f[n] = body(h, n)
      OBVIOUS
    <3>1. CASE n = 0
      BY <3>1
    <3>2. CASE n # 0
      <4>1. n \in 1..Len(seq) /\ n - 1 \in 0..Len(seq)
        BY <1>1, <3>2
      <4>2. h[n - 1] = f[n - 1]
        BY <4>1
      <4>3. QED
        BY <4>1, <4>2
    <3>3. QED
      BY <3>1, <3>2
  <2>2. QED
    BY <2>1, Zenon
<1>3. rest = [n \in 0..Len(seq) |-> body(rest, n)]
  <2> HIDE DEF h
  <2>1. \E g : g = [n \in 0..Len(seq) |-> body(g, n)]
    BY <1>2
  <2> QED
    BY <2>1, Zenon
<1>4. Unmarked(seq) = rest[Len(seq)]
  BY DEF Unmarked
<1> HIDE DEF rest
<1>5. \A n \in 0..Len(seq) : rest[n] = f[n]
  <2> DEFINE T == {n \in 0..Len(seq) : rest[n] = f[n]}
  <2>1. 0 \in T
    BY <1>1, <1>3
  <2>2. ASSUME NEW n \in 0..(Len(seq) - 1), n \in T
        PROVE  n + 1 \in T
    <3>1. n + 1 \in 0..Len(seq) /\ n + 1 \in 1..Len(seq) /\ n + 1 # 0 /\ (n + 1) - 1 = n
      BY <1>1
    <3>2. rest[n + 1] = body(rest, n + 1)
      BY <1>3, <3>1
    <3>3. body(rest, n + 1) = IF seq[n + 1] = Marker THEN f[n] ELSE Append(f[n], seq[n + 1])
      BY <2>2, <3>1
    <3>4. QED
      BY <3>1, <3>2, <3>3
  <2> HIDE DEF T
  <2>3. \A n \in 0..Len(seq) : n \in T
    BY <1>1, <2>1, <2>2, UpToInduction
  <2>4. QED
    BY <2>3 DEF T
<1>6. QED
  BY <1>1, <1>4, <1>5

LEMMA UnmarkedAre ==
    ASSUME NEW n \in Nat
    PROVE  /\ Unmarked(Plain(n)) = Plain(n)
           /\ \A p \in 1..(n + 1) : Unmarked(Holding(n, p)) = Plain(n)
<1>0. Plain(0) = <<>>
  BY PlainIs
<1>1. Unmarked(Plain(n)) = Plain(n)
  <2> DEFINE f == [k \in 0..n |-> Plain(k)]
  <2>1. Plain(n) \in Seq(Nat) /\ Len(Plain(n)) = n /\ \A k \in 1..n : Plain(n)[k] = k
    BY PlainIs
  <2>2. f[0] = <<>> /\ f[n] = Plain(n)
    BY <1>0
  <2>3. ASSUME NEW k \in 1..n
        PROVE  f[k] = IF Plain(n)[k] = Marker THEN f[k - 1] ELSE Append(f[k - 1], Plain(n)[k])
    <3>1. k - 1 \in Nat /\ k - 1 \in 0..n /\ (k - 1) + 1 = k /\ k # Marker
      BY DEF Marker
    <3>2. Append(Plain(k - 1), (k - 1) + 1) = Plain((k - 1) + 1)
      BY <3>1, PlainGrows
    <3>3. f[k] = Plain(k) /\ f[k - 1] = Plain(k - 1)
      BY <3>1
    <3>4. Plain(n)[k] = k
      BY <2>1
    <3> HIDE DEF f
    <3>5. QED
      BY <3>1, <3>2, <3>3, <3>4
  <2> HIDE DEF f
  <2>4. QED
    BY <2>1, <2>2, <2>3, UnmarkedIs
<1>2. ASSUME NEW p \in 1..(n + 1)
      PROVE  Unmarked(Holding(n, p)) = Plain(n)
  <2> DEFINE f == [k \in 0..(n + 1) |-> IF k < p THEN Plain(k) ELSE Plain(k - 1)]
  <2>1. /\ Holding(n, p) \in Seq(Nat) /\ Len(Holding(n, p)) = n + 1
        /\ \A k \in 1..(n + 1) : Holding(n, p)[k] = IF k < p THEN k ELSE IF k = p THEN Marker ELSE k - 1
    BY HoldingIs
  <2>2. f[0] = <<>> /\ f[n + 1] = Plain(n)
    BY <1>0
  <2>3. ASSUME NEW k \in 1..(n + 1)
        PROVE  f[k] = IF Holding(n, p)[k] = Marker THEN f[k - 1] ELSE Append(f[k - 1], Holding(n, p)[k])
    <3>1. k - 1 \in Nat /\ k - 1 \in 0..(n + 1) /\ (k - 1) + 1 = k /\ k # Marker
      BY DEF Marker
    <3>2. CASE k < p
      <4>1. f[k] = Plain(k) /\ f[k - 1] = Plain(k - 1) /\ Holding(n, p)[k] = k
        BY <2>1, <3>1, <3>2
      <4>2. Append(Plain(k - 1), (k - 1) + 1) = Plain((k - 1) + 1)
        BY <3>1, PlainGrows
      <4> HIDE DEF f
      <4>3. QED
        BY <3>1, <4>1, <4>2
    <3>3. CASE k = p
      <4>1. f[k] = Plain(k - 1) /\ f[k - 1] = Plain(k - 1) /\ Holding(n, p)[k] = Marker
        BY <2>1, <3>1, <3>3
      <4> HIDE DEF f
      <4>2. QED
        BY <4>1
    <3>4. CASE k > p
      <4>1. k - 2 \in Nat /\ (k - 2) + 1 = k - 1 /\ (k - 1) - 1 = k - 2 /\ k - 1 # Marker /\ ~(k - 1 < p) /\ ~(k < p) /\ k # p
        BY <3>4 DEF Marker
      <4>2. f[k] = Plain(k - 1) /\ f[k - 1] = Plain(k - 2) /\ Holding(n, p)[k] = k - 1
        BY <2>1, <3>1, <4>1
      <4>3. Append(Plain(k - 2), (k - 2) + 1) = Plain((k - 2) + 1)
        BY <4>1, PlainGrows
      <4> HIDE DEF f
      <4>4. QED
        BY <4>1, <4>2, <4>3
    <3>5. QED
      BY <3>2, <3>3, <3>4
  <2> HIDE DEF f
  <2>4. QED
    BY <2>1, <2>2, <2>3, UnmarkedIs
<1>3. QED
  BY <1>1, <1>2

\* Why a run leaves: only a strict one does for a memory failure, and until it
\* leaves no error is pending.
LeaveInv ==
    /\ pc \notin {"finalize", "done"} => primary = "none"
    /\ pc = "unplace" => result # "none"
    /\ primary = "memory" \/ (pc = "unplace" /\ result = "memory") => strict

LEMMA AddRaises ==
    ASSUME NEW raises \in BOOLEAN, AddMessage(raises), raises
    PROVE  strict
BY DEF AddMessage

LEMMA LeaveStep ==
    ASSUME AgentInv, LeaveInv, [Next]_vars
    PROVE  LeaveInv'
<1> USE DEF LeaveInv
<1>0. strict \in BOOLEAN
  BY DEF AgentInv, AgentTypeOK
<1>1. CASE AgentStart \/ AgentSetTask
  BY <1>1 DEF AgentStart, AgentSetTask, Goto
<1>2. CASE Prologue \/ Resume \/ Exit \/ Act
  <2>1. PICK raises \in BOOLEAN : AddMessage(raises) /\ \E next \in {"recall", "finalize", "extract"} : Goto(next, raises)
    BY <1>2 DEF Prologue, Resume, Exit, Act
  <2>2. strict' = strict /\ result' = result /\ pc \notin {"finalize", "done"}
    BY <1>2 DEF Prologue, Resume, Exit, Act
  <2>3. pc' \in {"recall", "finalize", "extract"} /\ primary' = IF raises THEN "memory" ELSE primary
    BY <2>1 DEF Goto
  <2>4. raises => strict /\ pc' = "finalize"
    BY <2>1, AddRaises DEF Goto
  <2>5. QED
    BY <2>2, <2>3, <2>4
<1>3. CASE Place \/ PlaceFails
  <2>1. pc = "recall" /\ strict' = strict /\ result' = result
    BY <1>3 DEF Place, PlaceFails
  <2>2. Goto("call", FALSE) \/ Goto("call", strict)
    BY <1>3 DEF Place, PlaceFails
  <2>3. QED
    BY <1>0, <2>1, <2>2 DEF Goto
<1>4. CASE Preflight \/ CallModel
  BY <1>4 DEF Preflight, CallModel, exits
<1>5. CASE AddReply
  <2>1. PICK raises \in BOOLEAN : AddMessage(raises) /\ result' = IF raises THEN "memory" ELSE result
    BY <1>5 DEF AddReply
  <2>2. /\ pc = "reply" /\ pc' = "unplace" /\ result = "reply" /\ UNCHANGED <<strict, primary>>
    BY <1>5 DEF AddReply, exits, AgentInv, Paced
  <2>3. raises => strict
    BY <2>1, AddRaises
  <2>4. QED
    BY <2>1, <2>2, <2>3
<1>6. CASE Unplace
  <2>1. /\ pc = "unplace" /\ result' = "none" /\ strict' = strict /\ primary = "none"
        /\ primary' = CASE result = "crash"  -> "agent"
                        [] result = "memory" -> "memory"
                        [] OTHER             -> primary
        /\ pc' = CASE result = "reply"     -> "act"
                   [] result = "interrupt" -> "resume"
                   [] result = "limit"     -> "exit"
                   [] OTHER                -> "finalize"
    BY <1>6 DEF Unplace
  <2>2. CASE result \in {"reply", "interrupt", "limit"}
    BY <2>1, <2>2
  <2>3. CASE result \notin {"reply", "interrupt", "limit"}
    BY <2>1, <2>3
  <2>4. QED
    BY <2>2, <2>3
<1>7. CASE Submit \/ ActCrashes
  BY <1>7 DEF Submit, ActCrashes, exits
<1>8. CASE AgentExtract \/ AgentRewrite
  <2>1. /\ pc \in {"extract", "rewrite"} /\ strict' = strict /\ result' = result
        /\ \E next \in {"rewrite", "recall"}, raises \in BOOLEAN : (raises => strict) /\ Goto(next, raises)
    <3>1. CASE AgentExtract
      <4>1. pc = "extract" /\ strict' = strict /\ result' = result
        BY <3>1 DEF AgentExtract
      <4>2. Goto("rewrite", FALSE) \/ \E o \in Outcomes(FALSE) : Goto("rewrite", strict /\ o.failure = "hard")
        BY <3>1 DEF AgentExtract
      <4>3. CASE \E o \in Outcomes(FALSE) : Goto("rewrite", strict /\ o.failure = "hard")
        <5>1. PICK o \in Outcomes(FALSE) : Goto("rewrite", strict /\ o.failure = "hard")
          BY <4>3
        <5>2. CASE strict /\ o.failure = "hard"
          BY <4>1, <5>1, <5>2 DEF Goto
        <5>3. CASE ~(strict /\ o.failure = "hard")
          BY <4>1, <5>1, <5>3 DEF Goto
        <5>4. QED
          BY <5>2, <5>3
      <4>4. QED
        BY <4>1, <4>2, <4>3
    <3>2. CASE AgentRewrite
      <4>1. pc = "rewrite" /\ strict' = strict /\ result' = result
        BY <3>2 DEF AgentRewrite
      <4>2. Goto("recall", FALSE) \/ \E unexpected \in BOOLEAN : Goto("recall", strict /\ unexpected)
        BY <3>2 DEF AgentRewrite
      <4>3. QED
        BY <1>0, <4>1, <4>2
    <3>3. QED
      BY <1>8, <3>1, <3>2
  <2>2. QED
    BY <2>1 DEF Goto
<1>9. CASE AgentFinalize
  BY <1>9 DEF AgentFinalize
<1>10. CASE StoreLands
  BY <1>10 DEF StoreLands, agentVars
<1>11. CASE UNCHANGED vars
  BY <1>11 DEF vars, agentVars
<1>12. QED
  BY <1>1, <1>2, <1>3, <1>4, <1>5, <1>6, <1>7, <1>8, <1>9, <1>10, <1>11 DEF Next, AgentStep, Terminated

LEMMA TrajectoryShown ==
    ASSUME AgentInv, AgentInv', TrajectoryInv, TrajectoryInv'
    PROVE  /\ nAdded' = nAdded => Unmarked(messages)' = Unmarked(messages)
           /\ nAdded' = nAdded + 1 => Loop!Add
<1>1. nAdded \in Nat /\ nAdded' \in Nat
  BY DEF AgentInv, AgentTypeOK
<1>2. Unmarked(messages) = Plain(nAdded)
  BY <1>1, UnmarkedAre DEF TrajectoryInv
<1>3. Unmarked(messages') = Plain(nAdded')
  BY <1>1, UnmarkedAre DEF TrajectoryInv
<1>4. Unmarked(messages)' = Unmarked(messages')
  BY DEF Unmarked
<1>5. nAdded' = nAdded + 1 => Plain(nAdded') = Append(Plain(nAdded), Len(Plain(nAdded)) + 1)
  BY <1>1, PlainIs, PlainGrows
<1>6. QED
  BY <1>2, <1>3, <1>4, <1>5 DEF Loop!Add

LEMMA LoopStep ==
    ASSUME AgentInv, AgentInv', LeaveInv, TrajectoryInv, TrajectoryInv', [Next]_vars
    PROVE  [Loop!Next]_(Loop!vars)
<1> DEFINE seen == Unmarked(messages)
           phase == LoopPhase
<1> USE DEF LoopPhase, Loop!Next
<1>0. strict \in BOOLEAN /\ nAdded \in Nat /\ nCalls \in Nat
  BY DEF AgentInv, AgentTypeOK
<1>a. ASSUME phase' = phase, UNCHANGED <<strict, nCalls, nAdded, outcome>>
      PROVE  UNCHANGED Loop!vars
  BY <1>a, TrajectoryShown DEF Loop!vars
<1>b. ASSUME strict, phase \notin {"leave", "crash", "done"}, phase' = "leave", nAdded' \in {nAdded, nAdded + 1},
             UNCHANGED <<strict, nCalls, outcome>>
      PROVE  Loop!MemoryRaises
  BY <1>b, TrajectoryShown DEF Loop!MemoryRaises
<1>1. CASE AgentStart
  <2>1. pc = "start" /\ phase = "begin" /\ UNCHANGED <<strict, nCalls, nAdded>>
    BY <1>1 DEF AgentStart, frame
  <2>2. Goto("set_task", FALSE) \/ Goto("set_task", strict)
    BY <1>1 DEF AgentStart
  <2>3. CASE pc' = "set_task" /\ outcome' = outcome
    BY <2>1, <2>3, <1>a
  <2>4. CASE pc' = "finalize" /\ strict /\ primary' = "memory" /\ outcome' = outcome
    BY <2>1, <2>4, <1>b
  <2>5. QED
    BY <1>0, <2>2, <2>3, <2>4 DEF Goto
<1>2. CASE AgentSetTask
  <2>1. pc = "set_task" /\ pc' = "prologue" /\ UNCHANGED <<strict, nCalls, nAdded, outcome>>
    BY <1>2 DEF AgentSetTask, frame, Goto
  <2>2. QED
    BY <1>a, <2>1
<1>c. ASSUME pc \in {"prologue", "reply", "act", "resume", "exit"}, NEW raises \in BOOLEAN, AddMessage(raises)
      PROVE  Loop!Add /\ nAdded' = nAdded + 1 /\ (raises => strict)
  BY <1>c, AddCallsRecord, TrajectoryShown, AddRaises
<1>3. CASE Prologue \/ Resume
  <2>1. PICK raises \in BOOLEAN : AddMessage(raises) /\ Goto("recall", raises)
    BY <1>3 DEF Prologue, Resume
  <2>2. pc \in {"prologue", "resume"} /\ UNCHANGED <<strict, nCalls, outcome>>
    BY <1>3, <2>1 DEF Prologue, Resume, Goto
  <2>3. Loop!Add /\ nAdded' = nAdded + 1 /\ (raises => strict)
    BY <1>c, <2>1, <2>2
  <2>4. phase \in {"begin", "resume"}
    BY <2>2
  <2>5. CASE raises
    <3>1. phase' = "leave"
      BY <2>1, <2>5 DEF Goto
    <3>2. QED
      BY <1>b, <2>2, <2>3, <2>4, <2>5, <3>1
  <2>6. CASE ~raises
    <3>1. phase' = "query"
      BY <2>1, <2>6 DEF Goto
    <3>2. QED
      BY <2>2, <2>3, <2>4, <3>1 DEF Loop!Begin, Loop!Resume, Loop!Adds
  <2>7. QED
    BY <2>5, <2>6
<1>4. CASE Exit
  <2>1. PICK raises \in BOOLEAN : AddMessage(raises) /\ Goto("finalize", raises)
    BY <1>4 DEF Exit
  <2>2. pc = "exit" /\ UNCHANGED <<strict, nCalls, outcome>>
    BY <1>4, <2>1 DEF Exit, Goto
  <2>3. Loop!Add
    BY <1>c, <2>1, <2>2
  <2>4. phase = "exit" /\ phase' = "leave"
    BY <2>1, <2>2 DEF Goto, LeaveInv
  <2>5. QED
    BY <2>2, <2>3, <2>4 DEF Loop!Exit, Loop!Adds
<1>5. CASE Act
  <2>1. PICK raises \in BOOLEAN : AddMessage(raises) /\ Goto("extract", raises)
    BY <1>5 DEF Act
  <2>2. pc = "act" /\ UNCHANGED <<strict, nCalls, outcome>>
    BY <1>5, <2>1 DEF Act, Goto
  <2>3. Loop!Add /\ nAdded' = nAdded + 1 /\ (raises => strict)
    BY <1>c, <2>1, <2>2
  <2>4. CASE raises
    <3>1. phase = "act" /\ phase' = "leave"
      BY <2>1, <2>2, <2>4 DEF Goto
    <3>2. QED
      BY <1>b, <2>2, <2>3, <2>4, <3>1
  <2>5. CASE ~raises
    <3>1. phase = "act" /\ phase' = "query"
      BY <2>1, <2>2, <2>5 DEF Goto
    <3>2. QED
      BY <2>2, <2>3, <3>1 DEF Loop!Act, Loop!Adds
  <2>6. QED
    BY <2>4, <2>5
<1>6. CASE Place \/ PlaceFails
  <2>1. pc = "recall" /\ phase = "query" /\ UNCHANGED <<strict, nCalls, nAdded>>
    BY <1>6 DEF Place, PlaceFails, frame
  <2>2. Goto("call", FALSE) \/ Goto("call", strict)
    BY <1>6 DEF Place, PlaceFails
  <2>3. CASE pc' = "call" /\ outcome' = outcome
    BY <2>1, <2>3, <1>a
  <2>4. CASE pc' = "finalize" /\ strict /\ primary' = "memory" /\ outcome' = outcome
    BY <2>1, <2>4, <1>b
  <2>5. QED
    BY <1>0, <2>2, <2>3, <2>4 DEF Goto
<1>7. CASE Preflight
  <2>1. pc = "call" /\ pc' = "unplace" /\ result' = "limit" /\ UNCHANGED <<strict, nCalls, nAdded, outcome>>
    BY <1>7 DEF Preflight, frame, exits
  <2>2. phase = "query" /\ phase' = "exit"
    BY <2>1
  <2>3. QED
    BY <2>1, <2>2, TrajectoryShown DEF Loop!Limit
<1>8. CASE CallModel
  <2>1. /\ pc = "call" /\ nCalls < StepLimit /\ nCalls' = nCalls + 1 /\ UNCHANGED <<strict, nAdded, outcome>>
        /\ result' \in {"reply", "interrupt", "crash"} /\ pc' = IF result' = "reply" THEN "reply" ELSE "unplace"
    BY <1>8 DEF CallModel, WithinLimit, exits
  <2>2. phase = "query" /\ phase' \in {"reply", "resume", "crash"}
    BY <2>1
  <2>3. QED
    BY <2>1, <2>2, TrajectoryShown DEF Loop!Call
<1>9. CASE AddReply
  <2>1. PICK raises \in BOOLEAN : AddMessage(raises) /\ result' = IF raises THEN "memory" ELSE result
    BY <1>9 DEF AddReply
  <2>2. pc = "reply" /\ result = "reply" /\ pc' = "unplace" /\ UNCHANGED <<strict, nCalls, outcome>>
    BY <1>9 DEF AddReply, exits, AgentInv, Paced
  <2>3. Loop!Add /\ nAdded' = nAdded + 1 /\ (raises => strict)
    BY <1>c, <2>1, <2>2
  <2>4. CASE raises
    <3>1. phase = "reply" /\ phase' = "leave"
      BY <2>1, <2>2, <2>4
    <3>2. QED
      BY <1>b, <2>2, <2>3, <2>4, <3>1
  <2>5. CASE ~raises
    <3>1. phase = "reply" /\ phase' = "act"
      BY <2>1, <2>2, <2>5
    <3>2. QED
      BY <2>2, <2>3, <3>1 DEF Loop!Reply, Loop!Adds
  <2>6. QED
    BY <2>4, <2>5
<1>10. CASE Unplace
  <2>1. /\ pc = "unplace" /\ primary = "none"
        /\ UNCHANGED <<strict, nCalls, nAdded, outcome>>
        /\ primary' = CASE result = "crash"  -> "agent"
                        [] result = "memory" -> "memory"
                        [] OTHER             -> primary
        /\ pc' = CASE result = "reply"     -> "act"
                   [] result = "interrupt" -> "resume"
                   [] result = "limit"     -> "exit"
                   [] OTHER                -> "finalize"
    BY <1>10 DEF Unplace, LeaveInv
  <2>2. CASE result \in {"reply", "interrupt", "limit"}
    BY <1>a, <2>1, <2>2
  <2>3. CASE result \notin {"reply", "interrupt", "limit"}
    <3>1. pc' = "finalize" /\ primary' = IF result = "crash" THEN "agent" ELSE IF result = "memory" THEN "memory" ELSE "none"
      BY <2>1, <2>3
    <3>2. phase = IF result = "crash" THEN "crash" ELSE "leave"
      BY <2>1, <2>3
    <3>3. phase' = IF result = "crash" THEN "crash" ELSE "leave"
      BY <3>1
    <3>4. QED
      BY <1>a, <2>1, <3>2, <3>3
  <2>4. QED
    BY <2>2, <2>3
<1>11. CASE Submit \/ ActCrashes
  <2>1. pc = "act" /\ pc' \in {"exit", "finalize"} /\ UNCHANGED <<strict, nCalls, nAdded, outcome>>
        /\ (pc' = "finalize" => primary' = "agent")
    BY <1>11 DEF Submit, ActCrashes, frame, exits
  <2>2. phase = "act" /\ phase' \in {"exit", "crash"}
    BY <2>1
  <2>3. QED
    BY <2>1, <2>2, TrajectoryShown DEF Loop!ActEnds
<1>12. CASE AgentExtract \/ AgentRewrite
  <2>1. /\ pc \in {"extract", "rewrite"} /\ UNCHANGED <<strict, nCalls, nAdded>>
    BY <1>12 DEF AgentExtract, AgentRewrite, frame
  <2>2. outcome' = outcome /\ (pc' \in {"rewrite", "recall"} \/ (pc' = "finalize" /\ primary' = "memory" /\ strict))
    <3>1. CASE AgentExtract
      <4>1. CASE Goto("rewrite", FALSE)
        BY <4>1 DEF Goto
      <4>2. CASE \E o \in Outcomes(FALSE) : Goto("rewrite", strict /\ o.failure = "hard")
        <5>1. PICK o \in Outcomes(FALSE) : Goto("rewrite", strict /\ o.failure = "hard")
          BY <4>2
        <5>2. CASE strict /\ o.failure = "hard"
          BY <5>1, <5>2 DEF Goto
        <5>3. CASE ~(strict /\ o.failure = "hard")
          BY <5>1, <5>3 DEF Goto
        <5>4. QED
          BY <5>2, <5>3
      <4>3. QED
        BY <3>1, <4>1, <4>2 DEF AgentExtract
    <3>2. CASE AgentRewrite
      BY <1>0, <3>2 DEF AgentRewrite, Goto
    <3>3. QED
      BY <1>12, <3>1, <3>2
  <2>3. phase = "query"
    BY <2>1
  <2>4. CASE pc' \in {"rewrite", "recall"}
    BY <1>a, <2>1, <2>2, <2>3, <2>4
  <2>5. CASE pc' = "finalize" /\ primary' = "memory" /\ strict
    BY <1>b, <2>1, <2>2, <2>3, <2>5
  <2>6. QED
    BY <2>2, <2>4, <2>5
<1>13. CASE AgentFinalize
  <2>1. /\ pc = "finalize" /\ pc' = "done" /\ UNCHANGED <<strict, nCalls, nAdded>>
        /\ primary # "none" => outcome' = primary
        /\ primary = "none" => outcome' = "returned" \/ (outcome' = "memory" /\ strict)
    BY <1>13 DEF AgentFinalize, frame
  <2>2. primary \in {"none", "agent", "memory"} /\ (primary = "memory" => strict)
    BY DEF AgentInv, AgentTypeOK, LeaveInv
  <2>3. phase = (IF primary = "agent" THEN "crash" ELSE "leave") /\ phase' = "done"
    BY <2>1
  <2>4. QED
    BY <2>1, <2>2, <2>3, TrajectoryShown DEF Loop!End
<1>14. CASE StoreLands \/ UNCHANGED vars
  BY <1>a, <1>14 DEF StoreLands, vars, agentVars
<1>15. QED
  BY <1>1, <1>2, <1>3, <1>4, <1>5, <1>6, <1>7, <1>8, <1>9, <1>10, <1>11, <1>12, <1>13, <1>14
     DEF Next, AgentStep, Terminated

\* Fail-closed: a run with a memory is a run of the base loop, message for
\* message and call for call, which a failure of the memory ends only when it
\* is strict and never by masking a crash (shared_bridge/agent.py).
THEOREM LoopIsUnchanged == Spec => LoopUnchanged
<1>1. Init => Loop!Init /\ TrajectoryInv /\ LeaveInv
  <2>1. Plain(0) = <<>> /\ Unmarked(Plain(0)) = Plain(0)
    BY PlainIs, UnmarkedAre
  <2>2. QED
    BY <2>1 DEF Init, Loop!Init, LoopPhase, TrajectoryInv, InQuery, LeaveInv
<1>2. AgentInv /\ TrajectoryInv /\ [Next]_vars => TrajectoryInv'
  BY TrajectoryStep
<1>3. AgentInv /\ LeaveInv /\ [Next]_vars => LeaveInv'
  BY LeaveStep
<1>4. AgentInv /\ AgentInv' /\ LeaveInv /\ TrajectoryInv /\ TrajectoryInv' /\ [Next]_vars => [Loop!Next]_(Loop!vars)
  BY LoopStep
<1>5. QED
  BY <1>1, <1>2, <1>3, <1>4, RunInvariant, PTL DEF Spec, LoopUnchanged, Loop!Spec

-----------------------------------------------------------------------------
(* The boundaries.                                                         *)

LEMMA DivisionIsMonotone ==
    ASSUME NEW a \in Nat, NEW b \in Nat, a <= b, NEW d \in Nat \ {0}
    PROVE  a \div d \in Nat /\ a \div d <= b \div d
BY SMTT(30)

\* A schedule has attempted the last boundary up to step, or owes it.
Settled(every, broken, bucket, step) == every > 0 /\ ~broken => bucket = step \div every
Owing(every, broken, bucket, step)   == every > 0 /\ ~broken => bucket <= step \div every

\* A clean step may owe the boundary it crossed, until its tick.
BoundaryInv ==
    /\ pc # "done" => ~finalized
    /\ cleanStep <= nCalls
    /\ pc = "start" => cleanStep = 0 /\ ~available
    /\ pc \in {"extract", "rewrite"} => cleanStep = nCalls
    /\ available /\ pc \notin {"finalize", "done"} =>
          /\ IF pc = "extract" THEN Owing(ExtractEvery, extractBreaker, extractBucket, cleanStep)
                               ELSE Settled(ExtractEvery, extractBreaker, extractBucket, cleanStep)
          /\ IF pc \in {"extract", "rewrite"} THEN Owing(RewriteEvery, rewriteBreaker, rewriteBucket, cleanStep)
                                              ELSE Settled(RewriteEvery, rewriteBreaker, rewriteBucket, cleanStep)

\* A clean step can only owe more.
LEMMA CleanStepOwes ==
    ASSUME NEW every \in Nat, NEW broken, NEW bucket, NEW step \in Nat, NEW later \in Nat, step <= later,
           Settled(every, broken, bucket, step)
    PROVE  Owing(every, broken, bucket, later)
BY DivisionIsMonotone DEF Settled, Owing

\* A tick that is not due owes nothing, and one that is made settles.
LEMMA TicksSettle ==
    ASSUME NEW step \in Nat, TypeOK, Working
    PROVE  /\ ~ExtractDue(step) /\ Owing(ExtractEvery, extractBreaker, extractBucket, step)
                  => Settled(ExtractEvery, extractBreaker, extractBucket, step)
           /\ ~RewriteDue(step) /\ Owing(RewriteEvery, rewriteBreaker, rewriteBucket, step)
                  => Settled(RewriteEvery, rewriteBreaker, rewriteBucket, step)
<1>1. ExtractEvery > 0 => step \div ExtractEvery \in Nat
  BY ConfigAssumption, DivisionIsMonotone
<1>2. RewriteEvery > 0 => step \div RewriteEvery \in Nat
  BY ConfigAssumption, DivisionIsMonotone
<1>3. extractBucket \in Nat /\ rewriteBucket \in Nat
  BY DEF TypeOK
<1>4. QED
  BY <1>1, <1>2, <1>3, ConfigAssumption DEF Settled, Owing, ExtractDue, RewriteDue

LEMMA BoundaryStep ==
    ASSUME TypeOK, AgentInv, BoundaryInv, [Next]_vars
    PROVE  BoundaryInv'
<1> USE DEF BoundaryInv
<1>0. nCalls \in Nat /\ cleanStep \in Nat /\ available \in BOOLEAN
  BY AgentAssumption DEF AgentInv, AgentTypeOK, TypeOK
<1>a. ASSUME UNCHANGED <<finalized, available, extractBreaker, extractBucket, rewriteBreaker, rewriteBucket, cleanStep>>,
             pc \notin {"start", "extract", "rewrite"}, pc' \notin {"start", "extract", "rewrite"},
             pc \in {"finalize", "done"} => pc' = pc,
             nCalls' \in Nat, nCalls <= nCalls'
      PROVE  BoundaryInv'
  BY <1>0, <1>a DEF Settled, Owing
<1>1. CASE AgentStart
  <2>1. /\ pc = "start" /\ pc' \in {"set_task", "finalize"} /\ UNCHANGED <<nCalls, cleanStep>>
        /\ ~finalized' /\ extractBucket' = 0 /\ rewriteBucket' = 0 /\ cleanStep = 0
    BY <1>1 DEF AgentStart, StartOk, StartFails, Reset, Goto, frame
  <2>2. \A every \in Nat : every > 0 => 0 \div every = 0
    BY SMTT(30)
  <2>3. QED
    BY <1>0, <2>1, <2>2, ConfigAssumption DEF Settled
<1>2. CASE AgentSetTask
  BY <1>a, <1>0, <1>2 DEF AgentSetTask, SetTask, Goto, frame, life, extracts, rewrites
<1>3. CASE Prologue \/ Resume \/ Exit \/ AddReply
  <2>1. \E raises \in BOOLEAN : AddMessage(raises)
    BY <1>3 DEF Prologue, Resume, Exit, AddReply
  <2>2. UNCHANGED <<finalized, available, extractBreaker, extractBucket, rewriteBreaker, rewriteBucket>>
    BY <2>1 DEF AddMessage, RecordStores, RecordSkips, RecordFails, backendVars, life, extracts, rewrites
  <2>3. /\ pc \in {"prologue", "resume", "exit", "reply"} /\ pc' \in {"recall", "finalize", "unplace"}
        /\ UNCHANGED <<nCalls, cleanStep>>
    BY <1>3 DEF Prologue, Resume, Exit, AddReply, Goto
  <2>4. QED
    BY <1>0, <1>a, <2>2, <2>3
<1>4. CASE Place \/ PlaceFails
  <2>1. UNCHANGED <<finalized, available, extractBreaker, extractBucket, rewriteBreaker, rewriteBucket>>
    BY <1>4 DEF Place, PlaceFails, RecallDormant, RecallFromCache, RecallSearches, RecallFails, life, extracts, rewrites
  <2>2. pc = "recall" /\ pc' \in {"call", "finalize"} /\ UNCHANGED <<nCalls, cleanStep>>
    BY <1>4 DEF Place, PlaceFails, Goto, frame
  <2>3. QED
    BY <1>0, <1>a, <2>1, <2>2
<1>5. CASE Preflight \/ CallModel \/ Submit \/ ActCrashes
  <2>1. UNCHANGED <<finalized, available, extractBreaker, extractBucket, rewriteBreaker, rewriteBucket, cleanStep>>
    BY <1>5 DEF Preflight, CallModel, Submit, ActCrashes, backendVars
  <2>2. /\ pc \in {"call", "act"} /\ pc' \in {"unplace", "reply", "exit", "finalize"}
        /\ nCalls' \in {nCalls, nCalls + 1}
    BY <1>5 DEF Preflight, CallModel, Submit, ActCrashes, frame
  <2>3. QED
    BY <1>0, <1>a, <2>1, <2>2
<1>6. CASE Unplace
  <2>1. pc = "unplace" /\ pc' \in {"act", "resume", "exit", "finalize"} /\ UNCHANGED <<nCalls, cleanStep>>
    BY <1>6 DEF Unplace
  <2>2. UNCHANGED <<finalized, available, extractBreaker, extractBucket, rewriteBreaker, rewriteBucket>>
    BY <1>6 DEF Unplace, NoteRecall, backendVars, life, extracts, rewrites
  <2>3. QED
    BY <1>0, <1>a, <2>1, <2>2
<1>7. CASE Act
  <2>1. PICK raises \in BOOLEAN : /\ AddMessage(raises) /\ Goto("extract", raises)
                                  /\ cleanStep' = IF raises THEN cleanStep ELSE nCalls
    BY <1>7 DEF Act
  <2>2. UNCHANGED <<finalized, available, extractBreaker, extractBucket, rewriteBreaker, rewriteBucket>>
    BY <2>1 DEF AddMessage, RecordStores, RecordSkips, RecordFails, backendVars, life, extracts, rewrites
  <2>3. pc = "act" /\ nCalls' = nCalls
    BY <1>7 DEF Act
  <2>4. CASE raises
    <3>1. pc' = "finalize" /\ cleanStep' = cleanStep
      BY <2>1, <2>4 DEF Goto
    <3>2. QED
      BY <2>2, <2>3, <3>1
  <2>5. CASE ~raises
    <3>1. pc' = "extract" /\ cleanStep' = nCalls
      BY <2>1, <2>5 DEF Goto
    <3>2. available => /\ Owing(ExtractEvery, extractBreaker, extractBucket, nCalls)
                       /\ Owing(RewriteEvery, rewriteBreaker, rewriteBucket, nCalls)
      BY <1>0, <2>3, ConfigAssumption, CleanStepOwes
    <3>3. QED
      BY <1>0, <2>2, <2>3, <3>1, <3>2 DEF Owing
  <2>6. QED
    BY <2>4, <2>5
<1>8. CASE AgentExtract
  <2>1. /\ pc = "extract" /\ pc' \in {"rewrite", "finalize"} /\ UNCHANGED <<nCalls, cleanStep>>
        /\ cleanStep = nCalls /\ ~finalized
    BY <1>8 DEF AgentExtract, Goto, frame
  <2>2. CASE ~ExtractDue(nCalls) /\ UNCHANGED backendVars
    <3>1. UNCHANGED <<finalized, available, extractBreaker, extractBucket, rewriteBreaker, rewriteBucket>>
      BY <2>2 DEF backendVars
    <3>2. available => Settled(ExtractEvery, extractBreaker, extractBucket, cleanStep)
      BY <1>0, <2>1, <2>2, TicksSettle DEF Working
    <3>3. QED
      BY <1>0, <2>1, <3>1, <3>2 DEF Settled, Owing
  <2>3. ASSUME NEW o \in Outcomes(FALSE), ExtractTick(nCalls, o)
        PROVE  BoundaryInv'
    <3>1. UNCHANGED <<finalized, available, rewriteBreaker, rewriteBucket>> /\ extractBucket' = nCalls \div ExtractEvery
      BY <2>3 DEF ExtractTick, life, rewrites
    <3>2. QED
      BY <1>0, <2>1, <3>1 DEF Settled, Owing
  <2>4. QED
    BY <1>8, <2>2, <2>3 DEF AgentExtract
<1>9. CASE AgentRewrite
  <2>1. /\ pc = "rewrite" /\ pc' \in {"recall", "finalize"} /\ UNCHANGED <<nCalls, cleanStep>>
        /\ cleanStep = nCalls /\ ~finalized
    BY <1>9 DEF AgentRewrite, Goto, frame
  <2>2. CASE ~RewriteDue(nCalls) /\ UNCHANGED backendVars
    <3>1. UNCHANGED <<finalized, available, extractBreaker, extractBucket, rewriteBreaker, rewriteBucket>>
      BY <2>2 DEF backendVars
    <3>2. available => Settled(RewriteEvery, rewriteBreaker, rewriteBucket, cleanStep)
      BY <1>0, <2>1, <2>2, TicksSettle DEF Working
    <3>3. QED
      BY <1>0, <2>1, <3>1, <3>2 DEF Settled, Owing
  <2>3. CASE RewriteReplaces(nCalls) \/ RewriteFails(nCalls)
    <3>1. UNCHANGED <<finalized, available, extractBreaker, extractBucket>> /\ rewriteBucket' = nCalls \div RewriteEvery
      BY <2>3 DEF RewriteReplaces, RewriteFails, life, extracts
    <3>2. QED
      BY <1>0, <2>1, <3>1 DEF Settled, Owing
  <2>4. QED
    BY <1>9, <2>2, <2>3 DEF AgentRewrite
<1>10. CASE AgentFinalize
  BY <1>0, <1>10 DEF AgentFinalize, frame
<1>11. CASE StoreLands
  <2>1. /\ UNCHANGED <<finalized, available, extractBreaker, extractBucket, rewriteBreaker, rewriteBucket, cleanStep, pc, nCalls>>
    BY <1>11 DEF StoreLands, LateWrite, agentVars, life, extracts, rewrites
  <2>2. QED
    BY <2>1 DEF Settled, Owing
<1>12. CASE UNCHANGED vars
  <2>1. /\ UNCHANGED <<finalized, available, extractBreaker, extractBucket, rewriteBreaker, rewriteBucket, cleanStep, pc, nCalls>>
    BY <1>12 DEF vars, backendVars, agentVars
  <2>2. QED
    BY <2>1 DEF Settled, Owing
<1>13. QED
  BY <1>1, <1>2, <1>3, <1>4, <1>5, <1>6, <1>7, <1>8, <1>9, <1>10, <1>11, <1>12 DEF Next, AgentStep, Terminated

\* No boundary is skipped: when the next query begins, what the last clean step
\* made due has been attempted, interrupted steps in between included
\* (shared_bridge/agent.py, maybe_extract, maybe_rewrite).
THEOREM BoundariesAreNotMissed == Spec => []NoBoundaryMissed
<1>1. Init => BoundaryInv
  BY DEF Init, BackendInit, BoundaryInv
<1>2. TypeOK /\ AgentInv /\ BoundaryInv /\ [Next]_vars => BoundaryInv'
  BY BoundaryStep
<1>3. BoundaryInv => NoBoundaryMissed
  BY DEF BoundaryInv, NoBoundaryMissed, Settled
<1>4. QED
  BY <1>1, <1>2, <1>3, RunInvariant, PTL DEF Spec
=============================================================================

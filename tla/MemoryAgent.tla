---------------------------- MODULE MemoryAgent ----------------------------
(***************************************************************************)
(* One agent run with memory enabled: MemoryAgent (shared_bridge/agent.py) *)
(* drives a MemoryBackend from the mini-swe-agent loop it subclasses.      *)
(*                                                                         *)
(* The loop itself is external.  What is assumed of it is what agent.py    *)
(* relies on: a query first checks its limits, then increments n_calls     *)
(* immediately before the model call, then adds the reply with             *)
(* add_messages; an interrupted query or step (a format error, a limit, a  *)
(* submission) has its own messages added and, unless it ended the run,    *)
(* is followed by the next step; any other exception ends the run.         *)
(***************************************************************************)
EXTENDS MemoryBackend, Sequences

CONSTANT StepLimit   \* the base agent's step limit

MaxMessages == 2 * StepLimit + 2   \* a prompt, a reply and an observation per call, an exit

ASSUME AgentAssumption ==
    /\ StepLimit \in Nat \ {0}
    /\ 0..StepLimit \subseteq Step
    /\ 1..MaxMessages \subseteq Message

VARIABLES
    strict,        \* config.memory.strict, never changed
    pc,            \* where the run is
    nCalls,        \* n_calls
    nAdded,        \* messages passed through add_messages so far
    messages,      \* self.messages: the numbers of the added messages, and Marker
    placed,        \* the recall block in the prompt of this query ({}: none)
    fromCache,     \* it was served from the search cache
    callsBefore,   \* n_calls when this query began
    result,        \* how the query or action under way ended
    primary,       \* the exception run() is leaving with
    outcome,       \* how run() ended
    cleanStep,     \* n_calls at the last clean step
    shown          \* model calls whose prompt held a block: all, and from the cache

frame == <<nCalls, messages, nAdded>>
block == <<placed, fromCache, callsBefore>>
exits == <<primary, outcome>>
agentVars == <<strict, pc, nCalls, nAdded, messages, placed, fromCache, callsBefore,
               result, primary, outcome, cleanStep, shown>>
vars == <<backendVars, agentVars>>

PC == {"start", "set_task", "prologue", "recall", "call", "reply", "unplace", "act",
       "extract", "rewrite", "resume", "exit", "finalize", "done"}

AgentTypeOK ==
    /\ strict \in BOOLEAN
    /\ pc \in PC
    /\ nCalls \in 0..StepLimit /\ callsBefore \in 0..StepLimit /\ cleanStep \in 0..StepLimit
    /\ nAdded \in 0..MaxMessages
    /\ messages \in Seq(Nat)
    /\ placed \in Payload /\ fromCache \in BOOLEAN
    /\ result \in {"none", "reply", "interrupt", "limit", "crash", "memory"}
    /\ primary \in {"none", "agent", "memory"}
    /\ outcome \in {"running", "returned", "agent", "memory"}
    /\ shown \in [{"all", "cached"} -> Nat]

Init ==
    /\ BackendInit
    /\ strict \in BOOLEAN
    /\ pc = "start"
    /\ nCalls = 0 /\ nAdded = 0 /\ messages = <<>>
    /\ placed = {} /\ fromCache = FALSE /\ callsBefore = 0
    /\ result = "none" /\ primary = "none" /\ outcome = "running"
    /\ cleanStep = 0
    /\ shown = [s \in {"all", "cached"} |-> 0]

\* Control moves to "next", or to finalize with the memory error when the
\* backend call just made raises.
Goto(next, raises) ==
    /\ pc' = IF raises THEN "finalize" ELSE next
    /\ primary' = IF raises THEN "memory" ELSE primary
    /\ UNCHANGED outcome

\* Mutant: a failed record raises whatever strict says.
AddMessageRaises(raises) ==
    /\ nAdded' = nAdded + 1
    /\ messages' = Append(messages, nAdded')
    /\ \/ (RecordStores(nAdded') \/ RecordSkips(nAdded')) /\ ~raises
       \/ RecordFails(nAdded') /\ raises

\* add_messages: the base appends the message, the hook records it.  The call
\* raises when the record failed and memory is strict.
AddMessage(raises) ==
    /\ nAdded' = nAdded + 1
    /\ messages' = Append(messages, nAdded')
    /\ \/ (RecordStores(nAdded') \/ RecordSkips(nAdded')) /\ ~raises
       \/ RecordFails(nAdded') /\ raises = strict

-----------------------------------------------------------------------------
(* run() up to the first step *)

AgentStart ==
    /\ pc = "start"
    /\ \/ StartOk /\ Goto("set_task", FALSE)
       \/ StartFails /\ Goto("set_task", strict)
    /\ UNCHANGED <<strict, frame, block, result, cleanStep, shown>>

AgentSetTask ==
    /\ pc = "set_task"
    /\ SetTask
    /\ Goto("prologue", FALSE)
    /\ UNCHANGED <<strict, frame, block, result, cleanStep, shown>>

Prologue ==   \* the base's run() adds the initial prompt messages
    /\ pc = "prologue"
    /\ \E raises \in BOOLEAN : AddMessage(raises) /\ Goto("recall", raises)
    /\ UNCHANGED <<strict, nCalls, block, result, cleanStep, shown>>

-----------------------------------------------------------------------------
(* query() *)

\* The recall, and the block appended to self.messages past add_messages.
Place ==
    /\ pc = "recall"
    /\ RecallDormant \/ RecallFromCache \/ RecallSearches
    /\ callsBefore' = nCalls
    /\ placed' = ret'.hits
    /\ fromCache' = (ret'.status = "answer" /\ ~dirty)
    /\ messages' = IF placed' = {} THEN messages ELSE Append(messages, Marker)
    /\ Goto("call", FALSE)
    /\ UNCHANGED <<strict, nCalls, nAdded, result, cleanStep, shown>>

PlaceFails ==
    /\ pc = "recall"
    /\ RecallFails
    /\ callsBefore' = nCalls
    /\ placed' = {} /\ fromCache' = FALSE
    /\ Goto("call", strict)
    /\ UNCHANGED <<strict, frame, result, cleanStep, shown>>

Preflight ==   \* a step, cost or wall-time limit: no model call is made
    /\ pc = "call"
    /\ result' = "limit" /\ pc' = "unplace"
    /\ UNCHANGED <<backendVars, strict, frame, block, exits, cleanStep, shown>>

\* Mutant: the limit is off by one.
WithinLimitOrOn == nCalls <= StepLimit

WithinLimit == nCalls < StepLimit

CallModel ==
    /\ pc = "call" /\ WithinLimit
    /\ nCalls' = nCalls + 1
    /\ shown' = [shown EXCEPT !["all"] = IF placed # {} THEN @ + 1 ELSE @,
                              !["cached"] = IF placed # {} /\ fromCache THEN @ + 1 ELSE @]
    /\ result' \in {"reply", "interrupt", "crash"}
    /\ pc' = IF result' = "reply" THEN "reply" ELSE "unplace"
    /\ UNCHANGED <<backendVars, strict, nAdded, messages, block, exits, cleanStep>>

AddReply ==
    /\ pc = "reply"
    /\ \E raises \in BOOLEAN : AddMessage(raises) /\ result' = IF raises THEN "memory" ELSE result
    /\ pc' = "unplace"
    /\ UNCHANGED <<strict, nCalls, block, exits, cleanStep, shown>>

\* Mutant: the block is taken to be the last message.
WithoutLast(seq) ==
    IF \E i \in 1..Len(seq) : seq[i] = Marker THEN SubSeq(seq, 1, Len(seq) - 1) ELSE seq

\* The loop over self.messages from its end: the last occurrence is deleted.
WithoutMarker(seq) ==
    LET Last(i) == seq[i] = Marker /\ \A j \in (i + 1)..Len(seq) : seq[j] # Marker
        at == CHOOSE i \in 1..Len(seq) : Last(i)
    IN  IF \E i \in 1..Len(seq) : seq[i] = Marker
        THEN [j \in 1..(Len(seq) - 1) |-> IF j < at THEN seq[j] ELSE seq[j + 1]]
        ELSE seq

\* Mutant: a block counts as injected though no model call was attempted.
AttemptedOrNot == TRUE

\* n_calls moves just before the model call: a limit that stops the query does not.
Attempted == nCalls > callsBefore

\* The finally clause removes the block by identity and counts the injection
\* if a model call was attempted; then the query returns or raises.
Unplace ==
    /\ pc = "unplace"
    /\ messages' = WithoutMarker(messages)
    /\ IF placed # {} /\ Attempted
       THEN NoteRecall(fromCache)
       ELSE UNCHANGED backendVars
    /\ placed' = {} /\ fromCache' = FALSE /\ callsBefore' = 0 /\ result' = "none"
    /\ pc' = CASE result = "reply"     -> "act"
               [] result = "interrupt" -> "resume"
               [] result = "limit"     -> "exit"
               [] OTHER                -> "finalize"
    /\ primary' = CASE result = "crash"  -> "agent"
                    [] result = "memory" -> "memory"
                    [] OTHER             -> primary
    /\ UNCHANGED <<strict, nCalls, nAdded, outcome, cleanStep, shown>>

-----------------------------------------------------------------------------
(* The rest of step() *)

\* The actions run and their observation is added: the step was clean.
Act ==
    /\ pc = "act"
    /\ \E raises \in BOOLEAN :
        /\ AddMessage(raises)
        /\ Goto("extract", raises)
        /\ cleanStep' = IF raises THEN cleanStep ELSE nCalls
    /\ UNCHANGED <<strict, nCalls, block, result, shown>>

Submit ==   \* the action was the submission: the step is interrupted
    /\ pc = "act"
    /\ pc' = "exit"
    /\ UNCHANGED <<backendVars, strict, frame, block, result, exits, cleanStep, shown>>

ActCrashes ==
    /\ pc = "act"
    /\ pc' = "finalize" /\ primary' = "agent"
    /\ UNCHANGED <<backendVars, strict, frame, block, result, outcome, cleanStep, shown>>

Resume ==   \* the loop adds an interrupt's messages and goes on
    /\ pc = "resume"
    /\ \E raises \in BOOLEAN : AddMessage(raises) /\ Goto("recall", raises)
    /\ UNCHANGED <<strict, nCalls, block, result, cleanStep, shown>>

Exit ==     \* the loop adds the exit message and returns
    /\ pc = "exit"
    /\ \E raises \in BOOLEAN : AddMessage(raises) /\ Goto("finalize", raises)
    /\ UNCHANGED <<strict, nCalls, block, result, cleanStep, shown>>

AgentExtract ==
    /\ pc = "extract"
    /\ \/ ~ExtractDue(nCalls) /\ UNCHANGED backendVars /\ Goto("rewrite", FALSE)
       \/ \E o \in Outcomes(FALSE) :
            /\ ExtractTick(nCalls, o)
            /\ Goto("rewrite", strict /\ o.failure = "hard")
    /\ UNCHANGED <<strict, frame, block, result, cleanStep, shown>>

AgentRewrite ==
    /\ pc = "rewrite"
    /\ \/ ~RewriteDue(nCalls) /\ UNCHANGED backendVars /\ Goto("recall", FALSE)
       \/ RewriteReplaces(nCalls) /\ Goto("recall", FALSE)
       \/ \E unexpected \in BOOLEAN :
            RewriteFails(nCalls) /\ Goto("recall", strict /\ unexpected)
    /\ UNCHANGED <<strict, frame, block, result, cleanStep, shown>>

-----------------------------------------------------------------------------
(* The finally clause of run() *)

\* A finalize error reaches the caller only in strict mode and never masks
\* the exception the run is already leaving with.
AgentFinalize ==
    /\ pc = "finalize"
    /\ \E o \in FlushOutcomes : \E dumpFails, writeFails, closeFails \in BOOLEAN :
        /\ Finalize(o, closeFails)
        /\ dumpFails => available
        /\ outcome' = IF primary # "none" THEN primary
                      ELSE IF strict /\ (o.failure = "hard" \/ dumpFails \/ writeFails \/ closeFails)
                           THEN "memory" ELSE "returned"
    /\ pc' = "done"
    /\ UNCHANGED <<strict, frame, block, result, primary, cleanStep, shown>>

StoreLands == LateWrite /\ UNCHANGED agentVars

Terminated == pc = "done" /\ UNCHANGED vars

AgentStep ==
    \/ AgentStart \/ AgentSetTask \/ Prologue
    \/ Place \/ PlaceFails \/ Preflight \/ CallModel \/ AddReply \/ Unplace
    \/ Act \/ Submit \/ ActCrashes \/ Resume \/ Exit
    \/ AgentExtract \/ AgentRewrite
    \/ AgentFinalize

Next == AgentStep \/ StoreLands \/ Terminated

Spec == Init /\ [][Next]_vars

\* The run is one Python thread that keeps executing; every call in it is
\* bounded by a timeout.  Nothing obliges the store to apply a late write.
FairSpec == Spec /\ WF_vars(AgentStep)

-----------------------------------------------------------------------------
(* Properties *)

\* The prompt the model sees never contradicts memory: when recall answered,
\* the block in place is what the store as it is at the call has for the query.
PromptIsCurrent ==
    (pc = "call" /\ ret.status = "answer") => placed = Answer(store, CurrentQuery)

\* A recall served from the cache answers what a search would have.  (The
\* docstring of recall_context gives it as the reason a clean flag may be
\* trusted; a store with late landings breaks it.)
CacheHitsAreFresh ==
    [][(pc = "recall" /\ pc' = "call" /\ ~dirty /\ ret'.status = "answer")
         => ret'.hits = Answer(store, CurrentQuery)]_vars

\* Transient means transient: outside a query the trajectory is exactly the
\* sequence of messages that went through add_messages, however the query
\* ended and whatever was appended behind the block.
TrajectoryUntouched ==
    pc \notin {"call", "reply", "unplace"} => messages = [i \in 1..nAdded |-> i]

\* The counters tell what the model saw: one injection per model call that was
\* attempted with a block in its prompt, and one hit per block from the cache.
InjectionsCounted ==
    pc \notin {"reply", "unplace"} =>
        /\ counts["recall_injections"] = shown["all"]
        /\ counts["recall_cache_hits"] = shown["cached"]

\* No boundary is skipped: when the next query begins, the extraction and the
\* rewrite of the last boundary a clean step crossed have been attempted,
\* interrupted steps in between included.
NoBoundaryMissed ==
    (pc = "recall" /\ available) =>
        /\ ExtractEvery > 0 /\ ~extractBreaker => extractBucket = cleanStep \div ExtractEvery
        /\ RewriteEvery > 0 /\ ~rewriteBreaker => rewriteBucket = cleanStep \div RewriteEvery

\* What the dirty flag buys: a search beyond the first is paid for by a
\* counted extraction, a replaced query or a failed recall.
SearchesBounded ==
    counts["search_calls"] <= counts["extraction_calls"] + counts["rewrite_successes"]
                              + counts["recall_failures"] + 1

\* The messages without any block.
Unmarked(seq) ==
    LET rest[n \in 0..Len(seq)] ==
            IF n = 0 THEN <<>>
            ELSE IF seq[n] = Marker THEN rest[n - 1] ELSE Append(rest[n - 1], seq[n])
    IN rest[Len(seq)]

\* The point of the base loop the run is at.
LoopPhase ==
    CASE pc \in {"start", "set_task", "prologue"}        -> "begin"
      [] pc \in {"recall", "call", "extract", "rewrite"} -> "query"
      [] pc = "unplace"  -> (CASE result = "reply"     -> "act"
                               [] result = "interrupt" -> "resume"
                               [] result = "limit"     -> "exit"
                               [] result = "crash"     -> "crash"
                               [] OTHER                -> "leave")
      [] pc = "finalize" -> IF primary = "agent" THEN "crash" ELSE "leave"
      [] OTHER           -> pc

\* Fail-closed: the loop with a memory is the loop without one.  Its calls, its
\* messages (the block aside) and its end are those the base loop could have
\* had; a memory failure shows only when strict, and never masks a crash.
Loop == INSTANCE AgentLoop WITH
    phase <- LoopPhase,
    calls <- nCalls,
    trajectory <- Unmarked(messages)
LoopUnchanged == Loop!Spec

\* Every handle a start opened is closed again (or its close was tried), and
\* every run ends, whatever fails on the way.
EveryRunCloses == (handle = "open") ~> (pc = "done" /\ handle # "open")
=============================================================================

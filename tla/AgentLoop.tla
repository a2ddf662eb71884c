----------------------------- MODULE AgentLoop -----------------------------
(***************************************************************************)
(* The agent loop as it would be without a memory: what a run of the base  *)
(* agent may do, observed at its message list and at its end.  The one     *)
(* thing a memory may add is to end the run with its own error, and only   *)
(* when it is strict.                                                      *)
(***************************************************************************)
EXTENDS Naturals, Sequences

CONSTANT StepLimit

VARIABLES
    strict,       \* may a memory failure end the run?
    phase,        \* what the run does next
    calls,        \* model calls attempted
    trajectory,   \* the messages, numbered in the order they were added
    outcome       \* how the run ended

vars == <<strict, phase, calls, trajectory, outcome>>

Init ==
    /\ strict \in BOOLEAN
    /\ phase = "begin" /\ calls = 0 /\ trajectory = <<>> /\ outcome = "running"

Add == trajectory' = Append(trajectory, Len(trajectory) + 1)

Adds(from, next) ==
    /\ phase = from /\ phase' = next
    /\ Add
    /\ UNCHANGED <<strict, calls, outcome>>

Begin  == Adds("begin", "query")
Reply  == Adds("reply", "act")
Act    == Adds("act", "query")
Resume == Adds("resume", "query")
Exit   == Adds("exit", "leave")

Limit == phase = "query" /\ phase' = "exit" /\ UNCHANGED <<strict, calls, trajectory, outcome>>

Call ==
    /\ phase = "query" /\ calls < StepLimit
    /\ calls' = calls + 1
    /\ phase' \in {"reply", "resume", "crash"}
    /\ UNCHANGED <<strict, trajectory, outcome>>

ActEnds == phase = "act" /\ phase' \in {"exit", "crash"} /\ UNCHANGED <<strict, calls, trajectory, outcome>>

MemoryRaises ==
    /\ strict /\ phase \notin {"leave", "crash", "done"}
    /\ phase' = "leave"
    /\ Add \/ UNCHANGED trajectory
    /\ UNCHANGED <<strict, calls, outcome>>

\* A crash is reported as it is, whatever happens on the way out.
End ==
    /\ phase \in {"leave", "crash"} /\ phase' = "done"
    /\ \/ phase = "crash" /\ outcome' = "agent"
       \/ phase = "leave" /\ outcome' = "returned"
       \/ phase = "leave" /\ strict /\ outcome' = "memory"
    /\ UNCHANGED <<strict, calls, trajectory>>

Next == Begin \/ Reply \/ Act \/ Resume \/ Exit \/ Limit \/ Call \/ ActEnds \/ MemoryRaises \/ End

Spec == Init /\ [][Next]_vars
=============================================================================

----------------------------- MODULE HostedArm -----------------------------
(***************************************************************************)
(* What the two hosted integrations share: the buffer of recorded messages *)
(* one extraction hands to the memory engine, and what became of each      *)
(* message there.  Messages are numbered in the order they were recorded.  *)
(***************************************************************************)
EXTENDS Naturals, Sequences, FiniteSets, Functions

CONSTANT MaxMessages    \* bound: the messages of an episode

ASSUME MessagesAssumption == MaxMessages \in Nat

Message == 1..MaxMessages

VARIABLES
    pc,
    final,      \* is the extraction under way the final one?
    recorded,   \* messages recorded in this episode
    pending,    \* _pending
    fed,        \* how often the engine took each message in
    doubt       \* how often a call that carried the message raised

armVars == <<pc, final, recorded, pending, fed, doubt>>

None == [m \in Message |-> 0]
Also(bag, batch) == [m \in Message |-> bag[m] + IF m \in Range(batch) THEN 1 ELSE 0]

ArmInit ==
    /\ final = FALSE /\ recorded = 0 /\ pending = <<>>
    /\ fed = None /\ doubt = None

Resume == IF final THEN "closed" ELSE "idle"    \* after an extraction

RecordMessage ==
    /\ pc = "idle" /\ recorded < MaxMessages
    /\ recorded' = recorded + 1
    /\ pending' = Append(pending, recorded')
    /\ UNCHANGED <<pc, final, fed, doubt>>

-----------------------------------------------------------------------------
(* No recorded message is ever lost to the memory: it is in the engine or  *)
(* still buffered for the next extraction, whatever failed in between      *)
(* (mem0_bridge/backend.py:442-444, tencentdb_bridge/backend.py:681-688).  *)
NothingDropped == \A m \in 1..recorded : m \in Range(pending) \/ fed[m] > 0

(* The engine is fed a message again only for a call that raised with its  *)
(* outcome unknown: never after the engine confirmed the message, however  *)
(* the drain, the resolve or the audit that followed ended                 *)
(* (tencentdb_bridge/backend.py:784-792, 681-686).                         *)
FedOncePerDoubt == \A m \in Message : fed[m] <= 1 + doubt[m]
=============================================================================

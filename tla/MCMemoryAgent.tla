--------------------------- MODULE MCMemoryAgent ---------------------------
(* MemoryAgent with a store that renders nothing while it is empty, and    *)
(* nothing at version 2 for the task as set.                               *)
EXTENDS MemoryAgent

CONSTANT MaxUnrecorded

MCBlank == ({0} \X ({0, 1} \X (0..StepLimit))) \cup {<<2, <<1, 0>>>>}

\* At most MaxUnrecorded messages are skipped or fail to record in a run.
Bounded == available => Cardinality((1..nAdded) \ recorded) <= MaxUnrecorded

MCNext == Next /\ Bounded'
MCSpec == Init /\ [][MCNext]_vars /\ WF_vars(AgentStep /\ Bounded')

\* Only the run's own extractions may leave a write in flight.
MCQuietSpec == Init /\ late = FALSE /\ [][MCNext]_vars

MCMessage == 1..MaxMessages
MCStep == 0..StepLimit
=============================================================================

--------------------------- MODULE MCTraceSession ---------------------------
(***************************************************************************)
(* TraceSession bounded for TLC: MaxOps searches and generations, MaxCalls *)
(* main-lane calls, MaxNoted placed blocks and MaxFaults requests that did *)
(* not succeed.                                                            *)
(***************************************************************************)
EXTENDS TraceSession

CONSTANTS MaxOps, MaxCalls, MaxNoted, MaxFaults

VARIABLE faults

Bounded == ops <= MaxOps /\ calls <= MaxCalls /\ noted <= MaxNoted /\ faults <= MaxFaults

MCInit == Init /\ faults = 0
MCNext == Next /\ faults' = (IF strikes' > strikes THEN faults + 1 ELSE faults) /\ Bounded'
MCSpec == MCInit /\ [][MCNext]_<<vars, faults>>
=============================================================================

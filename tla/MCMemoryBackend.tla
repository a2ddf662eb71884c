-------------------------- MODULE MCMemoryBackend --------------------------
(***************************************************************************)
(* MemoryBackend under an arbitrary caller, bounded for TLC: the store     *)
(* takes at most MaxStore versions, a caller sets at most MaxTask tasks    *)
(* and between two starts makes at most MaxSearches searches and MaxNotes   *)
(* noted injections.                                                       *)
(***************************************************************************)
EXTENDS MemoryBackend

CONSTANTS MaxStore, MaxTask, MaxSearches, MaxNotes

\* An empty store renders nothing; so does the query of a first rewrite on version 1.
MCBlank == ({0} \X ((0..3) \X (0..3))) \cup {<<1, <<1, 1>>>>}

Bounded ==
    /\ store <= MaxStore
    /\ task <= MaxTask
    /\ counts["search_calls"] <= MaxSearches
    /\ counts["recall_injections"] <= MaxNotes

MCNext == BackendNext /\ Bounded'
MCSpec == BackendInit /\ [][MCNext]_backendVars
=============================================================================

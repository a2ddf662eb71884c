----------------------------- MODULE Annotator -----------------------------
(***************************************************************************)
(* The annotation client (shared_bridge/annotate.py, class Annotator) and  *)
(* the recorder behind it.  One logical request is a run of attempts; the  *)
(* request body, annotation ids included, is serialized once before the    *)
(* first of them.  The recorder keeps an event under its id, so an         *)
(* identical replay changes nothing and is answered as a success.          *)
(***************************************************************************)
EXTENDS Naturals, Sequences, FiniteSets

CONSTANTS
    Retries,   \* annotate_retries
    Limit      \* annotate_max_consecutive_errors

ASSUME AnnotatorAssumption == Retries \in Nat /\ Limit \in Nat \ {0}

VARIABLES
    seen,      \* what the recorder holds: [event, id]
    logged,    \* the annotation records of memory.json, by reason
    strikes,   \* _consecutive_failures
    breaker    \* breaker_open

annotatorVars == <<seen, logged, strikes, breaker>>

(* What can become of one attempt: "uncounted" is a success without a lane *)
(* cursor; "malformed" a success whose body is no JSON object; "unheard"   *)
(* reached the recorder and its answer was lost; "lost" covers connection  *)
(* failures and 5xx.                                                       *)
Rejections == {"conflict", "oversize", "invalid"}                   \* 409, 413, other 4xx
Repeated   == {"unheard", "lost"}
Landings   == {"accepted", "uncounted", "malformed", "unheard"}
Attempt    == Rejections \cup Repeated \cup Landings

Final(run) == run[Len(run)]

\* The attempts of one request: only a "repeated" one is followed by another, and
\* the recorder never rejects what it already holds.
Runs ==
    {run \in UNION {[1..n -> Attempt] : n \in 1..(1 + Retries)} :
        /\ \A i \in 1..(Len(run) - 1) : run[i] \in Repeated
        /\ Final(run) \in Repeated => Len(run) = 1 + Retries
        /\ (\E i \in DOMAIN run : run[i] = "unheard") => Final(run) \notin Rejections}

\* Mutant: an open breaker no longer skips the request.
RequestsIgnoreBreaker == Runs

Requests == IF breaker THEN {<<>>} ELSE Runs    \* <<>>: skipped, no I/O

Ok(run)        == run # <<>> /\ Final(run) \in {"accepted", "uncounted"}
HasCursor(run) == run # <<>> /\ Final(run) = "accepted"
Status(run)    == IF run # <<>> /\ Final(run) \in Rejections THEN Final(run) ELSE "ambiguous"
Refused(run)   == Status(run) # "ambiguous"

\* The annotation_id minted when an event is built: none the recorder holds this event under.
FreshId(e) == Cardinality({s \in seen : s.event = e})

Body(events) == {[event |-> e, id |-> FreshId(e)] : e \in events}

Reaches(run) == {k \in DOMAIN run : run[k] \in Landings}

\* Mutant: the body is built again for every attempt.
LandedRebuilt(run, events) ==
    {[event |-> e, id |-> FreshId(e) + k] : e \in events, k \in Reaches(run)}

\* The attempts all send the one body; the recorder keeps an event under its id.
Landed(run, events) == IF Reaches(run) = {} THEN {} ELSE Body(events)

\* Mutant: a success takes one failure back instead of ending the streak.
StrikesCredited(run) ==
    IF run = <<>> THEN strikes ELSE IF Ok(run) THEN strikes - 1 ELSE strikes + 1

StrikesAfter(run) ==
    IF run = <<>> THEN strikes ELSE IF Ok(run) THEN 0 ELSE strikes + 1

Trip(run) == IF ~breaker /\ StrikesAfter(run) >= Limit
             THEN {"annotation_transport_disabled"} ELSE {}

\* One logical request carrying events; the caller logs reasons after it.
Post(run, events, reasons) ==
    /\ run \in Requests
    /\ seen' = seen \cup Landed(run, events)
    /\ strikes' = StrikesAfter(run)
    /\ breaker' = (breaker \/ strikes' >= Limit)
    /\ logged' = logged \cup Trip(run) \cup reasons

\* No request: the caller only logs.
Silent(reasons) ==
    /\ logged' = logged \cup reasons
    /\ UNCHANGED <<seen, strikes, breaker>>
=============================================================================

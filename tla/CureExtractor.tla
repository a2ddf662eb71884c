--------------------------- MODULE CureExtractor ---------------------------
(***************************************************************************)
(* The decision of one extraction (cure_memory/extractor.py): the replies  *)
(* of the language model, what makes one an answer, and what its items     *)
(* become.  The model itself is external: any reply may follow any other.  *)
(***************************************************************************)
EXTENDS CureStore

CONSTANTS
    LlmRetries,   \* extract_max_retries
    Item          \* the candidate items a decision may hold, as the model wrote them

RawItem == [key : Key, value : Value, scope : {"user", "project", "other"},
            status : {"approved", "pending_review", "other"}, sure : BOOLEAN, unverified : BOOLEAN]

ASSUME ExtractorAssumption == LlmRetries \in Nat /\ Item \subseteq RawItem

(* "unreached": 5xx, transport failure or a body that is no object, tried  *)
(* again; "refused": any other HTTP error; "blank": an envelope without    *)
(* content; "malformed": content that is no decision.                      *)
Reply == {"decision", "unreached", "refused", "blank", "malformed"}

Calls == {run \in UNION {[1..n -> Reply] : n \in 1..(1 + LlmRetries)} :
            /\ \A i \in 1..(Len(run) - 1) : run[i] = "unreached"
            /\ run[Len(run)] = "unreached" => Len(run) = 1 + LlmRetries}

LastError(run) == run[Len(run)] # "decision"    \* last_error is set after the call

\* Anything but an explicit "user" stays with the repository; without one there is
\* only the general layer.
LayerOf(item, session) == IF item.scope = "user" THEN General ELSE session

StatusOf(item) ==
    CASE item.status = "other" -> "candidate"
      [] item.status = "approved" /\ (~item.sure \/ item.unverified) -> "pending_review"
      [] OTHER -> item.status

MemoryOf(item, session) ==
    [layer |-> LayerOf(item, session), key |-> item.key, value |-> item.value,
     status |-> StatusOf(item), by |-> 0, of |-> {}]

\* The layers a deletion with this scope addresses, and the live rows its target names.
Addressed(listed, scope, session) ==
    {i \in DOMAIN listed :
        CASE scope = "user"    -> listed[i].layer = General
          [] scope = "project" -> listed[i].layer = session /\ session # General
          [] OTHER             -> listed[i].layer = session}

Matching(listed, scope, target, session) ==
    {i \in Addressed(listed, scope, session) : Live(listed[i]) /\ listed[i].key = target}
=============================================================================

------------------------------ MODULE MCHosted ------------------------------
(***************************************************************************)
(* The two hosted integrations over the buffer they share: arm says of     *)
(* which this behaviour is.  The episodes of TencentDB and its endpoint    *)
(* share no more than the gateway, and the endpoint is seen beside one     *)
(* episode.                                                                *)
(***************************************************************************)
EXTENDS Mem0, Tencent, TLC

CONSTANT MaxDoubt    \* calls that raise

VARIABLE arm

Symmetry == Permutations(Text)

MCInit ==
    /\ arm \in {"mem0", "tencentdb", "endpoint"}
    /\ pc = IF arm = "mem0" THEN "idle" ELSE "down"
    /\ ArmInit /\ Mem0Init /\ TencentInit

\* Records are lost in behaviours of whole episodes and confirmed adds, adds go unheard in
\* behaviours without another fault; a call that raises carried one message.
OneFault ==
    /\ unheard # {} => ~gaveUp /\ doubt = None
    /\ \A m, n \in Message : doubt[m] > 0 /\ doubt[n] > 0 => m = n
    /\ (\E s \in 1..episode : \A i \in DOMAIN sidecar : sidecar[i] # [event |-> "start", of |-> s, at |-> sidecar[i].at])
           => ~gaveUp /\ doubt = None

\* The endpoint edits between adds and while the request of one is out, before any add
\* has raised; after that the late adds are the other writers.  Untrue receipts come from
\* an engine nobody disturbs.
Mem0Bounds ==
    /\ request # NoRequest => pc \in {"idle", "post"} /\ doubt = None
    /\ ~job.true => doubt = None /\ ~disturbed

Bounded ==
    /\ \A m \in Message : doubt[m] <= MaxDoubt
    /\ CASE arm = "mem0"      -> recorded <= 2 /\ Mem0Bounds
         [] arm = "tencentdb" -> epc = "idle" /\ OneFault
         [] arm = "endpoint"  -> episode <= 1 /\ recorded <= 2 /\ doubt = None

MCNext ==
    /\ UNCHANGED arm
    /\ \/ arm = "mem0" /\ Mem0Next /\ UNCHANGED tencentVars
       \/ arm # "mem0" /\ TencentNext /\ UNCHANGED mem0Vars
    /\ Bounded'
    /\ disturbed => memories' = memories \/ pc' # pc    \* one write of others during an add

MCSpec == MCInit /\ [][MCNext]_<<arm, armVars, mem0Vars, tencentVars>>
=============================================================================

--------------------------- MODULE ProcessLifecycle ---------------------------
(***************************************************************************)
(* What the process registry promises about one process id, whatever slots *)
(* the registry keeps its records in: an id is used once; an exited        *)
(* process keeps the code it exited with until it is reaped, once; and     *)
(* nothing is heard of an id again after it is gone.                       *)
(***************************************************************************)
CONSTANTS
    Ids,        \* process ids
    Codes,      \* exit codes
    NoCode      \* no exit code yet

VARIABLES
    life,       \* id -> stage of its life
    code        \* id -> the code it exited with

Stages == {"Unborn", "Ready", "Running", "Exited", "Gone"}
vars == <<life, code>>

Init ==
    /\ life = [p \in Ids |-> "Unborn"]
    /\ code = [p \in Ids |-> NoCode]

Become(p, from, to) ==
    /\ life[p] \in from
    /\ life' = [life EXCEPT ![p] = to]
    /\ UNCHANGED code

Register(p) == Become(p, {"Unborn"}, "Ready")
\* A registration that fails half way, or is aborted before the process runs.
Discard(p) == Become(p, {"Unborn", "Ready"}, "Gone")
Start(p) == Become(p, {"Ready"}, "Running")
Handover(p, q) ==
    /\ life[p] = "Running" /\ life[q] = "Ready"
    /\ life' = [life EXCEPT ![p] = "Ready", ![q] = "Running"]
    /\ UNCHANGED code
Exit(p, c) ==
    /\ life[p] \in {"Ready", "Running"}
    /\ life' = [life EXCEPT ![p] = "Exited"]
    /\ code' = [code EXCEPT ![p] = c]
Reap(p) ==
    /\ life[p] = "Exited"
    /\ life' = [life EXCEPT ![p] = "Gone"]
    /\ code' = [code EXCEPT ![p] = NoCode]

Next ==
    \E p \in Ids :
        \/ Register(p) \/ Discard(p) \/ Start(p) \/ Reap(p)
        \/ \E q \in Ids : Handover(p, q)
        \/ \E c \in Codes : Exit(p, c)

Spec == Init /\ [][Next]_vars
===============================================================================

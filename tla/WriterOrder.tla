----------------------------- MODULE WriterOrder -----------------------------
(***************************************************************************)
(* What the canonical writer lease of a repository promises its callers:   *)
(* at most one writer holds it, at most one writer stands next in line,    *)
(* and only the one next in line may enter.  A writer may hold the lease   *)
(* and stand in line at once only between its entry and its stepping aside.*)
(***************************************************************************)
CONSTANTS
    Writer,     \* threads that write canonical state
    NoOne,
    Stuck       \* a lock whose handle outlived the process that took it

VARIABLES
    holder,     \* the writer that owns the repository
    next        \* the writer that will own it next

vars == <<holder, next>>

Init == holder = NoOne /\ next = NoOne

Stand(t) ==
    /\ next = NoOne
    /\ next' = t
    /\ UNCHANGED holder

Enter(t) ==
    /\ next = t /\ holder = NoOne
    /\ holder' = t
    /\ UNCHANGED next

(* After it entered, or because it gave up. *)
StepAside(t) ==
    /\ next = t
    /\ next' = NoOne
    /\ UNCHANGED holder

Leave(t) ==
    /\ holder = t
    /\ holder' = NoOne
    /\ UNCHANGED next

(* Writers die together with their process. *)
Perish(dying) ==
    /\ holder' \in IF holder \in dying THEN {NoOne, Stuck} ELSE {holder}
    /\ next' \in IF next \in dying THEN {NoOne, Stuck} ELSE {next}

Next ==
    \/ \E t \in Writer : Stand(t) \/ Enter(t) \/ StepAside(t) \/ Leave(t)
    \/ \E dying \in SUBSET Writer : Perish(dying)

Spec == Init /\ [][Next]_vars
=============================================================================

--------------------------- MODULE RegistryRegister ---------------------------
(***************************************************************************)
(* What the transactions of the identity registry promise, without files:  *)
(* one value, of which a session sees the whole, and which a session       *)
(* replaces as a whole and only while it is still what it saw.             *)
(***************************************************************************)
EXTENDS Naturals

CONSTANTS
    User,       \* registry objects that open sessions
    File,       \* the parts of the value
    Closed      \* the view of a registry object without session

VARIABLES
    value,      \* for each part, the transaction that wrote it
    view        \* what the session of each user sees, or Closed

vars == <<value, view>>

Init ==
    /\ value = [f \in File |-> 0]
    /\ view = [u \in User |-> Closed]

Open(u) ==
    /\ \A v \in User : view[v] = Closed
    /\ view' = [view EXCEPT ![u] = value]
    /\ UNCHANGED value

(* Every part is replaced by the same, later transaction. *)
Commit(u) ==
    /\ view[u] = value
    /\ value' \in [File -> Nat]
    /\ \A f, g \in File : value[f] < value'[f] /\ value'[f] = value'[g]
    /\ view' = [view EXCEPT ![u] = value']

Close(u) ==
    /\ view' = [view EXCEPT ![u] = Closed]
    /\ UNCHANGED value

Next == \E u \in User : Open(u) \/ Commit(u) \/ Close(u)

Spec == Init /\ [][Next]_vars
=============================================================================

---------------------------- MODULE AuthorityFence ----------------------------
(***************************************************************************)
(* What the runtime authority of a repository domain promises, without     *)
(* files, locks or probes: there is at most one holder, every grant opens  *)
(* a new epoch, and a holder that is running and has not begun to leave    *)
(* keeps the authority.                                                    *)
(***************************************************************************)
EXTENDS Naturals

CONSTANTS
    Service,   \* service processes
    NoOne      \* no process

VARIABLES
    epoch,     \* the last epoch opened
    holder,    \* who holds it, or NoOne
    up,        \* the processes that run
    leaving    \* those of them that have begun to shut down

vars == <<epoch, holder, up, leaving>>

Init ==
    /\ epoch = 0
    /\ holder = NoOne
    /\ up = {}
    /\ leaving = {}

Begin(p) ==
    /\ p \notin up
    /\ up' = up \cup {p}
    /\ UNCHANGED <<epoch, holder, leaving>>

(* The process that holds the new epoch is up, and means to stay. *)
Grant(p) ==
    /\ holder = NoOne
    /\ p \in up \ leaving
    /\ holder' = p
    /\ epoch' = epoch + 1
    /\ UNCHANGED <<up, leaving>>

(* An epoch is opened and never held: its process died in between. *)
Burn ==
    /\ holder = NoOne
    /\ epoch' = epoch + 1
    /\ UNCHANGED <<holder, up, leaving>>

Leave(p) ==
    /\ p \in up
    /\ leaving' = leaving \cup {p}
    /\ UNCHANGED <<epoch, holder, up>>

End(p) ==
    /\ up' = up \ {p}
    /\ leaving' = leaving \ {p}
    /\ UNCHANGED <<epoch, holder>>

(* The authority is taken from a holder only once it is gone or leaving. *)
Vacate ==
    /\ holder # NoOne
    /\ holder \notin up \ leaving
    /\ holder' = NoOne
    /\ UNCHANGED <<epoch, up, leaving>>

Next ==
    \/ \E p \in Service : Begin(p) \/ Grant(p) \/ Leave(p) \/ End(p)
    \/ Burn \/ Vacate

Spec == Init /\ [][Next]_vars
=============================================================================

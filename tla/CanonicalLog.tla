---------------------------- MODULE CanonicalLog ----------------------------
(***************************************************************************)
(* What canonical state promises its readers.  The generations a           *)
(* repository ever committed form a log that only grows.  LIVE serves one  *)
(* of them, moves forward only, and adds a generation only on top of the   *)
(* last one, so that no writer's work is lost; a full analysis reads the   *)
(* sources afresh and owes nothing to its predecessor.                     *)
(***************************************************************************)
EXTENDS Naturals, Sequences

CONSTANT MaxRevision    \* bound on the log

VARIABLES
    log,    \* for each revision, the revision it was derived from, or 0
    live    \* the revision LIVE serves, or 0

vars == <<log, live>>

Init == log = <<>> /\ live = 0

(* A full analysis. *)
Analyse ==
    /\ Len(log) < MaxRevision
    /\ log' = Append(log, 0)
    /\ UNCHANGED live

(* An incremental update of what LIVE serves. *)
Derive ==
    /\ Len(log) < MaxRevision
    /\ Len(log) > 0
    /\ log' = Append(log, Len(log))
    /\ UNCHANGED live

(* LIVE takes up a later generation. *)
Advance ==
    /\ live' \in (live + 1) .. Len(log)
    /\ UNCHANGED log

(* LIVE stops; it starts with the last generation. *)
Stop == live' = 0 /\ UNCHANGED log

Next == Analyse \/ Derive \/ Advance \/ Stop

Spec == Init /\ [][Next]_vars
=============================================================================

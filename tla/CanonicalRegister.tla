-------------------------- MODULE CanonicalRegister --------------------------
(***************************************************************************)
(* What the snapshot store promises: one register that holds the latest    *)
(* committed generation, replaced as a whole by the generation that        *)
(* follows it.                                                             *)
(***************************************************************************)
EXTENDS Naturals

CONSTANTS Content, Empty

VARIABLE register   \* Empty, or a revision with its content

Init == register = Empty

Commit ==
    \E content \in Content :
        register' = [revision |-> IF register = Empty THEN 1 ELSE register.revision + 1,
                     content |-> content]

Spec == Init /\ [][Commit]_register
=============================================================================

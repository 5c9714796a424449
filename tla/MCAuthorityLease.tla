-------------------------- MODULE MCAuthorityLease --------------------------
(* Model values for AuthorityLease. *)
EXTENDS AuthorityLease, TLC

(* Every process has a pid of its own. *)
OwnPid == [p \in Service |-> p]

ServiceSymmetry == Permutations(Service)
=============================================================================

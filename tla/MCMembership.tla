--------------------------- MODULE MCMembership -----------------------------
(***************************************************************************)
(* Membership for TLC: one replica with every operation, and two replicas  *)
(* that meet.  Users other than the creator, and replicas, are             *)
(* interchangeable: every deployment is there with each of their           *)
(* permutations.                                                           *)
(***************************************************************************)
EXTENDS Membership, TLC

OneReplica(p) ==
  [users |-> Users, replicas |-> {p}, capacities |-> {2, 3}, granted |-> {"owner", "admin"},
   operations |-> Handlers \cup {"invite", "revoke", "resize", "status"}]

TwoReplicas(u) ==
  [users |-> {Creator, u}, replicas |-> Replicas, capacities |-> {2}, granted |-> {"admin"},
   operations |-> {"update", "accept", "ban", "invite", "remove"}]

MCDeployments == {OneReplica(p) : p \in Replicas} \cup {TwoReplicas(u) : u \in Users \ {Creator}}

Symmetry == Permutations(Users \ {Creator}) \cup Permutations(Replicas)
=============================================================================

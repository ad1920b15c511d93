-------------------------- MODULE MCOrganizations ---------------------------
(* Instances of Organizations: the owner, another user and two threads.    *)
EXTENDS Organizations, TLC

MCWorkloads ==
  {{"invite", "accept", "member", "remove"},
   {"org", "member"},
   {"invite", "accept", "create_role", "delete_role"},
   {"member", "invite", "create_role", "delete_role"},
   {"create_role", "update_role", "delete_role", "assign", "unassign"}}

\* Every property is about the behaviours before a conflict: what follows one is
\* not explored.
BeforeConflict == ~collided

Symmetry == Permutations(Threads) \cup Permutations(Invitations) \cup Permutations(Permissions)
=============================================================================

--------------------------- MODULE MCCommunities ----------------------------
(* Instances of Communities: an owner, two more users and two threads.     *)
EXTENDS Communities, TLC

MCWorkloads ==
  {{"follow", "unfollow", "page", "hide", "suspend_page"},
   {"page", "suspend_page", "add_admin", "remove_admin"},
   {"join", "leave", "member"},
   {"join", "leave", "group", "suspend_group"}}

\* What follows a conflict is not explored.  Of the properties only the one of the
\* group's owner says something of it, and that is proved.
BeforeConflict == ~collided

Symmetry == Permutations(Threads) \cup Permutations(Users \ {Owner})
=============================================================================

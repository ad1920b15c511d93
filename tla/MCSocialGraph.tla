--------------------------- MODULE MCSocialGraph ----------------------------
(***************************************************************************)
(* SocialGraph for TLC: users and threads are interchangeable.             *)
(***************************************************************************)
EXTENDS SocialGraph, TLC

Symmetry == Permutations(Users) \cup Permutations(Threads)
=============================================================================

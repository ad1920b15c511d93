---------------------------- MODULE MCMessaging -----------------------------
(* Messaging on small instances: requests are interchangeable. *)
EXTENDS Messaging, TLC

RequestSymmetry == Permutations(Requests)
Symmetry == Permutations(Requests) \cup Permutations(Replicas)
=============================================================================

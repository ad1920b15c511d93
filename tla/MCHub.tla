------------------------------- MODULE MCHub --------------------------------
(***************************************************************************)
(* Hub for TLC: sockets are interchangeable.                               *)
(***************************************************************************)
EXTENDS Hub, TLC

Symmetry == Permutations(Sockets)
=============================================================================

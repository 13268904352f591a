-------------------------- MODULE MCLoginThrottle --------------------------
(***************************************************************************)
(* LoginThrottle on small instances; requests are interchangeable.         *)
(***************************************************************************)
EXTENDS LoginThrottle, TLC

Symmetry == Permutations(Requests)
=============================================================================

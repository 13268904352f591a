----------------------------- MODULE MCAccess -----------------------------
(***************************************************************************)
(* Access on a small instance. Knowledge bases are numbers, so that the    *)
(* smallest of a scope is the one with the smallest id.                    *)
(***************************************************************************)
EXTENDS Access, TLC

MCLeast(S) == CHOOSE k \in S : \A l \in S : k <= l
Symmetry == Permutations(Requests)
=============================================================================

------------------------------- MODULE Lists -------------------------------
(***************************************************************************)
(* What Python does with lists, in definitions that can be reasoned about:  *)
(* the comprehension [x for x in s if Test(x)], which SelectSeq gives too,  *)
(* and sorted(), which SetToSortSeq gives where the order is total.         *)
(***************************************************************************)
EXTENDS Naturals, Sequences, FiniteSets

\* The elements of s that are in K, in their order.
Filtered(s, K) ==
    LET first[n \in 0..Len(s)] ==
            IF n = 0 THEN <<>>
            ELSE IF s[n] \in K THEN Append(first[n - 1], s[n]) ELSE first[n - 1]
    IN  first[Len(s)]

Selected(s, Test(_)) == Filtered(s, {x \in {s[i] : i \in DOMAIN s} : Test(x)})

\* The elements of S, each behind those it comes after.
Sorted(S, Before(_, _)) ==
    CHOOSE s \in [1..Cardinality(S) -> S] :
        \A i, j \in 1..Cardinality(S) : i < j => Before(s[i], s[j])
=============================================================================

-------------------------- MODULE MCKbPipeline ---------------------------
(***************************************************************************)
(* KbPipeline and KbCounts on a small instance: two documents of one       *)
(* knowledge base. Two texts of different lengths that no mixture of them  *)
(* spells make a partial replacement visible; the empty text is a file     *)
(* that yields no piece.                                                   *)
(***************************************************************************)
EXTENDS KbCounts, TLC
CONSTANTS a, b

MCPieces == {a, b}
MCTexts == {<<>>, <<a, b>>, <<b>>}

\* One document is run, disturbed and deleted up to the bounds of the cfg; two
\* overlap with one second run, raising call or crash between them. No step that
\* is fair comes near the bound.
Begun    == {d \in Docs : up[d] # "idle"}
Repeated == {d \in Docs : runs[d] > 1}

Bounded ==
    Cardinality(Begun) > 1 =>
        /\ \A d \in Docs : runs[d] <= 2
        /\ Cardinality(Repeated) + faults + crashes <= 1

MCSpec == InitCounts /\ [][NextCounts /\ Bounded']_<<vars, history>> /\ Fairness
=============================================================================

----------------------------- MODULE MCCorpus -----------------------------
(***************************************************************************)
(* Corpus on a small instance: versions of a law of one and of two         *)
(* articles, so that an article can change and can vanish.                 *)
(***************************************************************************)
EXTENDS Corpus, TLC
CONSTANTS a, b

MCVersions == {<<a>>, <<b, a>>}
Symmetry == Permutations(Laws)
=============================================================================

------------------------------ MODULE Search ------------------------------
(***************************************************************************)
(* HybridRetriever.search (app/rag/retriever.py) for one scope, beside     *)
(* transactions that add and remove chunks. The search looks at the table  *)
(* three times: the BM25 entry, the nearest vectors and the BM25 entry     *)
(* once more, inside search_bm25. What _bm25_for returns is the table at   *)
(* that moment; Bm25Cache says when that is so.                            *)
(*                                                                         *)
(* A lane is its ranking. The scores behind it are left out, for fusion    *)
(* looks at positions only; a reranker is any function to a few scores.    *)
(***************************************************************************)
EXTENDS Naturals, Sequences, FiniteSets, SequencesExt, Lists

CONSTANTS
    Ids,          \* chunk ids, in the order they are drawn, never reused
    CandidateK,   \* candidates of a lane
    RerankPool,   \* candidates that are reranked
    TopK,         \* hits
    RrfK,         \* rrf_fuse(k=60)
    Scale,        \* a multiple of every RrfK + position, to keep 1/(k + position) whole
    Scores        \* of the reranker; a single one for no reranker

ASSUME SizesAssumption == {CandidateK, RerankPool, TopK} \subseteq Nat \ {0} /\ TopK <= RerankPool
ASSUME ScoresAssumption == Scores \subseteq Nat /\ Scores # {} /\ {RrfK, Scale} \subseteq Nat

VARIABLES
    rows,     \* the chunks stored in the scope
    drawn,    \* the chunks stored so far
    step,     \* what search() does next
    entry,    \* the chunks of its BM25 entry
    lanes,    \* the two rankings
    hits      \* RetrievalResult.hits, by chunk id

search == <<step, entry, lanes, hits>>

Positions(s, x) == {i \in DOMAIN s : s[i] = x}

\* What a lane may return: pgvector ranks the chunks that have a vector, BM25 those
\* that share a word with the query.
FetchK == IF CandidateK > RerankPool THEN CandidateK ELSE RerankPool
Lanes(S) == {s \in BoundedSeq(S, FetchK) : IsInjective(s)}

\* The sum over the lanes of 1/(k + position), of a chunk found in one at least.
Place(s, x) == CHOOSE i \in Positions(s, x) : \A j \in Positions(s, x) : i <= j
Share(lane, x) ==
    IF Positions(lane, x) = {} THEN 0 ELSE Scale \div (RrfK + Place(lane, x))
RrfScore(ls, x) == Share(ls.vector, x) + Share(ls.bm25, x)

\* sorted() is stable and the Counter keeps the order of first insertion.
Inserted(ls) == ls.vector \o ls.bm25
Outranks(ls, x, y) ==
    \/ RrfScore(ls, x) > RrfScore(ls, y)
    \/ RrfScore(ls, x) = RrfScore(ls, y) /\ Place(Inserted(ls), x) < Place(Inserted(ls), y)

\* Mutant: sorted() without reverse=True.
RrfFuseRising(ls) ==
    Sorted(ToSet(Inserted(ls)), LAMBDA x, y :
        IF RrfScore(ls, x) = RrfScore(ls, y) THEN Outranks(ls, x, y) ELSE Outranks(ls, y, x))

RrfFuse(ls) == Sorted(ToSet(Inserted(ls)), LAMBDA x, y : Outranks(ls, x, y))

Firsts(s, n) == SubSeq(s, 1, IF Len(s) < n THEN Len(s) ELSE n)

\* Mutant: chunks outside the entry are kept.
PoolUnguarded(ls) == Firsts(RrfFuse(ls), RerankPool)

\* The cut comes first: a chunk that is not in the entry leaves its place empty.
Pool(ls) == Selected(Firsts(RrfFuse(ls), RerankPool), LAMBDA x : x \in entry)

\* The pool by falling scores of the reranker, in its old order where they tie.
Precedes(pool, score, i, j) ==
    \/ score[pool[i]] > score[pool[j]]
    \/ score[pool[i]] = score[pool[j]] /\ i < j
Reranked(pool, score) ==
    LET order == Sorted(DOMAIN pool, LAMBDA i, j : Precedes(pool, score, i, j))
    IN  [i \in DOMAIN pool |-> pool[order[i]]]
-----------------------------------------------------------------------------
SearchInit ==
    /\ rows \in SUBSET Ids
    /\ drawn = rows
    /\ step = "snapshot" /\ entry = {} /\ hits = <<>>
    /\ lanes = [vector |-> <<>>, bm25 |-> <<>>]

\* A transaction of the write path commits (KbPipeline).
Write ==
    /\ step # "found"
    /\ \/ \E x \in Ids \ drawn : rows' = rows \cup {x} /\ drawn' = drawn \cup {x}
       \/ \E x \in rows : rows' = rows \ {x} /\ UNCHANGED drawn
    /\ UNCHANGED search

\* An index over no chunk divides by zero: search() raises (Question).
Snapshot ==
    /\ step = "snapshot"
    /\ rows # {}
    /\ entry' = rows
    /\ step' = "vector"
    /\ UNCHANGED <<rows, drawn, lanes, hits>>

SearchVector ==
    /\ step = "vector"
    /\ \E s \in Lanes(rows) : lanes' = [lanes EXCEPT !.vector = s]
    /\ step' = "bm25"
    /\ UNCHANGED <<rows, drawn, entry, hits>>

\* _bm25_for is called again: this entry may be a newer one.
SearchBm25 ==
    /\ step = "bm25"
    /\ rows # {}
    /\ \E s \in Lanes(rows) : lanes' = [lanes EXCEPT !.bm25 = s]
    /\ step' = "fuse"
    /\ UNCHANGED <<rows, drawn, entry, hits>>

Fuse ==
    /\ step = "fuse"
    /\ \E pool \in {Pool(lanes)} : \E score \in [ToSet(pool) -> Scores] :
           hits' = Firsts(Reranked(pool, score), TopK)
    /\ step' = "found"
    /\ UNCHANGED <<rows, drawn, entry, lanes>>

SearchNext == Write \/ Snapshot \/ SearchVector \/ SearchBm25 \/ Fuse
-----------------------------------------------------------------------------
Found == ToSet(lanes.vector) \cup ToSet(lanes.bm25)

\* What a search returns was stored when it began, each chunk once, and was found
\* by a lane; it returns as many as it may, or its whole pool but for the chunks
\* that were stored while it ran (retriever.py:123-125).
HitsSound ==
    step = "found" =>
        /\ ToSet(hits) \subseteq entry \cap Found
        /\ Len(hits) = Cardinality(ToSet(hits))
        /\ Len(hits) <= TopK
        /\ LET lost == Cardinality(Found \ entry)
           IN  \/ Len(hits) = TopK
               \/ Len(hits) + lost >= Cardinality(Found)
               \/ Len(hits) + lost >= RerankPool

\* x is ahead of y in a lane, or there alone.
Ahead(lane, x, y) ==
    \E i \in Positions(lane, x) : \A j \in Positions(lane, y) : i < j

\* Fusion respects what the lanes agree on: a chunk ahead of another in one lane,
\* and not behind it in the other, is ahead of it in the result (fusion.py:17-26).
FusionAgrees ==
    step = "fuse" =>
        LET fused == RrfFuse(lanes)
        IN  \A x, y \in Found :
            /\ Ahead(lanes.vector, x, y) \/ Ahead(lanes.bm25, x, y)
            /\ ~Ahead(lanes.vector, y, x) /\ ~Ahead(lanes.bm25, y, x)
            => Ahead(fused, x, y)
=============================================================================

--------------------------- MODULE QuestionProofs ---------------------------
(***************************************************************************)
(* What module Question promises, for every number of chunks, hits, rounds  *)
(* and turns, every conversation and whatever the model replies: the hits   *)
(* of a search are sound, fusion agrees with its lanes, marks are cited,    *)
(* tool calls are answered and an answer is the model's own; and what       *)
(* Compensation, one of the tools, promises for every claim.                *)
(***************************************************************************)
EXTENDS Question, PureParts, ListsProofs, TLAPS

-----------------------------------------------------------------------------
(* Fusion (module Search).                                                 *)

\* The place of an element of a list is its first position.
LEMMA PlaceLeast ==
    ASSUME NEW E, NEW s \in Seq(E), NEW x \in Range(s)
    PROVE  /\ Place(s, x) \in 1..Len(s) /\ s[Place(s, x)] = x
           /\ \A j \in 1..Len(s) : s[j] = x => Place(s, x) <= j
<1> DEFINE P == Positions(s, x)
<1>1. Len(s) \in Nat /\ DOMAIN s = 1..Len(s)
  BY LenProperties
<1>2. P = {i \in 1..Len(s) : s[i] = x}
  BY <1>1 DEF Positions
<1>3. P \in SUBSET Nat /\ P # {}
  <2>1. PICK i \in DOMAIN s : s[i] = x
    BY DEF Range
  <2> QED BY <1>1, <1>2, <2>1
<1>4. \E i \in P : \A j \in P : i <= j
  <2> HIDE DEF P
  <2> QED BY <1>3, Least
<1>5. Place(s, x) \in P /\ \A j \in P : Place(s, x) <= j
  <2>1. Place(s, x) = CHOOSE i \in P : \A j \in P : i <= j
    BY DEF Place
  <2> HIDE DEF P
  <2> QED BY <1>4, <2>1
<1> QED BY <1>2, <1>5

\* A chunk's share of a lane is a natural, and 0 for a chunk that is not in it.
LEMMA ShareNat ==
    ASSUME NEW E, NEW s \in Seq(E), NEW x
    PROVE  /\ Share(s, x) \in Nat
           /\ x \in Range(s) => Share(s, x) = Scale \div (RrfK + Place(s, x))
           /\ x \notin Range(s) => Share(s, x) = 0
<1>1. x \in Range(s) <=> Positions(s, x) # {}
  BY DEF Range, Positions
<1>2. CASE x \in Range(s)
  <2>1. RrfK \in Nat /\ Scale \in Nat
    BY ScoresAssumption
  <2>2. Len(s) \in Nat
    BY LenProperties
  <2>3. RrfK + Place(s, x) \in Nat \ {0}
    BY <1>2, <2>1, <2>2, PlaceLeast
  <2>4. \A d \in Nat \ {0} : Scale \div d \in Nat
    BY <2>1
  <2> QED BY <1>1, <1>2, <2>3, <2>4 DEF Share
<1>3. CASE x \notin Range(s)
  BY <1>1, <1>3 DEF Share
<1> QED BY <1>2, <1>3

\* Division falls as the divisor rises.
LEMMA DivFalls ==
    ASSUME NEW a \in Nat, NEW b \in Nat \ {0}, NEW c \in Nat \ {0}, b <= c
    PROVE  a \div c <= a \div b
<1> DEFINE p == a \div b
           q == a \div c
<1>1. p \in Nat /\ b * p <= a /\ a < b * (p + 1)
  OBVIOUS
<1>2. q \in Nat /\ c * q <= a
  OBVIOUS
<1> HIDE DEF p, q
<1>3. b * q <= c * q
  BY <1>2
<1>4. ASSUME p + 1 <= q PROVE FALSE
  <2>1. b * (p + 1) <= b * q
    BY <1>1, <1>2, <1>4
  <2>2. b * (p + 1) \in Int /\ b * q \in Int /\ c * q \in Int
    BY <1>1, <1>2
  <2> QED BY <1>1, <1>2, <1>3, <2>1, <2>2
<1> QED BY <1>1, <1>2, <1>4 DEF p, q

\* The order of fusion, as a set of pairs.
Fusion(ls) ==
    LET S == Range(Inserted(ls)) IN {p \in S \X S : Outranks(ls, p[1], p[2])}

LanesTyped(ls) == ls.vector \in Seq(Ids) /\ ls.bm25 \in Seq(Ids)

\* What is fused is a finite list of what the lanes found.
LEMMA InsertedFacts ==
    ASSUME NEW ls, LanesTyped(ls)
    PROVE  /\ Inserted(ls) \in Seq(Ids)
           /\ Range(Inserted(ls)) = Range(ls.vector) \cup Range(ls.bm25)
           /\ IsFiniteSet(Range(Inserted(ls)))
           /\ ToSet(Inserted(ls)) = Range(Inserted(ls))
<1>1. ls.vector \in Seq(Ids) /\ ls.bm25 \in Seq(Ids)
  BY DEF LanesTyped
<1>2. Inserted(ls) \in Seq(Ids)
  BY <1>1, ConcatProperties DEF Inserted
<1>3. Range(Inserted(ls)) = Range(ls.vector) \cup Range(ls.bm25)
  BY <1>1, RangeConcatenation DEF Inserted
<1>4. IsFiniteSet(Range(Inserted(ls)))
  BY <1>2, InjectiveLength
<1>5. ToSet(Inserted(ls)) = Range(Inserted(ls))
  BY DEF ToSet, Range
<1> QED BY <1>2, <1>3, <1>4, <1>5

\* Fusion is a strict total order: two chunks of one score differ in their place.
LEMMA FusionOrders ==
    ASSUME NEW ls, LanesTyped(ls)
    PROVE  Orders(Fusion(ls), Range(Inserted(ls)))
<1> DEFINE S == Range(Inserted(ls))
           place(x) == Place(Inserted(ls), x)
           score(x) == RrfScore(ls, x)
<1>1. ls.vector \in Seq(Ids) /\ ls.bm25 \in Seq(Ids) /\ Inserted(ls) \in Seq(Ids)
  BY InsertedFacts DEF LanesTyped
<1>2. \A x \in S : place(x) \in Nat /\ Inserted(ls)[place(x)] = x
  <2>1. Len(Inserted(ls)) \in Nat
    BY <1>1, LenProperties
  <2>2. \A x \in S : place(x) \in 1..Len(Inserted(ls)) /\ Inserted(ls)[place(x)] = x
    BY <1>1, PlaceLeast
  <2> QED BY <2>1, <2>2
<1>3. \A x \in S : score(x) \in Nat
  <2>1. \A x \in S : Share(ls.vector, x) \in Nat /\ Share(ls.bm25, x) \in Nat
    BY <1>1, ShareNat
  <2> QED BY <2>1 DEF RrfScore
<1>4. \A x, y \in S : <<x, y>> \in Fusion(ls) <=>
          \/ score(x) > score(y)
          \/ score(x) = score(y) /\ place(x) < place(y)
  BY DEF Fusion, Outranks
<1> HIDE DEF place, score, S
<1>5. \A x, y \in S : x # y => place(x) # place(y)
  BY <1>2
<1>6. \A x \in S : <<x, x>> \notin Fusion(ls)
  BY <1>2, <1>3, <1>4
<1>7. \A x, y, z \in S : <<x, y>> \in Fusion(ls) /\ <<y, z>> \in Fusion(ls) => <<x, z>> \in Fusion(ls)
  BY <1>2, <1>3, <1>4
<1>8. \A x, y \in S : x # y => <<x, y>> \in Fusion(ls) \/ <<y, x>> \in Fusion(ls)
  BY <1>2, <1>3, <1>4, <1>5
<1> QED BY <1>6, <1>7, <1>8 DEF Orders, S

\* rrf_fuse ranks what the lanes found, each chunk once.
LEMMA FusedRanks ==
    ASSUME NEW ls, LanesTyped(ls)
    PROVE  /\ Ranks(RrfFuse(ls), Range(Inserted(ls)), Fusion(ls))
           /\ RrfFuse(ls) \in Seq(Ids) /\ IsInjective(RrfFuse(ls))
           /\ Range(RrfFuse(ls)) = Range(ls.vector) \cup Range(ls.bm25)
           /\ Len(RrfFuse(ls)) = Cardinality(Range(ls.vector) \cup Range(ls.bm25))
<1> DEFINE S == Range(Inserted(ls))
           N == Cardinality(S)
           ranks(s) == \A i, j \in 1..N : i < j => Outranks(ls, s[i], s[j])
<1>1. IsFiniteSet(S) /\ ToSet(Inserted(ls)) = S /\ Orders(Fusion(ls), S)
  BY InsertedFacts, FusionOrders
<1>2. RrfFuse(ls) = CHOOSE s \in [1..N -> S] : ranks(s)
  BY <1>1 DEF RrfFuse, Sorted
<1>3. ASSUME NEW s \in [1..N -> S] PROVE ranks(s) <=> Ranks(s, S, Fusion(ls))
  <2>1. \A i, j \in 1..N : <<s[i], s[j]>> \in Fusion(ls) <=> Outranks(ls, s[i], s[j])
    <3>1. \A i \in 1..N : s[i] \in S
      OBVIOUS
    <3> QED BY <3>1 DEF Fusion
  <2> QED BY <2>1 DEF Ranks
<1>4. \E s \in [1..N -> S] : ranks(s)
  <2>1. PICK s : Ranks(s, S, Fusion(ls))
    <3> HIDE DEF S
    <3> QED BY <1>1, RankingExists
  <2>2. s \in [1..N -> S]
    BY <2>1 DEF Ranks
  <2> QED BY <1>3, <2>1, <2>2
<1>5. RrfFuse(ls) \in [1..N -> S] /\ ranks(RrfFuse(ls))
  <2> HIDE DEF N, S, ranks
  <2> QED BY <1>2, <1>4
<1>6. Ranks(RrfFuse(ls), S, Fusion(ls))
  BY <1>3, <1>5
<1>7. /\ RrfFuse(ls) \in Seq(S) /\ Len(RrfFuse(ls)) = N
      /\ IsInjective(RrfFuse(ls)) /\ Range(RrfFuse(ls)) = S
  <2> HIDE DEF S
  <2> QED BY <1>1, <1>6, RankingWhole
<1>8. Inserted(ls) \in Seq(Ids) /\ S = Range(ls.vector) \cup Range(ls.bm25)
  BY InsertedFacts
<1>9. RrfFuse(ls) \in Seq(Ids)
  <2>1. S \in SUBSET Ids
    BY <1>8, RangeOfSeq
  <2> HIDE DEF S
  <2> QED BY <1>7, <2>1, SeqMonotonic
<1> QED BY <1>6, <1>7, <1>8, <1>9

\* y is not ahead of x in a lane: it is not there, or x is, and no later.
LEMMA NotAhead ==
    ASSUME NEW s \in Seq(Ids), NEW x, NEW y, ~Ahead(s, y, x)
    PROVE  y \in Range(s) => x \in Range(s) /\ Place(s, x) <= Place(s, y)
<1> SUFFICES ASSUME y \in Range(s) PROVE x \in Range(s) /\ Place(s, x) <= Place(s, y)
  OBVIOUS
<1>1. Len(s) \in Nat /\ DOMAIN s = 1..Len(s)
  BY LenProperties
<1>2. Place(s, y) \in 1..Len(s) /\ s[Place(s, y)] = y
  BY PlaceLeast
<1>3. PICK j \in Positions(s, x) : ~(Place(s, y) < j)
  BY <1>1, <1>2 DEF Ahead, Positions
<1>4. j \in 1..Len(s) /\ s[j] = x
  BY <1>1, <1>3 DEF Positions
<1>5. x \in Range(s)
  BY <1>1, <1>4 DEF Range
<1>6. Place(s, x) <= j /\ Place(s, x) \in 1..Len(s)
  BY <1>4, <1>5, PlaceLeast
<1> QED BY <1>1, <1>2, <1>3, <1>4, <1>5, <1>6

\* A chunk that no lane has behind another has no less of a score,
LEMMA NoLessShare ==
    ASSUME NEW s \in Seq(Ids), NEW x, NEW y, ~Ahead(s, y, x)
    PROVE  Share(s, x) >= Share(s, y)
<1>1. Share(s, x) \in Nat /\ Share(s, y) \in Nat
  BY ShareNat
<1>2. CASE y \notin Range(s)
  BY <1>1, <1>2, ShareNat
<1>3. CASE y \in Range(s)
  <2>1. x \in Range(s) /\ Place(s, x) <= Place(s, y)
    BY <1>3, NotAhead
  <2>2. Place(s, x) \in 1..Len(s) /\ Place(s, y) \in 1..Len(s) /\ Len(s) \in Nat
    BY <1>3, <2>1, PlaceLeast, LenProperties
  <2>3. RrfK \in Nat /\ Scale \in Nat
    BY ScoresAssumption
  <2> DEFINE b == RrfK + Place(s, x)
             c == RrfK + Place(s, y)
  <2>4. b \in Nat \ {0} /\ c \in Nat \ {0} /\ b <= c
    BY <2>1, <2>2, <2>3
  <2>5. Share(s, x) = Scale \div b /\ Share(s, y) = Scale \div c
    BY <1>3, <2>1, ShareNat
  <2> HIDE DEF b, c
  <2>6. Scale \div c <= Scale \div b
    BY <2>3, <2>4, DivFalls
  <2> QED BY <1>1, <2>5, <2>6
<1> QED BY <1>2, <1>3

\* and an earlier place among all that is fused.
LEMMA NoLaterPlace ==
    ASSUME NEW ls, LanesTyped(ls),
           NEW x \in Range(Inserted(ls)), NEW y \in Range(Inserted(ls)), x # y,
           ~Ahead(ls.vector, y, x), ~Ahead(ls.bm25, y, x)
    PROVE  Place(Inserted(ls), x) < Place(Inserted(ls), y)
<1> DEFINE v == ls.vector
           b == ls.bm25
           all == Inserted(ls)
           q == Place(all, y)
<1>1. v \in Seq(Ids) /\ b \in Seq(Ids) /\ all \in Seq(Ids)
  BY InsertedFacts DEF LanesTyped
<1>2. Len(v) \in Nat /\ Len(b) \in Nat /\ DOMAIN v = 1..Len(v) /\ DOMAIN b = 1..Len(b)
  BY <1>1, LenProperties
<1>3. /\ Len(all) = Len(v) + Len(b)
      /\ \A i \in 1..Len(v) + Len(b) : all[i] = IF i <= Len(v) THEN v[i] ELSE b[i - Len(v)]
  BY <1>1, ConcatProperties DEF Inserted
<1>4. /\ q \in 1..Len(all) /\ all[q] = y
      /\ Place(all, x) \in 1..Len(all) /\ all[Place(all, x)] = x
      /\ \A j \in 1..Len(all) : all[j] = x => Place(all, x) <= j
  BY <1>1, PlaceLeast
<1>5. ~Ahead(v, y, x) /\ ~Ahead(b, y, x)
  OBVIOUS
<1>6. v \o b = all /\ Range(all) = Range(v) \cup Range(b)
  BY InsertedFacts DEF Inserted
<1> HIDE DEF v, b, all, q
<1>7. \A i \in 1..Len(v) : i \in 1..Len(all) /\ all[i] = v[i]
  BY <1>2, <1>3
<1>8. \A i \in 1..Len(b) : Len(v) + i \in 1..Len(all) /\ all[Len(v) + i] = b[i]
  <2> SUFFICES ASSUME NEW i \in 1..Len(b)
               PROVE  Len(v) + i \in 1..Len(all) /\ all[Len(v) + i] = b[i]
    OBVIOUS
  <2> DEFINE k == Len(v) + i
  <2>1. k \in 1..Len(v) + Len(b) /\ ~(k <= Len(v)) /\ k - Len(v) = i
    BY <1>2
  <2> HIDE DEF k
  <2>2. k \in 1..Len(all) /\ all[k] = b[i]
    BY <1>3, <2>1
  <2> QED BY <2>2 DEF k
<1>9. x \in Range(v) => Place(v, x) \in 1..Len(v) /\ Place(all, x) <= Place(v, x)
  <2> SUFFICES ASSUME x \in Range(v)
               PROVE  Place(v, x) \in 1..Len(v) /\ Place(all, x) <= Place(v, x)
    OBVIOUS
  <2>1. Place(v, x) \in 1..Len(v) /\ v[Place(v, x)] = x
    BY <1>1, PlaceLeast
  <2> QED BY <1>4, <1>7, <2>1
<1>10. CASE q <= Len(v)
  <2>1. q \in 1..Len(v) /\ v[q] = y
    BY <1>2, <1>3, <1>4, <1>7, <1>10
  <2>2. y \in Range(v)
    BY <1>2, <2>1 DEF Range
  <2>3. Place(v, y) <= q /\ Place(v, y) \in 1..Len(v)
    BY <1>1, <2>1, <2>2, PlaceLeast
  <2>4. x \in Range(v) /\ Place(v, x) <= Place(v, y)
    BY <1>1, <1>5, <2>2, NotAhead
  <2>5. Place(all, x) <= q
    BY <1>2, <1>3, <1>4, <1>9, <2>3, <2>4
  <2>6. Place(all, x) # q
    BY <1>4
  <2> QED BY <1>2, <1>3, <1>4, <2>5, <2>6 DEF q, all
<1>11. CASE ~(q <= Len(v))
  <2> DEFINE r == q - Len(v)
  <2>1. r \in 1..Len(b) /\ q = Len(v) + r
    BY <1>2, <1>3, <1>4, <1>11
  <2> HIDE DEF r
  <2>2. b[r] = y
    BY <1>4, <1>8, <2>1
  <2>3. y \in Range(b)
    BY <1>2, <2>1, <2>2 DEF Range
  <2>4. x \in Range(b) /\ Place(b, x) <= Place(b, y)
    BY <1>1, <1>5, <2>3, NotAhead
  <2>5. /\ Place(b, y) <= r /\ Place(b, y) \in 1..Len(b)
        /\ Place(b, x) \in 1..Len(b) /\ b[Place(b, x)] = x
    BY <1>1, <2>1, <2>2, <2>3, <2>4, PlaceLeast
  <2>6. Place(all, x) <= Len(v) + Place(b, x)
    BY <1>4, <1>8, <2>5
  <2>7. Place(all, x) <= q
    BY <1>2, <1>3, <1>4, <2>1, <2>4, <2>5, <2>6
  <2>8. Place(all, x) # q
    BY <1>4
  <2> QED BY <1>2, <1>3, <1>4, <2>7, <2>8 DEF q, all
<1> QED BY <1>10, <1>11
\* FusionAgrees, of any two lanes.
LEMMA Agreement ==
    ASSUME NEW ls, LanesTyped(ls),
           NEW x \in Range(ls.vector) \cup Range(ls.bm25),
           NEW y \in Range(ls.vector) \cup Range(ls.bm25),
           Ahead(ls.vector, x, y) \/ Ahead(ls.bm25, x, y),
           ~Ahead(ls.vector, y, x), ~Ahead(ls.bm25, y, x)
    PROVE  Ahead(RrfFuse(ls), x, y)
<1> DEFINE S == Range(Inserted(ls))
           F == RrfFuse(ls)
           R == Fusion(ls)
<1>1. ls.vector \in Seq(Ids) /\ ls.bm25 \in Seq(Ids)
  BY DEF LanesTyped
<1>2. x \in S /\ y \in S
  BY InsertedFacts
<1>3. x # y
  <2>1. \A i \in Nat : ~(i < i)
    OBVIOUS
  <2>2. DOMAIN ls.vector \in SUBSET Nat /\ DOMAIN ls.bm25 \in SUBSET Nat
    BY <1>1, LenProperties
  <2> SUFFICES ASSUME x = y PROVE FALSE
    OBVIOUS
  <2>3. ASSUME NEW s, DOMAIN s \in SUBSET Nat, Ahead(s, x, x) PROVE FALSE
    BY <2>1, <2>3 DEF Ahead, Positions
  <2> QED BY <2>2, <2>3
<1>4. <<x, y>> \in R
  <2>1. /\ Share(ls.vector, x) >= Share(ls.vector, y)
        /\ Share(ls.bm25, x) >= Share(ls.bm25, y)
        /\ {Share(ls.vector, x), Share(ls.vector, y), Share(ls.bm25, x), Share(ls.bm25, y)} \subseteq Nat
    BY <1>1, NoLessShare, ShareNat
  <2>2. RrfScore(ls, x) >= RrfScore(ls, y) /\ RrfScore(ls, x) \in Nat /\ RrfScore(ls, y) \in Nat
    BY <2>1 DEF RrfScore
  <2>3. Place(Inserted(ls), x) < Place(Inserted(ls), y)
    BY <1>2, <1>3, NoLaterPlace
  <2>4. Outranks(ls, x, y)
    BY <2>2, <2>3 DEF Outranks
  <2> QED BY <1>2, <2>4 DEF Fusion
<1>5. Orders(R, S) /\ Ranks(F, S, R) /\ Range(F) = S /\ F \in Seq(Ids) /\ Len(F) = Cardinality(S)
  BY FusionOrders, FusedRanks, InsertedFacts
<1>6. DOMAIN F = 1..Len(F) /\ Len(F) \in Nat
  BY <1>5, LenProperties
<1> HIDE DEF S, F, R
<1>7. PICK i \in DOMAIN F : F[i] = x
  BY <1>2, <1>5 DEF Range
<1>8. ASSUME NEW j \in Positions(F, y) PROVE i < j
  <2>1. j \in 1..Len(F) /\ i \in 1..Len(F) /\ F[j] = y
    BY <1>6 DEF Positions
  <2>2. i # j
    BY <1>3, <1>7, <2>1
  <2>3. j < i => <<y, x>> \in R
    BY <1>5, <1>7, <2>1 DEF Ranks
  <2>4. <<y, x>> \notin R
    BY <1>2, <1>4, <1>5 DEF Orders
  <2> QED BY <1>6, <2>1, <2>2, <2>3, <2>4
<1>9. i \in Positions(F, x)
  BY <1>7 DEF Positions
<1> QED BY <1>8, <1>9 DEF Ahead, F
-----------------------------------------------------------------------------
(* The hits of a search.                                                   *)

\* The first elements of a list.
LEMMA FirstsFacts ==
    ASSUME NEW E, NEW s \in Seq(E), NEW n \in Nat
    PROVE  LET f == Firsts(s, n) IN
           /\ f \in Seq(E) /\ Len(f) = (IF Len(s) < n THEN Len(s) ELSE n)
           /\ Range(f) \subseteq Range(s)
           /\ IsInjective(s) => IsInjective(f)
<1> DEFINE m == IF Len(s) < n THEN Len(s) ELSE n
           f == SubSeq(s, 1, m)
<1>1. Len(s) \in Nat /\ DOMAIN s = 1..Len(s) /\ \A i \in 1..Len(s) : s[i] \in E
  BY LenProperties, ElementOfSeq
<1>2. m \in Nat /\ m <= Len(s) /\ Firsts(s, n) = f
  BY <1>1 DEF Firsts
<1> HIDE DEF m
<1>3. f = [i \in 1..m |-> s[i]]
  BY <1>1, <1>2
<1>4. f \in Seq(E) /\ Len(f) = m /\ DOMAIN f = 1..m /\ \A i \in 1..m : f[i] = s[i]
  BY <1>1, <1>2, <1>3
<1> HIDE DEF f
<1>5. Range(f) \subseteq Range(s)
  BY <1>1, <1>2, <1>4 DEF Range
<1>6. IsInjective(s) => IsInjective(f)
  BY <1>1, <1>2, <1>4 DEF IsInjective
<1> QED BY <1>2, <1>4, <1>5, <1>6 DEF m

\* A comprehension keeps what passes the test.
LEMMA PoolFacts ==
    ASSUME LanesTyped(lanes)
    PROVE  LET firsts == Firsts(RrfFuse(lanes), RerankPool)
               pool == Pool(lanes)
           IN  /\ pool \in Seq(Ids) /\ IsInjective(pool)
               /\ Range(pool) = Range(firsts) \cap entry
<1> DEFINE firsts == Firsts(RrfFuse(lanes), RerankPool)
           K == {x \in {firsts[i] : i \in DOMAIN firsts} : x \in entry}
<1>1. RrfFuse(lanes) \in Seq(Ids) /\ IsInjective(RrfFuse(lanes))
  BY FusedRanks
<1>2. RerankPool \in Nat
  BY SizesAssumption
<1>3. firsts \in Seq(Ids) /\ IsInjective(firsts)
  BY <1>1, <1>2, FirstsFacts
<1>4. Pool(lanes) = Filtered(firsts, K)
  BY DEF Pool, Selected
<1>5. K = Range(firsts) \cap entry
  BY DEF Range
<1> HIDE DEF firsts, K
<1>6. /\ Filtered(firsts, K) \in Seq(Ids) /\ IsInjective(Filtered(firsts, K))
      /\ Range(Filtered(firsts, K)) = Range(firsts) \cap K
  BY <1>3, FilteredType, FilteredInjective, FilteredRange
<1> QED BY <1>4, <1>5, <1>6 DEF firsts

\* A reranker reorders.
LEMMA RerankedFacts ==
    ASSUME NEW pool \in Seq(Ids), IsInjective(pool), NEW score \in [ToSet(pool) -> Scores]
    PROVE  LET r == Reranked(pool, score) IN
           r \in Seq(Ids) /\ Len(r) = Len(pool) /\ IsInjective(r) /\ Range(r) \subseteq Range(pool)
<1> DEFINE N == Len(pool)
           S == 1..N
           R == {p \in S \X S : Precedes(pool, score, p[1], p[2])}
           order == Sorted(DOMAIN pool, LAMBDA i, j : Precedes(pool, score, i, j))
           ranks(s) == \A i, j \in 1..N : i < j => Precedes(pool, score, s[i], s[j])
<1>1. N \in Nat /\ DOMAIN pool = S /\ \A i \in S : pool[i] \in Ids
  BY LenProperties, ElementOfSeq
<1>2. IsFiniteSet(S) /\ Cardinality(S) = N
  BY <1>1, FS_Interval
<1>3. \A i \in S : score[pool[i]] \in Nat
  <2>1. \A i \in S : pool[i] \in ToSet(pool)
    BY <1>1 DEF ToSet
  <2>2. Scores \subseteq Nat
    BY ScoresAssumption
  <2> QED BY <2>1, <2>2
<1>4. Orders(R, S)
  <2>1. S \subseteq Nat
    OBVIOUS
  <2>2. \A i, j \in S : <<i, j>> \in R <=>
           \/ score[pool[i]] > score[pool[j]]
           \/ score[pool[i]] = score[pool[j]] /\ i < j
    BY DEF Precedes
  <2> HIDE DEF R, S
  <2>3. \A x \in S : <<x, x>> \notin R
    BY <1>3, <2>1, <2>2
  <2>4. \A x, y, z \in S : <<x, y>> \in R /\ <<y, z>> \in R => <<x, z>> \in R
    BY <1>3, <2>1, <2>2
  <2>5. \A x, y \in S : x # y => <<x, y>> \in R \/ <<y, x>> \in R
    BY <1>3, <2>1, <2>2
  <2> QED BY <2>3, <2>4, <2>5 DEF Orders
<1>5. order = CHOOSE s \in [1..N -> S] : ranks(s)
  BY <1>1, <1>2 DEF Sorted
<1>6. ASSUME NEW s \in [1..N -> S] PROVE ranks(s) <=> Ranks(s, S, R)
  <2>1. \A i, j \in 1..N : <<s[i], s[j]>> \in R <=> Precedes(pool, score, s[i], s[j])
    <3>1. \A i \in 1..N : s[i] \in S
      OBVIOUS
    <3> QED BY <3>1
  <2> QED BY <1>2, <2>1 DEF Ranks
<1>7. \E s \in [1..N -> S] : ranks(s)
  <2>1. PICK s : Ranks(s, S, R)
    <3> HIDE DEF S, R
    <3> QED BY <1>2, <1>4, RankingExists
  <2>2. s \in [1..N -> S]
    BY <1>2, <2>1 DEF Ranks
  <2> QED BY <1>6, <2>1, <2>2
<1>8. order \in [1..N -> S] /\ ranks(order)
  <2> HIDE DEF N, S, ranks, order
  <2> QED BY <1>5, <1>7
<1>9. IsInjective(order) /\ Len(order) = N
  <2>1. Ranks(order, S, R)
    BY <1>6, <1>8
  <2> HIDE DEF S, R, order
  <2> QED BY <1>2, <1>4, <2>1, RankingWhole
<1> DEFINE r == [i \in DOMAIN pool |-> pool[order[i]]]
<1>10. Reranked(pool, score) = r
  BY DEF Reranked
<1> HIDE DEF order, R, ranks
<1>11. \A i \in 1..N : order[i] \in 1..N /\ r[i] = pool[order[i]]
  BY <1>1, <1>8
<1>12. r \in Seq(Ids) /\ Len(r) = N /\ DOMAIN r = 1..N
  <2>1. \A i \in 1..N : pool[order[i]] \in Ids
    BY <1>1, <1>11
  <2> HIDE DEF N
  <2>2. r = [i \in 1..N |-> pool[order[i]]]
    BY <1>1 DEF S
  <2>3. r \in [1..N -> Ids]
    BY <2>1, <2>2
  <2> HIDE DEF r
  <2> QED BY <1>1, <2>3
<1> HIDE DEF r
<1>13. IsInjective(r)
  <2>1. \A i, j \in 1..N : order[i] = order[j] => i = j
    BY <1>8, <1>9 DEF IsInjective
  <2>2. \A i, j \in 1..N : pool[i] = pool[j] => i = j
    BY <1>1 DEF IsInjective
  <2> QED BY <1>11, <1>12, <2>1, <2>2 DEF IsInjective
<1>14. Range(r) \subseteq Range(pool)
  BY <1>1, <1>11, <1>12 DEF Range
<1> QED BY <1>10, <1>12, <1>13, <1>14
\* What fusion, the cut to the entry, the reranker and the cut to TopK leave.
LEMMA HitsFacts ==
    ASSUME LanesTyped(lanes), NEW score \in [ToSet(Pool(lanes)) -> Scores]
    PROVE  LET h == Firsts(Reranked(Pool(lanes), score), TopK)
               lost == Cardinality(Found \ entry)
           IN  /\ h \in Seq(Ids) /\ ToSet(h) \subseteq entry \cap Found
               /\ Len(h) = Cardinality(ToSet(h)) /\ Len(h) <= TopK
               /\ \/ Len(h) = TopK
                  \/ Len(h) + lost >= Cardinality(Found)
                  \/ Len(h) + lost >= RerankPool
<1> DEFINE fused == RrfFuse(lanes)
           firsts == Firsts(fused, RerankPool)
           pool == Pool(lanes)
           ranked == Reranked(pool, score)
           h == Firsts(ranked, TopK)
           lost == Cardinality(Found \ entry)
<1>1. RerankPool \in Nat /\ TopK \in Nat
  BY SizesAssumption
<1>2. Found = Range(lanes.vector) \cup Range(lanes.bm25)
  BY DEF Found, ToSet, Range
<1>3. /\ fused \in Seq(Ids) /\ IsInjective(fused) /\ Range(fused) = Found
      /\ Len(fused) = Cardinality(Found)
  BY <1>2, FusedRanks
<1>4. /\ firsts \in Seq(Ids) /\ IsInjective(firsts) /\ Range(firsts) \subseteq Found
      /\ Len(firsts) = IF Len(fused) < RerankPool THEN Len(fused) ELSE RerankPool
  BY <1>1, <1>3, FirstsFacts
<1>5. pool \in Seq(Ids) /\ IsInjective(pool) /\ Range(pool) = Range(firsts) \cap entry
  BY PoolFacts
<1>6. /\ ranked \in Seq(Ids) /\ Len(ranked) = Len(pool) /\ IsInjective(ranked)
      /\ Range(ranked) \subseteq Range(pool)
  <2> HIDE DEF pool
  <2> QED BY <1>5, RerankedFacts DEF pool
<1>7. /\ h \in Seq(Ids) /\ IsInjective(h) /\ Range(h) \subseteq Range(ranked)
      /\ Len(h) = IF Len(ranked) < TopK THEN Len(ranked) ELSE TopK
  <2> HIDE DEF ranked
  <2> QED BY <1>1, <1>6, FirstsFacts
<1> HIDE DEF fused, firsts, pool, ranked, h
<1>8. ToSet(h) = Range(h)
  BY DEF ToSet, Range
<1>9. /\ Len(h) = Cardinality(Range(h)) /\ Len(pool) = Cardinality(Range(pool))
      /\ Len(firsts) = Cardinality(Range(firsts))
      /\ IsFiniteSet(Range(firsts)) /\ IsFiniteSet(Range(pool)) /\ IsFiniteSet(Found)
  BY <1>3, <1>4, <1>5, <1>7, InjectiveLength
<1>10. Len(firsts) <= Len(pool) + lost
  <2> DEFINE gone == Range(firsts) \ entry
  <2>1. gone \subseteq Found \ entry /\ IsFiniteSet(Found \ entry)
    BY <1>4, <1>9, FS_Difference
  <2>2. IsFiniteSet(gone) /\ Cardinality(gone) <= lost /\ lost \in Nat
    BY <2>1, FS_Subset, FS_CardinalityType
  <2>3. Range(firsts) = Range(pool) \cup gone
    BY <1>5
  <2> HIDE DEF gone, lost
  <2>4. Cardinality(Range(pool) \cap gone) \in Nat /\ Cardinality(gone) \in Nat /\ Len(pool) \in Nat
    BY <1>5, <1>9, <2>2, FS_Intersection, FS_CardinalityType, LenProperties
  <2>5. Cardinality(Range(firsts)) =
           Cardinality(Range(pool)) + Cardinality(gone) - Cardinality(Range(pool) \cap gone)
    BY <1>9, <2>2, <2>3, FS_Union
  <2> QED BY <1>9, <2>2, <2>4, <2>5
<1>11. {Len(h), Len(fused), Len(firsts), Len(pool), Len(ranked)} \subseteq Nat
  BY <1>3, <1>4, <1>5, <1>6, <1>7, LenProperties
<1>12. lost \in Nat
  BY <1>9, FS_Difference, FS_CardinalityType
<1> HIDE DEF lost
<1>13. /\ Len(h) <= TopK
       /\ \/ Len(h) = TopK
          \/ Len(h) + lost >= Cardinality(Found)
          \/ Len(h) + lost >= RerankPool
  BY <1>1, <1>3, <1>4, <1>6, <1>7, <1>10, <1>11, <1>12
<1>14. Range(h) \subseteq entry \cap Found
  BY <1>4, <1>5, <1>6, <1>7
<1> QED BY <1>7, <1>8, <1>9, <1>13, <1>14 DEF h, ranked, pool, lost
-----------------------------------------------------------------------------
(* The inductive invariant.                                                *)

CallSet  == [id : Words, name : Pieces, args : Pieces]
Turns    == [role : {"user", "assistant"}, content : Pieces]
Messages == [role : {"user", "assistant", "tool"}, content : Pieces,
             calls : Seq(CallSet), id : Words]

SearchTyped ==
    /\ rows \subseteq Ids
    /\ LanesTyped(lanes) /\ lanes = [vector |-> lanes.vector, bm25 |-> lanes.bm25]
    /\ hits \in Seq(Ids) /\ Len(hits) <= TopK

GraphTyped ==
    /\ cited \in Seq(Ids) /\ Len(cited) <= TopK
    /\ history \in Seq(Turns)
    /\ messages \in Seq(Messages)
    /\ replies \in Seq(Pieces) /\ streamed \in Pieces

\* ToolCallsAnswered, of any list of messages, whenever it is looked at.
Answered(ms) ==
    /\ \A i \in 1..Len(ms) :
           /\ i + Len(ms[i].calls) <= Len(ms)
           /\ \A k \in 1..Len(ms[i].calls) :
                  ms[i + k].role = "tool" /\ ms[i + k].id = ms[i].calls[k].id
    /\ \A j \in 1..Len(ms) :
           ms[j].role = "tool" => \E i \in 1..(j - 1) : j <= i + Len(ms[i].calls)

\* The messages with words of the assistant.
Uttered == {m \in Messages : m.role = "assistant" /\ m.content # Blank}

\* While the model is asked, the last words in the messages are its own, if it has
\* said one.
LastWords ==
    phase = "ask" /\ Spoken(replies) # <<>> =>
        Recorded(messages) # <<>> /\ Last(Recorded(messages)).content = Last(Spoken(replies))

Progress ==
    /\ phase \in {"rewrite", "retrieve", "verify"} => replies = <<>>
    /\ phase = "ask" => cited # <<>>
    /\ phase # "failed" /\ mode = "stream" => streamed = FlattenSeq(replies)

SearchInv == SearchTyped /\ HitsSound
GraphInv  == GraphTyped /\ Answered(messages) /\ LastWords /\ Progress
EndInv    == AnswerIsLastSaid /\ MarksCited
-----------------------------------------------------------------------------
(* The search keeps its part.                                              *)

\* A lane is a list of ids.
LEMMA LanesType ==
    ASSUME NEW S \in SUBSET Ids, NEW s \in Lanes(S)
    PROVE  s \in Seq(Ids)
<1>1. FetchK \in Nat
  BY SizesAssumption DEF FetchK
<1>2. PICK m \in 0..FetchK : s \in [1..m -> S]
  BY DEF Lanes, BoundedSeq, SeqOf
<1>3. m \in Nat
  BY <1>1, <1>2
<1> QED BY <1>2, <1>3

\* The search's part of the invariant holds before the first question.
LEMMA SearchStart == Init => SearchInv
<1> SUFFICES ASSUME Init PROVE SearchInv
  OBVIOUS
<1> USE DEF Init, SearchInit
<1>1. <<>> \in Seq(Ids) /\ Len(<<>>) = 0
  BY EmptySeq
<1>2. TopK \in Nat
  BY SizesAssumption
<1>3. lanes = [vector |-> <<>>, bm25 |-> <<>>] /\ hits = <<>> /\ rows \subseteq Ids
  OBVIOUS
<1>4. lanes.vector = <<>> /\ lanes.bm25 = <<>>
  BY <1>3
<1>5. SearchTyped
  BY <1>1, <1>2, <1>3, <1>4 DEF SearchTyped, LanesTyped
<1>6. HitsSound
  BY DEF HitsSound
<1> QED BY <1>5, <1>6 DEF SearchInv

\* search() starts anew: nothing is left of the last one.
LEMMA ForgetKeeps ==
    ASSUME Forget, rows' = rows, SearchInv
    PROVE  SearchInv'
<1>1. <<>> \in Seq(Ids) /\ Len(<<>>) = 0
  BY EmptySeq
<1>2. TopK \in Nat
  BY SizesAssumption
<1>3. lanes' = [vector |-> <<>>, bm25 |-> <<>>] /\ hits' = <<>> /\ step' = "snapshot"
  BY DEF Forget
<1>4. lanes'.vector = <<>> /\ lanes'.bm25 = <<>> /\ lanes' = [vector |-> lanes'.vector, bm25 |-> lanes'.bm25]
  BY <1>3
<1>5. SearchTyped'
  BY <1>1, <1>2, <1>3, <1>4 DEF SearchTyped, LanesTyped, SearchInv
<1>6. HitsSound'
  BY <1>3 DEF HitsSound
<1> QED BY <1>5, <1>6 DEF SearchInv

\* What leaves the search alone.
LEMMA SearchStutters ==
    ASSUME SearchInv, UNCHANGED <<rows, search>>
    PROVE  SearchInv'
BY DEF SearchInv, SearchTyped, LanesTyped, HitsSound, Found, search

\* A step of search(), or of a transaction beside it.
LEMMA SearchSteps ==
    ASSUME SearchInv, SearchNext
    PROVE  SearchInv'
<1>1. /\ rows \subseteq Ids /\ lanes.vector \in Seq(Ids) /\ lanes.bm25 \in Seq(Ids)
      /\ lanes = [vector |-> lanes.vector, bm25 |-> lanes.bm25]
      /\ hits \in Seq(Ids) /\ Len(hits) <= TopK
  BY DEF SearchInv, SearchTyped, LanesTyped
<1>2. CASE Write
  <2>1. rows' \subseteq Ids /\ UNCHANGED search /\ step # "found"
    BY <1>1, <1>2 DEF Write
  <2>2. SearchTyped'
    BY <1>1, <2>1 DEF SearchTyped, LanesTyped, search
  <2>3. HitsSound'
    BY <2>1 DEF HitsSound, search
  <2> QED BY <2>2, <2>3 DEF SearchInv
<1>3. CASE Snapshot
  <2>1. SearchTyped'
    BY <1>1, <1>3 DEF Snapshot, SearchTyped, LanesTyped
  <2>2. HitsSound'
    BY <1>3 DEF Snapshot, HitsSound
  <2> QED BY <2>1, <2>2 DEF SearchInv
<1>4. CASE SearchVector
  <2>1. PICK s \in Lanes(rows) : lanes' = [lanes EXCEPT !.vector = s]
    BY <1>4 DEF SearchVector
  <2>2. s \in Seq(Ids)
    BY <1>1, LanesType
  <2>3. lanes' = [vector |-> s, bm25 |-> lanes.bm25]
    BY <1>1, <2>1
  <2>4. lanes'.vector = s /\ lanes'.bm25 = lanes.bm25
    BY <2>3
  <2>5. SearchTyped'
    BY <1>1, <1>4, <2>2, <2>3, <2>4 DEF SearchVector, SearchTyped, LanesTyped
  <2>6. HitsSound'
    BY <1>4 DEF SearchVector, HitsSound
  <2> QED BY <2>5, <2>6 DEF SearchInv
<1>5. CASE SearchBm25
  <2>1. PICK s \in Lanes(rows) : lanes' = [lanes EXCEPT !.bm25 = s]
    BY <1>5 DEF SearchBm25
  <2>2. s \in Seq(Ids)
    BY <1>1, LanesType
  <2>3. lanes' = [vector |-> lanes.vector, bm25 |-> s]
    BY <1>1, <2>1
  <2>4. lanes'.vector = lanes.vector /\ lanes'.bm25 = s
    BY <2>3
  <2>5. SearchTyped'
    BY <1>1, <1>5, <2>2, <2>3, <2>4 DEF SearchBm25, SearchTyped, LanesTyped
  <2>6. HitsSound'
    BY <1>5 DEF SearchBm25, HitsSound
  <2> QED BY <2>5, <2>6 DEF SearchInv
<1>6. CASE Fuse
  <2>1. PICK score \in [ToSet(Pool(lanes)) -> Scores] :
            hits' = Firsts(Reranked(Pool(lanes), score), TopK)
    BY <1>6 DEF Fuse
  <2>2. UNCHANGED <<rows, entry, lanes>>
    BY <1>6 DEF Fuse
  <2>3. /\ hits' \in Seq(Ids) /\ ToSet(hits') \subseteq entry \cap Found
        /\ Len(hits') = Cardinality(ToSet(hits')) /\ Len(hits') <= TopK
        /\ \/ Len(hits') = TopK
           \/ Len(hits') + Cardinality(Found \ entry) >= Cardinality(Found)
           \/ Len(hits') + Cardinality(Found \ entry) >= RerankPool
    <3>1. LanesTyped(lanes)
      BY <1>1 DEF LanesTyped
    <3> QED BY <2>1, <3>1, HitsFacts
  <2>4. SearchTyped'
    BY <1>1, <2>2, <2>3 DEF SearchTyped, LanesTyped
  <2>5. Found' = Found
    BY <2>2 DEF Found
  <2>6. HitsSound'
    BY <2>2, <2>3, <2>5 DEF HitsSound
  <2> QED BY <2>4, <2>6 DEF SearchInv
<1> QED BY <1>2, <1>3, <1>4, <1>5, <1>6 DEF SearchNext

\* Every step of a turn keeps the search's part of the invariant.
LEMMA SearchKeeps ==
    ASSUME SearchInv, [Next]_vars
    PROVE  SearchInv'
<1>1. CASE phase = "retrieve" /\ SearchNext /\ UNCHANGED graph
  BY <1>1, SearchSteps
<1>2. CASE Retrieve \/ Raise
  <2>1. Forget /\ rows' = rows
    BY <1>2 DEF Retrieve, Raise
  <2> QED BY <2>1, ForgetKeeps
<1>3. CASE Rewrite \/ Refuse \/ Template \/ Ask \/ ReplyWhole \/ ReplyStreamed \/ GiveUp \/ UNCHANGED vars
  <2>1. UNCHANGED <<rows, search>>
    BY <1>3 DEF Rewrite, Refuse, Template, Ask, ReplyWhole, ReplyStreamed, Reply, GiveUp, vars
  <2> QED BY <2>1, SearchStutters
<1> QED BY <1>1, <1>2, <1>3 DEF Next

\* What a search returns was stored when it began, each chunk once, and was found by
\* a lane; it returns as many as it may, but for the chunks stored while it ran.
THEOREM SearchHitsSound == Spec => []HitsSound
<1>1. Init => SearchInv
  BY SearchStart
<1>2. SearchInv /\ [Next]_vars => SearchInv'
  BY SearchKeeps
<1>3. SearchInv => HitsSound
  BY DEF SearchInv
<1> QED BY <1>1, <1>2, <1>3, PTL DEF Spec

\* A chunk ahead of another in one lane, and behind it in none, is ahead in the result,
\* for every k of the fusion and every number of candidates.
THEOREM SearchFusionAgrees == Spec => []FusionAgrees
<1>1. Init => SearchInv
  BY SearchStart
<1>2. SearchInv /\ [Next]_vars => SearchInv'
  BY SearchKeeps
<1>3. SearchInv => FusionAgrees
  <2> SUFFICES ASSUME SearchInv PROVE FusionAgrees
    OBVIOUS
  <2>1. LanesTyped(lanes)
    BY DEF SearchInv, SearchTyped
  <2>2. Found = Range(lanes.vector) \cup Range(lanes.bm25)
    BY DEF Found, ToSet, Range
  <2>3. ASSUME NEW x \in Found, NEW y \in Found,
               Ahead(lanes.vector, x, y) \/ Ahead(lanes.bm25, x, y),
               ~Ahead(lanes.vector, y, x), ~Ahead(lanes.bm25, y, x)
        PROVE  Ahead(RrfFuse(lanes), x, y)
    BY <2>1, <2>2, <2>3, Agreement
  <2> QED BY <2>3 DEF FusionAgrees
<1> QED BY <1>1, <1>2, <1>3, PTL DEF Spec
-----------------------------------------------------------------------------
(* Texts and messages.                                                     *)

\* The comprehensions keep what is in a set that does not depend on the list.
LEMMA SpokenIs ==
    ASSUME NEW rs \in Seq(Pieces)
    PROVE  Spoken(rs) = Filtered(rs, Pieces \ {Blank}) /\ Spoken(rs) \in Seq(Pieces)
<1> DEFINE K == {x \in {rs[i] : i \in DOMAIN rs} : x # Blank}
           L == Pieces \ {Blank}
<1>1. Spoken(rs) = Filtered(rs, K)
  BY DEF Spoken, Selected
<1>2. Range(rs) \in SUBSET Pieces /\ Range(rs) = {rs[i] : i \in DOMAIN rs}
  BY RangeOfSeq DEF Range
<1>3. Range(rs) \cap K = Range(rs) \cap L
  BY <1>2
<1> HIDE DEF K, L
<1>4. Filtered(rs, K) = Filtered(rs, L)
  BY <1>3, FilteredSame
<1>5. Filtered(rs, L) \in Seq(Pieces)
  BY FilteredType
<1> QED BY <1>1, <1>4, <1>5 DEF L

\* Recorded keeps the tool messages of a log, in order.
LEMMA RecordedIs ==
    ASSUME NEW ms \in Seq(Messages)
    PROVE  /\ Recorded(ms) = Filtered(ms, Uttered) /\ Recorded(ms) \in Seq(Messages)
           /\ Range(Recorded(ms)) \subseteq Range(ms)
<1> DEFINE K == {m \in {ms[i] : i \in DOMAIN ms} : m.role = "assistant" /\ m.content # Blank}
<1>1. Recorded(ms) = Filtered(ms, K)
  BY DEF Recorded, Selected
<1>2. Range(ms) \in SUBSET Messages /\ Range(ms) = {ms[i] : i \in DOMAIN ms}
  BY RangeOfSeq DEF Range
<1>3. Range(ms) \cap K = Range(ms) \cap Uttered
  BY <1>2 DEF Uttered
<1> HIDE DEF K
<1>4. Filtered(ms, K) = Filtered(ms, Uttered)
  BY <1>3, FilteredSame
<1>5. Filtered(ms, Uttered) \in Seq(Messages) /\ Range(Filtered(ms, Uttered)) = Range(ms) \cap Uttered
  BY FilteredType, FilteredRange
<1> QED BY <1>1, <1>4, <1>5

\* One more reply.
LEMMA SpokenStep ==
    ASSUME NEW rs \in Seq(Pieces), NEW c \in Pieces
    PROVE  /\ c # Blank => Spoken(Append(rs, c)) = Append(Spoken(rs), c)
           /\ c = Blank => Spoken(Append(rs, c)) = Spoken(rs)
<1> DEFINE L == Pieces \ {Blank}
<1>1. /\ c # Blank => c \in L
      /\ c = Blank => c \notin L
  OBVIOUS
<1>2. Append(rs, c) \in Seq(Pieces)
  BY AppendProperties
<1>3. Spoken(rs) = Filtered(rs, L) /\ Spoken(Append(rs, c)) = Filtered(Append(rs, c), L)
  BY <1>2, SpokenIs
<1> HIDE DEF L
<1> QED BY <1>1, <1>3, FilteredIn, FilteredOut

\* The last of a list with one more element.
LEMMA LastAppend ==
    ASSUME NEW E, NEW s \in Seq(E), NEW e \in E
    PROVE  Last(Append(s, e)) = e /\ Append(s, e) # <<>>
BY AppendProperties DEF Last

\* Citations beyond the sources are gone, everything else stays.
LEMMA ScrubFacts ==
    ASSUME NEW text \in Pieces, NEW n \in Nat
    PROVE  /\ Scrub(text, n) \in Pieces
           /\ \A i \in DOMAIN Mark : Mark[i] \in Range(Scrub(text, n)) => i <= n
           /\ Range(Scrub(text, n)) \subseteq Range(text)
           /\ Range(text) \cap Range(Mark) = {} => Scrub(text, n) = text
           /\ Scrub(Blank, n) = Blank
<1> DEFINE ok(p) == \A i \in DOMAIN Mark : p = Mark[i] => i <= n
           K(s) == {x \in {s[i] : i \in DOMAIN s} : ok(x)}
<1>1. \A s : Scrub(s, n) = Filtered(s, K(s))
  BY DEF Scrub, Selected
<1>2. Range(text) = {text[i] : i \in DOMAIN text} /\ Range(Mark) = {Mark[i] : i \in DOMAIN Mark}
  BY DEF Range
<1>3. text \in Seq(Words)
  BY DEF Pieces
<1>4. \A x \in K(text) : x \in Range(text) /\ ok(x)
  BY <1>2
<1>5. Range(text) \cap Range(Mark) = {} => Range(text) \cap K(text) = Range(text) \cap Words
  <2>1. Range(text) \in SUBSET Words
    BY <1>3, RangeOfSeq
  <2> QED BY <1>2, <2>1
<1> HIDE DEF K, ok
<1>6. Filtered(text, K(text)) \in Seq(Words) /\ Range(Filtered(text, K(text))) = Range(text) \cap K(text)
  BY <1>3, FilteredType, FilteredRange
<1>7. Filtered(<<>>, K(<<>>)) = <<>>
  BY FilteredEmpty
<1>8. Filtered(text, Words) = text
  <2> DEFINE T == {s \in Seq(Words) : Filtered(s, Words) = s}
  <2>1. <<>> \in T
    BY FilteredEmpty, EmptySeq
  <2>2. ASSUME NEW s \in Seq(Words), NEW e \in Words, s \in T PROVE Append(s, e) \in T
    <3>1. Filtered(Append(s, e), Words) = Append(Filtered(s, Words), e)
      BY FilteredIn
    <3> QED BY <2>2, <3>1, AppendProperties
  <2>3. text \in T
    <3> HIDE DEF T
    <3> QED BY <1>3, <2>1, <2>2, SequenceInduction
  <2> QED BY <2>3
<1>9. Range(text) \cap Range(Mark) = {} => Filtered(text, K(text)) = Filtered(text, Words)
  BY <1>3, <1>5, FilteredSame
<1>10. \A i \in DOMAIN Mark : Mark[i] \in K(text) => i <= n
  BY <1>4 DEF ok
<1> QED BY <1>1, <1>6, <1>7, <1>8, <1>9, <1>10 DEF Pieces, Blank

\* What a message is.
LEMMA MessageType ==
    ASSUME NEW role \in {"user", "assistant", "tool"}, NEW content \in Pieces,
           NEW calls \in Seq(CallSet), NEW id \in Words
    PROVE  LET m == Message(role, content, calls, id) IN
           m \in Messages /\ m.role = role /\ m.content = content /\ m.calls = calls /\ m.id = id
BY DEF Message, Messages

\* The results of calls, one each.
LEMMA ResultsFacts ==
    ASSUME NEW calls \in Seq(CallSet)
    PROVE  /\ Results(calls) \in Seq(Messages) /\ Len(Results(calls)) = Len(calls)
           /\ \A k \in 1..Len(calls) : /\ Results(calls)[k].role = "tool"
                                       /\ Results(calls)[k].calls = <<>>
                                       /\ Results(calls)[k].id = calls[k].id
<1> DEFINE N == Len(calls)
           r(i) == Message("tool", <<Outcome(calls[i])>>, <<>>, calls[i].id)
<1>1. N \in Nat /\ DOMAIN calls = 1..N /\ \A i \in 1..N : calls[i] \in CallSet
  BY LenProperties, ElementOfSeq
<1>2. ASSUME NEW i \in 1..N
      PROVE  r(i) \in Messages /\ r(i).role = "tool" /\ r(i).calls = <<>> /\ r(i).id = calls[i].id
  <2>1. Outcome(calls[i]) \in Words
    BY WordsAssumption DEF Outcome
  <2>2. <<Outcome(calls[i])>> \in Pieces
    BY <2>1 DEF Pieces
  <2>3. <<>> \in Seq(CallSet)
    BY EmptySeq
  <2>4. calls[i].id \in Words
    BY <1>1 DEF CallSet
  <2> DEFINE c == <<Outcome(calls[i])>>
             d == calls[i].id
             e == <<>>
  <2>5. c \in Pieces /\ e \in Seq(CallSet) /\ d \in Words /\ r(i) = Message("tool", c, e, d)
    BY <2>2, <2>3, <2>4
  <2>6. r(i).role = Message("tool", c, e, d).role /\ e = <<>> /\ d = calls[i].id
    BY <2>5
  <2> HIDE DEF c, d, e, r
  <2>7. "tool" \in {"user", "assistant", "tool"}
    OBVIOUS
  <2>8. LET m == Message("tool", c, e, d) IN
        m \in Messages /\ m.role = "tool" /\ m.content = c /\ m.calls = e /\ m.id = d
    BY <2>5, <2>7, MessageType
  <2> QED BY <2>5, <2>6, <2>8
<1>3. Results(calls) = [i \in 1..N |-> r(i)]
  BY <1>1 DEF Results
<1> HIDE DEF r, N
<1>4. Results(calls) \in [1..N -> Messages] /\ \A i \in 1..N : Results(calls)[i] = r(i)
  BY <1>2, <1>3
<1>5. Results(calls) \in Seq(Messages) /\ Len(Results(calls)) = N
  BY <1>1, <1>4
<1> QED BY <1>2, <1>4, <1>5 DEF N

\* The conversation so far, as messages: no calls, no results, and its own contents.
LEMMA KeptFacts ==
    ASSUME NEW turns \in Seq(Turns)
    PROVE  /\ Kept(turns) \in Seq(Messages)
           /\ \A i \in 1..Len(Kept(turns)) :
                  /\ Kept(turns)[i].role # "tool" /\ Kept(turns)[i].calls = <<>>
                  /\ \E j \in DOMAIN turns : Kept(turns)[i].content = turns[j].content
<1> DEFINE n == Len(turns)
           a == IF n > KeptTurns THEN n - KeptTurns + 1 ELSE 1
           tail == SubSeq(turns, a, n)
           K == {x \in {tail[i] : i \in DOMAIN tail} : x.content # Blank}
           spoken == Selected(tail, LAMBDA t : t.content # Blank)
           m(i) == Message(spoken[i].role, spoken[i].content, <<>>, "")
<1>1. n \in Nat /\ KeptTurns \in Nat \ {0} /\ DOMAIN turns = 1..n
  BY RoundsAssumption, LenProperties
<1>2. a \in Nat \ {0}
  BY <1>1
<1>3. Kept(turns) = [i \in DOMAIN spoken |-> m(i)]
  BY DEF Kept
<1>4. spoken = Filtered(tail, K)
  BY DEF Selected
<1> HIDE DEF a, K
<1>5. tail \in Seq(Turns) /\ Range(tail) \subseteq Range(turns)
  <2>1. \A i \in a..n : i \in 1..n /\ turns[i] \in Turns
    BY <1>1, <1>2, ElementOfSeq
  <2>2. /\ tail \in Seq(Turns) /\ Len(tail) = (IF a <= n THEN n - a + 1 ELSE 0)
        /\ \A i \in 1..n - a + 1 : tail[i] = turns[a + i - 1]
    BY <1>1, <1>2, <2>1, SubSeqProperties
  <2> HIDE DEF tail
  <2>3. DOMAIN tail = 1..Len(tail)
    BY <2>2, LenProperties
  <2>4. ASSUME NEW i \in DOMAIN tail PROVE tail[i] \in Range(turns)
    <3> DEFINE k == a + i - 1
    <3>1. k \in 1..n /\ tail[i] = turns[k]
      BY <1>1, <1>2, <2>2, <2>3
    <3> HIDE DEF k
    <3> QED BY <1>1, <3>1 DEF Range
  <2> QED BY <2>2, <2>4 DEF Range
<1> HIDE DEF tail, spoken
<1>6. spoken \in Seq(Turns) /\ Range(spoken) \subseteq Range(turns)
  BY <1>4, <1>5, FilteredType, FilteredRange
<1>7. Len(spoken) \in Nat /\ DOMAIN spoken = 1..Len(spoken) /\ \A i \in 1..Len(spoken) : spoken[i] \in Turns
  BY <1>6, LenProperties, ElementOfSeq
<1>8. ASSUME NEW i \in 1..Len(spoken)
      PROVE  /\ m(i) \in Messages /\ m(i).role # "tool" /\ m(i).calls = <<>>
             /\ \E j \in DOMAIN turns : m(i).content = turns[j].content
  <2>1. spoken[i].role \in {"user", "assistant"} /\ spoken[i].content \in Pieces
    BY <1>7 DEF Turns
  <2>2. <<>> \in Seq(CallSet) /\ "" \in Words
    BY EmptySeq, WordsAssumption
  <2>3. m(i) \in Messages /\ m(i).role = spoken[i].role /\ m(i).calls = <<>> /\ m(i).content = spoken[i].content
    <3> DEFINE c == spoken[i].content
               d == spoken[i].role
               e == <<>>
               x == ""
    <3>1. /\ c \in Pieces /\ e \in Seq(CallSet) /\ x \in Words /\ d \in {"user", "assistant", "tool"}
          /\ m(i) = Message(d, c, e, x)
      BY <2>1, <2>2
    <3>2. e = <<>> /\ d = spoken[i].role /\ c = spoken[i].content
      OBVIOUS
    <3> HIDE DEF c, d, e, m, x
    <3>3. LET y == Message(d, c, e, x) IN
          y \in Messages /\ y.role = d /\ y.content = c /\ y.calls = e /\ y.id = x
      BY <3>1, MessageType
    <3> QED BY <3>1, <3>2, <3>3
  <2>4. spoken[i] \in Range(turns)
    BY <1>6, <1>7 DEF Range
  <2>5. PICK j \in DOMAIN turns : spoken[i] = turns[j]
    BY <2>4 DEF Range
  <2> HIDE DEF m
  <2> QED BY <2>1, <2>3, <2>5
<1> HIDE DEF m
<1>9. Kept(turns) \in [1..Len(spoken) -> Messages] /\ \A i \in 1..Len(spoken) : Kept(turns)[i] = m(i)
  BY <1>3, <1>7, <1>8
<1>10. Kept(turns) \in Seq(Messages) /\ Len(Kept(turns)) = Len(spoken)
  BY <1>7, <1>9
<1> QED BY <1>8, <1>9, <1>10
-----------------------------------------------------------------------------
(* Calls and their results.                                                *)

\* Nothing is called, nothing has to be answered.
LEMMA AnsweredQuiet ==
    ASSUME NEW ms \in Seq(Messages), \A i \in 1..Len(ms) : ms[i].role # "tool" /\ ms[i].calls = <<>>
    PROVE  Answered(ms)
<1>1. Len(ms) \in Nat /\ Len(<<>>) = 0
  BY LenProperties, EmptySeq
<1> QED BY <1>1 DEF Answered

\* An empty log has no call waiting for its result.
LEMMA AnsweredNone == Answered(<<>>)
<1>1. Len(<<>>) = 0
  BY EmptySeq
<1> QED BY <1>1 DEF Answered

\* A message with calls, and their results behind it.
LEMMA AnsweredStep ==
    ASSUME NEW ms \in Seq(Messages), Answered(ms),
           NEW m \in Messages, m.role = "assistant",
           NEW rs \in Seq(Messages), Len(rs) = Len(m.calls),
           \A k \in 1..Len(rs) : /\ rs[k].role = "tool" /\ rs[k].calls = <<>>
                                 /\ rs[k].id = m.calls[k].id
    PROVE  Append(ms, m) \o rs \in Seq(Messages) /\ Answered(Append(ms, m) \o rs)
<1> DEFINE n == Len(ms)
           c == Len(rs)
           all == Append(ms, m) \o rs
<1>1. n \in Nat /\ c \in Nat /\ Len(<<>>) = 0
  BY LenProperties, EmptySeq
<1>2. ms \in Seq(Messages) /\ m \in Messages /\ rs \in Seq(Messages)
  OBVIOUS
<1>3. /\ all \in Seq(Messages) /\ Len(all) = n + 1 + c
      /\ \A i \in 1..n : all[i] = ms[i]
      /\ all[n + 1] = m
      /\ \A k \in 1..c : all[n + 1 + k] = rs[k]
  <2>1. \A E : \A s, r \in Seq(E), e \in E :
           /\ Append(s, e) \o r \in Seq(E)
           /\ Len(Append(s, e) \o r) = Len(s) + 1 + Len(r)
           /\ \A i \in 1..Len(s) : (Append(s, e) \o r)[i] = s[i]
           /\ (Append(s, e) \o r)[Len(s) + 1] = e
           /\ \A k \in 1..Len(r) : (Append(s, e) \o r)[Len(s) + 1 + k] = r[k]
    BY AppendConcat
  <2> QED BY ONLY <1>2, <2>1
<1>4. \A i \in 1..n : all[i] = ms[i]
  BY <1>3
<1>5. all[n + 1] = m
  BY <1>3
<1>6. \A k \in 1..c : all[n + 1 + k] = rs[k]
  BY <1>3
<1>7. Len(all) = n + 1 + c /\ Len(m.calls) = c
  BY <1>3
<1>8. Append(ms, m) \o rs = all
  OBVIOUS
<1>9. all \in Seq(Messages)
  BY <1>3
<1>10. \A k \in 1..c : rs[k].role = "tool" /\ rs[k].calls = <<>> /\ rs[k].id = m.calls[k].id
  OBVIOUS
<1>11. /\ \A i \in 1..n : /\ i + Len(ms[i].calls) <= n
                          /\ \A k \in 1..Len(ms[i].calls) :
                                ms[i + k].role = "tool" /\ ms[i + k].id = ms[i].calls[k].id
       /\ \A j \in 1..n : ms[j].role = "tool" => \E i \in 1..(j - 1) : j <= i + Len(ms[i].calls)
       /\ \A i \in 1..n : Len(ms[i].calls) \in Nat
  <2>1. \A i \in 1..n : ms[i] \in Messages
    BY ElementOfSeq
  <2>2. \A i \in 1..n : Len(ms[i].calls) \in Nat
    BY <2>1, LenProperties DEF Messages
  <2> QED BY <2>2 DEF Answered
<1> HIDE DEF n, c, all
<1>12. ASSUME NEW i \in 1..Len(all)
       PROVE  /\ i + Len(all[i].calls) <= Len(all)
              /\ \A k \in 1..Len(all[i].calls) :
                    all[i + k].role = "tool" /\ all[i + k].id = all[i].calls[k].id
  <2>1. CASE i \in 1..n
    <3> DEFINE d == Len(ms[i].calls)
    <3>1. all[i] = ms[i] /\ d \in Nat /\ i + d <= n
      BY <1>4, <1>11, <2>1
    <3>2. ASSUME NEW k \in 1..d PROVE all[i + k].role = "tool" /\ all[i + k].id = all[i].calls[k].id
      <4>1. i + k \in 1..n
        BY <1>1, <2>1, <3>1
      <4>2. all[i + k] = ms[i + k]
        BY <1>4, <4>1
      <4> QED BY <1>11, <2>1, <3>1, <4>2
    <3>3. i + d <= Len(all)
      BY <1>1, <1>7, <2>1, <3>1
    <3> QED BY <3>1, <3>2, <3>3
  <2>2. CASE i = n + 1
    <3>1. all[i] = m /\ i + Len(all[i].calls) <= Len(all)
      BY <1>1, <1>5, <1>7, <2>2
    <3>2. ASSUME NEW k \in 1..c PROVE all[i + k].role = "tool" /\ all[i + k].id = m.calls[k].id
      BY <1>6, <1>10, <2>2
    <3> QED BY <1>7, <3>1, <3>2
  <2>3. CASE i > n + 1
    <3> DEFINE k == i - (n + 1)
    <3>1. k \in 1..c /\ i = n + 1 + k
      BY <1>1, <1>7, <2>3
    <3> HIDE DEF k
    <3>2. all[i].calls = <<>>
      BY <1>6, <1>10, <3>1
    <3> QED BY <1>1, <1>7, <3>2
  <2> QED BY <1>1, <1>7, <2>1, <2>2, <2>3
<1>13. ASSUME NEW j \in 1..Len(all), all[j].role = "tool"
       PROVE  \E i \in 1..(j - 1) : j <= i + Len(all[i].calls)
  <2>1. CASE j \in 1..n
    <3>1. PICK i \in 1..(j - 1) : j <= i + Len(ms[i].calls)
      BY <1>4, <1>11, <1>13, <2>1
    <3>2. all[i] = ms[i]
      BY <1>1, <1>4, <2>1, <3>1
    <3> QED BY <3>1, <3>2
  <2>2. j # n + 1
    BY <1>5, <1>13
  <2>3. CASE j > n + 1
    <3>1. n + 1 \in 1..(j - 1) /\ j <= n + 1 + c
      BY <1>1, <1>7, <2>3
    <3>2. j <= (n + 1) + Len(all[n + 1].calls)
      BY <1>1, <1>5, <1>7, <3>1
    <3> QED BY <3>1, <3>2
  <2> QED BY <1>1, <1>7, <2>1, <2>2, <2>3
<1>14. Answered(all)
  BY <1>12, <1>13 DEF Answered
<1> QED BY <1>8, <1>9, <1>14

\* Answered says what ToolCallsAnswered says.
LEMMA AnsweredEnough ==
    ASSUME messages \in Seq(Messages), Answered(messages)
    PROVE  ToolCallsAnswered
<1> DEFINE called(i) == Len(messages[i].calls)
           results(i) == SubSeq(messages, i + 1, i + called(i))
<1>1. Len(messages) \in Nat /\ DOMAIN messages = 1..Len(messages)
  BY LenProperties
<1>2. ASSUME NEW i \in 1..Len(messages) PROVE called(i) \in Nat
  <2>1. messages[i] \in Messages
    BY ElementOfSeq
  <2>2. messages[i].calls \in Seq(CallSet)
    BY <2>1 DEF Messages
  <2> QED BY <2>2, LenProperties
<1>3. ASSUME NEW i \in 1..Len(messages)
      PROVE  /\ i + called(i) <= Len(messages)
             /\ \A k \in DOMAIN results(i) :
                    results(i)[k].role = "tool" /\ results(i)[k].id = messages[i].calls[k].id
  <2> DEFINE d == called(i)
             r == results(i)
  <2>1. d \in Nat /\ i + d <= Len(messages)
    BY <1>2 DEF Answered
  <2>2. \A k \in 1..d : messages[i + k].role = "tool" /\ messages[i + k].id = messages[i].calls[k].id
    BY DEF Answered
  <2>3. r = SubSeq(messages, i + 1, i + d)
    OBVIOUS
  <2> HIDE DEF d
  <2>4. \A k \in i + 1..i + d : messages[k] \in Messages
    <3> SUFFICES ASSUME NEW k \in i + 1..i + d PROVE messages[k] \in Messages
      OBVIOUS
    <3>1. k \in 1..Len(messages)
      BY <1>1, <2>1
    <3> QED BY <3>1, ElementOfSeq
  <2>5. /\ r \in Seq(Messages) /\ Len(r) = (IF i + 1 <= i + d THEN (i + d) - (i + 1) + 1 ELSE 0)
        /\ \A k \in 1..(i + d) - (i + 1) + 1 : r[k] = messages[(i + 1) + k - 1]
    <3> DEFINE a == i + 1
               b == i + d
    <3>1. a \in Int /\ b \in Int /\ r = SubSeq(messages, a, b) /\ \A k \in a..b : messages[k] \in Messages
      BY <1>1, <2>1, <2>3, <2>4
    <3> HIDE DEF a, b, r
    <3>2. /\ r \in Seq(Messages) /\ Len(r) = (IF a <= b THEN b - a + 1 ELSE 0)
          /\ \A k \in 1..b - a + 1 : r[k] = messages[a + k - 1]
      BY <3>1, SubSeqProperties
    <3> QED BY <3>2 DEF a, b
  <2> HIDE DEF r
  <2>6. DOMAIN r = 1..d
    BY <2>1, <2>5, LenProperties
  <2>7. ASSUME NEW k \in 1..d PROVE r[k] = messages[i + k]
    <3>1. (i + 1) + k - 1 = i + k /\ k \in 1..(i + d) - (i + 1) + 1
      BY <2>1
    <3> QED BY <2>5, <3>1
  <2>8. \A k \in DOMAIN r : r[k].role = "tool" /\ r[k].id = messages[i].calls[k].id
    BY <2>2, <2>6, <2>7
  <2> QED BY <2>1, <2>8 DEF d, r
<1>4. \A j \in 1..Len(messages) :
          messages[j].role = "tool" => \E i \in 1..(j - 1) : j <= i + called(i)
  BY DEF Answered
<1> QED BY <1>1, <1>3, <1>4 DEF ToolCallsAnswered
-----------------------------------------------------------------------------
(* The graph keeps its part.                                               *)

\* What AnswerIsLastSaid says of the text of a finished answer.
OwnText(text, rs) ==
    Spoken(rs) # <<>> =>
        \/ text = Scrub(Last(Spoken(rs)), Len(cited))
        \/ text = Blank /\ Last(rs) = Blank

\* Every mark in a text has its citation.
CitedText(text) == \A i \in DOMAIN Mark : Mark[i] \in ToSet(text) => i <= Len(cited)

\* The graph's part of the invariant holds before the first question.
LEMMA GraphStart == Init => GraphInv /\ EndInv
<1> SUFFICES ASSUME Init PROVE GraphInv /\ EndInv
  OBVIOUS
<1>1. /\ phase = "rewrite" /\ history \in Histories
      /\ cited = <<>> /\ messages = <<>> /\ replies = <<>> /\ streamed = <<>>
  BY DEF Init
<1>2. /\ <<>> \in Seq(Ids) /\ <<>> \in Seq(Messages) /\ <<>> \in Seq(Pieces) /\ <<>> \in Pieces
      /\ Len(<<>>) = 0 /\ FlattenSeq(<<>>) = <<>>
  BY EmptySeq, FlattenType DEF Pieces
<1>3. TopK \in Nat
  BY SizesAssumption
<1>4. history \in Seq(Turns)
  BY <1>1, HistoriesAssumption DEF Turns
<1>5. GraphTyped
  BY <1>1, <1>2, <1>3, <1>4 DEF GraphTyped
<1>6. Answered(messages)
  BY <1>1, AnsweredNone
<1>7. LastWords /\ EndInv
  BY <1>1 DEF LastWords, EndInv, AnswerIsLastSaid, MarksCited
<1>8. Progress
  BY <1>1, <1>2 DEF Progress
<1> QED BY <1>5, <1>6, <1>7, <1>8 DEF GraphInv

\* What leaves the graph alone.
LEMMA GraphStutters ==
    ASSUME GraphInv, EndInv, UNCHANGED graph
    PROVE  GraphInv' /\ EndInv'
<1> USE DEF graph
<1>1. GraphTyped'
  BY DEF GraphInv, GraphTyped
<1>2. Answered(messages)'
  BY DEF GraphInv, Answered
<1>3. LastWords' /\ Progress'
  BY DEF GraphInv, LastWords, Progress
<1>4. AnswerIsLastSaid' /\ MarksCited'
  BY DEF EndInv, AnswerIsLastSaid, MarksCited
<1> QED BY <1>1, <1>2, <1>3, <1>4 DEF GraphInv, EndInv

\* The steps before an answer is in the making, and those that fail.
LEMMA GraphMoves ==
    ASSUME SearchInv, GraphInv, EndInv, Rewrite \/ Retrieve \/ Raise
    PROVE  GraphInv' /\ EndInv'
<1>1. /\ cited \in Seq(Ids) /\ Len(cited) <= TopK /\ history \in Seq(Turns)
      /\ messages \in Seq(Messages) /\ replies \in Seq(Pieces) /\ streamed \in Pieces
  BY DEF GraphInv, GraphTyped
<1>2. hits \in Seq(Ids) /\ Len(hits) <= TopK
  BY DEF SearchInv, SearchTyped
<1>3. /\ <<>> \in Seq(Ids) /\ <<>> \in Seq(Messages) /\ <<>> \in Seq(Pieces) /\ Len(<<>>) = 0
  BY EmptySeq
<1>4. TopK \in Nat
  BY SizesAssumption
<1>5. Answered(messages) /\ Progress
  BY DEF GraphInv
<1>6. CASE Rewrite \/ Retrieve
  <2>1. /\ phase \in {"rewrite", "retrieve"} /\ phase' \in {"retrieve", "verify"}
        /\ UNCHANGED <<mode, history, messages, replies, streamed>>
        /\ cited' = cited \/ cited' = hits
    BY <1>6 DEF Rewrite, Retrieve, Goto
  <2>2. GraphTyped'
    BY <1>1, <1>2, <2>1 DEF GraphTyped
  <2>3. Answered(messages')
    BY <1>5, <2>1
  <2>4. LastWords' /\ EndInv'
    BY <2>1 DEF LastWords, EndInv, AnswerIsLastSaid, MarksCited
  <2>5. Progress'
    BY <1>5, <2>1 DEF Progress
  <2> QED BY <2>2, <2>3, <2>4, <2>5 DEF GraphInv
<1>7. CASE Raise
  <2>1. /\ phase' = "failed" /\ UNCHANGED <<mode, history, streamed>>
        /\ cited' = <<>> /\ messages' = <<>> /\ replies' = <<>>
    BY <1>7 DEF Raise
  <2>2. GraphTyped'
    BY <1>1, <1>3, <1>4, <2>1 DEF GraphTyped
  <2>3. Answered(messages')
    BY <2>1, AnsweredNone
  <2>4. LastWords' /\ EndInv' /\ Progress'
    BY <2>1 DEF LastWords, EndInv, AnswerIsLastSaid, MarksCited, Progress
  <2> QED BY <2>2, <2>3, <2>4 DEF GraphInv
<1> QED BY <1>6, <1>7

\* A step that finishes with an answer that is the model's own and cites its sources.
LEMMA GraphFinishes ==
    ASSUME GraphInv, NEW refuse \in BOOLEAN, NEW text, NEW citations,
           Finish(refuse, text, citations), citations = cited, refuse <=> cited = <<>>,
           CitedText(text), UNCHANGED <<mode, history, cited, messages>>,
           replies' \in Seq(Pieces), streamed' \in Pieces,
           mode = "stream" => streamed' = FlattenSeq(replies'),
           replies' # <<>> => OwnText(text, replies')
    PROVE  GraphInv' /\ EndInv'
<1>1. /\ phase' = "done" /\ answer' = [refuse |-> refuse, text |-> text, citations |-> citations]
  BY DEF Finish
<1>2. answer'.refuse = refuse /\ answer'.text = text /\ answer'.citations = citations
  BY <1>1
<1>3. GraphTyped'
  BY DEF GraphInv, GraphTyped
<1>4. Answered(messages')
  BY DEF GraphInv
<1>5. LastWords' /\ Progress'
  BY <1>1 DEF LastWords, Progress
<1>6. AnswerIsLastSaid'
  BY <1>2 DEF AnswerIsLastSaid, OwnText
<1>7. MarksCited'
  BY <1>2 DEF MarksCited, CitedText
<1> QED BY <1>3, <1>4, <1>5, <1>6, <1>7 DEF GraphInv, EndInv
\* The last element is an element.
LEMMA LastIn ==
    ASSUME NEW E, NEW s \in Seq(E), s # <<>>
    PROVE  Last(s) \in Range(s) /\ Last(s) \in E
<1>1. Len(s) \in Nat \ {0} /\ DOMAIN s = 1..Len(s)
  BY LenProperties, EmptySeq
<1>2. Last(s) = s[Len(s)] /\ Len(s) \in DOMAIN s
  BY <1>1 DEF Last
<1> QED BY <1>1, <1>2, ElementOfSeq DEF Range

\* The first request: the conversation so far and the question.
LEMMA GraphAsks ==
    ASSUME GraphInv, EndInv, Ask
    PROVE  GraphInv' /\ EndInv'
<1> DEFINE k == Kept(history)
           u == Message("user", Asked, <<>>, "")
           ms == Append(k, u)
<1>1. /\ history \in Seq(Turns) /\ cited \in Seq(Ids) /\ Len(cited) <= TopK
      /\ replies \in Seq(Pieces) /\ streamed \in Pieces
  BY DEF GraphInv, GraphTyped
<1>2. /\ phase = "verify" /\ phase' = "ask" /\ cited # <<>> /\ messages' = ms
      /\ UNCHANGED <<mode, history, cited, replies, streamed>>
  BY DEF Ask, Goto
<1>3. replies = <<>> /\ (mode = "stream" => streamed = FlattenSeq(replies))
  BY <1>2 DEF GraphInv, Progress
<1>4. /\ k \in Seq(Messages)
      /\ \A i \in 1..Len(k) :
            /\ k[i].role # "tool" /\ k[i].calls = <<>>
            /\ \E j \in DOMAIN history : k[i].content = history[j].content
  BY <1>1, KeptFacts
<1>5. u \in Messages /\ u.role = "user" /\ u.calls = <<>>
  <2>1. Asked \in Pieces /\ <<>> \in Seq(CallSet) /\ "" \in Words
    <3>1. "question" \in Words /\ "" \in Words
      BY WordsAssumption
    <3> QED BY <3>1, EmptySeq, Single DEF Asked, Pieces
  <2> QED BY <2>1 DEF Message, Messages
<1> HIDE DEF k, u
<1>6. /\ ms \in Seq(Messages) /\ Len(ms) = Len(k) + 1 /\ ms[Len(k) + 1] = u
      /\ \A i \in 1..Len(k) : ms[i] = k[i]
  BY <1>4, <1>5, AppendProperties
<1>7. Len(k) \in Nat /\ DOMAIN ms = 1..Len(ms)
  BY <1>4, <1>6, LenProperties
<1> HIDE DEF ms
<1>8. \A i \in 1..Len(ms) : ms[i].role # "tool" /\ ms[i].calls = <<>>
  <2> SUFFICES ASSUME NEW i \in 1..Len(ms) PROVE ms[i].role # "tool" /\ ms[i].calls = <<>>
    OBVIOUS
  <2>1. i \in 1..Len(k) \/ i = Len(k) + 1
    BY <1>6, <1>7
  <2> QED BY <1>4, <1>5, <1>6, <2>1
<1>9. Answered(ms)
  BY <1>6, <1>8, AnsweredQuiet
<1>10. Spoken(<<>>) = <<>>
  <2>1. <<>> \in Seq(Pieces)
    BY EmptySeq
  <2> QED BY <2>1, SpokenIs, FilteredEmpty
<1>11. GraphTyped'
  BY <1>1, <1>2, <1>6 DEF GraphTyped
<1>12. Answered(messages')
  BY <1>2, <1>9
<1>13. LastWords'
  BY <1>2, <1>3, <1>10 DEF LastWords
<1>14. Progress' /\ EndInv'
  BY <1>2, <1>3 DEF Progress, EndInv, AnswerIsLastSaid, MarksCited
<1> QED BY <1>11, <1>12, <1>13, <1>14 DEF GraphInv

\* A refusal, and an answer made from the template: nothing was said.
LEMMA GraphUnasked ==
    ASSUME GraphInv, EndInv, Refuse \/ Template
    PROVE  GraphInv' /\ EndInv'
<1>1. /\ cited \in Seq(Ids) /\ Len(cited) <= TopK /\ streamed \in Pieces /\ replies \in Seq(Pieces)
  BY DEF GraphInv, GraphTyped
<1>2. /\ phase = "verify" /\ UNCHANGED <<mode, history, cited, messages, replies, streamed>>
  BY DEF Refuse, Template
<1>3. replies = <<>> /\ (mode = "stream" => streamed = FlattenSeq(replies))
  BY <1>2 DEF GraphInv, Progress
<1>4. Mark \in Pieces /\ TopK <= Len(Mark) /\ ToSet(Mark) \cap {"cannot compute", "no conclusion"} = {}
  BY MarkAssumption
<1>5. Len(Mark) \in Nat /\ DOMAIN Mark = 1..Len(Mark) /\ Len(cited) \in Nat /\ DOMAIN cited = 1..Len(cited)
  BY <1>1, <1>4, LenProperties DEF Pieces
<1>6. TopK \in Nat
  BY SizesAssumption
<1>7. CASE Refuse
  <2>1. Finish(TRUE, Refusal, <<>>) /\ cited = <<>>
    BY <1>7 DEF Refuse
  <2>2. CitedText(Refusal)
    <3>1. ToSet(Refusal) = {"no conclusion"}
      <4>1. "no conclusion" \in Words
        BY WordsAssumption
      <4>2. Range(<<"no conclusion">>) = {"no conclusion"}
        BY <4>1, Single
      <4> QED BY <4>2 DEF Refusal, ToSet, Range
    <3>2. \A i \in DOMAIN Mark : Mark[i] \in ToSet(Mark)
      BY DEF ToSet
    <3> QED BY <1>4, <3>1, <3>2 DEF CitedText
  <2> QED BY <1>1, <1>2, <1>3, <2>1, <2>2, GraphFinishes
<1>8. CASE Template
  <2> DEFINE text == [i \in DOMAIN cited |-> Mark[i]]
  <2>1. Finish(FALSE, text, cited) /\ cited # <<>>
    BY <1>8 DEF Template
  <2>2. CitedText(text)
    <3> SUFFICES ASSUME NEW i \in DOMAIN Mark, Mark[i] \in ToSet(text) PROVE i <= Len(cited)
      BY DEF CitedText
    <3>1. PICK j \in DOMAIN cited : Mark[i] = Mark[j]
      BY DEF ToSet
    <3>2. j \in DOMAIN Mark /\ j <= Len(cited)
      <4>1. j \in 1..Len(cited) /\ Len(cited) \in Nat /\ Len(Mark) \in Nat
        BY <1>5
      <4>2. Len(cited) <= TopK /\ TopK <= Len(Mark)
        BY <1>1, <1>4
      <4>3. j \in 1..Len(Mark) /\ j <= Len(cited)
        BY <1>6, <4>1, <4>2
      <4> QED BY <1>5, <4>3
    <3>3. i = j
      BY <3>1, <3>2, MarkAssumption DEF IsInjective
    <3> QED BY <3>2, <3>3
  <2> HIDE DEF text
  <2> QED BY <1>1, <1>2, <1>3, <2>1, <2>2, GraphFinishes
<1> QED BY <1>7, <1>8

\* What is left of a text has no mark beyond the sources.
LEMMA ScrubbedCited ==
    ASSUME NEW text \in Pieces, Len(cited) \in Nat
    PROVE  CitedText(Scrub(text, Len(cited))) /\ Scrub(Blank, Len(cited)) = Blank
<1>1. ToSet(Scrub(text, Len(cited))) = Range(Scrub(text, Len(cited)))
  BY DEF ToSet, Range
<1> QED BY <1>1, ScrubFacts DEF CitedText
\* The last round is over: the answer is what an assistant said last.
LEMMA GraphGivesUp ==
    ASSUME GraphInv, EndInv, GiveUp
    PROVE  GraphInv' /\ EndInv'
<1> DEFINE n == Len(cited)
           recorded == Recorded(messages)
           spoken == Spoken(replies)
<1>1. /\ cited \in Seq(Ids) /\ streamed \in Pieces /\ replies \in Seq(Pieces)
      /\ messages \in Seq(Messages) /\ history \in Seq(Turns)
  BY DEF GraphInv, GraphTyped
<1>2. /\ phase = "ask" /\ UNCHANGED <<mode, history, cited, messages, replies, streamed>>
      /\ Finish(FALSE, Scrub(Exhausted, n), cited)
  BY DEF GiveUp
<1>3. cited # <<>> /\ (mode = "stream" => streamed = FlattenSeq(replies))
  BY <1>2 DEF GraphInv, Progress
<1>4. spoken # <<>> => recorded # <<>> /\ Last(recorded).content = Last(spoken)
  BY <1>2 DEF GraphInv, LastWords
<1>5. n \in Nat
  BY <1>1, LenProperties
<1>6. recorded \in Seq(Messages)
  BY <1>1, RecordedIs
<1> HIDE DEF n, recorded, spoken
<1>7. /\ recorded = <<>> => Exhausted = Sorry
      /\ recorded # <<>> => Exhausted = Last(recorded).content
  BY DEF Exhausted, recorded
<1>8. Sorry \in Pieces /\ Range(Sorry) \cap Range(Mark) = {}
  <2>1. "cannot compute" \in Words /\ "cannot compute" \notin Range(Mark)
    BY WordsAssumption, MarkAssumption DEF ToSet, Range
  <2>2. <<"cannot compute">> \in Seq(Words) /\ Range(<<"cannot compute">>) = {"cannot compute"}
    BY <2>1, Single
  <2> QED BY <2>1, <2>2 DEF Sorry, Pieces
<1>9. Exhausted \in Pieces
  <2>1. recorded # <<>> => Last(recorded) \in Messages
    BY <1>6, LastIn
  <2> QED BY <1>7, <1>8, <2>1 DEF Messages
<1>10. CitedText(Scrub(Exhausted, n))
  BY <1>5, <1>9, ScrubbedCited DEF n
<1>11. OwnText(Scrub(Exhausted, n), replies)
  BY <1>4, <1>7 DEF OwnText, spoken, n
<1>12. FALSE \in BOOLEAN /\ (FALSE <=> cited = <<>>)
  BY <1>3
<1>13. UNCHANGED <<mode, history, cited, messages>> /\ replies' = replies /\ streamed' = streamed
  BY <1>2
<1> QED BY <1>1, <1>2, <1>3, <1>10, <1>11, <1>12, <1>13, GraphFinishes

\* One round with the model.
LEMMA GraphReplies ==
    ASSUME GraphInv, EndInv, NEW content \in Pieces, NEW calls \in Seq(CallSet),
           Reply(content, calls), streamed' \in Pieces,
           mode = "stream" => streamed' = streamed \o content
    PROVE  GraphInv' /\ EndInv'
<1> DEFINE n == Len(cited)
           m == Message("assistant", content, calls, "")
           rs == Results(calls)
<1>1. /\ cited \in Seq(Ids) /\ Len(cited) <= TopK /\ streamed \in Pieces /\ replies \in Seq(Pieces)
      /\ messages \in Seq(Messages) /\ history \in Seq(Turns) /\ Answered(messages)
  BY DEF GraphInv, GraphTyped
<1>2. /\ phase = "ask" /\ replies' = Append(replies, content)
      /\ UNCHANGED <<mode, history, cited>>
  BY DEF Reply
<1>3. cited # <<>> /\ (mode = "stream" => streamed = FlattenSeq(replies))
  BY <1>2 DEF GraphInv, Progress
<1>4. replies' \in Seq(Pieces)
  BY <1>1, <1>2, AppendProperties
<1>5. mode = "stream" => streamed' = FlattenSeq(replies')
  <2>1. replies \in Seq(Seq(Words)) /\ content \in Seq(Words)
    BY <1>1 DEF Pieces
  <2>2. FlattenSeq(Append(replies, content)) = FlattenSeq(replies) \o content
    BY <2>1, FlattenStep
  <2> QED BY <1>2, <1>3, <2>2
<1>6. /\ content # Blank => Spoken(replies') = Append(Spoken(replies), content)
      /\ content = Blank => Spoken(replies') = Spoken(replies)
  BY <1>1, <1>2, SpokenStep
<1>7. Spoken(replies) \in Seq(Pieces)
  BY <1>1, SpokenIs
<1>8. content # Blank => Spoken(replies') # <<>> /\ Last(Spoken(replies')) = content
  BY <1>6, <1>7, LastAppend
<1>9. CASE calls = <<>>
  <2>1. Finish(FALSE, Scrub(content, n), cited) /\ UNCHANGED messages
    BY <1>9 DEF Reply
  <2>2. n \in Nat
    BY <1>1, LenProperties
  <2>3. CitedText(Scrub(content, n)) /\ Scrub(Blank, n) = Blank
    BY <2>2, ScrubbedCited
  <2>4. OwnText(Scrub(content, n), replies')
    <3>1. CASE content # Blank
      BY <1>8, <3>1 DEF OwnText
    <3>2. CASE content = Blank
      <4>1. Scrub(content, n) = Blank
        BY <2>3, <3>2
      <4>2. Last(replies') = Blank
        BY <1>1, <1>2, <3>2, LastAppend
      <4> QED BY <4>1, <4>2 DEF OwnText
    <3> QED BY <3>1, <3>2
  <2>5. FALSE \in BOOLEAN /\ (FALSE <=> cited = <<>>)
    BY <1>3
  <2>6. UNCHANGED <<mode, history, cited, messages>>
    BY <1>2, <2>1
  <2> QED BY <1>4, <1>5, <2>1, <2>3, <2>4, <2>5, <2>6, GraphFinishes
<1>10. CASE calls # <<>>
  <2>1. messages' = Append(messages, m) \o rs /\ UNCHANGED <<phase, answer>>
    BY <1>10 DEF Reply
  <2>2. m \in Messages /\ m.role = "assistant" /\ m.content = content /\ m.calls = calls
    <3>1. "" \in Words
      BY WordsAssumption
    <3> QED BY <3>1 DEF Message, Messages
  <2>3. /\ rs \in Seq(Messages) /\ Len(rs) = Len(calls)
        /\ \A k \in 1..Len(rs) : rs[k].role = "tool" /\ rs[k].calls = <<>> /\ rs[k].id = calls[k].id
    BY ResultsFacts
  <2> HIDE DEF m, rs
  <2>4. messages' \in Seq(Messages) /\ Answered(messages')
    BY <1>1, <2>1, <2>2, <2>3, AnsweredStep
  <2>5. /\ content # Blank => Recorded(messages') = Append(Recorded(messages), m)
        /\ content = Blank => Recorded(messages') = Recorded(messages)
    <3>1. Range(rs) \cap Uttered = {}
      <4>1. DOMAIN rs = 1..Len(rs)
        BY <2>3, LenProperties
      <4> QED BY <2>3, <4>1 DEF Range, Uttered
    <3>2. Append(messages, m) \in Seq(Messages)
      BY <1>1, <2>2, AppendProperties
    <3>3. Recorded(messages') = Filtered(Append(messages, m) \o rs, Uttered)
      BY <2>1, <2>4, RecordedIs
    <3>4. Recorded(messages') = Filtered(Append(messages, m), Uttered)
      BY <2>3, <3>1, <3>2, <3>3, FilteredTail
    <3>5. Recorded(messages) = Filtered(messages, Uttered)
      BY <1>1, RecordedIs
    <3>6. m \in Uttered <=> content # Blank
      BY <2>2 DEF Uttered
    <3> QED BY <1>1, <2>2, <3>4, <3>5, <3>6, FilteredIn, FilteredOut
  <2>6. LastWords'
    <3>1. Recorded(messages) \in Seq(Messages)
      BY <1>1, RecordedIs
    <3>2. CASE content # Blank
      <4>1. Recorded(messages') # <<>> /\ Last(Recorded(messages')) = m
        BY <2>2, <2>5, <3>1, <3>2, LastAppend
      <4> QED BY <1>8, <2>2, <3>2, <4>1 DEF LastWords
    <3>3. CASE content = Blank
      BY <1>2, <1>6, <2>5, <3>3 DEF LastWords, GraphInv
    <3> QED BY <3>2, <3>3
  <2>7. GraphTyped'
    BY <1>1, <1>2, <1>4, <2>4 DEF GraphTyped
  <2>8. Progress' /\ EndInv'
    BY <1>2, <1>3, <1>5, <2>1 DEF Progress, EndInv, AnswerIsLastSaid, MarksCited
  <2> QED BY <2>4, <2>6, <2>7, <2>8 DEF GraphInv
<1> QED BY <1>9, <1>10
-----------------------------------------------------------------------------
(* A streamed reply.                                                       *)

\* A bounded sequence is a sequence.
LEMMA BoundedIsSeq ==
    ASSUME NEW S, NEW n \in Nat, NEW s \in BoundedSeq(S, n)
    PROVE  s \in Seq(S)
<1>1. PICK m \in 0..n : s \in [1..m -> S]
  BY DEF BoundedSeq, SeqOf
<1>2. m \in Nat
  BY <1>1
<1> QED BY <1>1, <1>2

\* A comprehension selects from its list, and what it selects passes the test of K.
LEMMA FilteredFrom ==
    ASSUME NEW E, NEW K, NEW s \in Seq(E)
    PROVE  LET f == Filtered(s, K) IN
           /\ f \in Seq(E) /\ DOMAIN f = 1..Len(f) /\ Len(f) \in Nat
           /\ \A i \in 1..Len(f) : f[i] \in K /\ f[i] \in E /\ \E j \in DOMAIN s : f[i] = s[j]
<1> DEFINE f == Filtered(s, K)
<1>1. f \in Seq(E) /\ Range(f) = Range(s) \cap K
  BY FilteredType, FilteredRange
<1> HIDE DEF f
<1>2. DOMAIN f = 1..Len(f) /\ Len(f) \in Nat /\ \A i \in 1..Len(f) : f[i] \in E
  BY <1>1, LenProperties, ElementOfSeq
<1>3. ASSUME NEW i \in 1..Len(f) PROVE f[i] \in K /\ \E j \in DOMAIN s : f[i] = s[j]
  <2>1. f[i] \in Range(s) /\ f[i] \in K
    BY <1>1, <1>2 DEF Range
  <2> QED BY <2>1 DEF Range
<1> QED BY <1>1, <1>2, <1>3 DEF f

Part  == [name : Pieces, args : Pieces]
Delta == [content : Pieces, slot : Words, calls : Seq(Part)]

\* The text of a reply that comes in deltas is a text,
LEMMA ContentType ==
    ASSUME NEW ds \in Seq(Delta)
    PROVE  Content(ds) \in Pieces
<1> DEFINE texts == [i \in DOMAIN ds |-> ds[i].content]
<1>1. Len(ds) \in Nat /\ DOMAIN ds = 1..Len(ds) /\ \A i \in 1..Len(ds) : ds[i] \in Delta
  BY LenProperties, ElementOfSeq
<1>2. texts \in [1..Len(ds) -> Seq(Words)]
  BY <1>1 DEF Delta, Pieces
<1> HIDE DEF texts
<1>3. texts \in Seq(Seq(Words))
  BY <1>1, <1>2
<1>4. FlattenSeq(texts) \in Seq(Words)
  BY <1>3, FlattenType
<1> QED BY <1>4 DEF Content, texts, Pieces

\* and the calls that are put together of its pieces are calls.
LEMMA AssembledType ==
    ASSUME NEW ds \in Seq(Delta)
    PROVE  Assembled(ds) \in Seq(CallSet)
<1> DEFINE parts == Selected(ds, LAMBDA d : d.calls # <<>>)
           opening == Selected([i \in DOMAIN parts |-> i],
                               LAMBDA i : \A j \in 1..(i - 1) : parts[j].slot # parts[i].slot)
           slots == [k \in DOMAIN opening |-> parts[opening[k]].slot]
           of(slot) == Selected(parts, LAMBDA d : d.slot = slot)
           joined(slot, field) == FlattenSeq([i \in DOMAIN of(slot) |-> of(slot)[i].calls[1][field]])
           call(k) == [id |-> slots[k], name |-> joined(slots[k], "name"), args |-> joined(slots[k], "args")]
           whole == [k \in DOMAIN slots |-> call(k)]
<1>1. Assembled(ds) = whole
  BY DEF Assembled
<1>2. /\ parts \in Seq(Delta) /\ DOMAIN parts = 1..Len(parts) /\ Len(parts) \in Nat
      /\ \A i \in 1..Len(parts) : parts[i] \in Delta /\ parts[i].calls # <<>>
  <2> DEFINE K == {d \in {ds[i] : i \in DOMAIN ds} : d.calls # <<>>}
  <2>1. parts = Filtered(ds, K)
    BY DEF Selected
  <2>2. \A d \in K : d.calls # <<>>
    OBVIOUS
  <2> HIDE DEF K, parts
  <2> QED BY <2>1, <2>2, FilteredFrom
<1> HIDE DEF parts
<1>3. /\ DOMAIN opening = 1..Len(opening) /\ Len(opening) \in Nat
      /\ \A k \in 1..Len(opening) : opening[k] \in DOMAIN parts
  <2> DEFINE places == [i \in DOMAIN parts |-> i]
             K == {i \in {places[j] : j \in DOMAIN places} :
                      \A j \in 1..(i - 1) : parts[j].slot # parts[i].slot}
  <2>1. places \in Seq(DOMAIN parts)
    BY <1>2
  <2>2. opening = Filtered(places, K)
    BY DEF Selected
  <2> HIDE DEF places, K, opening
  <2> QED BY <2>1, <2>2, FilteredFrom
<1> HIDE DEF opening
<1>4. ASSUME NEW slot PROVE /\ DOMAIN of(slot) = 1..Len(of(slot)) /\ Len(of(slot)) \in Nat
                            /\ \A i \in 1..Len(of(slot)) : of(slot)[i].calls[1] \in Part
  <2> DEFINE mine == of(slot)
             K == {d \in {parts[i] : i \in DOMAIN parts} : d.slot = slot}
  <2>1. mine = Filtered(parts, K)
    BY DEF Selected
  <2> HIDE DEF K, mine
  <2>2. /\ DOMAIN mine = 1..Len(mine) /\ Len(mine) \in Nat
        /\ \A i \in 1..Len(mine) : \E j \in DOMAIN parts : mine[i] = parts[j]
    BY <1>2, <2>1, FilteredFrom
  <2>3. ASSUME NEW i \in 1..Len(mine) PROVE mine[i].calls[1] \in Part
    <3>1. PICK j \in DOMAIN parts : mine[i] = parts[j]
      BY <2>2
    <3>2. mine[i].calls \in Seq(Part) /\ mine[i].calls # <<>>
      BY <1>2, <3>1 DEF Delta
    <3>3. 1 \in 1..Len(mine[i].calls)
      BY <3>2, EmptySeq
    <3> QED BY <3>2, <3>3, ElementOfSeq
  <2> QED BY <2>2, <2>3 DEF mine
<1> HIDE DEF of
<1>5. ASSUME NEW slot, NEW field \in {"name", "args"} PROVE joined(slot, field) \in Pieces
  <2> DEFINE texts == [i \in DOMAIN of(slot) |-> of(slot)[i].calls[1][field]]
             n == Len(of(slot))
  <2>1. n \in Nat /\ DOMAIN of(slot) = 1..n /\ \A i \in 1..n : of(slot)[i].calls[1] \in Part
    BY <1>4
  <2> HIDE DEF n
  <2>2. texts \in [1..n -> Seq(Words)]
    BY <2>1 DEF Part, Pieces
  <2> HIDE DEF texts
  <2>3. texts \in Seq(Seq(Words))
    BY <2>1, <2>2
  <2>4. FlattenSeq(texts) \in Seq(Words)
    BY <2>3, FlattenType
  <2> QED BY <2>4 DEF texts, Pieces
<1> HIDE DEF joined
<1>6. /\ DOMAIN slots = 1..Len(opening)
      /\ \A k \in 1..Len(opening) : slots[k] \in Words
  <2>1. ASSUME NEW k \in 1..Len(opening) PROVE parts[opening[k]].slot \in Words
    BY <1>2, <1>3 DEF Delta
  <2> QED BY <1>3, <2>1
<1> HIDE DEF slots
<1>7. \A k \in 1..Len(opening) : call(k) \in CallSet
  BY <1>5, <1>6 DEF CallSet
<1> HIDE DEF call
<1>8. whole \in [1..Len(opening) -> CallSet]
  BY <1>6, <1>7
<1> HIDE DEF whole
<1> QED BY <1>1, <1>3, <1>8
-----------------------------------------------------------------------------
(* Every step.                                                             *)

\* Every step of a turn keeps the graph's part of the invariant.
LEMMA GraphKeeps ==
    ASSUME SearchInv, GraphInv, EndInv, [Next]_vars
    PROVE  GraphInv' /\ EndInv'
<1>1. CASE phase = "retrieve" /\ SearchNext /\ UNCHANGED graph
  BY <1>1, GraphStutters
<1>2. CASE Rewrite \/ Retrieve \/ Raise
  BY <1>2, GraphMoves
<1>3. CASE Refuse \/ Template
  BY <1>3, GraphUnasked
<1>4. CASE Ask
  BY <1>4, GraphAsks
<1>5. CASE GiveUp
  BY <1>5, GraphGivesUp
<1>6. CASE ReplyWhole
  <2>1. PICK content \in Said, calls \in BoundedSeq(Calls, MaxParts) : Reply(content, calls)
    BY <1>6 DEF ReplyWhole
  <2>2. content \in Pieces /\ MaxParts \in Nat /\ Calls \subseteq CallSet
    BY RepliesAssumption, RoundsAssumption DEF CallSet
  <2>3. calls \in Seq(CallSet)
    BY <2>2, BoundedIsSeq, SeqMonotonic
  <2>4. mode = "sync" /\ streamed' = streamed /\ streamed \in Pieces
    BY <1>6 DEF ReplyWhole, GraphInv, GraphTyped
  <2>5. mode = "stream" => streamed' = streamed \o content
    BY <2>4
  <2> QED BY <2>1, <2>2, <2>3, <2>4, <2>5, GraphReplies
<1>7. CASE ReplyStreamed
  <2>1. PICK ds \in BoundedSeq(Deltas, MaxParts) :
            Reply(Content(ds), Assembled(ds)) /\ streamed' = streamed \o Content(ds)
    BY <1>7 DEF ReplyStreamed
  <2>2. MaxParts \in Nat /\ Deltas \subseteq Delta
    BY RepliesAssumption, RoundsAssumption DEF Delta, Part
  <2>3. ds \in Seq(Delta)
    BY <2>2, BoundedIsSeq, SeqMonotonic
  <2>4. Content(ds) \in Pieces /\ Assembled(ds) \in Seq(CallSet)
    BY <2>3, ContentType, AssembledType
  <2>5. streamed \in Pieces
    BY DEF GraphInv, GraphTyped
  <2>6. streamed' \in Pieces
    BY <2>1, <2>4, <2>5, ConcatProperties DEF Pieces
  <2> QED BY <2>1, <2>4, <2>6, GraphReplies
<1>8. CASE UNCHANGED vars
  BY <1>8, GraphStutters DEF vars, graph
<1> QED BY <1>1, <1>2, <1>3, <1>4, <1>5, <1>6, <1>7, <1>8 DEF Next

\* The invariant holds throughout.
THEOREM QuestionInvariant == Spec => [](SearchInv /\ GraphInv /\ EndInv)
<1>1. Init => SearchInv /\ GraphInv /\ EndInv
  BY SearchStart, GraphStart
<1>2. SearchInv /\ GraphInv /\ EndInv /\ [Next]_vars => (SearchInv /\ GraphInv /\ EndInv)'
  BY SearchKeeps, GraphKeeps
<1> QED BY <1>1, <1>2, PTL DEF Spec

\* Whenever the model is asked, each of its calls is followed by its result, in the
\* order of the calls, and no result stands elsewhere (protocol.py:413-434, 515-525).
THEOREM CallsAnswered == Spec => []ToolCallsAnswered
<1>1. GraphInv => ToolCallsAnswered
  BY AnsweredEnough DEF GraphInv, GraphTyped
<1> QED BY <1>1, QuestionInvariant, PTL

\* Once the model has said a word in this question, the answer is what it said last in
\* it, or nothing where its last reply was empty; and what was streamed is all that the
\* model said (protocol.py:436-440, 528-535). Of a question in which it never said a
\* word nothing is claimed.
THEOREM AnswersLastSaid == Spec => []AnswerIsLastSaid
<1>1. EndInv => AnswerIsLastSaid
  BY DEF EndInv
<1> QED BY <1>1, QuestionInvariant, PTL

\* A mark in an answer has its citation, the citations are the hits, and an answer
\* without citations is a refusal (protocol.py:102, nodes.py:72).
THEOREM AnswersCited == Spec => []MarksCited
<1>1. EndInv => MarksCited
  BY DEF EndInv
<1> QED BY <1>1, QuestionInvariant, PTL

-----------------------------------------------------------------------------
(* The compensation, a tool of the agent (module Compensation).            *)

\* What calculate_compensation is called with: CompensationInput, or nothing yet.
Claims ==
    {c \in [months : Nat, salary : Nat, avg : Nat \cup {NoAvg}, illegal : BOOLEAN] :
        /\ c.avg # NoAvg => c.avg > 0
        /\ c.months > 0 => c.salary > 0}

\* Half months as a function of months: none for none, never fewer for longer
\* service, and two more for twelve.
Half(m) == 2 * (m \div 12) + (IF m % 12 >= 6 THEN 2 ELSE IF m % 12 > 0 THEN 1 ELSE 0)

LEMMA HalfFacts ==
    ASSUME NEW m \in Nat
    PROVE  /\ Half(m) \in Nat /\ Half(m + 1) >= Half(m)
           /\ Half(m + 12) = Half(m) + 2
           /\ m > 0 => Half(m) > 0
<1> DEFINE q == m \div 12
           r == m % 12
<1>1. q \in Nat /\ r \in 0..11 /\ m = 12 * q + r
  OBVIOUS
<1>2. (m + 12) \div 12 = q + 1 /\ (m + 12) % 12 = r
  BY <1>1
<1>3. IF r = 11 THEN (m + 1) \div 12 = q + 1 /\ (m + 1) % 12 = 0
                ELSE (m + 1) \div 12 = q /\ (m + 1) % 12 = r + 1
  BY <1>1
<1>4. Half(m) = 2 * q + (IF r >= 6 THEN 2 ELSE IF r > 0 THEN 1 ELSE 0)
  BY DEF Half
<1>5. Half(m + 12) = 2 * (q + 1) + (IF r >= 6 THEN 2 ELSE IF r > 0 THEN 1 ELSE 0)
  BY <1>2 DEF Half
<1>6. Half(m + 1) = IF r = 11 THEN 2 * (q + 1)
                    ELSE 2 * q + (IF r + 1 >= 6 THEN 2 ELSE IF r + 1 > 0 THEN 1 ELSE 0)
  BY <1>1, <1>3 DEF Half
<1> HIDE DEF q, r
<1> QED BY <1>1, <1>4, <1>5, <1>6

\* Products of naturals grow with their factors.
LEMMA TimesGrows ==
    ASSUME NEW a \in Nat, NEW b \in Nat, NEW c \in Nat, NEW d \in Nat, a <= b, c <= d
    PROVE  /\ a * c \in Nat /\ b * d \in Nat /\ a * c <= b * d
           /\ a > 0 /\ c > 0 => a * c > 0
<1>1. PICK e \in Nat : b = a + e
  BY b - a \in Nat
<1>2. PICK f \in Nat : d = c + f
  BY d - c \in Nat
<1>3. a * c \in Nat /\ a * f \in Nat /\ e * c \in Nat /\ e * f \in Nat
  OBVIOUS
<1>4. b * d = a * c + a * f + e * c + e * f
  BY <1>1, <1>2
<1>5. a > 0 /\ c > 0 => a * c > 0
  OBVIOUS
<1> QED BY <1>3, <1>4, <1>5

\* The figure, of half months h and the factor k of an unlawful dismissal.
Over(s, a) == a # NoAvg /\ s > 3 * a
Figure(h, s, a, k) ==
    k * (IF Over(s, a) /\ h > 24 THEN 24 ELSE h) * (IF Over(s, a) THEN 3 * a ELSE s)
Factor(c) == IF c.illegal THEN 2 ELSE 1

\* The figure of a claim.
LEMMA TotalIs ==
    ASSUME NEW c
    PROVE  Total(c) = Figure(Half(c.months), c.salary, c.avg, Factor(c))
BY DEF Total, Figure, HalfMonths, Half, Capped, Over, Factor

\* More half months, or a higher salary on the same side of the cap, give no less.
LEMMA FigureGrows ==
    ASSUME NEW h \in Nat, NEW g \in Nat, h <= g, NEW s \in Nat, NEW t \in Nat, s <= t,
           NEW a \in Nat \cup {NoAvg}, Over(s, a) <=> Over(t, a), NEW k \in {1, 2}
    PROVE  /\ Figure(h, s, a, k) \in Nat
           /\ Figure(h, s, a, k) <= Figure(g, t, a, k)
           /\ h > 0 /\ s > 0 /\ (a # NoAvg => a > 0) => Figure(h, s, a, k) > 0
<1> DEFINE due(n) == IF Over(s, a) /\ n > 24 THEN 24 ELSE n
           base(n) == IF Over(s, a) THEN 3 * a ELSE n
<1>1. /\ due(h) \in Nat /\ due(g) \in Nat /\ due(h) <= due(g)
      /\ h > 0 => due(h) > 0
  OBVIOUS
<1>2. /\ base(s) \in Nat /\ base(t) \in Nat /\ base(s) <= base(t)
      /\ s > 0 /\ (a # NoAvg => a > 0) => base(s) > 0
  BY DEF Over
<1>3. Figure(h, s, a, k) = (k * due(h)) * base(s) /\ Figure(g, t, a, k) = (k * due(g)) * base(t)
  BY DEF Figure
<1> HIDE DEF due, base
<1>4. /\ k * due(h) \in Nat /\ k * due(g) \in Nat /\ k * due(h) <= k * due(g)
      /\ due(h) > 0 => k * due(h) > 0
  BY <1>1
<1>5. \A x, y, z, w \in Nat : x <= y /\ z <= w =>
          /\ x * z \in Nat /\ x * z <= y * w /\ (x > 0 /\ z > 0 => x * z > 0)
  BY TimesGrows
<1> QED BY <1>1, <1>2, <1>3, <1>4, <1>5

\* Every claim is computed as article 47 asks (compensation.py:75-120).
LEMMA ClaimSound ==
    ASSUME NEW c \in Claims
    PROVE  SoundFor(c)
<1> DEFINE h == Half(c.months)
           k == Factor(c)
           fig(g, s, f) == Figure(g, s, c.avg, f)
           longer(m) == [c EXCEPT !.months = @ + m]
           lower(s) == [c EXCEPT !.salary = s]
           dismissed(b) == [c EXCEPT !.illegal = b]
<1>1. /\ c.months \in Nat /\ c.salary \in Nat /\ c.avg \in Nat \cup {NoAvg} /\ k \in {1, 2}
      /\ c.avg # NoAvg => c.avg > 0
      /\ c.months > 0 => c.salary > 0
      /\ c = [months |-> c.months, salary |-> c.salary, avg |-> c.avg, illegal |-> c.illegal]
  BY DEF Claims, Factor
<1>2. /\ h \in Nat /\ Half(c.months + 1) \in Nat /\ Half(c.months + 1) >= h
      /\ Half(c.months + 12) = h + 2
      /\ c.months > 0 => h > 0
  BY <1>1, HalfFacts
<1>3. /\ Total(c) = fig(h, c.salary, k)
      /\ Total(longer(1)) = fig(Half(c.months + 1), c.salary, k)
      /\ Total(longer(12)) = fig(h + 2, c.salary, k)
      /\ \A s : Total(lower(s)) = fig(h, s, k)
      /\ \A s : Capped(lower(s)) <=> Over(s, c.avg)
      /\ Capped(c) <=> Over(c.salary, c.avg)
      /\ Total(dismissed(TRUE)) = fig(h, c.salary, 2)
      /\ Total(dismissed(FALSE)) = fig(h, c.salary, 1)
  <2>1. \A m \in Nat : longer(m) = [months |-> c.months + m, salary |-> c.salary,
                                    avg |-> c.avg, illegal |-> c.illegal]
    BY <1>1
  <2>2. \A s : lower(s) = [months |-> c.months, salary |-> s, avg |-> c.avg, illegal |-> c.illegal]
    BY <1>1
  <2>3. \A b : dismissed(b) = [months |-> c.months, salary |-> c.salary, avg |-> c.avg, illegal |-> b]
    BY <1>1
  <2>4. Half(c.months + 12) = h + 2
    BY <1>2
  <2> HIDE DEF longer, lower, dismissed, h
  <2>5. Total(longer(1)) = fig(Half(c.months + 1), c.salary, k) /\ Total(longer(12)) = fig(h + 2, c.salary, k)
    BY <2>1, <2>4, TotalIs DEF Factor
  <2>6. Total(c) = fig(h, c.salary, k) /\ \A s : Total(lower(s)) = fig(h, s, k)
    BY <2>2, TotalIs DEF Factor, h
  <2>7. Total(dismissed(TRUE)) = fig(h, c.salary, 2) /\ Total(dismissed(FALSE)) = fig(h, c.salary, 1)
    BY <2>3, TotalIs DEF Factor, h
  <2>8. (\A s : Capped(lower(s)) <=> Over(s, c.avg)) /\ (Capped(c) <=> Over(c.salary, c.avg))
    BY <2>2 DEF Capped, Over
  <2> QED BY <2>5, <2>6, <2>7, <2>8
<1> HIDE DEF h, k
<1>4. Total(longer(1)) >= Total(c)
  BY <1>1, <1>2, <1>3, FigureGrows
<1>5. ASSUME ~Capped(c) PROVE Total(longer(12)) = Total(c) + 2 * k * c.salary
  <2>1. fig(h, c.salary, k) = k * h * c.salary /\ fig(h + 2, c.salary, k) = k * (h + 2) * c.salary
    BY <1>3, <1>5 DEF Figure
  <2>2. ASSUME NEW y \in Nat, NEW z \in Nat PROVE k * (y + 2) * z = k * y * z + 2 * k * z
    <3>1. y * z \in Nat /\ (y + 2) * z = y * z + 2 * z
      OBVIOUS
    <3>2. CASE k = 1
      BY <3>1, <3>2
    <3>3. CASE k = 2
      <4>1. (2 * (y + 2)) * z = 2 * ((y + 2) * z) /\ (2 * y) * z = 2 * (y * z)
        OBVIOUS
      <4> QED BY <3>1, <3>3, <4>1
    <3> QED BY <1>1, <3>2, <3>3
  <2> QED BY <1>1, <1>2, <1>3, <2>1, <2>2
<1>6. ASSUME NEW s \in 1..c.salary, Capped(lower(s)) = Capped(c) PROVE Total(lower(s)) <= Total(c)
  <2>1. s \in Nat /\ s <= c.salary /\ (Over(s, c.avg) <=> Over(c.salary, c.avg))
    <3>1. Capped(lower(s)) \in BOOLEAN /\ Capped(c) \in BOOLEAN
      BY DEF Capped
    <3> QED BY <1>1, <1>3, <1>6, <3>1
  <2>2. Figure(h, s, c.avg, k) <= Figure(h, c.salary, c.avg, k)
    BY <1>1, <1>2, <2>1, h <= h, FigureGrows
  <2>3. Total(lower(s)) = fig(h, s, k) /\ Total(c) = fig(h, c.salary, k)
    BY <1>3
  <2> QED BY <2>2, <2>3
<1>7. ASSUME Capped(c) PROVE Total(c) <= k * 24 * 3 * c.avg
  <2>1. c.avg \in Nat /\ Over(c.salary, c.avg)
    BY <1>1, <1>3, <1>7 DEF Over
  <2>2. PICK d \in 0..24 : Total(c) = k * d * (3 * c.avg)
    BY <1>2, <1>3, <2>1 DEF Figure
  <2>3. k * d <= k * 24 /\ k * d \in Nat /\ k * 24 \in Nat /\ 3 * c.avg \in Nat
    BY <1>1, <2>1
  <2>4. (k * d) * (3 * c.avg) <= (k * 24) * (3 * c.avg)
    BY <2>3, TimesGrows
  <2>5. (k * 24) * (3 * c.avg) = k * 24 * 3 * c.avg
    BY <1>1, <2>1
  <2> QED BY <2>2, <2>4, <2>5
<1>8. Total(dismissed(TRUE)) = 2 * Total(dismissed(FALSE))
  <2>1. \E x \in Nat, y \in Nat : fig(h, c.salary, 1) = 1 * x * y /\ fig(h, c.salary, 2) = 2 * x * y
    <3> DEFINE x == IF Over(c.salary, c.avg) /\ h > 24 THEN 24 ELSE h
               y == IF Over(c.salary, c.avg) THEN 3 * c.avg ELSE c.salary
    <3>1. x \in Nat /\ y \in Nat
      BY <1>1, <1>2 DEF Over
    <3>2. fig(h, c.salary, 1) = 1 * x * y /\ fig(h, c.salary, 2) = 2 * x * y
      BY DEF Figure
    <3> HIDE DEF x, y, fig
    <3> QED BY <3>1, <3>2
  <2>2. \A x, y \in Nat : 1 * x * y = x * y /\ 2 * x * y = 2 * (x * y)
    OBVIOUS
  <2> QED BY <1>3, <2>1, <2>2
<1>9. ASSUME c.months > 0 PROVE Total(c) > 0
  BY <1>1, <1>2, <1>3, <1>9, FigureGrows
<1> QED BY <1>4, <1>5, <1>6, <1>7, <1>8, <1>9 DEF SoundFor, k, Factor

\* A claim that is made is one.
ClaimMade == claim \in Claims

\* Which every calculation keeps.
LEMMA ClaimsMade == Inputs => []ClaimMade
<1>1. NoInput => ClaimMade
  BY DEF NoInput, ClaimMade, Unclaimed, Claims
<1>2. ClaimMade /\ [NextInput]_inputs => ClaimMade'
  <2> SUFFICES ASSUME ClaimMade, [NextInput]_inputs PROVE claim' \in Claims
    BY DEF ClaimMade
  <2>1. CASE Calculate
    <3>1. claim' \in Claim(Service, Salaries, Averages)
      BY <2>1 DEF Calculate
    <3>2. Service \subseteq Nat /\ Salaries \subseteq Nat \ {0} /\ Averages \subseteq Nat \ {0}
      BY ClaimsAssumption
    <3>3. /\ claim' \in [months : Nat, salary : Nat, avg : Nat \cup {NoAvg}, illegal : BOOLEAN]
          /\ claim'.salary \in Salaries /\ claim'.avg \in Averages \cup {NoAvg}
      BY <3>1, <3>2 DEF Claim
    <3> QED BY <3>2, <3>3 DEF Claims
  <2>2. CASE claim' = claim
    BY <2>2 DEF ClaimMade
  <2> QED BY <2>1, <2>2 DEF NextInput, NextCharacter, NextParagraph, inputs
<1> QED BY <1>1, <1>2, PTL DEF Inputs

\* The compensation behaves as article 47 says, for any service, any salary and any
\* local average (compensation.py:3-7, 80-116).
THEOREM CompensationsSound == Inputs => []CompensationSound
<1>1. ClaimMade => CompensationSound
  BY ClaimSound DEF ClaimMade, CompensationSound
<1> QED BY <1>1, ClaimsMade, PTL
=============================================================================

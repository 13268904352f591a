---------------------------- MODULE ListsProofs ----------------------------
EXTENDS Lists, Integers, SequencesExt, SequenceTheorems, FiniteSetTheorems, WellFoundedInduction, TLAPS

-----------------------------------------------------------------------------
(* Induction, said of sets.                                                *)

\* A set of naturals that is not empty has a least element.
LEMMA Least ==
    ASSUME NEW T \in SUBSET Nat, T # {}
    PROVE  \E x \in T : \A y \in T : x <= y
<1> DEFINE R == {ss \in Nat \X Nat : ss[1] < ss[2]}
<1>1. IsWellFoundedOn(R, Nat)
  BY NatLessThanWellFounded DEF OpToRel
<1>2. \A S, U : IsWellFoundedOn(R, S) /\ U \subseteq S /\ U # {} =>
                   \E x \in U : \A y \in U : <<y, x>> \notin R
  BY WFMin
<1>3. PICK x \in T : \A y \in T : <<y, x>> \notin R
  BY <1>1, <1>2
<1>4. ASSUME NEW y \in T PROVE x <= y
  <2>1. ~(y < x) /\ x \in Nat /\ y \in Nat
    BY <1>3
  <2> QED BY <2>1
<1> QED BY <1>4

\* Induction over the naturals.
LEMMA NaturalInduction ==
    ASSUME NEW T, 0 \in T, \A n \in Nat : n \in T => n + 1 \in T
    PROVE  \A n \in Nat : n \in T
<1> SUFFICES ASSUME Nat \ T # {} PROVE FALSE
  OBVIOUS
<1>1. PICK x \in Nat \ T : \A y \in Nat \ T : x <= y
  BY Least
<1>2. x - 1 \in Nat /\ x - 1 \in T
  BY <1>1
<1> QED BY <1>2

\* Induction over the sequences that Append makes.
LEMMA SequenceInduction ==
    ASSUME NEW E, NEW T, <<>> \in T, \A s \in Seq(E), e \in E : s \in T => Append(s, e) \in T
    PROVE  \A s \in Seq(E) : s \in T
<1> DEFINE L == {n \in Nat : \A s \in Seq(E) : Len(s) = n => s \in T}
<1>1. 0 \in L
  BY EmptySeq
<1>2. ASSUME NEW n \in Nat, n \in L PROVE n + 1 \in L
  <2> SUFFICES ASSUME NEW s \in Seq(E), Len(s) = n + 1 PROVE s \in T
    OBVIOUS
  <2>1. s # <<>>
    BY EmptySeq
  <2>2. PICK p \in Seq(E), e \in E : s = Append(p, e)
    BY <2>1, SequenceEmptyOrAppend
  <2>3. Len(p) = n
    BY <2>2, AppendProperties, LenProperties
  <2> QED BY <1>2, <2>2, <2>3
<1>3. \A n \in Nat : n \in L
  <2> HIDE DEF L
  <2> QED BY <1>1, <1>2, NaturalInduction
<1> QED BY <1>3, LenProperties

\* A function that is defined by recursion on 0..N exists.
Recurs(f, S, a, N, step) ==
    f \in [0..N -> S] /\ f[0] = a /\ \A n \in 1..N : f[n] = step[n][f[n - 1]]

\* A recursive definition on 0..N has a function that satisfies it.
LEMMA Recursion ==
    ASSUME NEW S, NEW a \in S, NEW N \in Nat, NEW step \in [1..N -> [S -> S]]
    PROVE  \E f : Recurs(f, S, a, N, step)
<1> DEFINE T == {m \in Nat : m <= N =>
                   \E f \in [0..m -> S] : f[0] = a /\ \A n \in 1..m : f[n] = step[n][f[n - 1]]}
<1>1. 0 \in T
  <2> DEFINE f == [n \in 0..0 |-> a]
  <2>1. f \in [0..0 -> S] /\ f[0] = a
    OBVIOUS
  <2>2. \A n \in 1..0 : f[n] = step[n][f[n - 1]]
    OBVIOUS
  <2> HIDE DEF f
  <2> QED BY <2>1, <2>2
<1>2. ASSUME NEW m \in Nat, m \in T PROVE m + 1 \in T
  <2> SUFFICES ASSUME m + 1 <= N
               PROVE  \E f \in [0..m + 1 -> S] :
                         f[0] = a /\ \A n \in 1..m + 1 : f[n] = step[n][f[n - 1]]
    OBVIOUS
  <2>1. PICK f \in [0..m -> S] : f[0] = a /\ \A n \in 1..m : f[n] = step[n][f[n - 1]]
    BY <1>2
  <2> DEFINE g == [n \in 0..m + 1 |-> IF n = m + 1 THEN step[m + 1][f[m]] ELSE f[n]]
  <2>2. f[m] \in S /\ step[m + 1][f[m]] \in S
    OBVIOUS
  <2>3. g \in [0..m + 1 -> S]
    BY <2>2
  <2>4. g[0] = a
    BY <2>1
  <2>5. ASSUME NEW n \in 1..m + 1 PROVE g[n] = step[n][g[n - 1]]
    <3>1. n - 1 \in 0..m /\ g[n - 1] = f[n - 1]
      OBVIOUS
    <3>2. CASE n = m + 1
      <4>1. n - 1 = m /\ g[n] = step[m + 1][f[m]]
        BY <3>2
      <4> HIDE DEF g
      <4> QED BY <3>1, <3>2, <4>1
    <3>3. CASE n # m + 1
      <4>1. n \in 1..m
        BY <3>3
      <4> QED BY <2>1, <3>1, <3>3, <4>1
    <3> QED BY <3>2, <3>3
  <2> QED BY <2>3, <2>4, <2>5
<1>3. N \in T
  <2> HIDE DEF T
  <2> QED BY <1>1, <1>2, NaturalInduction
<1> QED BY <1>3 DEF Recurs
-----------------------------------------------------------------------------
(* Filtered, from its recursive definition.                                *)

\* f gives what is kept of the first elements of s, and Filtered its last value.
Filters(f, s, K, E) ==
    /\ f \in [0..Len(s) -> Seq(E)]
    /\ Filtered(s, K) = f[Len(s)]
    /\ f[0] = <<>>
    /\ \A n \in 1..Len(s) : f[n] = IF s[n] \in K THEN Append(f[n - 1], s[n]) ELSE f[n - 1]

\* The recursive function behind Filtered exists.
LEMMA FilteredUnfolds ==
    ASSUME NEW E, NEW s \in Seq(E), NEW K
    PROVE  \E f : Filters(f, s, K, E)
<1> DEFINE N == Len(s)
           first(g) == [n \in 0..N |-> IF n = 0 THEN <<>>
                          ELSE IF s[n] \in K THEN Append(g[n - 1], s[n]) ELSE g[n - 1]]
           step == [n \in 1..N |-> [r \in Seq(E) |->
                      IF s[n] \in K THEN Append(r, s[n]) ELSE r]]
<1>1. N \in Nat /\ \A n \in 1..N : s[n] \in E
  BY LenProperties, ElementOfSeq
<1>2. step \in [1..N -> [Seq(E) -> Seq(E)]]
  <2>1. \A n \in 1..N, r \in Seq(E) : Append(r, s[n]) \in Seq(E)
    BY <1>1, AppendProperties
  <2> QED BY <2>1
<1>3. <<>> \in Seq(E)
  BY EmptySeq
<1>4. PICK g \in [0..N -> Seq(E)] : g[0] = <<>> /\ \A n \in 1..N : g[n] = step[n][g[n - 1]]
  <2> HIDE DEF step, N
  <2>1. \E f : Recurs(f, Seq(E), <<>>, N, step)
    BY <1>1, <1>2, <1>3, Recursion
  <2> QED BY <2>1 DEF Recurs
<1>5. \A n \in 1..N : g[n] = IF s[n] \in K THEN Append(g[n - 1], s[n]) ELSE g[n - 1]
  <2> SUFFICES ASSUME NEW n \in 1..N
               PROVE  g[n] = IF s[n] \in K THEN Append(g[n - 1], s[n]) ELSE g[n - 1]
    OBVIOUS
  <2>1. g[n - 1] \in Seq(E)
    BY <1>1
  <2>2. step[n][g[n - 1]] = IF s[n] \in K THEN Append(g[n - 1], s[n]) ELSE g[n - 1]
    BY <2>1
  <2> QED BY <1>4, <2>2
<1>6. g = first(g)
  <2>1. \A n \in 0..N : g[n] = first(g)[n]
    <3> SUFFICES ASSUME NEW n \in 0..N PROVE g[n] = first(g)[n]
      OBVIOUS
    <3>1. CASE n = 0
      BY <1>4, <3>1
    <3>2. CASE n # 0
      <4>1. n \in 1..N
        BY <1>1, <3>2
      <4> QED BY <1>5, <3>2, <4>1
    <3> QED BY <3>1, <3>2
  <2>2. DOMAIN g = 0..N /\ DOMAIN first(g) = 0..N
    OBVIOUS
  <2>3. g = [n \in 0..N |-> g[n]] /\ first(g) = [n \in 0..N |-> first(g)[n]]
    OBVIOUS
  <2> HIDE DEF first
  <2> QED BY <2>1, <2>2, <2>3
<1> DEFINE h == CHOOSE f : f = first(f)
<1>7. h = first(h)
  BY <1>6
<1>8. Filtered(s, K) = h[N]
  BY DEF Filtered
<1> HIDE DEF h
<1>9. \A n \in Nat : n \in {m \in Nat : m <= N => h[m] = g[m]}
  <2> DEFINE T == {m \in Nat : m <= N => h[m] = g[m]}
  <2>1. 0 \in T
    BY <1>1, <1>4, <1>7
  <2>2. ASSUME NEW n \in Nat, n \in T PROVE n + 1 \in T
    <3> SUFFICES ASSUME n + 1 <= N PROVE h[n + 1] = g[n + 1]
      OBVIOUS
    <3>1. n + 1 \in 1..N /\ (n + 1) - 1 = n /\ h[n] = g[n]
      BY <1>1, <2>2
    <3>2. h[n + 1] = IF s[n + 1] \in K THEN Append(h[n], s[n + 1]) ELSE h[n]
      <4> DEFINE k == n + 1
      <4>1. k \in 0..N /\ k # 0
        BY <3>1
      <4>2. h[k] = first(h)[k]
        BY <1>7
      <4>3. first(h)[k] = IF s[k] \in K THEN Append(h[k - 1], s[k]) ELSE h[k - 1]
        BY <4>1
      <4> QED BY <3>1, <4>2, <4>3
    <3>3. g[n + 1] = IF s[n + 1] \in K THEN Append(g[n], s[n + 1]) ELSE g[n]
      BY <1>5, <3>1
    <3> QED BY <3>1, <3>2, <3>3
  <2> HIDE DEF T
  <2>3. \A n \in Nat : n \in T
    BY <2>1, <2>2, NaturalInduction
  <2> QED BY <2>3 DEF T
<1>10. Filtered(s, K) = g[N]
  BY <1>1, <1>8, <1>9
<1> QED BY <1>4, <1>5, <1>10 DEF Filters

\* What is kept of an empty list.
LEMMA FilteredEmpty == ASSUME NEW K PROVE Filtered(<<>>, K) = <<>>
<1>1. <<>> \in Seq({}) /\ Len(<<>>) = 0
  BY EmptySeq
<1>2. PICK f : Filters(f, <<>>, K, {})
  BY <1>1, FilteredUnfolds
<1> QED BY <1>1, <1>2 DEF Filters

\* What is kept is a list.
LEMMA FilteredType == ASSUME NEW E, NEW K, NEW s \in Seq(E) PROVE Filtered(s, K) \in Seq(E)
<1>1. PICK f : Filters(f, s, K, E)
  BY FilteredUnfolds
<1>2. Len(s) \in Nat
  BY LenProperties
<1> QED BY <1>1, <1>2 DEF Filters

\* What is kept of a list with one more element.
LEMMA FilteredStep ==
    ASSUME NEW E, NEW K, NEW s \in Seq(E), NEW e \in E
    PROVE  Filtered(Append(s, e), K) = IF e \in K THEN Append(Filtered(s, K), e) ELSE Filtered(s, K)
<1> DEFINE t == Append(s, e)
           N == Len(s)
<1>1. /\ N \in Nat /\ t \in Seq(E) /\ Len(t) = N + 1 /\ t[N + 1] = e
      /\ \A i \in 1..N : t[i] = s[i]
  BY AppendProperties, LenProperties
<1>2. PICK f : Filters(f, s, K, E)
  BY FilteredUnfolds
<1>3. PICK g : Filters(g, t, K, E)
  BY <1>1, FilteredUnfolds
<1> HIDE DEF t
<1>4. \A n \in 1..N : f[n] = IF s[n] \in K THEN Append(f[n - 1], s[n]) ELSE f[n - 1]
  BY <1>2 DEF Filters
<1>5. \A n \in 1..N + 1 : g[n] = IF t[n] \in K THEN Append(g[n - 1], t[n]) ELSE g[n - 1]
  BY <1>1, <1>3 DEF Filters
<1>6. f[0] = <<>> /\ g[0] = <<>> /\ f[N] = Filtered(s, K) /\ g[N + 1] = Filtered(t, K)
  BY <1>1, <1>2, <1>3 DEF Filters
<1> HIDE DEF N
<1> DEFINE T == {n \in Nat : n <= N => f[n] = g[n]}
<1>7. 0 \in T
  BY <1>6
<1>8. ASSUME NEW n \in Nat, n \in T PROVE n + 1 \in T
  <2> SUFFICES ASSUME n + 1 <= N PROVE f[n + 1] = g[n + 1]
    OBVIOUS
  <2> DEFINE k == n + 1
  <2>1. k \in 1..N /\ k \in 1..N + 1 /\ k - 1 = n /\ f[n] = g[n] /\ s[k] = t[k]
    BY <1>1, <1>8
  <2> HIDE DEF k
  <2>2. f[k] = g[k]
    BY <1>4, <1>5, <2>1
  <2> QED BY <2>2 DEF k
<1>9. N \in T
  <2> HIDE DEF T
  <2> QED BY <1>1, <1>7, <1>8, NaturalInduction
<1>10. g[N + 1] = IF e \in K THEN Append(g[N], e) ELSE g[N]
  <2> DEFINE k == N + 1
  <2>1. k \in 1..N + 1 /\ k - 1 = N /\ t[k] = e
    BY <1>1
  <2> HIDE DEF k
  <2>2. g[k] = IF e \in K THEN Append(g[N], e) ELSE g[N]
    BY <1>5, <2>1
  <2> QED BY <2>2 DEF k
<1> QED BY <1>1, <1>6, <1>9, <1>10 DEF t

\* The same, for an element that is kept,
LEMMA FilteredIn ==
    ASSUME NEW E, NEW K, NEW s \in Seq(E), NEW e \in E, e \in K
    PROVE  Filtered(Append(s, e), K) = Append(Filtered(s, K), e)
BY FilteredStep

\* and for one that is not.
LEMMA FilteredOut ==
    ASSUME NEW E, NEW K, NEW s \in Seq(E), NEW e \in E, e \notin K
    PROVE  Filtered(Append(s, e), K) = Filtered(s, K)
BY FilteredStep

\* The elements of a list with one more.
LEMMA RangeAppend ==
    ASSUME NEW E, NEW s \in Seq(E), NEW e \in E
    PROVE  Range(Append(s, e)) = Range(s) \cup {e}
<1> DEFINE t == Append(s, e)
<1>1. /\ Len(s) \in Nat /\ t \in Seq(E) /\ Len(t) = Len(s) + 1 /\ t[Len(s) + 1] = e
      /\ \A i \in 1..Len(s) : t[i] = s[i]
  BY AppendProperties, LenProperties
<1> HIDE DEF t
<1>2. Range(s) = {s[i] : i \in 1..Len(s)} /\ Range(t) = {t[i] : i \in 1..Len(t)}
  BY <1>1, RangeEquality
<1>3. 1..Len(t) = (1..Len(s)) \cup {Len(s) + 1}
  BY <1>1
<1>4. Range(t) = Range(s) \cup {e}
  BY <1>1, <1>2, <1>3
<1> QED BY <1>4 DEF t

\* What is kept is what of the list is in K.
LEMMA FilteredRange ==
    ASSUME NEW E, NEW K, NEW s \in Seq(E)
    PROVE  Range(Filtered(s, K)) = Range(s) \cap K
<1> DEFINE T == {t \in Seq(E) : Range(Filtered(t, K)) = Range(t) \cap K}
<1>1. <<>> \in T
  <2>1. <<>> \in Seq(E) /\ Filtered(<<>>, K) = <<>>
    BY FilteredEmpty, EmptySeq
  <2>2. <<>> \in Seq({})
    BY EmptySeq
  <2>3. Range(<<>>) \in SUBSET {}
    BY <2>2, RangeOfSeq
  <2> QED BY <2>1, <2>3
<1>2. ASSUME NEW t \in Seq(E), NEW e \in E, t \in T PROVE Append(t, e) \in T
  <2>1. Append(t, e) \in Seq(E) /\ Filtered(t, K) \in Seq(E)
    BY AppendProperties, FilteredType
  <2>2. /\ Range(Append(t, e)) = Range(t) \cup {e}
        /\ Range(Append(Filtered(t, K), e)) = Range(Filtered(t, K)) \cup {e}
    BY <2>1, RangeAppend
  <2>3. /\ e \in K => Filtered(Append(t, e), K) = Append(Filtered(t, K), e)
        /\ e \notin K => Filtered(Append(t, e), K) = Filtered(t, K)
    BY FilteredIn, FilteredOut
  <2> QED BY <1>2, <2>1, <2>2, <2>3
<1>3. s \in T
  <2> HIDE DEF T
  <2> QED BY <1>1, <1>2, SequenceInduction
<1> QED BY <1>3

\* A filter after a filter.
LEMMA FilteredTwice ==
    ASSUME NEW E, NEW K, NEW L, NEW s \in Seq(E)
    PROVE  Filtered(Filtered(s, K), L) = Filtered(s, K \cap L)
<1> DEFINE T == {t \in Seq(E) : Filtered(Filtered(t, K), L) = Filtered(t, K \cap L)}
<1>1. <<>> \in T
  BY FilteredEmpty, EmptySeq
<1>2. ASSUME NEW t \in Seq(E), NEW e \in E, t \in T PROVE Append(t, e) \in T
  <2>1. Append(t, e) \in Seq(E)
    BY AppendProperties
  <2>2. Filtered(t, K) \in Seq(E)
    BY FilteredType
  <2>3. CASE e \notin K
    <3>1. Filtered(Append(t, e), K) = Filtered(t, K)
      BY <2>3, FilteredOut
    <3>2. Filtered(Append(t, e), K \cap L) = Filtered(t, K \cap L)
      BY <2>3, FilteredOut
    <3> QED BY <1>2, <2>1, <3>1, <3>2
  <2>4. CASE e \in K /\ e \notin L
    <3>1. Filtered(Append(t, e), K) = Append(Filtered(t, K), e)
      BY <2>4, FilteredIn
    <3>2. Filtered(Append(Filtered(t, K), e), L) = Filtered(Filtered(t, K), L)
      BY <2>2, <2>4, FilteredOut
    <3>3. Filtered(Append(t, e), K \cap L) = Filtered(t, K \cap L)
      BY <2>4, FilteredOut
    <3> QED BY <1>2, <2>1, <3>1, <3>2, <3>3
  <2>5. CASE e \in K /\ e \in L
    <3>1. Filtered(Append(t, e), K) = Append(Filtered(t, K), e)
      BY <2>5, FilteredIn
    <3>2. Filtered(Append(Filtered(t, K), e), L) = Append(Filtered(Filtered(t, K), L), e)
      BY <2>2, <2>5, FilteredIn
    <3>3. Filtered(Append(t, e), K \cap L) = Append(Filtered(t, K \cap L), e)
      BY <2>5, FilteredIn
    <3> QED BY <1>2, <2>1, <3>1, <3>2, <3>3
  <2> QED BY <2>3, <2>4, <2>5
<1>3. s \in T
  <2> HIDE DEF T
  <2> QED BY <1>1, <1>2, SequenceInduction
<1> QED BY <1>3

\* An end of the list that lies in K is kept.
LEMMA FilteredEnd ==
    ASSUME NEW E, NEW K, NEW s \in Seq(E),
           NEW i \in 1..Len(s), \A j \in i..Len(s) : s[j] \in K
    PROVE  Len(Filtered(s, K)) >= Len(s) - i + 1
<1> DEFINE T == {t \in Seq(E) : \A k \in 1..Len(t) + 1 :
                   (\A j \in k..Len(t) : t[j] \in K) => Len(Filtered(t, K)) >= Len(t) - k + 1}
<1>1. <<>> \in T
  <2>1. <<>> \in Seq(E) /\ Len(<<>>) = 0 /\ Filtered(<<>>, K) = <<>>
    BY FilteredEmpty, EmptySeq
  <2> QED BY <2>1
<1>2. ASSUME NEW t \in Seq(E), NEW e \in E, t \in T PROVE Append(t, e) \in T
  <2> DEFINE u == Append(t, e)
  <2>1. /\ u \in Seq(E) /\ Len(t) \in Nat /\ Len(u) = Len(t) + 1 /\ u[Len(t) + 1] = e
        /\ \A j \in 1..Len(t) : u[j] = t[j]
    BY AppendProperties, LenProperties
  <2>2. Filtered(t, K) \in Seq(E)
    BY FilteredType
  <2>6. e \in K => Filtered(u, K) = Append(Filtered(t, K), e)
    BY FilteredIn
  <2>3. Len(Filtered(t, K)) \in Nat /\ Len(Append(Filtered(t, K), e)) = Len(Filtered(t, K)) + 1
    BY <2>2, AppendProperties, LenProperties
  <2> HIDE DEF u
  <2> SUFFICES ASSUME NEW k \in 1..Len(u) + 1, \A j \in k..Len(u) : u[j] \in K
               PROVE  Len(Filtered(u, K)) >= Len(u) - k + 1
    BY <2>1 DEF u
  <2>4. CASE k = Len(t) + 2
    <3>1. Len(Filtered(u, K)) \in Nat
      BY <2>1, FilteredType, LenProperties
    <3> QED BY <2>1, <2>4, <3>1
  <2>5. CASE k # Len(t) + 2
    <3>1. k \in 1..Len(t) + 1 /\ Len(t) + 1 \in k..Len(u)
      BY <2>1, <2>5
    <3>2. e \in K
      BY <2>1, <3>1
    <3>3. \A j \in k..Len(t) : t[j] \in K
      BY <2>1, <3>1
    <3>4. Len(Filtered(t, K)) >= Len(t) - k + 1
      BY <1>2, <3>1, <3>3
    <3> QED BY <2>1, <2>3, <2>6, <3>1, <3>2, <3>4
  <2> QED BY <2>4, <2>5
<1>3. s \in T
  <2> HIDE DEF T
  <2> QED BY <1>1, <1>2, SequenceInduction
<1>4. Len(s) \in Nat
  BY LenProperties
<1> QED BY <1>3, <1>4

\* Only what is in the list matters of K.
LEMMA FilteredSame ==
    ASSUME NEW E, NEW K, NEW L, NEW s \in Seq(E), Range(s) \cap K = Range(s) \cap L
    PROVE  Filtered(s, K) = Filtered(s, L)
<1> DEFINE T == {t \in Seq(E) : Range(t) \cap K = Range(t) \cap L => Filtered(t, K) = Filtered(t, L)}
<1>1. <<>> \in T
  BY FilteredEmpty, EmptySeq
<1>2. ASSUME NEW t \in Seq(E), NEW e \in E, t \in T PROVE Append(t, e) \in T
  <2>1. Append(t, e) \in Seq(E) /\ Range(Append(t, e)) = Range(t) \cup {e}
    BY AppendProperties, RangeAppend
  <2>2. /\ e \in K => Filtered(Append(t, e), K) = Append(Filtered(t, K), e)
        /\ e \notin K => Filtered(Append(t, e), K) = Filtered(t, K)
        /\ e \in L => Filtered(Append(t, e), L) = Append(Filtered(t, L), e)
        /\ e \notin L => Filtered(Append(t, e), L) = Filtered(t, L)
    BY FilteredIn, FilteredOut
  <2>3. ASSUME Range(Append(t, e)) \cap K = Range(Append(t, e)) \cap L
        PROVE  Filtered(Append(t, e), K) = Filtered(Append(t, e), L)
    <3>1. Range(t) \cap K = Range(t) \cap L /\ (e \in K <=> e \in L)
      BY <2>1, <2>3
    <3> QED BY <1>2, <2>2, <3>1
  <2> QED BY <2>1, <2>3
<1>3. s \in T
  <2> HIDE DEF T
  <2> QED BY <1>1, <1>2, SequenceInduction
<1> QED BY <1>3

\* What is not in K leaves no trace at the end of a list.
LEMMA FilteredTail ==
    ASSUME NEW E, NEW K, NEW s \in Seq(E), NEW t \in Seq(E), Range(t) \cap K = {}
    PROVE  Filtered(s \o t, K) = Filtered(s, K)
<1> DEFINE T == {u \in Seq(E) : Range(u) \cap K = {} => Filtered(s \o u, K) = Filtered(s, K)}
<1>1. <<>> \in T
  BY EmptySeq, ConcatEmptySeq
<1>2. ASSUME NEW u \in Seq(E), NEW e \in E, u \in T PROVE Append(u, e) \in T
  <2>1. Append(u, e) \in Seq(E) /\ Range(Append(u, e)) = Range(u) \cup {e}
    BY AppendProperties, RangeAppend
  <2>2. s \o Append(u, e) = Append(s \o u, e) /\ s \o u \in Seq(E)
    <3>1. Append(u, e) = u \o <<e>> /\ <<e>> \in Seq(E)
      BY AppendIsConcat
    <3>2. s \o u \in Seq(E)
      BY ConcatProperties
    <3>3. Append(s \o u, e) = (s \o u) \o <<e>>
      BY <3>2, AppendIsConcat
    <3>4. (s \o u) \o <<e>> = s \o (u \o <<e>>)
      BY <3>1, ConcatAssociative
    <3> QED BY <3>1, <3>2, <3>3, <3>4
  <2>3. ASSUME Range(Append(u, e)) \cap K = {}
        PROVE  Filtered(s \o Append(u, e), K) = Filtered(s, K)
    <3>1. Range(u) \cap K = {} /\ e \notin K
      BY <2>1, <2>3
    <3>2. Filtered(Append(s \o u, e), K) = Filtered(s \o u, K)
      BY <2>2, <3>1, FilteredOut
    <3> QED BY <1>2, <2>2, <3>1, <3>2
  <2> QED BY <2>1, <2>3
<1>3. t \in T
  <2> HIDE DEF T
  <2> QED BY <1>1, <1>2, SequenceInduction
<1> QED BY <1>3
-----------------------------------------------------------------------------
(* Lists without repetition.                                               *)

\* One more element is a repetition, or it is not.
LEMMA InjectiveAppend ==
    ASSUME NEW E, NEW s \in Seq(E), NEW e \in E
    PROVE  IsInjective(Append(s, e)) <=> IsInjective(s) /\ e \notin Range(s)
<1> DEFINE t == Append(s, e)
<1>1. /\ Len(s) \in Nat /\ t \in Seq(E) /\ Len(t) = Len(s) + 1 /\ t[Len(s) + 1] = e
      /\ \A i \in 1..Len(s) : t[i] = s[i]
  BY AppendProperties, LenProperties
<1>2. DOMAIN s = 1..Len(s) /\ DOMAIN t = 1..Len(t)
  BY <1>1, LenProperties
<1> HIDE DEF t
<1>3. \A i \in DOMAIN t : i \in DOMAIN s \/ i = Len(s) + 1
  BY <1>1, <1>2
<1>4. DOMAIN s \subseteq DOMAIN t /\ Len(s) + 1 \in DOMAIN t /\ Len(s) + 1 \notin DOMAIN s
  BY <1>1, <1>2
<1>5. IsInjective(t) => IsInjective(s) /\ e \notin Range(s)
  BY <1>1, <1>2, <1>4 DEF IsInjective, Range
<1>6. IsInjective(s) /\ e \notin Range(s) => IsInjective(t)
  BY <1>1, <1>2, <1>3 DEF IsInjective, Range
<1> QED BY <1>5, <1>6 DEF t

\* A list without repetition is as long as it has elements.
LEMMA InjectiveLength ==
    ASSUME NEW E, NEW s \in Seq(E)
    PROVE  /\ IsFiniteSet(Range(s)) /\ Cardinality(Range(s)) \in Nat
           /\ IsInjective(s) => Cardinality(Range(s)) = Len(s)
<1>1. Len(s) \in Nat /\ DOMAIN s = 1..Len(s)
  BY LenProperties
<1>2. \A n \in Nat : IsFiniteSet(1..n) /\ Cardinality(1..n) = n
  BY FS_Interval
<1>3. IsFiniteSet(DOMAIN s) /\ Cardinality(DOMAIN s) = Len(s)
  BY <1>1, <1>2
<1>4. s \in [DOMAIN s -> Range(s)]
  BY <1>1 DEF Range
<1>5. s \in Surjection(DOMAIN s, Range(s))
  BY <1>4 DEF Surjection, Range
<1>6. IsInjective(s) => s \in Injection(DOMAIN s, Range(s))
  BY <1>4 DEF Injection
<1> QED BY <1>3, <1>5, <1>6, FS_Surjection, FS_CardinalityType

\* A filter repeats nothing.
LEMMA FilteredInjective ==
    ASSUME NEW E, NEW K, NEW s \in Seq(E), IsInjective(s)
    PROVE  IsInjective(Filtered(s, K))
<1> DEFINE T == {t \in Seq(E) : IsInjective(t) => IsInjective(Filtered(t, K))}
<1>1. <<>> \in T
  BY FilteredEmpty, EmptySeq
<1>2. ASSUME NEW t \in Seq(E), NEW e \in E, t \in T PROVE Append(t, e) \in T
  <2>1. Append(t, e) \in Seq(E) /\ Filtered(t, K) \in Seq(E)
    BY AppendProperties, FilteredType
  <2>2. Range(Filtered(t, K)) \subseteq Range(t)
    BY FilteredRange
  <2>3. /\ e \in K => Filtered(Append(t, e), K) = Append(Filtered(t, K), e)
        /\ e \notin K => Filtered(Append(t, e), K) = Filtered(t, K)
    BY FilteredIn, FilteredOut
  <2>4. /\ IsInjective(Append(t, e)) <=> IsInjective(t) /\ e \notin Range(t)
        /\ IsInjective(Append(Filtered(t, K), e)) <=>
              IsInjective(Filtered(t, K)) /\ e \notin Range(Filtered(t, K))
    BY <2>1, InjectiveAppend
  <2>5. IsInjective(t) => IsInjective(Filtered(t, K))
    BY <1>2
  <2> QED BY <2>1, <2>2, <2>3, <2>4, <2>5
<1>3. s \in T
  <2> HIDE DEF T
  <2> QED BY <1>1, <1>2, SequenceInduction
<1> QED BY <1>3
-----------------------------------------------------------------------------
(* Sorted: a strict total order ranks a finite set, and its ranking repeats *)
(* nothing and leaves nothing out.                                         *)

Orders(R, S) ==
    /\ \A x \in S : <<x, x>> \notin R
    /\ \A x, y, z \in S : <<x, y>> \in R /\ <<y, z>> \in R => <<x, z>> \in R
    /\ \A x, y \in S : x # y => <<x, y>> \in R \/ <<y, x>> \in R

Ranks(s, S, R) ==
    /\ s \in [1..Cardinality(S) -> S]
    /\ \A i, j \in 1..Cardinality(S) : i < j => <<s[i], s[j]>> \in R

\* A ranking exists: each element stands behind those that come before it.
LEMMA RankingExists ==
    ASSUME NEW S, NEW R, IsFiniteSet(S), Orders(R, S)
    PROVE  \E s : Ranks(s, S, R)
<1> DEFINE N == Cardinality(S)
           ahead(x) == {y \in S : <<y, x>> \in R}
           place == [x \in S |-> Cardinality(ahead(x)) + 1]
<1>1. N \in Nat
  BY FS_CardinalityType
<1>2. ASSUME NEW x \in S PROVE place[x] \in 1..N /\ IsFiniteSet(ahead(x))
  <2>1. ahead(x) \in SUBSET S /\ x \notin ahead(x)
    BY DEF Orders
  <2> HIDE DEF ahead
  <2>2. /\ IsFiniteSet(ahead(x)) /\ Cardinality(ahead(x)) <= N
        /\ N = Cardinality(ahead(x)) => S = ahead(x)
    BY <2>1, FS_Subset
  <2>3. Cardinality(ahead(x)) \in Nat /\ Cardinality(ahead(x)) # N
    BY <2>1, <2>2, FS_CardinalityType
  <2>4. place[x] = Cardinality(ahead(x)) + 1
    OBVIOUS
  <2> HIDE DEF place, N
  <2> QED BY <1>1, <2>2, <2>3, <2>4
<1>3. ASSUME NEW x \in S, NEW y \in S, <<x, y>> \in R PROVE place[x] < place[y]
  <2>1. ahead(x) \in SUBSET ahead(y) /\ x \in ahead(y) /\ x \notin ahead(x)
    BY <1>3 DEF Orders
  <2>2. IsFiniteSet(ahead(y)) /\ IsFiniteSet(ahead(x))
    BY <1>2
  <2>3. place[x] = Cardinality(ahead(x)) + 1 /\ place[y] = Cardinality(ahead(y)) + 1
    OBVIOUS
  <2> HIDE DEF ahead, place
  <2>4. /\ Cardinality(ahead(x)) <= Cardinality(ahead(y))
        /\ Cardinality(ahead(x)) # Cardinality(ahead(y))
    BY <2>1, <2>2, FS_Subset
  <2>5. Cardinality(ahead(x)) \in Nat /\ Cardinality(ahead(y)) \in Nat
    BY <2>2, FS_CardinalityType
  <2> QED BY <2>3, <2>4, <2>5
<1>4. place \in [S -> 1..N]
  <2> DEFINE p(x) == Cardinality(ahead(x)) + 1
  <2>1. \A x \in S : p(x) \in 1..N
    BY <1>2
  <2> HIDE DEF ahead, N, p
  <2>2. [x \in S |-> p(x)] \in [S -> 1..N]
    BY <2>1
  <2> QED BY <2>2 DEF p
<1> HIDE DEF place, ahead
<1>5. \A x, y \in S : place[x] = place[y] => x = y
  <2> SUFFICES ASSUME NEW x \in S, NEW y \in S, place[x] = place[y], x # y PROVE FALSE
    OBVIOUS
  <2>1. <<x, y>> \in R \/ <<y, x>> \in R
    BY DEF Orders
  <2>2. place[x] < place[y] \/ place[y] < place[x]
    BY <1>3, <2>1
  <2> QED BY <1>1, <1>4, <2>2
<1>6. IsFiniteSet(1..N) /\ Cardinality(1..N) = N
  BY <1>1, FS_Interval
<1>7. place \in Surjection(S, 1..N)
  <2>1. place \in Injection(S, 1..N)
    BY <1>4, <1>5 DEF Injection, IsInjective
  <2> QED BY <1>6, <2>1, FS_Injection
<1> DEFINE s == [i \in 1..N |-> CHOOSE x \in S : place[x] = i]
<1>8. ASSUME NEW i \in 1..N PROVE s[i] \in S /\ place[s[i]] = i
  <2>1. \E x \in S : place[x] = i
    BY <1>7 DEF Surjection
  <2> QED BY <2>1
<1>9. s \in [1..N -> S]
  BY <1>8
<1> HIDE DEF s
<1>10. ASSUME NEW i \in 1..N, NEW j \in 1..N, i < j PROVE <<s[i], s[j]>> \in R
  <2>1. s[i] \in S /\ s[j] \in S /\ place[s[i]] = i /\ place[s[j]] = j
    BY <1>8
  <2>2. ~(place[s[j]] < place[s[i]]) /\ s[i] # s[j]
    BY <1>1, <1>10, <2>1
  <2> QED BY <1>3, <2>1, <2>2 DEF Orders
<1> QED BY <1>9, <1>10 DEF Ranks

\* Any ranking is a list of the whole set, each element once.
LEMMA RankingWhole ==
    ASSUME NEW S, NEW R, IsFiniteSet(S), Orders(R, S), NEW s, Ranks(s, S, R)
    PROVE  s \in Seq(S) /\ Len(s) = Cardinality(S) /\ IsInjective(s) /\ Range(s) = S
<1> DEFINE N == Cardinality(S)
<1>1. N \in Nat
  BY FS_CardinalityType
<1>2. s \in [1..N -> S]
  BY DEF Ranks
<1>3. s \in Seq(S) /\ Len(s) = N /\ DOMAIN s = 1..N
  <2> HIDE DEF N
  <2> QED BY <1>1, <1>2
<1>4. ASSUME NEW i \in 1..N, NEW j \in 1..N, i < j PROVE s[i] # s[j]
  <2>1. <<s[i], s[j]>> \in R /\ s[i] \in S /\ s[j] \in S
    BY <1>2, <1>4 DEF Ranks
  <2> QED BY <2>1 DEF Orders
<1>5. IsInjective(s)
  <2> SUFFICES ASSUME NEW i \in 1..N, NEW j \in 1..N, i # j PROVE s[i] # s[j]
    BY <1>3 DEF IsInjective
  <2>1. i < j \/ j < i
    BY <1>1
  <2> QED BY <1>4, <2>1
<1>6. Cardinality(Range(s)) = N /\ Range(s) \in SUBSET S
  BY <1>3, <1>5, InjectiveLength, RangeOfSeq
<1>7. Range(s) = S
  BY <1>6, FS_Subset
<1> QED BY <1>3, <1>5, <1>7
-----------------------------------------------------------------------------
(* FlattenSeq of the community modules, from its recursive definition.     *)

Flattens(f, s, E) ==
    /\ f \in [0..Len(s) -> Seq(E)]
    /\ FlattenSeq(s) = f[Len(s)]
    /\ f[0] = <<>>
    /\ \A n \in 1..Len(s) : f[n] = f[n - 1] \o s[n]

\* The recursive function behind FlattenSeq exists.
LEMMA FlattenUnfolds ==
    ASSUME NEW E, NEW s \in Seq(Seq(E))
    PROVE  \E f : Flattens(f, s, E)
<1> DEFINE N == Len(s)
           flat(g) == [n \in 1..N |-> IF n = 1 THEN s[n] ELSE g[n - 1] \o s[n]]
           step == [n \in 1..N |-> [r \in Seq(E) |-> r \o s[n]]]
<1>1. N \in Nat /\ \A n \in 1..N : s[n] \in Seq(E)
  BY LenProperties, ElementOfSeq
<1>2. step \in [1..N -> [Seq(E) -> Seq(E)]]
  <2>1. \A n \in 1..N, r \in Seq(E) : r \o s[n] \in Seq(E)
    BY <1>1, ConcatProperties
  <2> QED BY <2>1
<1>3. <<>> \in Seq(E)
  BY EmptySeq
<1>4. PICK g \in [0..N -> Seq(E)] : g[0] = <<>> /\ \A n \in 1..N : g[n] = step[n][g[n - 1]]
  <2> HIDE DEF step, N
  <2>1. \E f : Recurs(f, Seq(E), <<>>, N, step)
    BY <1>1, <1>2, <1>3, Recursion
  <2> QED BY <2>1 DEF Recurs
<1>5. \A n \in 1..N : g[n] = g[n - 1] \o s[n]
  <2> SUFFICES ASSUME NEW n \in 1..N PROVE g[n] = g[n - 1] \o s[n]
    OBVIOUS
  <2>1. g[n - 1] \in Seq(E)
    <3>1. N \in Nat /\ n \in 1..N
      BY <1>1
    <3> HIDE DEF N
    <3>2. n - 1 \in 0..N
      BY <3>1
    <3> QED BY <3>2
  <2>2. step[n][g[n - 1]] = g[n - 1] \o s[n]
    BY <2>1
  <2> QED BY <1>4, <2>2
<1>6. CASE N = 0
  <2>1. s = <<>>
    BY <1>6, EmptySeq
  <2>2. FlattenSeq(s) = s
    BY <1>6 DEF FlattenSeq
  <2> QED BY <1>4, <1>5, <1>6, <2>1, <2>2 DEF Flattens
<1>7. CASE N # 0
  <2> DEFINE e == [n \in 1..N |-> g[n]]
  <2>1. e = flat(e)
    <3>1. \A n \in 1..N : e[n] = flat(e)[n]
      <4> SUFFICES ASSUME NEW n \in 1..N PROVE e[n] = flat(e)[n]
        OBVIOUS
      <4>1. CASE n = 1
        <5>1. g[1] = <<>> \o s[1]
          <6>1. g[n] = g[n - 1] \o s[n]
            BY <1>5
          <6>2. n - 1 = 0
            BY <4>1
          <6> QED BY <1>4, <4>1, <6>1, <6>2
        <5>2. g[1] = s[1]
          BY <1>1, <4>1, <5>1, ConcatEmptySeq
        <5> QED BY <4>1, <5>2
      <4>2. CASE n # 1
        <5>1. n - 1 \in 1..N /\ e[n] = g[n] /\ e[n - 1] = g[n - 1]
          BY <1>1, <4>2
        <5>2. flat(e)[n] = e[n - 1] \o s[n]
          BY <4>2
        <5> HIDE DEF e, flat
        <5> QED BY <1>5, <5>1, <5>2
      <4> QED BY <4>1, <4>2
    <3>2. DOMAIN e = 1..N /\ DOMAIN flat(e) = 1..N
      OBVIOUS
    <3>3. e = [n \in 1..N |-> e[n]] /\ flat(e) = [n \in 1..N |-> flat(e)[n]]
      OBVIOUS
    <3> HIDE DEF e, flat
    <3> QED BY <3>1, <3>2, <3>3
  <2> DEFINE h == CHOOSE f : f = flat(f)
  <2>2. h = flat(h)
    BY <2>1
  <2>3. FlattenSeq(s) = h[N]
    BY <1>7 DEF FlattenSeq
  <2> HIDE DEF h
  <2> DEFINE T == {m \in Nat : m + 1 <= N => h[m + 1] = g[m + 1]}
  <2>4. 0 \in T
    <3>1. 1 \in 1..N
      BY <1>1, <1>7
    <3>2. e[1] = s[1] /\ e[1] = g[1]
      <4>1. flat(e)[1] = s[1]
        BY <3>1
      <4>2. e[1] = g[1]
        BY <3>1
      <4> HIDE DEF e, flat
      <4> QED BY <2>1, <4>1, <4>2
    <3>3. h[1] = s[1]
      <4>1. flat(h)[1] = s[1]
        BY <3>1
      <4> HIDE DEF flat
      <4> QED BY <2>2, <4>1
    <3> QED BY <3>2, <3>3
  <2>5. ASSUME NEW m \in Nat, m \in T PROVE m + 1 \in T
    <3> DEFINE k == (m + 1) + 1
    <3> SUFFICES ASSUME k <= N PROVE h[k] = g[k]
      OBVIOUS
    <3>1. k \in 1..N /\ k # 1 /\ k - 1 = m + 1 /\ h[m + 1] = g[m + 1]
      BY <1>1, <2>5
    <3> HIDE DEF k
    <3>2. h[k] = h[k - 1] \o s[k]
      <4>1. flat(h)[k] = h[k - 1] \o s[k]
        BY <3>1
      <4> HIDE DEF flat
      <4> QED BY <2>2, <4>1
    <3>3. g[k] = g[k - 1] \o s[k]
      BY <1>5, <3>1
    <3> QED BY <3>1, <3>2, <3>3
  <2>6. N - 1 \in T
    <3>1. \A m \in Nat : m \in T
      <4> HIDE DEF T
      <4> QED BY <2>4, <2>5, NaturalInduction
    <3>2. N - 1 \in Nat
      <4>1. N \in Nat /\ N # 0
        BY <1>1, <1>7
      <4> HIDE DEF N
      <4> QED BY <4>1
    <3> QED BY <3>1, <3>2
  <2>7. FlattenSeq(s) = g[N]
    <3>1. N \in Nat /\ (N - 1) + 1 = N
      <4>1. N \in Nat
        BY <1>1
      <4> HIDE DEF N
      <4> QED BY <4>1
    <3>2. N - 1 \in Nat /\ (N - 1 + 1 <= N => h[N - 1 + 1] = g[N - 1 + 1])
      BY <2>6
    <3> HIDE DEF N, T
    <3> QED BY <2>3, <3>1, <3>2
  <2> QED BY <1>4, <1>5, <2>7 DEF Flattens
<1> QED BY <1>6, <1>7

\* The end of one list is put behind the ends of those before it.
LEMMA FlattenStep ==
    ASSUME NEW E, NEW s \in Seq(Seq(E)), NEW c \in Seq(E)
    PROVE  FlattenSeq(Append(s, c)) = FlattenSeq(s) \o c
<1> DEFINE t == Append(s, c)
           N == Len(s)
<1>1. /\ N \in Nat /\ t \in Seq(Seq(E)) /\ Len(t) = N + 1 /\ t[N + 1] = c
      /\ \A i \in 1..N : t[i] = s[i]
  BY AppendProperties, LenProperties
<1>2. PICK f : Flattens(f, s, E)
  BY FlattenUnfolds
<1>3. PICK g : Flattens(g, t, E)
  BY <1>1, FlattenUnfolds
<1> HIDE DEF t
<1>4. \A n \in 1..N : f[n] = f[n - 1] \o s[n]
  BY <1>2 DEF Flattens
<1>5. \A n \in 1..N + 1 : g[n] = g[n - 1] \o t[n]
  BY <1>1, <1>3 DEF Flattens
<1>6. f[0] = <<>> /\ g[0] = <<>> /\ f[N] = FlattenSeq(s) /\ g[N + 1] = FlattenSeq(t)
  BY <1>1, <1>2, <1>3 DEF Flattens
<1> HIDE DEF N
<1> DEFINE T == {n \in Nat : n <= N => f[n] = g[n]}
<1>7. 0 \in T
  BY <1>6
<1>8. ASSUME NEW n \in Nat, n \in T PROVE n + 1 \in T
  <2> SUFFICES ASSUME n + 1 <= N PROVE f[n + 1] = g[n + 1]
    OBVIOUS
  <2> DEFINE k == n + 1
  <2>1. k \in 1..N /\ k \in 1..N + 1 /\ k - 1 = n /\ f[n] = g[n] /\ s[k] = t[k]
    BY <1>1, <1>8
  <2> HIDE DEF k
  <2>2. f[k] = g[k]
    BY <1>4, <1>5, <2>1
  <2> QED BY <2>2 DEF k
<1>9. N \in T
  <2> HIDE DEF T
  <2> QED BY <1>1, <1>7, <1>8, NaturalInduction
<1>10. g[N + 1] = g[N] \o c
  <2> DEFINE k == N + 1
  <2>1. k \in 1..N + 1 /\ k - 1 = N /\ t[k] = c
    BY <1>1
  <2> HIDE DEF k
  <2>2. g[k] = g[N] \o c
    BY <1>5, <2>1
  <2> QED BY <2>2 DEF k
<1>11. N \in Nat
  BY <1>1 DEF N
<1>12. g[N] = f[N]
  <2> HIDE DEF N
  <2> QED BY <1>9, <1>11
<1> QED BY <1>6, <1>10, <1>12 DEF t

\* What comes out is a list, and nothing where nothing went in.
LEMMA FlattenType ==
    ASSUME NEW E, NEW s \in Seq(Seq(E))
    PROVE  FlattenSeq(s) \in Seq(E) /\ FlattenSeq(<<>>) = <<>>
<1>1. PICK f : Flattens(f, s, E)
  BY FlattenUnfolds
<1>2. Len(s) \in Nat
  BY LenProperties
<1>3. FlattenSeq(s) \in Seq(E)
  BY <1>1, <1>2 DEF Flattens
<1>4. Len(<<>>) = 0
  BY EmptySeq
<1>5. FlattenSeq(<<>>) = <<>>
  BY <1>4 DEF FlattenSeq
<1> QED BY <1>3, <1>5
-----------------------------------------------------------------------------
\* One element and a list behind a list.
LEMMA AppendConcat ==
    ASSUME NEW E, NEW s \in Seq(E), NEW e \in E, NEW r \in Seq(E)
    PROVE  /\ Append(s, e) \o r \in Seq(E)
           /\ Len(Append(s, e) \o r) = Len(s) + 1 + Len(r)
           /\ \A i \in 1..Len(s) : (Append(s, e) \o r)[i] = s[i]
           /\ (Append(s, e) \o r)[Len(s) + 1] = e
           /\ \A k \in 1..Len(r) : (Append(s, e) \o r)[Len(s) + 1 + k] = r[k]
<1> DEFINE a == Append(s, e)
           n == Len(s)
           b == n + 1
           c == Len(r)
           all == a \o r
<1>1. n \in Nat /\ c \in Nat
  BY LenProperties
<1>2. a \in Seq(E) /\ Len(a) = b /\ a[b] = e /\ \A i \in 1..n : a[i] = s[i]
  BY AppendProperties
<1>3. b \in Nat /\ b > n
  <2> HIDE DEF n
  <2> QED BY <1>1
<1> HIDE DEF a, all
<1>4. all \in Seq(E) /\ Len(all) = Len(a) + c
      /\ \A i \in 1..Len(a) + c : all[i] = IF i <= Len(a) THEN a[i] ELSE r[i - Len(a)]
  BY <1>2, ConcatProperties DEF all
<1> HIDE DEF b, c
<1>5. Len(all) = b + c /\ \A i \in 1..b + c : all[i] = IF i <= b THEN a[i] ELSE r[i - b]
  BY <1>2, <1>4
<1> HIDE DEF n
<1>6. ASSUME NEW i \in 1..n PROVE all[i] = s[i]
  <2>1. i \in 1..b + c /\ i <= b
    BY <1>1, <1>3
  <2> QED BY <1>2, <1>5, <2>1
<1>7. all[b] = e
  <2>1. b \in 1..b + c /\ b <= b
    BY <1>1, <1>3
  <2> QED BY <1>2, <1>5, <2>1
<1>8. ASSUME NEW k \in 1..c PROVE all[b + k] = r[k]
  <2> DEFINE i == b + k
  <2>1. i \in 1..b + c /\ ~(i <= b) /\ i - b = k
    BY <1>1, <1>3
  <2> HIDE DEF i
  <2>2. all[i] = r[k]
    BY <1>5, <2>1
  <2> QED BY <2>2 DEF i
<1> QED BY <1>4, <1>5, <1>6, <1>7, <1>8 DEF a, b, c, n, all

\* A list of one element.
LEMMA Single ==
    ASSUME NEW E, NEW e \in E
    PROVE  <<e>> \in Seq(E) /\ Len(<<e>>) = 1 /\ Range(<<e>>) = {e}
<1> DEFINE s == <<e>>
<1>1. s \in Seq(E) /\ Len(s) = 1 /\ s[1] = e
  OBVIOUS
<1> HIDE DEF s
<1>2. DOMAIN s = {1}
  BY <1>1, LenProperties
<1>3. Range(s) = {e}
  BY <1>1, <1>2 DEF Range
<1> QED BY <1>1, <1>3 DEF s
=============================================================================

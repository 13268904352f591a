-------------------------- MODULE Bm25CacheProofs --------------------------
(***************************************************************************)
(* Why a matching fingerprint means current chunks, for every instance of  *)
(* Bm25Cache. The argument: a document that differs from a cached entry is *)
(* still unsettled, or its last status write began after the entry's       *)
(* fingerprint was read, and max(updated_at) has moved on.                 *)
(***************************************************************************)
EXTENDS Bm25Cache, FiniteSetTheorems, SequenceTheorems, WellFoundedInduction, TLAPS

\* The entries whose corpus somebody may use.
Finished(t) == pos[t] \in {"store", "done"}
Entries     == cache \cup {found[t] : t \in {u \in Threads : Finished(u)}}

\* Document d has been written since the corpus of e was read.
Behind(e, d) == d \notin gone /\ e.corpus[d] # rows[d]

Sound(e) ==
    \A d \in Docs : Behind(e, d) =>
        /\ d \notin unsettled => rows[d] # <<>> /\ stamp[d] > e.sig.at
        /\ d \in Uploads /\ job[d] = "status" => began[d] > e.sig.at

\* Nothing is dated later than the clock, and what has been committed, or read
\* from what has been, no later than `latest`.
Dated ==
    /\ latest <= clock
    /\ \A d \in Docs : stamp[d] <= latest
    /\ \A d \in Uploads : began[d] <= clock
    /\ mig.at <= clock
    /\ \A e \in cache : e.sig.at <= latest
    /\ \A t \in Threads : found[t].sig.at <= latest

\* What open transactions will commit, and what is committed, has chunks.
Drafted ==
    /\ \A d \in Docs : Open(d) => d \notin gone
    /\ \A d \in unsettled : rows[d] # <<>> /\ d \notin gone
    /\ \A d \in gone : rows[d] = <<>>

Served ==
    \A t \in Threads : \A d \in seen[t] :
        /\ d \notin gone \cup unsettled
        /\ pos[t] = "lookup" /\ rows[d] # <<>> => stamp[d] <= found[t].sig.at
        /\ Finished(t) => found[t].corpus[d] = rows[d]

Counted ==
    /\ \A e \in cache : e.sig.count = Cardinality(Ids(e.probed))
    /\ \A t \in Threads : pos[t] \in {"read", "store", "done"} =>
          found[t].sig.count = Cardinality(Ids(found[t].probed))

IndInv ==
    /\ TypeOK /\ Dated /\ Drafted /\ Served /\ Counted
    /\ \A e \in Entries : Sound(e)
-----------------------------------------------------------------------------
(* Maxima of bounded sets of naturals.                                     *)

USE DEF Open, Locked

Less == {p \in Nat \X Nat : p[1] < p[2]}

\* A set of naturals has a least element.
LEMMA LeastNat ==
    ASSUME NEW T, T \subseteq Nat, T # {}
    PROVE  \E x \in T : \A y \in T : x <= y
<1>1. IsWellFoundedOn(Less, Nat)
  BY NatLessThanWellFounded DEF OpToRel, Less
<1>2. \E x \in T : \A y \in T : ~(<<y, x>> \in Less)
  BY ONLY <1>1, WFMin, T \subseteq Nat, T # {}
<1>3. PICK x \in T : \A y \in T : ~(<<y, x>> \in Less)
  BY <1>2
<1>4. \A y \in T : <<y, x>> \in Less <=> y < x
  BY DEF Less
<1>5. \A y \in T : ~(y < x)
  BY <1>3, <1>4
<1>6. \A y \in T : x <= y
  BY <1>5, T \subseteq Nat
<1> QED
  BY <1>6

\* One with an upper bound has a greatest, which Max returns.
LEMMA MaxBounds ==
    ASSUME NEW T, T \subseteq Nat, T # {}, NEW b \in Nat, \A x \in T : x <= b
    PROVE  Max(T) \in T /\ \A y \in T : y <= Max(T)
<1> DEFINE U == {b - x : x \in T}
<1>1. U \subseteq Nat /\ U # {}
  <2>1. \A x \in T : b - x \in Nat
    OBVIOUS
  <2> QED
    BY <2>1
<1>2. PICK z \in U : \A y \in U : z <= y
  <2> HIDE DEF U
  <2> QED
    BY <1>1, LeastNat
<1>3. PICK x \in T : z = b - x
  BY <1>2
<1>4. \A y \in T : b - x <= b - y
  BY <1>2, <1>3
<1>5. \A y \in T : y <= x
  BY <1>4
<1> QED
  BY <1>5 DEF Max

\* The fingerprint's time covers every document that has chunks.
LEMMA SignatureCovers ==
    ASSUME TypeOK, Dated
    PROVE  /\ Signature.at \in Nat /\ Signature.at <= latest
           /\ \A d \in Docs : rows[d] # <<>> => stamp[d] <= Signature.at
           /\ Signature.count = Cardinality(Ids(rows))
<1> DEFINE T == {0} \cup {stamp[d] : d \in {e \in Docs : rows[e] # <<>>}}
<1>1. T \subseteq Nat /\ T # {} /\ latest \in Nat /\ \A x \in T : x <= latest
  BY DEF TypeOK, Dated
<1>2. Max(T) \in T /\ \A y \in T : y <= Max(T)
  <2> HIDE DEF T
  <2> QED
    BY <1>1, MaxBounds
<1>3. Signature.at = Max(T) /\ Signature.count = Cardinality(Ids(rows))
  BY DEF Signature
<1> QED
  BY <1>1, <1>2, <1>3
-----------------------------------------------------------------------------
(* The writers. They leave the entries alone.                              *)

\* What an upsert commits are chunk rows, one per content of the text.
LEMMA UpsertRows ==
    ASSUME TypeOK, NEW old \in Seq(Row), NEW x \in Texts
    PROVE  /\ Upsert(old, x) \in Seq(Row) /\ Upsert(old, x) # <<>>
           /\ Len(Upsert(old, x)) = Len(x) /\ Len(x) \in Nat \ {0}
<1>1. x \in Seq(Contents) /\ x # <<>>
  BY TextsAssumption
<1>2. Len(x) \in Nat \ {0} /\ DOMAIN x = 1..Len(x) /\ \A i \in 1..Len(x) : x[i] \in Contents
  BY <1>1, LenProperties, ElementOfSeq, EmptySeq
<1>3. \A i \in DOMAIN old : old[i].id \in Nat
  <2>1. DOMAIN old = 1..Len(old) /\ \A i \in 1..Len(old) : old[i] \in Row
    BY LenProperties
  <2> QED
    BY <2>1 DEF Row
<1>4. Upsert(old, x) \in [1..Len(x) -> Row]
  BY <1>2, <1>3 DEF Upsert, Row, TypeOK
<1>5. Upsert(old, x) \in Seq(Row) /\ Len(Upsert(old, x)) = Len(x)
  BY <1>2, <1>4, SeqDef, LenProperties
<1> QED
  BY <1>2, <1>5, EmptySeq

\* A status write begins: its time is later than that of every entry.
LEMMA BeginStatusKeeps ==
    ASSUME IndInv, NEW d \in Uploads, BeginStatus(d)
    PROVE  IndInv'
<1> USE DEF history, BeginStatus, tables, readers
<1>1. TypeOK'
  BY DEF IndInv, TypeOK, IsEntry
<1>2. Dated'
  BY DEF IndInv, TypeOK, Dated, Docs, IsEntry
<1>3. Drafted' /\ Served' /\ Counted'
  BY DEF IndInv, TypeOK, Drafted, Served, Counted, Finished
<1>4. \A e \in Entries' : Sound(e)'
  BY DEF IndInv, TypeOK, Dated, Entries, Finished, Sound, Behind, IsEntry
<1> QED
  BY <1>1, <1>2, <1>3, <1>4 DEF IndInv

\* It commits: a document that has been written moves past every entry.
LEMMA CommitStatusKeeps ==
    ASSUME IndInv, NEW d \in Uploads, CommitStatus(d)
    PROVE  IndInv'
<1> USE DEF CommitStatus, readers, Written, Stamped
<1>1. TypeOK'
  <2>1. (\A c \in Docs : draft[c] # <<>> <=> Open(c))'
    BY DocsAssumption DEF IndInv, TypeOK, Docs
  <2>2. stamp' \in [Docs -> Nat] /\ latest' \in Nat /\ began' \in [Uploads -> Nat]
    BY DEF IndInv, TypeOK, Docs
  <2> QED
    BY <2>1, <2>2 DEF IndInv, TypeOK, IsEntry
<1>2. Dated'
  <2>1. latest \in Nat /\ clock \in Nat /\ latest <= clock /\ began[d] \in Nat
        /\ began[d] <= clock /\ d \in Docs /\ stamp[d] \in Nat /\ stamp[d] <= latest
    BY DEF IndInv, TypeOK, Dated, Docs
  <2>2. stamp'[d] = IF d \in gone THEN stamp[d] ELSE began[d]
    BY <2>1 DEF IndInv, TypeOK
  <2>3. latest' \in Nat /\ latest' <= clock /\ latest <= latest' /\ stamp'[d] <= latest'
    BY <2>1, <2>2
  <2>4. \A c \in Docs : stamp'[c] <= latest'
    BY <2>1, <2>3 DEF IndInv, TypeOK, Dated
  <2>5. /\ \A e \in cache' : e.sig.at <= latest'
        /\ \A t \in Threads : found'[t].sig.at <= latest'
    BY <2>1, <2>3 DEF IndInv, TypeOK, IsEntry, Dated
  <2> QED
    BY <2>1, <2>3, <2>4, <2>5 DEF IndInv, TypeOK, Dated
<1>3. Drafted' /\ Served' /\ Counted'
  BY DEF IndInv, TypeOK, Drafted, Served, Counted, Finished
<1>4. \A e \in Entries' : Sound(e)'
  BY DEF IndInv, TypeOK, Drafted, Entries, Finished, Sound, Behind, Docs
<1> QED
  BY <1>1, <1>2, <1>3, <1>4 DEF IndInv

\* New chunks are drafted.
LEMMA BeginReplaceKeeps ==
    ASSUME IndInv, NEW d \in Uploads, BeginReplace(d)
    PROVE  IndInv'
<1> USE DEF history, BeginReplace, tables, readers
<1>0. PICK x \in Texts : nextId' = nextId + Len(x) /\ draft' = [draft EXCEPT ![d] = Upsert(rows[d], x)]
  OBVIOUS
<1>x. /\ Upsert(rows[d], x) \in Seq(Row) /\ Upsert(rows[d], x) # <<>> /\ Len(x) \in Nat
      /\ d \in Docs
  BY UpsertRows DEF IndInv, TypeOK, Version, Docs
<1>1. TypeOK'
  <2>1. draft' \in Version /\ nextId' \in Nat
    BY <1>0, <1>x DEF IndInv, TypeOK, Version
  <2>2. (\A c \in Docs : draft[c] # <<>> <=> Open(c))'
    BY <1>0, <1>x, DocsAssumption DEF IndInv, TypeOK, Version, Docs
  <2> QED
    BY <2>1, <2>2 DEF IndInv, TypeOK, IsEntry
<1>2. Dated'
  BY DEF IndInv, TypeOK, Dated, Docs
<1>3. Drafted' /\ Served' /\ Counted'
  BY <1>0, <1>x, DocsAssumption DEF IndInv, TypeOK, Version, Drafted, Served, Counted, Finished
<1>4. \A e \in Entries' : Sound(e)'
  BY DEF IndInv, TypeOK, Entries, Finished, Sound, Behind
<1> QED
  BY <1>1, <1>2, <1>3, <1>4 DEF IndInv

\* New chunks are committed: the document is unsettled.
LEMMA CommitReplaceKeeps ==
    ASSUME IndInv, NEW d \in Uploads, CommitReplace(d)
    PROVE  IndInv'
<1> USE DEF CommitReplace, readers, Written
<1>0. d \in Docs /\ draft[d] \in Seq(Row) /\ draft[d] # <<>> /\ d \notin gone /\ <<>> \in Seq(Row)
  BY EmptySeq DEF IndInv, TypeOK, Version, Docs, Drafted
<1>1. TypeOK'
  <2>1. (\A c \in Docs : draft[c] # <<>> <=> Open(c))'
    BY <1>0, DocsAssumption DEF IndInv, TypeOK, Version, Docs
  <2>2. rows' \in Version /\ draft' \in Version
    BY <1>0 DEF IndInv, TypeOK, Version
  <2> QED
    BY <1>0, <2>1, <2>2 DEF IndInv, TypeOK, IsEntry
<1>2. Dated'
  BY DEF IndInv, TypeOK, Dated, Docs
<1>3. Drafted' /\ Served' /\ Counted'
  BY <1>0, DocsAssumption DEF IndInv, TypeOK, Version, Drafted, Served, Counted, Finished
<1>4. \A e \in Entries' : Sound(e)'
  BY <1>0 DEF IndInv, TypeOK, Version, Entries, Finished, Sound, Behind
<1> QED
  BY <1>1, <1>2, <1>3, <1>4 DEF IndInv

\* A transaction of a job rolls back.
LEMMA AbortKeeps ==
    ASSUME IndInv, NEW d \in Uploads, Abort(d)
    PROVE  IndInv'
<1> USE DEF history, Abort, tables, readers
<1>0. d \in Docs /\ <<>> \in Seq(Row)
  BY EmptySeq DEF Docs
<1>1. TypeOK'
  <2>1. (\A c \in Docs : draft[c] # <<>> <=> Open(c))'
    BY <1>0, DocsAssumption DEF IndInv, TypeOK, Version, Docs
  <2>2. rows' \in Version /\ draft' \in Version
    BY <1>0 DEF IndInv, TypeOK, Version
  <2> QED
    BY <1>0, <2>1, <2>2 DEF IndInv, TypeOK, IsEntry
<1>2. Dated'
  BY DEF IndInv, TypeOK, Dated, Docs
<1>3. Drafted' /\ Served' /\ Counted'
  BY <1>0, DocsAssumption DEF IndInv, TypeOK, Version, Drafted, Served, Counted, Finished
<1>4. \A e \in Entries' : Sound(e)'
  <2>1. Entries' = Entries /\ \A c \in Uploads : job'[c] = "status" => job[c] = "status" /\ c # d
    BY DEF IndInv, TypeOK, Entries, Finished
  <2> QED
    BY <2>1 DEF IndInv, TypeOK, Sound, Behind
<1> QED
  BY <1>1, <1>2, <1>3, <1>4 DEF IndInv

\* Deleted documents are behind no entry.
LEMMA RemoveKeeps ==
    ASSUME IndInv, NEW D, D \subseteq Docs, Remove(D)
    PROVE  IndInv'
<1> USE DEF Remove, writers, readers, Written
<1>0. <<>> \in Seq(Row)
  BY EmptySeq
<1>1. TypeOK'
  BY <1>0 DEF IndInv, TypeOK, IsEntry, Version
<1>2. Dated'
  BY DEF IndInv, TypeOK, Dated
<1>3. Drafted'
  BY DEF IndInv, TypeOK, Drafted
<1>4. Served' /\ Counted'
  BY DEF IndInv, TypeOK, Served, Counted, Finished
<1>5. \A e \in Entries' : Sound(e)'
  BY DEF IndInv, TypeOK, Entries, Finished, Sound, Behind
<1> QED
  BY <1>1, <1>2, <1>3, <1>4, <1>5 DEF IndInv

\* The migration begins.
LEMMA BeginMigrateKeeps ==
    ASSUME IndInv, BeginMigrate
    PROVE  IndInv'
<1> USE DEF history, BeginMigrate, tables, readers
<1>1. TypeOK'
  <2>1. mig' \in [at : Nat, laws : SUBSET Laws] /\ mig'.laws = mig.laws /\ clock' \in Nat
    <3>1. clock' \in Nat /\ mig \in [at : Nat, laws : SUBSET Laws]
      BY DEF IndInv, TypeOK
    <3> QED
      BY <3>1
  <2> QED
    BY <2>1 DEF IndInv, TypeOK, IsEntry
<1>2. Dated'
  BY DEF IndInv, TypeOK, Dated, Docs, IsEntry
<1>3. Drafted' /\ Served' /\ Counted'
  BY DEF IndInv, TypeOK, Drafted, Served, Counted, Finished
<1>4. \A e \in Entries' : Sound(e)'
  BY DEF IndInv, TypeOK, Entries, Finished, Sound, Behind
<1> QED
  BY <1>1, <1>2, <1>3, <1>4 DEF IndInv

\* It drafts the chunks of a law.
LEMMA UpsertLawKeeps ==
    ASSUME IndInv, NEW l \in Laws, UpsertLaw(l)
    PROVE  IndInv'
<1> USE DEF history, UpsertLaw, tables, readers
<1>0. PICK x \in Texts :
        /\ nextId' = nextId + Len(x)
        /\ draft' = [draft EXCEPT ![l] =
               Upsert(rows[l], x) \o SubSeq(rows[l], Len(Upsert(rows[l], x)) + 1, Len(rows[l]))]
  OBVIOUS
<1> DEFINE new  == Upsert(rows[l], x)
           tail == SubSeq(rows[l], Len(new) + 1, Len(rows[l]))
<1>1. l \in Docs /\ rows[l] \in Seq(Row)
  BY DEF IndInv, TypeOK, Version, Docs
<1>2. new \in Seq(Row) /\ Len(new) = Len(x) /\ Len(x) \in Nat \ {0}
  BY <1>1, UpsertRows DEF IndInv
<1>3. tail \in Seq(Row)
  <2>1. Len(rows[l]) \in Nat /\ \A i \in 1..Len(rows[l]) : rows[l][i] \in Row
    BY <1>1, LenProperties
  <2>2. Len(new) + 1 \in 1..(Len(rows[l]) + 1) \/ Len(new) + 1 > Len(rows[l])
    BY <1>2, <2>1
  <2> QED
    BY <1>1, <1>2, <2>1, SubSeqProperties
<1>4. new \o tail \in Seq(Row) /\ new \o tail # <<>>
  BY <1>2, <1>3, ConcatProperties, LenProperties, EmptySeq
<1>5. draft' = [draft EXCEPT ![l] = new \o tail] /\ nextId' \in Nat
  <2>1. nextId \in Nat
    BY DEF IndInv, TypeOK
  <2>2. nextId' = nextId + Len(x) /\ Len(x) \in Nat
    BY <1>0, <1>2
  <2>3. draft' = [draft EXCEPT ![l] = new \o tail]
    BY <1>0
  <2> HIDE DEF new, tail
  <2>4. nextId' \in Nat
    BY ONLY <2>1, <2>2
  <2> QED
    BY ONLY <2>3, <2>4
<1> HIDE DEF new, tail
<1>6. draft' \in Version /\ draft'[l] # <<>> /\ \A d \in Docs \ {l} : draft'[d] = draft[d]
  BY <1>1, <1>4, <1>5 DEF IndInv, TypeOK, Version
<1>7. TypeOK'
  BY <1>5, <1>6 DEF IndInv, TypeOK, IsEntry
<1>8. Dated'
  BY DEF IndInv, TypeOK, Dated
<1>9. Drafted'
  BY <1>6, DocsAssumption DEF IndInv, TypeOK, Drafted, Docs
<1>10. Served' /\ Counted'
  BY DEF IndInv, TypeOK, Served, Counted, Finished
<1>11. \A e \in Entries' : Sound(e)'
  BY DEF IndInv, TypeOK, Entries, Finished, Sound, Behind
<1> QED
  BY <1>7, <1>8, <1>9, <1>10, <1>11 DEF IndInv

\* It commits: its laws are dated later than every entry, or unsettled.
LEMMA CommitMigrateKeeps ==
    ASSUME IndInv, CommitMigrate
    PROVE  IndInv'
<1> USE DEF CommitMigrate, readers, Written, Stamped
<1>0. <<>> \in Seq(Row) /\ mig.laws \subseteq Docs /\ mig.at \in Nat
      /\ mig' \in [at : Nat, laws : SUBSET Laws] /\ mig'.at = 0 /\ mig'.laws = {}
  BY EmptySeq DEF IndInv, TypeOK, Docs
<1>1. TypeOK'
  <2>1. rows' \in Version /\ draft' \in Version /\ stamp' \in [Docs -> Nat]
    BY <1>0 DEF IndInv, TypeOK, Version
  <2>2. (\A c \in Docs : draft[c] # <<>> <=> Open(c))'
    BY <1>0, DocsAssumption DEF IndInv, TypeOK, Version, Docs
  <2>3. latest' \in Nat /\ unsettled' \subseteq Docs
    BY <1>0 DEF IndInv, TypeOK
  <2> QED
    BY <1>0, <2>1, <2>2, <2>3 DEF IndInv, TypeOK, IsEntry
<1>2. Dated'
  <2>1. latest \in Nat /\ clock \in Nat /\ latest <= clock /\ mig.at <= clock
    BY DEF IndInv, TypeOK, Dated
  <2>2. latest' \in Nat /\ latest' <= clock /\ latest <= latest' /\ mig.at <= latest'
    BY <1>0, <2>1
  <2>3. \A d \in Docs : stamp'[d] <= latest'
    BY <1>0, <2>1, <2>2 DEF IndInv, TypeOK, Dated
  <2>4. /\ \A e \in cache' : e.sig.at <= latest'
        /\ \A t \in Threads : found'[t].sig.at <= latest'
    BY <2>1, <2>2 DEF IndInv, TypeOK, IsEntry, Dated
  <2> QED
    BY <1>0, <2>1, <2>2, <2>3, <2>4 DEF IndInv, TypeOK, Dated
<1>3. Drafted'
  <2>1. \A d \in mig.laws : rows'[d] # <<>> /\ d \notin gone
    BY <1>0 DEF IndInv, TypeOK, Drafted, Version
  <2> QED
    BY <1>0, <2>1, DocsAssumption DEF IndInv, TypeOK, Drafted, Docs
<1>4. Served' /\ Counted'
  BY <1>0 DEF IndInv, TypeOK, Served, Counted, Finished
<1>5. \A e \in Entries' : Sound(e)'
  <2> SUFFICES ASSUME NEW e \in Entries', NEW d \in Docs, Behind(e, d)'
               PROVE  /\ d \notin unsettled' => rows'[d] # <<>> /\ stamp'[d] > e.sig.at
                      /\ d \in Uploads /\ job'[d] = "status" => began'[d] > e.sig.at
    BY DEF Sound
  <2>1. e \in Entries /\ Sound(e) /\ e.sig.at \in Nat /\ e.sig.at <= latest
    BY DEF IndInv, TypeOK, IsEntry, Dated, Entries, Finished
  <2>2. CASE d \in mig.laws
    <3>1. d \notin Uploads /\ rows'[d] # <<>> /\ stamp'[d] = mig.at
      BY <1>0, <2>2, DocsAssumption DEF IndInv, TypeOK, Version
    <3>2. d \notin unsettled' => mig.at > latest
      BY <2>2
    <3> QED
      BY <1>0, <2>1, <3>1, <3>2 DEF IndInv, TypeOK
  <2>3. CASE d \notin mig.laws
    <3>1. Behind(e, d) /\ rows'[d] = rows[d] /\ stamp'[d] = stamp[d]
      BY <2>3 DEF Behind
    <3>2. d \notin unsettled' => d \notin unsettled
      BY <2>3
    <3> QED
      BY <2>1, <3>1, <3>2 DEF Sound
  <2> QED
    BY <2>2, <2>3
<1> QED
  BY <1>1, <1>2, <1>3, <1>4, <1>5 DEF IndInv

\* It rolls back.
LEMMA AbortMigrateKeeps ==
    ASSUME IndInv, AbortMigrate
    PROVE  IndInv'
<1> USE DEF history, AbortMigrate, tables, readers
<1>0. <<>> \in Seq(Row) /\ mig.laws \subseteq Laws
      /\ mig' \in [at : Nat, laws : SUBSET Laws] /\ mig'.at = 0 /\ mig'.laws = {}
  BY EmptySeq DEF IndInv, TypeOK
<1>1. TypeOK'
  <2>1. (\A c \in Docs : draft[c] # <<>> <=> Open(c))'
    BY <1>0, DocsAssumption DEF IndInv, TypeOK, Version, Docs
  <2>2. draft' \in Version
    BY <1>0 DEF IndInv, TypeOK, Version
  <2> QED
    BY <1>0, <2>1, <2>2 DEF IndInv, TypeOK, IsEntry
<1>2. Dated'
  BY <1>0 DEF IndInv, TypeOK, Dated
<1>3. Drafted' /\ Served' /\ Counted'
  BY <1>0, DocsAssumption DEF IndInv, TypeOK, Drafted, Served, Counted, Finished, Docs
<1>4. \A e \in Entries' : Sound(e)'
  BY DEF IndInv, TypeOK, Entries, Finished, Sound, Behind
<1> QED
  BY <1>1, <1>2, <1>3, <1>4 DEF IndInv

\* The server starts with an empty cache.
LEMMA RestartKeeps ==
    ASSUME IndInv, Restart
    PROVE  IndInv'
<1> USE DEF Restart, tables
<1>0. <<>> \in Seq(Row) /\ IsEntry(NoEntry) /\ NoEntry.sig.at = 0
  BY EmptySeq DEF NoEntry, Entry, IsEntry, Empty, Version
<1>1. TypeOK'
  <2>1. (\A c \in Docs : draft[c] # <<>> <=> Open(c))'
    BY <1>0, DocsAssumption DEF IndInv, TypeOK, Version, Docs
  <2>2. draft' \in Version
    BY <1>0 DEF IndInv, TypeOK, Version
  <2> QED
    BY <1>0, <2>1, <2>2, ThreadAssumption DEF IndInv, TypeOK
<1>2. Dated'
  BY <1>0 DEF IndInv, TypeOK, Dated
<1>3. Drafted' /\ Served' /\ Counted'
  BY DocsAssumption DEF IndInv, TypeOK, Drafted, Served, Counted, Finished, Docs
<1>4. \A e \in Entries' : Sound(e)'
  BY DEF Entries, Finished
<1> QED
  BY <1>1, <1>2, <1>3, <1>4 DEF IndInv
-----------------------------------------------------------------------------
(* The searches. They leave the tables alone.                              *)

\* A search stores or returns only entries that are sound.
LEMMA SearchKeeps ==
    ASSUME IndInv, NEW t \in Threads, Search(t)
    PROVE  IndInv'
<1> USE DEF tables, writers, history, At
<1>0. IsEntry(NoEntry) /\ NoEntry.sig.at = 0
  BY EmptySeq DEF NoEntry, Entry, IsEntry, Empty, Version
<1>e. /\ Empty \in Version
      /\ \A g, p, c : /\ Entry(g, p, c).sig = g
                      /\ Entry(g, p, c).probed = p /\ Entry(g, p, c).corpus = c
      /\ \A g, p, c : g.at \in Nat /\ p \in Version /\ c \in Version => IsEntry(Entry(g, p, c))
  BY EmptySeq DEF Entry, IsEntry, Empty, Version
<1>s. /\ Signature.at \in Nat /\ Signature.at <= latest
      /\ \A d \in Docs : rows[d] # <<>> => stamp[d] <= Signature.at
      /\ Signature.count = Cardinality(Ids(rows))
  BY SignatureCovers DEF IndInv
<1>f. UNCHANGED <<rows, stamp, gone, nextId, clock, job, began, draft, mig, unsettled, latest>>
  BY DEF Search, Start, Probe, Lookup, Enter, Recheck, Sign, Read, Store, Fail
<1>d. Drafted'
  BY <1>f DEF IndInv, Drafted
<1>g. \A e : Sound(e) => Sound(e)'
  BY <1>f DEF Sound, Behind
<1>1. CASE Start(t)
  <2>1. TypeOK' /\ Dated'
    <3>1. \A u \in Threads : IsEntry(found'[u]) /\ found'[u].sig.at <= latest
      BY <1>1, <1>0, <1>e, <1>s DEF Start, IndInv, TypeOK, Dated
    <3>2. (\A u \in Threads : holder = u <=> pos[u] \in Locked)'
      BY <1>1, ThreadAssumption DEF Start, IndInv, TypeOK
    <3> QED
      BY <1>1, <1>f, <3>1, <3>2 DEF Start, IndInv, TypeOK, Dated
  <2>2. Served'
    BY <1>1, <1>e, <1>s, <1>f DEF Start, IndInv, TypeOK, Served, Sound, Behind, Finished, Entries
  <2>3. Counted'
    BY <1>1, <1>e, <1>s, <1>f DEF Start, IndInv, TypeOK, Counted, Finished
  <2>4. Entries' \subseteq Entries
    BY <1>1 DEF Start, IndInv, TypeOK, Entries, Finished
  <2> QED
    BY <1>d, <1>g, <2>1, <2>2, <2>3, <2>4 DEF IndInv
<1>2. CASE Probe(t)
  <2>1. TypeOK' /\ Dated'
    <3>1. \A u \in Threads : IsEntry(found'[u]) /\ found'[u].sig.at <= latest
      BY <1>2, <1>0, <1>e, <1>s DEF Probe, IndInv, TypeOK, Dated
    <3>2. (\A u \in Threads : holder = u <=> pos[u] \in Locked)'
      BY <1>2, ThreadAssumption DEF Probe, IndInv, TypeOK
    <3> QED
      BY <1>2, <1>f, <3>1, <3>2 DEF Probe, IndInv, TypeOK, Dated
  <2>2. Served'
    BY <1>2, <1>e, <1>s, <1>f DEF Probe, IndInv, TypeOK, Served, Sound, Behind, Finished, Entries
  <2>3. Counted'
    BY <1>2, <1>e, <1>s, <1>f DEF Probe, IndInv, TypeOK, Counted, Finished
  <2>4. Entries' \subseteq Entries
    BY <1>2 DEF Probe, IndInv, TypeOK, Entries, Finished
  <2> QED
    BY <1>d, <1>g, <2>1, <2>2, <2>3, <2>4 DEF IndInv
<1>3. CASE Lookup(t)
  <2>1. TypeOK' /\ Dated'
    <3>1. \A u \in Threads : IsEntry(found'[u]) /\ found'[u].sig.at <= latest
      <4>1. latest' = latest /\ 0 <= latest
        BY <1>f DEF IndInv, TypeOK
      <4>2. CASE found' = [found EXCEPT ![t] = NoEntry]
        BY <1>0, <4>1, <4>2 DEF IndInv, TypeOK, Dated
      <4>3. ASSUME NEW e \in cache, found' = [found EXCEPT ![t] = e]
            PROVE  \A u \in Threads : IsEntry(found'[u]) /\ found'[u].sig.at <= latest
        BY <4>3 DEF IndInv, TypeOK, Dated
      <4> QED
        BY <1>3, <4>2, <4>3 DEF Lookup
    <3>2. (\A u \in Threads : holder = u <=> pos[u] \in Locked)'
      BY <1>3, ThreadAssumption DEF Lookup, IndInv, TypeOK
    <3> QED
      BY <1>3, <1>f, <3>1, <3>2 DEF Lookup, IndInv, TypeOK, Dated
  <2>2. Served'
    <3>0. seen' = seen /\ DOMAIN pos = Threads /\ DOMAIN found = Threads
      BY <1>3 DEF Lookup, IndInv, TypeOK
    <3>1. ASSUME found' = [found EXCEPT ![t] = NoEntry], pos' = [pos EXCEPT ![t] = "wait"]
          PROVE  Served'
      BY <1>f, <3>0, <3>1 DEF IndInv, Served, Finished
    <3>2. ASSUME NEW e \in cache, e.sig = found[t].sig,
                 pos' = [pos EXCEPT ![t] = "done"], found' = [found EXCEPT ![t] = e]
          PROVE  Served'
      <4>1. \A d \in seen[t] : d \in Docs \ (gone \cup unsettled)
                               /\ (rows[d] # <<>> => stamp[d] <= e.sig.at)
        BY <1>3, <3>2 DEF Lookup, IndInv, TypeOK, Served
      <4>2. Sound(e) /\ e.sig.at \in Nat /\ \A d \in Docs : stamp[d] \in Nat
        BY <3>2 DEF IndInv, Entries, TypeOK, IsEntry
      <4>3. \A d \in seen[t] : e.corpus[d] = rows[d]
        BY <4>1, <4>2 DEF Sound, Behind
      <4> QED
        BY <1>f, <3>0, <3>2, <4>1, <4>3 DEF IndInv, Served, Finished
    <3> QED
      BY <1>3, <3>1, <3>2 DEF Lookup
  <2>3. Counted'
    <3>1. ASSUME found' = [found EXCEPT ![t] = NoEntry], pos' = [pos EXCEPT ![t] = "wait"]
          PROVE  Counted'
      BY <1>3, <3>1 DEF Lookup, IndInv, TypeOK, Counted
    <3>2. ASSUME NEW e \in cache, pos' = [pos EXCEPT ![t] = "done"],
                 found' = [found EXCEPT ![t] = e]
          PROVE  Counted'
      BY <1>3, <3>2 DEF Lookup, IndInv, TypeOK, Counted
    <3> QED
      BY <1>3, <3>1, <3>2 DEF Lookup
  <2>4. Entries' \subseteq Entries
    BY <1>3 DEF Lookup, IndInv, TypeOK, Entries, Finished
  <2> QED
    BY <1>d, <1>g, <2>1, <2>2, <2>3, <2>4 DEF IndInv
<1>4. CASE Enter(t)
  <2>1. TypeOK' /\ Dated'
    <3>1. \A u \in Threads : IsEntry(found'[u]) /\ found'[u].sig.at <= latest
      BY <1>4, <1>0, <1>e, <1>s DEF Enter, IndInv, TypeOK, Dated
    <3>2. (\A u \in Threads : holder = u <=> pos[u] \in Locked)'
      BY <1>4, ThreadAssumption DEF Enter, IndInv, TypeOK
    <3> QED
      BY <1>4, <1>f, <3>1, <3>2 DEF Enter, IndInv, TypeOK, Dated
  <2>2. Served'
    BY <1>4, <1>e, <1>s, <1>f DEF Enter, IndInv, TypeOK, Served, Sound, Behind, Finished, Entries
  <2>3. Counted'
    BY <1>4, <1>e, <1>s, <1>f DEF Enter, IndInv, TypeOK, Counted, Finished
  <2>4. Entries' \subseteq Entries
    BY <1>4 DEF Enter, IndInv, TypeOK, Entries, Finished
  <2> QED
    BY <1>d, <1>g, <2>1, <2>2, <2>3, <2>4 DEF IndInv
<1>5. CASE Recheck(t)
  <2>1. TypeOK' /\ Dated'
    <3>1. \A u \in Threads : IsEntry(found'[u]) /\ found'[u].sig.at <= latest
      BY <1>5, <1>0, <1>e, <1>s DEF Recheck, IndInv, TypeOK, Dated
    <3>2. (\A u \in Threads : holder = u <=> pos[u] \in Locked)'
      BY <1>5, ThreadAssumption DEF Recheck, IndInv, TypeOK
    <3> QED
      <4>1. /\ holder' \in Threads \cup {NoThread} /\ DOMAIN found' = Threads
            /\ cache' = cache /\ seen' = seen
            /\ pos' \in [Threads -> {"idle", "probe", "lookup", "wait", "recheck", "sign",
                                     "read", "store", "done"}]
        BY <1>5 DEF Recheck, IndInv, TypeOK
      <4> QED
        BY <1>f, <3>1, <3>2, <4>1 DEF IndInv, TypeOK, Dated
  <2>2. Served'
    BY <1>5, <1>e, <1>s, <1>f DEF Recheck, IndInv, TypeOK, Served, Sound, Behind, Finished, Entries
  <2>3. Counted'
    <3>1. CASE UNCHANGED found /\ pos'[t] = "sign"
      BY <1>5, <3>1 DEF Recheck, IndInv, TypeOK, Counted
    <3>2. ASSUME NEW e \in cache, found' = [found EXCEPT ![t] = e]
          PROVE  Counted'
      BY <1>5, <3>2 DEF Recheck, IndInv, TypeOK, Counted
    <3> QED
      BY <1>5, <3>1, <3>2 DEF Recheck, IndInv, TypeOK
  <2>4. Entries' \subseteq Entries
    BY <1>5 DEF Recheck, IndInv, TypeOK, Entries, Finished
  <2> QED
    BY <1>d, <1>g, <2>1, <2>2, <2>3, <2>4 DEF IndInv
<1>6. CASE Sign(t)
  <2>1. TypeOK' /\ Dated'
    <3>1. \A u \in Threads : IsEntry(found'[u]) /\ found'[u].sig.at <= latest
      BY <1>6, <1>0, <1>e, <1>s DEF Sign, IndInv, TypeOK, Dated
    <3>2. (\A u \in Threads : holder = u <=> pos[u] \in Locked)'
      BY <1>6, ThreadAssumption DEF Sign, IndInv, TypeOK
    <3> QED
      BY <1>6, <1>f, <3>1, <3>2 DEF Sign, IndInv, TypeOK, Dated
  <2>2. Served'
    BY <1>6, <1>e, <1>s, <1>f DEF Sign, IndInv, TypeOK, Served, Sound, Behind, Finished, Entries
  <2>3. Counted'
    BY <1>6, <1>e, <1>s, <1>f DEF Sign, IndInv, TypeOK, Counted, Finished
  <2>4. Entries' \subseteq Entries
    BY <1>6 DEF Sign, IndInv, TypeOK, Entries, Finished
  <2> QED
    BY <1>d, <1>g, <2>1, <2>2, <2>3, <2>4 DEF IndInv
<1>7. CASE Read(t)
  <2>1. TypeOK' /\ Dated'
    <3>1. \A u \in Threads : IsEntry(found'[u]) /\ found'[u].sig.at <= latest
      BY <1>7, <1>0, <1>e, <1>s DEF Read, IndInv, TypeOK, Dated, IsEntry
    <3>2. (\A u \in Threads : holder = u <=> pos[u] \in Locked)'
      BY <1>7, ThreadAssumption DEF Read, IndInv, TypeOK
    <3> QED
      BY <1>7, <1>f, <3>1, <3>2 DEF Read, IndInv, TypeOK, Dated
  <2>2. Served'
    BY <1>7, <1>e, <1>s, <1>f DEF Read, IndInv, TypeOK, Served, Sound, Behind, Finished, Entries
  <2>3. Counted'
    BY <1>7, <1>e, <1>s, <1>f DEF Read, IndInv, TypeOK, Counted, Finished
  <2>4. Entries' \subseteq Entries \cup {found'[t]} /\ found'[t].corpus = rows
    BY <1>7, <1>e DEF Read, IndInv, TypeOK, Entries, Finished
  <2>5. \A e : e.corpus = rows => Sound(e)'
    BY <1>f DEF Sound, Behind
  <2> QED
    BY <1>d, <1>g, <2>1, <2>2, <2>3, <2>4, <2>5 DEF IndInv
<1>8. CASE Store(t)
  <2>1. TypeOK' /\ Dated'
    <3>1. \A u \in Threads : IsEntry(found'[u]) /\ found'[u].sig.at <= latest
      BY <1>8, <1>0, <1>e, <1>s DEF Store, IndInv, TypeOK, Dated
    <3>2. (\A u \in Threads : holder = u <=> pos[u] \in Locked)'
      BY <1>8, ThreadAssumption DEF Store, IndInv, TypeOK
    <3> QED
      BY <1>8, <1>f, <3>1, <3>2 DEF Store, IndInv, TypeOK, Dated
  <2>2. Served'
    BY <1>8, <1>e, <1>s, <1>f DEF Store, IndInv, TypeOK, Served, Sound, Behind, Finished, Entries
  <2>3. Counted'
    BY <1>8, <1>e, <1>s, <1>f DEF Store, IndInv, TypeOK, Counted, Finished
  <2>4. Entries' \subseteq Entries
    BY <1>8 DEF Store, IndInv, TypeOK, Entries, Finished
  <2> QED
    BY <1>d, <1>g, <2>1, <2>2, <2>3, <2>4 DEF IndInv
<1>9. CASE Fail(t)
  <2>1. TypeOK' /\ Dated'
    <3>1. \A u \in Threads : IsEntry(found'[u]) /\ found'[u].sig.at <= latest
      BY <1>9, <1>0, <1>e, <1>s DEF Fail, IndInv, TypeOK, Dated
    <3>2. (\A u \in Threads : holder = u <=> pos[u] \in Locked)'
      BY <1>9, ThreadAssumption DEF Fail, IndInv, TypeOK
    <3> QED
      BY <1>9, <1>f, <3>1, <3>2 DEF Fail, IndInv, TypeOK, Dated
  <2>2. Served'
    BY <1>9, <1>e, <1>s, <1>f DEF Fail, IndInv, TypeOK, Served, Sound, Behind, Finished, Entries
  <2>3. Counted'
    BY <1>9, <1>e, <1>s, <1>f DEF Fail, IndInv, TypeOK, Counted, Finished
  <2>4. Entries' \subseteq Entries
    BY <1>9 DEF Fail, IndInv, TypeOK, Entries, Finished
  <2> QED
    BY <1>d, <1>g, <2>1, <2>2, <2>3, <2>4 DEF IndInv
<1> QED
  BY <1>1, <1>2, <1>3, <1>4, <1>5, <1>6, <1>7, <1>8, <1>9 DEF Search
-----------------------------------------------------------------------------
\* Nothing is stored and nothing is cached.
LEMMA InitIndInv == Init => IndInv
<1> SUFFICES ASSUME Init PROVE IndInv
  OBVIOUS
<1>1. Empty \in Version /\ IsEntry(NoEntry) /\ NoEntry.sig.at = 0
  BY EmptySeq DEF NoEntry, Entry, IsEntry, Empty, Version
<1>2. TypeOK
  BY <1>1, ThreadAssumption DEF Init, TypeOK, Empty
<1>3. Dated /\ Drafted /\ Served /\ Counted
  BY <1>1 DEF Init, Dated, Drafted, Served, Counted, Finished, Empty, Docs
<1>4. Entries = {}
  BY DEF Init, Entries, Finished
<1> QED
  BY <1>2, <1>3, <1>4 DEF IndInv

\* IndInv is inductive.
LEMMA NextIndInv == IndInv /\ [Next]_vars => IndInv'
<1> SUFFICES ASSUME IndInv, [Next]_vars PROVE IndInv'
  OBVIOUS
<1>1. CASE Write
  <2>1. \A d \in Docs : Remove({d}) => IndInv'
    BY RemoveKeeps
  <2>2. Remove(Docs \ gone) => IndInv'
    BY RemoveKeeps
  <2> QED
    BY <1>1, <2>1, <2>2, BeginStatusKeeps, CommitStatusKeeps, AbortKeeps, BeginReplaceKeeps,
       CommitReplaceKeeps, BeginMigrateKeeps, CommitMigrateKeeps, AbortMigrateKeeps,
       UpsertLawKeeps DEF Write
<1>2. CASE Restart
  BY <1>2, RestartKeeps
<1>3. CASE \E t \in Threads : Search(t)
  BY <1>3, SearchKeeps
<1>4. CASE UNCHANGED vars
  <2> USE <1>4 DEF vars, tables, writers, readers, history
  <2>1. TypeOK'
    BY DEF IndInv, TypeOK, IsEntry
  <2>2. Dated' /\ Drafted' /\ Served' /\ Counted'
    BY DEF IndInv, Dated, Drafted, Served, Counted, Finished
  <2>3. \A e \in Entries' : Sound(e)'
    BY DEF IndInv, Entries, Finished, Sound, Behind
  <2> QED
    BY <2>1, <2>2, <2>3 DEF IndInv
<1> QED
  BY <1>1, <1>2, <1>3, <1>4 DEF Next

\* IndInv holds in every reachable state.
THEOREM Invariance == Spec => []IndInv
  BY InitIndInv, NextIndInv, PTL DEF Spec

\* Every variable keeps its type.
THEOREM TypeCorrect == Spec => []TypeOK
  BY Invariance, PTL DEF IndInv

\* While its fingerprint matches, the index holds the current chunks of every
\* document that exists and whose chunks an updated_at accounts for: its own state
\* decides, not that of the other documents (retriever.py:58-83).
THEOREM MatchMeansCurrent == Spec => []CurrentWhenMatched
<1>1. IndInv => CurrentWhenMatched
  <2> SUFFICES ASSUME IndInv, NEW e \in cache, e.sig = Signature,
                      NEW d \in Docs \ (gone \cup unsettled)
               PROVE  e.corpus[d] = rows[d]
    BY DEF CurrentWhenMatched
  <2>1. Sound(e)
    BY DEF IndInv, Entries
  <2>2. /\ rows[d] # <<>> => stamp[d] <= e.sig.at
        /\ stamp[d] \in Nat /\ e.sig.at \in Nat
    BY SignatureCovers DEF IndInv, TypeOK
  <2> QED
    BY <2>1, <2>2 DEF Sound, Behind
<1> QED
  BY Invariance, <1>1, PTL

\* A search returns what was settled when it began, whichever path it takes
\* through the lock (retriever.py:67-83).
THEOREM SearchesSeeSettled == Spec => []SeesSettled
<1>1. IndInv => SeesSettled
  BY DEF IndInv, Served, SeesSettled, Finished
<1> QED
  BY Invariance, <1>1, PTL

\* Chunk identities of versions of the documents form finite sets.
LEMMA IdsFinite ==
    ASSUME NEW v \in Version
    PROVE  IsFiniteSet(Ids(v))
<1>1. \A d \in Docs : IsFiniteSet({<<d, i>> : i \in DOMAIN v[d]})
  <2> SUFFICES ASSUME NEW d \in Docs
               PROVE  IsFiniteSet({<<d, i>> : i \in DOMAIN v[d]})
    OBVIOUS
  <2>1. Len(v[d]) \in Nat /\ DOMAIN v[d] = 1..Len(v[d])
    BY LenProperties DEF Version
  <2>2. IsFiniteSet(DOMAIN v[d])
    BY <2>1, FS_Interval
  <2> DEFINE f == [i \in DOMAIN v[d] |-> <<d, i>>]
  <2>3. f \in Surjection(DOMAIN v[d], {<<d, i>> : i \in DOMAIN v[d]})
    BY DEF Surjection
  <2> QED
    BY <2>2, <2>3, FS_Surjection
<1> DEFINE S == {{<<d, i>> : i \in DOMAIN v[d]} : d \in Docs}
<1>2. IsFiniteSet(S)
  <2> DEFINE g == [d \in Docs |-> {<<d, i>> : i \in DOMAIN v[d]}]
  <2>1. g \in Surjection(Docs, S)
    BY DEF Surjection
  <2> QED
    BY <2>1, DocsAssumption, FS_Surjection
<1>3. \A s \in S : IsFiniteSet(s)
  BY <1>1
<1>4. Ids(v) = UNION S
  BY DEF Ids
<1> HIDE DEF S
<1> QED
  BY <1>2, <1>3, <1>4, FS_UNION

\* Only a write between the probe and the read of the corpus can leave a deleted
\* document in an index whose fingerprint matches, as far as no document still
\* awaits the stamp of other chunks than it shows (retriever.py:75-76).
THEOREM StaleNeedsRace == Spec => []ExactUnlessRaced
<1>1. IndInv /\ CurrentWhenMatched => ExactUnlessRaced
  <2> SUFFICES ASSUME IndInv, CurrentWhenMatched, NEW e \in cache, e.sig = Signature,
                      e.probed = e.corpus, \A d \in unsettled : e.corpus[d] = rows[d]
               PROVE  e.corpus = rows
    BY DEF ExactUnlessRaced
  <2>1. \A d \in Docs \ gone : e.corpus[d] = rows[d]
    BY DEF CurrentWhenMatched
  <2>2. \A d \in gone : rows[d] = <<>>
    BY DEF IndInv, Drafted
  <2>3. e.corpus \in Version /\ rows \in Version
    BY DEF IndInv, TypeOK, IsEntry
  <2>4. Ids(rows) \subseteq Ids(e.corpus)
    <3>1. DOMAIN <<>> = {}
      BY EmptySeq, LenProperties
    <3> QED
      BY <2>1, <2>2, <3>1 DEF Ids
  <2>5. Cardinality(Ids(e.corpus)) = Cardinality(Ids(rows))
    BY SignatureCovers DEF IndInv, Counted
  <2>6. Ids(rows) = Ids(e.corpus)
    BY <2>3, <2>4, <2>5, IdsFinite, FS_Subset
  <2>7. \A d \in gone : e.corpus[d] = <<>>
    <3> SUFFICES ASSUME NEW d \in gone PROVE e.corpus[d] = <<>>
      OBVIOUS
    <3>1. d \in Docs /\ e.corpus[d] \in Seq(Row)
      BY <2>3 DEF IndInv, TypeOK, Version
    <3>2. \A i \in DOMAIN e.corpus[d] : <<d, i>> \in Ids(rows)
      <4>1. \A i \in DOMAIN e.corpus[d] : <<d, i>> \in Ids(e.corpus)
        BY <3>1 DEF Ids
      <4> QED
        BY <4>1, <2>6
    <3>3. DOMAIN rows[d] = {}
      BY <2>2, EmptySeq, LenProperties
    <3>4. \A i : <<d, i>> \notin Ids(rows)
      BY <3>3 DEF Ids
    <3>5. DOMAIN e.corpus[d] = {}
      BY <3>2, <3>4
    <3>6. Len(e.corpus[d]) \in Nat /\ DOMAIN e.corpus[d] = 1..Len(e.corpus[d])
      BY <3>1, LenProperties
    <3>7. Len(e.corpus[d]) = 0
      <4>1. \A n \in Nat : 1..n = {} => n = 0
        OBVIOUS
      <4> QED
        BY <3>5, <3>6, <4>1
    <3> QED
      BY <3>1, <3>7, EmptySeq
  <2> QED
    BY <2>1, <2>2, <2>3, <2>7 DEF Version
<1> QED
  BY Invariance, MatchMeansCurrent, <1>1, PTL
=============================================================================

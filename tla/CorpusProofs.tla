---------------------------- MODULE CorpusProofs ----------------------------
(***************************************************************************)
(* From a page to the corpus: a vector of another text has one of two      *)
(* explanations, and a migration that nobody disturbed leaves every        *)
(* article, for any laws and versions of them, any number of embedding     *)
(* jobs, migrations and deletions; and a page that parse_document lets     *)
(* pass gives its law as the page has it.                                  *)
(***************************************************************************)
EXTENDS Corpus, PureParts, ListsProofs, FiniteSetTheorems, SequenceTheorems, TLAPS

Texts == UNION {{v[i] : i \in DOMAIN v} : v \in Versions}
Row   == [text : Texts, vec : Texts \cup {NoVector}]
Law   == [doc : Nat, texts : Seq(Texts)]

MigTypes == [pos : {"idle", "open", "committed", "passed", "failed"}, calm : BOOLEAN, embed : BOOLEAN,
             todo : SUBSET Laws, done : UNION {[S -> Law] : S \in SUBSET Laws}]

Types ==
    /\ articles \in [Laws -> Seq(Texts)]
    /\ doc \in [Laws -> Nat]
    /\ chunks \in [Laws -> Seq(Row)]
    /\ drawn \in Nat
    /\ job \in [Jobs -> UNION {[S -> Texts] : S \in SUBSET (Nat \X Nat)}]
    /\ changed \in [Jobs -> SUBSET (Nat \X Nat)]
    /\ mig \in MigTypes

\* An id is that of one document, once and for all: of a law in the table, or of
\* one that the open migration is about to create.
DocsInv ==
    /\ \A l \in Laws : doc[l] <= drawn /\ (doc[l] = 0 => chunks[l] = <<>>)
    /\ \A k, l \in Laws : k # l /\ doc[k] # 0 => doc[k] # doc[l]

MigInv ==
    mig.pos = "open" => \A l \in DOMAIN mig.done :
        /\ l \notin mig.todo
        /\ mig.done[l].doc \in 1..drawn
        /\ doc[l] # 0 => mig.done[l].doc = doc[l]
        /\ doc[l] = 0 => \A k \in Laws : doc[k] # mig.done[l].doc
        /\ \A k \in DOMAIN mig.done : k # l => mig.done[k].doc # mig.done[l].doc

\* A job holds the texts of the chunks it has read, but for those replaced since;
\* a chunk it has read is there as long as its document, and no id is used again.
JobInv ==
    \A j \in Jobs : \A c \in DOMAIN job[j] :
        /\ c[1] \in 1..drawn
        /\ \A l \in Laws : doc[l] = c[1] =>
               /\ c[2] \in DOMAIN chunks[l]
               /\ c \notin changed[j] => chunks[l][c[2]].text = job[j][c]
        /\ mig.pos = "open" => \A l \in DOMAIN mig.done : doc[l] = 0 => mig.done[l].doc # c[1]

\* VectorsExplained, by law and position.
Explained ==
    \A l \in Laws : \A i \in DOMAIN chunks[l] :
        \/ chunks[l][i].vec \in {NoVector, chunks[l][i].text}
        \/ <<doc[l], i>> \in unforced \cup overtaken

IInv == Types /\ DocsInv /\ MigInv /\ JobInv /\ Explained
-----------------------------------------------------------------------------
\* What an upsert leaves: as many rows as the longer one, the new ones first.
LEMMA Upserting ==
    ASSUME NEW S, NEW old \in Seq(S), NEW new \in Seq(S)
    PROVE  /\ Upsert(old, new) \in Seq(S)
           /\ DOMAIN Upsert(old, new) = DOMAIN old \cup DOMAIN new
           /\ \A i \in DOMAIN Upsert(old, new) :
                 Upsert(old, new)[i] = IF i \in DOMAIN new THEN new[i] ELSE old[i]
<1> DEFINE n == IF Len(old) < Len(new) THEN Len(new) ELSE Len(old)
<1>1. /\ Len(old) \in Nat /\ DOMAIN old = 1..Len(old) /\ \A i \in DOMAIN old : old[i] \in S
      /\ Len(new) \in Nat /\ DOMAIN new = 1..Len(new) /\ \A i \in DOMAIN new : new[i] \in S
  BY LenProperties, ElementOfSeq
<1>2. n \in Nat /\ 1..n = DOMAIN old \cup DOMAIN new
  BY <1>1
<1>3. Upsert(old, new) = [i \in 1..n |-> IF i \in DOMAIN new THEN new[i] ELSE old[i]]
  BY DEF Upsert
<1>4. Upsert(old, new) \in [1..n -> S]
  BY <1>1, <1>2, <1>3
<1>5. Upsert(old, new) \in Seq(S)
  BY <1>2, <1>4, IsASeq
<1> QED
  BY <1>2, <1>3, <1>5

\* A sequence changed row by row is one.
LEMMA Mapped ==
    ASSUME NEW S, NEW T, NEW s \in Seq(S), NEW f \in [DOMAIN s -> T]
    PROVE  f \in Seq(T) /\ DOMAIN f = DOMAIN s
<1>1. Len(s) \in Nat /\ DOMAIN s = 1..Len(s)
  BY LenProperties
<1>2. PICK n \in Nat : DOMAIN s = 1..n
  BY <1>1
<1>3. f \in [1..n -> T]
  BY <1>2
<1>4. f \in Seq(T)
  BY <1>3
<1> QED
  BY <1>4

\* A chunk is looked up by the id of its document.
LEMMA Lookup ==
    ASSUME DocsInv, NEW l \in Laws, NEW i \in DOMAIN chunks[l]
    PROVE  doc[l] # 0 /\ <<doc[l], i>> \in Ids /\ Chunk(<<doc[l], i>>) = chunks[l][i]
<1>1. doc[l] # 0
  BY EmptySeq, LenProperties DEF DocsInv
<1>2. (CHOOSE k \in Laws : doc[k] = doc[l]) = l
  BY <1>1 DEF DocsInv
<1>3. <<doc[l], i>> \in Ids
  BY DEF Ids
<1>4. Chunk(<<doc[l], i>>) = chunks[CHOOSE k \in Laws : doc[k] = doc[l]][i]
  BY DEF Chunk
<1> QED
  BY <1>1, <1>2, <1>3, <1>4

\* The two ways to say it.
LEMMA ExplainedIsProperty == DocsInv /\ Explained => VectorsExplained
  BY Lookup DEF Ids, Explained, VectorsExplained
\* Nothing is there at first.
LEMMA InitHolds == Init => IInv
<1> SUFFICES ASSUME Init PROVE IInv
  OBVIOUS
<1> USE DEF Init
<1>1. Nothing \in [{} -> Texts] /\ Nothing \in [{} -> Law]
  BY DEF Nothing
<1>2. \A j \in Jobs : DOMAIN job[j] = {}
  BY <1>1
<1>3. Types
  <2>1. Nothing \in UNION {[S -> Texts] : S \in SUBSET (Nat \X Nat)}
    BY <1>1
  <2>2. job \in [Jobs -> UNION {[S -> Texts] : S \in SUBSET (Nat \X Nat)}]
    BY <2>1
  <2>3. Nothing \in UNION {[S -> Law] : S \in SUBSET Laws}
    BY <1>1
  <2>4. mig \in MigTypes
    BY <2>3 DEF Idle, MigTypes
  <2>5. <<>> \in Seq(Texts) /\ <<>> \in Seq(Row)
    BY EmptySeq
  <2> QED
    BY <2>2, <2>4, <2>5 DEF Types
<1>4. DocsInv /\ MigInv /\ JobInv /\ Explained
  BY <1>2, EmptySeq, LenProperties DEF DocsInv, MigInv, JobInv, Explained, Idle
<1> QED
  BY <1>3, <1>4 DEF IInv

\* A step that leaves documents, chunks and jobs alone, and opens no migration.
LEMMA Aside ==
    ASSUME IInv, UNCHANGED <<doc, chunks, drawn, job, unforced, overtaken, changed>>,
           Types', \/ mig'.pos # "open"
                   \/ DOMAIN mig'.done = {}
                   \/ mig.pos = "open" /\ mig'.done = mig.done /\ mig'.todo = mig.todo
    PROVE  IInv'
<1>1. DocsInv' /\ Explained'
  BY DEF IInv, DocsInv, Explained
<1>2. MigInv' /\ JobInv'
  BY DEF IInv, MigInv, JobInv
<1> QED
  BY <1>1, <1>2 DEF IInv

\* What a migration is made of.
LEMMA MigRecord ==
    ASSUME NEW p \in {"idle", "open", "committed", "passed", "failed"}, NEW c \in BOOLEAN,
           NEW e \in BOOLEAN, NEW t \in SUBSET Laws, NEW S \in SUBSET Laws, NEW f \in [S -> Law]
    PROVE  [pos |-> p, calm |-> c, embed |-> e, todo |-> t, done |-> f] \in MigTypes
<1>1. f \in UNION {[U -> Law] : U \in SUBSET Laws}
  OBVIOUS
<1> QED
  BY <1>1 DEF MigTypes

\* A commit beside a migration only takes its calm.
LEMMA Disturbed ==
    ASSUME Types, Disturb
    PROVE  /\ mig' \in MigTypes
           /\ mig'.pos = "open" => mig.pos = "open" /\ mig'.done = mig.done /\ mig'.todo = mig.todo
<1>1. Nothing \in [{} -> Law]
  BY DEF Nothing
<1>2. Idle \in MigTypes /\ Idle.pos = "idle"
  BY <1>1 DEF Idle, MigTypes
<1> QED
  BY <1>2 DEF Types, MigTypes, Disturb

\* What is ingested are texts.
LEMMA IngestKeeps == ASSUME IInv, Ingest PROVE IInv'
<1>0. PICK laws \in SUBSET Laws : \E new \in [laws -> Versions] :
         articles' = [l \in Laws |-> IF l \in laws THEN Upsert(articles[l], new[l])
                                     ELSE articles[l]]
  BY DEF Ingest
<1>1. PICK new \in [laws -> Versions] :
         articles' = [l \in Laws |-> IF l \in laws THEN Upsert(articles[l], new[l])
                                     ELSE articles[l]]
  BY <1>0
<1>2. \A v \in Versions : v \in Seq(Texts)
  <2> SUFFICES ASSUME NEW v \in Versions PROVE v \in Seq(Texts)
    OBVIOUS
  <2>1. v \in Seq({v[i] : i \in DOMAIN v})
    BY VersionsAssumption
  <2>2. v \in [DOMAIN v -> Texts]
    BY <2>1 DEF Texts
  <2> QED
    BY <2>1, <2>2, Mapped
<1>3. \A l \in laws : Upsert(articles[l], new[l]) \in Seq(Texts)
  BY <1>2, Upserting DEF IInv, Types
<1>4. articles' \in [Laws -> Seq(Texts)]
  BY <1>1, <1>3 DEF IInv, Types
<1>5. /\ mig' \in MigTypes
      /\ mig'.pos = "open" => mig.pos = "open" /\ mig'.done = mig.done /\ mig'.todo = mig.todo
  BY Disturbed DEF IInv, Ingest
<1>6. Types'
  BY <1>4, <1>5 DEF IInv, Types, MigTypes, Ingest
<1> QED
  BY <1>5, <1>6, Aside DEF Ingest
\* A migration begins with nothing done.
LEMMA BeginKeeps == ASSUME IInv, BeginMigrate PROVE IInv'
<1>1. Nothing \in [{} -> Law]
  BY DEF Nothing
<1>2. mig' \in MigTypes /\ mig'.done = Nothing
  BY <1>1 DEF BeginMigrate, MigTypes
<1>3. Types'
  BY <1>2 DEF BeginMigrate, corpus, IInv, Types
<1>4. DOMAIN mig'.done = {}
  BY <1>1, <1>2
<1> QED
  BY <1>3, <1>4, Aside DEF BeginMigrate, corpus

\* Nothing is left of a migration that fails, and the self-check ends it.
LEMMA EndKeeps == ASSUME IInv, AbortMigrate \/ SelfCheck PROVE IInv'
<1>1. Nothing \in [{} -> Law]
  BY DEF Nothing
<1>2. mig' \in MigTypes /\ mig'.pos # "open"
  <2>1. \/ mig' = Idle
        \/ mig' = [Idle EXCEPT !.pos = "passed", !.calm = TRUE, !.embed = mig.embed]
        \/ mig' = [Idle EXCEPT !.pos = "failed", !.calm = TRUE, !.embed = mig.embed]
    BY DEF AbortMigrate, SelfCheck
  <2>2. \/ mig' = [pos |-> "idle", calm |-> FALSE, embed |-> FALSE, todo |-> {}, done |-> Nothing]
        \/ mig' = [pos |-> "passed", calm |-> TRUE, embed |-> mig.embed, todo |-> {}, done |-> Nothing]
        \/ mig' = [pos |-> "failed", calm |-> TRUE, embed |-> mig.embed, todo |-> {}, done |-> Nothing]
    BY <2>1 DEF Idle
  <2>3. mig.embed \in BOOLEAN
    BY DEF IInv, Types, MigTypes
  <2>4. PICK p \in {"idle", "passed", "failed"}, c \in BOOLEAN, e \in BOOLEAN :
           mig' = [pos |-> p, calm |-> c, embed |-> e, todo |-> {}, done |-> Nothing]
    BY <2>2, <2>3
  <2>5. {} \in SUBSET Laws /\ p \in {"idle", "open", "committed", "passed", "failed"}
    OBVIOUS
  <2>6. mig' \in MigTypes
    BY <1>1, <2>4, <2>5, MigRecord
  <2> QED
    BY <2>4, <2>6
<1>3. Types'
  BY <1>2 DEF AbortMigrate, SelfCheck, corpus, IInv, Types
<1> QED
  BY <1>2, <1>3, Aside DEF AbortMigrate, SelfCheck, corpus

\* An upload is another document.
LEMMA UploadKeeps == ASSUME IInv, Upload PROVE IInv'
<1>1. Types
  BY DEF IInv
<1>2. /\ mig' \in MigTypes
      /\ mig'.pos = "open" => mig.pos = "open" /\ mig'.done = mig.done /\ mig'.todo = mig.todo
  BY <1>1, Disturbed DEF Upload
<1>3. Types'
  BY <1>2 DEF Upload, IInv, Types
<1> QED
  BY <1>2, <1>3, Aside DEF Upload

\* A new document gets an id that nothing has.
LEMMA MigrateLawKeeps == ASSUME IInv, NEW l \in Laws, MigrateLaw(l) PROVE IInv'
<1> USE DEF IInv
<1>1. UNCHANGED <<articles, doc, chunks, job, unforced, overtaken, changed>>
  BY DEF MigrateLaw
<1>2. PICK law \in Law : law = [doc |-> DocOf(l), texts |-> articles[l]]
  <2>1. DocOf(l) \in Nat /\ articles[l] \in Seq(Texts)
    BY DEF Types, DocOf
  <2> QED
    BY <2>1 DEF Law
<1>3. /\ mig.pos = "open" /\ l \in mig.todo
      /\ mig' = [mig EXCEPT !.todo = @ \ {l},
                 !.done = [k \in {l} \cup DOMAIN @ |-> IF k = l THEN law ELSE @[k]]]
  BY <1>2 DEF MigrateLaw
<1>4. /\ mig'.pos = "open" /\ mig'.calm = mig.calm /\ mig'.todo = mig.todo \ {l}
      /\ mig'.done = [k \in {l} \cup DOMAIN mig.done |-> IF k = l THEN law ELSE mig.done[k]]
      /\ mig' = [pos |-> "open", calm |-> mig.calm, embed |-> mig.embed, todo |-> mig.todo \ {l},
                 done |-> mig'.done]
  BY <1>3 DEF Types, MigTypes
<1>5. l \notin DOMAIN mig.done /\ drawn \in Nat
  BY <1>3 DEF MigInv, Types
<1>6. drawn' = (IF doc[l] = 0 THEN drawn + 1 ELSE drawn)
      /\ law.doc = (IF doc[l] = 0 THEN drawn + 1 ELSE doc[l])
  BY <1>2 DEF MigrateLaw, DocOf
<1>7. PICK S \in SUBSET Laws : mig.done \in [S -> Law] /\ DOMAIN mig.done = S
  BY DEF Types, MigTypes
<1>8. mig'.done \in [{l} \cup S -> Law]
  BY <1>4, <1>7
<1>9. mig' \in MigTypes
  <2>1. mig.calm \in BOOLEAN /\ mig.embed \in BOOLEAN /\ mig.todo \ {l} \in SUBSET Laws /\ {l} \cup S \in SUBSET Laws
    BY DEF Types, MigTypes
  <2>2. [pos |-> "open", calm |-> mig.calm, embed |-> mig.embed, todo |-> mig.todo \ {l},
         done |-> mig'.done] \in MigTypes
    BY <1>8, <2>1, MigRecord
  <2> QED
    BY <1>4, <2>2
<1>10. Types'
  BY <1>1, <1>5, <1>6, <1>9 DEF Types
<1>11. DocsInv' /\ Explained'
  BY <1>1, <1>5, <1>6 DEF DocsInv, Explained, Types
<1>12. MigInv'
  BY <1>1, <1>3, <1>4, <1>5, <1>6, <1>7 DEF MigInv, DocsInv, Types, Law
<1>13. JobInv'
  BY <1>1, <1>3, <1>4, <1>5, <1>6, <1>7 DEF JobInv, DocsInv, Types
<1> QED
  BY <1>10, <1>11, <1>12, <1>13
\* The rows of a law once its articles are upserted.
LEMMA UpsertedFacts ==
    ASSUME Types, NEW l \in Laws, mig.done[l] \in Law
    PROVE  /\ Upserted(l) \in Seq(Row)
           /\ \A i \in DOMAIN Upserted(l) : Upserted(l)[i] \in Row
           /\ DOMAIN Upserted(l) = DOMAIN chunks[l] \cup DOMAIN mig.done[l].texts
           /\ DOMAIN chunks[l] \subseteq DOMAIN Upserted(l)
           /\ \A i \in DOMAIN mig.done[l].texts : Upserted(l)[i].text = mig.done[l].texts[i]
           /\ \A i \in DOMAIN Upserted(l) \ DOMAIN chunks[l] : Upserted(l)[i].vec = NoVector
           /\ \A i \in DOMAIN chunks[l] : Upserted(l)[i].vec = chunks[l][i].vec
<1>1. PICK old : old = chunks[l]
  OBVIOUS
<1>2. PICK texts : texts = mig.done[l].texts
  OBVIOUS
<1> DEFINE new == [i \in DOMAIN texts |->
                     [text |-> texts[i], vec |-> IF i \in DOMAIN old THEN old[i].vec ELSE NoVector]]
<1>3. old \in Seq(Row) /\ texts \in Seq(Texts)
  BY <1>1, <1>2 DEF Types, Law
<1>4. /\ \A i \in DOMAIN old : old[i] \in Row /\ old[i].vec \in Texts \cup {NoVector}
      /\ \A i \in DOMAIN texts : texts[i] \in Texts
  <2>1. \A i \in DOMAIN old : old[i] \in Row
    BY <1>3, ElementOfSeq, LenProperties
  <2>2. \A i \in DOMAIN texts : texts[i] \in Texts
    BY <1>3, ElementOfSeq, LenProperties
  <2> QED
    BY <2>1, <2>2 DEF Row
<1>5. /\ new \in [DOMAIN texts -> Row]
      /\ \A i \in DOMAIN texts : /\ new[i].text = texts[i]
                                 /\ new[i].vec = IF i \in DOMAIN old THEN old[i].vec ELSE NoVector
  BY <1>4 DEF Row
<1>6. Upserted(l) = Upsert(old, new)
  BY <1>1, <1>2 DEF Upserted
<1> HIDE DEF new
<1>7. new \in Seq(Row) /\ DOMAIN new = DOMAIN texts
  BY <1>3, <1>5, Mapped
<1>8. /\ Upsert(old, new) \in Seq(Row)
      /\ DOMAIN Upsert(old, new) = DOMAIN old \cup DOMAIN new
      /\ \A i \in DOMAIN Upsert(old, new) :
            Upsert(old, new)[i] = IF i \in DOMAIN new THEN new[i] ELSE old[i]
  <2>1. \A o, n \in Seq(Row) :
           /\ Upsert(o, n) \in Seq(Row)
           /\ DOMAIN Upsert(o, n) = DOMAIN o \cup DOMAIN n
           /\ \A i \in DOMAIN Upsert(o, n) :
                 Upsert(o, n)[i] = IF i \in DOMAIN n THEN n[i] ELSE o[i]
    BY Upserting
  <2> QED
    BY <1>3, <1>7, <2>1
<1>9. Upserted(l) \in Seq(Row) /\ DOMAIN Upserted(l) = DOMAIN old \cup DOMAIN texts
  BY <1>6, <1>7, <1>8
<1>10. \A i \in DOMAIN Upserted(l) : Upserted(l)[i] \in Row
  BY <1>9, ElementOfSeq, LenProperties
<1>11. \A i \in DOMAIN Upserted(l) :
          Upserted(l)[i] = IF i \in DOMAIN texts THEN new[i] ELSE old[i]
  BY <1>6, <1>7, <1>8
<1>12. /\ \A i \in DOMAIN texts : Upserted(l)[i].text = texts[i]
       /\ \A i \in DOMAIN Upserted(l) \ DOMAIN old : Upserted(l)[i].vec = NoVector
       /\ \A i \in DOMAIN old : Upserted(l)[i].vec = old[i].vec
  BY <1>5, <1>9, <1>11
<1> QED
  BY <1>1, <1>2, <1>9, <1>10, <1>12

\* The texts a migration leaves: vectors go with the rows they stood in, unless
\* they are computed.
LEMMA CommitMigrateKeeps ==
    ASSUME IInv, NEW embed \in BOOLEAN, NEW force \in BOOLEAN, CommitMigrate(embed, force)
    PROVE  IInv'
<1> USE DEF IInv
<1> DEFINE L == DOMAIN mig.done
           replaced == UNION {Replaced(l) : l \in L}
           all == [l \in Laws |-> IF l \in L THEN Upserted(l) ELSE chunks[l]]
<1>1. PICK S \in SUBSET Laws : mig.done \in [S -> Law] /\ DOMAIN mig.done = S
  BY DEF Types, MigTypes
<1>2. mig.pos = "open" /\ \A l \in L : l \in Laws /\ mig.done[l] \in Law
  BY <1>1 DEF CommitMigrate
<1>3. ASSUME NEW l \in L
      PROVE  /\ Upserted(l) \in Seq(Row)
             /\ DOMAIN chunks[l] \subseteq DOMAIN Upserted(l)
             /\ \A i \in DOMAIN Upserted(l) \ DOMAIN chunks[l] : Upserted(l)[i].vec = NoVector
             /\ \A i \in DOMAIN chunks[l] : Upserted(l)[i].vec = chunks[l][i].vec
  BY <1>2, UpsertedFacts
<1>4. ASSUME NEW l \in Laws
      PROVE  /\ all[l] \in Seq(Row)
             /\ DOMAIN chunks[l] \subseteq DOMAIN all[l]
             /\ \A i \in DOMAIN all[l] \ DOMAIN chunks[l] : all[l][i].vec = NoVector
             /\ \A i \in DOMAIN chunks[l] : all[l][i].vec = chunks[l][i].vec
             /\ \A i \in DOMAIN chunks[l] :
                   all[l][i].text = chunks[l][i].text \/ <<doc[l], i>> \in replaced
             /\ \A i \in DOMAIN all[l] : all[l][i] \in Row
             /\ l \notin L => all[l] = chunks[l]
  <2>1. CASE l \in L
    <3>1. all[l] = Upserted(l)
      BY <2>1
    <3>2. \A i \in DOMAIN chunks[l] :
             Upserted(l)[i].text = chunks[l][i].text \/ <<doc[l], i>> \in Replaced(l)
      BY DEF Replaced
    <3>3. \A i \in DOMAIN Upserted(l) : Upserted(l)[i] \in Row
      BY <1>3, <2>1, ElementOfSeq, LenProperties
    <3> QED
      BY <1>3, <2>1, <3>1, <3>2, <3>3
  <2>2. CASE l \notin L
    <3>1. all[l] = chunks[l] /\ chunks[l] \in Seq(Row)
      BY <2>2 DEF Types
    <3>2. \A i \in DOMAIN chunks[l] : chunks[l][i] \in Row
      BY <3>1, ElementOfSeq, LenProperties
    <3> QED
      BY <2>2, <3>1, <3>2
  <2> QED
    BY <2>1, <2>2
<1>5. /\ doc' = [l \in Laws |-> IF l \in L THEN mig.done[l].doc ELSE doc[l]]
      /\ chunks' = [l \in Laws |-> [i \in DOMAIN all[l] |-> Embedded(embed, force, all[l][i])]]
      /\ unforced' = IF embed /\ force THEN {} ELSE unforced \cup replaced
      /\ overtaken' = IF embed /\ force THEN {} ELSE overtaken
      /\ changed' = [j \in Jobs |-> changed[j] \cup (replaced \cap DOMAIN job[j])]
      /\ mig' = [mig EXCEPT !.pos = "committed", !.embed = embed]
      /\ UNCHANGED <<articles, drawn, job>>
  BY DEF CommitMigrate
<1> HIDE DEF all, replaced
<1>6. ASSUME NEW r \in Row
      PROVE  /\ Embedded(embed, force, r) \in Row
             /\ Embedded(embed, force, r).text = r.text
             /\ Embedded(embed, force, r).vec \in {r.vec, r.text}
             /\ embed /\ force => Embedded(embed, force, r).vec = r.text
  BY DEF Embedded, Row
<1>7. ASSUME NEW l \in Laws
      PROVE  /\ chunks'[l] \in Seq(Row)
             /\ DOMAIN chunks'[l] = DOMAIN all[l]
             /\ \A i \in DOMAIN all[l] :
                   /\ chunks'[l][i].text = all[l][i].text
                   /\ chunks'[l][i].vec \in {all[l][i].vec, all[l][i].text}
                   /\ embed /\ force => chunks'[l][i].vec = all[l][i].text
  <2>1. chunks'[l] = [i \in DOMAIN all[l] |-> Embedded(embed, force, all[l][i])]
    BY <1>5
  <2>2. all[l] \in Seq(Row) /\ \A i \in DOMAIN all[l] : all[l][i] \in Row
    BY <1>4
  <2>3. chunks'[l] \in [DOMAIN all[l] -> Row]
    BY <1>6, <2>1, <2>2
  <2>4. chunks'[l] \in Seq(Row) /\ DOMAIN chunks'[l] = DOMAIN all[l]
    BY <2>2, <2>3, Mapped
  <2> QED
    BY <1>6, <2>1, <2>2, <2>4
<1>8. ASSUME NEW l \in Laws
      PROVE  /\ doc'[l] = IF l \in L THEN mig.done[l].doc ELSE doc[l]
             /\ doc[l] # 0 => doc'[l] = doc[l]
             /\ doc'[l] \in Nat /\ doc'[l] <= drawn
             /\ doc'[l] = 0 => l \notin L /\ doc[l] = 0
  BY <1>2, <1>5 DEF MigInv, DocsInv, Types, Law
<1>9. Types'
  <2>1. doc' \in [Laws -> Nat] /\ chunks' \in [Laws -> Seq(Row)]
    BY <1>5, <1>7, <1>8
  <2>2. \A j \in Jobs : DOMAIN job[j] \subseteq Nat \X Nat
    BY DEF Types
  <2>3. changed' \in [Jobs -> SUBSET (Nat \X Nat)]
    BY <1>5, <2>2 DEF Types
  <2>4. mig' \in MigTypes
    BY <1>5 DEF Types, MigTypes
  <2> QED
    BY <1>5, <2>1, <2>3, <2>4 DEF Types
<1>10. DocsInv'
  <2>1. ASSUME NEW l \in Laws, doc'[l] = 0 PROVE chunks'[l] = <<>>
    <3>1. chunks[l] = <<>> /\ all[l] = chunks[l]
      BY <1>4, <1>8, <2>1 DEF DocsInv
    <3>2. DOMAIN chunks'[l] = {}
      BY <1>7, <3>1, EmptySeq, LenProperties
    <3> QED
      BY <1>7, <3>2, EmptySeq, LenProperties
  <2>2. ASSUME NEW k \in Laws, NEW l \in Laws, k # l, doc'[k] # 0 PROVE doc'[k] # doc'[l]
    <3>1. \A m \in Laws : doc[m] # 0 \/ (doc[m] = 0 /\ m \in L /\ doc'[m] = mig.done[m].doc)
                         \/ (doc[m] = 0 /\ doc'[m] = 0)
      BY <1>8
    <3>2. CASE doc[k] # 0 /\ doc[l] # 0
      BY <1>8, <2>2, <3>2 DEF DocsInv
    <3>3. CASE doc[k] # 0 /\ doc[l] = 0
      BY <1>2, <1>8, <2>2, <3>1, <3>3 DEF MigInv
    <3>4. CASE doc[k] = 0 /\ doc[l] # 0
      BY <1>2, <1>8, <2>2, <3>1, <3>4 DEF MigInv
    <3>5. CASE doc[k] = 0 /\ doc[l] = 0
      BY <1>2, <1>8, <2>2, <3>1, <3>5 DEF MigInv
    <3> QED
      BY <3>2, <3>3, <3>4, <3>5
  <2> QED
    BY <1>5, <1>8, <2>1, <2>2 DEF DocsInv
<1>11. MigInv'
  BY <1>5 DEF MigInv, Types, MigTypes
<1>12. JobInv'
  <2> SUFFICES ASSUME NEW j \in Jobs, NEW c \in DOMAIN job[j], NEW l \in Laws, doc'[l] = c[1]
               PROVE  /\ c[2] \in DOMAIN chunks'[l]
                      /\ c \notin changed'[j] => chunks'[l][c[2]].text = job[j][c]
    BY <1>2, <1>5, <1>9 DEF JobInv, Types, MigTypes
  <2>1. doc[l] = c[1]
    BY <1>2, <1>8 DEF JobInv, MigInv
  <2>2. c \in Nat \X Nat /\ c = <<doc[l], c[2]>>
    BY <2>1 DEF Types
  <2>3. c[2] \in DOMAIN chunks[l] /\ (c \notin changed[j] => chunks[l][c[2]].text = job[j][c])
    BY <2>1 DEF JobInv
  <2>4. c[2] \in DOMAIN all[l] /\ (all[l][c[2]].text = chunks[l][c[2]].text \/ c \in replaced)
    BY <1>4, <2>2, <2>3
  <2>5. changed'[j] = changed[j] \cup (replaced \cap DOMAIN job[j])
    BY <1>5
  <2> QED
    BY <1>7, <2>3, <2>4, <2>5
<1>13. Explained'
  <2> SUFFICES ASSUME NEW l \in Laws, NEW i \in DOMAIN chunks'[l], ~(embed /\ force)
               PROVE  \/ chunks'[l][i].vec \in {NoVector, chunks'[l][i].text}
                      \/ <<doc'[l], i>> \in unforced' \cup overtaken'
    BY <1>7 DEF Explained
  <2>1. i \in DOMAIN all[l] /\ chunks'[l][i].text = all[l][i].text
        /\ chunks'[l][i].vec \in {all[l][i].vec, all[l][i].text}
    BY <1>7
  <2>2. CASE i \notin DOMAIN chunks[l]
    BY <1>4, <2>1, <2>2
  <2>3. CASE i \in DOMAIN chunks[l]
    <3>1. doc'[l] = doc[l]
      BY <1>8, <2>3, Lookup
    <3>2. all[l][i].vec = chunks[l][i].vec
          /\ (all[l][i].text = chunks[l][i].text \/ <<doc[l], i>> \in replaced)
      BY <1>4, <2>3
    <3>3. unforced' = unforced \cup replaced /\ overtaken' = overtaken
      BY <1>5
    <3>4. \/ chunks[l][i].vec \in {NoVector, chunks[l][i].text}
          \/ <<doc[l], i>> \in unforced \cup overtaken
      BY <2>3 DEF Explained
    <3> QED
      BY <2>1, <3>1, <3>2, <3>3, <3>4
  <2> QED
    BY <2>2, <2>3
<1> QED
  BY <1>9, <1>10, <1>11, <1>12, <1>13
\* The ids of the chunks, by law and position.
LEMMA IdFacts ==
    ASSUME Types, DocsInv, NEW c \in Ids
    PROVE  \E l \in Laws : \E i \in DOMAIN chunks[l] :
               /\ c = <<doc[l], i>> /\ i \in Nat /\ doc[l] \in 1..drawn
               /\ Chunk(c) = chunks[l][i] /\ chunks[l][i] \in Row
<1>1. PICK l \in Laws : c \in {<<doc[l], i>> : i \in DOMAIN chunks[l]}
  BY DEF Ids
<1>2. PICK i \in DOMAIN chunks[l] : c = <<doc[l], i>>
  BY <1>1
<1>3. doc[l] # 0 /\ Chunk(c) = chunks[l][i]
  BY <1>2, Lookup
<1>4. i \in Nat /\ chunks[l][i] \in Row
  BY ElementOfSeq, LenProperties DEF Types
<1>5. doc[l] \in 1..drawn
  BY <1>3 DEF Types, DocsInv
<1> QED
  BY <1>2, <1>3, <1>4, <1>5

\* A job reads what is there.
LEMMA JobReadKeeps ==
    ASSUME IInv, NEW j \in Jobs, NEW force \in BOOLEAN, JobRead(j, force)
    PROVE  IInv'
<1> USE DEF IInv
<1>1. PICK D \in SUBSET Ids : job' = [job EXCEPT ![j] = [c \in D |-> Chunk(c).text]]
  BY DEF JobRead
<1>2. UNCHANGED <<articles, doc, chunks, drawn, mig, unforced, overtaken>>
      /\ changed' = [changed EXCEPT ![j] = {}]
  BY DEF JobRead, corpus
<1>3. job'[j] = [c \in D |-> Chunk(c).text] /\ changed'[j] = {}
  BY <1>1, <1>2 DEF Types
<1>4. \A k \in Jobs \ {j} : job'[k] = job[k] /\ changed'[k] = changed[k]
  BY <1>1, <1>2 DEF Types
<1>5. D \in SUBSET (Nat \X Nat) /\ \A c \in D : Chunk(c).text \in Texts
  BY IdFacts DEF Row
<1>6. Types'
  <2>1. job'[j] \in [D -> Texts]
    BY <1>3, <1>5
  <2>2. job'[j] \in UNION {[S -> Texts] : S \in SUBSET (Nat \X Nat)}
    BY <1>5, <2>1
  <2>3. job' \in [Jobs -> UNION {[S -> Texts] : S \in SUBSET (Nat \X Nat)}]
    BY <1>1, <1>3, <2>2 DEF Types
  <2> QED
    BY <1>2, <2>3 DEF Types
<1>7. DocsInv' /\ MigInv' /\ Explained'
  BY <1>2 DEF DocsInv, MigInv, Explained
<1>8. JobInv'
  <2>1. ASSUME NEW c \in DOMAIN job'[j]
        PROVE  /\ c[1] \in 1..drawn
               /\ \A l \in Laws : doc[l] = c[1] =>
                     c[2] \in DOMAIN chunks[l] /\ chunks[l][c[2]].text = job'[j][c]
               /\ mig.pos = "open" => \A l \in DOMAIN mig.done : doc[l] = 0 => mig.done[l].doc # c[1]
    <3>1. c \in D /\ c \in Ids /\ job'[j][c] = Chunk(c).text
      BY <1>3
    <3>2. PICK k \in Laws : \E i \in DOMAIN chunks[k] :
             /\ c = <<doc[k], i>> /\ doc[k] \in 1..drawn /\ Chunk(c) = chunks[k][i]
      BY <3>1, IdFacts
    <3>3. \A l \in Laws : doc[l] = c[1] => l = k
      BY <3>2 DEF DocsInv, Types
    <3> QED
      BY <3>1, <3>2, <3>3 DEF MigInv
  <2>2. ASSUME NEW k \in Jobs \ {j}, NEW c \in DOMAIN job'[k]
        PROVE  /\ c[1] \in 1..drawn
               /\ \A l \in Laws : doc[l] = c[1] =>
                     /\ c[2] \in DOMAIN chunks[l]
                     /\ c \notin changed'[k] => chunks[l][c[2]].text = job'[k][c]
               /\ mig.pos = "open" => \A l \in DOMAIN mig.done : doc[l] = 0 => mig.done[l].doc # c[1]
    BY <1>4, <2>2 DEF JobInv
  <2> QED
    BY <1>2, <2>1, <2>2 DEF JobInv
<1> QED
  BY <1>6, <1>7, <1>8

\* A job that is over holds nothing.
LEMMA JobOver ==
    ASSUME IInv, NEW j \in Jobs,
           job' = [job EXCEPT ![j] = Nothing], changed' = [changed EXCEPT ![j] = {}],
           UNCHANGED <<articles, doc, drawn, mig>>, chunks' \in [Laws -> Seq(Row)],
           \A l \in Laws : /\ DOMAIN chunks'[l] = DOMAIN chunks[l]
                           /\ \A i \in DOMAIN chunks[l] : chunks'[l][i].text = chunks[l][i].text
    PROVE  Types' /\ DocsInv' /\ MigInv' /\ JobInv'
<1> USE DEF IInv
<1>1. Nothing \in [{} -> Texts] /\ DOMAIN Nothing = {}
  BY DEF Nothing
<1>2. job'[j] = Nothing /\ \A k \in Jobs \ {j} : job'[k] = job[k] /\ changed'[k] = changed[k]
  BY DEF Types
<1>3. Types'
  <2>1. Nothing \in UNION {[S -> Texts] : S \in SUBSET (Nat \X Nat)}
    BY <1>1
  <2>2. job' \in [Jobs -> UNION {[S -> Texts] : S \in SUBSET (Nat \X Nat)}]
    BY <2>1 DEF Types
  <2> QED
    BY <2>2 DEF Types
<1>4. \A l \in Laws : chunks[l] = <<>> => chunks'[l] = <<>>
  BY EmptySeq, LenProperties DEF Types
<1>5. DocsInv' /\ MigInv'
  BY <1>4 DEF DocsInv, MigInv
<1>6. JobInv'
  <2> SUFFICES ASSUME NEW k \in Jobs, NEW c \in DOMAIN job'[k]
               PROVE  /\ c[1] \in 1..drawn
                      /\ \A l \in Laws : doc[l] = c[1] =>
                            /\ c[2] \in DOMAIN chunks'[l]
                            /\ c \notin changed'[k] => chunks'[l][c[2]].text = job'[k][c]
                      /\ mig.pos = "open" =>
                            \A l \in DOMAIN mig.done : doc[l] = 0 => mig.done[l].doc # c[1]
    BY DEF JobInv
  <2>1. k # j /\ job'[k] = job[k] /\ changed'[k] = changed[k]
    BY <1>1, <1>2
  <2> QED
    BY <2>1 DEF JobInv
<1> QED
  BY <1>3, <1>5, <1>6

\* A job that fails leaves the chunks as they are.
LEMMA JobFailKeeps == ASSUME IInv, NEW j \in Jobs, JobFail(j) PROVE IInv'
<1>1. /\ job' = [job EXCEPT ![j] = Nothing] /\ changed' = [changed EXCEPT ![j] = {}]
      /\ UNCHANGED <<articles, doc, drawn, mig, chunks, unforced, overtaken>>
  BY DEF JobFail, corpus
<1>2. chunks' \in [Laws -> Seq(Row)]
  BY <1>1 DEF IInv, Types
<1>3. Types' /\ DocsInv' /\ MigInv' /\ JobInv'
  BY <1>1, <1>2, JobOver
<1>4. Explained'
  BY <1>1 DEF IInv, Explained
<1> QED
  BY <1>3, <1>4 DEF IInv

\* A vector that a job writes is that of the text, or of one that was replaced
\* after the job had read it.
LEMMA JobWriteKeeps == ASSUME IInv, NEW j \in Jobs, JobWrite(j) PROVE IInv'
<1> USE DEF IInv
<1>1. /\ job' = [job EXCEPT ![j] = Nothing] /\ changed' = [changed EXCEPT ![j] = {}]
      /\ UNCHANGED <<articles, doc, drawn, mig>>
      /\ unforced' = unforced \ (DOMAIN job[j] \ changed[j])
      /\ overtaken' = (overtaken \ DOMAIN job[j]) \cup changed[j]
      /\ chunks' = [l \in Laws |-> [i \in DOMAIN chunks[l] |->
             IF <<doc[l], i>> \in DOMAIN job[j]
             THEN [chunks[l][i] EXCEPT !.vec = job[j][<<doc[l], i>>]] ELSE chunks[l][i]]]
  BY DEF JobWrite
<1>2. \A c \in DOMAIN job[j] : job[j][c] \in Texts
  BY DEF Types
<1>3. ASSUME NEW l \in Laws
      PROVE  /\ chunks'[l] \in Seq(Row) /\ DOMAIN chunks'[l] = DOMAIN chunks[l]
             /\ \A i \in DOMAIN chunks[l] :
                   /\ chunks'[l][i].text = chunks[l][i].text
                   /\ chunks'[l][i].vec = IF <<doc[l], i>> \in DOMAIN job[j]
                                          THEN job[j][<<doc[l], i>>] ELSE chunks[l][i].vec
  <2>1. chunks'[l] = [i \in DOMAIN chunks[l] |->
             IF <<doc[l], i>> \in DOMAIN job[j]
             THEN [chunks[l][i] EXCEPT !.vec = job[j][<<doc[l], i>>]] ELSE chunks[l][i]]
    BY <1>1
  <2>2. chunks[l] \in Seq(Row)
    BY DEF Types
  <2>3. \A i \in DOMAIN chunks[l] : chunks[l][i] \in Row
    BY <2>2, ElementOfSeq, LenProperties
  <2>4. chunks'[l] \in [DOMAIN chunks[l] -> Row]
    BY <1>2, <2>1, <2>3 DEF Row
  <2>5. chunks'[l] \in Seq(Row) /\ DOMAIN chunks'[l] = DOMAIN chunks[l]
    BY <2>2, <2>4, Mapped
  <2>6. \A i \in DOMAIN chunks[l] :
           /\ chunks'[l][i].text = chunks[l][i].text
           /\ chunks'[l][i].vec = IF <<doc[l], i>> \in DOMAIN job[j]
                                  THEN job[j][<<doc[l], i>>] ELSE chunks[l][i].vec
    BY <2>1, <2>3 DEF Row
  <2> QED
    BY <2>5, <2>6
<1>4. chunks' \in [Laws -> Seq(Row)]
  BY <1>1, <1>3
<1>5. Types' /\ DocsInv' /\ MigInv' /\ JobInv'
  BY <1>1, <1>3, <1>4, JobOver
<1>6. Explained'
  <2> SUFFICES ASSUME NEW l \in Laws, NEW i \in DOMAIN chunks[l]
               PROVE  \/ chunks'[l][i].vec \in {NoVector, chunks'[l][i].text}
                      \/ <<doc[l], i>> \in unforced' \cup overtaken'
    BY <1>1, <1>3 DEF Explained
  <2>1. PICK c : c = <<doc[l], i>>
    OBVIOUS
  <2>2. CASE c \in DOMAIN job[j] /\ c \notin changed[j]
    <3>1. c[1] = doc[l] /\ c[2] = i
      BY <2>1
    <3>2. chunks[l][i].text = job[j][c]
      BY <2>2, <3>1 DEF JobInv
    <3> QED
      BY <1>3, <2>1, <2>2, <3>2
  <2>3. CASE c \in changed[j]
    BY <1>1, <2>1, <2>3
  <2>4. CASE c \notin DOMAIN job[j]
    <3>1. \/ chunks[l][i].vec \in {NoVector, chunks[l][i].text}
          \/ c \in unforced \cup overtaken
      BY <2>1 DEF Explained
    <3> QED
      BY <1>1, <1>3, <2>1, <2>4, <3>1
  <2> QED
    BY <2>2, <2>3, <2>4
<1> QED
  BY <1>5, <1>6
\* With a document its chunks go, and nothing else is forgotten.
LEMMA DeleteDocKeeps == ASSUME IInv, NEW l \in Laws, DeleteDoc(l) PROVE IInv'
<1> USE DEF IInv
<1> DEFINE left == {c \in Ids : c[1] # doc[l]}
<1>1. /\ doc[l] # 0 /\ mig.pos # "open" /\ Disturb
      /\ doc' = [doc EXCEPT ![l] = 0] /\ chunks' = [chunks EXCEPT ![l] = <<>>]
      /\ unforced' = unforced \cap left /\ overtaken' = overtaken \cap left
      /\ changed' = [j \in Jobs |-> changed[j] \cap left]
      /\ UNCHANGED <<articles, drawn, job>>
  BY DEF DeleteDoc
<1>2. /\ doc'[l] = 0 /\ chunks'[l] = <<>>
      /\ \A k \in Laws \ {l} : doc'[k] = doc[k] /\ chunks'[k] = chunks[k]
  BY <1>1 DEF Types
<1>3. mig' \in MigTypes /\ mig'.pos # "open"
  BY <1>1, Disturbed
<1>4. \A k \in Laws \ {l} : \A i \in DOMAIN chunks[k] : <<doc[k], i>> \in left
  BY <1>1, Lookup DEF DocsInv
<1> HIDE DEF left
<1>5. Types'
  <2>1. doc' \in [Laws -> Nat] /\ chunks' \in [Laws -> Seq(Row)]
    BY <1>1, EmptySeq DEF Types
  <2>2. changed' \in [Jobs -> SUBSET (Nat \X Nat)]
    BY <1>1 DEF Types
  <2> QED
    BY <1>1, <1>3, <2>1, <2>2 DEF Types
<1>6. DocsInv' /\ MigInv'
  BY <1>1, <1>2, <1>3 DEF DocsInv, MigInv, Types
<1>7. JobInv'
  <2> SUFFICES ASSUME NEW j \in Jobs, NEW c \in DOMAIN job[j]
               PROVE  /\ c[1] \in 1..drawn
                      /\ \A k \in Laws : doc'[k] = c[1] =>
                            /\ c[2] \in DOMAIN chunks'[k]
                            /\ c \notin changed'[j] => chunks'[k][c[2]].text = job[j][c]
    BY <1>1, <1>3 DEF JobInv
  <2>1. c[1] \in 1..drawn /\ c \in Nat \X Nat
    BY DEF JobInv, Types
  <2>2. ASSUME NEW k \in Laws, doc'[k] = c[1]
        PROVE  /\ c[2] \in DOMAIN chunks'[k]
               /\ c \notin changed'[j] => chunks'[k][c[2]].text = job[j][c]
    <3>1. k # l /\ doc[k] = c[1] /\ chunks'[k] = chunks[k]
      BY <1>2, <2>1, <2>2 DEF Types
    <3>2. c[2] \in DOMAIN chunks[k] /\ (c \notin changed[j] => chunks[k][c[2]].text = job[j][c])
      BY <3>1 DEF JobInv
    <3>3. c \in left
      BY <1>4, <2>1, <3>1, <3>2
    <3>4. changed'[j] = changed[j] \cap left
      BY <1>1
    <3> QED
      BY <3>1, <3>2, <3>3, <3>4
  <2> QED
    BY <2>1, <2>2
<1>8. Explained'
  <2> SUFFICES ASSUME NEW k \in Laws \ {l}, NEW i \in DOMAIN chunks[k]
               PROVE  \/ chunks[k][i].vec \in {NoVector, chunks[k][i].text}
                      \/ <<doc[k], i>> \in unforced' \cup overtaken'
    BY <1>2, EmptySeq, LenProperties DEF Explained
  <2> QED
    BY <1>1, <1>4 DEF Explained
<1> QED
  BY <1>5, <1>6, <1>7, <1>8

\* The invariant holds: no migration, job, deletion or upload breaks it.
THEOREM Invariance == Spec => []IInv
<1>1. IInv /\ [Next]_vars => IInv'
  <2> SUFFICES ASSUME IInv, [Next]_vars PROVE IInv'
    OBVIOUS
  <2>1. CASE UNCHANGED vars
    BY <2>1 DEF vars, corpus, IInv, Types, DocsInv, MigInv, JobInv, Explained
  <2>2. CASE Next
    BY <2>2, IngestKeeps, BeginKeeps, EndKeeps, UploadKeeps, MigrateLawKeeps, DeleteDocKeeps,
       CommitMigrateKeeps, JobReadKeeps, JobWriteKeeps, JobFailKeeps DEF Next
  <2> QED
    BY <2>1, <2>2
<1> QED
  BY <1>1, InitHolds, PTL DEF Spec

\* A chunk is found by the vector of another text only after a migration without
\* --force-embed or a job that was overtaken (migrate_default_kb.py:123,
\* kb_routes.py:223-229).
THEOREM VectorsHaveReasons == Spec => []VectorsExplained
<1>1. IInv => VectorsExplained
  BY ExplainedIsProperty DEF IInv
<1> QED
  BY <1>1, Invariance, PTL
-----------------------------------------------------------------------------
(* What a migration leaves. Articles never grow fewer, so a law that had    *)
(* none when the migration began has no chunks either, and no old chunk of  *)
(* a law stands behind its last article.                                    *)

Ingested == {l \in Laws : articles[l] # <<>>}

Grown ==
    /\ docChunks \in [Laws -> Nat] /\ others \in {0, 1}
    /\ \A l \in Laws : DOMAIN chunks[l] \subseteq DOMAIN articles[l]
    /\ \A l \in Laws \ Ingested : doc[l] = 0 /\ docChunks[l] = 0

\* The laws a migration is to do, and what it has read of those that are done.
UnderWay ==
    mig.pos = "open" =>
        /\ mig.todo \cup DOMAIN mig.done \subseteq Ingested
        /\ \A l \in DOMAIN mig.done : DOMAIN mig.done[l].texts \subseteq DOMAIN articles[l]
        /\ mig.calm => /\ Ingested = mig.todo \cup DOMAIN mig.done
                       /\ \A l \in DOMAIN mig.done : mig.done[l].texts = articles[l]

Migrated ==
    /\ \A l \in Laws : [i \in DOMAIN chunks[l] |-> chunks[l][i].text] = articles[l]
    /\ \A l \in Laws : docChunks[l] = Len(articles[l])
    /\ {l \in Laws : doc[l] # 0} = Ingested
    /\ counts = Recount(doc, chunks, others)
    /\ mig.embed => \A l \in Laws : \A i \in DOMAIN chunks[l] : chunks[l][i].vec # NoVector

Over ==
    /\ mig.pos = "committed" /\ mig.calm => Migrated
    /\ mig.pos \in {"passed", "failed"} => Migrated
    /\ mig.pos = "passed" => others = 0
    /\ mig.pos = "failed" => others = 1

CompleteInv == Grown /\ UnderWay /\ Over

\* A text is not the absence of a vector.
LEMMA TextsAreNoHoles == NoVector \notin Texts
BY NoVectorAssumption DEF Texts

\* Articles are lists of texts, and where they are none there are no positions.
LEMMA ArticleFacts ==
    ASSUME Types, NEW l \in Laws
    PROVE  /\ articles[l] \in Seq(Texts) /\ DOMAIN articles[l] = 1..Len(articles[l])
           /\ Len(articles[l]) \in Nat
           /\ articles[l] = <<>> <=> DOMAIN articles[l] = {}
<1>1. articles[l] \in Seq(Texts)
  BY DEF Types
<1>2. Len(articles[l]) \in Nat /\ DOMAIN articles[l] = 1..Len(articles[l])
  BY <1>1, LenProperties
<1>3. articles[l] = <<>> <=> Len(articles[l]) = 0
  BY <1>1, EmptySeq
<1>4. \A n \in Nat : 1..n = {} <=> n = 0
  <2>1. \A n \in Nat : n # 0 => 1 \in 1..n
    OBVIOUS
  <2>2. 1..0 = {}
    OBVIOUS
  <2> QED
    BY <2>1, <2>2
<1> QED
  BY <1>1, <1>2, <1>3, <1>4

\* What the counts of the self-check count.
LEMMA CountFacts ==
    ASSUME NEW of, \A l \in Laws : IsFiniteSet(DOMAIN of[l]), NEW S \in SUBSET Laws
    PROVE  Cardinality(Rows(of)) \in Nat /\ Cardinality(S) \in Nat
<1> DEFINE f == [l \in Laws |-> {l} \X DOMAIN of[l]]
           F == {f[l] : l \in Laws}
<1>1. IsFiniteSet(F)
  <2>1. f \in Surjection(Laws, F)
    BY DEF Surjection
  <2> QED
    BY <2>1, LawsAssumption, FS_Surjection
<1>2. \A l \in Laws : IsFiniteSet(f[l])
  BY FS_Singleton, FS_Product
<1>3. IsFiniteSet(UNION F)
  BY <1>1, <1>2, FS_UNION
<1>4. Rows(of) = UNION F
  BY DEF Rows
<1> QED
  BY <1>3, <1>4, LawsAssumption, FS_Subset, FS_CardinalityType

\* A commit beside a migration takes its calm, and ends what a self-check found.
LEMMA DisturbedOver == ASSUME Types, Disturb PROVE Over' /\ (mig'.pos = "open" => ~mig'.calm)
<1>1. CASE mig.pos \in {"open", "committed"}
  <2>1. mig'.pos = mig.pos /\ mig'.calm = FALSE
    BY <1>1 DEF Disturb, Types, MigTypes
  <2> QED
    BY <1>1, <2>1 DEF Over
<1>2. CASE mig.pos \notin {"open", "committed"}
  <2>1. mig'.pos = "idle"
    BY <1>2 DEF Disturb, Idle
  <2> QED
    BY <2>1 DEF Over
<1> QED
  BY <1>1, <1>2

\* What is ingested comes to what is there.
LEMMA IngestCompletes == ASSUME IInv, CompleteInv, Ingest PROVE CompleteInv'
<1>0. PICK laws \in SUBSET Laws : \E new \in [laws -> Versions] :
         articles' = [l \in Laws |-> IF l \in laws THEN Upsert(articles[l], new[l])
                                     ELSE articles[l]]
  BY DEF Ingest
<1>1. PICK new \in [laws -> Versions] :
         articles' = [l \in Laws |-> IF l \in laws THEN Upsert(articles[l], new[l])
                                     ELSE articles[l]]
  BY <1>0
<1>2. Types /\ Types' /\ Disturb /\ UNCHANGED <<doc, docChunks, chunks, others>>
  BY IngestKeeps DEF IInv, Ingest
<1>3. ASSUME NEW l \in Laws PROVE DOMAIN articles[l] \subseteq DOMAIN articles'[l]
  <2>1. CASE l \in laws
    <3>1. new[l] \in Versions
      BY <2>1
    <3>2. PICK v \in Versions : v = new[l]
      BY <3>1
    <3>3. v \in Seq(Texts)
      <4>1. v \in Seq({v[i] : i \in DOMAIN v})
        BY VersionsAssumption
      <4>2. v \in [DOMAIN v -> Texts]
        BY <4>1 DEF Texts
      <4> QED
        BY <4>1, <4>2, Mapped
    <3>4. articles'[l] = Upsert(articles[l], v)
      BY <1>1, <2>1, <3>2
    <3>5. articles[l] \in Seq(Texts)
      BY <1>2 DEF Types
    <3>6. \A o, n \in Seq(Texts) : DOMAIN Upsert(o, n) = DOMAIN o \cup DOMAIN n
      BY Upserting
    <3> QED
      BY <3>3, <3>4, <3>5, <3>6
  <2>2. CASE l \notin laws
    BY <1>1, <2>2
  <2> QED
    BY <2>1, <2>2
<1>4. Ingested \subseteq Ingested'
  BY <1>2, <1>3, ArticleFacts DEF Ingested
<1>5. Grown'
  BY <1>2, <1>3, <1>4 DEF CompleteInv, Grown
<1>6. Over' /\ (mig'.pos = "open" => ~mig'.calm)
  BY <1>2, DisturbedOver
<1>7. mig'.pos = "open" => mig.pos = "open" /\ mig'.done = mig.done /\ mig'.todo = mig.todo
  BY <1>2, Disturbed
<1>8. mig.pos = "open" => DOMAIN mig.done \subseteq Laws
  BY DEF IInv, Types, MigTypes
<1>9. UnderWay'
  BY <1>3, <1>4, <1>6, <1>7, <1>8 DEF CompleteInv, UnderWay
<1> QED
  BY <1>5, <1>6, <1>9 DEF CompleteInv

\* A migration takes up every law that has articles.
LEMMA BeginCompletes == ASSUME IInv, CompleteInv, BeginMigrate PROVE CompleteInv'
<1>1. /\ mig'.pos = "open" /\ mig'.todo = Ingested /\ mig'.done = Nothing
      /\ UNCHANGED <<articles, doc, docChunks, chunks, others>>
  BY DEF BeginMigrate, corpus, Ingested
<1>2. DOMAIN mig'.done = {}
  BY <1>1 DEF Nothing
<1> QED
  BY <1>1, <1>2 DEF CompleteInv, Grown, UnderWay, Over, Ingested

\* The articles of a law, as its chunks will be.
LEMMA MigrateLawCompletes ==
    ASSUME IInv, CompleteInv, NEW l \in Laws, MigrateLaw(l)
    PROVE  CompleteInv'
<1> DEFINE law == [doc |-> DocOf(l), texts |-> articles[l]]
<1>1. /\ mig.pos = "open" /\ l \in mig.todo
      /\ mig' = [mig EXCEPT !.todo = @ \ {l},
                 !.done = [k \in {l} \cup DOMAIN @ |-> IF k = l THEN law ELSE @[k]]]
      /\ UNCHANGED <<articles, doc, docChunks, chunks, others>>
  BY DEF MigrateLaw
<1>2. law.texts = articles[l]
  OBVIOUS
<1> HIDE DEF law
<1>3. /\ mig'.pos = "open" /\ mig'.calm = mig.calm /\ mig'.todo = mig.todo \ {l}
      /\ mig'.done = [k \in {l} \cup DOMAIN mig.done |-> IF k = l THEN law ELSE mig.done[k]]
  BY <1>1 DEF IInv, Types, MigTypes
<1>4. Grown' /\ Over'
  BY <1>1, <1>3 DEF CompleteInv, Grown, Over, Ingested
<1>5. UnderWay'
  <2>1. Ingested' = Ingested /\ mig'.todo \cup DOMAIN mig'.done = mig.todo \cup DOMAIN mig.done
    BY <1>1, <1>3 DEF Ingested
  <2>2. \A k \in DOMAIN mig'.done :
           mig'.done[k].texts = IF k = l THEN articles[l] ELSE mig.done[k].texts
    BY <1>2, <1>3
  <2> QED
    BY <1>1, <1>3, <2>1, <2>2 DEF CompleteInv, UnderWay
<1> QED
  BY <1>4, <1>5 DEF CompleteInv

\* An undisturbed commit leaves the articles it has read, and counts them.
LEMMA CommitCompletes ==
    ASSUME IInv, CompleteInv, NEW embed \in BOOLEAN, NEW force \in BOOLEAN,
           CommitMigrate(embed, force)
    PROVE  CompleteInv'
<1> DEFINE L == DOMAIN mig.done
           all == [l \in Laws |-> IF l \in L THEN Upserted(l) ELSE chunks[l]]
<1>0. Types /\ Types'
  BY CommitMigrateKeeps DEF IInv
<1>1. /\ mig.pos = "open" /\ mig.todo = {}
      /\ L \subseteq Laws /\ \A l \in L : mig.done[l] \in Law
      /\ mig'.pos = "committed" /\ mig'.calm = mig.calm /\ mig'.embed = embed
  BY <1>0 DEF CommitMigrate, Types, MigTypes
<1>2. /\ doc' = [l \in Laws |-> IF l \in L THEN mig.done[l].doc ELSE doc[l]]
      /\ docChunks' = [l \in Laws |-> IF l \in L THEN Len(mig.done[l].texts) ELSE docChunks[l]]
      /\ chunks' = [l \in Laws |-> [i \in DOMAIN all[l] |-> Embedded(embed, force, all[l][i])]]
      /\ counts' = Recount(doc', chunks', others')
      /\ UNCHANGED <<articles, others>>
  BY DEF CommitMigrate
<1>3. ASSUME NEW l \in L
      PROVE  /\ DOMAIN Upserted(l) = DOMAIN chunks[l] \cup DOMAIN mig.done[l].texts
             /\ \A i \in DOMAIN mig.done[l].texts : Upserted(l)[i].text = mig.done[l].texts[i]
             /\ \A i \in DOMAIN Upserted(l) : Upserted(l)[i] \in Row
  BY <1>0, <1>1, UpsertedFacts
<1>4. ASSUME NEW l \in Laws
      PROVE  /\ DOMAIN chunks'[l] = DOMAIN all[l]
             /\ \A i \in DOMAIN all[l] : all[l][i] \in Row /\ chunks'[l][i].text = all[l][i].text
             /\ embed = TRUE => \A i \in DOMAIN all[l] : chunks'[l][i].vec # NoVector
  <2>1. chunks'[l] = [i \in DOMAIN all[l] |-> Embedded(embed, force, all[l][i])]
    BY <1>2
  <2>2. \A i \in DOMAIN all[l] : all[l][i] \in Row
    <3>1. CASE l \in L
      BY <1>3, <3>1
    <3>2. CASE l \notin L
      <4>1. all[l] = chunks[l] /\ chunks[l] \in Seq(Row)
        BY <1>0, <3>2 DEF Types
      <4> QED
        BY <4>1, ElementOfSeq, LenProperties
    <3> QED
      BY <3>1, <3>2
  <2> HIDE DEF all
  <2>3. \A r \in Row : Embedded(embed, force, r).text = r.text
    BY DEF Embedded, Row
  <2>4. DOMAIN chunks'[l] = DOMAIN all[l]
    BY <2>1
  <2>5. \A i \in DOMAIN all[l] : all[l][i] \in Row /\ chunks'[l][i].text = all[l][i].text
    BY <2>1, <2>2, <2>3
  <2>6. ASSUME embed = TRUE, NEW i \in DOMAIN all[l] PROVE chunks'[l][i].vec # NoVector
    <3>1. chunks'[l][i] = Embedded(TRUE, force, all[l][i])
      BY <2>1, <2>6
    <3>2. ASSUME NEW r \in Row PROVE Embedded(TRUE, force, r).vec # NoVector
      BY TextsAreNoHoles DEF Embedded, Row
    <3>3. Embedded(TRUE, force, all[l][i]).vec # NoVector
      BY <2>2, <3>2
    <3> QED
      BY <3>1, <3>3
  <2> QED
    BY <2>4, <2>5, <2>6
<1>5. ASSUME NEW l \in L
      PROVE  /\ l \in Ingested /\ DOMAIN chunks'[l] \subseteq DOMAIN articles[l]
             /\ docChunks'[l] = Len(mig.done[l].texts) /\ Len(mig.done[l].texts) \in Nat
  <2>1. l \in Laws /\ all[l] = Upserted(l)
    BY <1>1
  <2>2. mig.done[l].texts \in Seq(Texts)
    BY <1>1 DEF Law
  <2>3. Len(mig.done[l].texts) \in Nat
    BY <2>2, LenProperties
  <2>4. DOMAIN Upserted(l) = DOMAIN chunks[l] \cup DOMAIN mig.done[l].texts
    BY <1>3
  <2> QED
    BY <1>1, <1>2, <1>4, <2>1, <2>3, <2>4 DEF CompleteInv, Grown, UnderWay
<1>6. ASSUME NEW l \in Laws, l \notin L
      PROVE  chunks'[l] = chunks[l] \/ DOMAIN chunks'[l] = DOMAIN chunks[l]
  BY <1>4, <1>6
<1>7. Grown'
  <2>1. \A l \in Laws : DOMAIN chunks'[l] \subseteq DOMAIN articles'[l]
    BY <1>2, <1>5, <1>6 DEF CompleteInv, Grown
  <2>2. docChunks' \in [Laws -> Nat]
    BY <1>2, <1>5 DEF CompleteInv, Grown
  <2>3. Ingested' = Ingested
    BY <1>2 DEF Ingested
  <2>4. \A l \in Laws \ Ingested : l \notin L
    BY <1>5
  <2> QED
    BY <1>2, <2>1, <2>2, <2>3, <2>4 DEF CompleteInv, Grown
<1>8. ASSUME mig.calm PROVE Migrated'
  <2>1. L = Ingested /\ \A l \in L : mig.done[l].texts = articles[l]
    BY <1>1, <1>8 DEF CompleteInv, UnderWay
  <2>2. Ingested' = Ingested
    BY <1>2 DEF Ingested
  <2>3. ASSUME NEW l \in Laws
        PROVE  [i \in DOMAIN chunks'[l] |-> chunks'[l][i].text] = articles[l]
    <3>1. articles[l] \in Seq(Texts) /\ articles[l] = [i \in DOMAIN articles[l] |-> articles[l][i]]
      BY <1>0, ArticleFacts, SeqDef
    <3>2. DOMAIN chunks'[l] = DOMAIN articles[l]
          /\ \A i \in DOMAIN articles[l] : chunks'[l][i].text = articles[l][i]
      <4>1. CASE l \in L
        <5>1. all[l] = Upserted(l) /\ DOMAIN chunks[l] \subseteq DOMAIN articles[l]
          BY <4>1 DEF CompleteInv, Grown
        <5>2. /\ DOMAIN Upserted(l) = DOMAIN articles[l]
              /\ \A i \in DOMAIN articles[l] : Upserted(l)[i].text = articles[l][i]
          BY <1>3, <2>1, <4>1, <5>1
        <5>3. /\ DOMAIN chunks'[l] = DOMAIN Upserted(l)
              /\ \A i \in DOMAIN Upserted(l) : chunks'[l][i].text = Upserted(l)[i].text
          <6>1. /\ DOMAIN chunks'[l] = DOMAIN all[l]
                /\ \A i \in DOMAIN all[l] : chunks'[l][i].text = all[l][i].text
            BY <1>4
          <6> HIDE DEF all
          <6> QED
            BY <5>1, <6>1
        <5> HIDE DEF all
        <5> QED
          BY <5>2, <5>3
      <4>2. CASE l \notin L
        <5>1. DOMAIN articles[l] = {}
          BY <1>0, <2>1, <4>2, ArticleFacts DEF Ingested
        <5>2. DOMAIN chunks'[l] = {}
          BY <1>6, <4>2, <5>1 DEF CompleteInv, Grown
        <5> QED
          BY <5>1, <5>2
      <4> QED
        BY <4>1, <4>2
    <3> QED
      BY <3>1, <3>2
  <2>4. ASSUME NEW l \in Laws PROVE docChunks'[l] = Len(articles[l])
    <3>1. CASE l \in L
      BY <1>2, <2>1, <3>1
    <3>2. CASE l \notin L
      <4>1. docChunks'[l] = 0 /\ articles[l] = <<>>
        BY <1>2, <2>1, <3>2 DEF CompleteInv, Grown, Ingested
      <4> QED
        BY <4>1, EmptySeq
    <3> QED
      BY <3>1, <3>2
  <2>5. {l \in Laws : doc'[l] # 0} = Ingested
    <3>1. \A l \in L : l \in Laws /\ doc'[l] = mig.done[l].doc /\ mig.done[l].doc # 0
      BY <1>1, <1>2 DEF IInv, MigInv
    <3>2. \A l \in Laws \ L : doc'[l] = 0
      BY <1>2, <2>1 DEF CompleteInv, Grown
    <3> QED
      BY <2>1, <3>1, <3>2
  <2>6. mig'.embed => \A l \in Laws : \A i \in DOMAIN chunks'[l] : chunks'[l][i].vec # NoVector
    BY <1>1, <1>4
  <2> QED
    BY <1>2, <2>2, <2>3, <2>4, <2>5, <2>6 DEF Migrated
<1>9. UnderWay' /\ Over'
  BY <1>1, <1>8 DEF UnderWay, Over
<1> QED
  BY <1>7, <1>9 DEF CompleteInv

\* The self-check finds a migration complete unless a document was uploaded.
LEMMA SelfCheckCompletes == ASSUME IInv, CompleteInv, SelfCheck PROVE CompleteInv'
<1> DEFINE expected == [docs |-> Cardinality(Ingested), chunks |-> Cardinality(Rows(articles))]
           outcome == IF Recount(doc, chunks, others) = expected THEN "passed" ELSE "failed"
<1>1. /\ mig.pos = "committed"
      /\ mig' = IF mig.calm THEN [Idle EXCEPT !.pos = outcome, !.calm = TRUE, !.embed = mig.embed]
                 ELSE Idle
      /\ UNCHANGED <<articles, doc, docChunks, chunks, others, counts>>
  BY DEF SelfCheck, corpus, Ingested
<1>2. Grown'
  BY <1>1 DEF CompleteInv, Grown, Ingested
<1>3. ASSUME mig.calm PROVE Migrated /\ (Recount(doc, chunks, others) = expected <=> others = 0)
  <2>1. Migrated
    BY <1>1, <1>3 DEF CompleteInv, Over
  <2>2. \A l \in Laws : IsFiniteSet(DOMAIN articles[l])
    <3>1. \A l \in Laws : DOMAIN articles[l] = 1..Len(articles[l]) /\ Len(articles[l]) \in Nat
      BY ArticleFacts DEF IInv
    <3>2. \A n \in Nat : IsFiniteSet(1..n)
      BY FS_Interval
    <3> QED
      BY <3>1, <3>2
  <2>3. Ingested \in SUBSET Laws
    BY DEF Ingested
  <2>4. Cardinality(Rows(articles)) \in Nat /\ Cardinality(Ingested) \in Nat
    BY <2>2, <2>3, CountFacts
  <2>5. Rows(chunks) = Rows(articles)
    <3>1. \A l \in Laws : DOMAIN chunks[l] = DOMAIN articles[l]
      BY <2>1 DEF Migrated
    <3> QED
      BY <3>1 DEF Rows
  <2>6. Recount(doc, chunks, others) = [docs   |-> Cardinality(Ingested) + others,
                                        chunks |-> Cardinality(Rows(articles)) + others]
    BY <2>1, <2>5 DEF Recount, Migrated
  <2>7. others \in {0, 1}
    BY DEF CompleteInv, Grown
  <2> QED
    BY <2>1, <2>4, <2>6, <2>7
<1>4. CASE mig.calm
  <2>1. mig'.pos = outcome /\ mig'.embed = mig.embed
    BY <1>1, <1>4 DEF Idle
  <2>2. Migrated'
    BY <1>1, <1>3, <1>4, <2>1 DEF Migrated, Ingested, Recount
  <2>3. others' \in {0, 1} /\ (outcome = "passed" <=> others' = 0) /\ outcome \in {"passed", "failed"}
    BY <1>1, <1>2, <1>3, <1>4 DEF Grown
  <2> HIDE DEF outcome
  <2> QED
    BY <1>2, <2>1, <2>2, <2>3 DEF CompleteInv, UnderWay, Over
<1>5. CASE ~mig.calm
  <2>1. mig'.pos = "idle"
    BY <1>1, <1>5 DEF Idle
  <2> QED
    BY <1>2, <2>1 DEF CompleteInv, UnderWay, Over
<1> QED
  BY <1>4, <1>5

\* What is read, aborted, uploaded or deleted takes no article and adds no chunk.
LEMMA AsideCompletes ==
    ASSUME IInv, CompleteInv,
           \/ AbortMigrate \/ Upload \/ \E l \in Laws : DeleteDoc(l)
           \/ \E j \in Jobs : JobRead(j, TRUE) \/ JobRead(j, FALSE) \/ JobFail(j)
    PROVE  CompleteInv'
<1>0. Types
  BY DEF IInv
<1>1. CASE AbortMigrate
  <2>1. mig'.pos = "idle" /\ UNCHANGED <<articles, doc, docChunks, chunks, others>>
    BY <1>1 DEF AbortMigrate, Idle, corpus
  <2> QED
    BY <2>1 DEF CompleteInv, Grown, UnderWay, Over, Ingested
<1>2. CASE Upload
  <2>1. others' \in {0, 1} /\ UNCHANGED <<articles, doc, docChunks, chunks>>
    BY <1>2 DEF Upload
  <2>2. Over' /\ mig'.pos # "open"
    BY <1>0, <1>2, Disturbed, DisturbedOver DEF Upload
  <2> QED
    BY <2>1, <2>2 DEF CompleteInv, Grown, UnderWay, Ingested
<1>3. ASSUME NEW l \in Laws, DeleteDoc(l) PROVE CompleteInv'
  <2>1. /\ doc' = [doc EXCEPT ![l] = 0] /\ docChunks' = [docChunks EXCEPT ![l] = 0]
        /\ chunks' = [chunks EXCEPT ![l] = <<>>] /\ UNCHANGED <<articles, others>>
    BY <1>3 DEF DeleteDoc
  <2>2. Over' /\ mig'.pos # "open"
    BY <1>0, <1>3, Disturbed, DisturbedOver DEF DeleteDoc
  <2>3. DOMAIN <<>> = {}
    BY EmptySeq, LenProperties
  <2>4. \A k \in Laws : DOMAIN chunks'[k] \subseteq DOMAIN articles[k]
    BY <1>0, <2>1, <2>3 DEF CompleteInv, Grown, Types
  <2>5. /\ docChunks' \in [Laws -> Nat]
        /\ \A k \in Laws : doc'[k] \in {0, doc[k]} /\ docChunks'[k] \in {0, docChunks[k]}
    BY <1>0, <2>1 DEF CompleteInv, Grown, Types
  <2>6. Grown'
    BY <2>1, <2>4, <2>5 DEF CompleteInv, Grown, Ingested
  <2> QED
    BY <2>2, <2>6 DEF CompleteInv, UnderWay
<1>4. ASSUME NEW j \in Jobs, JobRead(j, TRUE) \/ JobRead(j, FALSE) \/ JobFail(j) PROVE CompleteInv'
  <2>1. UNCHANGED <<articles, doc, docChunks, chunks, others, counts, mig>>
    BY <1>4 DEF JobRead, JobFail, corpus
  <2> QED
    BY <2>1 DEF CompleteInv, Grown, UnderWay, Over, Migrated, Ingested, Recount
<1> QED
  BY <1>1, <1>2, <1>3, <1>4

\* A job writes vectors, neither texts nor rows, and takes none away.
LEMMA JobWriteCompletes == ASSUME IInv, CompleteInv, NEW j \in Jobs, JobWrite(j) PROVE CompleteInv'
<1>1. /\ UNCHANGED <<articles, doc, docChunks, others, counts, mig>>
      /\ chunks' = [l \in Laws |-> [i \in DOMAIN chunks[l] |->
             IF <<doc[l], i>> \in DOMAIN job[j]
             THEN [chunks[l][i] EXCEPT !.vec = job[j][<<doc[l], i>>]] ELSE chunks[l][i]]]
  BY DEF JobWrite
<1>2. ASSUME NEW l \in Laws
      PROVE  /\ DOMAIN chunks'[l] = DOMAIN chunks[l]
             /\ [i \in DOMAIN chunks'[l] |-> chunks'[l][i].text]
                   = [i \in DOMAIN chunks[l] |-> chunks[l][i].text]
             /\ \A i \in DOMAIN chunks[l] : chunks[l][i].vec # NoVector => chunks'[l][i].vec # NoVector
  <2>1. chunks'[l] = [i \in DOMAIN chunks[l] |->
             IF <<doc[l], i>> \in DOMAIN job[j]
             THEN [chunks[l][i] EXCEPT !.vec = job[j][<<doc[l], i>>]] ELSE chunks[l][i]]
    BY <1>1
  <2>2. chunks[l] \in Seq(Row)
    BY DEF IInv, Types
  <2>3. \A i \in DOMAIN chunks[l] : chunks[l][i] \in Row
    BY <2>2, ElementOfSeq, LenProperties
  <2>4. \A i \in DOMAIN chunks[l] : chunks'[l][i].text = chunks[l][i].text
    BY <2>1, <2>3 DEF Row
  <2>5. DOMAIN chunks'[l] = DOMAIN chunks[l]
    BY <2>1
  <2>6. PICK S \in SUBSET (Nat \X Nat) : job[j] \in [S -> Texts]
    BY DEF IInv, Types
  <2>7. \A c \in DOMAIN job[j] : job[j][c] # NoVector
    BY <2>6, TextsAreNoHoles
  <2>8. ASSUME NEW i \in DOMAIN chunks[l], chunks[l][i].vec # NoVector
        PROVE  chunks'[l][i].vec # NoVector
    BY <2>1, <2>3, <2>7, <2>8 DEF Row
  <2> QED
    BY <2>4, <2>5, <2>8
<1>3. Rows(chunks') = Rows(chunks)
  BY <1>2 DEF Rows
<1>4. Migrated => Migrated'
  BY <1>1, <1>2, <1>3 DEF Migrated, Recount, Ingested
<1> QED
  BY <1>1, <1>2, <1>4 DEF CompleteInv, Grown, UnderWay, Over, Ingested

\* CompleteInv holds at first and is kept by every step.
THEOREM Completed == Spec => []CompleteInv
<1>1. Init => CompleteInv
  <2> SUFFICES ASSUME Init PROVE CompleteInv
    OBVIOUS
  <2>1. DOMAIN <<>> = {}
    BY EmptySeq, LenProperties
  <2> QED
    BY <2>1 DEF Init, CompleteInv, Grown, UnderWay, Over, Idle
<1>2. IInv /\ CompleteInv /\ [Next]_vars => CompleteInv'
  <2> SUFFICES ASSUME IInv, CompleteInv, [Next]_vars PROVE CompleteInv'
    OBVIOUS
  <2>1. CASE UNCHANGED vars
    BY <2>1 DEF vars, corpus, CompleteInv, Grown, UnderWay, Over, Migrated, Ingested, Recount
  <2>2. CASE Next
    BY <2>2, IngestCompletes, BeginCompletes, MigrateLawCompletes, CommitCompletes,
       SelfCheckCompletes, AsideCompletes, JobWriteCompletes DEF Next
  <2> QED
    BY <2>1, <2>2
<1> QED
  BY <1>1, <1>2, Invariance, PTL DEF Spec

\* A migration that nobody disturbed leaves every article of every law, with some
\* vector unless embedding was skipped, and right counters, and its self-check fails
\* for uploaded documents only (migrate_default_kb.py:80-136, 170-185).
THEOREM MigrationLeavesAll == Spec => []MigrationComplete
<1>1. CompleteInv => MigrationComplete
  <2>1. CompleteInv => others \in {0, 1}
    BY DEF CompleteInv, Grown
  <2> QED
    BY <2>1 DEF CompleteInv, Over, Migrated, MigrationComplete
<1> QED
  BY <1>1, Completed, PTL

-----------------------------------------------------------------------------
(* The page of a law.                                                      *)

\* What the loop of pagee_document carries.
Articles == [no : Nat, chapter : Nat, parts : Seq(Nat)]
LoopStates == [inBody : BOOLEAN, no : Nat, parts : Seq(Nat), chapter : Nat,
               articles : Seq(Articles), stopped : BOOLEAN]

Looped(f, pars) ==
    /\ f \in [0..Len(pars) -> LoopStates]
    /\ f[0] = Start
    /\ \A n \in 1..Len(pars) : f[n] = Take(pars, f[n - 1], n)
    /\ Parsed(pars) = Committed(f[Len(pars)])

\* The kinds of paragraphs.
LEMMA ParagraphKinds ==
    ASSUME NEW pars \in Seq(Paragraph), NEW i \in 1..Len(pars)
    PROVE  /\ pars[i].kind \in {"article", "chapter", "footer", "scrap", "text", "closing", "amended"}
           /\ pars[i].kind = "article" =>
                  /\ pars[i].no \in Nat \ {0}
                  /\ pars[i].rest \in {"none", "text", "closing", "amended"}
<1>1. pars[i] \in Paragraph
  BY ElementOfSeq
<1>2. ExpectedArticles \in Nat
  BY ExpectedAssumption
<1> QED BY <1>1, <1>2 DEF Paragraph, Wordings

\* Committed and a round of the loop keep the types.
LEMMA CommitType ==
    ASSUME NEW s \in LoopStates
    PROVE  Committed(s) \in Seq(Articles)
<1>1. [no |-> s.no, chapter |-> s.chapter, parts |-> s.parts] \in Articles
  BY DEF LoopStates, Articles
<1>2. s.articles \in Seq(Articles)
  BY DEF LoopStates
<1> QED BY <1>1, <1>2, AppendProperties DEF Committed

\* A round of the loop keeps the types.
LEMMA TakeType ==
    ASSUME NEW pars \in Seq(Paragraph), NEW s \in LoopStates, NEW i \in 1..Len(pars)
    PROVE  Take(pars, s, i) \in LoopStates
<1>1. i \in Nat
  BY LenProperties
<1>2. Committed(s) \in Seq(Articles) /\ <<>> \in Seq(Nat) /\ <<i>> \in Seq(Nat)
      /\ Append(s.parts, i) \in Seq(Nat)
  BY <1>1, CommitType, EmptySeq, Single, AppendProperties DEF LoopStates
<1>3. pars[i].kind = "article" => TakeTitle(pars, s, i) \in LoopStates
  BY <1>2, ParagraphKinds DEF TakeTitle, LoopStates
<1>4. TakeChapter(pars, s, i) \in LoopStates
  BY <1>1, <1>2 DEF TakeChapter, LoopStates
<1>5. TakeText(pars, s, i) \in LoopStates
  BY <1>2 DEF TakeText, LoopStates
<1>6. s.stopped \in BOOLEAN
  BY DEF LoopStates
<1> QED BY <1>3, <1>4, <1>5, <1>6 DEF Take

\* The recursive function behind Parsed exists.
LEMMA ParsedUnfolds ==
    ASSUME NEW pars \in Seq(Paragraph)
    PROVE  \E f : Looped(f, pars)
<1> DEFINE N == Len(pars)
           after(g) == [n \in 0..N |-> IF n = 0 THEN Start ELSE Take(pars, g[n - 1], n)]
           step == [n \in 1..N |-> [s \in LoopStates |-> Take(pars, s, n)]]
<1>1. N \in Nat /\ step \in [1..N -> [LoopStates -> LoopStates]]
  BY LenProperties, TakeType
<1>2. Start \in LoopStates
  BY EmptySeq DEF Start, LoopStates
<1>3. PICK g \in [0..N -> LoopStates] : g[0] = Start /\ \A n \in 1..N : g[n] = step[n][g[n - 1]]
  <2> HIDE DEF step, N
  <2>1. \E f : Recurs(f, LoopStates, Start, N, step)
    BY <1>1, <1>2, Recursion
  <2> QED BY <2>1 DEF Recurs
<1>4. \A n \in 1..N : g[n] = Take(pars, g[n - 1], n)
  <2> SUFFICES ASSUME NEW n \in 1..N PROVE g[n] = Take(pars, g[n - 1], n)
    OBVIOUS
  <2>1. g[n - 1] \in LoopStates
    BY <1>1
  <2> QED BY <1>3, <2>1
<1>5. g = after(g)
  <2>1. \A n \in 0..N : g[n] = IF n = 0 THEN Start ELSE Take(pars, g[n - 1], n)
    BY <1>1, <1>3, <1>4
  <2> QED BY <1>3, <2>1
<1> DEFINE c == CHOOSE h : h = after(h)
<1>6. c = after(c)
  BY <1>5
<1>7. Parsed(pars) = Committed(c[N])
  BY DEF Parsed
<1>8. c[0] = Start /\ \A n \in 1..N : c[n] = Take(pars, c[n - 1], n)
  <2> HIDE DEF c
  <2>1. \A n \in 0..N : c[n] = IF n = 0 THEN Start ELSE Take(pars, c[n - 1], n)
    BY <1>6
  <2> QED BY <1>1, <2>1
<1>9. \A n \in 0..N : c[n] \in LoopStates
  <2> DEFINE T == {n \in Nat : n <= N => c[n] \in LoopStates}
  <2> HIDE DEF c
  <2>1. 0 \in T
    BY <1>2, <1>8
  <2>2. ASSUME NEW n \in Nat, n \in T PROVE n + 1 \in T
    <3> SUFFICES ASSUME n + 1 <= N PROVE c[n + 1] \in LoopStates
      OBVIOUS
    <3>1. n + 1 \in 1..N /\ (n + 1) - 1 = n
      BY <1>1
    <3>2. c[n] \in LoopStates
      BY <1>1, <2>2
    <3> QED BY <1>8, <3>1, <3>2, TakeType
  <2>3. \A n \in Nat : n \in T
    <3> HIDE DEF T
    <3> QED BY <2>1, <2>2, NaturalInduction
  <2> QED BY <1>1, <2>3
<1>10. c \in [0..N -> LoopStates]
  <2>1. c = [n \in 0..N |-> c[n]]
    <3> HIDE DEF c
    <3> QED BY <1>6
  <2> HIDE DEF c
  <2> QED BY <1>9, <2>1
<1> QED BY <1>7, <1>8, <1>10 DEF Looped

\* The titles among the first i paragraphs, and the chapter titles that count.
Titles(pars, i) == {t \in 1..i : pars[t].kind = "article"}
Count(pars, i) == Cardinality(Titles(pars, i))
Heads(pars, i) ==
    {c \in 1..i : pars[c].kind = "chapter" /\ (IsTitle(pars, c + 1) \/ Titles(pars, c - 1) # {})}

\* c is the last of the chapter titles, 0 where there is none.
IsHead(pars, i, c) ==
    /\ c \in Heads(pars, i) \/ (Heads(pars, i) = {} /\ c = 0)
    /\ \A h \in Heads(pars, i) : h <= c

\* The places of the first i paragraphs that belong to title t.
Upto(i) == [j \in 1..i |-> j]
Own(pars, t) == {j \in 1..Len(pars) : Belongs(pars, t, j)}
Text(pars, t, i) == Filtered(Upto(i), Own(pars, t))

\* The articles of the first i paragraphs.
Right(pars, as, i) ==
    /\ Len(as) = Count(pars, i)
    /\ \A t \in Titles(pars, i) :
           LET a == as[Count(pars, t - 1) + 1]
           IN  a.no = pars[t].no /\ a.parts = Text(pars, t, i) /\ IsHead(pars, t - 1, a.chapter)

\* One more paragraph is one more title, or none.
LEMMA CountStep ==
    ASSUME NEW pars, NEW i \in Nat
    PROVE  /\ IsFiniteSet(Titles(pars, i)) /\ Count(pars, i) \in Nat /\ Count(pars, 0) = 0
           /\ pars[i + 1].kind = "article" =>
                  /\ Titles(pars, i + 1) = Titles(pars, i) \cup {i + 1}
                  /\ Count(pars, i + 1) = Count(pars, i) + 1
           /\ pars[i + 1].kind # "article" =>
                  /\ Titles(pars, i + 1) = Titles(pars, i)
                  /\ Count(pars, i + 1) = Count(pars, i)
<1>1. \A n \in Nat : IsFiniteSet(Titles(pars, n)) /\ Count(pars, n) \in Nat
  <2>1. \A n \in Nat : IsFiniteSet(1..n)
    BY FS_Interval
  <2>2. \A n \in Nat : IsFiniteSet(Titles(pars, n))
    BY <2>1, FS_Subset DEF Titles
  <2> QED BY <2>2, FS_CardinalityType DEF Count
<1>2. Titles(pars, 0) = {} /\ Count(pars, 0) = 0
  BY FS_EmptySet DEF Titles, Count
<1>3. ASSUME pars[i + 1].kind = "article"
      PROVE  /\ Titles(pars, i + 1) = Titles(pars, i) \cup {i + 1}
             /\ Count(pars, i + 1) = Count(pars, i) + 1
  <2>1. Titles(pars, i + 1) = Titles(pars, i) \cup {i + 1} /\ i + 1 \notin Titles(pars, i)
    BY <1>3 DEF Titles
  <2> QED BY <1>1, <2>1, FS_AddElement DEF Count
<1>4. ASSUME pars[i + 1].kind # "article"
      PROVE  Titles(pars, i + 1) = Titles(pars, i)
  BY <1>4 DEF Titles
<1> QED BY <1>1, <1>2, <1>3, <1>4 DEF Count

\* Counting never goes back.
LEMMA CountGrows ==
    ASSUME NEW pars, NEW i \in Nat, NEW j \in Nat, i <= j
    PROVE  Count(pars, i) <= Count(pars, j)
<1> DEFINE T == {n \in Nat : i <= n => Count(pars, i) <= Count(pars, n)}
<1>1. 0 \in T
  BY CountStep
<1>2. ASSUME NEW n \in Nat, n \in T PROVE n + 1 \in T
  <2>1. Count(pars, i) \in Nat /\ Count(pars, n) \in Nat /\ Count(pars, n + 1) \in Nat
        /\ Count(pars, n) <= Count(pars, n + 1)
    BY CountStep
  <2> QED BY <1>2, <2>1
<1>3. \A n \in Nat : n \in T
  <2> HIDE DEF T
  <2> QED BY <1>1, <1>2, NaturalInduction
<1> QED BY <1>3

\* Title t is in the place that its number of predecessors gives.
LEMMA CountTitle ==
    ASSUME NEW pars, NEW i \in Nat, NEW t \in Titles(pars, i)
    PROVE  /\ t \in 1..i /\ t - 1 \in Nat /\ pars[t].kind = "article"
           /\ Count(pars, t - 1) \in Nat /\ Count(pars, t) = Count(pars, t - 1) + 1
           /\ Count(pars, t - 1) + 1 <= Count(pars, i)
<1>1. t \in 1..i /\ t - 1 \in Nat /\ (t - 1) + 1 = t /\ pars[t].kind = "article"
  BY DEF Titles
<1>2. Count(pars, t - 1) \in Nat /\ Count(pars, t) = Count(pars, t - 1) + 1
  BY <1>1, CountStep
<1>3. Count(pars, t) <= Count(pars, i)
  BY <1>1, CountGrows
<1> QED BY <1>1, <1>2, <1>3

\* Every number up to the count has its title.
LEMMA CountReached ==
    ASSUME NEW pars, NEW i \in Nat, NEW n \in 1..Count(pars, i)
    PROVE  \E t \in Titles(pars, i) : Count(pars, t - 1) = n - 1
<1> DEFINE T == {j \in Nat : Count(pars, j) >= n}
<1>1. PICK j \in T : \A k \in T : j <= k
  <2>1. i \in T
    BY CountStep
  <2> QED BY <2>1, Least
<1>2. Count(pars, j) \in Nat /\ Count(pars, 0) = 0 /\ Count(pars, i) \in Nat /\ n \in Nat
  BY CountStep
<1>3. j - 1 \in Nat /\ j <= i
  BY <1>1, <1>2
<1>4. Count(pars, j - 1) < n /\ Count(pars, j - 1) \in Nat
  <2>1. j - 1 \notin T
    BY <1>1, <1>3
  <2>2. Count(pars, j - 1) \in Nat
    BY <1>3, CountStep
  <2> QED BY <1>2, <1>3, <2>1, <2>2
<1>5. pars[j].kind = "article" /\ Count(pars, j) = Count(pars, j - 1) + 1
  <2>1. (j - 1) + 1 = j /\ Count(pars, j) >= n
    BY <1>1
  <2>2. Count(pars, j) # Count(pars, j - 1)
    BY <1>2, <1>4, <2>1
  <2> QED BY <1>3, <2>1, <2>2, CountStep
<1>6. j \in Titles(pars, i)
  BY <1>3, <1>5 DEF Titles
<1>7. Count(pars, j - 1) = n - 1
  BY <1>1, <1>2, <1>4, <1>5
<1> QED BY <1>6, <1>7

\* One more paragraph is more text of a title, or none.
LEMMA TextStep ==
    ASSUME NEW pars \in Seq(Paragraph), NEW t, NEW i \in 0..(Len(pars) - 1)
    PROVE  /\ Text(pars, t, i) \in Seq(Nat) /\ Text(pars, t, 0) = <<>>
           /\ Range(Text(pars, t, i)) = Own(pars, t) \cap 1..i
           /\ Text(pars, t, i + 1) = IF Belongs(pars, t, i + 1) THEN Append(Text(pars, t, i), i + 1)
                                     ELSE Text(pars, t, i)
<1>1. i \in Nat /\ i + 1 \in 1..Len(pars)
  BY LenProperties
<1>2. \A n \in Nat : Upto(n) \in Seq(Nat) /\ Range(Upto(n)) = 1..n
  <2> SUFFICES ASSUME NEW n \in Nat PROVE Upto(n) \in Seq(Nat) /\ Range(Upto(n)) = 1..n
    OBVIOUS
  <2>1. Upto(n) \in [1..n -> Nat]
    BY DEF Upto
  <2> QED BY <2>1 DEF Upto, Range
<1>3. Upto(i + 1) = Append(Upto(i), i + 1)
  <2>1. Len(Upto(i)) = i
    BY <1>1 DEF Upto
  <2> QED BY <1>1, <1>2, <2>1, AppendProperties DEF Upto
<1>4. Upto(0) = <<>>
  BY DEF Upto
<1>5. i + 1 \in Own(pars, t) <=> Belongs(pars, t, i + 1)
  BY <1>1 DEF Own
<1>6. Upto(i) \in Seq(Nat) /\ Range(Upto(i)) = 1..i /\ i + 1 \in Nat
  BY <1>1, <1>2
<1>7. Text(pars, t, i) \in Seq(Nat) /\ Range(Text(pars, t, i)) = Own(pars, t) \cap 1..i
  BY <1>6, FilteredType, FilteredRange DEF Text
<1>8. Text(pars, t, i + 1) = IF i + 1 \in Own(pars, t) THEN Append(Text(pars, t, i), i + 1)
                             ELSE Text(pars, t, i)
  <2> DEFINE u == Upto(i)
             K == Own(pars, t)
             n == i + 1
  <2>1. u \in Seq(Nat) /\ n \in Nat
    BY <1>6
  <2>2. Upto(n) = Append(u, n)
    BY <1>3
  <2>3. Text(pars, t, n) = Filtered(Upto(n), K) /\ Text(pars, t, i) = Filtered(u, K)
    BY DEF Text
  <2> HIDE DEF u, K, n
  <2>4. Filtered(Append(u, n), K) = IF n \in K THEN Append(Filtered(u, K), n) ELSE Filtered(u, K)
    BY <2>1, FilteredStep
  <2>5. Text(pars, t, n) = IF n \in K THEN Append(Text(pars, t, i), n) ELSE Text(pars, t, i)
    BY <2>2, <2>3, <2>4
  <2> QED BY <2>5 DEF n, K
<1>9. Text(pars, t, 0) = <<>>
  BY <1>4, FilteredEmpty DEF Text
<1> QED BY <1>5, <1>7, <1>8, <1>9

\* One more paragraph is a chapter title that counts, or none.
LEMMA HeadStep ==
    ASSUME NEW pars \in Seq(Paragraph), NEW i \in 0..(Len(pars) - 1), NEW c
    PROVE  /\ IsHead(pars, 0, 0)
           /\ ~(pars[i + 1].kind = "chapter" /\ (IsTitle(pars, i + 2) \/ Titles(pars, i) # {})) =>
                  (IsHead(pars, i + 1, c) <=> IsHead(pars, i, c))
           /\ pars[i + 1].kind = "chapter" /\ (IsTitle(pars, i + 2) \/ Titles(pars, i) # {}) =>
                  IsHead(pars, i + 1, i + 1)
<1>1. i \in Nat /\ (i + 1) + 1 = i + 2 /\ (i + 1) - 1 = i
  BY LenProperties
<1>2. Heads(pars, 0) = {}
  BY DEF Heads
<1>3. ~(pars[i + 1].kind = "chapter" /\ (IsTitle(pars, i + 2) \/ Titles(pars, i) # {})) =>
          Heads(pars, i + 1) = Heads(pars, i)
  BY <1>1 DEF Heads
<1>4. pars[i + 1].kind = "chapter" /\ (IsTitle(pars, i + 2) \/ Titles(pars, i) # {}) =>
          i + 1 \in Heads(pars, i + 1)
  BY <1>1 DEF Heads
<1>5. \A h \in Heads(pars, i + 1) : h <= i + 1
  BY <1>1 DEF Heads
<1> QED BY <1>2, <1>3, <1>4, <1>5 DEF IsHead

\* The article whose title is t is open, or another paragraph has closed it.
OpenAt(pars, s, i, t) ==
    /\ s.no = pars[t].no /\ s.parts = Text(pars, t, i) /\ IsHead(pars, t - 1, s.chapter)
    /\ \A j \in (t + 1)..i : pars[j].kind \notin {"article", "chapter", "footer"}
    /\ \A j \in t..i : Says(pars, j) \in Wordings => Belongs(pars, t, j)
Shut(pars, t, i) == \E j \in (t + 1)..i : pars[j].kind \in {"article", "chapter", "footer"}

\* The loop after i paragraphs: the articles are right so far, the open one too; once
\* it has stopped, none of them has anything to come.
Going(pars, s, i) ==
    /\ s.inBody <=> Titles(pars, i) # {}
    /\ IsHead(pars, i, s.chapter)
    /\ Right(pars, Committed(s), i)
    /\ s.no # 0 => \E t \in Titles(pars, i) : OpenAt(pars, s, i, t)
    /\ s.no = 0 => \A t \in Titles(pars, i) : Shut(pars, t, i)
Halted(pars, as, k) ==
    /\ Right(pars, as, k)
    /\ \A t \in Titles(pars, k), j \in (k + 1)..Len(pars) : ~Belongs(pars, t, j)
LoopInv(pars, s, i) ==
    /\ ~s.stopped => Going(pars, s, i)
    /\ s.stopped => \E k \in 0..Len(pars) : Halted(pars, Committed(s), k)

\* Nothing belongs to a title any more once it is shut.
LEMMA ShutStays ==
    ASSUME NEW pars, NEW i \in Nat, NEW t \in Titles(pars, i), Shut(pars, t, i), NEW j \in Nat, j >= i
    PROVE  ~Belongs(pars, t, j)
<1>1. PICK k \in (t + 1)..i : pars[k].kind \in {"article", "chapter", "footer"}
  BY DEF Shut
<1>2. t \in Nat /\ k \in (t + 1)..j
  BY DEF Titles
<1> QED BY <1>1, <1>2 DEF Belongs

\* An open title is the last one.
LEMMA OpenLast ==
    ASSUME NEW pars, NEW s, NEW i \in Nat, NEW t \in Titles(pars, i), OpenAt(pars, s, i, t)
    PROVE  /\ Count(pars, t - 1) + 1 = Count(pars, i)
           /\ \A u \in Titles(pars, i) \ {t} : Shut(pars, u, i) /\ Count(pars, u - 1) + 1 < Count(pars, i)
<1>1. t \in 1..i /\ pars[t].kind = "article" /\ Count(pars, t - 1) \in Nat
      /\ Count(pars, t) = Count(pars, t - 1) + 1
  BY CountTitle
<1>2. Titles(pars, i) = Titles(pars, t)
  BY <1>1 DEF Titles, OpenAt
<1>3. Count(pars, i) = Count(pars, t)
  BY <1>2 DEF Count
<1>4. ASSUME NEW u \in Titles(pars, i) \ {t}
      PROVE  Shut(pars, u, i) /\ Count(pars, u - 1) + 1 < Count(pars, i)
  <2>1. u \in 1..(t - 1) /\ u \in Titles(pars, t - 1) /\ t - 1 \in Nat
    BY <1>1, <1>2 DEF Titles
  <2>2. t \in (u + 1)..i
    BY <1>1, <2>1
  <2>3. Count(pars, u - 1) + 1 <= Count(pars, t - 1) /\ Count(pars, u - 1) \in Nat
    BY <2>1, CountTitle
  <2> QED BY <1>1, <1>3, <2>2, <2>3 DEF Shut
<1> QED BY <1>1, <1>3, <1>4

\* A paragraph that belongs to no title leaves the articles right.
LEMMA RightStays ==
    ASSUME NEW pars \in Seq(Paragraph), NEW as, NEW i \in 0..(Len(pars) - 1), Right(pars, as, i),
           \A t \in Titles(pars, i) : ~Belongs(pars, t, i + 1),
           pars[i + 1].kind # "article"
    PROVE  Right(pars, as, i + 1)
<1>1. i \in Nat
  BY LenProperties
<1>2. Titles(pars, i + 1) = Titles(pars, i) /\ Count(pars, i + 1) = Count(pars, i)
  BY <1>1, CountStep
<1>3. \A t \in Titles(pars, i) : Text(pars, t, i + 1) = Text(pars, t, i)
  BY TextStep
<1> QED BY <1>2, <1>3 DEF Right

\* The title of an article closes the one before and opens its own.
LEMMA TitleKeeps ==
    ASSUME NEW pars \in Seq(Paragraph), NEW s \in LoopStates, NEW i \in 0..(Len(pars) - 1),
           Going(pars, s, i), pars[i + 1].kind = "article"
    PROVE  Going(pars, TakeTitle(pars, s, i + 1), i + 1)
<1> DEFINE n == i + 1
           z == TakeTitle(pars, s, n)
           C == Committed(s)
           a == [no |-> z.no, chapter |-> z.chapter, parts |-> z.parts]
<1>1. i \in Nat /\ n \in 1..Len(pars) /\ n \in Nat /\ n - 1 = i
  BY LenProperties
<1>2. /\ z.inBody = TRUE /\ z.no = pars[n].no /\ z.chapter = s.chapter /\ z.articles = C
      /\ z.parts = IF pars[n].rest = "none" THEN <<>> ELSE <<n>>
  BY DEF TakeTitle, LoopStates
<1>3. pars[n].no \in Nat \ {0} /\ pars[n].rest \in {"none", "text", "closing", "amended"}
  BY <1>1, ParagraphKinds
<1>4. Titles(pars, n) = Titles(pars, i) \cup {n} /\ Count(pars, n) = Count(pars, i) + 1
      /\ Count(pars, i) \in Nat
  BY <1>1, CountStep
<1>5. Belongs(pars, n, n) <=> Says(pars, n) \in Wordings
  BY <1>1 DEF Belongs
<1>6. Says(pars, n) = pars[n].rest
  BY DEF Says
<1>7. z.parts = Text(pars, n, n)
  <2>1. Text(pars, n, i) = <<>>
    <3>1. Own(pars, n) \cap 1..i = {}
      BY <1>1 DEF Own, Belongs
    <3>2. Text(pars, n, i) \in Seq(Nat) /\ Range(Text(pars, n, i)) = {}
      BY <3>1, TextStep
    <3>3. ASSUME NEW u \in Seq(Nat), Range(u) = {} PROVE u = <<>>
      <4>1. Len(u) \in Nat /\ DOMAIN u = 1..Len(u) /\ (u = <<>> <=> Len(u) = 0)
        BY EmptySeq, LenProperties
      <4>2. 1 \notin DOMAIN u
        BY <3>3 DEF Range
      <4> QED BY <4>1, <4>2
    <3> QED BY <3>2, <3>3
  <2>2. Text(pars, n, n) = IF Says(pars, n) \in Wordings THEN Append(<<>>, n) ELSE <<>>
    BY <1>5, <2>1, TextStep
  <2> QED BY <1>2, <1>3, <1>6, <2>2 DEF Wordings
<1>8. \A t \in Titles(pars, i) : Text(pars, t, n) = Text(pars, t, i)
  <2>1. \A t \in Titles(pars, i) : ~Belongs(pars, t, n)
    BY <1>1 DEF Titles, Belongs
  <2> QED BY <2>1, TextStep
<1>9. Committed(z) = Append(C, a) /\ C \in Seq(Articles) /\ a \in Articles
  <2>1. C \in Seq(Articles)
    BY CommitType
  <2>2. z \in LoopStates
    <3>1. Take(pars, s, n) \in LoopStates
      BY <1>1, TakeType
    <3>2. n \in Nat /\ <<>> \in Seq(Nat) /\ <<n>> \in Seq(Nat)
      BY <1>1, EmptySeq, Single
    <3> QED BY <1>3, <2>1, <3>2 DEF TakeTitle, LoopStates
  <2>3. a \in Articles
    BY <2>2 DEF LoopStates, Articles
  <2> QED BY <1>2, <1>3, <2>1, <2>3 DEF Committed
<1>10. /\ Len(Committed(z)) = Len(C) + 1 /\ Len(C) \in Nat /\ Len(C) = Count(pars, i)
       /\ Committed(z)[Len(C) + 1] = a
       /\ \A k \in 1..Len(C) : Committed(z)[k] = C[k]
  <2> HIDE DEF C, a, z
  <2> QED BY <1>9, AppendProperties, LenProperties DEF Going, Right, C
<1> HIDE DEF C, z
<1>11. Right(pars, Committed(z), n)
  <2>1. ASSUME NEW t \in Titles(pars, i)
        PROVE  Committed(z)[Count(pars, t - 1) + 1] = C[Count(pars, t - 1) + 1]
    <3>1. Count(pars, t - 1) + 1 \in 1..Len(C)
      BY <1>1, <1>4, <1>10, CountTitle
    <3> QED BY <1>10, <3>1
  <2>2. Right(pars, C, i)
    BY DEF Going, C
  <2>3. IsHead(pars, n - 1, s.chapter)
    BY <1>1 DEF Going
  <2>4. Committed(z)[Count(pars, n - 1) + 1] = a
    BY <1>1, <1>10
  <2>5. ASSUME NEW t \in Titles(pars, n)
        PROVE  LET x == Committed(z)[Count(pars, t - 1) + 1]
               IN  x.no = pars[t].no /\ x.parts = Text(pars, t, n) /\ IsHead(pars, t - 1, x.chapter)
    <3>1. CASE t \in Titles(pars, i)
      BY <1>8, <2>1, <2>2, <3>1 DEF Right
    <3>2. CASE t = n
      BY <1>2, <1>7, <2>3, <2>4, <3>2
    <3> QED BY <1>4, <3>1, <3>2
  <2> QED BY <1>4, <1>10, <2>5 DEF Right
<1>12. OpenAt(pars, z, n, n)
  <2>1. IsHead(pars, n - 1, z.chapter)
    BY <1>1, <1>2 DEF Going
  <2> QED BY <1>1, <1>2, <1>5, <1>7, <2>1 DEF OpenAt
<1>13. IsHead(pars, n, z.chapter)
  BY <1>1, <1>2, HeadStep DEF Going
<1> QED BY <1>2, <1>3, <1>4, <1>11, <1>12, <1>13 DEF Going, z

\* The title of a chapter closes the article before it, unless it stands in the table
\* of contents.
LEMMA ChapterKeeps ==
    ASSUME NEW pars \in Seq(Paragraph), NEW s \in LoopStates, NEW i \in 0..(Len(pars) - 1),
           Going(pars, s, i), pars[i + 1].kind = "chapter"
    PROVE  Going(pars, TakeChapter(pars, s, i + 1), i + 1)
<1> DEFINE n == i + 1
           z == TakeChapter(pars, s, n)
           C == Committed(s)
<1>1. i \in Nat /\ n \in 1..Len(pars) /\ n \in Nat /\ n - 1 = i /\ n + 1 = i + 2
  BY LenProperties
<1>2. Titles(pars, n) = Titles(pars, i) /\ Count(pars, n) = Count(pars, i)
  BY <1>1, CountStep
<1>3. \A t \in Titles(pars, i) : ~Belongs(pars, t, n) /\ Shut(pars, t, n)
  BY <1>1 DEF Titles, Belongs, Shut
<1>4. Right(pars, C, n)
  BY <1>1, <1>3, RightStays DEF Going
<1>5. CASE s.inBody \/ IsTitle(pars, n + 1)
  <2>1. z.inBody = s.inBody /\ z.articles = C /\ z.no = 0 /\ z.chapter = n
    BY <1>5 DEF TakeChapter, LoopStates
  <2>2. IsTitle(pars, i + 2) \/ Titles(pars, i) # {}
    BY <1>1, <1>5 DEF Going
  <2>3. IsHead(pars, n, n)
    BY <1>1, <2>2, HeadStep
  <2>4. Committed(z) = C
    <3> HIDE DEF z, C
    <3> QED BY <2>1 DEF Committed
  <2> HIDE DEF z, C
  <2>5. Going(pars, z, n)
    BY <1>2, <1>3, <1>4, <2>1, <2>3, <2>4, s.inBody <=> Titles(pars, i) # {} DEF Going
  <2> QED BY <2>5 DEF z
<1>6. CASE ~(s.inBody \/ IsTitle(pars, n + 1))
  <2>1. z = s
    BY <1>6 DEF TakeChapter
  <2>2. Titles(pars, i) = {} /\ ~IsTitle(pars, i + 2)
    BY <1>1, <1>6 DEF Going
  <2>3. IsHead(pars, n, s.chapter)
    BY <2>2, HeadStep DEF Going
  <2>4. s.no = 0
    BY <2>2 DEF Going
  <2> HIDE DEF z
  <2>5. Going(pars, s, n)
    BY <1>2, <1>4, <1>6, <2>2, <2>3, <2>4 DEF Going, C
  <2> QED BY <2>1, <2>5 DEF z
<1> QED BY <1>5, <1>6

\* A paragraph that the loop passes over belongs to no title.
LEMMA QuietKeeps ==
    ASSUME NEW pars \in Seq(Paragraph), NEW s \in LoopStates, NEW i \in 0..(Len(pars) - 1),
           Going(pars, s, i), pars[i + 1].kind \notin {"article", "chapter"},
           ~s.inBody \/ pars[i + 1].kind = "scrap"
    PROVE  Going(pars, s, i + 1)
<1> DEFINE n == i + 1
<1>1. i \in Nat /\ n \in 1..Len(pars) /\ n \in Nat /\ n - 1 = i
  BY LenProperties
<1>2. Titles(pars, n) = Titles(pars, i) /\ Count(pars, n) = Count(pars, i)
  BY <1>1, CountStep
<1>3. \A t \in Titles(pars, i) : pars[n].kind = "scrap" /\ Says(pars, n) \notin Wordings
  <2>1. Titles(pars, i) # {} => s.inBody
    BY DEF Going
  <2> QED BY <2>1 DEF Says, Wordings
<1>4. \A t \in Titles(pars, i) : ~Belongs(pars, t, n)
  BY <1>3 DEF Belongs
<1>5. Right(pars, Committed(s), n)
  BY <1>4, RightStays DEF Going
<1>6. IsHead(pars, n, s.chapter)
  BY HeadStep DEF Going
<1>7. \A t \in Titles(pars, i) : Shut(pars, t, i) => Shut(pars, t, n)
  <2>1. \A t \in Titles(pars, i) : (t + 1)..i \subseteq (t + 1)..n
    BY <1>1 DEF Titles
  <2> QED BY <2>1 DEF Shut
<1>8. ASSUME NEW t \in Titles(pars, i), OpenAt(pars, s, i, t) PROVE OpenAt(pars, s, n, t)
  <2>1. Text(pars, t, n) = Text(pars, t, i)
    BY <1>4, TextStep
  <2>2. t \in 1..i
    BY DEF Titles
  <2>3. /\ \A j \in (t + 1)..n : j \in (t + 1)..i \/ j = n
        /\ \A j \in t..n : j \in t..i \/ j = n
    BY <1>1, <2>2
  <2> QED BY <1>3, <1>8, <2>1, <2>3 DEF OpenAt
<1> QED BY <1>2, <1>5, <1>6, <1>7, <1>8 DEF Going

\* Where the loop stops, every title has all its text.
LEMMA StopHalts ==
    ASSUME NEW pars \in Seq(Paragraph), NEW s \in LoopStates, NEW i \in 0..(Len(pars) - 1),
           Going(pars, s, i), pars[i + 1].kind = "footer" \/ SaysSome(pars, s.parts, "closing")
    PROVE  Halted(pars, Committed(s), i)
<1>1. i \in Nat /\ Len(pars) \in Nat
  BY LenProperties
<1>2. ASSUME NEW t \in Titles(pars, i), NEW j \in (i + 1)..Len(pars)
      PROVE  ~Belongs(pars, t, j)
  <2>1. t \in 1..i /\ j \in Nat /\ j >= i
    BY <1>1 DEF Titles
  <2>2. CASE Shut(pars, t, i)
    BY <1>1, <2>1, <2>2, ShutStays
  <2>3. CASE ~Shut(pars, t, i)
    <3>1. OpenAt(pars, s, i, t)
      <4>1. s.no # 0
        BY <2>3 DEF Going
      <4>2. PICK u \in Titles(pars, i) : OpenAt(pars, s, i, u)
        BY <4>1 DEF Going
      <4> QED BY <1>1, <2>3, <4>2, OpenLast
    <3>2. CASE pars[i + 1].kind = "footer"
      <4>1. i + 1 \in (t + 1)..j
        BY <1>1, <2>1
      <4> QED BY <3>2, <4>1 DEF Belongs
    <3>3. CASE SaysSome(pars, s.parts, "closing")
      <4>1. PICK k \in Range(s.parts) : Says(pars, k) = "closing"
        BY <3>3 DEF SaysSome, ToSet, Range
      <4>2. k \in Own(pars, t) /\ k \in 1..i
        BY <3>1, <4>1, TextStep DEF OpenAt
      <4>3. k \in t..(j - 1)
        BY <1>1, <2>1, <4>2 DEF Own, Belongs
      <4> QED BY <4>1, <4>3 DEF Belongs
    <3> QED BY <3>2, <3>3
  <2> QED BY <2>2, <2>3
<1> QED BY <1>2 DEF Halted, Going

\* A text joins the article that is open, if there is one.
LEMMA TextKeeps ==
    ASSUME NEW pars \in Seq(Paragraph), NEW s \in LoopStates, NEW i \in 0..(Len(pars) - 1),
           Going(pars, s, i), s.inBody, Says(pars, i + 1) \in Wordings,
           pars[i + 1].kind \notin {"article", "chapter", "footer"}, ~SaysSome(pars, s.parts, "closing")
    PROVE  Going(pars, [s EXCEPT !.parts = Append(@, i + 1)], i + 1)
<1> DEFINE n == i + 1
           z == [s EXCEPT !.parts = Append(@, n)]
           a == [no |-> s.no, chapter |-> s.chapter, parts |-> s.parts]
           b == [no |-> s.no, chapter |-> s.chapter, parts |-> Append(s.parts, n)]
<1>1. i \in Nat /\ n \in 1..Len(pars) /\ n \in Nat /\ n - 1 = i
  BY LenProperties
<1>2. Titles(pars, n) = Titles(pars, i) /\ Count(pars, n) = Count(pars, i) /\ Count(pars, i) \in Nat
  BY <1>1, CountStep
<1>3. /\ z.inBody = s.inBody /\ z.no = s.no /\ z.chapter = s.chapter /\ z.articles = s.articles
      /\ z.parts = Append(s.parts, n)
  BY DEF LoopStates
<1>4. s.articles \in Seq(Articles) /\ s.parts \in Seq(Nat) /\ a \in Articles /\ b \in Articles
  <2>1. s.articles \in Seq(Articles) /\ s.parts \in Seq(Nat) /\ s.no \in Nat /\ s.chapter \in Nat
    BY DEF LoopStates
  <2> QED BY <1>1, <2>1, AppendProperties DEF Articles
<1>5. /\ Committed(s) = IF s.no = 0 THEN s.articles ELSE Append(s.articles, a)
      /\ Committed(z) = IF s.no = 0 THEN s.articles ELSE Append(s.articles, b)
  <2>1. Committed(z) = IF z.no = 0 THEN z.articles
                    ELSE Append(z.articles, [no |-> z.no, chapter |-> z.chapter, parts |-> z.parts])
    BY DEF Committed
  <2> HIDE DEF z
  <2> QED BY <1>3, <2>1 DEF Committed
<1>6. IsHead(pars, n, s.chapter)
  BY HeadStep DEF Going
<1>7. \A t \in Titles(pars, i) : Shut(pars, t, i) => Shut(pars, t, n) /\ ~Belongs(pars, t, n)
  <2>1. \A t \in Titles(pars, i) : (t + 1)..i \subseteq (t + 1)..n
    BY <1>1 DEF Titles
  <2>2. \A t \in Titles(pars, i) : Shut(pars, t, i) => Shut(pars, t, n)
    BY <2>1 DEF Shut
  <2>3. n >= i
    BY <1>1
  <2> QED BY <1>1, <2>2, <2>3, ShutStays
<1>8. CASE s.no = 0
  <2>1. \A t \in Titles(pars, i) : Shut(pars, t, i)
    BY <1>8 DEF Going
  <2>2. Right(pars, Committed(s), n)
    BY <1>7, <2>1, RightStays DEF Going
  <2>3. Committed(z) = Committed(s)
    BY <1>5, <1>8
  <2>4. s.inBody <=> Titles(pars, i) # {}
    BY DEF Going
  <2> HIDE DEF z
  <2>5. Going(pars, z, n)
    BY <1>2, <1>3, <1>6, <1>7, <1>8, <2>1, <2>2, <2>3, <2>4 DEF Going
  <2> QED BY <2>5 DEF z
<1>9. CASE s.no # 0
  <2>1. PICK t \in Titles(pars, i) : OpenAt(pars, s, i, t)
    BY <1>9 DEF Going
  <2>2. t \in 1..i
    BY DEF Titles
  <2>3. /\ Count(pars, t - 1) + 1 = Count(pars, i)
        /\ \A u \in Titles(pars, i) \ {t} : Shut(pars, u, i) /\ Count(pars, u - 1) + 1 < Count(pars, i)
    BY <1>1, <2>1, OpenLast
  <2>4. Belongs(pars, t, n)
    <3>1. \A j \in (t + 1)..n : j \in (t + 1)..i \/ j = n
      BY <1>1, <2>2
    <3>2. \A j \in (t + 1)..n : pars[j].kind \notin {"article", "chapter", "footer"}
      BY <2>1, <3>1 DEF OpenAt
    <3>3. ASSUME NEW j \in t..(n - 1), Says(pars, j) = "closing" PROVE FALSE
      <4>1. j \in t..i /\ j \in 1..Len(pars)
        BY <1>1, <2>2
      <4>2. Belongs(pars, t, j)
        BY <2>1, <3>3, <4>1 DEF OpenAt, Wordings
      <4>3. j \in Range(s.parts)
        <5>1. j \in Own(pars, t) /\ j \in 1..i
          BY <2>2, <4>1, <4>2 DEF Own
        <5> QED BY <2>1, <5>1, TextStep DEF OpenAt
      <4> QED BY <3>3, <4>3 DEF SaysSome, ToSet, Range
    <3> QED BY <1>1, <2>2, <3>2, <3>3 DEF Belongs
  <2>5. Text(pars, t, n) = Append(s.parts, n)
    BY <2>1, <2>4, TextStep DEF OpenAt
  <2>6. \A u \in Titles(pars, i) \ {t} : Text(pars, u, n) = Text(pars, u, i)
    BY <1>7, <2>3, TextStep
  <2>7. /\ Len(Committed(z)) = Len(Committed(s)) /\ Len(Committed(s)) = Count(pars, i)
        /\ Len(s.articles) + 1 = Count(pars, i) /\ Len(s.articles) \in Nat
        /\ Committed(z)[Count(pars, i)] = b
        /\ \A k \in 1..Len(s.articles) : Committed(z)[k] = Committed(s)[k]
    <3>1. /\ Len(Committed(z)) = Len(s.articles) + 1 /\ Len(Committed(s)) = Len(s.articles) + 1
          /\ Len(s.articles) \in Nat /\ Committed(z)[Len(s.articles) + 1] = b
          /\ \A k \in 1..Len(s.articles) : Committed(z)[k] = s.articles[k] /\ Committed(s)[k] = s.articles[k]
      <4> HIDE DEF a, b, z
      <4> QED BY <1>4, <1>5, <1>9, AppendProperties, LenProperties
    <3>2. Len(Committed(s)) = Count(pars, i)
      BY DEF Going, Right
    <3> HIDE DEF z, b
    <3> QED BY <3>1, <3>2
  <2> HIDE DEF z
  <2>8. Right(pars, Committed(z), n)
    <3>1. Right(pars, Committed(s), i)
      BY DEF Going
    <3>2. ASSUME NEW u \in Titles(pars, i) \ {t}
          PROVE  Committed(z)[Count(pars, u - 1) + 1] = Committed(s)[Count(pars, u - 1) + 1]
      <4>1. Count(pars, u - 1) + 1 \in 1..Len(s.articles)
        <5>1. Count(pars, u - 1) \in Nat /\ Count(pars, u - 1) + 1 < Count(pars, i)
          BY <1>1, <2>3, CountTitle
        <5>2. Len(s.articles) + 1 = Count(pars, i) /\ Len(s.articles) \in Nat
          BY <2>7
        <5> QED BY <5>1, <5>2
      <4> QED BY <2>7, <4>1
    <3>3. b.no = pars[t].no /\ b.parts = Text(pars, t, n) /\ IsHead(pars, t - 1, b.chapter)
      BY <2>1, <2>5 DEF OpenAt
    <3>4. Committed(z)[Count(pars, t - 1) + 1] = b
      BY <2>3, <2>7
    <3> HIDE DEF b
    <3>5. ASSUME NEW u \in Titles(pars, n)
          PROVE  LET x == Committed(z)[Count(pars, u - 1) + 1]
                 IN  x.no = pars[u].no /\ x.parts = Text(pars, u, n) /\ IsHead(pars, u - 1, x.chapter)
      <4>1. CASE u = t
        BY <3>3, <3>4, <4>1
      <4>2. CASE u # t
        BY <1>2, <2>6, <3>1, <3>2, <4>2 DEF Right
      <4> QED BY <4>1, <4>2
    <3> QED BY <1>2, <2>7, <3>5 DEF Right
  <2>9. OpenAt(pars, z, n, t)
    <3>1. /\ \A j \in (t + 1)..n : j \in (t + 1)..i \/ j = n
          /\ \A j \in t..n : j \in t..i \/ j = n
      BY <1>1, <2>2
    <3>2. z.no = pars[t].no /\ z.parts = Text(pars, t, n) /\ IsHead(pars, t - 1, z.chapter)
      BY <1>3, <2>1, <2>5 DEF OpenAt
    <3>3. \A j \in (t + 1)..n : pars[j].kind \notin {"article", "chapter", "footer"}
      BY <2>1, <3>1 DEF OpenAt
    <3>4. \A j \in t..n : Says(pars, j) \in Wordings => Belongs(pars, t, j)
      BY <2>1, <2>4, <3>1 DEF OpenAt
    <3> QED BY <3>2, <3>3, <3>4 DEF OpenAt
  <2>10. s.inBody <=> Titles(pars, i) # {}
    BY DEF Going
  <2>11. Going(pars, z, n)
    BY <1>2, <1>3, <1>6, <1>9, <2>8, <2>9, <2>10 DEF Going
  <2> QED BY <2>11 DEF z
<1> QED BY <1>8, <1>9

\* Every round keeps the invariant of the loop.
LEMMA RoundKeeps ==
    ASSUME NEW pars \in Seq(Paragraph), NEW s \in LoopStates, NEW i \in 0..(Len(pars) - 1),
           LoopInv(pars, s, i)
    PROVE  LoopInv(pars, Take(pars, s, i + 1), i + 1)
<1> DEFINE n == i + 1
           z == Take(pars, s, n)
<1>1. i \in Nat /\ Len(pars) \in Nat /\ n \in 1..Len(pars) /\ i \in 0..Len(pars)
  BY LenProperties
<1>2. pars[n].kind \in {"article", "chapter", "footer", "scrap", "text", "closing", "amended"}
  BY <1>1, ParagraphKinds
<1>3. s.stopped \in BOOLEAN /\ z.stopped \in BOOLEAN
  <2>1. z \in LoopStates
    BY <1>1, TakeType
  <2> QED BY <2>1 DEF LoopStates
<1>4. CASE s.stopped
  <2>1. z = s
    BY <1>4 DEF Take
  <2> QED BY <1>4, <2>1 DEF LoopInv
<1>5. CASE ~s.stopped
  <2> USE <1>5
  <2>1. Going(pars, s, i)
    BY DEF LoopInv
  <2>2. CASE pars[n].kind = "article"
    <3>1. z = TakeTitle(pars, s, n)
      BY <2>2 DEF Take
    <3>2. ~z.stopped
      <4>1. TakeTitle(pars, s, n).stopped = s.stopped
        BY DEF TakeTitle, LoopStates
      <4> QED BY <3>1, <4>1
    <3>3. Going(pars, z, n)
      BY <2>1, <2>2, <3>1, TitleKeeps
    <3> QED BY <3>2, <3>3 DEF LoopInv
  <2>3. CASE pars[n].kind = "chapter"
    <3>1. z = TakeChapter(pars, s, n)
      BY <2>3 DEF Take
    <3>2. ~z.stopped
      <4>1. TakeChapter(pars, s, n).stopped = s.stopped
        BY DEF TakeChapter, LoopStates
      <4> QED BY <3>1, <4>1
    <3>3. Going(pars, z, n)
      BY <2>1, <2>3, <3>1, ChapterKeeps
    <3> QED BY <3>2, <3>3 DEF LoopInv
  <2>4. CASE pars[n].kind \notin {"article", "chapter"}
    <3>1. z = TakeText(pars, s, n)
      BY <2>4 DEF Take
    <3>2. CASE ~s.inBody \/ pars[n].kind = "scrap"
      <4>1. z = s
        BY <3>1, <3>2 DEF TakeText
      <4>2. Going(pars, s, n)
        BY <2>1, <2>4, <3>2, QuietKeeps
      <4> HIDE DEF z
      <4>3. LoopInv(pars, z, n)
        BY <1>5, <4>1, <4>2 DEF LoopInv
      <4> QED BY <4>3 DEF z
    <3>3. CASE /\ s.inBody /\ pars[n].kind # "scrap"
               /\ pars[n].kind = "footer" \/ SaysSome(pars, s.parts, "closing")
      <4>1. z = [s EXCEPT !.stopped = TRUE]
        BY <3>1, <3>3 DEF TakeText
      <4>2. z.stopped = TRUE /\ Committed(z) = Committed(s)
        <5>1. z.stopped = TRUE /\ z.no = s.no /\ z.articles = s.articles /\ z.chapter = s.chapter
              /\ z.parts = s.parts
          BY <4>1 DEF LoopStates
        <5> HIDE DEF z
        <5> QED BY <5>1 DEF Committed
      <4>3. Halted(pars, Committed(s), i)
        BY <2>1, <3>3, StopHalts
      <4> HIDE DEF z
      <4>4. LoopInv(pars, z, n)
        BY <1>1, <4>2, <4>3 DEF LoopInv
      <4> QED BY <4>4 DEF z
    <3>4. CASE /\ s.inBody /\ pars[n].kind # "scrap"
               /\ pars[n].kind # "footer" /\ ~SaysSome(pars, s.parts, "closing")
      <4>1. z = [s EXCEPT !.parts = Append(@, n)]
        BY <3>1, <3>4 DEF TakeText
      <4>2. z.stopped = s.stopped
        BY <4>1 DEF LoopStates
      <4>3. Says(pars, n) \in Wordings /\ pars[n].kind \notin {"article", "chapter", "footer"}
        BY <1>2, <2>4, <3>4 DEF Says, Wordings
      <4>4. Going(pars, z, n)
        BY <2>1, <3>4, <4>1, <4>3, TextKeeps
      <4> QED BY <4>2, <4>4 DEF LoopInv
    <3> QED BY <3>2, <3>3, <3>4
  <2> QED BY <2>2, <2>3, <2>4
<1> QED BY <1>3, <1>4, <1>5

\* What the loop ends with is right for the titles it has come to.
LEMMA ParsedRight ==
    ASSUME NEW pars \in Seq(Paragraph)
    PROVE  \E k \in 0..Len(pars) : Halted(pars, Parsed(pars), k)
<1> DEFINE N == Len(pars)
<1>1. N \in Nat
  BY LenProperties
<1>2. PICK f : Looped(f, pars)
  BY ParsedUnfolds
<1> DEFINE T == {n \in Nat : n <= N => LoopInv(pars, f[n], n)}
<1>3. 0 \in T
  <2>1. f[0] = Start
    BY <1>2 DEF Looped
  <2>2. /\ Start.stopped = FALSE /\ Start.inBody = FALSE /\ Start.no = 0 /\ Start.chapter = 0
        /\ Committed(Start) = <<>>
    BY DEF Start, Committed
  <2>3. Titles(pars, 0) = {} /\ Heads(pars, 0) = {} /\ Count(pars, 0) = 0 /\ Len(<<>>) = 0
    <3>1. 1..0 = {}
      OBVIOUS
    <3>2. Titles(pars, 0) = {} /\ Heads(pars, 0) = {}
      BY <3>1 DEF Titles, Heads
    <3>3. Count(pars, 0) = 0
      BY CountStep
    <3> QED BY <3>2, <3>3, EmptySeq
  <2>4. Right(pars, <<>>, 0) /\ IsHead(pars, 0, 0)
    BY <2>3 DEF Right, IsHead
  <2> QED BY <2>1, <2>2, <2>3, <2>4 DEF LoopInv, Going
<1>4. ASSUME NEW n \in Nat, n \in T PROVE n + 1 \in T
  <2> SUFFICES ASSUME n + 1 <= N PROVE LoopInv(pars, f[n + 1], n + 1)
    OBVIOUS
  <2>1. n \in 0..(N - 1) /\ n + 1 \in 1..N /\ (n + 1) - 1 = n /\ n \in 0..N /\ n <= N
    BY <1>1
  <2>2. f[n] \in LoopStates /\ f[n + 1] = Take(pars, f[n], n + 1)
    BY <1>2, <2>1 DEF Looped
  <2>3. LoopInv(pars, f[n], n)
    BY <1>4, <2>1
  <2> QED BY <2>1, <2>2, <2>3, RoundKeeps
<1>5. N \in T
  <2> HIDE DEF T
  <2> QED BY <1>1, <1>3, <1>4, NaturalInduction
<1>6. LoopInv(pars, f[N], N) /\ f[N] \in LoopStates /\ Parsed(pars) = Committed(f[N])
  BY <1>1, <1>2, <1>5 DEF Looped
<1>7. CASE f[N].stopped
  BY <1>6, <1>7 DEF LoopInv
<1>8. CASE ~f[N].stopped
  <2>1. Going(pars, f[N], N)
    BY <1>6, <1>8 DEF LoopInv
  <2>2. (N + 1)..N = {}
    BY <1>1
  <2>3. Halted(pars, Parsed(pars), N)
    BY <1>6, <2>1, <2>2 DEF Halted, Going
  <2> QED BY <1>1, <2>3
<1> QED BY <1>7, <1>8

\* A page that passes the assertions gives the law as it stands on the page
\* (fetch_laws.py:335-410).
LEMMA PageSound ==
    ASSUME NEW pars \in Seq(Paragraph)
    PROVE  PageFaithfulTo(pars)
<1> SUFFICES ASSUME Accepted(pars), NEW n \in 1..ExpectedArticles
             PROVE  LET a == Parsed(pars)[n]
                        titles == {t \in DOMAIN pars : pars[t].kind = "article"}
                        t == CHOOSE x \in titles : Cardinality({y \in titles : y < x}) = n - 1
                        chapters == {c \in 1..(t - 1) :
                                        /\ pars[c].kind = "chapter"
                                        /\ IsTitle(pars, c + 1) \/ \E y \in titles : y < c}
                    IN  /\ pars[t].no = n
                        /\ a.parts = Selected([i \in DOMAIN pars |-> i], LAMBDA i : Belongs(pars, t, i))
                        /\ a.chapter \in chapters \/ (chapters = {} /\ a.chapter = 0)
                        /\ \A c \in chapters : c <= a.chapter
  BY DEF PageFaithfulTo
<1> DEFINE N == Len(pars)
           titles == {t \in DOMAIN pars : pars[t].kind = "article"}
           t == CHOOSE x \in titles : Cardinality({y \in titles : y < x}) = n - 1
           as == Parsed(pars)
<1>1. N \in Nat /\ DOMAIN pars = 1..N /\ n \in Nat /\ ExpectedArticles \in Nat
  BY LenProperties, ExpectedAssumption
<1>2. PICK k \in 0..N : Halted(pars, as, k)
  BY ParsedRight
<1>3. titles = Titles(pars, N)
  BY <1>1 DEF Titles
<1>4. \A x \in titles : {y \in titles : y < x} = Titles(pars, x - 1)
  BY <1>1 DEF Titles
<1>5. Len(as) = ExpectedArticles /\ as[n].no = n
  BY DEF Accepted
<1>6. Count(pars, k) = ExpectedArticles /\ Right(pars, as, k)
  BY <1>2, <1>5 DEF Halted, Right
<1>7. t \in titles /\ Count(pars, t - 1) = n - 1
  <2>1. \E x \in Titles(pars, k) : Count(pars, x - 1) = n - 1
    <3>1. k \in Nat /\ n \in 1..Count(pars, k)
      BY <1>1, <1>6
    <3> QED BY <3>1, CountReached
  <2>2. Titles(pars, k) \subseteq titles
    BY <1>1 DEF Titles
  <2>3. \E x \in titles : Cardinality({y \in titles : y < x}) = n - 1
    BY <1>4, <2>1, <2>2 DEF Count
  <2>4. t \in titles /\ Cardinality({y \in titles : y < t}) = n - 1
    <3> HIDE DEF titles
    <3> QED BY <2>3
  <2> HIDE DEF t, titles
  <2> QED BY <1>4, <2>4 DEF Count
<1> HIDE DEF t
<1>8. t \in Titles(pars, k)
  <2>1. t \in 1..N /\ pars[t].kind = "article" /\ t - 1 \in Nat
    BY <1>1, <1>7
  <2>2. ASSUME t > k PROVE FALSE
    <3>1. Count(pars, k) <= Count(pars, t - 1)
      BY <1>1, <2>1, <2>2, CountGrows
    <3> QED BY <1>1, <1>6, <1>7, <3>1
  <2> QED BY <1>1, <2>1, <2>2 DEF Titles
<1>9. as[n].no = pars[t].no /\ as[n].parts = Text(pars, t, k) /\ IsHead(pars, t - 1, as[n].chapter)
  <2>1. Count(pars, t - 1) + 1 = n
    BY <1>1, <1>7
  <2> QED BY <1>6, <1>8, <2>1 DEF Right
<1>10. Text(pars, t, k) = Text(pars, t, N)
  <2> DEFINE T == {m \in Nat : k <= m /\ m <= N => Text(pars, t, m) = Text(pars, t, k)}
  <2>1. 0 \in T
    OBVIOUS
  <2>2. ASSUME NEW m \in Nat, m \in T PROVE m + 1 \in T
    <3> SUFFICES ASSUME k <= m + 1, m + 1 <= N PROVE Text(pars, t, m + 1) = Text(pars, t, k)
      OBVIOUS
    <3>1. CASE k = m + 1
      BY <3>1
    <3>2. CASE k # m + 1
      <4>1. m \in 0..(N - 1) /\ k <= m /\ m <= N /\ m + 1 \in (k + 1)..N
        BY <1>1, <3>2
      <4>2. ~Belongs(pars, t, m + 1)
        BY <1>2, <1>8, <4>1 DEF Halted
      <4>3. Text(pars, t, m + 1) = Text(pars, t, m)
        BY <4>1, <4>2, TextStep
      <4> QED BY <2>2, <4>1, <4>3
    <3> QED BY <3>1, <3>2
  <2>3. N \in T
    <3> HIDE DEF T
    <3> QED BY <1>1, <2>1, <2>2, NaturalInduction
  <2> QED BY <1>1, <2>3
<1>11. Text(pars, t, N) = Selected([i \in DOMAIN pars |-> i], LAMBDA i : Belongs(pars, t, i))
  <2> DEFINE s == [i \in DOMAIN pars |-> i]
  <2>1. s = Upto(N)
    BY <1>1 DEF Upto
  <2>2. {x \in {s[i] : i \in DOMAIN s} : Belongs(pars, t, x)} = Own(pars, t)
    BY <1>1 DEF Own
  <2> QED BY <2>1, <2>2 DEF Text, Selected
<1> DEFINE chapters == {c \in 1..(t - 1) :
                           /\ pars[c].kind = "chapter"
                           /\ IsTitle(pars, c + 1) \/ \E y \in titles : y < c}
<1>12. chapters = Heads(pars, t - 1)
  <2>1. t \in 1..N
    BY <1>1, <1>7
  <2>2. \A c \in 1..(t - 1) : (\E y \in titles : y < c) <=> Titles(pars, c - 1) # {}
    BY <1>1, <2>1 DEF Titles
  <2> HIDE DEF titles
  <2> QED BY <2>2 DEF Heads
<1>13. as[n].chapter \in chapters \/ (chapters = {} /\ as[n].chapter = 0)
  BY <1>9, <1>12 DEF IsHead
<1>14. \A c \in chapters : c <= as[n].chapter
  BY <1>9, <1>12 DEF IsHead
<1>15. pars[t].no = n
  BY <1>5, <1>9
<1>16. as[n].parts = Selected([i \in DOMAIN pars |-> i], LAMBDA i : Belongs(pars, t, i))
  BY <1>9, <1>10, <1>11
<1> QED BY ONLY <1>13, <1>14, <1>15, <1>16 DEF t

\* The pages that are read are made of paragraphs.
PageRead == page \in Seq(Paragraph)

\* Which every reading of a paragraph keeps.
LEMMA PagesRead == Inputs => []PageRead
<1>1. NoInput => PageRead
  BY DEF NoInput, PageRead
<1>2. PageRead /\ [NextInput]_inputs => PageRead'
  <2> SUFFICES ASSUME PageRead, [NextInput]_inputs PROVE page' \in Seq(Paragraph)
    BY DEF PageRead
  <2>1. CASE NextParagraph
    <3>1. PICK p \in Paragraphs : page' = Append(page, p)
      BY <2>1 DEF NextParagraph
    <3>2. p \in Paragraph
      BY <3>1, ParagraphsAssumption
    <3> QED BY <3>1, <3>2, AppendProperties DEF PageRead
  <2>2. CASE page' = page
    BY <2>2 DEF PageRead
  <2> QED BY <2>1, <2>2 DEF NextInput, NextCharacter, Calculate, inputs
<1> QED BY <1>1, <1>2, PTL DEF Inputs

\* A page that parse_document lets pass gives its law as the page has it, whatever
\* the page and the number of its articles: every article under its number and its
\* chapter, with all the text between its title and the next, and nothing else
\* (fetch_laws.py:335-410).
THEOREM PagesFaithful == Inputs => []PageFaithful
<1>1. PageRead => PageFaithful
  BY PageSound DEF PageRead, PageFaithful
<1> QED BY <1>1, PagesRead, PTL
=============================================================================

------------------------------ MODULE Corpus ------------------------------
(***************************************************************************)
(* The built-in corpus: scripts/ingest_laws.py copies the fetched laws into *)
(* the table articles, scripts/migrate_default_kb.py copies articles into   *)
(* the default knowledge base, one document a law and one chunk an article. *)
(* Vectors are computed by the migration, by scripts/backfill_embeddings.py *)
(* and by POST /kb/{id}/reindex: these read texts, embed them for as long   *)
(* as that takes and then write the vectors by chunk id. Administrators     *)
(* delete documents meanwhile, and upload others.                           *)
(*                                                                         *)
(* A vector is the text it was computed from.                               *)
(***************************************************************************)
EXTENDS Naturals, Sequences, FiniteSets

CONSTANTS
    Laws,
    Versions,    \* what the page of a law says: sequences of article texts
    NoVector,    \* embedding IS NULL
    Jobs,        \* embedding jobs: reindex tasks, backfill runs
    MaxDocs      \* bound: documents.id of the laws

ASSUME VersionsAssumption == \A v \in Versions : v # <<>> /\ v \in Seq({v[i] : i \in DOMAIN v})
ASSUME NoVectorAssumption == \A v \in Versions : \A i \in DOMAIN v : v[i] # NoVector
ASSUME LawsAssumption == IsFiniteSet(Laws)
ASSUME BoundAssumption == MaxDocs \in Nat

VARIABLES
    articles,    \* [Laws -> sequence of texts]             table articles
    doc,         \* [Laws -> documents.id, or 0]            table documents
    docChunks,   \* [Laws -> Nat]                           documents.chunk_count
    chunks,      \* [Laws -> sequence of [text, vec]]       table chunks
    others,      \* other documents of the default base, a chunk each
    counts,      \* [docs, chunks]                          kb.doc_count, kb.chunk_count
    drawn,       \* document ids drawn
    mig,         \* the migration: position, laws to do, what its transaction holds
    job,         \* [Jobs -> the texts a job has read, by chunk id]
    unforced,    \* auxiliary: chunks whose text a migration replaced without
                 \* --force-embed since their vector was written
    overtaken,   \* auxiliary: chunks whose vector a job wrote from a text that
                 \* had been replaced after the job read it
    changed      \* auxiliary: [Jobs -> chunks replaced since the job read]

corpus == <<articles, doc, docChunks, chunks, others, counts, drawn>>
vars == <<corpus, mig, job, unforced, overtaken, changed>>

Nothing == [x \in {} |-> 0]
\* `calm` and `embed` are history: nothing else was committed since the migration
\* began, and it has embedded.
Idle == [pos |-> "idle", calm |-> FALSE, embed |-> FALSE, todo |-> {}, done |-> Nothing]

\* ON CONFLICT DO UPDATE: rows that are in old only stay.
Upsert(old, new) == [i \in 1..(IF Len(old) < Len(new) THEN Len(new) ELSE Len(old)) |->
                        IF i \in DOMAIN new THEN new[i] ELSE old[i]]

\* The rows of table chunks by id. A row is only deleted with its document.
Ids == UNION {{<<doc[l], i>> : i \in DOMAIN chunks[l]} : l \in Laws}
Chunk(c) == LET l == CHOOSE k \in Laws : doc[k] = c[1] IN chunks[l][c[2]]

\* count(*) over a table that has `of` each law.
Rows(of) == UNION {{l} \X DOMAIN of[l] : l \in Laws}
Recount(dc, ch, n) == [docs   |-> Cardinality({l \in Laws : dc[l] # 0}) + n,
                       chunks |-> Cardinality(Rows(ch)) + n]
-----------------------------------------------------------------------------
Init ==
    /\ articles = [l \in Laws |-> <<>>]
    /\ doc = [l \in Laws |-> 0] /\ docChunks = [l \in Laws |-> 0]
    /\ chunks = [l \in Laws |-> <<>>]
    /\ others = 0 /\ drawn = 0
    /\ counts = [docs |-> 0, chunks |-> 0]
    /\ mig = Idle
    /\ job = [j \in Jobs |-> Nothing] /\ changed = [j \in Jobs |-> {}]
    /\ unforced = {} /\ overtaken = {}

\* A commit beside the migration, or after it.
Disturb == mig' = IF mig.pos \in {"open", "committed"} THEN [mig EXCEPT !.calm = FALSE] ELSE Idle

\* ingest_laws: one transaction over the files of data/raw, which need not have
\* every law. An article that a new version lacks stays in the table.
Ingest ==
    /\ \E laws \in SUBSET Laws \ {{}} : \E new \in [laws -> Versions] :
           articles' = [l \in Laws |-> IF l \in laws THEN Upsert(articles[l], new[l])
                                       ELSE articles[l]]
    /\ Disturb
    /\ UNCHANGED <<doc, docChunks, chunks, others, counts, drawn, job, unforced,
                   overtaken, changed>>

\* The upsert of the default base locks its row until the transaction ends: two
\* migrations exclude each other, and whoever recounts the base waits for them.
BeginMigrate ==
    /\ mig.pos \notin {"open", "committed"}
    /\ mig' = [pos |-> "open", calm |-> TRUE, embed |-> FALSE, done |-> Nothing,
               todo |-> {l \in Laws : articles[l] # <<>>}]
    /\ UNCHANGED <<corpus, job, unforced, overtaken, changed>>

\* _find_or_create_doc: the id of a new document is drawn.
DocOf(l) == IF doc[l] = 0 THEN drawn + 1 ELSE doc[l]

\* One law: its document is found or created, its articles are read and upserted;
\* the rows stay locked.
MigrateLaw(l) ==
    /\ mig.pos = "open" /\ l \in mig.todo
    /\ doc[l] = 0 => drawn < MaxDocs
    /\ drawn' = IF doc[l] = 0 THEN drawn + 1 ELSE drawn
    /\ LET law == [doc |-> DocOf(l), texts |-> articles[l]]
       IN  mig' = [mig EXCEPT !.todo = @ \ {l},
                              !.done = [k \in {l} \cup DOMAIN @ |-> IF k = l THEN law ELSE @[k]]]
    /\ UNCHANGED <<articles, doc, docChunks, chunks, others, counts, job, unforced,
                   overtaken, changed>>

\* Mutant: ON CONFLICT DO NOTHING.
UpsertedNew(l) ==
    LET old == chunks[l]
        new == mig.done[l].texts
    IN  [i \in DOMAIN new |->
            IF i \in DOMAIN old THEN old[i] ELSE [text |-> new[i], vec |-> NoVector]]

\* The rows of a law once its articles are upserted: the old vectors stay.
Upserted(l) ==
    LET old == chunks[l]
        new == mig.done[l].texts
    IN  Upsert(old, [i \in DOMAIN new |->
            [text |-> new[i], vec |-> IF i \in DOMAIN old THEN old[i].vec ELSE NoVector]])

\* Mutant: --force-embed has no effect.
EmbeddedMissing(embed, force, chunk) ==
    IF embed /\ chunk.vec = NoVector THEN [chunk EXCEPT !.vec = chunk.text] ELSE chunk

\* What has no vector is embedded, with --force-embed every chunk, with --skip-embed none.
Embedded(embed, force, chunk) ==
    IF embed /\ (force \/ chunk.vec = NoVector) THEN [chunk EXCEPT !.vec = chunk.text] ELSE chunk

\* Chunk ids of l whose text the migration replaces.
Replaced(l) == {<<doc[l], i>> : i \in {n \in DOMAIN chunks[l] :
                                          chunks[l][n].text # Upserted(l)[n].text}}

CommitMigrate(embed, force) ==
    /\ mig.pos = "open" /\ mig.todo = {}
    /\ mig' = [mig EXCEPT !.pos = "committed", !.embed = embed]
    /\ LET laws == DOMAIN mig.done
           replaced == UNION {Replaced(l) : l \in laws}
           all == [l \in Laws |-> IF l \in laws THEN Upserted(l) ELSE chunks[l]]
       IN  /\ doc' = [l \in Laws |-> IF l \in laws THEN mig.done[l].doc ELSE doc[l]]
           /\ docChunks' = [l \in Laws |-> IF l \in laws THEN Len(mig.done[l].texts)
                                           ELSE docChunks[l]]
           /\ chunks' = [l \in Laws |-> [i \in DOMAIN all[l] |-> Embedded(embed, force, all[l][i])]]
           /\ unforced' = IF embed /\ force THEN {} ELSE unforced \cup replaced
           /\ overtaken' = IF embed /\ force THEN {} ELSE overtaken
           /\ changed' = [j \in Jobs |-> changed[j] \cup (replaced \cap DOMAIN job[j])]
    /\ counts' = Recount(doc', chunks', others)
    /\ UNCHANGED <<articles, others, drawn, job>>

\* The provider, the database or the process fails: nothing is left of it.
AbortMigrate ==
    /\ mig.pos = "open"
    /\ mig' = Idle
    /\ UNCHANGED <<corpus, job, unforced, overtaken, changed>>

\* The self-check compares two counts, on a connection of its own. Its outcome is
\* kept as long as nothing else is committed.
SelfCheck ==
    /\ mig.pos = "committed"
    /\ LET expected == [docs   |-> Cardinality({l \in Laws : articles[l] # <<>>}),
                        chunks |-> Cardinality(Rows(articles))]
           outcome == IF Recount(doc, chunks, others) = expected THEN "passed" ELSE "failed"
       IN  mig' = IF mig.calm THEN [Idle EXCEPT !.pos = outcome, !.calm = TRUE, !.embed = mig.embed]
                   ELSE Idle
    /\ UNCHANGED <<corpus, job, unforced, overtaken, changed>>
-----------------------------------------------------------------------------
Locked == IF mig.pos = "open" THEN {doc[l] : l \in DOMAIN mig.done} ELSE {}

\* pending_rows: what the job is going to embed.
JobRead(j, force) ==
    /\ job[j] = Nothing
    /\ job' = [job EXCEPT ![j] =
           [c \in {x \in Ids : force \/ Chunk(x).vec = NoVector} |-> Chunk(c).text]]
    /\ changed' = [changed EXCEPT ![j] = {}]
    /\ UNCHANGED <<corpus, mig, unforced, overtaken>>

\* set_embeddings: an UPDATE by id, which waits for locked rows and misses
\* those that are gone.
JobWrite(j) ==
    /\ job[j] # Nothing
    /\ \A c \in DOMAIN job[j] : c[1] \notin Locked
    /\ chunks' = [l \in Laws |-> [i \in DOMAIN chunks[l] |->
           IF <<doc[l], i>> \in DOMAIN job[j]
           THEN [chunks[l][i] EXCEPT !.vec = job[j][<<doc[l], i>>]] ELSE chunks[l][i]]]
    /\ unforced' = unforced \ (DOMAIN job[j] \ changed[j])
    /\ overtaken' = (overtaken \ DOMAIN job[j]) \cup changed[j]
    /\ job' = [job EXCEPT ![j] = Nothing] /\ changed' = [changed EXCEPT ![j] = {}]
    /\ UNCHANGED <<articles, doc, docChunks, others, counts, drawn, mig>>

\* The provider fails, or the process of the job ends.
JobFail(j) ==
    /\ job[j] # Nothing
    /\ job' = [job EXCEPT ![j] = Nothing] /\ changed' = [changed EXCEPT ![j] = {}]
    /\ UNCHANGED <<corpus, mig, unforced, overtaken>>

\* Deletions and uploads recount the base, whose row a migration has locked.
DeleteDoc(l) ==
    /\ doc[l] # 0 /\ mig.pos # "open"
    /\ doc' = [doc EXCEPT ![l] = 0] /\ docChunks' = [docChunks EXCEPT ![l] = 0]
    /\ chunks' = [chunks EXCEPT ![l] = <<>>]
    /\ counts' = Recount(doc', chunks', others)
    /\ Disturb
    /\ LET left == {c \in Ids : c[1] # doc[l]}
       IN  /\ unforced' = unforced \cap left /\ overtaken' = overtaken \cap left
           /\ changed' = [j \in Jobs |-> changed[j] \cap left]
    /\ UNCHANGED <<articles, others, drawn, job>>

\* Another document comes into the base, or goes (KbPipeline has the steps).
Upload ==
    /\ mig.pos # "open"
    /\ others' \in {0, 1} \ {others}
    /\ counts' = Recount(doc, chunks, others')
    /\ Disturb
    /\ UNCHANGED <<articles, doc, docChunks, chunks, drawn, job, unforced, overtaken, changed>>

Next ==
    \/ Ingest \/ BeginMigrate \/ AbortMigrate \/ SelfCheck \/ Upload
    \/ \E l \in Laws : MigrateLaw(l) \/ DeleteDoc(l)
    \/ \E embed, force \in BOOLEAN : CommitMigrate(embed, force)
    \/ \E j \in Jobs : JobRead(j, TRUE) \/ JobRead(j, FALSE) \/ JobWrite(j) \/ JobFail(j)

Spec == Init /\ [][Next]_vars
-----------------------------------------------------------------------------
\* A chunk is found by the vector of another text for two reasons only: a migration
\* replaced its text without --force-embed (migrate_default_kb.py:123), or while an
\* embedding job was under way (kb_routes.py:223-229, backfill_embeddings.py:45-54).
VectorsExplained ==
    \A c \in Ids :
        Chunk(c).vec \in {NoVector, Chunk(c).text} \/ c \in unforced \cup overtaken

\* After a migration nobody disturbed, the base has every article of every law ever
\* ingested, each with some vector unless embedding was skipped, its counters are
\* right, and the self-check has failed only if there are documents that were uploaded
\* (migrate_default_kb.py:80-136, 170-185).
MigrationComplete ==
    mig.pos \in {"passed", "failed"} =>
        /\ \A l \in Laws : [i \in DOMAIN chunks[l] |-> chunks[l][i].text] = articles[l]
        /\ \A l \in Laws : docChunks[l] = Len(articles[l])
        /\ counts = Recount(doc, chunks, others)
        /\ mig.embed => \A l \in Laws : \A i \in DOMAIN chunks[l] : chunks[l][i].vec # NoVector
        /\ mig.pos = "failed" <=> others > 0
=============================================================================

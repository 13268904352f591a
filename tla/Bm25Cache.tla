----------------------------- MODULE Bm25Cache -----------------------------
(***************************************************************************)
(* The in-process BM25 index of one retrieval scope (app/rag/retriever.py, *)
(* HybridRetriever._bm25_for) and the fingerprint that decides whether it  *)
(* is rebuilt (app/rag/vectorstore.py, chunk_signature): number of chunks, *)
(* largest chunk id, latest documents.updated_at.                          *)
(*                                                                         *)
(* Beside the search threads run the writers of those tables, transaction  *)
(* by transaction: pipeline jobs (app/kb/store.py), deletions, and the     *)
(* migration of the built-in laws (scripts/migrate_default_kb.py), which is *)
(* one long transaction. What the fingerprint depends on is modelled as    *)
(* PostgreSQL does it: now() is the time a transaction BEGAN, and a serial *)
(* id is drawn when a row is proposed, not when it is committed.           *)
(***************************************************************************)
EXTENDS Naturals, Sequences, FiniteSets, FiniteSetsExt

CONSTANTS
    Uploads,      \* documents that pipeline jobs write
    Laws,         \* documents that the migration writes
    Contents,     \* contents a chunk can have
    Texts,        \* chunk contents of a version of a document, by seq
    Threads,      \* threads that search
    NoThread,     \* the lock is free
    MaxClock,     \* bound on transactions that take a timestamp
    MaxId         \* bound on chunk ids drawn

Docs == Uploads \cup Laws

ASSUME DocsAssumption == IsFiniteSet(Docs) /\ Uploads \cap Laws = {}
ASSUME TextsAssumption == Texts \subseteq Seq(Contents) \ {<<>>}
ASSUME ThreadAssumption == NoThread \notin Threads
ASSUME BoundAssumption == MaxClock \in Nat /\ MaxId \in Nat

VARIABLES
    rows,         \* [Docs -> Seq([id, text])]    committed chunks, by seq
    stamp,        \* [Docs -> time]               documents.updated_at
    gone,         \* documents deleted; ids are never reused
    nextId,       \* the sequence behind chunks.id
    clock,        \* the time of the latest transaction that takes now()
    job,          \* [Uploads -> the transaction its job has open]
    began,        \* [Uploads -> the time that transaction began]
    draft,        \* [Docs -> the rows an open transaction will commit]
    mig,          \* the migration: the time it began (0: not running) and
                  \* the laws it has upserted
    cache,        \* the entry of _bm25_cache, as a set of at most one
    holder,       \* the thread that holds _cache_lock
    pos,          \* [Threads -> position in _bm25_for]
    found,        \* [Threads -> the entry a thread builds or returns]
    unsettled,    \* history: documents whose committed chunks no updated_at
                  \* accounts for: the status write is still to come, or the
                  \* one committed with them is older than `latest`
    latest,       \* history: the latest updated_at ever committed
    seen          \* history: [Threads -> documents settled when the search
                  \* began and not written since]

tables  == <<rows, stamp, gone>>
writers == <<nextId, clock, job, began, draft, mig>>
readers == <<cache, holder, pos, found>>
history == <<unsettled, latest, seen>>
vars    == <<tables, writers, readers, history>>

\* count(c.id), max(c.id), max(d.updated_at) over the documents with chunks.
Ids(rws) == UNION {{<<d, i>> : i \in DOMAIN rws[d]} : d \in Docs}

\* Mutant: a fingerprint of max(id) and max(updated_at) only.
SignatureUncounted ==
    [count |-> 0,
     id    |-> Max({0} \cup {rows[c[1]][c[2]].id : c \in Ids(rows)}),
     at    |-> Max({0} \cup {stamp[d] : d \in {e \in Docs : rows[e] # <<>>}})]

\* Mutant: the time of the document with the newest chunk (ORDER BY c.id DESC
\* LIMIT 1) in place of the latest time.
SignatureOfNewest ==
    LET newest == Max({0} \cup {rows[c[1]][c[2]].id : c \in Ids(rows)})
        Newest == {c \in Ids(rows) : rows[c[1]][c[2]].id = newest}
    IN  [count |-> Cardinality(Ids(rows)),
         id    |-> newest,
         at    |-> Max({0} \cup {stamp[c[1]] : c \in Newest})]

Signature ==
    [count |-> Cardinality(Ids(rows)),
     id    |-> Max({0} \cup {rows[c[1]][c[2]].id : c \in Ids(rows)}),
     at    |-> Max({0} \cup {stamp[d] : d \in {e \in Docs : rows[e] # <<>>}})]

Row     == [id : Nat, text : Contents]
Version == [Docs -> Seq(Row)]
Empty   == [d \in Docs |-> <<>>]

\* _Bm25Entry; `probed` is history, what the tables held when sig was read.
Entry(sig, probed, corpus) == [sig |-> sig, probed |-> probed, corpus |-> corpus]
NoEntry == Entry([count |-> 0, id |-> 0, at |-> 0], Empty, Empty)
IsEntry(e) == e.sig.at \in Nat /\ e.probed \in Version /\ e.corpus \in Version

\* A transaction has proposed rows of document d; positions under the lock.
Open(d) == (d \in Uploads /\ job[d] = "replace") \/ d \in mig.laws
Locked  == {"recheck", "sign", "read", "store"}

\* Types; rows are drafted exactly while their transaction is open, and exactly
\* one thread, the holder, is between taking and releasing _cache_lock.
TypeOK ==
    /\ rows \in Version /\ draft \in Version
    /\ \A d \in Docs : draft[d] # <<>> <=> Open(d)
    /\ stamp \in [Docs -> Nat]
    /\ gone \subseteq Docs
    /\ nextId \in Nat /\ clock \in Nat
    /\ job \in [Uploads -> {"idle", "status", "replace"}]
    /\ began \in [Uploads -> Nat]
    /\ mig \in [at : Nat, laws : SUBSET Laws]
    /\ \A e \in cache : IsEntry(e)
    /\ holder \in Threads \cup {NoThread}
    /\ \A t \in Threads : holder = t <=> pos[t] \in Locked
    /\ DOMAIN found = Threads /\ \A t \in Threads : IsEntry(found[t])
    /\ pos \in [Threads -> {"idle", "probe", "lookup", "wait", "recheck", "sign",
                            "read", "store", "done"}]
    /\ unsettled \subseteq Docs /\ latest \in Nat
    /\ seen \in [Threads -> SUBSET Docs]

Init ==
    /\ rows = Empty /\ draft = Empty
    /\ stamp = [d \in Docs |-> 0]
    /\ gone = {}
    /\ nextId = 0 /\ clock = 0
    /\ job = [d \in Uploads |-> "idle"]
    /\ began = [d \in Uploads |-> 0]
    /\ mig = [at |-> 0, laws |-> {}]
    /\ cache = {}
    /\ holder = NoThread
    /\ pos = [t \in Threads |-> "idle"]
    /\ found = [t \in Threads |-> NoEntry]
    /\ unsettled = {} /\ latest = 0
    /\ seen = [t \in Threads |-> {}]
-----------------------------------------------------------------------------
(* The writers.                                                            *)

\* ON CONFLICT (doc_id, seq) keeps the id of a row; every proposed row draws one.
Upsert(old, new) ==
    [i \in DOMAIN new |-> [id   |-> IF i \in DOMAIN old THEN old[i].id ELSE nextId + i,
                           text |-> new[i]]]

\* Documents D are written: no search may still expect what they held before.
Written(D) == seen' = [t \in Threads |-> seen[t] \ D]

\* A transaction commits updated_at = at.
Stamped(at) == latest' = IF at > latest THEN at ELSE latest

\* set_document_status: its transaction takes now() as it begins ...
BeginStatus(d) ==
    /\ d \notin gone /\ job[d] = "idle"
    /\ clock < MaxClock
    /\ clock' = clock + 1
    /\ began' = [began EXCEPT ![d] = clock']
    /\ job' = [job EXCEPT ![d] = "status"]
    /\ UNCHANGED <<tables, nextId, draft, mig, readers, history>>

\* ... and updates a row that may be gone by then.
CommitStatus(d) ==
    /\ job[d] = "status"
    /\ job' = [job EXCEPT ![d] = "idle"]
    /\ stamp' = [stamp EXCEPT ![d] = IF d \in gone THEN @ ELSE began[d]]
    /\ began' = [began EXCEPT ![d] = 0]
    /\ Stamped(stamp'[d])
    /\ unsettled' = unsettled \ {d}
    /\ Written({d})
    /\ UNCHANGED <<rows, gone, nextId, clock, draft, mig, readers>>

\* replace_chunks. A job that has stored chunks writes a status before it, or
\* another one, stores chunks again. documents.updated_at is not touched.
BeginReplace(d) ==
    /\ d \notin gone \cup unsettled /\ job[d] = "idle"
    /\ \E x \in Texts :
        /\ nextId + Len(x) <= MaxId
        /\ nextId' = nextId + Len(x)
        /\ draft' = [draft EXCEPT ![d] = Upsert(rows[d], x)]
    /\ job' = [job EXCEPT ![d] = "replace"]
    /\ UNCHANGED <<tables, clock, began, mig, readers, history>>

CommitReplace(d) ==
    /\ job[d] = "replace"
    /\ job' = [job EXCEPT ![d] = "idle"]
    /\ rows' = [rows EXCEPT ![d] = draft[d]]
    /\ draft' = [draft EXCEPT ![d] = <<>>]
    /\ unsettled' = unsettled \cup {d}
    /\ Written({d})
    /\ UNCHANGED <<stamp, gone, nextId, clock, began, mig, readers, latest>>

\* A transaction of the job raises, or the process dies, and it rolls back.
Abort(d) ==
    /\ job[d] # "idle"
    /\ job' = [job EXCEPT ![d] = "idle"]
    /\ began' = [began EXCEPT ![d] = 0]
    /\ draft' = [draft EXCEPT ![d] = <<>>]
    /\ UNCHANGED <<tables, nextId, clock, mig, readers, history>>

\* delete_document, or delete_kb, which takes every document. It waits for the
\* locks of a transaction that has written rows of the document.
Remove(D) ==
    /\ D # {} /\ D \cap gone = {}
    /\ \A d \in D \cap Uploads : job[d] # "replace"
    /\ D \cap mig.laws = {}
    /\ gone' = gone \cup D
    /\ stamp' = [d \in Docs |-> IF d \in D THEN 0 ELSE stamp[d]]
    /\ rows' = [d \in Docs |-> IF d \in D THEN <<>> ELSE rows[d]]
    /\ unsettled' = unsettled \ D
    /\ Written(D)
    /\ UNCHANGED <<writers, readers, latest>>

\* migrate: one transaction, whose now() is that of its first statement.
BeginMigrate ==
    /\ mig.at = 0
    /\ clock < MaxClock
    /\ clock' = clock + 1
    /\ mig' = [mig EXCEPT !.at = clock']
    /\ UNCHANGED <<tables, nextId, job, began, draft, readers, history>>

\* UPSERT_CHUNK_SQL deletes no row that the new text of the law lacks.
UpsertLaw(l) ==
    /\ mig.at # 0
    /\ l \notin mig.laws \cup gone
    /\ \E x \in Texts :
        /\ nextId + Len(x) <= MaxId
        /\ nextId' = nextId + Len(x)
        /\ draft' = [draft EXCEPT ![l] =
               LET new == Upsert(rows[l], x)
               IN  new \o SubSeq(rows[l], Len(new) + 1, Len(rows[l]))]
    /\ mig' = [mig EXCEPT !.laws = @ \cup {l}]
    /\ UNCHANGED <<tables, clock, job, began, readers, history>>

\* Mutant: the migration updates chunk_count and status of a law, not updated_at.
CommitMigrateUnstamped ==
    /\ mig.at # 0
    /\ Laws \subseteq mig.laws \cup gone
    /\ rows' = [d \in Docs |-> IF d \in mig.laws THEN draft[d] ELSE rows[d]]
    /\ draft' = [d \in Docs |-> IF d \in mig.laws THEN <<>> ELSE draft[d]]
    /\ mig' = [at |-> 0, laws |-> {}]
    /\ Stamped(mig.at)
    /\ unsettled' = IF mig.at > latest THEN unsettled \ mig.laws
                                       ELSE unsettled \cup mig.laws
    /\ Written(mig.laws)
    /\ UNCHANGED <<stamp, gone, nextId, clock, job, began, readers>>

\* The laws are stamped with the time the migration began: when a status write
\* was committed since, they are older than what the fingerprint shows already.
CommitMigrate ==
    /\ mig.at # 0
    /\ Laws \subseteq mig.laws \cup gone
    /\ rows' = [d \in Docs |-> IF d \in mig.laws THEN draft[d] ELSE rows[d]]
    /\ stamp' = [d \in Docs |-> IF d \in mig.laws THEN mig.at ELSE stamp[d]]
    /\ draft' = [d \in Docs |-> IF d \in mig.laws THEN <<>> ELSE draft[d]]
    /\ mig' = [at |-> 0, laws |-> {}]
    /\ Stamped(mig.at)
    /\ unsettled' = IF mig.at > latest THEN unsettled \ mig.laws
                                       ELSE unsettled \cup mig.laws
    /\ Written(mig.laws)
    /\ UNCHANGED <<gone, nextId, clock, job, began, readers>>

AbortMigrate ==
    /\ mig.at # 0
    /\ mig' = [at |-> 0, laws |-> {}]
    /\ draft' = [d \in Docs |-> IF d \in mig.laws THEN <<>> ELSE draft[d]]
    /\ UNCHANGED <<tables, nextId, clock, job, began, readers, history>>
-----------------------------------------------------------------------------
(* _bm25_for in a search thread. Each probe and each read of the corpus is *)
(* a transaction of its own.                                               *)

At(t, here, there) == pos[t] = here /\ pos' = [pos EXCEPT ![t] = there]

Start(t) ==
    /\ pos[t] \in {"idle", "done"}
    /\ pos' = [pos EXCEPT ![t] = "probe"]
    /\ found' = [found EXCEPT ![t] = NoEntry]
    /\ seen' = [seen EXCEPT ![t] = Docs \ (unsettled \cup gone)]
    /\ UNCHANGED <<tables, writers, cache, holder, unsettled, latest>>

Probe(t) ==
    /\ At(t, "probe", "lookup")
    /\ found' = [found EXCEPT ![t] = Entry(Signature, Empty, Empty)]
    /\ UNCHANGED <<tables, writers, cache, holder, history>>

\* Mutant: an entry of the cache is taken whatever its fingerprint.
LookupUnchecked(t) ==
    /\ \/ \E e \in cache :
           /\ At(t, "lookup", "done")
           /\ found' = [found EXCEPT ![t] = e]
       \/ /\ cache = {}
          /\ At(t, "lookup", "wait")
          /\ found' = [found EXCEPT ![t] = NoEntry]
    /\ UNCHANGED <<tables, writers, cache, holder, history>>

\* A dict read without the lock.
Lookup(t) ==
    /\ \/ \E e \in cache :
           /\ e.sig = found[t].sig
           /\ At(t, "lookup", "done")
           /\ found' = [found EXCEPT ![t] = e]
       \/ /\ \A e \in cache : e.sig # found[t].sig
          /\ At(t, "lookup", "wait")
          /\ found' = [found EXCEPT ![t] = NoEntry]
    /\ UNCHANGED <<tables, writers, cache, holder, history>>

Enter(t) ==
    /\ holder = NoThread
    /\ At(t, "wait", "recheck")
    /\ holder' = t
    /\ UNCHANGED <<tables, writers, cache, found, history>>

\* Under the lock: another thread may have rebuilt the entry meanwhile.
Recheck(t) ==
    /\ \/ \E e \in cache :
           /\ e.sig = Signature
           /\ At(t, "recheck", "done")
           /\ found' = [found EXCEPT ![t] = e]
           /\ holder' = NoThread
       \/ /\ \A e \in cache : e.sig # Signature
          /\ At(t, "recheck", "sign")
          /\ UNCHANGED <<found, holder>>
    /\ UNCHANGED <<tables, writers, cache, history>>

\* The fingerprint of the entry to be built; `probed` records what it is of.
Sign(t) ==
    /\ At(t, "sign", "read")
    /\ found' = [found EXCEPT ![t] = Entry(Signature, rows, Empty)]
    /\ UNCHANGED <<tables, writers, cache, holder, history>>

\* An index over no chunk at all divides by zero in BM25Okapi: it raises (Fail).
Read(t) ==
    /\ At(t, "read", "store")
    /\ rows # Empty
    /\ found' = [found EXCEPT ![t] = Entry(@.sig, @.probed, rows)]
    /\ UNCHANGED <<tables, writers, cache, holder, history>>

Store(t) ==
    /\ At(t, "store", "done")
    /\ cache' = {found[t]}
    /\ holder' = NoThread
    /\ UNCHANGED <<tables, writers, found, history>>

\* Mutant: the lock is released after the index is built, but not on the way out
\* of an exception (acquire and release in place of `with`).
FailHolding(t) ==
    /\ pos[t] \in {"probe", "recheck", "sign", "read"}
    /\ pos' = [pos EXCEPT ![t] = "idle"]
    /\ found' = [found EXCEPT ![t] = NoEntry]
    /\ seen' = [seen EXCEPT ![t] = {}]
    /\ UNCHANGED <<tables, writers, cache, holder, unsettled, latest>>

\* A query raises: the `with` block releases the lock, the search fails.
Fail(t) ==
    /\ pos[t] \in {"probe", "recheck", "sign", "read"}
    /\ pos' = [pos EXCEPT ![t] = "idle"]
    /\ holder' = IF holder = t THEN NoThread ELSE holder
    /\ found' = [found EXCEPT ![t] = NoEntry]
    /\ seen' = [seen EXCEPT ![t] = {}]
    /\ UNCHANGED <<tables, writers, cache, unsettled, latest>>

\* The server is started again with an empty cache. The migration, a process of
\* its own, goes on.
Restart ==
    /\ cache' = {} /\ holder' = NoThread
    /\ pos' = [t \in Threads |-> "idle"]
    /\ found' = [t \in Threads |-> NoEntry]
    /\ seen' = [t \in Threads |-> {}]
    /\ job' = [d \in Uploads |-> "idle"]
    /\ began' = [d \in Uploads |-> 0]
    /\ draft' = [d \in Docs |-> IF d \in Uploads THEN <<>> ELSE draft[d]]
    /\ UNCHANGED <<tables, nextId, clock, mig, unsettled, latest>>
-----------------------------------------------------------------------------
Search(t) ==
    \/ Start(t) \/ Probe(t) \/ Lookup(t) \/ Enter(t) \/ Recheck(t)
    \/ Sign(t) \/ Read(t) \/ Store(t) \/ Fail(t)

Write ==
    \/ \E d \in Uploads : \/ BeginStatus(d) \/ CommitStatus(d) \/ Abort(d)
                          \/ BeginReplace(d) \/ CommitReplace(d)
    \/ \E d \in Docs : Remove({d})
    \/ Remove(Docs \ gone)
    \/ BeginMigrate \/ CommitMigrate \/ AbortMigrate
    \/ \E l \in Laws : UpsertLaw(l)

Next == Write \/ Restart \/ \E t \in Threads : Search(t)

Spec == Init /\ [][Next]_vars
-----------------------------------------------------------------------------
\* While its fingerprint matches, the index holds the current chunks of every
\* document that exists and whose chunks an updated_at accounts for, whatever
\* order the other documents are stamped in (retriever.py:61-67,
\* vectorstore.py:66-71).
CurrentWhenMatched ==
    \A e \in cache : e.sig = Signature =>
        \A d \in Docs \ (gone \cup unsettled) : e.corpus[d] = rows[d]

\* ... and nothing else, if no write was committed between the probe and the
\* read of the corpus that it was built from, and no document awaits a stamp.
ExactUnlessRaced ==
    \A e \in cache :
        /\ e.sig = Signature /\ e.probed = e.corpus
        /\ \A d \in unsettled : e.corpus[d] = rows[d]
        => e.corpus = rows

\* A search sees what was settled when it began: an upload that shows as ready
\* is retrieved by the next question, on whichever path the entry is obtained.
SeesSettled ==
    \A t \in Threads : pos[t] = "done" =>
        \A d \in seen[t] : found[t].corpus[d] = rows[d]

\* "Deleting takes effect without a restart" (docs/decisions/12:11): when the
\* fingerprint matches, the index holds no chunk of a deleted document.
NoGhosts ==
    \A e \in cache : e.sig = Signature /\ unsettled = {} =>
        \A d \in gone : e.corpus[d] = <<>>

\* "Rewritten in place, id unchanged: documents.updated_at changes", for all three
\* write paths, the migration among them (docs/decisions/12:53-56): when the
\* fingerprint matches, the index holds the laws as they were last migrated.
MigrationShows ==
    \A e \in cache : e.sig = Signature =>
        \A l \in Laws \ gone : e.corpus[l] = rows[l]
=============================================================================

---------------------------- MODULE KbPipeline ----------------------------
(***************************************************************************)
(* The knowledge-base write path: the upload endpoint (app/api/kb_routes), *)
(* the background pipeline (app/kb/pipeline.run) and the data layer they   *)
(* both write through (app/kb/store), at the grain of one PostgreSQL       *)
(* transaction per step.                                                   *)
(*                                                                         *)
(* Three kinds of process interleave:                                      *)
(*   - the `async def` handlers, which run on ONE event loop: between two  *)
(*     awaits a handler excludes every other handler (LoopFree);           *)
(*   - one pipeline job per document, in the threadpool that Starlette's   *)
(*     BackgroundTasks uses, excluded by nothing but row locks;            *)
(*   - the environment: a database call that raises (the pool times out,   *)
(*     the connection drops) and the death of the process.                 *)
(* READ COMMITTED gives each statement a snapshot of what was committed    *)
(* when the statement began; that is what the two-step recounts are for.   *)
(***************************************************************************)
EXTENDS Naturals, Sequences, FiniteSets

CONSTANTS
    Kbs,          \* ids of knowledge bases (kb.id; serial, never reused)
    Docs,         \* upload attempts; the attempt that registers a document
                  \* lends its name to documents.id and to the temp file
    Pieces,       \* contents a chunk can have
    Texts,        \* the piece sequences split_document can return for a file
    Unreadable,   \* a file parse_file raises on (scanned PDF, broken docx)
    MaxRuns,      \* runs of the pipeline over one document: the API starts
                  \* one, tests/test_pipeline.py:225-272 start a second
    MaxFaults,    \* bound on database calls that raise
    MaxCrashes    \* bound on deaths of the process

\* A body has at most MAX_UPLOAD_BYTES, so the seq of a piece is bounded.
ASSUME DataAssumption ==
    /\ IsFiniteSet(Docs)
    /\ Texts \subseteq Seq(Pieces)
    /\ IsFiniteSet(UNION {DOMAIN f : f \in Texts})
    /\ Unreadable \notin Texts
ASSUME BoundAssumption == MaxRuns \in Nat /\ MaxFaults \in Nat /\ MaxCrashes \in Nat

VARIABLES
    kb,           \* [Kbs -> "absent" | "live" | "deleted"]    table kb
    kbCount,      \* [Kbs -> [docs, chunks]]   kb.doc_count, kb.chunk_count
    status,       \* [Docs -> documents.status, or "absent" without a row]
    kbOf,         \* [Docs -> Kbs]                   documents.kb_id
    chunkCount,   \* [Docs -> Nat]                   documents.chunk_count
    rows,         \* [Docs -> Seq(row)]  the committed chunks, by seq (1..n)
    up,           \* [Docs -> upload handler's position]
    file,         \* [Docs -> what the temp file holds]
    tmp,          \* the temp files on disk
    pc,           \* [Docs -> position of the document's pipeline job]
    vecs,         \* [Docs -> the job's vectors, one per piece]
    del,          \* [Docs -> position of a DELETE /kb/documents/{id} call]
    snap,         \* [Docs -> counts an open transaction has read for the kb]
    runs,         \* [Docs -> pipeline runs started]
    faults, crashes

tables == <<kb, kbCount, status, kbOf, chunkCount, rows>>
jobs   == <<up, file, tmp, pc, vecs, del, snap, runs>>
vars   == <<tables, jobs, faults, crashes>>

Row      == [content : Pieces, vec : Pieces]   \* vec: the piece it embeds
Counts   == [docs : Nat, chunks : Nat]
InFlight == {"pending", "parsing", "embedding"}
Status   == InFlight \cup {"ready", "failed", "absent"}
JobPos   == {"idle", "load", "mark_parsing", "parse", "embed", "mark_empty",
             "replace", "commit", "mark_ready", "mark_failed", "unlink"}

TypeOK ==
    /\ kb \in [Kbs -> {"absent", "live", "deleted"}]
    /\ kbCount \in [Kbs -> Counts]
    /\ status \in [Docs -> Status]
    /\ kbOf \in [Docs -> Kbs]
    /\ chunkCount \in [Docs -> Nat]
    /\ rows \in [Docs -> Seq(Row)]
    /\ up \in [Docs -> {"idle", "streaming", "done"}]
    /\ file \in [Docs -> Texts \cup {Unreadable}]
    /\ tmp \subseteq Docs
    /\ pc \in [Docs -> JobPos]
    /\ vecs \in [Docs -> Seq(Pieces)]
    /\ del \in [Docs -> {"idle", "commit"}]
    /\ snap \in [Docs -> Counts]
    /\ runs \in [Docs -> Nat]
    /\ faults \in Nat /\ crashes \in Nat
-----------------------------------------------------------------------------
(* What the tables hold.                                                   *)

DocsOf(k) == {d \in Docs : status[d] # "absent" /\ kbOf[d] = k}

\* Identities of the chunk rows of k, when each document d holds rws[d].
ChunkIds(k, rws) == UNION {{<<d, i>> : i \in DOMAIN rws[d]} : d \in DocsOf(k)}

\* The two sub-selects of _sync_counts, for tables in which only the
\* documents in DocsOf(k) \ gone count.
Recount(k, rws, gone) ==
    [docs   |-> Cardinality(DocsOf(k) \ gone),
     chunks |-> Cardinality({c \in ChunkIds(k, rws) : c[1] \notin gone})]

NoCounts == [docs |-> 0, chunks |-> 0]

\* replace_chunks on the rows of one document: drop seq > max_seq, upsert the rest.
DropTail(old, n) == SubSeq(old, 1, IF Len(old) < n THEN Len(old) ELSE n)
Upsert(old, new) == [i \in 1..(IF Len(old) < Len(new) THEN Len(new) ELSE Len(old)) |->
                        IF i \in DOMAIN new THEN new[i] ELSE old[i]]
\* Mutant: the rows beyond the new length are not deleted.
ReplacedKeepingTail(old, new) == Upsert(old, new)
Replaced(old, new) == Upsert(DropTail(old, Len(new)), new)

NewRows(d) == [i \in DOMAIN vecs[d] |-> [content |-> file[d][i], vec |-> vecs[d][i]]]

\* A sync handler body runs to its end on the event loop: no other handler runs.
LoopFree == \A d \in Docs : del[d] = "idle"

\* UPDATE documents ... WHERE id = d touches no row once the document is gone.
SetStatus(d, s) ==
    status' = [status EXCEPT ![d] = IF @ = "absent" THEN @ ELSE s]

Goto(d, label) == pc' = [pc EXCEPT ![d] = label]
-----------------------------------------------------------------------------
Init ==
    /\ kb = [k \in Kbs |-> "absent"]
    /\ kbCount = [k \in Kbs |-> NoCounts]
    /\ status = [d \in Docs |-> "absent"]
    /\ kbOf \in [Docs -> Kbs]
    /\ chunkCount = [d \in Docs |-> 0]
    /\ rows = [d \in Docs |-> <<>>]
    /\ up = [d \in Docs |-> "idle"]
    /\ file = [d \in Docs |-> Unreadable]
    /\ tmp = {}
    /\ pc = [d \in Docs |-> "idle"]
    /\ vecs = [d \in Docs |-> <<>>]
    /\ del = [d \in Docs |-> "idle"]
    /\ snap = [d \in Docs |-> NoCounts]
    /\ runs = [d \in Docs |-> 0]
    /\ faults = 0 /\ crashes = 0
-----------------------------------------------------------------------------
(* The handlers.                                                           *)

CreateKb(k) ==
    /\ LoopFree
    /\ kb[k] = "absent"
    /\ kb' = [kb EXCEPT ![k] = "live"]
    /\ UNCHANGED <<kbCount, status, kbOf, chunkCount, rows, jobs, faults, crashes>>

\* DELETE FROM kb; documents and chunks go with it (ON DELETE CASCADE). It waits
\* for the row locks of a replace_chunks transaction that is still open.
DeleteKb(k) ==
    /\ LoopFree
    /\ kb[k] = "live"
    /\ \A d \in DocsOf(k) : pc[d] # "commit"
    /\ kb' = [kb EXCEPT ![k] = "deleted"]
    /\ status' = [d \in Docs |-> IF d \in DocsOf(k) THEN "absent" ELSE status[d]]
    /\ rows' = [d \in Docs |-> IF d \in DocsOf(k) THEN <<>> ELSE rows[d]]
    /\ UNCHANGED <<kbCount, kbOf, chunkCount, jobs, faults, crashes>>

\* The access check has passed; the handler streams the body to its temp file.
StartUpload(d) ==
    /\ LoopFree
    /\ up[d] = "idle"
    /\ kb[kbOf[d]] = "live"
    /\ up' = [up EXCEPT ![d] = "streaming"]
    /\ \E f \in Texts \cup {Unreadable} : file' = [file EXCEPT ![d] = f]
    /\ tmp' = tmp \cup {d}
    /\ UNCHANGED <<tables, pc, vecs, del, snap, runs, faults, crashes>>

\* 413, 400 on an empty body, 500 on a write error: each unlinks the file first.
RejectUpload(d) ==
    /\ LoopFree
    /\ up[d] = "streaming"
    /\ up' = [up EXCEPT ![d] = "done"]
    /\ tmp' = tmp \ {d}
    /\ UNCHANGED <<tables, file, pc, vecs, del, snap, runs, faults, crashes>>

\* create_document, fetch_kb, add_task, with no await between them.
RegisterUpload(d) ==
    /\ LoopFree
    /\ up[d] = "streaming"
    /\ kb[kbOf[d]] = "live"
    /\ up' = [up EXCEPT ![d] = "done"]
    /\ status' = [status EXCEPT ![d] = "pending"]
    /\ runs' = [runs EXCEPT ![d] = @ + 1]
    /\ Goto(d, "load")
    /\ UNCHANGED <<kb, kbCount, kbOf, chunkCount, rows, file, tmp, vecs, del, snap,
                   faults, crashes>>

\* The kb was deleted while the body streamed in: the INSERT breaks its foreign
\* key and the handler leaves by an exception that no clause catches.
RegisterRefused(d) ==
    /\ LoopFree
    /\ up[d] = "streaming"
    /\ kb[kbOf[d]] # "live"
    /\ up' = [up EXCEPT ![d] = "done"]
    /\ UNCHANGED <<tables, file, tmp, pc, vecs, del, snap, runs, faults, crashes>>

\* create_document raises, or fetch_kb does once the row is committed.
RegisterFault(d) ==
    /\ LoopFree
    /\ up[d] = "streaming"
    /\ faults < MaxFaults
    /\ faults' = faults + 1
    /\ up' = [up EXCEPT ![d] = "done"]
    /\ \/ UNCHANGED status
       \/ kb[kbOf[d]] = "live" /\ status' = [status EXCEPT ![d] = "pending"]
    /\ UNCHANGED <<kb, kbCount, kbOf, chunkCount, rows, file, tmp, pc, vecs, del,
                   snap, runs, crashes>>

\* Mutant: the recount precedes the DELETE.
BeginDeleteCountFirst(d) ==
    /\ LoopFree
    /\ status[d] # "absent"
    /\ pc[d] # "commit"
    /\ del' = [del EXCEPT ![d] = "commit"]
    /\ snap' = [snap EXCEPT ![d] = Recount(kbOf[d], rows, {})]
    /\ UNCHANGED <<tables, up, file, tmp, pc, vecs, runs, faults, crashes>>

\* delete_document, up to its recount of the kb: the row is deleted but not yet
\* committed, and the counts are those of this statement's snapshot. It waits
\* for the row lock of a replace_chunks transaction on the same document.
BeginDelete(d) ==
    /\ LoopFree
    /\ status[d] # "absent"
    /\ pc[d] # "commit"
    /\ del' = [del EXCEPT ![d] = "commit"]
    /\ snap' = [snap EXCEPT ![d] = Recount(kbOf[d], rows, {d})]
    /\ UNCHANGED <<tables, up, file, tmp, pc, vecs, runs, faults, crashes>>

\* Mutant: counts maintained by decrement, which create_document never added to.
CommitDeleteDecrement(d) ==
    /\ del[d] = "commit"
    /\ del' = [del EXCEPT ![d] = "idle"]
    /\ status' = [status EXCEPT ![d] = "absent"]
    /\ rows' = [rows EXCEPT ![d] = <<>>]
    /\ kbCount' = [kbCount EXCEPT ![kbOf[d]].docs = @ - 1]
    /\ snap' = [snap EXCEPT ![d] = NoCounts]
    /\ UNCHANGED <<kb, kbOf, chunkCount, up, file, tmp, pc, vecs, runs, faults, crashes>>

CommitDelete(d) ==
    /\ del[d] = "commit"
    /\ del' = [del EXCEPT ![d] = "idle"]
    /\ status' = [status EXCEPT ![d] = "absent"]
    /\ rows' = [rows EXCEPT ![d] = <<>>]
    /\ kbCount' = [kbCount EXCEPT ![kbOf[d]] = snap[d]]
    /\ snap' = [snap EXCEPT ![d] = NoCounts]
    /\ UNCHANGED <<kb, kbOf, chunkCount, up, file, tmp, pc, vecs, runs, faults, crashes>>

\* The transaction raises and rolls back; the client sees a 500.
DeleteFault(d) ==
    /\ del[d] = "commit"
    /\ faults < MaxFaults
    /\ faults' = faults + 1
    /\ del' = [del EXCEPT ![d] = "idle"]
    /\ snap' = [snap EXCEPT ![d] = NoCounts]
    /\ UNCHANGED <<tables, up, file, tmp, pc, vecs, runs, crashes>>
-----------------------------------------------------------------------------
(* pipeline.run(d). A write to the row of d waits while delete_document    *)
(* holds its lock (RowFree).                                               *)

RowFree(d) == del[d] = "idle"

\* Mutant: a missing document returns before the try whose finally unlinks.
LoadDocumentOutsideTry(d) ==
    /\ pc[d] = "load"
    /\ Goto(d, IF status[d] = "absent" THEN "idle" ELSE "mark_parsing")
    /\ UNCHANGED <<tables, up, file, tmp, vecs, del, snap, runs, faults, crashes>>

LoadDocument(d) ==
    /\ pc[d] = "load"
    /\ Goto(d, IF status[d] = "absent" THEN "unlink" ELSE "mark_parsing")
    /\ UNCHANGED <<tables, up, file, tmp, vecs, del, snap, runs, faults, crashes>>

MarkParsing(d) ==
    /\ pc[d] = "mark_parsing"
    /\ RowFree(d)
    /\ SetStatus(d, "parsing")
    /\ Goto(d, "parse")
    /\ UNCHANGED <<kb, kbCount, kbOf, chunkCount, rows, up, file, tmp, vecs, del,
                   snap, runs, faults, crashes>>

\* parse_file raises ...
ParseFails(d) ==
    /\ pc[d] = "parse"
    /\ file[d] = Unreadable
    /\ Goto(d, "mark_failed")
    /\ UNCHANGED <<tables, up, file, tmp, vecs, del, snap, runs, faults, crashes>>

\* Mutant: no check for a text without pieces.
MarkEmbeddingUnchecked(d) ==
    /\ pc[d] = "parse"
    /\ file[d] # Unreadable
    /\ RowFree(d)
    /\ SetStatus(d, "embedding")
    /\ Goto(d, "embed")
    /\ UNCHANGED <<kb, kbCount, kbOf, chunkCount, rows, up, file, tmp, vecs, del,
                   snap, runs, faults, crashes>>

\* ... or returns, and the status moves on before the text is split.
MarkEmbedding(d) ==
    /\ pc[d] = "parse"
    /\ file[d] # Unreadable
    /\ RowFree(d)
    /\ SetStatus(d, "embedding")
    /\ Goto(d, IF file[d] = <<>> THEN "mark_empty" ELSE "embed")
    /\ UNCHANGED <<kb, kbCount, kbOf, chunkCount, rows, up, file, tmp, vecs, del,
                   snap, runs, faults, crashes>>

\* Mutant: the early return forgets the status.
MarkEmptySilent(d) ==
    /\ pc[d] = "mark_empty"
    /\ RowFree(d)
    /\ Goto(d, "unlink")
    /\ UNCHANGED <<tables, up, file, tmp, vecs, del, snap, runs, faults, crashes>>

\* No piece to store: `failed`, and return.
MarkEmpty(d) ==
    /\ pc[d] = "mark_empty"
    /\ RowFree(d)
    /\ SetStatus(d, "failed")
    /\ Goto(d, "unlink")
    /\ UNCHANGED <<kb, kbCount, kbOf, chunkCount, rows, up, file, tmp, vecs, del,
                   snap, runs, faults, crashes>>

\* doc_embedded, the reuse of vectors by (seq, content_hash), and embed() for
\* the rest. A row with the same content at the same seq lends its vector.
Vectors(d) ==
    [i \in DOMAIN file[d] |->
        IF i \in DOMAIN rows[d] /\ rows[d][i].content = file[d][i]
        THEN rows[d][i].vec
        ELSE file[d][i]]

Embed(d) ==
    /\ pc[d] = "embed"
    /\ vecs' = [vecs EXCEPT ![d] = Vectors(d)]
    /\ Goto(d, "replace")
    /\ UNCHANGED <<tables, up, file, tmp, del, snap, runs, faults, crashes>>

\* Mutant: a provider that is down is only logged.
EmbedFailsSilently(d) ==
    /\ pc[d] = "embed"
    /\ Goto(d, "unlink")
    /\ UNCHANGED <<tables, up, file, tmp, vecs, del, snap, runs, faults, crashes>>

\* build_embedder or embed() raises (no key, the provider is down).
EmbedFails(d) ==
    /\ pc[d] = "embed"
    /\ Goto(d, "mark_failed")
    /\ UNCHANGED <<tables, up, file, tmp, vecs, del, snap, runs, faults, crashes>>

\* Mutant: chunks.document_id without its foreign key.
BeginReplaceUnreferenced(d) ==
    /\ pc[d] = "replace"
    /\ RowFree(d)
    /\ Goto(d, "commit")
    /\ snap' = [snap EXCEPT ![d] =
            Recount(kbOf[d], [rows EXCEPT ![d] = Replaced(@, NewRows(d))], {})]
    /\ UNCHANGED <<tables, up, file, tmp, vecs, del, runs, faults, crashes>>

\* Mutant: the recount precedes the writing of the rows.
BeginReplaceCountFirst(d) ==
    /\ pc[d] = "replace"
    /\ RowFree(d)
    /\ IF status[d] = "absent"
       THEN Goto(d, "mark_failed") /\ UNCHANGED snap
       ELSE /\ Goto(d, "commit")
            /\ snap' = [snap EXCEPT ![d] = Recount(kbOf[d], rows, {})]
    /\ UNCHANGED <<tables, up, file, tmp, vecs, del, runs, faults, crashes>>

\* replace_chunks up to the recount of the kb: the new rows are written but not
\* committed, so the recount sees them and, of every other document, only what
\* is committed now. Without its documents row the INSERT breaks a foreign key.
BeginReplace(d) ==
    /\ pc[d] = "replace"
    /\ RowFree(d)
    /\ IF status[d] = "absent"
       THEN Goto(d, "mark_failed") /\ UNCHANGED snap
       ELSE /\ Goto(d, "commit")
            /\ snap' = [snap EXCEPT ![d] =
                    Recount(kbOf[d], [rows EXCEPT ![d] = Replaced(@, NewRows(d))], {})]
    /\ UNCHANGED <<tables, up, file, tmp, vecs, del, runs, faults, crashes>>

\* Mutant: documents.chunk_count is left to set_document_status.
CommitReplaceUncounted(d) ==
    /\ pc[d] = "commit"
    /\ rows' = [rows EXCEPT ![d] = Replaced(@, NewRows(d))]
    /\ kbCount' = [kbCount EXCEPT ![kbOf[d]] = snap[d]]
    /\ snap' = [snap EXCEPT ![d] = NoCounts]
    /\ Goto(d, "mark_ready")
    /\ UNCHANGED <<kb, status, kbOf, chunkCount, up, file, tmp, vecs, del, runs,
                   faults, crashes>>

CommitReplace(d) ==
    /\ pc[d] = "commit"
    /\ rows' = [rows EXCEPT ![d] = Replaced(@, NewRows(d))]
    /\ chunkCount' = [chunkCount EXCEPT ![d] = Len(rows'[d])]
    /\ kbCount' = [kbCount EXCEPT ![kbOf[d]] = snap[d]]
    /\ snap' = [snap EXCEPT ![d] = NoCounts]
    /\ Goto(d, "mark_ready")
    /\ UNCHANGED <<kb, status, kbOf, up, file, tmp, vecs, del, runs, faults, crashes>>

\* Mutant: `ready` even when the document's last write was rolled back.
MarkFailedAsReady(d) ==
    /\ pc[d] = "mark_failed"
    /\ RowFree(d)
    /\ SetStatus(d, "ready")
    /\ Goto(d, "unlink")
    /\ UNCHANGED <<kb, kbCount, kbOf, chunkCount, rows, up, file, tmp, vecs, del,
                   snap, runs, faults, crashes>>

MarkReady(d) ==
    /\ pc[d] = "mark_ready"
    /\ RowFree(d)
    /\ SetStatus(d, "ready")
    /\ chunkCount' = [chunkCount EXCEPT ![d] = IF status[d] = "absent" THEN @ ELSE Len(file[d])]
    /\ Goto(d, "unlink")
    /\ UNCHANGED <<kb, kbCount, kbOf, rows, up, file, tmp, vecs, del, snap, runs,
                   faults, crashes>>

\* The except clauses.
MarkFailed(d) ==
    /\ pc[d] = "mark_failed"
    /\ RowFree(d)
    /\ SetStatus(d, "failed")
    /\ Goto(d, "unlink")
    /\ UNCHANGED <<kb, kbCount, kbOf, chunkCount, rows, up, file, tmp, vecs, del,
                   snap, runs, faults, crashes>>

\* The finally clause.
Unlink(d) ==
    /\ pc[d] = "unlink"
    /\ tmp' = tmp \ {d}
    /\ Goto(d, "idle")
    /\ vecs' = [vecs EXCEPT ![d] = <<>>]
    /\ UNCHANGED <<tables, up, file, del, snap, runs, faults, crashes>>

\* A database call of the job raises and its transaction rolls back. Inside the
\* try block the except clause follows; inside the except clause, only finally.
JobFault(d) ==
    /\ faults < MaxFaults
    /\ pc[d] \in {"load", "mark_parsing", "parse", "mark_empty", "embed", "replace",
                  "commit", "mark_ready", "mark_failed"}
    /\ pc[d] = "parse" => file[d] # Unreadable
    /\ faults' = faults + 1
    /\ Goto(d, IF pc[d] = "mark_failed" THEN "unlink" ELSE "mark_failed")
    /\ snap' = [snap EXCEPT ![d] = IF pc[d] = "commit" THEN NoCounts ELSE @]
    /\ UNCHANGED <<tables, up, file, tmp, vecs, del, runs, crashes>>

\* run() called again for a document that has been processed, with a new file.
Rerun(d) ==
    /\ pc[d] = "idle" /\ status[d] # "absent" /\ RowFree(d)
    /\ runs[d] \in 1..(MaxRuns - 1)
    /\ runs' = [runs EXCEPT ![d] = @ + 1]
    /\ \E f \in Texts \cup {Unreadable} : file' = [file EXCEPT ![d] = f]
    /\ tmp' = tmp \cup {d}
    /\ Goto(d, "load")
    /\ UNCHANGED <<tables, up, vecs, del, snap, faults, crashes>>

\* The process dies and is started again. lifespan creates the tables and looks
\* at no document: jobs and handlers are gone, open transactions rolled back,
\* temp files stay.
Crash ==
    /\ crashes < MaxCrashes
    /\ crashes' = crashes + 1
    /\ up' = [d \in Docs |-> IF up[d] = "streaming" THEN "done" ELSE up[d]]
    /\ pc' = [d \in Docs |-> "idle"]
    /\ vecs' = [d \in Docs |-> <<>>]
    /\ del' = [d \in Docs |-> "idle"]
    /\ snap' = [d \in Docs |-> NoCounts]
    /\ UNCHANGED <<tables, file, tmp, runs, faults>>
-----------------------------------------------------------------------------
Handler(d) ==
    \/ StartUpload(d) \/ RejectUpload(d)
    \/ RegisterUpload(d) \/ RegisterRefused(d) \/ RegisterFault(d)
    \/ BeginDelete(d) \/ DeleteFault(d)

Step(d) ==
    \/ LoadDocument(d) \/ MarkParsing(d) \/ ParseFails(d) \/ MarkEmbedding(d)
    \/ MarkEmpty(d) \/ Embed(d) \/ EmbedFails(d) \/ BeginReplace(d)
    \/ MarkReady(d) \/ MarkFailed(d) \/ Unlink(d)

\* The two transactions that change chunks and write the counts they have read.
Commit(d) == CommitReplace(d) \/ CommitDelete(d)

Others ==
    \/ \E k \in Kbs : CreateKb(k) \/ DeleteKb(k)
    \/ \E d \in Docs : Handler(d) \/ Step(d) \/ JobFault(d) \/ Rerun(d)
    \/ Crash

Next == Others \/ \E d \in Docs : Commit(d)

Spec == Init /\ [][Next]_vars

\* A thread of the pool runs to its end, and a sync section of a handler does:
\* nothing the client does can hold them up. What clients do is not fair.
Fairness ==
    /\ \A d \in Docs : WF_vars(Step(d) \/ CommitReplace(d))
    /\ \A d \in Docs : WF_vars(CommitDelete(d))

FairSpec == Spec /\ Fairness
-----------------------------------------------------------------------------
Contents(d) == [i \in DOMAIN rows[d] |-> rows[d][i].content]

\* The abstract document: registered or not, processed, settled, gone.
Phase(d) ==
    CASE status[d] = "absent" -> IF up[d] = "done" THEN "gone" ELSE "new"
      [] status[d] \in InFlight -> "processing"
      [] OTHER -> status[d]

Index == INSTANCE KbIndex WITH
    phase <- [d \in Docs |-> Phase(d)],
    text <- [d \in Docs |-> Contents(d)]

\* The write path keeps the promise of KbIndex: whatever interleaves, raises or
\* dies, retrieval sees whole texts only, `ready` is never shown over nothing,
\* and a removed document never comes back (pipeline.py:88-90, store.py:239).
ImplementsIndex == Index!Spec
-----------------------------------------------------------------------------
\* The chunks of a document are one whole split of a file it was given, and
\* each vector is that of its own content: no mixture of two runs, no tail of a
\* longer former text, no vector reused for another content (store.py:241-245).
WholeVersion ==
    \A d \in Docs : rows[d] # <<>> =>
        /\ Contents(d) \in Texts
        /\ \A i \in DOMAIN rows[d] : rows[d][i].vec = rows[d][i].content

\* No chunk outlives its document and no document its knowledge base, although
\* a job may still be at work on them (schema.py:62-63, store.py:105-106).
NoOrphans ==
    \A d \in Docs :
        /\ status[d] = "absent" => rows[d] = <<>>
        /\ status[d] # "absent" => kb[kbOf[d]] = "live"

\* documents.chunk_count is the number of chunks of the document whenever it
\* is read, also between the commit of the chunks and the final status.
ChunkCountExact ==
    \A d \in Docs : status[d] # "absent" => chunkCount[d] = Len(rows[d])

\* A document shown as ready has chunks, and they are those of the last file it
\* was given once that file is consumed, unless the write that was to record a
\* failure has failed too (pipeline.py:88-98).
ReadyIsIndexed ==
    \A d \in Docs : status[d] = "ready" =>
        /\ rows[d] # <<>>
        /\ d \notin tmp /\ faults < 2 => Contents(d) = file[d]

\* As long as no database call raises and the process lives, a document that
\* is pending, parsing or embedding has a job at work on it.
InFlightHasJob ==
    faults = 0 /\ crashes = 0 =>
        \A d \in Docs : status[d] \in InFlight => pc[d] # "idle"
-----------------------------------------------------------------------------
\* Unless a database call raises or the process dies, every registered document
\* reaches a final status or is deleted: polling ends (kb_routes.py:101).
EveryUploadSettles ==
    \A d \in Docs : status[d] \in InFlight ~>
        status[d] \notin InFlight \/ faults + crashes > 0

\* A job that was started unlinks its temp file, whatever raises on its way.
TempFileReclaimed == \A d \in Docs : pc[d] # "idle" ~> d \notin tmp \/ crashes > 0
=============================================================================

# A verification project for Labor-Compliance-RAG

The repository is a question-answering service over labour-law knowledge bases:
FastAPI on one event loop, PostgreSQL (READ COMMITTED) behind a pool of eight
connections, a pool of four threads for the answering graph, and Starlette's
own thread pool for background jobs and sync dependencies. Its hard part is not
an algorithm but who may run between whose steps: coroutines between two awaits,
threads, transactions, and a client that leaves or a process that dies in the
middle. The modules model that; TLC checks small instances; TLAPS proves the
main results for all values of the constants.

To check a run: `tlc -config KbPipeline.cfg MCKbPipeline`. To check the proofs
of a module: `tlapm KbProofs.tla`.

## 1. The system

| Part | State | Operations | Meets others through |
|---|---|---|---|
| Write path (`kb_routes`, `kb/pipeline`, `kb/store`, `kb/schema`) | tables kb, documents, chunks; temp files | upload, pipeline run, delete document / knowledge base, reindex | tables; BackgroundTasks threads |
| Retriever (`rag/retriever`, `rag/vectorstore`, `rag/fusion`, ...) | one BM25 index per scope, a lock | search: two lanes, fusion, rerank | tables written by the write path and the migration |
| Chat (`api/routes`, `agent/*`) | queue, ContextVar and job of a request; chat_sessions, chat_messages; guest memory | POST /chat, session lists, history | thread pool, queue, tables |
| Accounts (`api/auth`, `deps`, `admin_routes`) | users, tokens | register, login, roles, disabling | tables, rate limits |
| Limits (`core/ratelimit`) | buckets, failure windows | allow, is_blocked, record_failure, reset | dependencies of the routes |
| Agent (`agent/graph`, `nodes`, `protocol`, `tools/registry`) | state of one question, messages to the model | rewrite, retrieve, answer or refuse | called in the thread pool; retriever; the model provider |
| Pure parts (`kb/splitter`, `tools/compensation`, `eval/metrics`) | none | functions | called by the above |
| Shell (`main`, `core/db`, `core/config`) | pools, lifespan | start, stop | all |
| Scripts (`scripts/*`) | tables | fetch, ingest, migrate, backfill, clean | run by an operator beside the server |

What is hard in it, and what correctness means:

* **Write path.** A job is five or more transactions in a thread, and deletions
  run between them. Chunks must be one whole text with its own vectors, never
  orphans; counts must be right; an upload must settle; `run()` promises never
  to raise.
* **BM25 cache.** Readers without a lock, rebuilds with one, and a fingerprint
  (count, largest id, latest `updated_at`) made of values whose order is not the
  order of commits. A matching fingerprint must mean the current chunks, of each
  document, whatever the others are going through.
* **Chat.** A thread and a coroutine share a queue; threads are reused; clients
  leave at any await. Frames must keep their order, a text must be whole and its
  own, a session must hold answered questions in pairs, and every stream ends.
* **Login limits.** Clock read before the lock; a check and a record in two
  critical sections. Bounds must hold in every interleaving.
* **Accounts.** A check runs in a thread, its handler later on the loop: roles,
  accounts and knowledge bases change in between. Somebody must remain who can
  administrate; whoever lists, opens and searches knowledge bases must follow
  one rule; a session must keep to its subject, the knowledge bases of its first
  question, or go back to the default base. It does so until one of them is
  deleted; then the documents promise the default base, and the code searches what
  the next request names (routes.py:221).
* **A question.** The table changes between the two lanes of a search; a model
  may reply anything, in any number of deltas, for a bounded number of rounds.
  Each tool call must get its result, an answer must be what the model said last,
  an apology where it said nothing, and its marks must have their sources. A model
  that says nothing until the rounds are spent is the exception: see `question_silent`.
* **Built-in corpus.** Fetched pages become articles, chunks and vectors in
  three scripts, beside a running server. No text may move to another article,
  none may be missing after a migration, and a vector of another text must have
  a known reason.
* **Pure parts.** Splitter, law parser, calculator: boundaries and caps.

## 2. Modules

| Module | Models | EXTENDS / uses |
|---|---|---|
| `KbIndex` | abstract: what readers of a knowledge base may rely on | |
| `KbPipeline` | write path, one action per transaction or loop section | refines `KbIndex` |
| `KbCounts` | the recounts of `_sync_counts`, with two history variables | extends `KbPipeline` |
| `Bm25Cache` | one scope of `_bm25_for`, and every writer its fingerprint looks at | |
| `ChatStream` | POST /chat from handler to saved exchange | |
| `LoginThrottle` | bucket and failure window of one address | extends `Lists` |
| `Access` | accounts, checks and handlers, visibility, the scope of questions | |
| `Lists` | the comprehension and `sorted()` of Python | |
| `Search` | `HybridRetriever.search` over a table that changes | extends `Lists` |
| `Question` | the agent graph with the tool-calling loop, around one search | extends `Search` |
| `Corpus` | ingestion, migration, embedding jobs | |
| `LawPage`, `Splitter`, `Compensation` | `parse_document`, `split_document`, `calculate_compensation` as operators, each with its reference | the first two extend `Lists` |
| `PureParts` | their inputs, one behaviour an input | extends these three |
| `MC*` | constants of the instances; `MCKbPipeline`, `MCBm25Cache` and `MCPureParts` also what their runs start from and how far they go | extend the above |
| `*Proofs` | theorems; `KbProofs` for `KbPipeline`, `KbCounts` and `Splitter`, which gives the write path its chunks; `QuestionProofs` for `Search`, `Question` and the tool `Compensation`; `CorpusProofs` for `LawPage` and `Corpus`, from a page to the corpus | extend the above and TLAPS |

No module declares a RECURSIVE operator, so all of them can be proved about.
`Lists` defines by a recursive function and by CHOOSE what `SelectSeq` and
`SetToSortSeq` of the libraries give, because the provers know nothing of those
two; `MCQuestion` assumes that they agree, and TLC evaluates that on small lists.
Definitions whose comment begins with "Mutant" are faulty variants of the
definition below them. They are in no specification; they show that a property
notices a plausible slip there.

The modules meet at the tables. `Write` of `Search` is a commit of
`KbPipeline`; what `Search` calls the BM25 entry is what `Bm25Cache` says of it;
`Say` of `ChatStream` is a piece that `Question` streams; the session rows of
`ChatStream` are the conversations of `Access`. They are checked apart: each
takes from the others only the facts named here.

### KbPipeline

`pc[d]` is where the job of document `d` stands; each label is one transaction
of `pipeline.run`, and `BeginReplace`/`CommitReplace`, `BeginDelete`/
`CommitDelete` split the two transactions whose recount is read before it is
committed. `up[d]` is the upload handler, `del[d]` a delete request. `LoopFree`
says that the loop is not inside another handler's sync section: deletions and
registrations exclude each other, jobs exclude nothing. `Rerun` is a second
`run()` over the same document, which only `tests/test_pipeline.py` makes.
A fault is a database call that raises (`JobFault`, `DeleteFault`,
`RegisterFault`), in the `except` clauses too. `Crash` is the end of the
process and its next start. Which document of an open pair commits first is
free; ids are never reused.

### Bm25Cache

Time is the clock of transactions: `now()` is the time a transaction BEGAN, and
a serial id is drawn when a row is proposed, committed or not; both are
modelled. `Lookup` is the check without the lock, `Enter`..`Store` the rebuild
with it, and the fingerprint (`Sign`) and the corpus (`Read`) are two
transactions. The entry keeps `probed`, the rows at the time of the
fingerprint, as a history value. `unsettled`, `latest` and `seen` are history
variables: the documents whose committed chunks no `updated_at` accounts for, the
latest `updated_at` ever committed, and what was settled when a search began. A
document written by a job is unsettled until its next status write. A migration
commits chunks and stamp at once, but the stamp is the time it began: its laws are
settled if that is later than every stamp committed before, and unsettled, until they
are migrated again, if it is not. The properties speak of the documents that are
settled, whether or not others are.

### ChatStream

`stream[r]` is what the generator of request `r` does when it runs next; every
action of it is one section between two awaits. Requests are numbered in the
order they arrive, and a session has the number of the request that created it.
`queue`, `backlog`, `job` and `sink` are the asyncio.Queue, the FIFO of the
executor, what each thread runs and its ContextVar. A piece of text is its
number and the question it belongs to; that is all the properties compare.
`Disconnect` closes the generator wherever it is suspended, by an exception
that `except Exception` does not catch. The two INSERTs of a save are one action
(no await between them); a fault or a crash may separate them.

### LoginThrottle

Tokens are counted in units of what one tick refills, which replaces floats by
integers. `Arrive` reads the clock, `Admit`/`Refuse` is the critical section of
the bucket, `IsBlocked`, `RecordFailure` and `Succeed` are those of the guard,
on the event loop. `spent` measures one arbitrary interval `From..To`, so that a
bound on it is a bound for every interval.

### Access

A request behind a check takes three steps: `Authenticate` reads the caller's row
in a thread, `Authorise` the knowledge base, and the handler does the rest in one
section of the loop, relying on the values read. `stale` remembers that an
administrator's act was carried out for a caller who was none any more.
`beyond` and `first` are history of a conversation: what its latest question
searched that its sender could not see, and what the first one searched. Deleting
a knowledge base sets the `bound` of its conversations to none (ON DELETE SET NULL),
and `AskResume` then resolves what the request wants, as routes.py:221 does.
Whoever has an account keeps a usable token.

### Search and Question

A lane is any ranking of the chunks the table has at that moment, the reranker
any function to a few scores; fusion is exact, its fractions made whole by
`Scale` (`Share` is 1/(k + position), `Precedes` the stable sort behind the
reranker). `Question` runs the graph around one search. A text is a sequence of
pieces from `Words`, and `Mark[i]` is the piece that cites source i: the model
only needs that marks differ from each other and from the two fixed texts, and
that there are as many as hits. `Reply` is one round of
the tool loop; `ReplyStreamed` puts it together from deltas, in which a call
comes in pieces by slot. `Raise` is any exception, which ends in the error frame of
`ChatStream`.

### Corpus

A vector is the text it was computed from. `MigrateLaw` reads law after law
within the migration's transaction, `CommitMigrate` makes its rows visible;
meanwhile embedding jobs (reindex and backfill do the same) read, compute and
write, laws are ingested, documents uploaded and deleted. The row of the default
base is locked from the first statement on, so whatever recounts waits.
`unforced`, `overtaken` and `changed` are history variables: why a chunk may
carry the vector of another text. So are two fields of `mig`: `calm`, nothing else
was committed since the migration began, and `embed`, it was run without --skip-embed.

### LawPage, Splitter, Compensation, PureParts

Paragraphs and characters are what the code tells apart, with their place for
identity, so that "nothing lost, nothing doubled, nothing moved" can be said.
A character of `Splitter` is one that stripping does not
touch: the whitespace that is stripped from a text and from the parts of a cut
(splitter.py:96, 102) is left out, and so is whether it is lost. `Belongs` says without a loop which paragraphs an article has, `ChunksFaithfulTo`
what a chunk is without the algorithm, `SoundFor` what article 47 asks without
its formula. Money is counted in half months and half yuan.

## 3. Runs

| Run | Instance | What it shows |
|---|---|---|
| `kb_pipeline` | 2 documents of one knowledge base, texts of 0, 1 and 2 pieces; one of them alone with 3 runs, 2 faults and 1 crash, both together with one second run, fault or crash | stored text is one whole text with its own vectors; nothing orphaned; `chunk_count` exact; `ready` means indexed; the total of the knowledge base is wrong only after a recount that another commit has overtaken; refinement of `KbIndex`; uploads settle; temp files go |
| `bm25_cache` | 1 upload, 1 law and 2 threads from empty tables on; 2 uploads and 1 law stored already, with a rewrite, the migration and 2 stamps | a match means the current chunks of every settled document, in whatever order stamps are committed; nothing else unless a commit fell between the two reads; a search sees what was settled when it began |
| `chat_stream` | 3 requests, 2 threads, 1 piece, 1 fault, 1 crash | order of frames, whole texts, pairs in sessions, history and streams agree |
| `chat_live` | 2 requests, 1 thread, 2 pieces, 1 fault, 1 crash | no stream is left waiting |
| `login_throttle` | 3 requests of one address | admission bound, failure bound, bounded debt |
| `access` | 3 users, 2 knowledge bases, 3 requests, 1 conversation | an administrator remains unless two act at once; lists, checks and search agree; questions stay within what may be seen or the default base, and within their session's subject or the default base unless a base of that subject was deleted |
| `question` | 3 chunks, 2 hits, 2 rounds, 2 calls or deltas a reply; pages of 6 paragraphs, files of 6 characters, 15 years of service | hits were stored and found, and as many as could be; fusion respects agreement; every call is answered in its place; an answer is what the model said last, if it said a word; every mark has its source. A law that passes the assertions is the page's law; chunks keep size, order, heading and every character that is not whitespace; the figure behaves as the law says |
| `corpus` | 2 laws of 1 or 2 articles, 1 job, 2 documents | a vector of another text has one of two reasons; an undisturbed migration leaves every article, with some vector unless embedding was skipped, and right counts |

The pure algorithms keep no state. `question` builds their inputs beside the
question they serve: articles and chunks are what it finds, a compensation what
its tool returns. A behaviour either asks or builds one input (`MCPureParts`).

Four runs are expected to find a violation; each states what a document or a
comment of the repository says:

| Run | Says | Does |
|---|---|---|
| `bm25_ghost` | decisions/12: deleting takes effect without a restart | a document committed between fingerprint and corpus, and deleted later, stays in the index: the old fingerprint matches again |
| `bm25_laws` | decisions/12:53-56: a document that is written again in place moves `updated_at`, on all three write paths | the migration stamps with the time it began; an upload that began later and finished before it has the later stamp already, the fingerprint stays, and the old texts of the laws stay in the index |
| `session_subject` | decisions/11:39: after SET NULL the session falls back to the default base | `bound_kb or req.kb_id` (routes.py:221): the base of the request is searched, or every visible one |
| `question_silent` | decisions/06:105: if the model never said a word, the fixed text is returned | the scan for the last text of an assistant reaches the turns of the conversation that were sent along (protocol.py:437, 532): an old answer is given |

Not every observation has a run:

* A process that dies under a job leaves its document `pending`, `parsing` or
  `embedding` for ever: `lifespan` (main.py:50) looks at no document
  (decisions/16 promises a reason instead of "a silent pending"). The model has
  the behaviour (`Crash`); liveness is stated up to crashes.
* `_MAX_CONTEXT_TURNS = 6` (routes.py:47) is commented as rounds of question and
  answer, and slices messages: three rounds. `Recent` takes messages.
* decisions/16:37-38 calls the recount of counts "simple and absolutely
  correct": two overlapping transactions of one knowledge base miss each other's
  chunks, and the total stays wrong until the next recount (`DriftOnlyByOverlap`
  says exactly when).
* pipeline.py:6-8: `run()` never raises. The write of `failed` inside its
  `except` clauses may (`JobFault` of `KbPipeline`), and the document stays in flight.
* decisions/18:38: five failures block for 60 seconds. The window slides from
  each failure (ratelimit.py:99), so the block ends when the oldest is 60 s old.
* clean_test_data.py:72 says that only the test users are deleted. `username !=
  ALL(victims)` is true of everybody else: the administrator and the real users
  go, with their knowledge bases and sessions, and the test users stay.
* routes.py:171, 200: a failed save must not block answering. The session whose
  first save failed has no messages, and answers 404 when it is resumed.
* `create_document` does not recount, so `kb.doc_count` misses documents in
  flight; `clean_test_data.py:53` deletes knowledge bases by that count.
* Two administrators who demote or disable each other at once can leave nobody
  who administrates (`stale` in `AdminRemains`); decisions/14 rules it out for
  one. `ensure_admin` restores the role at the next start, not `disabled`.
* admin_routes.py:55 says that the token of a disabled user is refused on the
  next request; the chat routes look at the token only (routes.py:209).
* models.py:29 says that a question without `kb_id` goes to the default base: the
  first one searches all visible bases, and binds its session to the smallest id.
* The fallback of the scope is the default base whether public or not, and
  whether or not it exists: nothing protects it (kb_routes.py:140). Once it is
  gone, a user who sees no base cannot open a session (foreign key).
* An index over no chunk divides by zero: a question to an empty knowledge base
  ends in an error frame instead of a refusal.
* `_iter_sse_chunks` skips `[DONE]` where its docstring says it stops there
  (protocol.py:178-190): a stream that breaks off counts as complete.
* Words streamed in a round of tool calls are not part of the final answer. The
  marks of an old answer that `question_silent` ends with point to other
  sources. Arguments that are not JSON raise
  when the reply comes whole (protocol.py:416) and become a tool error when streamed.
* `ingest_laws` upserts: an article that a new version lacks stays. The
  migration keeps the vectors of changed texts unless it is forced, and its
  self-check fails as soon as a document has been uploaded to the default base.
* Section headings ("第二节 ...") are paragraphs like any other to
  `parse_document`, and end up in the text of the article before them (articles 56
  and 67 of the labour contract law in data/raw).
* A salary just above three times the average can give less than one just below
  it, for the years are capped too; `SoundFor` compares on one side only.
* `create_kb` turns a chunk overlap of 0 into the default by `or`
  (kb_routes.py:67-68), which pipeline.py:42 warns against.
* Past its last page, GET /chat/history slices with a negative end
  (routes.py:299): with 60 records, page 3 of 50 repeats the 20 oldest.
* The upload handler leaves its temp file when `create_document` raises
  (kb_routes.py:199); `prune()` (ratelimit.py:47) is never called.
* `rate_limit(30, 1 / 2)` refills one request in two seconds; its comment reads
  as thirty in two seconds (routes.py:202).

### Bounds, and why they are enough

* Texts of different lengths that no mixture of them spells make a partial or a
  wrong replacement visible; the empty one is the file without pieces. Three
  runs let a text shrink and grow; two faults let the `except` clause fail too.
* Drift needs two overlapping transactions on one knowledge base, so two
  documents; a third would repeat one of them. While both are under way, one
  second run, fault or crash at a time (`Bounded` of `MCKbPipeline`); it limits
  no step that fairness speaks of.
* A stale entry needs one write beside one rebuild, a race between the paths
  with and without the lock needs two threads: `FromEmpty`, where two stamps and
  two ids suffice. A stamp that comes late and older than the one shown needs two
  documents that are stored and stamped, one of them rewritten in place, and two
  more stamps: `FromStored`, which has two uploads and a law whose rows, ids and
  times are as their jobs and the migration leave them, and one thread at a time.
  The violation runs of the cache start from empty tables; three stamps are two
  migrations and a status write between them.
* Two threads and three requests: one waits in the pool, one may resume what
  another saves, two may be answered in one session at once. More than one piece
  matters for order only, which `chat_live` and the proofs (any number) cover.
* One slot of guest memory and a context of two messages are filled and
  overflow on three requests; the code has 200 and six.
* The clocks of `LoginThrottle` exceed the window and the time a bucket fills.
* Two users beside the administrator make two administrators who act at once and
  a third who is left; three requests let one change what two have read. Two
  knowledge bases are the default one and another; `session_subject` takes a third,
  which is searched after the second was deleted, and one user.
* Three chunks with two hits make the pool cut, the late chunk and the tie
  happen; two rounds are a round of calls and its end or its exhaustion; two
  deltas split a call. Three marks, two of which may have sources.
* Two laws make a migration be interrupted between them; versions of one and two
  articles make an article change, appear and be left over.
* Six paragraphs hold a table of contents, a chapter, two articles and a footer;
  six characters hold two sections, two sentences and a hard cut for the sizes 3
  to 5; size 1 is the smallest the code accepts.
  15 years pass the cap of twelve months, and the salaries lie around three times
  each average.

Requests, threads and contents are symmetric where a run says so; symmetry is
not used in runs with temporal properties.
`CHECK_DEADLOCK FALSE` everywhere: all bounded counters spent and all requests
answered is a proper end, and a service at rest does nothing.

### Fairness

* `KbPipeline!Fairness`: a job of the thread pool takes its next step, and a
  delete that has read its counts commits. Threads run until their function
  returns. Uploads, deletions, faults and crashes are not fair: clients and
  accidents have no schedule. The properties excuse faults and crashes by name.
* `ChatStream!Fairness`: weak, for each generator and each thread. The loop
  resumes coroutines that are ready. A graph ends because every model call has a
  timeout of 60 s (protocol.py:151, embedder.py:83, reranker.py:69), the pool
  one of 30 s (db.py:38); that a single SQL statement ends is assumed, since none has a
  time limit of its own. In the model a graph ends because `MaxTokens`
  bounds it.

## 4. What is proved

Constants are arbitrary up to the named ASSUMEs; each ASSUME is evaluated by
TLC on the runs. Every safety proof has the form `Init => I`,
`I /\ [Next]_vars => I'`, `I => property`. Every invariant of the passing runs is
a theorem.

* **`ListsProofs`**: lemmas the others rest on. `NaturalInduction` and
  `SequenceInduction` are said of sets, not of predicates, and follow from the
  least element; `Recursion` gives the function that a recursive definition
  names, `RankingExists` the sequence that a sort chooses. On these rest what a
  comprehension keeps and does to `Append`, `Tail` and itself (`FilteredRange`,
  `FilteredEnd`, `FilteredTwice`, ...), that a sort by a strict total order is
  the whole set, each element once (`RankingWhole`), and how a concatenation
  unfolds (`FlattenStep`).
* **`KbProofs`**, `KbPipeline`: `TypeCorrect`, `TextsAreWhole`, `NothingOrphaned`,
  `ChunkCountsExact`, `ReadyMeansIndexed`, `JobsAtWork`, and `Refinement`
  (`Spec => ImplementsIndex`). The
  properties are not inductive alone: `JobInv` adds what a job carries between
  two transactions (a file with its vectors, a live document while a transaction
  is open). `ReplacedIsNew` shows that dropping the tail and upserting the rest
  yields the new rows whatever the old ones were. The refinement maps each action
  to one action of `KbIndex` or a stutter. `Settled` says how a job ends: its
  temp file is there as long as it runs; without a fault it comes to `unlink` in
  a final status; one fault leads to `failed`, and only a second one, while that
  is written, leaves an earlier `ready` over a new file.
* **`KbProofs`**, `KbCounts`: `CountsTypeCorrect`, `DriftNeedsOverlap` with
  `SnapshotsCurrent`: a
  transaction no other commit has overtaken holds the counts that are exact once
  it commits. The proof counts chunk identifiers of unions of disjoint sets.
* **`KbProofs`**, `Splitter`: `SplitsFaithful`, for files of any length, every size
  and every overlap. The only invariant is that a file numbers its characters in
  their order (`Filed`); the rest is what the algorithm does to numbered text. A
  cut loses no character and leaves no empty piece (`CutWhole`), equal parts fit
  (`CutEven`, `HardCutIs`), and so the pieces of a text are its characters, none
  of them too long (`AtomsIs`). `Chain` says what chunks cover: one stretch each,
  each going on where the one before it ends or sharing the overlap at most, none
  ending before it. A piece that joins the last chunk or begins one behind a seed
  keeps it (`MergeCovers`), sections follow one another in it (`DocSplits`), and
  a chain leaves no place out (`ChainWhole`). A heading can only begin a section
  (`SectionsAre`), which makes it the last one before every line of its chunks.
* **`Bm25CacheProofs`**: `TypeCorrect`, `MatchMeansCurrent`, `StaleNeedsRace`,
  `SearchesSeeSettled`. The invariant relates each entry to what has been
  committed since its fingerprint: a later commit left its document unsettled,
  removed it, or brought an `updated_at` later than the fingerprint's, for no
  fingerprint shows a later one than `latest`. `TypeCorrect` says with the types that rows are drafted
  exactly while their transaction is open, and that the lock is held by exactly the
  thread that is between taking and releasing it.
* **`ChatStreamProofs`**: `TypeCorrect`, `FramesOrdered`, `TextsArrive`,
  `PairsKept`, `HistoryTrue`. The invariant `Flow` says that frames, queue and
  pieces produced
  are one numbered sequence, with one result at its end when the graph is over;
  `JobInv` that a job is in the pool once and that its thread has its receiver;
  `SavedInv` that a session holds messages of ended streams only, so that whoever
  saves adds a pair that is not there yet.
* **`LoginThrottleProofs`**: `RateBounded`, `DebtBounded`, by a potential: what
  has been spent in the interval, plus what the bucket could still grant in it,
  never exceeds a full bucket and the refill of the interval, with times in any
  order. `GuessesBounded`: the guard throws times away whenever it looks, so its
  list is, for some moment not later than now, what was young enough at that moment of
  all failures since the last success (`KeptInv`); the one login that stands
  between its check and its record has counted that list at its own time
  (`VerifyInv`), and there is only one such login because the loop is not left in
  between. `TypeCorrect` follows from both invariants.
* **`AccessProofs`**: `TypeCorrect`, `AdministratorRemains`, `OneRuleHolds`,
  `ScopesEntitled`, `SubjectsLostByDeletion`. Two facts make them inductive: whoever sent a
  request has an account (`Senders`), and a session is bound to a knowledge base
  of its first question, or one of those has been deleted (`Bound`). An administrator remains because the actor of
  a fresh check is one, enabled, and is never the target.
* **`CorpusProofs`**: `VectorsHaveReasons`. The invariant says that ids are never
  used again, also not those an open migration has drawn (`DocsInv`, `MigInv`),
  and that a job holds the current text of each chunk it has read, or the chunk
  has been replaced since (`JobInv`); so what it writes is right or recorded.
  `MigrationLeavesAll`: an open migration that nobody has disturbed has done or has
  still to do every ingested law, and what it has read of those done is what they
  are (`UnderWay`); a committed one has left every text as a chunk of its own law,
  with some vector if it has embedded, and exact counters (`Over`), which agree with the self-check because both
  count one set of rows.
* **`CorpusProofs`**, `LawPage`: `PagesFaithful`, from an invariant of the loop
  (`LoopInv`). As long as the loop goes on, the stored articles and the open one
  are those of the titles so far, each with what `Belongs` to it so far and the
  last chapter before its title (`Going`); an article that is not the last one is
  shut, and nothing that follows can belong to it (`Shut`). Where it has stopped,
  what is left of the page belongs to no title it has come to (`Halted`). The
  assertions say that these are all the articles of the law; titles behind the
  footer are neither counted nor stored.
* **`QuestionProofs`**, `Search`: `SearchHitsSound` follows the list from the
  lanes through fusion, cut, filter and rerank: each is the last one, reordered or
  shortened, so the cuts and the chunks missing from the entry are all that can be
  lost. `SearchFusionAgrees` compares
  places and shares: 1/(k + place), rounded down to whole parts, never rises with
  the place, and what falls in neither lane and ties in both is settled by the
  order of insertion.
* **`QuestionProofs`**, `Question`: `CallsAnswered`, `AnswersLastSaid`, `AnswersCited`,
  all from `QuestionInvariant`. Its parts: the messages are answered turns
  (`Answered`), which one round keeps because the results stand right behind
  their calls; once the model has said a word, the last words of an assistant in the
  messages are the last it said in this question (`LastWords`); what was streamed is the concatenation of the replies
  (`Progress`); and an answer is scrubbed by the number of its citations.
* **`QuestionProofs`**, `Compensation`: `CompensationsSound`, by the arithmetic of
  half months (`HalfFacts`: never fewer for longer service, two more for twelve
  months) and of products (`TimesGrows`, `FigureGrows`).

Model-checked only: liveness under fairness (`EveryUploadSettles`,
`TempFileReclaimed`, `EveryStreamEnds`), which is beyond this prover.

## 5. What is not modelled, and why

* Contents: scores of BM25 and vectors, wording of prompts, formats of files and
  frames. The parser appears by its outcomes: text, no text, error.
* PostgreSQL and psycopg are modelled as used: READ COMMITTED statements, row
  locks, commit or rollback, `now()`, sequences.
* Passwords, the signature and expiry of tokens, change_password and the lists
  of the administrator: one row each, read by nothing else that is modelled.
* Answerers and modes that no configuration builds: `LLMAnswerer`, the rule mode
  of `CitationVerifier` (graph.py:73-113 chooses the tool-calling or the template
  answerer, and `pass`). The wording of prompts and rewritten questions.
* Downloading, decoding and numerals of the law pages (`chinese_to_int` is a
  table of digits), `extract_version`, the HNSW index, the deletion of empty
  knowledge bases (the same cascade as `DeleteKb`) and of test users.
* Paging, evaluation metrics, assembly, configuration, CORS, static files, the
  page itself: no state of the service depends on them.

## 6. Plan

1. Composition: the sessions of `ChatStream` under the deletions of `Access`, and
   the migration of `Corpus` against the cache of `Bm25Cache`.
2. What is left of the accounts (password change, expiry) once something
   depends on it.

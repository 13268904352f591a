------------------------------ MODULE KbProofs ------------------------------
(***************************************************************************)
(* Theorems about the write path of the knowledge bases, for every set of  *)
(* documents, knowledge bases and texts and any number of runs, faults and *)
(* crashes: of KbPipeline, that it implements KbIndex among them, and of   *)
(* KbCounts, where the chunk total of a knowledge base can only drift when *)
(* two of its transactions overlap; and about Splitter, from which the     *)
(* write path has its chunks, for every file, size and overlap.            *)
(***************************************************************************)
EXTENDS KbCounts, PureParts, ListsProofs, FiniteSetTheorems, SequenceTheorems, TLAPS

\* What a job carries between its database calls.
JobInv ==
    \A d \in Docs :
        /\ pc[d] \in {"embed", "replace", "commit", "mark_ready"} =>
               file[d] \in Texts \ {<<>>}
        /\ pc[d] \in {"replace", "commit", "mark_ready"} => vecs[d] = file[d]
        /\ pc[d] \in {"parse", "embed", "mark_empty", "replace", "commit", "mark_ready"} =>
               status[d] \in {"parsing", "embedding", "absent"}
        /\ pc[d] = "mark_ready" /\ status[d] # "absent" => Contents(d) = file[d]
        /\ pc[d] = "commit" => status[d] # "absent" /\ del[d] = "idle"
        /\ del[d] = "commit" => status[d] # "absent" /\ pc[d] # "commit"
        /\ status[d] # "absent" \/ pc[d] # "idle" => up[d] = "done"
        /\ up[d] # "done" => chunkCount[d] = 0

IndInv == TypeOK /\ WholeVersion /\ NoOrphans /\ ChunkCountExact /\ JobInv
-----------------------------------------------------------------------------
(* replace_chunks leaves exactly the new rows.                             *)

\* Dropping the tail and upserting the rest yields the new rows, whatever the
\* old ones were (store.py:249-272).
LEMMA ReplacedIsNew ==
    ASSUME NEW S, NEW old \in Seq(S), NEW new \in Seq(S)
    PROVE  Replaced(old, new) = new
<1> DEFINE n == IF Len(old) < Len(new) THEN Len(old) ELSE Len(new)
<1>1. Len(old) \in Nat /\ Len(new) \in Nat /\ DOMAIN new = 1..Len(new)
  BY LenProperties
<1>2. \A i \in 1..n : old[i] \in S
  BY <1>1, ElementOfSeq
<1>3. Len(DropTail(old, Len(new))) = n
  BY <1>1, <1>2, SubSeqProperties DEF DropTail
<1>4. Replaced(old, new) = [i \in 1..Len(new) |-> new[i]]
  BY <1>1, <1>3 DEF Replaced, Upsert
<1>5. new = [i \in 1..Len(new) |-> new[i]]
  BY <1>1, LenProperties
<1> QED
  BY <1>4, <1>5

\* The rows a job writes spell its file, each with the vector of its content.
LEMMA NewRowsSpellFile ==
    ASSUME NEW d \in Docs, file[d] \in Texts, vecs[d] = file[d]
    PROVE  /\ NewRows(d) \in Seq(Row)
           /\ Len(NewRows(d)) = Len(file[d])
           /\ DOMAIN NewRows(d) = DOMAIN file[d]
           /\ \A i \in DOMAIN NewRows(d) :
                 NewRows(d)[i].content = file[d][i] /\ NewRows(d)[i].vec = file[d][i]
           /\ [i \in DOMAIN NewRows(d) |-> NewRows(d)[i].content] = file[d]
<1> DEFINE f == file[d]
           n == Len(f)
<1>1. f \in Seq(Pieces)
  BY DataAssumption
<1>2. n \in Nat /\ DOMAIN f = 1..n /\ f \in [1..n -> Pieces]
  BY <1>1, LenProperties
<1>3. NewRows(d) = [i \in 1..n |-> [content |-> f[i], vec |-> f[i]]]
  BY <1>2 DEF NewRows
<1>4. \A i \in 1..n : [content |-> f[i], vec |-> f[i]] \in Row
  BY <1>2 DEF Row
<1>5. NewRows(d) \in [1..n -> Row]
  BY <1>3, <1>4
<1>6. NewRows(d) \in Seq(Row)
  BY <1>2, <1>5, SeqDef
<1>7. Len(NewRows(d)) = n
  BY <1>2, <1>5, <1>6, LenProperties
<1>8. DOMAIN NewRows(d) = 1..n
  BY <1>3
<1>9. \A i \in 1..n : NewRows(d)[i].content = f[i] /\ NewRows(d)[i].vec = f[i]
  BY <1>3
<1>10. [i \in DOMAIN NewRows(d) |-> NewRows(d)[i].content] = f
  BY <1>2, <1>8, <1>9
<1> QED
  BY <1>2, <1>6, <1>7, <1>8, <1>9, <1>10

\* Recounting yields numbers: a knowledge base has finitely many chunks.
LEMMA RecountType ==
    ASSUME NEW k \in Kbs, NEW rws, NEW gone,
           \A d \in Docs : \A i \in DOMAIN rws[d] : i \in UNION {DOMAIN f : f \in Texts}
    PROVE  Recount(k, rws, gone) \in Counts
<1> DEFINE Seqs == UNION {DOMAIN f : f \in Texts}
           D == DocsOf(k) \ gone
           C == {c \in ChunkIds(k, rws) : c[1] \notin gone}
<1>1. IsFiniteSet(D)
  BY FS_Subset, DataAssumption DEF DocsOf
<1>2. IsFiniteSet(Docs \X Seqs)
  BY FS_Product, DataAssumption
<1>3. C \subseteq Docs \X Seqs
  BY DEF ChunkIds, DocsOf
<1>4. IsFiniteSet(C)
  BY <1>2, <1>3, FS_Subset
<1>5. Cardinality(D) \in Nat /\ Cardinality(C) \in Nat
  BY <1>1, <1>4, FS_CardinalityType
<1> QED
  BY <1>5 DEF Recount, Counts
-----------------------------------------------------------------------------
(* The inductive invariant.                                                *)

\* IndInv holds when nothing exists.
LEMMA InitIndInv == Init => IndInv
  BY EmptySeq DEF Init, IndInv, TypeOK, WholeVersion, NoOrphans, ChunkCountExact,
     JobInv, Counts, NoCounts, Status, InFlight, JobPos

\* Committed rows are numbered within the bound on the length of a split.
LEMMA RowsNumbered ==
    ASSUME TypeOK, WholeVersion
    PROVE  \A d \in Docs : \A i \in DOMAIN rows[d] : i \in UNION {DOMAIN f : f \in Texts}
<1> SUFFICES ASSUME NEW d \in Docs, NEW i \in DOMAIN rows[d]
             PROVE  \E f \in Texts : i \in DOMAIN f
  OBVIOUS
<1>1. rows[d] # <<>>
  BY EmptySeq DEF TypeOK
<1>2. Contents(d) \in Texts
  BY <1>1 DEF WholeVersion
<1>3. DOMAIN Contents(d) = DOMAIN rows[d]
  BY DEF Contents
<1> QED
  BY <1>2, <1>3

\* What a document says depends on its rows only.
LEMMA ContentsFrame ==
    ASSUME NEW d \in Docs, rows'[d] = rows[d]
    PROVE  Contents(d)' = Contents(d)
  BY DEF Contents

\* A step that moves no rows keeps texts whole.
LEMMA WholeFrame ==
    ASSUME WholeVersion, UNCHANGED rows
    PROVE  WholeVersion'
  BY ContentsFrame DEF WholeVersion

\* A document enters the table without a chunk and with the count of none.
LEMMA RegisteredEmpty ==
    ASSUME IndInv, NEW d \in Docs, up[d] # "done", kb[kbOf[d]] = "live",
           UNCHANGED <<rows, chunkCount, kb, kbOf>>,
           status' = [status EXCEPT ![d] = "pending"]
    PROVE  NoOrphans' /\ ChunkCountExact'
<1>1. status[d] = "absent" /\ chunkCount[d] = 0
  BY DEF IndInv, JobInv
<1>2. rows[d] = <<>>
  BY <1>1 DEF IndInv, NoOrphans
<1>3. Len(rows[d]) = 0
  BY <1>2
<1>4. \A e \in Docs : e # d => status'[e] = status[e]
  BY DEF IndInv, TypeOK
<1>5. status'[d] = "pending"
  BY DEF IndInv, TypeOK
<1>6. NoOrphans'
  BY <1>4, <1>5 DEF IndInv, NoOrphans
<1>7. ChunkCountExact'
  BY <1>1, <1>3, <1>4, <1>5 DEF IndInv, ChunkCountExact
<1> QED
  BY <1>6, <1>7

\* A handler keeps IndInv.
LEMMA HandlerKeeps ==
    ASSUME IndInv, NEW d \in Docs, Handler(d)
    PROVE  IndInv'
<1> USE DEF IndInv, tables, jobs
<1>1. CASE StartUpload(d)
  <2> USE <1>1 DEF StartUpload
  <2>1. TypeOK'
    BY DEF TypeOK, Status, InFlight, JobPos, NoCounts, Counts
  <2>2. WholeVersion'
    BY WholeFrame
  <2>3. NoOrphans' /\ ChunkCountExact'
    BY DEF NoOrphans, ChunkCountExact, TypeOK, JobInv
  <2>4. JobInv'
    BY ContentsFrame DEF JobInv, TypeOK
  <2> QED
    BY <2>1, <2>2, <2>3, <2>4
<1>2. CASE RejectUpload(d)
  <2> USE <1>2 DEF RejectUpload
  <2>1. TypeOK'
    BY DEF TypeOK, Status, InFlight, JobPos, NoCounts, Counts
  <2>2. WholeVersion'
    BY WholeFrame
  <2>3. NoOrphans' /\ ChunkCountExact'
    BY DEF NoOrphans, ChunkCountExact, TypeOK, JobInv
  <2>4. JobInv'
    BY ContentsFrame DEF JobInv, TypeOK
  <2> QED
    BY <2>1, <2>2, <2>3, <2>4
<1>3. CASE RegisterUpload(d)
  <2> USE <1>3 DEF RegisterUpload, Goto
  <2>1. TypeOK'
    BY DEF TypeOK, Status, InFlight, JobPos, NoCounts, Counts
  <2>2. WholeVersion'
    BY WholeFrame
  <2>3. NoOrphans' /\ ChunkCountExact'
    <3>1. up[d] # "done"
      OBVIOUS
    <3> QED
      BY <3>1, RegisteredEmpty
  <2>4. JobInv'
    BY ContentsFrame DEF JobInv, TypeOK
  <2> QED
    BY <2>1, <2>2, <2>3, <2>4
<1>4. CASE RegisterRefused(d)
  <2> USE <1>4 DEF RegisterRefused
  <2>1. TypeOK'
    BY DEF TypeOK, Status, InFlight, JobPos, NoCounts, Counts
  <2>2. WholeVersion'
    BY WholeFrame
  <2>3. NoOrphans' /\ ChunkCountExact'
    BY DEF NoOrphans, ChunkCountExact, TypeOK, JobInv
  <2>4. JobInv'
    BY ContentsFrame DEF JobInv, TypeOK
  <2> QED
    BY <2>1, <2>2, <2>3, <2>4
<1>5. CASE RegisterFault(d)
  <2> USE <1>5
  <2>1. CASE status' = status
    <3> USE <2>1 DEF RegisterFault
    <3>1. TypeOK'
      BY DEF TypeOK
    <3>2. WholeVersion'
      BY WholeFrame
    <3>3. NoOrphans' /\ ChunkCountExact'
      BY DEF NoOrphans, ChunkCountExact, TypeOK, JobInv
    <3>4. JobInv'
      BY ContentsFrame DEF JobInv, TypeOK
    <3> QED
      BY <3>1, <3>2, <3>3, <3>4
  <2>2. CASE kb[kbOf[d]] = "live" /\ status' = [status EXCEPT ![d] = "pending"]
    <3> USE <2>2 DEF RegisterFault
    <3>1. TypeOK'
      BY DEF TypeOK, Status, InFlight
    <3>2. WholeVersion'
      BY WholeFrame
    <3>3. NoOrphans' /\ ChunkCountExact'
      <4>1. up[d] # "done"
        OBVIOUS
      <4> QED
        BY <4>1, RegisteredEmpty
    <3>4. JobInv'
      BY ContentsFrame DEF JobInv, TypeOK
    <3> QED
      BY <3>1, <3>2, <3>3, <3>4
  <2> QED
    BY <2>1, <2>2 DEF RegisterFault
<1>6. CASE DeleteFault(d)
  <2> USE <1>6 DEF DeleteFault
  <2>1. TypeOK'
    BY DEF TypeOK, Status, InFlight, JobPos, NoCounts, Counts
  <2>2. WholeVersion'
    BY WholeFrame
  <2>3. NoOrphans' /\ ChunkCountExact'
    BY DEF NoOrphans, ChunkCountExact, TypeOK, JobInv
  <2>4. JobInv'
    BY ContentsFrame DEF JobInv, TypeOK
  <2> QED
    BY <2>1, <2>2, <2>3, <2>4
<1>7. CASE BeginDelete(d)
  <2> USE <1>7 DEF BeginDelete
  <2>1. TypeOK'
    BY RecountType, RowsNumbered DEF TypeOK
  <2>2. WholeVersion'
    BY WholeFrame
  <2>3. NoOrphans' /\ ChunkCountExact'
    BY DEF NoOrphans, ChunkCountExact, TypeOK, JobInv
  <2>4. JobInv'
    BY ContentsFrame DEF JobInv, TypeOK
  <2> QED
    BY <2>1, <2>2, <2>3, <2>4
<1> QED
  BY <1>1, <1>2, <1>3, <1>4, <1>5, <1>6, <1>7 DEF Handler

\* Reused or fresh, the vectors a job collects are those of its pieces: rows
\* with the same content at the same seq carry the vector of that content.
LEMMA VectorsOfFile ==
    ASSUME IndInv, NEW d \in Docs, file[d] \in Texts
    PROVE  Vectors(d) = file[d] /\ file[d] \in Seq(Pieces)
<1>1. file[d] \in Seq(Pieces)
  BY DataAssumption
<1>2. file[d] = [i \in DOMAIN file[d] |-> file[d][i]]
  BY <1>1, LenProperties
<1>3. \A i \in DOMAIN rows[d] : rows[d][i].vec = rows[d][i].content
  <2>1. CASE rows[d] = <<>>
    BY <2>1, EmptySeq, LenProperties DEF IndInv, TypeOK
  <2>2. CASE rows[d] # <<>>
    BY <2>2 DEF IndInv, WholeVersion
  <2> QED
    BY <2>1, <2>2
<1> QED
  BY <1>1, <1>2, <1>3 DEF Vectors

\* The text of a document is as long as its table of chunks.
LEMMA ContentsLen ==
    ASSUME TypeOK, NEW d \in Docs
    PROVE  /\ Len(Contents(d)) = Len(rows[d]) /\ Len(rows[d]) \in Nat
           /\ Contents(d) = <<>> <=> rows[d] = <<>>
<1> DEFINE n == Len(rows[d])
<1>1. n \in Nat /\ DOMAIN rows[d] = 1..n
  BY LenProperties DEF TypeOK
<1>2. Contents(d) = [i \in 1..n |-> rows[d][i].content]
  BY <1>1 DEF Contents
<1>3. Contents(d) \in Seq({rows[d][i].content : i \in 1..n})
  BY <1>1, <1>2
<1>4. Len(Contents(d)) = n
  BY <1>1, <1>2, <1>3
<1>5. Contents(d) = <<>> <=> n = 0
  BY <1>1, <1>3, <1>4, EmptySeq
<1>6. rows[d] = <<>> <=> n = 0
  BY <1>1, EmptySeq DEF TypeOK
<1> QED
  BY <1>1, <1>4, <1>5, <1>6

\* The steps of a job that commit no chunks keep the invariant.
LEMMA StepKeeps ==
    ASSUME IndInv, NEW d \in Docs, Step(d)
    PROVE  IndInv'
<1> USE DEF IndInv, tables, jobs, Goto, SetStatus
<1>1. CASE LoadDocument(d)
  <2> USE <1>1 DEF LoadDocument
  <2>1. TypeOK'
    BY DEF TypeOK, Status, InFlight, JobPos
  <2>2. WholeVersion'
    BY WholeFrame
  <2>3. NoOrphans' /\ ChunkCountExact'
    BY DEF NoOrphans, ChunkCountExact, TypeOK, JobInv
  <2>4. JobInv'
    BY ContentsFrame DEF JobInv, TypeOK
  <2> QED
    BY <2>1, <2>2, <2>3, <2>4
<1>2. CASE MarkParsing(d)
  <2> USE <1>2 DEF MarkParsing
  <2>1. TypeOK'
    BY DEF TypeOK, Status, InFlight, JobPos
  <2>2. WholeVersion'
    BY WholeFrame
  <2>3. NoOrphans' /\ ChunkCountExact'
    BY DEF NoOrphans, ChunkCountExact, TypeOK, JobInv
  <2>4. JobInv'
    BY ContentsFrame DEF JobInv, TypeOK
  <2> QED
    BY <2>1, <2>2, <2>3, <2>4
<1>3. CASE ParseFails(d)
  <2> USE <1>3 DEF ParseFails
  <2>1. TypeOK'
    BY DEF TypeOK, Status, InFlight, JobPos
  <2>2. WholeVersion'
    BY WholeFrame
  <2>3. NoOrphans' /\ ChunkCountExact'
    BY DEF NoOrphans, ChunkCountExact, TypeOK, JobInv
  <2>4. JobInv'
    BY ContentsFrame DEF JobInv, TypeOK
  <2> QED
    BY <2>1, <2>2, <2>3, <2>4
<1>4. CASE MarkEmbedding(d)
  <2> USE <1>4 DEF MarkEmbedding
  <2>1. TypeOK'
    BY DEF TypeOK, Status, InFlight, JobPos
  <2>2. WholeVersion'
    BY WholeFrame
  <2>3. NoOrphans' /\ ChunkCountExact'
    BY DEF NoOrphans, ChunkCountExact, TypeOK, JobInv
  <2>4. JobInv'
    BY ContentsFrame DEF JobInv, TypeOK
  <2> QED
    BY <2>1, <2>2, <2>3, <2>4
<1>5. CASE MarkEmpty(d)
  <2> USE <1>5 DEF MarkEmpty
  <2>1. TypeOK'
    BY DEF TypeOK, Status, InFlight, JobPos
  <2>2. WholeVersion'
    BY WholeFrame
  <2>3. NoOrphans' /\ ChunkCountExact'
    BY DEF NoOrphans, ChunkCountExact, TypeOK, JobInv
  <2>4. JobInv'
    BY ContentsFrame DEF JobInv, TypeOK
  <2> QED
    BY <2>1, <2>2, <2>3, <2>4
<1>6. CASE Embed(d)
  <2> USE <1>6 DEF Embed
  <2>0. Vectors(d) = file[d] /\ file[d] \in Seq(Pieces) /\ file[d] \in Texts \ {<<>>}
    BY VectorsOfFile DEF JobInv
  <2>1. TypeOK'
    BY <2>0 DEF TypeOK, JobPos
  <2>2. WholeVersion'
    BY WholeFrame
  <2>3. NoOrphans' /\ ChunkCountExact'
    BY DEF NoOrphans, ChunkCountExact, TypeOK, JobInv
  <2>4. JobInv'
    BY <2>0, ContentsFrame DEF JobInv, TypeOK
  <2> QED
    BY <2>1, <2>2, <2>3, <2>4
<1>7. CASE EmbedFails(d)
  <2> USE <1>7 DEF EmbedFails
  <2>1. TypeOK'
    BY DEF TypeOK, Status, InFlight, JobPos
  <2>2. WholeVersion'
    BY WholeFrame
  <2>3. NoOrphans' /\ ChunkCountExact'
    BY DEF NoOrphans, ChunkCountExact, TypeOK, JobInv
  <2>4. JobInv'
    BY ContentsFrame DEF JobInv, TypeOK
  <2> QED
    BY <2>1, <2>2, <2>3, <2>4
<1>8. CASE BeginReplace(d)
  <2> DEFINE new == [rows EXCEPT ![d] = Replaced(@, NewRows(d))]
  <2>0. /\ file[d] \in Texts \ {<<>>} /\ vecs[d] = file[d]
        /\ pc[d] = "replace" /\ del[d] = "idle"
    BY <1>8 DEF BeginReplace, RowFree, JobInv
  <2>1. TypeOK'
    <3>1. new[d] = NewRows(d) /\ DOMAIN NewRows(d) = DOMAIN file[d]
      BY <2>0, ReplacedIsNew, NewRowsSpellFile DEF TypeOK
    <3>2. \A e \in Docs : \A i \in DOMAIN new[e] : i \in UNION {DOMAIN f : f \in Texts}
      BY <2>0, <3>1, RowsNumbered DEF TypeOK
    <3>3. Recount(kbOf[d], new, {}) \in Counts
      BY <3>2, RecountType DEF TypeOK
    <3> HIDE DEF new
    <3>4. snap' \in [Docs -> Counts]
      BY <1>8, <3>3 DEF BeginReplace, TypeOK, new
    <3> QED
      BY <1>8, <3>4 DEF BeginReplace, TypeOK, JobPos
  <2>2. WholeVersion'
    BY <1>8, WholeFrame DEF BeginReplace
  <2>3. NoOrphans' /\ ChunkCountExact'
    BY <1>8 DEF BeginReplace, NoOrphans, ChunkCountExact, TypeOK, JobInv
  <2>4. JobInv'
    <3>1. CASE status[d] = "absent"
      BY <1>8, <2>0, <3>1, ContentsFrame DEF BeginReplace, JobInv, TypeOK
    <3>2. CASE status[d] # "absent"
      BY <1>8, <2>0, <3>2, ContentsFrame DEF BeginReplace, JobInv, TypeOK
    <3> QED
      BY <3>1, <3>2
  <2> QED
    BY <2>1, <2>2, <2>3, <2>4
<1>9. CASE MarkReady(d)
  <2> USE <1>9 DEF MarkReady
  <2>0. /\ file[d] \in Seq(Pieces) /\ Len(file[d]) \in Nat
        /\ status[d] # "absent" => Len(file[d]) = Len(rows[d])
    BY ContentsLen, LenProperties, DataAssumption DEF JobInv
  <2>1. TypeOK'
    BY <2>0 DEF TypeOK, Status, InFlight, JobPos
  <2>2. WholeVersion'
    BY WholeFrame
  <2>3. NoOrphans' /\ ChunkCountExact'
    BY <2>0 DEF NoOrphans, ChunkCountExact, TypeOK, JobInv
  <2>4. JobInv'
    BY ContentsFrame DEF JobInv, TypeOK
  <2> QED
    BY <2>1, <2>2, <2>3, <2>4
<1>10. CASE MarkFailed(d)
  <2> USE <1>10 DEF MarkFailed
  <2>1. TypeOK'
    BY DEF TypeOK, Status, InFlight, JobPos
  <2>2. WholeVersion'
    BY WholeFrame
  <2>3. NoOrphans' /\ ChunkCountExact'
    BY DEF NoOrphans, ChunkCountExact, TypeOK, JobInv
  <2>4. JobInv'
    BY ContentsFrame DEF JobInv, TypeOK
  <2> QED
    BY <2>1, <2>2, <2>3, <2>4
<1>11. CASE Unlink(d)
  <2> USE <1>11 DEF Unlink
  <2>1. TypeOK'
    BY DEF TypeOK, Status, InFlight, JobPos
  <2>2. WholeVersion'
    BY WholeFrame
  <2>3. NoOrphans' /\ ChunkCountExact'
    BY DEF NoOrphans, ChunkCountExact, TypeOK, JobInv
  <2>4. JobInv'
    BY ContentsFrame DEF JobInv, TypeOK
  <2> QED
    BY <2>1, <2>2, <2>3, <2>4
<1> QED
  BY <1>1, <1>2, <1>3, <1>4, <1>5, <1>6, <1>7, <1>8, <1>9, <1>10, <1>11 DEF Step

\* A database call of a job that raises keeps the invariant.
LEMMA JobFaultKeeps ==
    ASSUME IndInv, NEW d \in Docs, JobFault(d)
    PROVE  IndInv'
<1> USE DEF IndInv, JobFault, tables, jobs, Goto
<1>1. TypeOK'
  BY DEF TypeOK, JobPos, NoCounts, Counts
<1>2. WholeVersion'
  BY WholeFrame
<1>3. NoOrphans' /\ ChunkCountExact'
  BY DEF NoOrphans, ChunkCountExact, TypeOK, JobInv
<1>4. JobInv'
  BY ContentsFrame DEF JobInv, TypeOK
<1> QED
  BY <1>1, <1>2, <1>3, <1>4

\* A second run over a settled document keeps the invariant.
LEMMA RerunKeeps ==
    ASSUME IndInv, NEW d \in Docs, Rerun(d)
    PROVE  IndInv'
<1> USE DEF IndInv, Rerun, tables, jobs, Goto, RowFree
<1>1. TypeOK'
  BY DEF TypeOK, JobPos
<1>2. WholeVersion'
  BY WholeFrame
<1>3. NoOrphans' /\ ChunkCountExact'
  BY DEF NoOrphans, ChunkCountExact, TypeOK, JobInv
<1>4. JobInv'
  BY ContentsFrame DEF JobInv, TypeOK
<1> QED
  BY <1>1, <1>2, <1>3, <1>4

\* The death of the process keeps the invariant: what is committed stands alone.
LEMMA CrashKeeps ==
    ASSUME IndInv, Crash
    PROVE  IndInv'
<1> USE DEF IndInv, Crash, tables, jobs
<1>1. TypeOK'
  BY EmptySeq DEF TypeOK, JobPos, NoCounts, Counts
<1>2. WholeVersion'
  BY WholeFrame
<1>3. NoOrphans' /\ ChunkCountExact'
  BY DEF NoOrphans, ChunkCountExact, TypeOK, JobInv
<1>4. JobInv'
  BY ContentsFrame DEF JobInv, TypeOK
<1> QED
  BY <1>1, <1>2, <1>3, <1>4

\* Creating a knowledge base, or deleting one with all that hangs on it.
LEMMA KbKeeps ==
    ASSUME IndInv, NEW k \in Kbs, CreateKb(k) \/ DeleteKb(k)
    PROVE  IndInv'
<1> USE DEF IndInv, tables, jobs
<1>1. CASE CreateKb(k)
  <2> USE <1>1 DEF CreateKb
  <2>1. TypeOK'
    BY DEF TypeOK
  <2>2. WholeVersion'
    BY WholeFrame
  <2>3. NoOrphans' /\ ChunkCountExact'
    BY DEF NoOrphans, ChunkCountExact, TypeOK, JobInv
  <2>4. JobInv'
    BY ContentsFrame DEF JobInv, TypeOK
  <2> QED
    BY <2>1, <2>2, <2>3, <2>4
<1>2. CASE DeleteKb(k)
  <2> USE <1>2 DEF DeleteKb
  <2>1. TypeOK'
    BY EmptySeq DEF TypeOK, Status
  <2>2. WholeVersion'
    BY ContentsFrame DEF WholeVersion, TypeOK
  <2>3. NoOrphans' /\ ChunkCountExact'
    BY DEF NoOrphans, ChunkCountExact, TypeOK, JobInv, DocsOf
  <2>4. JobInv'
    BY ContentsFrame DEF JobInv, TypeOK, DocsOf, LoopFree
  <2> QED
    BY <2>1, <2>2, <2>3, <2>4
<1> QED
  BY <1>1, <1>2

\* The two committing transactions keep the invariant.
LEMMA CommitKeeps ==
    ASSUME IndInv, NEW d \in Docs, Commit(d)
    PROVE  IndInv'
<1> USE DEF IndInv
<1>1. CASE CommitReplace(d)
  <2> USE <1>1 DEF CommitReplace, Goto
  <2>0. file[d] \in Texts \ {<<>>} /\ vecs[d] = file[d] /\ status[d] # "absent"
    BY DEF JobInv
  <2>1. /\ NewRows(d) \in Seq(Row)
        /\ Replaced(rows[d], NewRows(d)) = NewRows(d)
    BY <2>0, ReplacedIsNew, NewRowsSpellFile DEF TypeOK
  <2>2. rows' = [rows EXCEPT ![d] = NewRows(d)]
    BY <2>1
  <2>3. Len(NewRows(d)) \in Nat /\ rows'[d] = NewRows(d)
    BY <2>1, <2>2, LenProperties DEF TypeOK
  <2>4. Contents(d)' = file[d]
    BY <2>0, <2>3, NewRowsSpellFile DEF Contents
  <2>5. \A e \in Docs \ {d} : rows'[e] = rows[e] /\ Contents(e)' = Contents(e)
    BY <2>2, ContentsFrame DEF TypeOK
  <2>6. TypeOK'
    BY <2>1, <2>2, <2>3 DEF TypeOK, JobPos, NoCounts, Counts
  <2>7. WholeVersion'
    <3> SUFFICES ASSUME NEW e \in Docs, rows'[e] # <<>>
                 PROVE  /\ Contents(e)' \in Texts
                        /\ \A i \in DOMAIN rows'[e] : rows'[e][i].vec = rows'[e][i].content
      BY DEF WholeVersion
    <3>1. CASE e = d
      <4>1. \A i \in DOMAIN NewRows(d) : NewRows(d)[i].vec = NewRows(d)[i].content
        BY <2>0, NewRowsSpellFile
      <4>2. Contents(d)' \in Texts
        BY <2>0, <2>4
      <4> HIDE <1>1
      <4> QED
        BY <2>3, <3>1, <4>1, <4>2
    <3>2. CASE e # d
      BY <2>5, <3>2 DEF WholeVersion
    <3> QED
      BY <3>1, <3>2
  <2>8. NoOrphans' /\ ChunkCountExact'
    BY <2>0, <2>3, <2>5 DEF NoOrphans, ChunkCountExact, TypeOK
  <2>9. JobInv'
    BY <2>0, <2>4, <2>5 DEF JobInv, TypeOK
  <2> QED
    BY <2>6, <2>7, <2>8, <2>9
<1>2. CASE CommitDelete(d)
  <2> USE <1>2 DEF CommitDelete
  <2>1. TypeOK'
    BY EmptySeq DEF TypeOK, Status, NoCounts, Counts
  <2>2. WholeVersion'
    BY ContentsFrame DEF WholeVersion, TypeOK
  <2>3. NoOrphans' /\ ChunkCountExact'
    BY DEF NoOrphans, ChunkCountExact, TypeOK, JobInv
  <2>4. JobInv'
    BY ContentsFrame DEF JobInv, TypeOK
  <2> QED
    BY <2>1, <2>2, <2>3, <2>4
<1> QED
  BY <1>1, <1>2 DEF Commit

\* IndInv is inductive.
LEMMA NextIndInv == IndInv /\ [Next]_vars => IndInv'
<1> SUFFICES ASSUME IndInv, [Next]_vars PROVE IndInv'
  OBVIOUS
<1>1. CASE Others
  BY <1>1, KbKeeps, HandlerKeeps, StepKeeps, JobFaultKeeps, RerunKeeps, CrashKeeps DEF Others
<1>2. CASE \E d \in Docs : Commit(d)
  BY <1>2, CommitKeeps
<1>3. CASE UNCHANGED vars
  <2> USE <1>3 DEF IndInv, vars, tables, jobs
  <2>1. TypeOK' /\ NoOrphans' /\ ChunkCountExact'
    BY DEF TypeOK, NoOrphans, ChunkCountExact
  <2>2. WholeVersion'
    BY WholeFrame
  <2>3. JobInv'
    BY ContentsFrame DEF JobInv
  <2> QED
    BY <2>1, <2>2, <2>3
<1> QED
  BY <1>1, <1>2, <1>3 DEF Next

\* IndInv holds in every reachable state: the facts the other theorems rest on.
THEOREM Invariance == Spec => []IndInv
  BY InitIndInv, NextIndInv, PTL DEF Spec
-----------------------------------------------------------------------------
\* Every table and every job variable keeps its type (schema.py:25-79).
THEOREM TypeCorrect == Spec => []TypeOK
  BY Invariance, PTL DEF IndInv

\* Retrieval never sees a mixture of two runs, a tail of a longer text or a
\* vector of another content, whatever interleaves, raises or dies.
THEOREM TextsAreWhole == Spec => []WholeVersion
  BY Invariance, PTL DEF IndInv

\* No chunk without its document, no document without its knowledge base.
THEOREM NothingOrphaned == Spec => []NoOrphans
  BY Invariance, PTL DEF IndInv

\* documents.chunk_count is the number of chunks at every moment.
THEOREM ChunkCountsExact == Spec => []ChunkCountExact
  BY Invariance, PTL DEF IndInv
-----------------------------------------------------------------------------
(* KbPipeline implements KbIndex: a step changes the phase or the text of  *)
(* documents the way KbIndex allows, or leaves both alone.                 *)

\* Initially nothing is registered and nothing is indexed.
LEMMA InitRefines == Init => Index!Init
<1> SUFFICES ASSUME Init PROVE Index!Init
  OBVIOUS
<1>1. \A d \in Docs : Contents(d) = <<>>
  BY InitIndInv, ContentsLen DEF Init, IndInv
<1>2. \A d \in Docs : Phase(d) = "new"
  BY DEF Init, Phase, InFlight
<1> QED
  BY <1>1, <1>2 DEF Index!Init

\* A step that leaves the text of each document and the phase of all but d.
LEMMA PhaseStep ==
    ASSUME TypeOK, NEW d \in Docs, UNCHANGED rows,
           \A e \in Docs \ {d} : Phase(e)' = Phase(e),
           \/ Phase(d)' = Phase(d)
           \/ Phase(d) \in {"new", "ready", "failed"} /\ Phase(d)' = "processing"
           \/ Phase(d) = "processing" /\ Phase(d)' = "ready" /\ Contents(d) # <<>>
           \/ Phase(d) \in {"processing", "ready", "failed"} /\ Phase(d)' = "failed"
           \/ Phase(d)' = "gone" /\ Contents(d) = <<>>
    PROVE  [Index!Next]_(Index!vars)
<1> DEFINE ph == [e \in Docs |-> Phase(e)]
           tx == [e \in Docs |-> Contents(e)]
<1>1. tx' = tx
  BY ContentsFrame
<1>2. ph' = [ph EXCEPT ![d] = Phase(d)']
  OBVIOUS
<1>3. CASE Phase(d)' = Phase(d)
  BY <1>1, <1>2, <1>3 DEF Index!vars
<1>4. CASE Phase(d) \in {"new", "ready", "failed"} /\ Phase(d)' = "processing"
  BY <1>1, <1>2, <1>4 DEF Index!Next, Index!Submit
<1>5. CASE Phase(d) = "processing" /\ Phase(d)' = "ready" /\ Contents(d) # <<>>
  BY <1>1, <1>2, <1>5 DEF Index!Next, Index!Finish
<1>6. CASE Phase(d) \in {"processing", "ready", "failed"} /\ Phase(d)' = "failed"
  BY <1>1, <1>2, <1>6 DEF Index!Next, Index!Fail
<1>7. CASE Phase(d)' = "gone" /\ Contents(d) = <<>>
  <2>1. Index!Remove({d})
    BY <1>1, <1>2, <1>7 DEF Index!Remove
  <2> QED
    BY <2>1 DEF Index!Next
<1> QED
  BY <1>3, <1>4, <1>5, <1>6, <1>7

\* A handler registers a document, or changes nothing the index shows.
LEMMA HandlerRefines ==
    ASSUME IndInv, NEW d \in Docs, Handler(d)
    PROVE  [Index!Next]_(Index!vars)
<1> USE DEF IndInv, tables, jobs
<1>1. UNCHANGED rows /\ \A e \in Docs \ {d} : Phase(e)' = Phase(e)
  BY DEF Handler, StartUpload, RejectUpload, RegisterUpload, RegisterRefused,
     RegisterFault, BeginDelete, DeleteFault, Phase, TypeOK
<1>2. status[d] = "absent" => Contents(d) = <<>>
  BY ContentsLen DEF NoOrphans
<1>3. CASE up[d] = "streaming"
  <2>1. status[d] = "absent" /\ Phase(d) = "new"
    BY <1>3 DEF JobInv, Phase, TypeOK, InFlight
  <2>2. Phase(d)' \in {"new", "gone", "processing"}
    BY <1>3, <2>1 DEF Handler, StartUpload, RejectUpload, RegisterUpload, RegisterRefused,
     RegisterFault, BeginDelete, DeleteFault, Phase, TypeOK, InFlight
  <2> QED
    BY <1>1, <1>2, <2>1, <2>2, PhaseStep
<1>4. CASE up[d] # "streaming"
  <2>1. Phase(d)' = Phase(d)
    BY <1>4 DEF Handler, StartUpload, RejectUpload, RegisterUpload, RegisterRefused,
     RegisterFault, BeginDelete, DeleteFault, Phase, TypeOK, JobInv
  <2> QED
    BY <1>1, <2>1, PhaseStep
<1> QED
  BY <1>3, <1>4

\* A step of a job finishes or fails its document, or changes nothing.
LEMMA StepRefines ==
    ASSUME IndInv, NEW d \in Docs, Step(d) \/ JobFault(d) \/ Rerun(d)
    PROVE  [Index!Next]_(Index!vars)
<1> USE DEF IndInv, tables, jobs, Goto, SetStatus, Step, LoadDocument, MarkParsing,
        ParseFails, MarkEmbedding, MarkEmpty, Embed, EmbedFails, BeginReplace,
        MarkReady, MarkFailed, Unlink, JobFault, Rerun
<1>1. UNCHANGED <<rows, up>> /\ \A e \in Docs \ {d} : status'[e] = status[e]
  BY DEF TypeOK
<1>2. \A e \in Docs \ {d} : Phase(e)' = Phase(e)
  BY <1>1 DEF Phase
<1>3. CASE status'[d] = status[d]
  <2>1. Phase(d)' = Phase(d)
    BY <1>1, <1>3 DEF Phase
  <2> QED
    BY <1>1, <1>2, <2>1, PhaseStep
<1>4. CASE status'[d] # status[d]
  <2>1. /\ status[d] \in Status \ {"absent"}
        /\ \/ status'[d] \in {"parsing", "embedding", "failed"}
           \/ /\ pc[d] = "mark_ready"
              /\ status'[d] = "ready" /\ status[d] \in {"parsing", "embedding"}
    BY <1>4 DEF TypeOK, JobInv
  <2>2. status'[d] = "ready" => Contents(d) # <<>>
    BY <2>1 DEF JobInv
  <2>3. /\ Phase(d) = IF status[d] \in InFlight THEN "processing" ELSE status[d]
        /\ Phase(d)' = IF status'[d] \in InFlight THEN "processing" ELSE status'[d]
    BY <2>1 DEF Phase, Status, InFlight
  <2> QED
    BY <1>1, <1>2, <2>1, <2>2, <2>3, PhaseStep DEF Status, InFlight
<1> QED
  BY <1>3, <1>4

\* Without chunks there is no text, before a step and after it.
LEMMA NoRowsNoText ==
    ASSUME NEW d \in Docs
    PROVE  /\ rows[d] = <<>> => Contents(d) = <<>>
           /\ rows'[d] = <<>> => Contents(d)' = <<>>
<1>1. \A r : r = <<>> => [i \in DOMAIN r |-> r[i].content] = <<>>
  <2>1. DOMAIN <<>> = {} /\ <<>> = [i \in {} |-> <<>>[i]]
    BY EmptySeq, LenProperties
  <2> QED
    BY <2>1
<1> QED
  BY <1>1 DEF Contents

\* Several documents leave at once, each of the others keeping phase and text.
LEMMA RemoveStep ==
    ASSUME NEW S \in SUBSET Docs,
           \A e \in S : Phase(e)' = "gone" /\ Contents(e)' = <<>>,
           \A e \in Docs \ S : Phase(e)' = Phase(e) /\ Contents(e)' = Contents(e)
    PROVE  [Index!Next]_(Index!vars)
<1>1. Index!Remove(S)
  BY DEF Index!Remove
<1> QED
  BY <1>1 DEF Index!Next

\* Creating a knowledge base changes nothing; deleting one removes its documents.
LEMMA KbRefines ==
    ASSUME IndInv, NEW k \in Kbs, CreateKb(k) \/ DeleteKb(k)
    PROVE  [Index!Next]_(Index!vars)
<1> USE DEF IndInv, tables, jobs
<1>1. CASE CreateKb(k)
  BY <1>1, RemoveStep, ContentsFrame DEF CreateKb, Phase
<1>2. CASE DeleteKb(k)
  <2> USE <1>2 DEF DeleteKb
  <2>1. \A e \in DocsOf(k) : Phase(e)' = "gone" /\ Contents(e)' = <<>>
    BY NoRowsNoText DEF DocsOf, Phase, JobInv, InFlight, TypeOK
  <2>2. \A e \in Docs \ DocsOf(k) : Phase(e)' = Phase(e) /\ Contents(e)' = Contents(e)
    BY ContentsFrame DEF Phase
  <2> QED
    BY <2>1, <2>2, RemoveStep DEF DocsOf
<1> QED
  BY <1>1, <1>2

\* A crash changes nothing the index shows.
LEMMA CrashRefines ==
    ASSUME IndInv, Crash
    PROVE  [Index!Next]_(Index!vars)
<1> DEFINE S == {e \in Docs : up[e] = "streaming"}
<1> USE DEF IndInv, Crash, tables, jobs
<1>1. \A e \in S : Phase(e)' = "gone" /\ Contents(e)' = <<>>
  BY NoRowsNoText DEF Phase, TypeOK, JobInv, NoOrphans, InFlight
<1>2. \A e \in Docs \ S : Phase(e)' = Phase(e) /\ Contents(e)' = Contents(e)
  BY ContentsFrame DEF Phase, TypeOK
<1> QED
  BY <1>1, <1>2, RemoveStep

\* A commit publishes a text or removes a document.
LEMMA CommitRefines ==
    ASSUME IndInv, NEW d \in Docs, Commit(d)
    PROVE  [Index!Next]_(Index!vars)
<1> USE DEF IndInv
<1>1. CASE CommitReplace(d)
  <2> USE <1>1 DEF CommitReplace, Goto
  <2>1. file[d] \in Texts \ {<<>>} /\ vecs[d] = file[d]
    BY DEF JobInv
  <2>2. rows'[d] = NewRows(d) /\ \A e \in Docs \ {d} : rows'[e] = rows[e]
    BY <2>1, ReplacedIsNew, NewRowsSpellFile DEF TypeOK
  <2>3. /\ Contents(d)' = file[d]
        /\ \A e \in Docs \ {d} : Contents(e)' = Contents(e)
    <3>1. Contents(d)' = file[d]
      BY <2>1, <2>2, NewRowsSpellFile DEF Contents
    <3>2. \A e \in Docs \ {d} : Contents(e)' = Contents(e)
      BY <2>2, ContentsFrame
    <3> QED
      BY <3>1, <3>2
  <2>4. Phase(d) = "processing" /\ \A e \in Docs : Phase(e)' = Phase(e)
    BY DEF JobInv, Phase, InFlight
  <2>5. Index!Publish(d)
    BY <2>1, <2>3, <2>4 DEF Index!Publish
  <2> QED
    BY <2>5 DEF Index!Next
<1>2. CASE CommitDelete(d)
  <2> USE <1>2 DEF CommitDelete
  <2>1. Phase(d)' = "gone" /\ Contents(d)' = <<>>
    BY NoRowsNoText DEF Phase, TypeOK, JobInv, InFlight
  <2>2. \A e \in Docs \ {d} : Phase(e)' = Phase(e) /\ Contents(e)' = Contents(e)
    BY ContentsFrame DEF Phase, TypeOK
  <2> HIDE <1>2
  <2>3. {d} \in SUBSET Docs
    OBVIOUS
  <2> QED
    BY <2>1, <2>2, <2>3, RemoveStep
<1> QED
  BY <1>1, <1>2 DEF Commit

\* Every step is a step of KbIndex or a stutter.
LEMMA NextRefines == IndInv /\ [Next]_vars => [Index!Next]_(Index!vars)
<1> SUFFICES ASSUME IndInv, [Next]_vars PROVE [Index!Next]_(Index!vars)
  OBVIOUS
<1>1. CASE Others
  BY <1>1, KbRefines, HandlerRefines, StepRefines, CrashRefines DEF Others
<1>2. CASE \E d \in Docs : Commit(d)
  BY <1>2, CommitRefines
<1>3. CASE UNCHANGED vars
  BY <1>3, ContentsFrame DEF vars, tables, jobs, Phase, Index!vars
<1> QED
  BY <1>1, <1>2, <1>3 DEF Next

\* The write path implements KbIndex (pipeline.py:88-90, store.py:239).
THEOREM Refinement == Spec => ImplementsIndex
  BY InitRefines, NextRefines, Invariance, PTL DEF Spec, ImplementsIndex, Index!Spec
-----------------------------------------------------------------------------
(* What a document shows at the end of a job.                              *)

\* What ReadyIsIndexed and InFlightHasJob say of d, and what a job at work on d
\* adds to it: its temp file is there; without a fault it comes to `unlink` in a
\* final status; one fault leads to `failed`, the second leaves the status alone.
Settled(d) ==
    /\ status[d] = "ready" => rows[d] # <<>>
    /\ status[d] = "ready" /\ d \notin tmp /\ faults < 2 => Contents(d) = file[d]
    /\ faults = 0 /\ crashes = 0 /\ status[d] \in InFlight => pc[d] # "idle"
    /\ up[d] = "streaming" \/ pc[d] # "idle" => d \in tmp
    /\ pc[d] = "mark_failed" /\ status[d] = "ready" => faults >= 1
    /\ pc[d] = "unlink" /\ status[d] = "ready" /\ faults < 2 => Contents(d) = file[d]
    /\ pc[d] = "unlink" /\ faults = 0 => status[d] \notin InFlight

AllSettled == \A d \in Docs : Settled(d)

\* A step that leaves d alone, faults of others included, leaves it settled.
LEMMA SettledFrame ==
    ASSUME TypeOK, NEW d \in Docs, Settled(d),
           rows'[d] = rows[d], status'[d] = status[d], pc'[d] = pc[d],
           up'[d] = up[d], file'[d] = file[d], d \in tmp' <=> d \in tmp,
           faults' \in {faults, faults + 1}, crashes' = crashes
    PROVE  Settled(d)'
<1>1. Contents(d)' = Contents(d)
  BY ContentsFrame
<1> QED
  BY <1>1 DEF Settled, TypeOK, InFlight

\* A step of document d touches no other document.
LEMMA OthersSettled ==
    ASSUME TypeOK, AllSettled, NEW d \in Docs,
           Handler(d) \/ Step(d) \/ JobFault(d) \/ Rerun(d) \/ Commit(d)
    PROVE  \A e \in Docs \ {d} : Settled(e)'
<1> USE DEF tables, jobs, Goto, SetStatus
<1>1. \A e \in Docs \ {d} :
         /\ rows'[e] = rows[e] /\ status'[e] = status[e] /\ pc'[e] = pc[e]
         /\ up'[e] = up[e] /\ file'[e] = file[e] /\ (e \in tmp' <=> e \in tmp)
         /\ faults' \in {faults, faults + 1} /\ crashes' = crashes
  <2>1. CASE Handler(d)
    BY <2>1 DEF Handler, StartUpload, RejectUpload, RegisterUpload, RegisterRefused,
       RegisterFault, BeginDelete, DeleteFault, TypeOK
  <2>2. CASE Step(d)
    BY <2>2 DEF Step, LoadDocument, MarkParsing, ParseFails, MarkEmbedding, MarkEmpty,
       Embed, EmbedFails, BeginReplace, MarkReady, MarkFailed, Unlink, TypeOK
  <2>3. CASE JobFault(d) \/ Rerun(d)
    BY <2>3 DEF JobFault, Rerun, TypeOK
  <2>4. CASE Commit(d)
    BY <2>4 DEF Commit, CommitReplace, CommitDelete, TypeOK
  <2> QED
    BY <2>1, <2>2, <2>3, <2>4
<1> QED
  BY <1>1, SettledFrame DEF AllSettled

\* A handler leaves its document settled: registering one queues its job, and
\* whatever else registers none has counted a fault.
LEMMA HandlerSettles ==
    ASSUME IndInv, NEW d \in Docs, Settled(d), Handler(d)
    PROVE  Settled(d)'
<1> USE DEF IndInv, tables, jobs, Goto
<1>1. UNCHANGED <<rows, crashes>> /\ faults' \in {faults, faults + 1}
  BY DEF Handler, StartUpload, RejectUpload, RegisterUpload, RegisterRefused,
     RegisterFault, BeginDelete, DeleteFault
<1>2. Contents(d)' = Contents(d)
  BY <1>1, ContentsFrame
<1>3. CASE up[d] # "done"
  <2>1. status[d] = "absent" /\ pc[d] = "idle"
    BY <1>3 DEF JobInv
  <2>2. CASE StartUpload(d)
    BY <2>1, <2>2 DEF StartUpload, Settled, TypeOK, InFlight
  <2>3. CASE RejectUpload(d) \/ RegisterRefused(d)
    BY <2>1, <2>3 DEF RejectUpload, RegisterRefused, Settled, TypeOK, InFlight
  <2>4. CASE RegisterUpload(d)
    BY <2>1, <2>4 DEF RegisterUpload, Settled, TypeOK, InFlight
  <2>5. CASE RegisterFault(d)
    BY <2>1, <2>5 DEF RegisterFault, Settled, TypeOK, InFlight
  <2>6. CASE BeginDelete(d) \/ DeleteFault(d)
    BY <1>2, <2>1, <2>6 DEF BeginDelete, DeleteFault, Settled, TypeOK, InFlight
  <2> QED
    BY <2>2, <2>3, <2>4, <2>5, <2>6 DEF Handler
<1>4. CASE up[d] = "done"
  <2>1. BeginDelete(d) \/ DeleteFault(d)
    BY <1>4 DEF Handler, StartUpload, RejectUpload, RegisterUpload, RegisterRefused,
       RegisterFault
  <2> QED
    BY <2>1, SettledFrame DEF BeginDelete, DeleteFault
<1> QED
  BY <1>3, <1>4 DEF TypeOK

\* A step of a job leaves its document settled.
LEMMA StepSettles ==
    ASSUME IndInv, NEW d \in Docs, Settled(d), Step(d)
    PROVE  Settled(d)'
<1> USE DEF IndInv, tables, jobs, Goto, SetStatus
<1>1. UNCHANGED <<rows, file, faults, crashes>>
  BY DEF Step, LoadDocument, MarkParsing, ParseFails, MarkEmbedding, MarkEmpty,
     Embed, EmbedFails, BeginReplace, MarkReady, MarkFailed, Unlink
<1>2. Contents(d)' = Contents(d)
  BY <1>1, ContentsFrame
<1>3. CASE LoadDocument(d) \/ MarkParsing(d)
  BY <1>2, <1>3 DEF LoadDocument, MarkParsing, Settled, TypeOK, InFlight
<1>4. CASE ParseFails(d) \/ MarkEmbedding(d) \/ Embed(d) \/ EmbedFails(d) \/ BeginReplace(d)
  <2>1. status[d] \in {"parsing", "embedding", "absent"}
    BY <1>4 DEF ParseFails, MarkEmbedding, Embed, EmbedFails, BeginReplace, JobInv
  <2>2. status'[d] \in {"parsing", "embedding", "absent"} /\ pc[d] # "idle"
        /\ pc'[d] \notin {"idle", "unlink"} /\ UNCHANGED <<tmp, up>>
    BY <1>4, <2>1 DEF ParseFails, MarkEmbedding, Embed, EmbedFails, BeginReplace, TypeOK
  <2> QED
    BY <1>1, <2>2 DEF Settled
<1>5. CASE MarkEmpty(d) \/ MarkFailed(d)
  <2>1. status'[d] \in {"absent", "failed"} /\ pc'[d] = "unlink" /\ pc[d] # "idle"
        /\ UNCHANGED <<tmp, up>>
    BY <1>5 DEF MarkEmpty, MarkFailed, TypeOK
  <2> QED
    BY <1>1, <2>1 DEF Settled, InFlight
<1>6. CASE MarkReady(d)
  <2>1. /\ status'[d] \in {"absent", "ready"} /\ (status'[d] = "ready" => status[d] # "absent")
        /\ pc'[d] = "unlink" /\ pc[d] = "mark_ready" /\ UNCHANGED <<tmp, up>>
    BY <1>6 DEF MarkReady, TypeOK
  <2>2. status[d] # "absent" => Contents(d) = file[d] /\ file[d] # <<>>
    BY <2>1 DEF JobInv
  <2>3. rows[d] = <<>> => Contents(d) = <<>>
    BY NoRowsNoText
  <2> QED
    BY <1>1, <1>2, <2>1, <2>2, <2>3 DEF Settled, InFlight
<1>7. CASE Unlink(d)
  BY <1>2, <1>7 DEF Unlink, Settled, TypeOK, InFlight, JobInv
<1> QED
  BY <1>3, <1>4, <1>5, <1>6, <1>7 DEF Step

\* A fault of a job counts, and a new run brings its file.
LEMMA FaultSettles ==
    ASSUME IndInv, NEW d \in Docs, Settled(d), JobFault(d) \/ Rerun(d)
    PROVE  Settled(d)'
<1> USE DEF IndInv, tables, jobs, Goto
<1>1. UNCHANGED rows
  BY DEF JobFault, Rerun
<1>2. Contents(d)' = Contents(d)
  BY <1>1, ContentsFrame
<1>3. CASE JobFault(d)
  BY <1>2, <1>3 DEF JobFault, Settled, TypeOK, InFlight
<1>4. CASE Rerun(d)
  BY <1>2, <1>4 DEF Rerun, Settled, TypeOK, InFlight
<1> QED
  BY <1>3, <1>4

\* A commit is no end of a job, and a removed document shows nothing.
LEMMA CommitSettles ==
    ASSUME IndInv, NEW d \in Docs, Settled(d), Commit(d)
    PROVE  Settled(d)'
<1> USE DEF IndInv, Goto
<1>1. CASE CommitReplace(d)
  <2>1. status[d] \in {"parsing", "embedding", "absent"}
    BY <1>1 DEF CommitReplace, JobInv
  <2> QED
    BY <1>1, <2>1 DEF CommitReplace, Settled, TypeOK
<1>2. CASE CommitDelete(d)
  BY <1>2 DEF CommitDelete, Settled, TypeOK, InFlight
<1> QED
  BY <1>1, <1>2 DEF Commit

\* Nothing unsettles a document that goes with its knowledge base, and a crash
\* takes jobs with it but no temp file.
LEMMA SharedSettles ==
    ASSUME IndInv, AllSettled, Crash \/ \E k \in Kbs : CreateKb(k) \/ DeleteKb(k)
    PROVE  AllSettled'
<1> SUFFICES ASSUME NEW d \in Docs PROVE Settled(d)'
  BY DEF AllSettled
<1> USE DEF IndInv, AllSettled, tables, jobs
<1>1. CASE Crash
  <2>1. Contents(d)' = Contents(d)
    BY <1>1, ContentsFrame DEF Crash
  <2> QED
    BY <1>1, <2>1 DEF Crash, Settled, TypeOK, InFlight
<1>2. ASSUME NEW k \in Kbs, CreateKb(k) PROVE Settled(d)'
  BY <1>2, SettledFrame DEF CreateKb
<1>3. ASSUME NEW k \in Kbs, DeleteKb(k) PROVE Settled(d)'
  <2>1. CASE d \in DocsOf(k)
    BY <1>3, <2>1 DEF DeleteKb, Settled, InFlight
  <2>2. CASE d \notin DocsOf(k)
    BY <1>3, <2>2, SettledFrame DEF DeleteKb
  <2> QED
    BY <2>1, <2>2
<1> QED
  BY <1>1, <1>2, <1>3

\* Every step leaves every document settled.
LEMMA NextSettles == IndInv /\ AllSettled /\ [Next]_vars => AllSettled'
<1> SUFFICES ASSUME IndInv, AllSettled, [Next]_vars PROVE AllSettled'
  OBVIOUS
<1>1. ASSUME NEW d \in Docs,
             Handler(d) \/ Step(d) \/ JobFault(d) \/ Rerun(d) \/ Commit(d)
      PROVE  AllSettled'
  <2>1. \A e \in Docs \ {d} : Settled(e)'
    BY <1>1, OthersSettled DEF IndInv
  <2>2. Settled(d)
    BY DEF AllSettled
  <2>3. Settled(d)'
    BY <1>1, <2>2, HandlerSettles, StepSettles, FaultSettles, CommitSettles
  <2> QED
    BY <2>1, <2>3 DEF AllSettled
<1>2. CASE Crash \/ \E k \in Kbs : CreateKb(k) \/ DeleteKb(k)
  BY <1>2, SharedSettles
<1>3. CASE UNCHANGED vars
  <2> SUFFICES ASSUME NEW d \in Docs PROVE Settled(d)'
    BY DEF AllSettled
  <2> QED
    BY <1>3, SettledFrame DEF AllSettled, IndInv, vars, tables, jobs
<1> QED
  BY <1>1, <1>2, <1>3 DEF Next, Others

\* Every document is settled in every reachable state.
THEOREM Settling == Spec => []AllSettled
<1>1. Init => AllSettled
  BY DEF Init, AllSettled, Settled, InFlight
<1> QED
  BY <1>1, NextSettles, Invariance, PTL DEF Spec

\* `ready` is shown over the chunks of the last file, and never over none,
\* whatever interleaves, raises or dies (pipeline.py:88-98).
THEOREM ReadyMeansIndexed == Spec => []ReadyIsIndexed
<1>1. AllSettled => ReadyIsIndexed
  BY DEF AllSettled, Settled, ReadyIsIndexed
<1> QED
  BY <1>1, Settling, PTL

\* Without faults and crashes, a document in flight has its job (kb_routes.py:101).
THEOREM JobsAtWork == Spec => []InFlightHasJob
<1>1. AllSettled => InFlightHasJob
  BY DEF AllSettled, Settled, InFlightHasJob
<1> QED
  BY <1>1, Settling, PTL
-----------------------------------------------------------------------------
(* The chunk total of a knowledge base.                                    *)

IndInvCounts ==
    /\ IndInv
    /\ TypeOKCounts
    /\ \A k \in Kbs : kb[k] = "absent" => kbCount[k] = NoCounts
    /\ \A d \in missed : Open(d)
    /\ SnapshotCurrent
    /\ DriftOnlyByOverlap
-----------------------------------------------------------------------------
(* Sets of chunk rows.                                                     *)

\* A step that moves neither chunks of k nor the documents that have some
\* leaves the chunks of k, also with other rows in the place of those of d.
LEMMA ChunkIdsFrame ==
    ASSUME TypeOK, TypeOK', NoOrphans, NoOrphans', NEW k \in Kbs, UNCHANGED kbOf,
           \A e \in Docs : kbOf[e] = k => rows'[e] = rows[e]
    PROVE  /\ ChunkIds(k, rows)' = ChunkIds(k, rows)
           /\ \A d \in Docs : \A r : kbOf[d] = k /\ status[d] # "absent" /\ status'[d] # "absent" =>
                 ChunkIds(k, [rows EXCEPT ![d] = r])' = ChunkIds(k, [rows EXCEPT ![d] = r])
<1>1. \A e \in Docs : kbOf[e] = k /\ rows[e] # <<>> =>
         status[e] # "absent" /\ status'[e] # "absent"
  BY DEF NoOrphans
<1>2. DOMAIN <<>> = {}
  BY EmptySeq, LenProperties
<1>3. ChunkIds(k, rows)' = ChunkIds(k, rows)
  BY <1>1, <1>2 DEF ChunkIds, DocsOf
<1>4. ASSUME NEW d \in Docs, NEW r, kbOf[d] = k, status[d] # "absent", status'[d] # "absent"
      PROVE  ChunkIds(k, [rows EXCEPT ![d] = r])' = ChunkIds(k, [rows EXCEPT ![d] = r])
  BY <1>1, <1>2, <1>4 DEF ChunkIds, DocsOf, TypeOK
<1> QED
  BY <1>3, <1>4

\* What a transaction of d, once it has counted, must hold to be up to date.
Target(d) ==
    IF pc[d] = "commit"
    THEN Cardinality(ChunkIds(kbOf[d], [rows EXCEPT ![d] = Replaced(@, NewRows(d))]))
    ELSE Cardinality({c \in ChunkIds(kbOf[d], rows) : c[1] # d})

UpToDate == \A d \in Docs \ missed : Open(d) => snap[d].chunks = Target(d)

\* SnapshotCurrent, in terms of cardinalities.
LEMMA SnapshotIsTarget == IndInv => (SnapshotCurrent <=> UpToDate)
<1> SUFFICES ASSUME IndInv
             PROVE  SnapshotCurrent <=> UpToDate
  OBVIOUS
<1>1. \A k, rws : {c \in ChunkIds(k, rws) : c[1] \notin {}} = ChunkIds(k, rws)
  OBVIOUS
<1>2. \A d \in Docs : \A k, rws :
         {c \in ChunkIds(k, rws) : c[1] \notin {d}} = {c \in ChunkIds(k, rws) : c[1] # d}
  OBVIOUS
<1>3. ASSUME NEW d \in Docs
      PROVE  /\ Recount(kbOf[d], [rows EXCEPT ![d] = Replaced(@, NewRows(d))], {}).chunks
                  = Cardinality(ChunkIds(kbOf[d], [rows EXCEPT ![d] = Replaced(@, NewRows(d))]))
             /\ Recount(kbOf[d], rows, {d}).chunks
                  = Cardinality({c \in ChunkIds(kbOf[d], rows) : c[1] # d})
  BY <1>1, <1>2 DEF Recount
<1>4. \A d \in Docs : Open(d) => status[d] # "absent" /\ (pc[d] = "commit" => del[d] # "commit")
  BY DEF Open, IndInv, JobInv
<1> QED
  BY <1>3, <1>4 DEF SnapshotCurrent, UpToDate, Target, Open

\* Steps other than commits move no chunk of a live knowledge base.
LEMMA OthersFrame ==
    ASSUME IndInv, Others, NEW k \in Kbs, kb'[k] = "live"
    PROVE  /\ UNCHANGED <<kbOf, kbCount>>
           /\ \A e \in Docs : kbOf[e] = k => rows'[e] = rows[e]
           /\ kb[k] \in {"live", "absent"}
<1> USE DEF IndInv, tables, jobs
<1>1. CASE \E j \in Kbs : CreateKb(j)
  BY <1>1 DEF CreateKb, TypeOK
<1>2. CASE \E j \in Kbs : DeleteKb(j)
  BY <1>2 DEF DeleteKb, TypeOK, DocsOf
<1>3. CASE \E d \in Docs : Handler(d)
  BY <1>3 DEF Handler, StartUpload, RejectUpload, RegisterUpload, RegisterRefused,
     RegisterFault, BeginDelete, DeleteFault
<1>4. CASE \E d \in Docs : Step(d) \/ JobFault(d) \/ Rerun(d)
  BY <1>4 DEF Step, LoadDocument, MarkParsing, ParseFails, MarkEmbedding, MarkEmpty,
     Embed, EmbedFails, BeginReplace, MarkReady, MarkFailed, Unlink, JobFault, Rerun
<1>5. CASE Crash
  BY <1>5 DEF Crash
<1> QED
  BY <1>1, <1>2, <1>3, <1>4, <1>5 DEF Others

\* They write no counts, and a knowledge base once created stays created.
LEMMA OthersKeepCounts ==
    ASSUME TypeOK, Others, NEW k \in Kbs
    PROVE  kbCount' = kbCount /\ (kb'[k] = "absent" => kb[k] = "absent")
<1> USE DEF tables, jobs
<1>1. CASE \E j \in Kbs : CreateKb(j) \/ DeleteKb(j)
  BY <1>1 DEF CreateKb, DeleteKb, TypeOK
<1>2. CASE \E d \in Docs : Handler(d)
  BY <1>2 DEF Handler, StartUpload, RejectUpload, RegisterUpload, RegisterRefused,
     RegisterFault, BeginDelete, DeleteFault
<1>3. CASE \E d \in Docs : Step(d) \/ JobFault(d) \/ Rerun(d)
  BY <1>3 DEF Step, LoadDocument, MarkParsing, ParseFails, MarkEmbedding, MarkEmpty,
     Embed, EmbedFails, BeginReplace, MarkReady, MarkFailed, Unlink, JobFault, Rerun
<1>4. CASE Crash
  BY <1>4 DEF Crash
<1> QED
  BY <1>1, <1>2, <1>3, <1>4 DEF Others

\* A transaction that stays open keeps its counts and what it will write ...
LEMMA OpenFrame ==
    ASSUME IndInv, Others, NEW d \in Docs, Open(d), Open(d)'
    PROVE  /\ UNCHANGED <<snap[d], kbOf>>
           /\ pc[d] = "commit" <=> pc'[d] = "commit"
           /\ pc[d] = "commit" => UNCHANGED <<vecs[d], file[d]>>
<1> USE DEF IndInv, JobInv, Open, tables, jobs, Goto, TypeOK
<1>1. CASE \E j \in Kbs : CreateKb(j) \/ DeleteKb(j)
  BY <1>1 DEF CreateKb, DeleteKb
<1>2. CASE \E e \in Docs : Handler(e)
  BY <1>2 DEF Handler, StartUpload, RejectUpload, RegisterUpload, RegisterRefused,
     RegisterFault, BeginDelete, DeleteFault, LoopFree
<1>3. CASE \E e \in Docs : Step(e)
  BY <1>3 DEF Step, LoadDocument, MarkParsing, ParseFails, MarkEmbedding, MarkEmpty,
     Embed, EmbedFails, BeginReplace, MarkReady, MarkFailed, Unlink, RowFree
<1>4. CASE \E e \in Docs : JobFault(e) \/ Rerun(e)
  BY <1>4 DEF JobFault, Rerun, RowFree
<1>5. CASE Crash
  BY <1>5 DEF Crash
<1> QED
  BY <1>1, <1>2, <1>3, <1>4, <1>5 DEF Others

\* ... and one is opened by the two steps that count.
LEMMA Opening ==
    ASSUME IndInv, Others, NEW d \in Docs, ~Open(d), Open(d)'
    PROVE  \/ BeginReplace(d) /\ pc'[d] = "commit"
           \/ BeginDelete(d)
<1> USE DEF IndInv, Open, tables, jobs, Goto, TypeOK
<1>1. CASE \E j \in Kbs : CreateKb(j) \/ DeleteKb(j)
  BY <1>1 DEF CreateKb, DeleteKb
<1>2. ASSUME NEW e \in Docs, Handler(e)
      PROVE  BeginDelete(d)
  <2>1. CASE BeginDelete(e)
    <3>1. e = d
      BY <2>1 DEF BeginDelete
    <3> QED  BY <2>1, <3>1
  <2> QED
    BY <1>2, <2>1 DEF Handler, StartUpload, RejectUpload, RegisterUpload, RegisterRefused,
       RegisterFault, DeleteFault
<1>3. ASSUME NEW e \in Docs, Step(e)
      PROVE  BeginReplace(d) /\ pc'[d] = "commit"
  <2>1. CASE BeginReplace(e)
    <3>1. e = d /\ pc'[d] = "commit"
      BY <2>1 DEF BeginReplace
    <3> QED  BY <2>1, <3>1
  <2> QED
    BY <1>3, <2>1 DEF Step, LoadDocument, MarkParsing, ParseFails, MarkEmbedding, MarkEmpty,
       Embed, EmbedFails, MarkReady, MarkFailed, Unlink
<1>4. CASE \E e \in Docs : JobFault(e) \/ Rerun(e)
  BY <1>4 DEF JobFault, Rerun
<1>5. CASE Crash
  BY <1>5 DEF Crash
<1> QED
  BY <1>1, <1>2, <1>3, <1>4, <1>5 DEF Others

\* A transaction that nothing overtook is up to date after any step but a commit.
LEMMA OthersKeepCurrent ==
    ASSUME IndInvCounts, IndInv', Others, missed' = {d \in missed : Open(d)'},
           NEW d \in Docs \ missed', Open(d)'
    PROVE  snap'[d].chunks = Target(d)'
<1>1. d \in Docs \ missed /\ TypeOK /\ TypeOK' /\ NoOrphans /\ NoOrphans' /\ IndInv
  BY DEF IndInvCounts, IndInv
<1>2. status'[d] # "absent" /\ kb'[kbOf'[d]] = "live"
  BY <1>1 DEF IndInv, JobInv, Open, NoOrphans
<1>3. CASE Open(d)
  <2>1. status[d] # "absent"
    BY <1>1, <1>3 DEF IndInv, JobInv, Open
  <2>2. snap[d].chunks = Target(d)
    BY <1>1, <1>3, SnapshotIsTarget DEF IndInvCounts, UpToDate
  <2>3. UNCHANGED <<snap[d], kbOf>> /\ (pc[d] = "commit" <=> pc'[d] = "commit")
        /\ (pc[d] = "commit" => UNCHANGED <<vecs[d], file[d]>>)
    BY <1>1, <1>3, OpenFrame
  <2> DEFINE k == kbOf[d]
  <2>4. k \in Kbs /\ kb'[k] = "live"
    BY <1>1, <1>2, <2>3 DEF TypeOK
  <2>5. \A e \in Docs : kbOf[e] = k => rows'[e] = rows[e]
    BY <1>1, <2>4, OthersFrame
  <2>6. /\ ChunkIds(k, rows)' = ChunkIds(k, rows)
        /\ \A r : ChunkIds(k, [rows EXCEPT ![d] = r])' = ChunkIds(k, [rows EXCEPT ![d] = r])
    BY <1>1, <1>2, <2>1, <2>3, <2>4, <2>5, ChunkIdsFrame
  <2>7. pc[d] = "commit" => Replaced(rows[d], NewRows(d))' = Replaced(rows[d], NewRows(d))
    BY <2>3, <2>5 DEF NewRows, Replaced, Upsert, DropTail
  <2> QED
    BY <2>2, <2>3, <2>6, <2>7 DEF Target
<1>4. CASE ~Open(d)
  <2>0. \A k, rws : /\ {c \in ChunkIds(k, rws) : c[1] \notin {}} = ChunkIds(k, rws)
                    /\ {c \in ChunkIds(k, rws) : c[1] \notin {d}}
                         = {c \in ChunkIds(k, rws) : c[1] # d}
    OBVIOUS
  <2>1. CASE BeginReplace(d) /\ pc'[d] = "commit"
    <3> DEFINE rws == [rows EXCEPT ![d] = Replaced(@, NewRows(d))]
    <3>1. UNCHANGED <<rows, kbOf, status, vecs, file>> /\ snap'[d] = Recount(kbOf[d], rws, {})
      BY <2>1, <1>1 DEF BeginReplace, tables, Goto, TypeOK
    <3>2. Target(d)' = Cardinality(ChunkIds(kbOf[d], rws))
      BY <3>1, <2>1 DEF Target, ChunkIds, DocsOf, NewRows
    <3>3. Recount(kbOf[d], rws, {}).chunks
            = Cardinality({c \in ChunkIds(kbOf[d], rws) : c[1] \notin {}})
      BY DEF Recount
    <3> HIDE DEF rws
    <3> QED
      BY <3>1, <3>2, <3>3, <2>0
  <2>2. CASE BeginDelete(d)
    <3>1. /\ UNCHANGED <<rows, kbOf, status>> /\ pc'[d] # "commit"
          /\ snap'[d] = Recount(kbOf[d], rows, {d})
      BY <2>2, <1>1 DEF BeginDelete, tables, TypeOK
    <3>2. Target(d)' = Cardinality({c \in ChunkIds(kbOf[d], rows) : c[1] # d})
      BY <3>1 DEF Target, ChunkIds, DocsOf
    <3> QED
      BY <3>1, <3>2, <2>0 DEF Recount
  <2> QED
    BY <1>1, <1>4, <2>1, <2>2, Opening
<1> QED
  BY <1>3, <1>4

\* Every step but a commit keeps the invariant: it moves no counts, and opens a
\* transaction with counts that are current.
LEMMA OthersKeepInv ==
    ASSUME IndInvCounts, IndInv', Others, missed' = {d \in missed : Open(d)'},
           UNCHANGED drifted
    PROVE  IndInvCounts'
<1>1. TypeOK /\ TypeOK' /\ NoOrphans /\ NoOrphans' /\ IndInv
  BY DEF IndInvCounts, IndInv
<1>2. TypeOKCounts'
  BY <1>1 DEF IndInvCounts, TypeOKCounts
<1>3. \A k \in Kbs : kb'[k] = "absent" => kbCount'[k] = NoCounts
  BY <1>1, OthersKeepCounts DEF IndInvCounts
<1>4. \A d \in missed' : Open(d)'
  OBVIOUS
<1>5. SnapshotCurrent'
  <2>1. \A d \in Docs \ missed' : Open(d)' => snap'[d].chunks = Target(d)'
    BY OthersKeepCurrent
  <2>2. IndInv' => (SnapshotCurrent' <=> UpToDate')
    BY SnapshotIsTarget, PTL
  <2> QED
    BY <2>1, <2>2 DEF UpToDate
<1>6. DriftOnlyByOverlap'
  <2> SUFFICES ASSUME NEW k \in Kbs, kb'[k] = "live", k \notin drifted
      PROVE  kbCount'[k].chunks = Cardinality(ChunkIds(k, rows)')
    BY DEF DriftOnlyByOverlap
  <2>1. UNCHANGED kbCount /\ ChunkIds(k, rows)' = ChunkIds(k, rows) /\ kb[k] \in {"live", "absent"}
    BY <1>1, OthersFrame, ChunkIdsFrame
  <2>2. CASE kb[k] = "live"
    BY <2>1, <2>2 DEF IndInvCounts, DriftOnlyByOverlap
  <2>3. CASE kb[k] = "absent"
    <3>1. ChunkIds(k, rows) = {}
      BY <1>1, <2>3 DEF ChunkIds, DocsOf, NoOrphans
    <3>2. kbCount[k].chunks = 0
      BY <2>3 DEF IndInvCounts, NoCounts
    <3> QED
      BY <2>1, <3>1, <3>2, FS_EmptySet
  <2> QED
    BY <2>1, <2>2, <2>3
<1> QED
  BY <1>2, <1>3, <1>4, <1>5, <1>6 DEF IndInvCounts

\* Every commit keeps it: the committing transaction writes the total that its
\* own change makes true, unless another one has overtaken it.
LEMMA CommitKeepsInv ==
    ASSUME IndInvCounts, IndInv', NEW d \in Docs, Commit(d),
           missed' = (missed \cup OpenBeside(d)) \ {d},
           drifted' = IF d \in missed THEN drifted \cup {kbOf[d]} ELSE drifted \ {kbOf[d]}
    PROVE  IndInvCounts'
<1>1. TypeOK /\ TypeOK' /\ NoOrphans /\ NoOrphans' /\ IndInv /\ kbOf[d] \in Kbs
  BY DEF IndInvCounts, IndInv, TypeOK
<1>2. TypeOKCounts'
  BY <1>1 DEF IndInvCounts, TypeOKCounts, OpenBeside
<1>3. /\ UNCHANGED <<kb, kbOf, vecs, file>> /\ Open(d) /\ ~Open(d)' /\ status[d] # "absent"
      /\ kbCount' = [kbCount EXCEPT ![kbOf[d]] = snap[d]]
      /\ \A e \in Docs \ {d} : UNCHANGED <<status[e], rows[e], pc[e], del[e], snap[e]>>
  BY <1>1 DEF Commit, CommitReplace, CommitDelete, Goto, Open, IndInv, JobInv, TypeOK
<1>4. kb[kbOf[d]] = "live"
  BY <1>1, <1>3 DEF NoOrphans
<1>5. \A k \in Kbs : kb'[k] = "absent" => kbCount'[k] = NoCounts
  BY <1>1, <1>3, <1>4 DEF IndInvCounts, TypeOK
<1>6. \A e \in missed' : Open(e)'
  BY <1>3 DEF IndInvCounts, Open, OpenBeside, TypeOKCounts
<1>7. \A k \in Kbs \ {kbOf[d]} : \A e \in Docs : kbOf[e] = k => rows'[e] = rows[e]
  BY <1>3
<1>8. SnapshotCurrent'
  <2>1. ASSUME NEW e \in Docs \ missed', Open(e)'
        PROVE  snap'[e].chunks = Target(e)'
    <3>1. e # d /\ e \notin missed /\ Open(e) /\ kbOf[e] # kbOf[d] /\ kbOf[e] \in Kbs
      BY <2>1, <1>1, <1>3 DEF Open, OpenBeside, TypeOK
    <3>2. status[e] # "absent" /\ status'[e] # "absent"
      BY <3>1, <1>1, <1>3 DEF IndInv, JobInv, Open
    <3>3. snap[e].chunks = Target(e)
      BY <3>1, <1>1, SnapshotIsTarget DEF IndInvCounts, UpToDate
    <3>4. /\ ChunkIds(kbOf[e], rows)' = ChunkIds(kbOf[e], rows)
          /\ \A r : ChunkIds(kbOf[e], [rows EXCEPT ![e] = r])'
                     = ChunkIds(kbOf[e], [rows EXCEPT ![e] = r])
      BY <1>1, <1>3, <1>7, <3>1, <3>2, ChunkIdsFrame
    <3>5. Replaced(rows[e], NewRows(e))' = Replaced(rows[e], NewRows(e))
      BY <1>3, <3>1 DEF NewRows, Replaced, Upsert, DropTail
    <3> QED
      BY <1>3, <3>1, <3>3, <3>4, <3>5 DEF Target
  <2>2. IndInv' => (SnapshotCurrent' <=> UpToDate')
    BY SnapshotIsTarget, PTL
  <2> QED
    BY <2>1, <2>2 DEF UpToDate
<1>9. DriftOnlyByOverlap'
  <2> SUFFICES ASSUME NEW k \in Kbs, kb[k] = "live", k \notin drifted'
      PROVE  kbCount'[k].chunks = Cardinality(ChunkIds(k, rows)')
    BY <1>3 DEF DriftOnlyByOverlap
  <2>1. CASE k # kbOf[d]
    <3>1. ChunkIds(k, rows)' = ChunkIds(k, rows)
      BY <1>1, <1>3, <1>7, <2>1, ChunkIdsFrame
    <3> QED
      BY <1>1, <1>3, <2>1, <3>1 DEF IndInvCounts, DriftOnlyByOverlap, TypeOK
  <2>2. CASE k = kbOf[d]
    <3>1. d \notin missed
      BY <2>2
    <3>2. snap[d].chunks = Target(d)
      BY <3>1, <1>1, <1>3, SnapshotIsTarget DEF IndInvCounts, UpToDate
    <3>3. kbCount'[k] = snap[d]
      BY <1>1, <1>3, <2>2 DEF TypeOK
    <3>4. CASE CommitReplace(d)
      <4>1. /\ pc[d] = "commit" /\ UNCHANGED <<status, kbOf>>
            /\ rows' = [rows EXCEPT ![d] = Replaced(@, NewRows(d))]
        BY <3>4 DEF CommitReplace
      <4>2. ChunkIds(k, rows)' = ChunkIds(k, [rows EXCEPT ![d] = Replaced(@, NewRows(d))])
        BY <4>1 DEF ChunkIds, DocsOf
      <4> QED
        BY <2>2, <3>2, <3>3, <4>1, <4>2 DEF Target
    <3>5. CASE CommitDelete(d)
      <4>1. /\ pc[d] # "commit" /\ UNCHANGED kbOf
            /\ status' = [status EXCEPT ![d] = "absent"]
            /\ rows' = [rows EXCEPT ![d] = <<>>]
        BY <3>5, <1>1 DEF CommitDelete, IndInv, JobInv
      <4>2. ChunkIds(k, rows)' = {c \in ChunkIds(k, rows) : c[1] # d}
        BY <4>1, <1>1 DEF ChunkIds, DocsOf, TypeOK
      <4> QED
        BY <2>2, <3>2, <3>3, <4>1, <4>2 DEF Target
    <3> QED
      BY <3>4, <3>5 DEF Commit
  <2> QED
    BY <2>1, <2>2
<1> QED
  BY <1>2, <1>5, <1>6, <1>8, <1>9 DEF IndInvCounts
-----------------------------------------------------------------------------
\* Initially no knowledge base exists and every total is 0.
LEMMA InitIndInvCounts == InitCounts => IndInvCounts
<1> SUFFICES ASSUME InitCounts
             PROVE  IndInvCounts
  OBVIOUS
<1>1. IndInv
  BY InitIndInv DEF InitCounts
<1> QED
  BY <1>1 DEF InitCounts, Init, IndInvCounts, IndInv, TypeOKCounts, SnapshotCurrent,
     DriftOnlyByOverlap

\* IndInvCounts is inductive.
LEMMA NextIndInvCounts == IndInvCounts /\ [NextCounts]_<<vars, history>> => IndInvCounts'
<1> SUFFICES ASSUME IndInvCounts, [NextCounts]_<<vars, history>>
             PROVE  IndInvCounts'
  OBVIOUS
<1>1. CASE NextCounts
  <2>1. Next
    BY <1>1 DEF NextCounts, Next
  <2>2. IndInv'
    BY <2>1, NextIndInv DEF IndInvCounts
  <2> QED
    BY <1>1, <2>2, OthersKeepInv, CommitKeepsInv DEF NextCounts
<1>2. CASE UNCHANGED <<vars, history>>
  <2>1. IndInv'
    BY <1>2, NextIndInv DEF IndInvCounts
  <2>2. UNCHANGED <<kb, kbCount, status, kbOf, rows, pc, del, snap, vecs, file, missed, drifted>>
    BY <1>2 DEF vars, history, tables, jobs
  <2>3. UNCHANGED SnapshotCurrent /\ UNCHANGED DriftOnlyByOverlap
    BY <2>2 DEF SnapshotCurrent, DriftOnlyByOverlap, Recount, ChunkIds, DocsOf, NewRows
  <2> QED
    BY <2>1, <2>2, <2>3 DEF IndInvCounts, IndInv, TypeOKCounts, Open
<1> QED
  BY <1>1, <1>2

\* The chunk total of a knowledge base is exact unless its last recount was
\* overtaken, for any number of documents, runs, faults and crashes
\* (store.py:5-7, 279-292).
THEOREM DriftNeedsOverlap == SpecCounts => []DriftOnlyByOverlap
<1>1. SpecCounts => []IndInvCounts
  BY InitIndInvCounts, NextIndInvCounts, PTL DEF SpecCounts
<1>2. IndInvCounts => DriftOnlyByOverlap
  BY DEF IndInvCounts
<1> QED
  BY <1>1, <1>2, PTL

\* A transaction that nothing overtook holds the counts its commit makes true.
THEOREM SnapshotsCurrent == SpecCounts => []SnapshotCurrent
<1>1. SpecCounts => []IndInvCounts
  BY InitIndInvCounts, NextIndInvCounts, PTL DEF SpecCounts
<1>2. IndInvCounts => SnapshotCurrent
  BY DEF IndInvCounts
<1> QED
  BY <1>1, <1>2, PTL

\* What is recorded of overtaken transactions are documents and knowledge bases.
THEOREM CountsTypeCorrect == SpecCounts => []TypeOKCounts
<1>1. SpecCounts => []IndInvCounts
  BY InitIndInvCounts, NextIndInvCounts, PTL DEF SpecCounts
<1>2. IndInvCounts => TypeOKCounts
  BY DEF IndInvCounts
<1> QED
  BY <1>1, <1>2, PTL

-----------------------------------------------------------------------------
(* Recursion along a list.                                                 *)

\* What a recursive definition chooses is such a function.
LEMMA Chosen ==
    ASSUME NEW S, NEW a \in S, NEW N \in Nat, NEW step \in [1..N -> [S -> S]], NEW c,
           c = [n \in 0..N |-> c[n]], c[0] = a,
           \A n \in 1..N : c[n - 1] \in S => c[n] = step[n][c[n - 1]]
    PROVE  Recurs(c, S, a, N, step)
<1> DEFINE T == {n \in Nat : n <= N => c[n] \in S}
<1>1. 0 \in T
  OBVIOUS
<1>2. ASSUME NEW n \in Nat, n \in T PROVE n + 1 \in T
  <2> SUFFICES ASSUME n + 1 <= N PROVE c[n + 1] \in S
    OBVIOUS
  <2>1. n + 1 \in 1..N /\ (n + 1) - 1 = n /\ c[n] \in S
    BY <1>2
  <2>2. c[n + 1] = step[n + 1][c[n]]
    BY <2>1
  <2> QED BY <2>1, <2>2
<1>3. \A n \in Nat : n \in T
  <2> HIDE DEF T
  <2> QED BY <1>1, <1>2, NaturalInduction
<1>4. \A n \in 0..N : c[n] \in S
  BY <1>3
<1>5. c \in [0..N -> S]
  BY <1>4
<1>6. ASSUME NEW n \in 1..N PROVE c[n] = step[n][c[n - 1]]
  <2>1. n - 1 \in 0..N
    OBVIOUS
  <2> QED BY <1>4, <2>1
<1> QED BY <1>5, <1>6 DEF Recurs

\* g goes one step further than f.
Further(g, f, S, a, N, next, step) ==
    /\ a \in S /\ N \in Nat
    /\ step \in [1..N -> [S -> S]] /\ next \in [1..N + 1 -> [S -> S]]
    /\ \A n \in 1..N : next[n] = step[n]
    /\ Recurs(f, S, a, N, step) /\ Recurs(g, S, a, N + 1, next)

\* What it comes to.
LEMMA Continues ==
    ASSUME NEW S, NEW a, NEW N, NEW step, NEW next, NEW f, NEW g, Further(g, f, S, a, N, next, step)
    PROVE  f[N] \in S /\ g[N + 1] = next[N + 1][f[N]]
<1> USE DEF Further
<1> DEFINE T == {n \in Nat : n <= N => g[n] = f[n]}
<1>1. 0 \in T
  BY DEF Recurs
<1>2. ASSUME NEW n \in Nat, n \in T PROVE n + 1 \in T
  <2> SUFFICES ASSUME n + 1 <= N PROVE g[n + 1] = f[n + 1]
    OBVIOUS
  <2>1. n + 1 \in 1..N /\ n + 1 \in 1..N + 1 /\ (n + 1) - 1 = n /\ g[n] = f[n]
    BY <1>2
  <2>2. f[n + 1] = step[n + 1][f[n]] /\ g[n + 1] = next[n + 1][g[n]]
    BY <2>1 DEF Recurs
  <2> QED BY <2>1, <2>2
<1>3. \A n \in Nat : n \in T
  <2> HIDE DEF T
  <2> QED BY <1>1, <1>2, NaturalInduction
<1>4. g[N] = f[N]
  BY <1>3
<1>5. N + 1 \in 1..N + 1 /\ (N + 1) - 1 = N /\ N \in 0..N
  OBVIOUS
<1> QED BY <1>4, <1>5 DEF Recurs
-----------------------------------------------------------------------------
(* CutBehind.                                                              *)

CutSteps(s, ends, E) ==
    [n \in 1..Len(s) |-> [ps \in Seq(Seq(E)) |-> Extended(ps, s[n], n - 1 \in ends)]]
Cuts(f, s, ends, E) ==
    /\ Recurs(f, Seq(Seq(E)), <<>>, Len(s), CutSteps(s, ends, E))
    /\ CutBehind(s, ends) = f[Len(s)]

\* The last element of a list, and what is before it.
LEMMA LastOf ==
    ASSUME NEW E, NEW s \in Seq(E)
    PROVE  /\ s # <<>> => /\ Front(s) \in Seq(E) /\ Last(s) \in E
                          /\ s = Append(Front(s), Last(s)) /\ Len(Front(s)) = Len(s) - 1
           /\ \A e \in E : Front(Append(s, e)) = s /\ Last(Append(s, e)) = e
<1>1. ASSUME NEW e \in E PROVE Front(Append(s, e)) = s /\ Last(Append(s, e)) = e
  <2> DEFINE t == Append(s, e)
  <2>1. t \in Seq(E) /\ Len(t) = Len(s) + 1 /\ t[Len(s) + 1] = e /\ Len(s) \in Nat
        /\ \A i \in 1..Len(s) : t[i] = s[i]
    BY AppendProperties, LenProperties
  <2> HIDE DEF t
  <2>2. Last(t) = e
    BY <2>1 DEF Last
  <2>3. Front(t) = SubSeq(t, 1, Len(s))
    BY <2>1 DEF Front
  <2>4. SubSeq(t, 1, Len(s)) = s
    BY <2>1, SubSeqProperties, SeqEqual
  <2> QED BY <2>2, <2>3, <2>4 DEF t
<1>2. ASSUME s # <<>>
      PROVE  /\ Front(s) \in Seq(E) /\ Last(s) \in E
             /\ s = Append(Front(s), Last(s)) /\ Len(Front(s)) = Len(s) - 1
  <2>1. Front(s) = [i \in 1..(Len(s) - 1) |-> s[i]] /\ Len(s) \in Nat \ {0}
    BY <1>2, EmptySeq, LenProperties DEF Front
  <2>2. Front(s) \in Seq(E) /\ Last(s) \in E /\ Len(Front(s)) = Len(s) - 1
    BY <2>1 DEF Last
  <2> QED BY <2>1, <2>2 DEF Last
<1> QED BY <1>1, <1>2

\* The two halves of that.
LEMMA LastAppend ==
    ASSUME NEW E, NEW s \in Seq(E), NEW e \in E
    PROVE  Front(Append(s, e)) = s /\ Last(Append(s, e)) = e
BY LastOf

\* A list that is not empty is what is before its last element, and that.
LEMMA FrontLast ==
    ASSUME NEW E, NEW s \in Seq(E), s # <<>>
    PROVE  /\ Front(s) \in Seq(E) /\ Last(s) \in E
           /\ s = Append(Front(s), Last(s)) /\ Len(Front(s)) = Len(s) - 1
BY LastOf

\* One element more leaves the pieces pieces.
LEMMA ExtendedType ==
    ASSUME NEW E, NEW ps \in Seq(Seq(E)), NEW x \in E, NEW new
    PROVE  Extended(ps, x, new) \in Seq(Seq(E))
<1>1. <<x>> \in Seq(E)
  BY Single
<1>2. Append(ps, <<x>>) \in Seq(Seq(E))
  BY <1>1, AppendProperties
<1>3. ASSUME ps # <<>> PROVE Append(Front(ps), Append(Last(ps), x)) \in Seq(Seq(E))
  <2>1. Front(ps) \in Seq(Seq(E)) /\ Last(ps) \in Seq(E)
    BY <1>3, LastOf
  <2>2. Append(Last(ps), x) \in Seq(E)
    BY <2>1, AppendProperties
  <2> QED BY <2>1, <2>2, AppendProperties
<1> QED BY <1>2, <1>3 DEF Extended

\* The recursive function behind CutBehind exists.
LEMMA CutUnfolds ==
    ASSUME NEW E, NEW s \in Seq(E), NEW ends
    PROVE  \E f : Cuts(f, s, ends, E)
<1> DEFINE N == Len(s)
           S == Seq(Seq(E))
           step == CutSteps(s, ends, E)
           cut(g) == [n \in 0..N |-> IF n = 0 THEN <<>> ELSE Extended(g[n - 1], s[n], n - 1 \in ends)]
<1>1. N \in Nat /\ <<>> \in S /\ \A n \in 1..N : s[n] \in E
  BY LenProperties, EmptySeq, ElementOfSeq
<1>2. step \in [1..N -> [S -> S]]
  <2>1. \A n \in 1..N, ps \in S : Extended(ps, s[n], n - 1 \in ends) \in S
    BY <1>1, ExtendedType
  <2> QED BY <2>1 DEF CutSteps
<1>3. \A n \in 1..N, ps \in S : step[n][ps] = Extended(ps, s[n], n - 1 \in ends)
  BY DEF CutSteps
<1>4. \A n \in 1..N : n - 1 \in 0..N /\ n \in 0..N /\ n # 0
  BY <1>1
<1> HIDE DEF S, step, N
<1>5. PICK g : Recurs(g, S, <<>>, N, step)
  BY <1>1, <1>2, Recursion
<1>6. g = cut(g)
  <2>1. g \in [0..N -> S] /\ g[0] = <<>> /\ \A n \in 1..N : g[n] = step[n][g[n - 1]]
    BY <1>5 DEF Recurs
  <2>2. \A n \in 1..N : g[n] = Extended(g[n - 1], s[n], n - 1 \in ends)
    BY <1>3, <1>4, <2>1
  <2>3. \A n \in 0..N : g[n] = IF n = 0 THEN <<>> ELSE Extended(g[n - 1], s[n], n - 1 \in ends)
    BY <1>1, <2>1, <2>2
  <2> QED BY <2>1, <2>3
<1> DEFINE c == CHOOSE h : h = cut(h)
<1>7. c = cut(c)
  BY <1>6
<1>8. CutBehind(s, ends) = c[N]
  BY DEF CutBehind, N
<1> HIDE DEF c
<1>9. c = [n \in 0..N |-> c[n]]
  BY <1>7
<1>10. \A n \in 0..N : c[n] = IF n = 0 THEN <<>> ELSE Extended(c[n - 1], s[n], n - 1 \in ends)
  BY <1>7
<1>11. c[0] = <<>> /\ \A n \in 1..N : c[n] = Extended(c[n - 1], s[n], n - 1 \in ends)
  BY <1>1, <1>4, <1>10
<1>12. Recurs(c, S, <<>>, N, step)
  <2>1. \A n \in 1..N : c[n - 1] \in S => c[n] = step[n][c[n - 1]]
    BY <1>3, <1>11
  <2> QED BY <1>1, <1>2, <1>9, <1>11, <2>1, Chosen
<1> QED BY <1>8, <1>12 DEF Cuts, S, step, N

\* What a cut gives for one element more.
LEMMA CutStep ==
    ASSUME NEW E, NEW s \in Seq(E), NEW x \in E, NEW ends
    PROVE  /\ CutBehind(s, ends) \in Seq(Seq(E))
           /\ CutBehind(<<>>, ends) = <<>>
           /\ CutBehind(Append(s, x), ends) = Extended(CutBehind(s, ends), x, Len(s) \in ends)
<1> DEFINE t == Append(s, x)
           N == Len(s)
           S == Seq(Seq(E))
<1>1. /\ N \in Nat /\ t \in Seq(E) /\ Len(t) = N + 1 /\ t[N + 1] = x
      /\ \A n \in 1..N : t[n] = s[n] /\ s[n] \in E
  BY AppendProperties, LenProperties, ElementOfSeq
<1> HIDE DEF t, N
<1>2. PICK f : Cuts(f, s, ends, E)
  BY CutUnfolds
<1>3. PICK g : Cuts(g, t, ends, E)
  BY <1>1, CutUnfolds
<1> DEFINE step == CutSteps(s, ends, E)
           next == CutSteps(t, ends, E)
<1>4. step \in [1..N -> [S -> S]] /\ next \in [1..N + 1 -> [S -> S]]
  <2>1. \A n \in 1..N, ps \in S : Extended(ps, s[n], n - 1 \in ends) \in S
    BY <1>1, ExtendedType
  <2>2. \A n \in 1..N + 1, ps \in S : Extended(ps, t[n], n - 1 \in ends) \in S
    <3>1. \A n \in 1..N + 1 : t[n] \in E
      BY <1>1, ElementOfSeq
    <3> QED BY <3>1, ExtendedType
  <2> QED BY <1>1, <2>1, <2>2 DEF CutSteps, N
<1>5. \A n \in 1..N : next[n] = step[n]
  BY <1>1 DEF CutSteps, N
<1>6. \A ps \in S : next[N + 1][ps] = Extended(ps, x, N \in ends)
  BY <1>1 DEF CutSteps
<1>7. Recurs(f, S, <<>>, N, step) /\ CutBehind(s, ends) = f[N]
  BY <1>2 DEF Cuts, N
<1>8. Recurs(g, S, <<>>, N + 1, next) /\ CutBehind(t, ends) = g[N + 1]
  BY <1>1, <1>3 DEF Cuts
<1>9. f[N] \in S /\ g[N + 1] = next[N + 1][f[N]]
  <2>1. <<>> \in S
    BY EmptySeq
  <2>2. N \in Nat
    BY <1>1
  <2>3. Further(g, f, S, <<>>, N, next, step)
    BY <1>4, <1>5, <1>7, <1>8, <2>1, <2>2 DEF Further
  <2> HIDE DEF step, next, S
  <2> QED BY <2>3, Continues
<1>10. CutBehind(<<>>, ends) = <<>>
  <2>1. <<>> \in Seq(E) /\ Len(<<>>) = 0
    BY EmptySeq
  <2>2. PICK h : Cuts(h, <<>>, ends, E)
    BY <2>1, CutUnfolds
  <2> QED BY <2>1, <2>2 DEF Cuts, Recurs
<1> QED BY <1>6, <1>7, <1>8, <1>9, <1>10 DEF t, N

\* A list is cut into pieces that are not empty and that it consists of.
LEMMA CutWhole ==
    ASSUME NEW E, NEW s \in Seq(E), NEW ends
    PROVE  /\ CutBehind(s, ends) \in Seq(Seq(E) \ {<<>>})
           /\ FlattenSeq(CutBehind(s, ends)) = s
<1> DEFINE P == Seq(E) \ {<<>>}
           T == {t \in Seq(E) : CutBehind(t, ends) \in Seq(P) /\ FlattenSeq(CutBehind(t, ends)) = t}
<1>1. <<>> \in T
  <2>1. <<>> \in Seq(E) /\ <<>> \in Seq(P) /\ <<>> \in Seq(Seq(E)) /\ FlattenSeq(<<>>) = <<>>
    BY EmptySeq, FlattenType
  <2>2. CutBehind(<<>>, ends) = <<>>
    <3>1. PICK h : Cuts(h, <<>>, ends, E)
      BY <2>1, CutUnfolds
    <3> QED BY <3>1, EmptySeq DEF Cuts, Recurs
  <2> QED BY <2>1, <2>2
<1>2. ASSUME NEW t \in Seq(E), NEW x \in E, t \in T PROVE Append(t, x) \in T
  <2> DEFINE ps == CutBehind(t, ends)
             qs == CutBehind(Append(t, x), ends)
  <2>1. qs = Extended(ps, x, Len(t) \in ends) /\ ps \in Seq(P) /\ FlattenSeq(ps) = t
    BY <1>2, CutStep
  <2> HIDE DEF ps, qs
  <2>2. ps \in Seq(Seq(E)) /\ Append(t, x) \in Seq(E) /\ <<x>> \in P /\ t \o <<x>> = Append(t, x)
    <3>1. ps \in Seq(Seq(E))
      BY <2>1, SeqMonotonic
    <3>2. <<x>> \in Seq(E) /\ <<x>> # <<>>
      BY Single, EmptySeq
    <3>3. t \o <<x>> = Append(t, x)
      OBVIOUS
    <3> QED BY <3>1, <3>2, <3>3, AppendProperties
  <2>3. CASE qs = Append(ps, <<x>>)
    <3>1. qs \in Seq(P)
      <4> HIDE DEF P
      <4>1. \A y \in P : Append(ps, y) \in Seq(P)
        BY <2>1, AppendProperties
      <4> QED BY <2>2, <2>3, <4>1
    <3>2. FlattenSeq(qs) = Append(t, x)
      BY <2>1, <2>2, <2>3, FlattenStep
    <3> QED BY <2>2, <3>1, <3>2 DEF qs
  <2>4. CASE ps # <<>> /\ qs = Append(Front(ps), Append(Last(ps), x))
    <3> DEFINE f == Front(ps)
               l == Last(ps)
               m == Append(l, x)
    <3>1. f \in Seq(P) /\ l \in P /\ ps = Append(f, l)
      <4> HIDE DEF P
      <4> QED BY <2>1, <2>4, LastOf
    <3> HIDE DEF f, l
    <3>2. f \in Seq(Seq(E)) /\ l \in Seq(E)
      BY <3>1, SeqMonotonic
    <3>3. m \in P /\ m = l \o <<x>>
      <4>1. m \in Seq(E) /\ Len(m) = Len(l) + 1 /\ Len(l) \in Nat
        BY <3>2, AppendProperties, LenProperties
      <4>2. m # <<>>
        BY <4>1, EmptySeq
      <4>3. m = l \o <<x>>
        BY <3>2
      <4> QED BY <4>1, <4>2, <4>3
    <3> HIDE DEF m
    <3>4. qs = Append(f, m)
      BY <2>4 DEF f, l, m
    <3>5. qs \in Seq(P)
      <4> HIDE DEF P
      <4> QED BY <3>1, <3>3, <3>4, AppendProperties
    <3>6. FlattenSeq(qs) = FlattenSeq(f) \o m /\ t = FlattenSeq(f) \o l /\ FlattenSeq(f) \in Seq(E)
      BY <2>1, <3>1, <3>2, <3>3, <3>4, FlattenStep, FlattenType
    <3>7. FlattenSeq(qs) = Append(t, x)
      BY <2>2, <3>2, <3>3, <3>6, ConcatAssociative
    <3> QED BY <2>2, <3>5, <3>7 DEF qs
  <2> QED BY <2>1, <2>3, <2>4 DEF Extended
<1>3. s \in T
  <2> HIDE DEF T
  <2> QED BY <1>1, <1>2, SequenceInduction
<1> QED BY <1>3

-----------------------------------------------------------------------------
(* Lists behind lists.                                                     *)

\* Append and concatenation.
LEMMA AppendIs ==
    ASSUME NEW E, NEW s \in Seq(E), NEW e \in E
    PROVE  <<e>> \in Seq(E) /\ Append(s, e) = s \o <<e>> /\ Append(s, e) \in Seq(E) /\ Append(s, e) # <<>>
<1>1. <<e>> \in Seq(E)
  BY Single
<1>2. Append(s, e) = s \o <<e>>
  OBVIOUS
<1>3. Append(s, e) \in Seq(E) /\ Len(Append(s, e)) = Len(s) + 1 /\ Len(s) \in Nat
  BY AppendProperties, LenProperties
<1>4. Append(s, e) # <<>>
  BY <1>3, EmptySeq
<1> QED BY <1>1, <1>2, <1>3, <1>4

\* A list behind a list grows at its end.
LEMMA ConcatAppend ==
    ASSUME NEW E, NEW s \in Seq(E), NEW t \in Seq(E), NEW e \in E
    PROVE  s \o Append(t, e) = Append(s \o t, e) /\ s \o t \in Seq(E)
<1>1. <<e>> \in Seq(E) /\ Append(t, e) = t \o <<e>>
  BY AppendIs
<1>2. s \o t \in Seq(E)
  BY ConcatProperties
<1>3. Append(s \o t, e) = (s \o t) \o <<e>>
  BY <1>2, AppendIs
<1> QED BY <1>1, <1>2, <1>3, ConcatAssociative

\* Comprehensions go through concatenation.
LEMMA FilteredConcat ==
    ASSUME NEW E, NEW K, NEW s \in Seq(E), NEW t \in Seq(E)
    PROVE  Filtered(s \o t, K) = Filtered(s, K) \o Filtered(t, K)
<1> DEFINE T == {u \in Seq(E) : Filtered(s \o u, K) = Filtered(s, K) \o Filtered(u, K)}
<1>1. <<>> \in T
  <2>1. <<>> \in Seq(E) /\ s \o <<>> = s /\ Filtered(s, K) \in Seq(E)
    BY EmptySeq, ConcatEmptySeq, FilteredType
  <2> QED BY <2>1, FilteredEmpty, ConcatEmptySeq
<1>2. ASSUME NEW u \in Seq(E), NEW e \in E, u \in T PROVE Append(u, e) \in T
  <2>1. /\ Append(u, e) \in Seq(E) /\ s \o Append(u, e) = Append(s \o u, e) /\ s \o u \in Seq(E)
        /\ Filtered(s, K) \in Seq(E) /\ Filtered(u, K) \in Seq(E)
    BY AppendIs, ConcatAppend, FilteredType
  <2>2. CASE e \in K
    <3>1. Filtered(Append(s \o u, e), K) = Append(Filtered(s \o u, K), e)
      BY <2>1, <2>2, FilteredIn, ZenonT(60)
    <3>2. Filtered(Append(u, e), K) = Append(Filtered(u, K), e)
      BY <2>2, FilteredIn, ZenonT(60)
    <3>3. Filtered(s, K) \o Append(Filtered(u, K), e) = Append(Filtered(s, K) \o Filtered(u, K), e)
      BY <2>1, ConcatAppend
    <3> QED BY <1>2, <2>1, <3>1, <3>2, <3>3
  <2>3. CASE e \notin K
    <3>1. /\ Filtered(Append(s \o u, e), K) = Filtered(s \o u, K)
          /\ Filtered(Append(u, e), K) = Filtered(u, K)
      BY <2>1, <2>3, FilteredOut
    <3> QED BY <1>2, <2>1, <3>1
  <2> QED BY <2>2, <2>3
<1> HIDE DEF T
<1>3. t \in T
  BY <1>1, <1>2, SequenceInduction
<1> QED BY <1>3 DEF T

\* So does the concatenation of many.
LEMMA FlattenConcat ==
    ASSUME NEW E, NEW s \in Seq(Seq(E)), NEW t \in Seq(Seq(E))
    PROVE  FlattenSeq(s \o t) = FlattenSeq(s) \o FlattenSeq(t)
<1> DEFINE T == {u \in Seq(Seq(E)) : FlattenSeq(s \o u) = FlattenSeq(s) \o FlattenSeq(u)}
<1>1. <<>> \in T
  <2>1. /\ <<>> \in Seq(Seq(E)) /\ s \o <<>> = s /\ FlattenSeq(s) \in Seq(E) /\ FlattenSeq(<<>>) = <<>>
    BY EmptySeq, ConcatEmptySeq, FlattenType
  <2> QED BY <2>1, ConcatEmptySeq
<1>2. ASSUME NEW u \in Seq(Seq(E)), NEW e \in Seq(E), u \in T PROVE Append(u, e) \in T
  <2>1. Append(u, e) \in Seq(Seq(E)) /\ s \o Append(u, e) = Append(s \o u, e) /\ s \o u \in Seq(Seq(E))
    BY AppendIs, ConcatAppend
  <2>2. FlattenSeq(Append(s \o u, e)) = FlattenSeq(s \o u) \o e
    BY <2>1, FlattenStep
  <2>3. FlattenSeq(Append(u, e)) = FlattenSeq(u) \o e
    BY FlattenStep
  <2>4. FlattenSeq(s) \in Seq(E) /\ FlattenSeq(u) \in Seq(E)
    BY FlattenType
  <2>5. (FlattenSeq(s) \o FlattenSeq(u)) \o e = FlattenSeq(s) \o (FlattenSeq(u) \o e)
    BY <2>4, ConcatAssociative
  <2>6. FlattenSeq(s \o u) = FlattenSeq(s) \o FlattenSeq(u)
    BY <1>2
  <2>7. FlattenSeq(s \o Append(u, e)) = FlattenSeq(s \o u) \o e
    BY <2>1, <2>2, ZenonT(60)
  <2>8. FlattenSeq(s \o Append(u, e)) = FlattenSeq(s) \o (FlattenSeq(u) \o e)
    BY <2>5, <2>6, <2>7, ZenonT(60)
  <2>9. FlattenSeq(s \o Append(u, e)) = FlattenSeq(s) \o FlattenSeq(Append(u, e))
    BY <2>3, <2>8, ZenonT(60)
  <2> QED BY <2>1, <2>9
<1> HIDE DEF T
<1>3. t \in T
  BY <1>1, <1>2, SequenceInduction
<1> QED BY <1>3 DEF T
-----------------------------------------------------------------------------
(* Texts: characters and newlines.                                         *)

Char == [kind : {"plain", "stop"}, at : Nat]
Sym  == Char \cup {Newline}

\* Stripping leaves the characters.
LEMMA StripIs ==
    ASSUME NEW u \in Seq(Sym)
    PROVE  /\ Strip(u) = Filtered(u, Char) /\ Strip(u) \in Seq(Char) /\ Strip(u) \in Seq(Sym)
           /\ Len(Strip(u)) \in 0..Len(u)
<1>1. Newline \notin Char /\ \A c \in Sym : c # Newline <=> c \in Char
  <2>1. \A c \in Char : c.kind # "newline"
    BY DEF Char
  <2> QED BY <2>1 DEF Newline, Sym
<1> DEFINE K == {x \in {u[i] : i \in DOMAIN u} : x # Newline}
<1>2. Strip(u) = Filtered(u, K)
  BY DEF Strip, Selected
<1>3. Range(u) \cap K = Range(u) \cap Char
  <2>1. Range(u) = {u[i] : i \in DOMAIN u} /\ Range(u) \subseteq Sym
    BY RangeOfSeq DEF Range
  <2> QED BY <1>1, <2>1
<1> HIDE DEF K
<1>4. Strip(u) = Filtered(u, Char)
  BY <1>2, <1>3, FilteredSame
<1> DEFINE Thin(t) == Filtered(t, Char) \in Seq(Char) /\ Len(Filtered(t, Char)) \in 0..Len(t)
           T == {t \in Seq(Sym) : Thin(t)}
<1>5. <<>> \in T
  <2>1. <<>> \in Seq(Sym) /\ <<>> \in Seq(Char) /\ Len(<<>>) = 0 /\ 0 \in 0..0
    BY EmptySeq
  <2>2. Thin(<<>>)
    BY <2>1, FilteredEmpty
  <2> HIDE DEF Thin
  <2> QED BY <2>1, <2>2
<1>6. ASSUME NEW t \in Seq(Sym), NEW c \in Sym, t \in T PROVE Append(t, c) \in T
  <2>1. /\ Append(t, c) \in Seq(Sym) /\ Len(Append(t, c)) = Len(t) + 1
        /\ Filtered(t, Char) \in Seq(Char) /\ Len(Filtered(t, Char)) \in 0..Len(t) /\ Len(t) \in Nat
    BY <1>6, AppendProperties, LenProperties
  <2>2. CASE c \in Char
    <3>1. Filtered(Append(t, c), Char) = Append(Filtered(t, Char), c)
      BY <2>2, FilteredIn
    <3>2. /\ Append(Filtered(t, Char), c) \in Seq(Char)
          /\ Len(Append(Filtered(t, Char), c)) = Len(Filtered(t, Char)) + 1
      BY <2>1, <2>2, AppendProperties
    <3>3. Thin(Append(t, c))
      BY <2>1, <3>1, <3>2
    <3> HIDE DEF Thin
    <3> QED BY <2>1, <3>3
  <2>3. CASE c \notin Char
    <3>1. Filtered(Append(t, c), Char) = Filtered(t, Char)
      BY <2>3, FilteredOut
    <3> QED BY <2>1, <3>1
  <2> QED BY <2>2, <2>3
<1> HIDE DEF T
<1>7. u \in T
  BY <1>5, <1>6, SequenceInduction
<1>8. Strip(u) \in Seq(Char) /\ Len(Strip(u)) \in 0..Len(u)
  BY <1>4, <1>7 DEF T
<1>9. Strip(u) \in Seq(Sym)
  BY <1>8, SeqMonotonic DEF Sym
<1> QED BY <1>4, <1>8, <1>9

\* It goes through concatenation, leaves characters alone and takes newlines away.
LEMMA StripFacts ==
    /\ \A u, v \in Seq(Sym) : Strip(u \o v) = Strip(u) \o Strip(v)
    /\ \A u \in Seq(Char) : u \in Seq(Sym) /\ Strip(u) = u
    /\ <<Newline>> \in Seq(Sym) /\ Strip(<<Newline>>) = <<>> /\ <<>> \in Seq(Sym) /\ Strip(<<>>) = <<>>
<1>1. ASSUME NEW u \in Seq(Sym), NEW v \in Seq(Sym) PROVE Strip(u \o v) = Strip(u) \o Strip(v)
  <2>1. u \o v \in Seq(Sym)
    BY ConcatProperties
  <2>2. Filtered(u \o v, Char) = Filtered(u, Char) \o Filtered(v, Char)
    BY FilteredConcat
  <2> QED BY <2>1, <2>2, StripIs
<1>2. <<>> \in Seq(Sym) /\ Strip(<<>>) = <<>>
  BY EmptySeq, StripIs, FilteredEmpty
<1>3. <<Newline>> \in Seq(Sym) /\ Strip(<<Newline>>) = <<>>
  <2>1. Newline \in Sym /\ Newline \notin Char
    <3>1. \A c \in Char : c.kind # "newline"
      BY DEF Char
    <3> QED BY <3>1 DEF Newline, Sym
  <2>2. <<Newline>> \in Seq(Sym) /\ Append(<<>>, Newline) = <<Newline>>
    BY <2>1, Single
  <2>3. Filtered(Append(<<>>, Newline), Char) = Filtered(<<>>, Char)
    BY <1>2, <2>1, FilteredOut
  <2> QED BY <2>2, <2>3, StripIs, FilteredEmpty
<1>4. ASSUME NEW u \in Seq(Char) PROVE u \in Seq(Sym) /\ Strip(u) = u
  <2> DEFINE T == {t \in Seq(Char) : Filtered(t, Char) = t}
  <2>1. <<>> \in T
    BY EmptySeq, FilteredEmpty
  <2>2. ASSUME NEW t \in Seq(Char), NEW c \in Char, t \in T PROVE Append(t, c) \in T
    BY <2>2, FilteredIn, AppendProperties
  <2> HIDE DEF T
  <2>3. u \in T
    BY <2>1, <2>2, SequenceInduction
  <2>4. u \in Seq(Sym)
    BY SeqMonotonic DEF Sym
  <2> QED BY <2>3, <2>4, StripIs DEF T
<1> QED BY <1>1, <1>2, <1>3, <1>4

\* Two texts in one.
LEMMA JoinedToIs ==
    ASSUME NEW u \in Seq(Sym), NEW v \in Seq(Sym)
    PROVE  /\ JoinedTo(u, v) \in Seq(Sym)
           /\ Len(JoinedTo(u, v)) = IF u = <<>> THEN Len(v) ELSE Len(u) + 1 + Len(v)
           /\ Strip(JoinedTo(u, v)) = Strip(u) \o Strip(v)
<1>1. CASE u = <<>>
  <2>1. Strip(v) \in Seq(Char) /\ Strip(u) = <<>> /\ JoinedTo(u, v) = v
    BY <1>1, StripIs, StripFacts DEF JoinedTo
  <2> QED BY <1>1, <2>1, ConcatEmptySeq
<1>2. CASE u # <<>>
  <2> DEFINE m == u \o <<Newline>>
  <2>1. <<Newline>> \in Seq(Sym) /\ Len(<<Newline>>) = 1 /\ Strip(<<Newline>>) = <<>>
    BY StripFacts
  <2>2. m \in Seq(Sym) /\ Len(m) = Len(u) + 1 /\ Len(u) \in Nat /\ Len(v) \in Nat
    BY <2>1, ConcatProperties, LenProperties
  <2>3. Strip(m) = Strip(u)
    <3>1. \A w \in Seq(Sym) : Strip(u \o w) = Strip(u) \o Strip(w)
      BY StripFacts
    <3>2. Strip(m) = Strip(u) \o Strip(<<Newline>>)
      BY ONLY <2>1, <3>1
    <3>3. Strip(u) \in Seq(Char)
      BY StripIs
    <3> QED BY <2>1, <3>2, <3>3, ConcatEmptySeq
  <2>4. JoinedTo(u, v) = m \o v
    BY <1>2 DEF JoinedTo
  <2> HIDE DEF m
  <2>5. m \o v \in Seq(Sym) /\ Len(m \o v) = Len(m) + Len(v)
    BY <2>2, ConcatProperties
  <2>6. Strip(m \o v) = Strip(m) \o Strip(v)
    BY <2>2, StripFacts
  <2> QED BY <1>2, <2>2, <2>3, <2>4, <2>5, <2>6
<1> QED BY <1>1, <1>2

JoinSteps(lines) == [n \in 1..Len(lines) |-> [u \in Seq(Sym) |-> JoinedTo(u, lines[n])]]
Joins(f, lines) ==
    /\ Recurs(f, Seq(Sym), <<>>, Len(lines), JoinSteps(lines))
    /\ Joined(lines) = f[Len(lines)]

\* The recursive function behind Joined exists.
LEMMA JoinedUnfolds ==
    ASSUME NEW lines \in Seq(Seq(Sym))
    PROVE  \E f : Joins(f, lines)
<1> DEFINE N == Len(lines)
           S == Seq(Sym)
           step == JoinSteps(lines)
           text(g) == [n \in 0..N |-> IF n = 0 THEN <<>> ELSE JoinedTo(g[n - 1], lines[n])]
<1>1. N \in Nat /\ <<>> \in S /\ \A n \in 1..N : lines[n] \in S
  BY LenProperties, EmptySeq, ElementOfSeq
<1>2. step \in [1..N -> [S -> S]]
  <2>1. \A n \in 1..N, u \in S : JoinedTo(u, lines[n]) \in S
    BY <1>1, JoinedToIs
  <2> QED BY <2>1 DEF JoinSteps
<1>3. \A n \in 1..N, u \in S : step[n][u] = JoinedTo(u, lines[n])
  BY DEF JoinSteps
<1>4. \A n \in 1..N : n - 1 \in 0..N /\ n \in 0..N /\ n # 0
  BY <1>1
<1> HIDE DEF S, step, N
<1>5. PICK g : Recurs(g, S, <<>>, N, step)
  BY <1>1, <1>2, Recursion
<1>6. g = text(g)
  <2>1. g \in [0..N -> S] /\ g[0] = <<>> /\ \A n \in 1..N : g[n] = step[n][g[n - 1]]
    BY <1>5 DEF Recurs
  <2>2. \A n \in 1..N : g[n] = JoinedTo(g[n - 1], lines[n])
    BY <1>3, <1>4, <2>1
  <2>3. \A n \in 0..N : g[n] = IF n = 0 THEN <<>> ELSE JoinedTo(g[n - 1], lines[n])
    BY <1>1, <2>1, <2>2
  <2> QED BY <2>1, <2>3
<1> DEFINE c == CHOOSE h : h = text(h)
<1>7. c = text(c)
  BY <1>6
<1>8. Joined(lines) = c[N]
  BY DEF Joined, N
<1> HIDE DEF c
<1>9. c = [n \in 0..N |-> c[n]]
  BY <1>7
<1>10. \A n \in 0..N : c[n] = IF n = 0 THEN <<>> ELSE JoinedTo(c[n - 1], lines[n])
  BY <1>7
<1>11. c[0] = <<>> /\ \A n \in 1..N : c[n] = JoinedTo(c[n - 1], lines[n])
  BY <1>1, <1>4, <1>10
<1>12. Recurs(c, S, <<>>, N, step)
  <2>1. \A n \in 1..N : c[n - 1] \in S => c[n] = step[n][c[n - 1]]
    BY <1>3, <1>11
  <2> QED BY <1>1, <1>2, <1>9, <1>11, <2>1, Chosen
<1> QED BY <1>8, <1>12 DEF Joins, S, step, N

\* What joining gives for one line more.
LEMMA JoinedStep ==
    ASSUME NEW lines \in Seq(Seq(Sym)), NEW l \in Seq(Sym)
    PROVE  /\ Joined(lines) \in Seq(Sym)
           /\ Joined(<<>>) = <<>>
           /\ Joined(Append(lines, l)) = JoinedTo(Joined(lines), l)
<1> DEFINE t == Append(lines, l)
           N == Len(lines)
           S == Seq(Sym)
<1>1. /\ N \in Nat /\ t \in Seq(S) /\ Len(t) = N + 1 /\ t[N + 1] = l
      /\ \A n \in 1..N : t[n] = lines[n] /\ lines[n] \in S
  BY AppendProperties, LenProperties, ElementOfSeq
<1> HIDE DEF t, N
<1>2. PICK f : Joins(f, lines)
  BY JoinedUnfolds
<1>3. PICK g : Joins(g, t)
  BY <1>1, JoinedUnfolds
<1> DEFINE step == JoinSteps(lines)
           next == JoinSteps(t)
<1>4. step \in [1..N -> [S -> S]] /\ next \in [1..N + 1 -> [S -> S]]
  <2>1. \A n \in 1..N, u \in S : JoinedTo(u, lines[n]) \in S
    BY <1>1, JoinedToIs
  <2>2. \A n \in 1..N + 1, u \in S : JoinedTo(u, t[n]) \in S
    <3>1. \A n \in 1..N + 1 : t[n] \in S
      BY <1>1, ElementOfSeq
    <3> QED BY <3>1, JoinedToIs
  <2> QED BY <1>1, <2>1, <2>2 DEF JoinSteps, N
<1>5. \A n \in 1..N : next[n] = step[n]
  BY <1>1 DEF JoinSteps, N
<1>6. \A u \in S : next[N + 1][u] = JoinedTo(u, l)
  BY <1>1 DEF JoinSteps
<1>7. Recurs(f, S, <<>>, N, step) /\ Joined(lines) = f[N]
  BY <1>2 DEF Joins, N
<1>8. Recurs(g, S, <<>>, N + 1, next) /\ Joined(t) = g[N + 1]
  BY <1>1, <1>3 DEF Joins
<1>9. f[N] \in S /\ g[N + 1] = next[N + 1][f[N]]
  <2>1. <<>> \in S
    BY EmptySeq
  <2>2. Further(g, f, S, <<>>, N, next, step)
    BY <1>1, <1>4, <1>5, <1>7, <1>8, <2>1 DEF Further
  <2> HIDE DEF step, next, S
  <2> QED BY <2>2, Continues
<1>10. Joined(<<>>) = <<>>
  <2>1. <<>> \in Seq(Seq(Sym)) /\ Len(<<>>) = 0
    BY EmptySeq
  <2>2. PICK h : Joins(h, <<>>)
    BY <2>1, JoinedUnfolds
  <2> QED BY <2>1, <2>2 DEF Joins, Recurs
<1> QED BY <1>6, <1>7, <1>8, <1>9, <1>10 DEF t, N

\* The lines of a text are what it has.
LEMMA JoinedWhole ==
    ASSUME NEW lines \in Seq(Seq(Char))
    PROVE  Joined(lines) \in Seq(Sym) /\ Strip(Joined(lines)) = FlattenSeq(lines)
<1> DEFINE T == {ls \in Seq(Seq(Char)) : Strip(Joined(ls)) = FlattenSeq(ls)}
<1>0. Seq(Char) \subseteq Seq(Sym) /\ \A ls \in Seq(Seq(Char)) : ls \in Seq(Seq(Sym))
  <2>1. Seq(Char) \subseteq Seq(Sym)
    BY StripFacts
  <2> QED BY <2>1, SeqMonotonic
<1>1. <<>> \in T
  <2>1. <<>> \in Seq(Seq(Char)) /\ <<>> \in Seq(Sym)
    BY EmptySeq
  <2>2. Joined(<<>>) = <<>>
    BY <1>0, <2>1, JoinedStep
  <2> QED BY <2>1, <2>2, StripFacts, FlattenType
<1>2. ASSUME NEW ls \in Seq(Seq(Char)), NEW l \in Seq(Char), ls \in T PROVE Append(ls, l) \in T
  <2>1. Append(ls, l) \in Seq(Seq(Char)) /\ ls \in Seq(Seq(Sym)) /\ l \in Seq(Sym) /\ Strip(l) = l
    BY <1>0, AppendProperties, StripFacts
  <2>2. Joined(ls) \in Seq(Sym) /\ Joined(Append(ls, l)) = JoinedTo(Joined(ls), l)
    BY <2>1, JoinedStep
  <2>3. Strip(JoinedTo(Joined(ls), l)) = Strip(Joined(ls)) \o Strip(l)
    BY <2>1, <2>2, JoinedToIs
  <2>4. FlattenSeq(Append(ls, l)) = FlattenSeq(ls) \o l
    BY FlattenStep
  <2> QED BY <1>2, <2>1, <2>2, <2>3, <2>4
<1> HIDE DEF T
<1>3. lines \in T
  BY <1>1, <1>2, SequenceInduction
<1>4. Joined(lines) \in Seq(Sym)
  <2>1. lines \in Seq(Seq(Sym)) /\ <<>> \in Seq(Sym)
    BY <1>0, EmptySeq
  <2> QED BY <2>1, JoinedStep
<1> QED BY <1>3, <1>4 DEF T

\* Stripping pieces loses nothing but newlines and leaves no piece empty.
LEMMA StrippedIs ==
    ASSUME NEW ps \in Seq(Seq(Sym))
    PROVE  /\ Stripped(ps) \in Seq(Seq(Char) \ {<<>>})
           /\ FlattenSeq(Stripped(ps)) = Strip(FlattenSeq(ps))
<1> DEFINE G == Seq(Char) \ {<<>>}
           Q(qs) == [n \in DOMAIN qs |-> Strip(qs[n])]
           Fine(qs) == /\ Filtered(Q(qs), G) \in Seq(G)
                       /\ FlattenSeq(Filtered(Q(qs), G)) = Strip(FlattenSeq(qs))
           T == {qs \in Seq(Seq(Sym)) : Fine(qs)}
<1>1. \A qs \in Seq(Seq(Sym)) :
          /\ Q(qs) \in Seq(Seq(Char)) /\ Len(Q(qs)) = Len(qs)
          /\ \A n \in 1..Len(qs) : Q(qs)[n] = Strip(qs[n])
  <2> SUFFICES ASSUME NEW qs \in Seq(Seq(Sym))
               PROVE  /\ Q(qs) \in Seq(Seq(Char)) /\ Len(Q(qs)) = Len(qs)
                      /\ \A n \in 1..Len(qs) : Q(qs)[n] = Strip(qs[n])
    OBVIOUS
  <2>1. DOMAIN qs = 1..Len(qs) /\ Len(qs) \in Nat /\ \A n \in 1..Len(qs) : qs[n] \in Seq(Sym)
    BY LenProperties, ElementOfSeq
  <2>2. \A n \in 1..Len(qs) : Strip(qs[n]) \in Seq(Char)
    BY <2>1, StripIs
  <2> QED BY <2>1, <2>2
<1>2. Stripped(ps) = Filtered(Q(ps), G)
  <2> DEFINE q == Q(ps)
             K == {x \in {q[i] : i \in DOMAIN q} : x # <<>>}
  <2>1. Stripped(ps) = Filtered(q, K)
    BY DEF Stripped, Selected
  <2>2. q \in Seq(Seq(Char))
    BY <1>1
  <2> HIDE DEF q
  <2>3. Range(q) = {q[i] : i \in DOMAIN q} /\ Range(q) \subseteq Seq(Char)
    BY <2>2, RangeOfSeq DEF Range
  <2>4. Range(q) \cap K = Range(q) \cap G
    BY <2>3
  <2> HIDE DEF G, K
  <2>5. Filtered(q, K) = Filtered(q, G)
    BY <2>2, <2>4, FilteredSame
  <2> QED BY <2>1, <2>5 DEF q
<1>3. <<>> \in T
  <2>1. <<>> \in Seq(Seq(Sym)) /\ <<>> \in Seq(G) /\ <<>> \in Seq(Seq(Char)) /\ Len(<<>>) = 0
    BY EmptySeq
  <2>2. Q(<<>>) = <<>>
    BY <1>1, <2>1, EmptySeq
  <2>3. FlattenSeq(<<>>) = <<>>
    BY <2>1, FlattenType
  <2>4. Fine(<<>>)
    BY <2>1, <2>2, <2>3, FilteredEmpty, StripFacts
  <2> HIDE DEF Fine
  <2> QED BY <2>1, <2>4
<1>4. ASSUME NEW qs \in Seq(Seq(Sym)), NEW p \in Seq(Sym), qs \in T PROVE Append(qs, p) \in T
  <2> DEFINE t == Append(qs, p)
             r == Filtered(Q(qs), G)
  <2>1. t \in Seq(Seq(Sym)) /\ Len(t) = Len(qs) + 1 /\ t[Len(qs) + 1] = p /\ Len(qs) \in Nat
        /\ \A n \in 1..Len(qs) : t[n] = qs[n]
    BY AppendProperties, LenProperties
  <2>2. Strip(p) \in Seq(Char) /\ Q(qs) \in Seq(Seq(Char))
    BY <1>1, StripIs
  <2>3. Q(t) = Append(Q(qs), Strip(p))
    <3> HIDE DEF t
    <3> DEFINE a == Append(Q(qs), Strip(p))
    <3>1. /\ Q(t) \in Seq(Seq(Char)) /\ Len(Q(t)) = Len(qs) + 1
          /\ Q(t)[Len(qs) + 1] = Strip(p) /\ \A n \in 1..Len(qs) : Q(t)[n] = Strip(qs[n])
      <4>1. /\ Q(t) \in Seq(Seq(Char)) /\ Len(Q(t)) = Len(t)
            /\ \A n \in 1..Len(t) : Q(t)[n] = Strip(t[n])
        BY <1>1, <2>1
      <4> HIDE DEF Q
      <4>2. \A n \in 1..Len(qs) : n \in 1..Len(t)
        BY <2>1
      <4>3. Len(qs) + 1 \in 1..Len(t)
        BY <2>1
      <4> QED BY <2>1, <4>1, <4>2, <4>3
    <3>2. /\ a \in Seq(Seq(Char)) /\ Len(a) = Len(qs) + 1
          /\ a[Len(qs) + 1] = Strip(p) /\ \A n \in 1..Len(qs) : a[n] = Strip(qs[n])
      <4> HIDE DEF Q
      <4> QED BY <1>1, <2>1, <2>2, AppendProperties
    <3> HIDE DEF a, Q
    <3>3. ASSUME NEW n \in 1..Len(qs) + 1 PROVE Q(t)[n] = a[n]
      <4>1. n = Len(qs) + 1 \/ n \in 1..Len(qs)
        BY <2>1
      <4> QED BY <3>1, <3>2, <4>1
    <3>4. Q(t) = a
      BY <3>1, <3>2, <3>3, SeqEqual
    <3> QED BY <3>4 DEF a
  <2>4. FlattenSeq(t) = FlattenSeq(qs) \o p /\ FlattenSeq(qs) \in Seq(Sym)
    BY FlattenStep, FlattenType
  <2>5. Strip(FlattenSeq(t)) = Strip(FlattenSeq(qs)) \o Strip(p)
    BY <2>4, StripFacts
  <2>6. r \in Seq(G) /\ FlattenSeq(r) = Strip(FlattenSeq(qs))
    BY <1>4
  <2>7. r \in Seq(Seq(Char))
    BY <2>6, SeqMonotonic
  <2>8. CASE Strip(p) = <<>>
    <3>1. Filtered(Q(t), G) = r
      <4>1. Strip(p) \notin G
        BY <2>8
      <4> HIDE DEF G, Q, t
      <4> QED BY <2>2, <2>3, <4>1, FilteredOut
    <3>2. Strip(FlattenSeq(qs)) \o <<>> = Strip(FlattenSeq(qs))
      BY <2>4, StripIs, ConcatEmptySeq
    <3>3. Fine(t)
      <4> HIDE DEF Q, t, r
      <4> QED BY <2>5, <2>6, <2>8, <3>1, <3>2
    <3> HIDE DEF Fine, t
    <3> QED BY <2>1, <3>3 DEF t
  <2>9. CASE Strip(p) # <<>>
    <3>1. Strip(p) \in G
      BY <2>2, <2>9
    <3>2. Filtered(Q(t), G) = Append(r, Strip(p))
      <4> HIDE DEF G, Q, t
      <4> QED BY <2>2, <2>3, <3>1, FilteredIn
    <3>3. Append(r, Strip(p)) \in Seq(G)
      <4> HIDE DEF G, r
      <4> QED BY <2>6, <3>1, AppendProperties
    <3>4. FlattenSeq(Append(r, Strip(p))) = FlattenSeq(r) \o Strip(p)
      <4> HIDE DEF r
      <4> QED BY <2>2, <2>7, FlattenStep
    <3>5. Fine(t)
      <4> HIDE DEF Q, t, r
      <4> QED BY <2>5, <2>6, <3>2, <3>3, <3>4
    <3> HIDE DEF Fine, t
    <3> QED BY <2>1, <3>5 DEF t
  <2> QED BY <2>8, <2>9
<1>5. ps \in T
  <2> HIDE DEF T
  <2> QED BY <1>3, <1>4, SequenceInduction
<1> QED BY <1>2, <1>5

-----------------------------------------------------------------------------
(* _atomize.                                                               *)

\* Quotient and remainder of positive numbers, and those of the number before.
LEMMA Remainders ==
    ASSUME NEW N \in Nat, NEW L \in Nat, L > 0
    PROVE  /\ N % L \in 0..(L - 1) /\ 0 % L = 0
           /\ N > 0 /\ N % L # 0 => (N - 1) % L = (N % L) - 1
<1>1. N % L \in 0..(L - 1) /\ N \div L \in Nat /\ N = L * (N \div L) + (N % L)
  OBVIOUS
<1>2. ASSUME NEW q \in Nat, NEW r \in 0..(L - 1), NEW p \in Nat, NEW s \in 0..(L - 1),
             L * q + r = L * p + s
      PROVE  q = p /\ r = s
  BY <1>2
<1>3. 0 % L = 0
  <2>1. 0 % L \in 0..(L - 1) /\ 0 \div L \in Nat /\ 0 = L * (0 \div L) + (0 % L)
    OBVIOUS
  <2>2. L * 0 + 0 = 0
    OBVIOUS
  <2> QED BY <1>2, <2>1, <2>2
<1>4. ASSUME N > 0, N % L # 0 PROVE (N - 1) % L = (N % L) - 1
  <2> DEFINE M == N - 1
  <2>1. M \in Nat
    BY <1>4
  <2>2. M % L \in 0..(L - 1) /\ M \div L \in Nat /\ M = L * (M \div L) + (M % L)
    BY <2>1
  <2>3. (N % L) - 1 \in 0..(L - 1) /\ M = L * (N \div L) + ((N % L) - 1)
    BY <1>1, <1>4
  <2> DEFINE q == M \div L
             r == M % L
             p == N \div L
             k == (N % L) - 1
  <2>4. q \in Nat /\ r \in 0..(L - 1) /\ p \in Nat /\ k \in 0..(L - 1) /\ M = L * q + r /\ M = L * p + k
    BY <1>1, <2>2, <2>3
  <2> HIDE DEF q, r, p, k, M
  <2>5. r = k
    BY <1>2, <2>4
  <2> QED BY <2>5 DEF r, k, M
<1> QED BY <1>1, <1>3, <1>4

\* Pieces of pieces are pieces of the whole.
LEMMA FlattenMap ==
    ASSUME NEW E, NEW G, G \subseteq Seq(E)
    PROVE  \A ps \in Seq(Seq(E)) : \A qs \in Seq(Seq(G)) :
              /\ Len(qs) = Len(ps)
              /\ \A n \in 1..Len(ps) : FlattenSeq(qs[n]) = ps[n]
              => FlattenSeq(qs) \in Seq(G) /\ FlattenSeq(FlattenSeq(qs)) = FlattenSeq(ps)
<1> DEFINE Of(ps, qs) == Len(qs) = Len(ps) /\ \A n \in 1..Len(ps) : FlattenSeq(qs[n]) = ps[n]
           T == {ps \in Seq(Seq(E)) : \A qs \in Seq(Seq(G)) : Of(ps, qs) => FlattenSeq(FlattenSeq(qs)) = FlattenSeq(ps)}
<1>1. <<>> \in T
  <2>1. <<>> \in Seq(Seq(E)) /\ <<>> \in Seq(Seq(G)) /\ Len(<<>>) = 0
    BY EmptySeq
  <2>2. FlattenSeq(<<>>) = <<>>
    BY <2>1, FlattenType
  <2>3. ASSUME NEW qs \in Seq(Seq(G)), Of(<<>>, qs) PROVE FlattenSeq(FlattenSeq(qs)) = FlattenSeq(<<>>)
    <3>1. Len(qs) = 0
      BY <2>1, <2>3
    <3>2. qs = <<>>
      BY <3>1, EmptySeq
    <3> QED BY <2>2, <3>2
  <2> HIDE DEF Of
  <2> QED BY <2>1, <2>3
<1>2. ASSUME NEW ps \in Seq(Seq(E)), NEW p \in Seq(E), ps \in T PROVE Append(ps, p) \in T
  <2> DEFINE t == Append(ps, p)
  <2>1. /\ t \in Seq(Seq(E)) /\ Len(t) = Len(ps) + 1 /\ t[Len(ps) + 1] = p /\ Len(ps) \in Nat
        /\ \A n \in 1..Len(ps) : t[n] = ps[n]
    BY AppendProperties, LenProperties
  <2>2. FlattenSeq(t) = FlattenSeq(ps) \o p /\ FlattenSeq(ps) \in Seq(E)
    BY FlattenStep, FlattenType
  <2> HIDE DEF t
  <2>3. ASSUME NEW qs \in Seq(Seq(G)), Of(t, qs) PROVE FlattenSeq(FlattenSeq(qs)) = FlattenSeq(t)
    <3>1. Len(qs) = Len(ps) + 1 /\ \A n \in 1..Len(ps) + 1 : FlattenSeq(qs[n]) = t[n]
      BY <2>1, <2>3
    <3>2. qs # <<>>
      BY <2>1, <3>1, EmptySeq
    <3> DEFINE f == Front(qs)
               l == Last(qs)
    <3>3. f \in Seq(Seq(G)) /\ l \in Seq(G) /\ qs = Append(f, l) /\ Len(f) = Len(ps)
      <4>1. Front(qs) \in Seq(Seq(G)) /\ Last(qs) \in Seq(G) /\ qs = Append(Front(qs), Last(qs))
            /\ Len(Front(qs)) = Len(qs) - 1
        BY <3>2, FrontLast
      <4> QED BY <2>1, <3>1, <4>1
    <3> HIDE DEF f, l
    <3>4. qs[Len(ps) + 1] = l /\ \A n \in 1..Len(ps) : qs[n] = f[n]
      BY <3>3, AppendProperties
    <3>5. Of(ps, f)
      <4>1. \A n \in 1..Len(ps) : FlattenSeq(f[n]) = ps[n]
        <5> SUFFICES ASSUME NEW n \in 1..Len(ps) PROVE FlattenSeq(f[n]) = ps[n]
          OBVIOUS
        <5>1. n \in 1..Len(ps) + 1
          BY <2>1
        <5> QED BY <2>1, <3>1, <3>4, <5>1
      <4> QED BY <3>3, <4>1
    <3>6. FlattenSeq(l) = p
      <4>1. Len(ps) + 1 \in 1..Len(ps) + 1
        BY <2>1
      <4> QED BY <2>1, <3>1, <3>4, <4>1
    <3>7. FlattenSeq(FlattenSeq(f)) = FlattenSeq(ps)
      <4> HIDE DEF Of
      <4> QED BY <1>2, <3>3, <3>5
    <3>8. FlattenSeq(qs) = FlattenSeq(f) \o l /\ FlattenSeq(f) \in Seq(G)
      BY <3>3, FlattenStep, FlattenType
    <3>9. FlattenSeq(f) \in Seq(Seq(E)) /\ l \in Seq(Seq(E))
      BY <3>3, <3>8, SeqMonotonic
    <3>10. FlattenSeq(FlattenSeq(f) \o l) = FlattenSeq(FlattenSeq(f)) \o FlattenSeq(l)
      BY <3>9, FlattenConcat
    <3> QED BY <2>2, <3>6, <3>7, <3>8, <3>10
  <2>4. t \in T
    <3> HIDE DEF Of
    <3> QED BY <2>1, <2>3
  <2> QED BY <2>4 DEF t
<1>3. \A ps \in Seq(Seq(E)) : ps \in T
  <2> HIDE DEF T
  <2> QED BY <1>1, <1>2, SequenceInduction
<1>4. \A qs \in Seq(Seq(G)) : FlattenSeq(qs) \in Seq(G)
  BY FlattenType
<1> QED BY <1>3, <1>4

\* A cut behind every multiple of a length gives pieces that are no longer.
LEMMA CutEven ==
    ASSUME NEW E, NEW s \in Seq(E), NEW length \in Nat, length > 0, NEW ends,
           \A i \in 1..(Len(s) - 1) : i \in ends <=> i % length = 0
    PROVE  CutBehind(s, ends) \in Seq({p \in Seq(E) : Len(p) \in 1..length})
<1> DEFINE P == {p \in Seq(E) : Len(p) \in 1..length}
           Ok(t) == \A i \in 1..(Len(t) - 1) : i \in ends <=> i % length = 0
           Fine(t, ps) == /\ ps \in Seq(P)
                          /\ t # <<>> => ps # <<>> /\ Len(Last(ps)) = ((Len(t) - 1) % length) + 1
           T == {t \in Seq(E) : Ok(t) => Fine(t, CutBehind(t, ends))}
<1>1. <<>> \in T
  <2>1. <<>> \in Seq(E) /\ <<>> \in Seq(P)
    BY EmptySeq
  <2>2. CutBehind(<<>>, ends) = <<>>
    BY <2>1, CutWhole, EmptySeq, CutUnfolds DEF Cuts, Recurs
  <2>3. Fine(<<>>, CutBehind(<<>>, ends))
    BY <2>1, <2>2
  <2> HIDE DEF Fine, Ok
  <2> QED BY <2>1, <2>3
<1>2. ASSUME NEW t \in Seq(E), NEW x \in E, t \in T PROVE Append(t, x) \in T
  <2> DEFINE u == Append(t, x)
             N == Len(t)
             ps == CutBehind(t, ends)
             qs == CutBehind(u, ends)
  <2>1. u \in Seq(E) /\ Len(u) = N + 1 /\ N \in Nat /\ u # <<>>
    BY AppendProperties, LenProperties, EmptySeq
  <2>2. qs = Extended(ps, x, N \in ends) /\ ps \in Seq(Seq(E))
    BY CutStep
  <2>3. <<x>> \in Seq(E) /\ Len(<<x>>) = 1 /\ <<x>> \in P
    BY Single
  <2> HIDE DEF u, ps, qs, N
  <2>4. ASSUME Ok(u) PROVE Fine(u, qs)
    <3>1. Ok(t)
      BY <2>1, <2>4 DEF N
    <3>2. Fine(t, ps)
      <4> HIDE DEF Fine, Ok
      <4> QED BY <1>2, <3>1 DEF ps
    <3>3. N > 0 => (N \in ends <=> N % length = 0)
      BY <2>1, <2>4
    <3>4. N % length \in 0..(length - 1) /\ (N > 0 /\ N % length # 0 => (N - 1) % length = (N % length) - 1)
          /\ 0 % length = 0
      BY <2>1, Remainders
    <3>5. N = 0 <=> t = <<>>
      BY EmptySeq DEF N
    <3>6. ASSUME qs = Append(ps, <<x>>), N % length = 0 PROVE Fine(u, qs)
      <4>1. ps \in Seq(P)
        BY <3>2
      <4>2. qs \in Seq(P) /\ qs # <<>>
        <5> HIDE DEF P
        <5> QED BY <2>3, <3>6, <4>1, AppendIs
      <4>3. Last(qs) = <<x>>
        <5>1. \A y \in Seq(E) : Last(Append(ps, y)) = y
          BY <2>2, LastAppend
        <5> QED BY <2>3, <3>6, <5>1
      <4>4. Len(Last(qs)) = ((Len(u) - 1) % length) + 1
        <5>1. Len(u) - 1 = N
          BY <2>1
        <5>2. (Len(u) - 1) % length = 0
          BY <3>6, <5>1
        <5> QED BY <2>3, <4>3, <5>2
      <4> QED BY <2>1, <4>2, <4>4
    <3>7. CASE ps = <<>>
      <4>1. N = 0
        BY <3>2, <3>5, <3>7
      <4> QED BY <2>2, <3>4, <3>6, <3>7, <4>1 DEF Extended
    <3>8. CASE ps # <<>> /\ N \in ends
      <4>1. N % length = 0
        BY <2>1, <3>3, <3>4, <3>8
      <4> QED BY <2>2, <3>6, <3>8, <4>1 DEF Extended
    <3>9. CASE ps # <<>> /\ N \notin ends
      <4> DEFINE f == Front(ps)
                 l == Last(ps)
                 m == Append(l, x)
      <4>1. ps \in Seq(P)
        BY <3>2
      <4>2. f \in Seq(P) /\ l \in P /\ qs = Append(f, m)
        <5>1. f \in Seq(P) /\ l \in P
          <6> HIDE DEF P
          <6> QED BY <3>9, <4>1, LastOf
        <5> QED BY <2>2, <3>9, <5>1 DEF Extended
      <4>3. t # <<>>
        <5>1. ASSUME t = <<>> PROVE FALSE
          <6>1. ps = <<>>
            BY <5>1, CutStep DEF ps
          <6> QED BY <3>9, <6>1
        <5> QED BY <5>1
      <4>4. N > 0 /\ N % length # 0 /\ (N - 1) % length = (N % length) - 1 /\ Len(l) = ((N - 1) % length) + 1
        BY <2>1, <3>2, <3>3, <3>4, <3>5, <3>9, <4>3 DEF N
      <4> HIDE DEF f, l
      <4>5. m \in Seq(E) /\ Len(m) = Len(l) + 1
        BY <4>2, AppendProperties
      <4>6. m \in P
        BY <3>4, <4>4, <4>5
      <4> HIDE DEF m
      <4>7. qs \in Seq(P) /\ qs # <<>> /\ Last(qs) = m
        <5> HIDE DEF P
        <5> QED BY <4>2, <4>6, AppendIs, LastAppend
      <4> QED BY <2>1, <3>4, <4>4, <4>5, <4>7
    <3> QED BY <3>7, <3>8, <3>9
  <2>5. u \in T
    <3> HIDE DEF Fine, Ok
    <3> QED BY <2>1, <2>4 DEF qs
  <2> QED BY <2>5 DEF u
<1>3. s \in T
  <2> HIDE DEF T
  <2> QED BY <1>1, <1>2, SequenceInduction
<1> QED BY <1>3

\* The quotient rounded up.
LEMMA CeilIs ==
    ASSUME NEW a \in Nat, NEW b \in Nat, a > 0, b > 0
    PROVE  CeilDiv(a, b) \in Nat /\ CeilDiv(a, b) > 0 /\ b * CeilDiv(a, b) >= a /\ b * (CeilDiv(a, b) - 1) < a
<1> DEFINE c == (a + b - 1) \div b
<1>1. c \in Nat /\ c > 0 /\ b * c >= a /\ b * (c - 1) < a
  OBVIOUS
<1> QED BY <1>1 DEF CeilDiv

\* Pieces of characters that are no longer than a chunk.
Short(size) == {p \in Seq(Char) : Len(p) \in 1..size}

\* Equal pieces, as few as will do, are no longer than a chunk.
LEMMA HardCutIs ==
    ASSUME NEW text \in Seq(Char), NEW size \in Nat, size > 0, Len(text) > size
    PROVE  HardCut(text, size) \in Seq(Short(size)) /\ FlattenSeq(HardCut(text, size)) = text
<1> DEFINE N == Len(text)
           k == CeilDiv(N, size)
           length == CeilDiv(N, k)
           ends == {i \in DOMAIN text : i % length = 0}
<1>1. N \in Nat /\ N > 0 /\ DOMAIN text = 1..N
  BY LenProperties
<1>2. k \in Nat /\ k > 0 /\ size * k >= N
  BY <1>1, CeilIs
<1>3. length \in Nat /\ length > 0 /\ k * (length - 1) < N
  <2> HIDE DEF k
  <2> QED BY <1>1, <1>2, CeilIs
<1>4. length <= size
  <2> HIDE DEF k, length, N
  <2> SUFFICES ASSUME length > size PROVE FALSE
    BY <1>3
  <2>1. PICK d \in Nat : length - 1 = size + d
    BY <1>3
  <2>2. k * (length - 1) = size * k + k * d /\ k * d \in Nat /\ size * k \in Nat
    BY <1>2, <2>1
  <2> QED BY <1>1, <1>2, <1>3, <2>2
<1>5. HardCut(text, size) = CutBehind(text, ends)
  BY DEF HardCut
<1> HIDE DEF k, length
<1>6. \A i \in 1..(Len(text) - 1) : i \in ends <=> i % length = 0
  BY <1>1
<1> HIDE DEF ends, N
<1>7. CutBehind(text, ends) \in Seq({p \in Seq(Char) : Len(p) \in 1..length})
  BY <1>3, <1>6, CutEven
<1>8. {p \in Seq(Char) : Len(p) \in 1..length} \subseteq Short(size)
  <2>1. \A n \in 1..length : n \in 1..size
    BY <1>3, <1>4
  <2> QED BY <2>1 DEF Short
<1>9. CutBehind(text, ends) \in Seq(Short(size))
  <2> HIDE DEF Short
  <2> QED BY <1>7, <1>8, SeqMonotonic
<1> QED BY <1>5, <1>9, CutWhole

\* One piece is all there is.
LEMMA FlattenOne ==
    ASSUME NEW E, NEW p \in Seq(E)
    PROVE  <<p>> \in Seq(Seq(E)) /\ FlattenSeq(<<p>>) = p
<1>1. <<>> \in Seq(Seq(E)) /\ FlattenSeq(<<>>) = <<>> /\ <<p>> \in Seq(Seq(E))
  BY EmptySeq, FlattenType, Single
<1>2. FlattenSeq(Append(<<>>, p)) = FlattenSeq(<<>>) \o p
  BY <1>1, FlattenStep
<1>3. Append(<<>>, p) = <<p>>
  OBVIOUS
<1> QED BY <1>1, <1>2, <1>3, ConcatEmptySeq

\* A sentence in pieces.
LEMMA ByLengthIs ==
    ASSUME NEW text \in Seq(Char), text # <<>>, NEW size \in Nat, size > 0
    PROVE  ByLength(text, size) \in Seq(Short(size)) /\ FlattenSeq(ByLength(text, size)) = text
<1>1. Len(text) \in Nat \ {0}
  BY EmptySeq
<1>2. CASE Len(text) <= size
  <2>1. text \in Short(size)
    BY <1>1, <1>2 DEF Short
  <2>2. <<text>> \in Seq(Short(size)) /\ FlattenSeq(<<text>>) = text
    BY <2>1, Single, FlattenOne
  <2> QED BY <1>2, <2>2 DEF ByLength
<1>3. CASE ~(Len(text) <= size)
  BY <1>1, <1>3, HardCutIs DEF ByLength
<1> QED BY <1>2, <1>3

\* A line in pieces.
LEMMA BySentenceIs ==
    ASSUME NEW text \in Seq(Char), text # <<>>, NEW size \in Nat, size > 0
    PROVE  BySentence(text, size) \in Seq(Short(size)) /\ FlattenSeq(BySentence(text, size)) = text
<1>1. Len(text) \in Nat \ {0}
  BY EmptySeq
<1>2. CASE Len(text) <= size
  <2>1. text \in Short(size)
    BY <1>1, <1>2 DEF Short
  <2>2. <<text>> \in Seq(Short(size)) /\ FlattenSeq(<<text>>) = text
    BY <2>1, Single, FlattenOne
  <2> QED BY <1>2, <2>2 DEF BySentence
<1>3. CASE ~(Len(text) <= size)
  <2> DEFINE parts == Sentences(text)
             cuts == [n \in DOMAIN parts |-> ByLength(parts[n], size)]
  <2>1. parts \in Seq(Seq(Char) \ {<<>>}) /\ FlattenSeq(parts) = text
    BY CutWhole DEF Sentences
  <2>2. BySentence(text, size) = FlattenSeq(cuts)
    BY <1>3 DEF BySentence
  <2> HIDE DEF parts
  <2>3. DOMAIN parts = 1..Len(parts) /\ Len(parts) \in Nat /\ parts \in Seq(Seq(Char))
        /\ \A n \in 1..Len(parts) : parts[n] \in Seq(Char) \ {<<>>}
    BY <2>1, LenProperties, ElementOfSeq, SeqMonotonic
  <2>4. \A n \in 1..Len(parts) : /\ ByLength(parts[n], size) \in Seq(Short(size))
                                 /\ FlattenSeq(ByLength(parts[n], size)) = parts[n]
    BY <2>3, ByLengthIs
  <2>5. cuts \in Seq(Seq(Short(size))) /\ Len(cuts) = Len(parts)
        /\ \A n \in 1..Len(parts) : FlattenSeq(cuts[n]) = parts[n]
    BY <2>3, <2>4
  <2>6. Short(size) \subseteq Seq(Char)
    BY DEF Short
  <2> HIDE DEF cuts
  <2>7. FlattenSeq(cuts) \in Seq(Short(size)) /\ FlattenSeq(FlattenSeq(cuts)) = FlattenSeq(parts)
    BY <2>3, <2>5, <2>6, FlattenMap
  <2> QED BY <2>1, <2>2, <2>7
<1> QED BY <1>2, <1>3

\* What a text is made of, and what a chunk is.
Atom(size) == {p \in Seq(Sym) : Len(p) \in 1..size /\ Strip(p) # <<>>}

\* A text in pieces: none is empty or longer than a chunk, and nothing is lost.
LEMMA AtomsIs ==
    ASSUME NEW text \in Seq(Sym), Strip(text) # <<>>, NEW size \in Nat, size > 0
    PROVE  /\ Atoms(text, size) \in Seq(Atom(size))
           /\ Strip(FlattenSeq(Atoms(text, size))) = Strip(text)
<1>1. Len(text) \in Nat \ {0}
  <2>1. text # <<>>
    BY StripFacts
  <2> QED BY <2>1, EmptySeq
<1>2. CASE Len(text) <= size
  <2>1. text \in Atom(size)
    BY <1>1, <1>2 DEF Atom
  <2>2. <<text>> \in Seq(Atom(size)) /\ FlattenSeq(<<text>>) = text
    BY <2>1, Single, FlattenOne
  <2> QED BY <1>2, <2>2 DEF Atoms
<1>3. CASE ~(Len(text) <= size)
  <2> DEFINE ps == CutBehind(text, {i \in DOMAIN text : text[i] = Newline})
             parts == Lines(text)
             cuts == [n \in DOMAIN parts |-> BySentence(parts[n], size)]
  <2>1. ps \in Seq(Seq(Sym)) /\ FlattenSeq(ps) = text
    <3>1. ps \in Seq(Seq(Sym) \ {<<>>}) /\ FlattenSeq(ps) = text
      BY CutWhole
    <3> HIDE DEF ps
    <3> QED BY <3>1, SeqMonotonic
  <2>2. parts \in Seq(Seq(Char) \ {<<>>}) /\ FlattenSeq(parts) = Strip(text)
    <3>1. parts = Stripped(ps)
      BY DEF Lines
    <3> HIDE DEF ps, parts
    <3> QED BY <2>1, <3>1, StrippedIs
  <2>3. Atoms(text, size) = FlattenSeq(cuts)
    BY <1>3 DEF Atoms
  <2> HIDE DEF parts
  <2>4. DOMAIN parts = 1..Len(parts) /\ Len(parts) \in Nat /\ parts \in Seq(Seq(Char))
        /\ \A n \in 1..Len(parts) : parts[n] \in Seq(Char) \ {<<>>}
    BY <2>2, LenProperties, ElementOfSeq, SeqMonotonic
  <2>5. \A n \in 1..Len(parts) : /\ BySentence(parts[n], size) \in Seq(Short(size))
                                 /\ FlattenSeq(BySentence(parts[n], size)) = parts[n]
    BY <2>4, BySentenceIs
  <2>6. cuts \in Seq(Seq(Short(size))) /\ Len(cuts) = Len(parts)
        /\ \A n \in 1..Len(parts) : FlattenSeq(cuts[n]) = parts[n]
    BY <2>4, <2>5
  <2>7. Short(size) \subseteq Seq(Char)
    BY DEF Short
  <2> HIDE DEF cuts
  <2>8. FlattenSeq(cuts) \in Seq(Short(size)) /\ FlattenSeq(FlattenSeq(cuts)) = FlattenSeq(parts)
    BY <2>4, <2>6, <2>7, FlattenMap
  <2>9. Short(size) \subseteq Atom(size)
    <3> SUFFICES ASSUME NEW p \in Short(size) PROVE p \in Atom(size)
      OBVIOUS
    <3>1. p \in Seq(Char) /\ Len(p) \in 1..size
      BY DEF Short
    <3>2. p \in Seq(Sym) /\ Strip(p) = p /\ p # <<>>
      BY <3>1, StripFacts, EmptySeq
    <3> QED BY <3>1, <3>2 DEF Atom
  <2>10. FlattenSeq(cuts) \in Seq(Atom(size))
    <3> HIDE DEF Short, Atom
    <3> QED BY <2>8, <2>9, SeqMonotonic
  <2>11. Strip(text) \in Seq(Char) /\ Strip(Strip(text)) = Strip(text)
    BY StripIs, StripFacts
  <2> QED BY <2>2, <2>3, <2>8, <2>10, <2>11
<1> QED BY <1>2, <1>3

-----------------------------------------------------------------------------
(* _merge.                                                                 *)

MergeSteps(pieces, size, overlap) ==
    [n \in 1..Len(pieces) |-> [cs \in Seq(Seq(Sym)) |-> Merge(cs, pieces[n], size, overlap)]]
Merges(f, pieces, size, overlap) ==
    /\ Recurs(f, Seq(Seq(Sym)), <<>>, Len(pieces), MergeSteps(pieces, size, overlap))
    /\ Merged(pieces, size, overlap) = f[Len(pieces)]

\* The overlap is an end of the last chunk that leaves room for the piece.
IsSeed(seed, before, chunk, piece, size, overlap) ==
    /\ before \in Seq(Sym) /\ seed \in Seq(Sym) /\ chunk = before \o seed
    /\ Len(seed) <= overlap
    /\ seed # <<>> => Len(seed) + 1 + Len(piece) <= size

\* The lesser of two numbers.
LEMMA MinIs ==
    ASSUME NEW i \in Nat, NEW j \in Nat
    PROVE  Min({i, j}) \in Nat /\ Min({i, j}) = IF i <= j THEN i ELSE j
<1> DEFINE S == {i, j}
           k == IF i <= j THEN i ELSE j
<1>1. k \in S /\ \A y \in S : k <= y
  OBVIOUS
<1>2. \A x \in S : (\A y \in S : x <= y) => x = k
  OBVIOUS
<1>3. Min(S) = CHOOSE x \in S : \A y \in S : x <= y
  BY DEF Min
<1> HIDE DEF S
<1>4. Min(S) = k
  BY <1>1, <1>2, <1>3
<1> QED BY <1>4 DEF S

\* Such a seed is what Seed gives.
LEMMA SeedIs ==
    ASSUME NEW chunk \in Seq(Sym), NEW piece \in Seq(Sym), NEW size \in Nat, NEW overlap \in Nat
    PROVE  \E before : IsSeed(Seed(chunk, piece, size, overlap), before, chunk, piece, size, overlap)
<1> DEFINE L == Len(chunk)
           k == Min({overlap, L})
           end == SubSeq(chunk, L - k + 1, L)
           before == SubSeq(chunk, 1, L - k)
<1>1. L \in Nat /\ Len(piece) \in Nat
  BY LenProperties
<1>2. k \in Nat /\ k <= overlap /\ k <= L
  BY <1>1, MinIs
<1> HIDE DEF k
<1>3. end \in Seq(Sym) /\ Len(end) = k /\ before \in Seq(Sym)
  <2>1. \A i \in 1..L : chunk[i] \in Sym
    BY ElementOfSeq
  <2>2. L - k + 1 \in Int /\ L \in Int /\ L - k \in Int /\ L - (L - k + 1) + 1 = k
    BY <1>1, <1>2
  <2>3. \A i \in (L - k + 1)..L : chunk[i] \in Sym
    BY <1>1, <1>2, <2>1
  <2>4. \A i \in 1..(L - k) : chunk[i] \in Sym
    BY <1>1, <1>2, <2>1
  <2> HIDE DEF L
  <2>5. end \in Seq(Sym) /\ Len(end) = IF L - k + 1 <= L THEN L - (L - k + 1) + 1 ELSE 0
    BY <2>2, <2>3, SubSeqProperties
  <2>6. before \in Seq(Sym)
    BY <2>2, <2>4, SubSeqProperties
  <2> QED BY <1>1, <1>2, <2>2, <2>5, <2>6
<1>4. before \o end = chunk
  <2>1. 1 \in 1..Len(chunk) + 1 /\ L - k \in (1 - 1)..Len(chunk) /\ L \in (L - k)..Len(chunk)
    BY <1>1, <1>2
  <2>2. SubSeq(chunk, 1, L - k) \o SubSeq(chunk, (L - k) + 1, L) = SubSeq(chunk, 1, L)
    <3> HIDE DEF L
    <3> QED BY <2>1, ConcatAdjacentSubSeq
  <2>3. SubSeq(chunk, 1, L) = chunk
    BY SubSeqFull
  <2> QED BY <2>2, <2>3
<1>5. Seed(chunk, piece, size, overlap) =
          IF overlap > 0 /\ k + 1 + Len(piece) > size THEN <<>> ELSE end
  BY DEF Seed, k
<1> HIDE DEF end, before, L
<1>6. CASE overlap > 0 /\ k + 1 + Len(piece) > size
  <2>1. <<>> \in Seq(Sym) /\ Len(<<>>) = 0 /\ chunk \o <<>> = chunk
    BY EmptySeq, ConcatEmptySeq
  <2>2. IsSeed(<<>>, chunk, chunk, piece, size, overlap)
    BY <2>1 DEF IsSeed
  <2> QED BY <1>5, <1>6, <2>2
<1>7. CASE ~(overlap > 0 /\ k + 1 + Len(piece) > size)
  <2>1. ASSUME end # <<>> PROVE Len(end) + 1 + Len(piece) <= size
    <3>1. k # 0
      BY <1>3, <2>1, EmptySeq
    <3> QED BY <1>1, <1>2, <1>3, <1>7, <3>1
  <2>2. IsSeed(end, before, chunk, piece, size, overlap)
    BY <1>2, <1>3, <1>4, <2>1 DEF IsSeed
  <2> QED BY <1>5, <1>7, <2>2
<1> QED BY <1>6, <1>7

\* A piece more leaves texts.
LEMMA MergeType ==
    ASSUME NEW cs \in Seq(Seq(Sym)), NEW p \in Seq(Sym), NEW size \in Nat, NEW overlap \in Nat
    PROVE  Merge(cs, p, size, overlap) \in Seq(Seq(Sym))
<1>1. CASE cs = <<>>
  BY <1>1, Single DEF Merge
<1>2. CASE cs # <<>>
  <2> DEFINE l == Last(cs)
             seed == Seed(l, p, size, overlap)
  <2>1. Front(cs) \in Seq(Seq(Sym)) /\ l \in Seq(Sym)
    BY <1>2, FrontLast
  <2>2. seed \in Seq(Sym)
    <3> HIDE DEF l
    <3> QED BY <2>1, SeedIs DEF IsSeed
  <2> HIDE DEF l, seed
  <2>3. JoinedTo(l, p) \in Seq(Sym) /\ JoinedTo(seed, p) \in Seq(Sym)
    BY <2>1, <2>2, JoinedToIs
  <2>4. Append(Front(cs), JoinedTo(l, p)) \in Seq(Seq(Sym)) /\ Append(cs, JoinedTo(seed, p)) \in Seq(Seq(Sym))
    BY <2>1, <2>3, AppendProperties
  <2> QED BY <1>2, <2>4 DEF Merge, l, seed
<1> QED BY <1>1, <1>2

\* The recursive function behind Merged exists.
LEMMA MergedUnfolds ==
    ASSUME NEW pieces \in Seq(Seq(Sym)), NEW size \in Nat, NEW overlap \in Nat
    PROVE  \E f : Merges(f, pieces, size, overlap)
<1> DEFINE N == Len(pieces)
           S == Seq(Seq(Sym))
           step == MergeSteps(pieces, size, overlap)
           chunks(g) == [n \in 0..N |-> IF n = 0 THEN <<>> ELSE Merge(g[n - 1], pieces[n], size, overlap)]
<1>1. N \in Nat /\ <<>> \in S /\ \A n \in 1..N : pieces[n] \in Seq(Sym)
  BY LenProperties, EmptySeq, ElementOfSeq
<1>2. step \in [1..N -> [S -> S]]
  <2>1. \A n \in 1..N, cs \in S : Merge(cs, pieces[n], size, overlap) \in S
    BY <1>1, MergeType
  <2> QED BY <2>1 DEF MergeSteps
<1>3. \A n \in 1..N, cs \in S : step[n][cs] = Merge(cs, pieces[n], size, overlap)
  BY DEF MergeSteps
<1>4. \A n \in 1..N : n - 1 \in 0..N /\ n \in 0..N /\ n # 0
  BY <1>1
<1> HIDE DEF S, step, N
<1>5. PICK g : Recurs(g, S, <<>>, N, step)
  BY <1>1, <1>2, Recursion
<1>6. g = chunks(g)
  <2>1. g \in [0..N -> S] /\ g[0] = <<>> /\ \A n \in 1..N : g[n] = step[n][g[n - 1]]
    BY <1>5 DEF Recurs
  <2>2. \A n \in 1..N : g[n] = Merge(g[n - 1], pieces[n], size, overlap)
    BY <1>3, <1>4, <2>1
  <2>3. \A n \in 0..N : g[n] = IF n = 0 THEN <<>> ELSE Merge(g[n - 1], pieces[n], size, overlap)
    BY <1>1, <2>1, <2>2
  <2> QED BY <2>1, <2>3
<1> DEFINE c == CHOOSE h : h = chunks(h)
<1>7. c = chunks(c)
  BY <1>6
<1>8. Merged(pieces, size, overlap) = c[N]
  BY DEF Merged, N
<1> HIDE DEF c
<1>9. c = [n \in 0..N |-> c[n]]
  BY <1>7
<1>10. \A n \in 0..N : c[n] = IF n = 0 THEN <<>> ELSE Merge(c[n - 1], pieces[n], size, overlap)
  BY <1>7
<1>11. c[0] = <<>> /\ \A n \in 1..N : c[n] = Merge(c[n - 1], pieces[n], size, overlap)
  BY <1>1, <1>4, <1>10
<1>12. Recurs(c, S, <<>>, N, step)
  <2>1. \A n \in 1..N : c[n - 1] \in S => c[n] = step[n][c[n - 1]]
    BY <1>3, <1>11
  <2> QED BY <1>1, <1>2, <1>9, <1>11, <2>1, Chosen
<1> QED BY <1>8, <1>12 DEF Merges, S, step, N

\* What merging gives for one piece more.
LEMMA MergedStep ==
    ASSUME NEW pieces \in Seq(Seq(Sym)), NEW p \in Seq(Sym), NEW size \in Nat, NEW overlap \in Nat
    PROVE  /\ Merged(pieces, size, overlap) \in Seq(Seq(Sym))
           /\ Merged(<<>>, size, overlap) = <<>>
           /\ Merged(Append(pieces, p), size, overlap) =
                  Merge(Merged(pieces, size, overlap), p, size, overlap)
<1> DEFINE t == Append(pieces, p)
           N == Len(pieces)
           S == Seq(Seq(Sym))
<1>1. /\ N \in Nat /\ t \in S /\ Len(t) = N + 1 /\ t[N + 1] = p
      /\ \A n \in 1..N : t[n] = pieces[n] /\ pieces[n] \in Seq(Sym)
  BY AppendProperties, LenProperties, ElementOfSeq
<1> HIDE DEF t, N
<1>2. PICK f : Merges(f, pieces, size, overlap)
  BY MergedUnfolds
<1>3. PICK g : Merges(g, t, size, overlap)
  BY <1>1, MergedUnfolds
<1> DEFINE step == MergeSteps(pieces, size, overlap)
           next == MergeSteps(t, size, overlap)
<1>4. step \in [1..N -> [S -> S]] /\ next \in [1..N + 1 -> [S -> S]]
  <2>1. \A n \in 1..N, cs \in S : Merge(cs, pieces[n], size, overlap) \in S
    BY <1>1, MergeType
  <2>2. \A n \in 1..N + 1, cs \in S : Merge(cs, t[n], size, overlap) \in S
    <3>1. \A n \in 1..N + 1 : t[n] \in Seq(Sym)
      BY <1>1, ElementOfSeq
    <3> QED BY <3>1, MergeType
  <2> QED BY <1>1, <2>1, <2>2 DEF MergeSteps, N
<1>5. \A n \in 1..N : next[n] = step[n]
  BY <1>1 DEF MergeSteps, N
<1>6. \A cs \in S : next[N + 1][cs] = Merge(cs, p, size, overlap)
  BY <1>1 DEF MergeSteps
<1>7. Recurs(f, S, <<>>, N, step) /\ Merged(pieces, size, overlap) = f[N]
  BY <1>2 DEF Merges, N
<1>8. Recurs(g, S, <<>>, N + 1, next) /\ Merged(t, size, overlap) = g[N + 1]
  BY <1>1, <1>3 DEF Merges
<1>9. f[N] \in S /\ g[N + 1] = next[N + 1][f[N]]
  <2>1. <<>> \in S
    BY EmptySeq
  <2>2. Further(g, f, S, <<>>, N, next, step)
    BY <1>1, <1>4, <1>5, <1>7, <1>8, <2>1 DEF Further
  <2> HIDE DEF step, next, S
  <2> QED BY <2>2, Continues
<1>10. Merged(<<>>, size, overlap) = <<>>
  <2>1. <<>> \in Seq(Seq(Sym)) /\ Len(<<>>) = 0
    BY EmptySeq
  <2>2. PICK h : Merges(h, <<>>, size, overlap)
    BY <2>1, MergedUnfolds
  <2> QED BY <2>1, <2>2 DEF Merges, Recurs
<1> QED BY <1>6, <1>7, <1>8, <1>9, <1>10 DEF t, N

-----------------------------------------------------------------------------
(* Where a chunk begins and ends.                                          *)

\* The characters of u are those behind place a, in their order.
From(u, a) == \A i \in 1..Len(u) : u[i].at = a + i

\* What stands in a list behind a list.
LEMMA ConcatIs ==
    ASSUME NEW E, NEW u \in Seq(E), NEW v \in Seq(E)
    PROVE  /\ u \o v \in Seq(E) /\ Len(u) \in Nat /\ Len(v) \in Nat /\ Len(u \o v) = Len(u) + Len(v)
           /\ \A i \in 1..Len(u) : (u \o v)[i] = u[i]
           /\ \A i \in 1..Len(v) : (u \o v)[Len(u) + i] = v[i]
<1> DEFINE w == u \o v
           k == Len(u)
           l == Len(v)
<1>1. k \in Nat /\ l \in Nat
  BY LenProperties
<1>2. w \in Seq(E) /\ Len(w) = k + l /\ \A i \in 1..Len(w) : w[i] = IF i <= k THEN u[i] ELSE v[i - k]
  BY ConcatProperties
<1>3. \A i \in 1..k : i \in 1..(k + l) /\ i <= k
  BY <1>1
<1>4. \A i \in 1..l : k + i \in 1..(k + l) /\ ~(k + i <= k) /\ (k + i) - k = i
  BY <1>1
<1> HIDE DEF w, k, l
<1>5. (\A i \in 1..k : w[i] = u[i]) /\ (\A i \in 1..l : w[k + i] = v[i])
  BY <1>2, <1>3, <1>4
<1> QED BY <1>1, <1>2, <1>5 DEF w, k, l

\* A list with the elements of two is one behind the other.
LEMMA ConcatEqual ==
    ASSUME NEW E, NEW u \in Seq(E), NEW v \in Seq(E), NEW w \in Seq(E), Len(w) = Len(u) + Len(v),
           \A i \in 1..Len(u) : w[i] = u[i], \A i \in 1..Len(v) : w[Len(u) + i] = v[i]
    PROVE  w = u \o v
<1> DEFINE x == u \o v
           k == Len(u)
           l == Len(v)
<1>1. /\ x \in Seq(E) /\ k \in Nat /\ l \in Nat /\ Len(x) = k + l
      /\ (\A i \in 1..k : x[i] = u[i]) /\ (\A i \in 1..l : x[k + i] = v[i])
  BY ConcatIs
<1>2. (\A i \in 1..k : w[i] = u[i]) /\ (\A i \in 1..l : w[k + i] = v[i])
  OBVIOUS
<1> HIDE DEF x, k, l
<1>3. ASSUME NEW i \in 1..(k + l) PROVE w[i] = x[i]
  <2>1. CASE i <= k
    BY <1>1, <1>2, <2>1
  <2>2. CASE i > k
    <3>1. i - k \in 1..l /\ k + (i - k) = i
      BY <1>1, <2>2
    <3> QED BY <1>1, <1>2, <3>1
  <2> QED BY <1>1, <2>1, <2>2
<1>4. Len(w) = Len(x) /\ Len(w) = k + l
  BY <1>1 DEF k, l
<1>5. w = x
  BY <1>1, <1>3, <1>4, SeqEqual
<1> QED BY <1>5 DEF x

\* The parts of a stretch are stretches.
LEMMA FromConcat ==
    ASSUME NEW u \in Seq(Char), NEW v \in Seq(Char), NEW a \in Int
    PROVE  From(u \o v, a) <=> From(u, a) /\ From(v, a + Len(u))
<1> DEFINE w == u \o v
           k == Len(u)
           l == Len(v)
<1>1. k \in Nat /\ l \in Nat
  BY LenProperties
<1>2. Len(w) = k + l /\ (\A i \in 1..k : w[i] = u[i]) /\ (\A i \in 1..l : w[k + i] = v[i])
  BY ConcatIs
<1> HIDE DEF w
<1>3. ASSUME From(w, a) PROVE From(u, a) /\ From(v, a + k)
  <2> HIDE DEF k, l
  <2>1. ASSUME NEW i \in 1..k PROVE w[i] = u[i] /\ w[i].at = a + i
    BY <1>1, <1>2, <1>3 DEF From
  <2>2. ASSUME NEW i \in 1..l PROVE w[k + i] = v[i] /\ w[k + i].at = (a + k) + i
    <3>1. k + i \in 1..Len(w) /\ a + (k + i) = (a + k) + i
      BY <1>1, <1>2
    <3> QED BY <1>2, <1>3, <3>1 DEF From
  <2> QED BY <2>1, <2>2 DEF From, k, l
<1>4. ASSUME From(u, a), From(v, a + k) PROVE From(w, a)
  <2>1. ASSUME NEW i \in 1..(k + l) PROVE w[i].at = a + i
    <3>1. CASE i <= k
      BY <1>1, <1>2, <1>4, <3>1 DEF From
    <3>2. CASE i > k
      <4>1. i - k \in 1..l /\ k + (i - k) = i /\ (a + k) + (i - k) = a + i
        BY <1>1, <3>2
      <4>2. v[i - k].at = (a + k) + (i - k) /\ w[k + (i - k)] = v[i - k]
        BY <1>2, <1>4, <4>1 DEF From
      <4> HIDE DEF k, l
      <4> QED BY <4>1, <4>2
    <3> QED BY <1>1, <3>1, <3>2
  <2> QED BY <1>2, <2>1 DEF From
<1> QED BY <1>3, <1>4 DEF w, k

\* The first and the last place of a text.
Lo(c) == Strip(c)[1].at
Hi(c) == Lo(c) + Len(Strip(c)) - 1

\* What a chunk may be: one stretch, not empty and not too long.
Chunk(size) == {c \in Atom(size) : From(Strip(c), Lo(c) - 1)}

\* A stretch behind a is a chunk, from the place behind a on.
LEMMA Ends ==
    ASSUME NEW size \in Nat, NEW c \in Atom(size), NEW a \in Int, From(Strip(c), a)
    PROVE  c \in Chunk(size) /\ Lo(c) = a + 1 /\ Hi(c) = a + Len(Strip(c)) /\ Len(Strip(c)) > 0
<1>1. Strip(c) \in Seq(Char) /\ Strip(c) # <<>>
  BY StripIs DEF Atom
<1>2. Len(Strip(c)) \in Nat /\ Len(Strip(c)) > 0
  BY <1>1, EmptySeq, LenProperties
<1>3. Lo(c) = a + 1
  BY <1>2 DEF From, Lo
<1>4. Lo(c) - 1 = a /\ Hi(c) = a + Len(Strip(c))
  BY <1>2, <1>3 DEF Hi
<1> QED BY <1>2, <1>3, <1>4 DEF Chunk

\* and a chunk is such a stretch.
LEMMA ChunkIs ==
    ASSUME NEW size \in Nat, NEW c \in Chunk(size)
    PROVE  /\ c \in Seq(Sym) /\ Len(c) \in 1..size /\ Strip(c) \in Seq(Char) /\ Strip(c) # <<>>
           /\ Lo(c) \in Nat /\ Hi(c) \in Nat /\ Len(Strip(c)) \in Nat /\ Len(Strip(c)) > 0
           /\ From(Strip(c), Lo(c) - 1) /\ Hi(c) = Lo(c) + Len(Strip(c)) - 1 /\ Lo(c) <= Hi(c)
<1>1. Strip(c) \in Seq(Char) /\ Strip(c) # <<>> /\ c \in Seq(Sym) /\ Len(c) \in 1..size
  BY StripIs DEF Chunk, Atom
<1>2. Len(Strip(c)) \in Nat /\ Len(Strip(c)) > 0
  BY <1>1, EmptySeq, LenProperties
<1>3. Strip(c)[1] \in Char
  BY <1>1, <1>2, ElementOfSeq
<1>4. Lo(c) \in Nat
  BY <1>3 DEF Lo, Char
<1> QED BY <1>1, <1>2, <1>4 DEF Chunk, Hi

-----------------------------------------------------------------------------
(* What the chunks of a text cover.                                        *)

\* A chunk goes on where the chunk before it ends, or shares `overlap` characters at most.
Meets(c, d, overlap) == Lo(d) <= Hi(c) + 1 /\ Hi(c) - Lo(d) + 1 <= overlap

\* Chunks that cover the places from a + 1 to b.
Chain(cs, a, b, size, overlap) ==
    /\ cs \in Seq(Chunk(size))
    /\ cs = <<>> => a = b
    /\ cs # <<>> => Lo(cs[1]) = a + 1 /\ Hi(cs[Len(cs)]) = b
    /\ \A n \in 1..Len(cs) : a < Lo(cs[n])
    /\ \A m, n \in 1..Len(cs) : m < n => Hi(cs[m]) < Hi(cs[n])
    /\ \A n \in 1..Len(cs) : n > 1 => Meets(cs[n - 1], cs[n], overlap)

\* The chunks behind which d may stand.
Behind(d, cs, a, b, overlap) ==
    /\ cs = <<>> => Lo(d) = a + 1
    /\ cs # <<>> => a < Lo(d) /\ b < Hi(d) /\ Meets(cs[Len(cs)], d, overlap)

\* A chunk more covers more.
LEMMA ChainAppend ==
    ASSUME NEW size \in Nat, NEW overlap \in Nat, NEW a \in Int, NEW b \in Int, NEW cs,
           Chain(cs, a, b, size, overlap), NEW d \in Chunk(size), Behind(d, cs, a, b, overlap)
    PROVE  Chain(Append(cs, d), a, Hi(d), size, overlap)
<1> DEFINE t == Append(cs, d)
           N == Len(cs)
<1>1. cs \in Seq(Chunk(size)) /\ N \in Nat /\ \A n \in 1..N : cs[n] \in Chunk(size)
  BY LenProperties, ElementOfSeq DEF Chain
<1>2. /\ t \in Seq(Chunk(size)) /\ Len(t) = N + 1 /\ t[N + 1] = d /\ t # <<>>
      /\ \A n \in 1..N : t[n] = cs[n]
  BY <1>1, AppendProperties, AppendIs
<1>3. Hi(d) \in Nat /\ Lo(d) \in Nat /\ \A n \in 1..N : Hi(cs[n]) \in Nat /\ Lo(cs[n]) \in Nat
  BY <1>1, ChunkIs
<1> HIDE DEF t, N
<1>4. cs = <<>> <=> N = 0
  BY <1>1, EmptySeq DEF N
<1>5. /\ cs # <<>> => Lo(cs[1]) = a + 1 /\ Hi(cs[N]) = b
      /\ \A n \in 1..N : a < Lo(cs[n])
      /\ \A m, n \in 1..N : m < n => Hi(cs[m]) < Hi(cs[n])
      /\ \A n \in 1..N : n > 1 => Meets(cs[n - 1], cs[n], overlap)
      /\ cs = <<>> => Lo(d) = a + 1
      /\ cs # <<>> => a < Lo(d) /\ b < Hi(d) /\ Meets(cs[N], d, overlap)
  BY DEF Chain, Behind, N
<1>6. Lo(t[1]) = a + 1 /\ Hi(t[Len(t)]) = Hi(d)
  BY <1>1, <1>2, <1>4, <1>5
<1>7. \A n \in 1..N + 1 : a < Lo(t[n])
  <2>1. a < Lo(t[N + 1])
    BY <1>2, <1>4, <1>5
  <2>2. \A n \in 1..N : a < Lo(t[n])
    BY <1>2, <1>5
  <2> QED BY <1>1, <2>1, <2>2
<1>8. ASSUME NEW m \in 1..N + 1, NEW n \in 1..N + 1, m < n PROVE Hi(t[m]) < Hi(t[n])
  <2>1. CASE n <= N
    BY <1>1, <1>2, <1>5, <1>8, <2>1
  <2>2. CASE n = N + 1
    <3>1. m \in 1..N /\ N \in 1..N /\ cs # <<>>
      BY <1>1, <1>4, <1>8, <2>2
    <3>2. Hi(cs[m]) <= Hi(cs[N])
      BY <1>1, <1>3, <1>5, <3>1
    <3> QED BY <1>2, <1>3, <1>5, <2>2, <3>1, <3>2
  <2> QED BY <1>1, <2>1, <2>2
<1>9. ASSUME NEW n \in 1..N + 1, n > 1 PROVE Meets(t[n - 1], t[n], overlap)
  <2>1. n - 1 \in 1..N /\ cs # <<>>
    BY <1>1, <1>4, <1>9
  <2>2. CASE n <= N
    BY <1>1, <1>2, <1>5, <1>9, <2>1, <2>2
  <2>3. CASE n = N + 1
    BY <1>1, <1>2, <1>5, <2>1, <2>3
  <2> QED BY <1>1, <2>2, <2>3
<1> QED BY <1>2, <1>6, <1>7, <1>8, <1>9 DEF Chain, t

\* The last chunk goes on.
LEMMA ChainGrows ==
    ASSUME NEW size \in Nat, NEW overlap \in Nat, NEW a \in Int, NEW b \in Int, NEW cs,
           Chain(cs, a, b, size, overlap), cs # <<>>,
           NEW d \in Chunk(size), Lo(d) = Lo(Last(cs)), b < Hi(d)
    PROVE  Chain(Append(Front(cs), d), a, Hi(d), size, overlap)
<1> DEFINE f == Front(cs)
           l == Last(cs)
           t == Append(f, d)
           N == Len(f)
<1>1. f \in Seq(Chunk(size)) /\ l \in Chunk(size) /\ cs = Append(f, l)
  BY FrontLast DEF Chain
<1> HIDE DEF f, l
<1>2. /\ N \in Nat /\ Len(cs) = N + 1 /\ cs[N + 1] = l
      /\ t \in Seq(Chunk(size)) /\ Len(t) = N + 1 /\ t[N + 1] = d /\ t # <<>>
      /\ \A n \in 1..N : t[n] = cs[n]
  BY <1>1, AppendProperties, LenProperties, AppendIs
<1> HIDE DEF t, N
<1>3. Hi(d) \in Nat /\ Lo(d) \in Nat
  BY ChunkIs
<1>4. /\ Lo(cs[1]) = a + 1 /\ Hi(cs[N + 1]) = b
      /\ \A n \in 1..N + 1 : a < Lo(cs[n])
      /\ \A m, n \in 1..N + 1 : m < n => Hi(cs[m]) < Hi(cs[n])
      /\ \A n \in 1..N + 1 : n > 1 => Meets(cs[n - 1], cs[n], overlap)
  BY <1>2 DEF Chain
<1>5. \A n \in 1..N + 1 : cs[n] \in Chunk(size)
  BY <1>2, ElementOfSeq DEF Chain
<1>6. \A n \in 1..N + 1 : Hi(cs[n]) \in Nat /\ Lo(cs[n]) \in Nat
  BY <1>5, ChunkIs
<1>7. \A n \in 1..N + 1 : Lo(t[n]) = Lo(cs[n])
  <2>1. Lo(t[N + 1]) = Lo(cs[N + 1])
    BY <1>2 DEF l
  <2> QED BY <1>2, <2>1
<1>8. ASSUME NEW m \in 1..N + 1, NEW n \in 1..N + 1, m < n PROVE Hi(t[m]) < Hi(t[n])
  <2>1. m \in 1..N /\ N + 1 \in 1..N + 1 /\ m < N + 1 /\ t[m] = cs[m]
    BY <1>2, <1>8
  <2>2. CASE n \in 1..N
    BY <1>2, <1>4, <1>8, <2>1, <2>2
  <2>3. CASE n = N + 1
    <3>1. Hi(cs[m]) < b /\ Hi(cs[m]) \in Nat
      BY <1>4, <1>6, <2>1
    <3> QED BY <1>2, <1>3, <2>1, <2>3, <3>1
  <2> QED BY <1>2, <2>2, <2>3
<1>9. ASSUME NEW n \in 1..N + 1, n > 1 PROVE Meets(t[n - 1], t[n], overlap)
  <2>1. n - 1 \in 1..N /\ t[n - 1] = cs[n - 1] /\ Lo(t[n]) = Lo(cs[n])
    BY <1>2, <1>7, <1>9
  <2> QED BY <1>4, <1>9, <2>1 DEF Meets
<1>10. Lo(t[1]) = a + 1 /\ Hi(t[Len(t)]) = Hi(d) /\ \A n \in 1..N + 1 : a < Lo(t[n])
  BY <1>2, <1>4, <1>7
<1> QED BY <1>2, <1>8, <1>9, <1>10 DEF Chain, t, f

\* Chunks behind chunks cover what both cover.
LEMMA ChainConcat ==
    ASSUME NEW size \in Nat, NEW overlap \in Nat, NEW a \in Int, NEW b \in Int, NEW e \in Int,
           a <= b, NEW cs, NEW ds,
           Chain(cs, a, b, size, overlap), Chain(ds, b, e, size, overlap)
    PROVE  Chain(cs \o ds, a, e, size, overlap)
<1> DEFINE T == {t \in Seq(Chunk(size)) : \A g \in Int : Chain(t, b, g, size, overlap) => Chain(cs \o t, a, g, size, overlap)}
<1>1. cs \in Seq(Chunk(size)) /\ ds \in Seq(Chunk(size))
  BY DEF Chain
<1>2. <<>> \in T
  <2>1. <<>> \in Seq(Chunk(size)) /\ cs \o <<>> = cs
    BY <1>1, EmptySeq, ConcatEmptySeq
  <2>2. ASSUME NEW g \in Int, Chain(<<>>, b, g, size, overlap) PROVE g = b
    BY <2>2 DEF Chain
  <2> QED BY <2>1, <2>2
<1>3. ASSUME NEW t \in Seq(Chunk(size)), NEW d \in Chunk(size), t \in T PROVE Append(t, d) \in T
  <2> DEFINE s == Append(t, d)
             N == Len(t)
  <2>1. /\ N \in Nat /\ s \in Seq(Chunk(size)) /\ Len(s) = N + 1 /\ s[N + 1] = d /\ s # <<>>
        /\ \A n \in 1..N : s[n] = t[n] /\ t[n] \in Chunk(size)
    BY AppendProperties, LenProperties, AppendIs, ElementOfSeq
  <2> HIDE DEF s, N
  <2>2. SUFFICES ASSUME NEW g \in Int, Chain(s, b, g, size, overlap) PROVE Chain(cs \o s, a, g, size, overlap)
    BY <2>1 DEF s
  <2>3. /\ Lo(s[1]) = b + 1 /\ Hi(s[N + 1]) = g
        /\ \A n \in 1..N + 1 : b < Lo(s[n])
        /\ \A m, n \in 1..N + 1 : m < n => Hi(s[m]) < Hi(s[n])
        /\ \A n \in 1..N + 1 : n > 1 => Meets(s[n - 1], s[n], overlap)
    BY <2>1, <2>2 DEF Chain
  <2>4. cs \o s = Append(cs \o t, d) /\ cs \o t \in Seq(Chunk(size))
    BY <1>1, ConcatAppend DEF s
  <2> DEFINE h == IF t = <<>> THEN b ELSE Hi(t[N])
  <2>5. Hi(d) \in Nat /\ Lo(d) \in Nat /\ h \in Int
    <3>1. CASE t = <<>>
      BY <3>1, ChunkIs
    <3>2. CASE t # <<>>
      <4>1. N # 0
        BY <3>2, EmptySeq DEF N
      <4>2. t[N] \in Chunk(size)
        BY <2>1, <4>1
      <4>3. Hi(t[N]) \in Nat
        BY <4>2, ChunkIs
      <4> QED BY <3>2, <4>3, ChunkIs
    <3> QED BY <3>1, <3>2
  <2>6. t = <<>> <=> N = 0
    BY EmptySeq DEF N
  <2>7. Chain(t, b, h, size, overlap)
    <3>1. t # <<>> => Lo(t[1]) = b + 1 /\ Hi(t[N]) = h
      BY <2>1, <2>3, <2>6
    <3>2. \A n \in 1..N : b < Lo(t[n])
      BY <2>1, <2>3
    <3>3. \A m, n \in 1..N : m < n => Hi(t[m]) < Hi(t[n])
      BY <2>1, <2>3
    <3>4. \A n \in 1..N : n > 1 => Meets(t[n - 1], t[n], overlap)
      <4> SUFFICES ASSUME NEW n \in 1..N, n > 1 PROVE Meets(t[n - 1], t[n], overlap)
        OBVIOUS
      <4>1. n - 1 \in 1..N /\ n \in 1..N + 1
        BY <2>1
      <4> QED BY <2>1, <2>3, <4>1
    <3> QED BY <3>1, <3>2, <3>3, <3>4 DEF Chain, N
  <2>8. Chain(cs \o t, a, h, size, overlap)
    BY <1>3, <2>5, <2>7
  <2>9. Behind(d, cs \o t, a, h, overlap)
    <3>1. b < Lo(d) /\ Hi(d) = g
      BY <2>1, <2>3
    <3>2. a < Lo(d)
      BY <2>5, <3>1
    <3>3. CASE t = <<>>
      <4>1. cs \o t = cs /\ h = b /\ Lo(d) = b + 1
        BY <1>1, <2>1, <2>3, <2>6, <3>3, ConcatEmptySeq
      <4>2. cs = <<>> => Lo(d) = a + 1
        BY <4>1 DEF Chain
      <4>3. Lo(d) <= Hi(d)
        BY ChunkIs
      <4>4. cs # <<>> => Hi(cs[Len(cs)]) = b
        BY DEF Chain
      <4>5. cs # <<>> => Meets(cs[Len(cs)], d, overlap)
        BY <4>1, <4>4 DEF Meets
      <4> QED BY <2>5, <3>2, <4>1, <4>2, <4>3, <4>5 DEF Behind
    <3>4. CASE t # <<>>
      <4>1. h = Hi(t[N]) /\ N \in 1..N /\ N + 1 \in 1..N + 1 /\ N + 1 > 1 /\ (N + 1) - 1 = N
        BY <2>1, <2>6, <3>4
      <4>2. Meets(t[N], d, overlap) /\ h < Hi(d)
        BY <2>1, <2>3, <4>1
      <4>3. (cs \o t)[Len(cs \o t)] = t[N] /\ cs \o t # <<>>
        <5>1. Len(cs \o t) = Len(cs) + N /\ Len(cs) \in Nat
          BY <1>1, ConcatProperties, LenProperties DEF N
        <5>2. Len(cs \o t) \in 1..Len(cs \o t) /\ ~(Len(cs) + N <= Len(cs)) /\ (Len(cs) + N) - Len(cs) = N
          BY <2>1, <4>1, <5>1
        <5>3. (cs \o t)[Len(cs \o t)] = t[N]
          BY <1>1, <5>1, <5>2, ConcatProperties
        <5>4. cs \o t # <<>>
          BY <5>2, EmptySeq
        <5> QED BY <5>3, <5>4
      <4> QED BY <3>2, <4>2, <4>3 DEF Behind
    <3> QED BY <3>3, <3>4
  <2>10. Chain(Append(cs \o t, d), a, Hi(d), size, overlap)
    <3> HIDE DEF h
    <3> QED BY <2>5, <2>8, <2>9, ChainAppend
  <2> QED BY <2>1, <2>3, <2>4, <2>10
<1>4. ds \in T
  <2> HIDE DEF T
  <2> QED BY <1>1, <1>2, <1>3, SequenceInduction
<1> QED BY <1>4

\* Two stretches that meet make a chunk where they fit.
LEMMA Glued ==
    ASSUME NEW size \in Nat, NEW u \in Seq(Sym), NEW p \in Atom(size), NEW k \in Int,
           From(Strip(u), k), From(Strip(p), k + Len(Strip(u))), Len(JoinedTo(u, p)) <= size
    PROVE  /\ JoinedTo(u, p) \in Chunk(size) /\ Lo(JoinedTo(u, p)) = k + 1
           /\ Hi(JoinedTo(u, p)) = k + Len(Strip(u)) + Len(Strip(p))
<1> DEFINE j == JoinedTo(u, p)
<1>1. p \in Seq(Sym) /\ Len(p) \in 1..size /\ Strip(p) # <<>>
  BY DEF Atom
<1>2. /\ j \in Seq(Sym) /\ Len(j) = (IF u = <<>> THEN Len(p) ELSE Len(u) + 1 + Len(p))
      /\ Strip(j) = Strip(u) \o Strip(p)
  BY <1>1, JoinedToIs
<1>3. Strip(u) \in Seq(Char) /\ Strip(p) \in Seq(Char)
  BY <1>1, StripIs
<1>4. Len(Strip(u)) \in Nat /\ Len(Strip(p)) \in Nat /\ Len(Strip(p)) > 0 /\ Len(u) \in Nat
  BY <1>1, <1>3, LenProperties, EmptySeq
<1> HIDE DEF j
<1>5. From(Strip(j), k)
  BY <1>2, <1>3, FromConcat
<1>6. Len(Strip(j)) = Len(Strip(u)) + Len(Strip(p))
  BY <1>2, <1>3, ConcatProperties
<1>7. Strip(j) # <<>>
  BY <1>4, <1>6, EmptySeq
<1>8. Len(j) \in 1..size
  BY <1>1, <1>2, <1>4 DEF j
<1>9. j \in Atom(size)
  BY <1>2, <1>7, <1>8 DEF Atom
<1>10. j \in Chunk(size) /\ Lo(j) = k + 1 /\ Hi(j) = k + Len(Strip(j))
  BY <1>5, <1>9, Ends
<1>11. k + (Len(Strip(u)) + Len(Strip(p))) = k + Len(Strip(u)) + Len(Strip(p))
  BY <1>4
<1> QED BY <1>6, <1>10, <1>11 DEF j

\* A piece more: it goes on with the last chunk or begins a chunk behind it.
LEMMA MergeCovers ==
    ASSUME NEW size \in Nat, NEW overlap \in Nat, NEW a \in Int, NEW b \in Int, NEW cs,
           Chain(cs, a, b, size, overlap), NEW p \in Atom(size), From(Strip(p), b)
    PROVE  Chain(Merge(cs, p, size, overlap), a, b + Len(Strip(p)), size, overlap)
<1> DEFINE l == Last(cs)
           joined == JoinedTo(l, p)
           seed == Seed(l, p, size, overlap)
           glued == JoinedTo(seed, p)
<1>1. cs \in Seq(Chunk(size))
  BY DEF Chain
<1>2. p \in Chunk(size) /\ Lo(p) = b + 1 /\ Hi(p) = b + Len(Strip(p)) /\ Len(Strip(p)) \in Nat /\ Len(Strip(p)) > 0
  BY Ends, ChunkIs
<1>3. p \in Seq(Sym) /\ Len(p) \in 1..size
  BY <1>2, ChunkIs
<1>4. CASE cs = <<>>
  <2>1. a = b /\ Behind(p, cs, a, b, overlap)
    BY <1>2, <1>4 DEF Chain, Behind
  <2>2. Chain(Append(cs, p), a, Hi(p), size, overlap)
    BY <1>2, <2>1, ChainAppend
  <2>3. Merge(cs, p, size, overlap) = Append(cs, p)
    BY <1>4 DEF Merge
  <2> QED BY <1>2, <2>2, <2>3
<1>5. CASE cs # <<>>
  <2>1. l \in Chunk(size) /\ l = cs[Len(cs)]
    BY <1>1, <1>5, FrontLast DEF Last
  <2>2. Hi(l) = b /\ a < Lo(l)
    <3>1. Len(cs) \in 1..Len(cs)
      BY <1>1, <1>5, EmptySeq, LenProperties
    <3> HIDE DEF l
    <3> QED BY <1>5, <2>1, <3>1 DEF Chain
  <2>3. /\ l \in Seq(Sym) /\ Len(l) \in 1..size /\ Strip(l) \in Seq(Char)
        /\ Lo(l) \in Nat /\ Len(Strip(l)) \in Nat /\ Len(Strip(l)) > 0 /\ Len(l) \in Nat
        /\ From(Strip(l), Lo(l) - 1) /\ b = Lo(l) + Len(Strip(l)) - 1
    BY <2>1, <2>2, ChunkIs, LenProperties
  <2>4. Merge(cs, p, size, overlap) = IF Len(joined) <= size THEN Append(Front(cs), joined)
                                      ELSE Append(cs, glued)
    BY <1>5 DEF Merge
  <2>5. CASE Len(joined) <= size
    <3> HIDE DEF l
    <3>1. (Lo(l) - 1) + Len(Strip(l)) = b /\ Lo(l) - 1 \in Int
      BY <2>3
    <3>2. /\ joined \in Chunk(size) /\ Lo(joined) = (Lo(l) - 1) + 1
          /\ Hi(joined) = (Lo(l) - 1) + Len(Strip(l)) + Len(Strip(p))
      BY <2>3, <2>5, <3>1, Glued
    <3>3. Lo(joined) = Lo(l) /\ Hi(joined) = b + Len(Strip(p)) /\ b < Hi(joined)
      <4> DEFINE j == joined
                 x == Len(Strip(l))
                 y == Len(Strip(p))
      <4>1. Lo(j) = (Lo(l) - 1) + 1 /\ Hi(j) = (Lo(l) - 1) + x + y /\ (Lo(l) - 1) + x = b
        BY <3>1, <3>2
      <4>2. Lo(l) \in Nat /\ x \in Nat /\ y \in Nat /\ y > 0
        BY <1>2, <2>3
      <4> HIDE DEF j, x, y
      <4>3. Lo(j) = Lo(l) /\ Hi(j) = b + y /\ b < Hi(j)
        BY ONLY <4>1, <4>2
      <4> QED BY <4>3 DEF j, y
    <3> HIDE DEF joined
    <3>4. Chain(Append(Front(cs), joined), a, Hi(joined), size, overlap)
      BY <1>5, <3>2, <3>3, ChainGrows DEF l
    <3> QED BY <2>4, <2>5, <3>3, <3>4
  <2>6. CASE ~(Len(joined) <= size)
    <3>1. PICK before : IsSeed(seed, before, l, p, size, overlap)
      <4> HIDE DEF l
      <4> QED BY <1>3, <2>3, SeedIs
    <3> HIDE DEF l, seed, joined
    <3>2. before \in Seq(Sym) /\ seed \in Seq(Sym) /\ l = before \o seed /\ Len(seed) <= overlap
      BY <3>1 DEF IsSeed
    <3>3. Strip(l) = Strip(before) \o Strip(seed)
      BY <3>2, StripFacts
    <3>4. Strip(before) \in Seq(Char) /\ Strip(seed) \in Seq(Char) /\ Len(Strip(seed)) \in 0..Len(seed)
      BY <3>2, StripIs
    <3> DEFINE m == Len(Strip(before))
               k == Len(Strip(seed))
    <3>5. m \in Nat /\ k \in Nat /\ Len(seed) \in Nat /\ k <= overlap
      BY <3>2, <3>4, LenProperties
    <3>6. Len(Strip(l)) = m + k
      BY <3>3, <3>4, ConcatProperties
    <3>7. From(Strip(seed), (Lo(l) - 1) + m)
      BY <2>3, <3>3, <3>4, FromConcat
    <3> HIDE DEF m
    <3>8. (Lo(l) - 1) + m = b - k /\ (b - k) + k = b /\ b - k \in Int
      BY <2>3, <3>5, <3>6
    <3>9. Len(glued) <= size
      <4>1. Len(glued) = IF seed = <<>> THEN Len(p) ELSE Len(seed) + 1 + Len(p)
        BY <1>3, <3>2, JoinedToIs
      <4>2. seed # <<>> => Len(seed) + 1 + Len(p) <= size
        BY <3>1 DEF IsSeed
      <4> QED BY <1>3, <4>1, <4>2
    <3>10. /\ glued \in Chunk(size) /\ Lo(glued) = (b - k) + 1
           /\ Hi(glued) = (b - k) + k + Len(Strip(p))
      BY <3>2, <3>7, <3>8, <3>9, Glued
    <3>11. Hi(glued) = b + Len(Strip(p))
      BY <1>2, <3>8, <3>10
    <3>12. Behind(glued, cs, a, b, overlap)
      <4> HIDE DEF k, glued
      <4>1. a < Lo(glued)
        <5>1. Lo(glued) = ((Lo(l) - 1) + m) + 1 /\ Lo(l) \in Nat /\ m \in Nat
          BY <2>3, <3>5, <3>8, <3>10 DEF m
        <5> QED BY ONLY <5>1, <2>2, a \in Int
      <4>2. b < Hi(glued)
        BY <1>2, <3>11
      <4>3. Meets(l, glued, overlap)
        BY <2>2, <3>5, <3>10 DEF Meets
      <4> QED BY <1>5, <2>1, <4>1, <4>2, <4>3 DEF Behind
    <3>13. Chain(Append(cs, glued), a, Hi(glued), size, overlap)
      <4> HIDE DEF glued
      <4> QED BY <3>10, <3>12, ChainAppend
    <3> QED BY <2>4, <2>6, <3>11, <3>13
  <2> QED BY <2>5, <2>6
<1> QED BY <1>4, <1>5

\* The chunks of a text cover it.
LEMMA MergedCovers ==
    ASSUME NEW size \in Nat, NEW overlap \in Nat, NEW a \in Int, NEW pieces \in Seq(Atom(size)),
           From(Strip(FlattenSeq(pieces)), a)
    PROVE  Chain(Merged(pieces, size, overlap), a, a + Len(Strip(FlattenSeq(pieces))), size, overlap)
<1> DEFINE Fine(t) == From(Strip(FlattenSeq(t)), a) =>
                          Chain(Merged(t, size, overlap), a, a + Len(Strip(FlattenSeq(t))), size, overlap)
           T == {t \in Seq(Atom(size)) : Fine(t)}
<1>1. Atom(size) \subseteq Seq(Sym)
  BY DEF Atom
<1>2. \A t \in Seq(Atom(size)) : t \in Seq(Seq(Sym))
  <2> HIDE DEF Atom
  <2> QED BY <1>1, SeqMonotonic
<1>3. <<>> \in T
  <2>1. <<>> \in Seq(Atom(size)) /\ <<>> \in Seq(Seq(Sym)) /\ Len(<<>>) = 0 /\ <<>> \in Seq(Chunk(size))
    BY EmptySeq
  <2>2. Merged(<<>>, size, overlap) = <<>> /\ FlattenSeq(<<>>) = <<>> /\ Strip(<<>>) = <<>>
    <3>1. Merged(<<>>, size, overlap) = <<>>
      BY <2>1, MergedStep, Single
    <3>2. FlattenSeq(<<>>) = <<>>
      BY <2>1, FlattenType
    <3> QED BY <3>1, <3>2, StripFacts
  <2>3. a + 0 = a
    OBVIOUS
  <2>4. Chain(<<>>, a, a, size, overlap)
    BY <2>1 DEF Chain
  <2>5. Fine(<<>>)
    BY <2>1, <2>2, <2>3, <2>4
  <2> QED BY <2>1, <2>5
<1>4. ASSUME NEW t \in Seq(Atom(size)), NEW p \in Atom(size), t \in T PROVE Append(t, p) \in T
  <2>1. t \in Seq(Seq(Sym)) /\ p \in Seq(Sym) /\ Append(t, p) \in Seq(Atom(size))
    BY <1>1, <1>2, AppendProperties
  <2>2. FlattenSeq(t) \in Seq(Sym) /\ FlattenSeq(Append(t, p)) = FlattenSeq(t) \o p
    BY <2>1, FlattenType, FlattenStep
  <2>3. Strip(FlattenSeq(Append(t, p))) = Strip(FlattenSeq(t)) \o Strip(p)
    BY <2>1, <2>2, StripFacts
  <2> DEFINE u == Strip(FlattenSeq(t))
             v == Strip(p)
  <2>4. u \in Seq(Char) /\ v \in Seq(Char)
    BY <2>1, <2>2, StripIs
  <2>5. Len(u \o v) = Len(u) + Len(v) /\ Len(u) \in Nat /\ Len(v) \in Nat
    BY <2>4, ConcatProperties, LenProperties
  <2>6. Merged(Append(t, p), size, overlap) = Merge(Merged(t, size, overlap), p, size, overlap)
    BY <2>1, MergedStep
  <2>7. Fine(t)
    BY <1>4
  <2>8. Fine(Append(t, p))
    <3> HIDE DEF u, v
    <3> SUFFICES ASSUME From(u \o v, a)
                 PROVE  Chain(Merge(Merged(t, size, overlap), p, size, overlap), a, a + Len(u \o v), size, overlap)
      BY <2>3, <2>6 DEF u, v
    <3>1. From(u, a) /\ From(v, a + Len(u))
      BY <2>4, FromConcat
    <3>2. Chain(Merged(t, size, overlap), a, a + Len(u), size, overlap)
      BY <2>7, <3>1 DEF u
    <3>3. a + Len(u) \in Int /\ (a + Len(u)) + Len(v) = a + Len(u \o v)
      BY <2>5
    <3>4. Chain(Merge(Merged(t, size, overlap), p, size, overlap), a, (a + Len(u)) + Len(v), size, overlap)
      BY <3>1, <3>2, <3>3, MergeCovers DEF v
    <3> QED BY <3>3, <3>4
  <2> HIDE DEF Fine
  <2> QED BY <2>1, <2>8
<1>5. pieces \in T
  <2> HIDE DEF T
  <2> QED BY <1>3, <1>4, SequenceInduction
<1> QED BY <1>5

-----------------------------------------------------------------------------
(* Sections.                                                               *)

\* A line of a file, and a chunk of it.
Block  == [heading : BOOLEAN, text : Seq(Char) \ {<<>>}]
Result == [content : Seq(Sym), heading : Seq(Char)]

TextsOf(bs)    == [n \in DOMAIN bs |-> bs[n].text]
ContentsOf(rs) == [n \in DOMAIN rs |-> rs[n].content]

\* The texts of blocks are lists of characters; they go through concatenation.
LEMMA TextsAre ==
    ASSUME NEW bs \in Seq(Block), NEW cs \in Seq(Block)
    PROVE  /\ TextsOf(bs) \in Seq(Seq(Char) \ {<<>>}) /\ TextsOf(bs) \in Seq(Seq(Char))
           /\ Len(TextsOf(bs)) = Len(bs)
           /\ \A n \in 1..Len(bs) : TextsOf(bs)[n] = bs[n].text /\ bs[n] \in Block
           /\ bs \o cs \in Seq(Block) /\ TextsOf(bs \o cs) = TextsOf(bs) \o TextsOf(cs)
<1> DEFINE G == Seq(Char) \ {<<>>}
<1>1. ASSUME NEW ds \in Seq(Block)
      PROVE  /\ TextsOf(ds) \in Seq(G) /\ TextsOf(ds) \in Seq(Seq(Char)) /\ Len(TextsOf(ds)) = Len(ds)
             /\ DOMAIN ds = 1..Len(ds) /\ Len(ds) \in Nat
             /\ \A n \in 1..Len(ds) : TextsOf(ds)[n] = ds[n].text /\ ds[n] \in Block
  <2>1. DOMAIN ds = 1..Len(ds) /\ Len(ds) \in Nat /\ \A n \in 1..Len(ds) : ds[n] \in Block
    BY LenProperties, ElementOfSeq
  <2>2. \A n \in 1..Len(ds) : TextsOf(ds)[n] = ds[n].text
    BY <2>1 DEF TextsOf
  <2>3. \A n \in 1..Len(ds) : ds[n].text \in G
    BY <2>1 DEF Block
  <2>4. TextsOf(ds) = [n \in 1..Len(ds) |-> ds[n].text]
    BY <2>1 DEF TextsOf
  <2> HIDE DEF G
  <2>5. TextsOf(ds) \in [1..Len(ds) -> G]
    BY <2>3, <2>4
  <2>6. TextsOf(ds) \in Seq(G) /\ Len(TextsOf(ds)) = Len(ds)
    BY <2>1, <2>5, IsASeq, LenProperties
  <2>7. TextsOf(ds) \in Seq(Seq(Char))
    <3>1. G \subseteq Seq(Char)
      BY DEF G
    <3> QED BY <2>6, <3>1, SeqMonotonic
  <2> QED BY <2>1, <2>2, <2>6, <2>7
<1>2. bs \o cs \in Seq(Block) /\ Len(bs \o cs) = Len(bs) + Len(cs)
  BY ConcatProperties
<1> DEFINE x == TextsOf(bs \o cs)
           N == Len(bs) + Len(cs)
<1>3. x \in Seq(Seq(Char)) /\ Len(x) = N /\ \A n \in 1..N : x[n] = (bs \o cs)[n].text
  BY <1>1, <1>2
<1>4. x = TextsOf(bs) \o TextsOf(cs)
  <2> DEFINE u == TextsOf(bs)
             v == TextsOf(cs)
             w == bs \o cs
  <2>1. /\ u \in Seq(Seq(Char)) /\ v \in Seq(Seq(Char)) /\ Len(u) = Len(bs) /\ Len(v) = Len(cs)
        /\ Len(bs) \in Nat /\ Len(cs) \in Nat
        /\ (\A n \in 1..Len(bs) : u[n] = bs[n].text) /\ (\A n \in 1..Len(cs) : v[n] = cs[n].text)
    BY <1>1
  <2>2. (\A i \in 1..Len(bs) : w[i] = bs[i]) /\ (\A i \in 1..Len(cs) : w[Len(bs) + i] = cs[i])
    BY ConcatIs
  <2> HIDE DEF u, v, w, x
  <2>3. \A i \in 1..Len(bs) : x[i] = u[i]
    <3>1. \A i \in 1..Len(bs) : i \in 1..N
      BY <2>1 DEF N
    <3> HIDE DEF N
    <3> QED BY <1>3, <2>1, <2>2, <3>1 DEF w
  <2>4. \A i \in 1..Len(cs) : x[Len(bs) + i] = v[i]
    <3>1. \A i \in 1..Len(cs) : Len(bs) + i \in 1..(Len(bs) + Len(cs))
      BY <2>1
    <3> QED BY <1>3, <2>1, <2>2, <3>1 DEF w
  <2>5. x = u \o v
    <3>1. /\ u \in Seq(Seq(Char)) /\ v \in Seq(Seq(Char)) /\ x \in Seq(Seq(Char)) /\ Len(x) = Len(u) + Len(v)
          /\ (\A i \in 1..Len(u) : x[i] = u[i]) /\ (\A i \in 1..Len(v) : x[Len(u) + i] = v[i])
      BY <1>3, <2>1, <2>3, <2>4
    <3> QED BY <3>1, ConcatEqual
  <2> QED BY <2>5 DEF u, v
<1> QED BY <1>1, <1>2, <1>4

\* The same of the contents of chunks.
LEMMA ContentsAre ==
    ASSUME NEW rs \in Seq(Result), NEW cs \in Seq(Result)
    PROVE  /\ ContentsOf(rs) \in Seq(Seq(Sym)) /\ Len(ContentsOf(rs)) = Len(rs)
           /\ \A n \in 1..Len(rs) : ContentsOf(rs)[n] = rs[n].content /\ rs[n] \in Result
           /\ rs \o cs \in Seq(Result) /\ ContentsOf(rs \o cs) = ContentsOf(rs) \o ContentsOf(cs)
<1>1. ASSUME NEW ds \in Seq(Result)
      PROVE  /\ ContentsOf(ds) \in Seq(Seq(Sym)) /\ Len(ContentsOf(ds)) = Len(ds)
             /\ DOMAIN ds = 1..Len(ds) /\ Len(ds) \in Nat
             /\ \A n \in 1..Len(ds) : ContentsOf(ds)[n] = ds[n].content /\ ds[n] \in Result
  <2>1. DOMAIN ds = 1..Len(ds) /\ Len(ds) \in Nat /\ \A n \in 1..Len(ds) : ds[n] \in Result
    BY LenProperties, ElementOfSeq
  <2>2. \A n \in 1..Len(ds) : ContentsOf(ds)[n] = ds[n].content
    BY <2>1 DEF ContentsOf
  <2>3. \A n \in 1..Len(ds) : ds[n].content \in Seq(Sym)
    BY <2>1 DEF Result
  <2>4. ContentsOf(ds) = [n \in 1..Len(ds) |-> ds[n].content]
    BY <2>1 DEF ContentsOf
  <2>5. ContentsOf(ds) \in [1..Len(ds) -> Seq(Sym)]
    BY <2>3, <2>4
  <2>6. ContentsOf(ds) \in Seq(Seq(Sym)) /\ Len(ContentsOf(ds)) = Len(ds)
    BY <2>1, <2>5, IsASeq, LenProperties
  <2> QED BY <2>1, <2>2, <2>6
<1>2. rs \o cs \in Seq(Result) /\ Len(rs \o cs) = Len(rs) + Len(cs)
  BY ConcatProperties
<1> DEFINE x == ContentsOf(rs \o cs)
           N == Len(rs) + Len(cs)
<1>3. x \in Seq(Seq(Sym)) /\ Len(x) = N /\ \A n \in 1..N : x[n] = (rs \o cs)[n].content
  BY <1>1, <1>2
<1>4. x = ContentsOf(rs) \o ContentsOf(cs)
  <2> DEFINE u == ContentsOf(rs)
             v == ContentsOf(cs)
             w == rs \o cs
  <2>1. /\ u \in Seq(Seq(Sym)) /\ v \in Seq(Seq(Sym)) /\ Len(u) = Len(rs) /\ Len(v) = Len(cs)
        /\ Len(rs) \in Nat /\ Len(cs) \in Nat
        /\ (\A n \in 1..Len(rs) : u[n] = rs[n].content) /\ (\A n \in 1..Len(cs) : v[n] = cs[n].content)
    BY <1>1
  <2>2. (\A i \in 1..Len(rs) : w[i] = rs[i]) /\ (\A i \in 1..Len(cs) : w[Len(rs) + i] = cs[i])
    BY ConcatIs
  <2> HIDE DEF u, v, w, x
  <2>3. \A i \in 1..Len(rs) : x[i] = u[i]
    <3>1. \A i \in 1..Len(rs) : i \in 1..N
      BY <2>1 DEF N
    <3> HIDE DEF N
    <3> QED BY <1>3, <2>1, <2>2, <3>1 DEF w
  <2>4. \A i \in 1..Len(cs) : x[Len(rs) + i] = v[i]
    <3>1. \A i \in 1..Len(cs) : Len(rs) + i \in 1..(Len(rs) + Len(cs))
      BY <2>1
    <3> QED BY <1>3, <2>1, <2>2, <3>1 DEF w
  <2>5. x = u \o v
    <3>1. /\ u \in Seq(Seq(Sym)) /\ v \in Seq(Seq(Sym)) /\ x \in Seq(Seq(Sym)) /\ Len(x) = Len(u) + Len(v)
          /\ (\A i \in 1..Len(u) : x[i] = u[i]) /\ (\A i \in 1..Len(v) : x[Len(u) + i] = v[i])
      BY <1>3, <2>1, <2>3, <2>4
    <3> QED BY <3>1, ConcatEqual
  <2> QED BY <2>5 DEF u, v
<1> QED BY <1>1, <1>2, <1>4

\* A section: a heading may only begin it.
Section == {s \in Seq(Block) : s # <<>> /\ \A i \in 2..Len(s) : ~s[i].heading}

\* Each section but the first begins with a heading.
Sectioned(ps) == ps \in Seq(Section) /\ \A k \in 2..Len(ps) : ps[k][1].heading

\* A block more keeps the sections where it is a heading if and only if it begins one.
LEMMA SectionedExtended ==
    ASSUME NEW ps, Sectioned(ps), NEW x \in Block, NEW new, ps # <<>> => (new <=> x.heading)
    PROVE  Sectioned(Extended(ps, x, new))
<1>1. ps \in Seq(Section) /\ Len(ps) \in Nat /\ \A k \in 2..Len(ps) : ps[k][1].heading
  BY LenProperties DEF Sectioned
<1>2. <<x>> \in Section /\ <<x>>[1] = x
  <2>1. \A y \in Seq(Block) : Len(y) = 1 => y # <<>> /\ 2..Len(y) = {}
    BY EmptySeq
  <2>2. <<x>> \in Seq(Block) /\ Len(<<x>>) = 1
    BY Single
  <2> QED BY <2>1, <2>2 DEF Section
<1>3. CASE ps = <<>> \/ new
  <2> DEFINE t == Append(ps, <<x>>)
             N == Len(ps)
  <2>1. t \in Seq(Section) /\ Len(t) = N + 1 /\ t[N + 1][1] = x /\ \A k \in 1..N : t[k] = ps[k]
    BY <1>1, <1>2, AppendProperties
  <2>2. ASSUME NEW k \in 2..N + 1 PROVE t[k][1].heading
    <3> HIDE DEF t
    <3>1. CASE k <= N
      BY <1>1, <2>1, <3>1
    <3>2. CASE k = N + 1
      <4>1. N # 0
        BY <2>2, <3>2
      <4>2. ps # <<>>
        BY <4>1, EmptySeq
      <4> QED BY <1>3, <2>1, <3>2, <4>2
    <3> QED BY <1>1, <3>1, <3>2
  <2>3. Extended(ps, x, new) = t
    BY <1>3 DEF Extended
  <2> QED BY <2>1, <2>2, <2>3 DEF Sectioned
<1>4. CASE ~(ps = <<>> \/ new)
  <2> DEFINE f == Front(ps)
             l == Last(ps)
             m == Append(l, x)
             t == Append(f, m)
             N == Len(f)
  <2>1. f \in Seq(Section) /\ l \in Section /\ ps = Append(f, l)
    BY <1>1, <1>4, FrontLast
  <2> HIDE DEF f, l
  <2>2. l \in Seq(Block) /\ l # <<>> /\ \A i \in 2..Len(l) : ~l[i].heading
    BY <2>1 DEF Section
  <2>3. Len(l) \in Nat /\ Len(l) > 0
    BY <2>2, LenProperties, EmptySeq
  <2>4. /\ m \in Seq(Block) /\ Len(m) = Len(l) + 1 /\ m[Len(l) + 1] = x /\ m # <<>>
        /\ \A i \in 1..Len(l) : m[i] = l[i]
    BY <2>2, AppendProperties, AppendIs
  <2> HIDE DEF m
  <2>5. ~x.heading
    BY <1>4
  <2>6. m \in Section /\ m[1] = l[1]
    <3>1. ASSUME NEW i \in 2..Len(l) + 1 PROVE ~m[i].heading
      BY <2>2, <2>3, <2>4, <2>5
    <3> QED BY <2>3, <2>4, <3>1 DEF Section
  <2>7. /\ N \in Nat /\ Len(ps) = N + 1 /\ ps[N + 1] = l
        /\ t \in Seq(Section) /\ Len(t) = N + 1 /\ t[N + 1] = m
        /\ \A k \in 1..N : t[k] = f[k] /\ ps[k] = f[k]
    BY <2>1, <2>6, AppendProperties, LenProperties
  <2> HIDE DEF t, N
  <2>8. ASSUME NEW k \in 2..N + 1 PROVE t[k][1].heading
    <3>1. CASE k \in 1..N
      BY <1>1, <2>7, <3>1
    <3>2. CASE k = N + 1
      BY <1>1, <2>6, <2>7, <3>2
    <3> QED BY <2>7, <3>1, <3>2
  <2>9. Extended(ps, x, new) = t
    BY <1>4 DEF Extended, t, m, l, f
  <2> QED BY <2>7, <2>8, <2>9 DEF Sectioned
<1> QED BY <1>3, <1>4

\* Nothing has no pieces.
LEMMA CutNone == ASSUME NEW ends PROVE CutBehind(<<>>, ends) = <<>>
<1>1. <<>> \in Seq(Nat) /\ 0 \in Nat
  BY EmptySeq
<1> QED BY <1>1, CutStep

\* The sections are sections, and they are the file.
LEMMA SectionsAre ==
    ASSUME NEW bs \in Seq(Block)
    PROVE  Sectioned(Sections(bs)) /\ FlattenSeq(Sections(bs)) = bs
<1> DEFINE begins == {n \in DOMAIN bs : n > 1 /\ bs[n].heading}
           ends == {n - 1 : n \in begins}
           Ok(t) == \A n \in 2..Len(t) : n - 1 \in ends <=> t[n].heading
           Fine(t) == Ok(t) => Sectioned(CutBehind(t, ends))
           T == {t \in Seq(Block) : Fine(t)}
<1>1. Ok(bs)
  <2>1. DOMAIN bs = 1..Len(bs) /\ Len(bs) \in Nat
    BY LenProperties
  <2> SUFFICES ASSUME NEW n \in 2..Len(bs) PROVE n - 1 \in ends <=> bs[n].heading
    OBVIOUS
  <2>2. n \in DOMAIN bs /\ n > 1 /\ \A k \in begins : k - 1 = n - 1 => k = n
    BY <2>1
  <2> QED BY <2>2
<1>2. Sections(bs) = CutBehind(bs, ends)
  BY DEF Sections
<1> HIDE DEF ends
<1>3. <<>> \in T
  <2>1. <<>> \in Seq(Block) /\ <<>> \in Seq(Section) /\ Len(<<>>) = 0
    BY EmptySeq
  <2>2. CutBehind(<<>>, ends) = <<>>
    BY CutNone
  <2>3. Sectioned(<<>>)
    BY <2>1 DEF Sectioned
  <2> QED BY <2>1, <2>2, <2>3
<1>4. ASSUME NEW t \in Seq(Block), NEW x \in Block, t \in T PROVE Append(t, x) \in T
  <2> DEFINE u == Append(t, x)
             N == Len(t)
  <2>1. u \in Seq(Block) /\ N \in Nat /\ Len(u) = N + 1 /\ u[N + 1] = x /\ \A n \in 1..N : u[n] = t[n]
    BY AppendProperties, LenProperties
  <2>2. CutBehind(u, ends) = Extended(CutBehind(t, ends), x, N \in ends)
    BY CutStep
  <2> HIDE DEF u, N
  <2>3. SUFFICES ASSUME Ok(u) PROVE Sectioned(CutBehind(u, ends))
    BY <2>1 DEF u
  <2>4. Ok(t)
    <3> SUFFICES ASSUME NEW n \in 2..N PROVE n - 1 \in ends <=> t[n].heading
      BY DEF N
    <3>1. n \in 2..Len(u) /\ n \in 1..N
      BY <2>1
    <3> QED BY <2>1, <2>3, <3>1
  <2>5. Sectioned(CutBehind(t, ends))
    BY <1>4, <2>4
  <2>6. CutBehind(t, ends) # <<>> => (N \in ends <=> x.heading)
    <3> SUFFICES ASSUME CutBehind(t, ends) # <<>> PROVE N \in ends <=> x.heading
      OBVIOUS
    <3>1. t # <<>>
      BY CutNone
    <3>2. N # 0
      BY <3>1, EmptySeq DEF N
    <3>3. N + 1 \in 2..Len(u) /\ (N + 1) - 1 = N
      BY <2>1, <3>2
    <3> QED BY <2>1, <2>3, <3>3
  <2> HIDE DEF Ok
  <2> QED BY <2>2, <2>5, <2>6, SectionedExtended
<1>5. bs \in T
  <2> HIDE DEF T
  <2> QED BY <1>3, <1>4, SequenceInduction
<1>6. FlattenSeq(CutBehind(bs, ends)) = bs
  BY CutWhole
<1> QED BY <1>1, <1>2, <1>5, <1>6

-----------------------------------------------------------------------------
(* Places.                                                                 *)

\* The places of a text are those of its characters.
LEMMA PlacesAre ==
    ASSUME NEW u \in Seq(Sym), NEW a \in Int, From(Strip(u), a)
    PROVE  Places(u) = (a + 1)..(a + Len(Strip(u)))
<1> DEFINE v == Strip(u)
           own == {u[i] : i \in {n \in DOMAIN u : u[n] # Newline}}
<1>1. v = Filtered(u, Char) /\ v \in Seq(Char) /\ Len(v) \in Nat /\ DOMAIN u = 1..Len(u)
  BY StripIs, LenProperties
<1>2. Newline \notin Char
  <2>1. \A c \in Char : c.kind # "newline"
    BY DEF Char
  <2> QED BY <2>1 DEF Newline
<1>3. own = Range(u) \cap Char
  <2>1. \A i \in DOMAIN u : u[i] \in Sym
    BY <1>1, ElementOfSeq
  <2>2. \A i \in DOMAIN u : u[i] # Newline <=> u[i] \in Char
    BY <1>2, <2>1 DEF Sym
  <2>3. Range(u) = {u[i] : i \in DOMAIN u}
    BY DEF Range
  <2> QED BY <2>2, <2>3
<1>4. own = Range(v)
  BY <1>1, <1>3, FilteredRange
<1>5. own = {v[i] : i \in 1..Len(v)}
  <2>1. DOMAIN v = 1..Len(v)
    BY <1>1, LenProperties
  <2> QED BY <1>4, <2>1 DEF Range
<1>6. Places(u) = {c.at : c \in own}
  BY DEF Places
<1> HIDE DEF own, v
<1>7. Places(u) = {v[i].at : i \in 1..Len(v)}
  BY <1>5, <1>6
<1>8. \A i \in 1..Len(v) : v[i].at = a + i
  BY DEF From, v
<1>9. ASSUME NEW p \in (a + 1)..(a + Len(v)) PROVE \E i \in 1..Len(v) : p = a + i
  <2>1. p - a \in 1..Len(v) /\ p = a + (p - a)
    BY <1>1
  <2> QED BY <2>1
<1>10. \A i \in 1..Len(v) : a + i \in (a + 1)..(a + Len(v))
  BY <1>1
<1> QED BY <1>7, <1>8, <1>9, <1>10 DEF v

\* Of a chunk they are those from its first to its last.
LEMMA PlacesOfChunk ==
    ASSUME NEW size \in Nat, NEW c \in Chunk(size)
    PROVE  Places(c) = Lo(c)..Hi(c)
<1>1. /\ c \in Seq(Sym) /\ From(Strip(c), Lo(c) - 1) /\ Lo(c) \in Nat /\ Len(Strip(c)) \in Nat
      /\ Hi(c) = Lo(c) + Len(Strip(c)) - 1
  BY ChunkIs
<1>2. Places(c) = ((Lo(c) - 1) + 1)..((Lo(c) - 1) + Len(Strip(c)))
  <2>1. Lo(c) - 1 \in Int
    BY <1>1
  <2> HIDE DEF Lo
  <2> QED BY <1>1, <2>1, PlacesAre
<1>3. (Lo(c) - 1) + 1 = Lo(c) /\ (Lo(c) - 1) + Len(Strip(c)) = Hi(c)
  BY <1>1
<1> QED BY <1>2, <1>3

\* The lines of a stretch share no place, and each place of it is in one.
Spread(texts, a) ==
    /\ \A p \in (a + 1)..(a + Len(FlattenSeq(texts))) : \E i \in 1..Len(texts) : p \in Places(texts[i])
    /\ \A i \in 1..Len(texts) : Places(texts[i]) \subseteq (a + 1)..(a + Len(FlattenSeq(texts)))
    /\ \A i, j \in 1..Len(texts) : i < j => Places(texts[i]) \cap Places(texts[j]) = {}

\* A text whose characters are numbered is spread so over its lines.
LEMMA Spreads ==
    ASSUME NEW texts \in Seq(Seq(Char)), NEW a \in Int, From(FlattenSeq(texts), a)
    PROVE  Spread(texts, a)
<1> DEFINE Fine(t) == From(FlattenSeq(t), a) => Spread(t, a)
           T == {t \in Seq(Seq(Char)) : Fine(t)}
<1>1. <<>> \in T
  <2>1. <<>> \in Seq(Seq(Char)) /\ Len(<<>>) = 0
    BY EmptySeq
  <2>2. FlattenSeq(<<>>) = <<>>
    BY <2>1, FlattenType
  <2>3. Spread(<<>>, a)
    BY <2>1, <2>2 DEF Spread
  <2> QED BY <2>1, <2>3
<1>2. ASSUME NEW t \in Seq(Seq(Char)), NEW l \in Seq(Char), t \in T PROVE Append(t, l) \in T
  <2> DEFINE u == Append(t, l)
             N == Len(t)
             F == FlattenSeq(t)
             M == Len(F)
             L == Len(l)
  <2>1. u \in Seq(Seq(Char)) /\ N \in Nat /\ Len(u) = N + 1 /\ u[N + 1] = l /\ \A n \in 1..N : u[n] = t[n]
    BY AppendProperties, LenProperties
  <2>2. FlattenSeq(u) = F \o l /\ F \in Seq(Char)
    BY FlattenStep, FlattenType
  <2>3. Len(F \o l) = M + L /\ M \in Nat /\ L \in Nat
    BY <2>2, ConcatIs
  <2> HIDE DEF u, N
  <2>4. SUFFICES ASSUME From(F \o l, a) PROVE Spread(u, a)
    BY <2>1, <2>2 DEF u
  <2>5. From(F, a) /\ From(l, a + M)
    BY <2>2, <2>4, FromConcat
  <2>6. Spread(t, a)
    BY <1>2, <2>5
  <2>7. Places(l) = (a + M + 1)..(a + M + L)
    <3>1. l \in Seq(Sym) /\ Strip(l) = l /\ a + M \in Int
      BY <2>3, StripFacts
    <3> HIDE DEF M, F
    <3>2. Places(l) = ((a + M) + 1)..((a + M) + Len(Strip(l)))
      BY <2>5, <3>1, PlacesAre
    <3> QED BY <3>1, <3>2
  <2> HIDE DEF M, L, F
  <2>8. /\ \A p \in (a + 1)..(a + M) : \E i \in 1..N : p \in Places(t[i])
        /\ \A i \in 1..N : Places(t[i]) \subseteq (a + 1)..(a + M)
        /\ \A i, j \in 1..N : i < j => Places(t[i]) \cap Places(t[j]) = {}
    BY <2>6 DEF Spread, M, N, F
  <2>9. ASSUME NEW p \in (a + 1)..(a + (M + L)) PROVE \E i \in 1..N + 1 : p \in Places(u[i])
    <3>1. CASE p <= a + M
      <4>1. PICK i \in 1..N : p \in Places(t[i])
        BY <2>3, <2>8, <3>1
      <4>2. i \in 1..N + 1 /\ u[i] = t[i]
        BY <2>1
      <4> QED BY <4>1, <4>2
    <3>2. CASE p > a + M
      <4>1. p \in (a + M + 1)..(a + M + L)
        BY <2>3, <3>2
      <4>2. N + 1 \in 1..N + 1
        BY <2>1
      <4> QED BY <2>1, <2>7, <4>1, <4>2
    <3> QED BY <2>3, <3>1, <3>2
  <2>10. ASSUME NEW i \in 1..N + 1 PROVE Places(u[i]) \subseteq (a + 1)..(a + (M + L))
    <3>1. CASE i \in 1..N
      <4>1. (a + 1)..(a + M) \subseteq (a + 1)..(a + (M + L))
        BY <2>3
      <4> QED BY <2>1, <2>8, <3>1, <4>1
    <3>2. CASE i = N + 1
      <4>1. (a + M + 1)..(a + M + L) \subseteq (a + 1)..(a + (M + L))
        BY <2>3
      <4> QED BY <2>1, <2>7, <3>2, <4>1
    <3> QED BY <2>1, <3>1, <3>2
  <2>11. ASSUME NEW i \in 1..N + 1, NEW j \in 1..N + 1, i < j PROVE Places(u[i]) \cap Places(u[j]) = {}
    <3>1. i \in 1..N
      BY <2>1, <2>11
    <3>2. CASE j \in 1..N
      BY <2>1, <2>8, <2>11, <3>1, <3>2
    <3>3. CASE j = N + 1
      <4>1. (a + 1)..(a + M) \cap (a + M + 1)..(a + M + L) = {}
        BY <2>3
      <4> QED BY <2>1, <2>7, <2>8, <3>1, <3>3, <4>1
    <3> QED BY <2>1, <3>2, <3>3
  <2>12. a + Len(FlattenSeq(u)) = a + (M + L)
    BY <2>2, <2>3 DEF M, F
  <2> QED BY <2>1, <2>9, <2>10, <2>11, <2>12 DEF Spread
<1>3. texts \in T
  <2> HIDE DEF T
  <2> QED BY <1>1, <1>2, SequenceInduction
<1> QED BY <1>3

-----------------------------------------------------------------------------
(* The chunks of a file.                                                   *)

\* The chunks of a stretch lie in it.
LEMMA ChainWithin ==
    ASSUME NEW size \in Nat, NEW overlap \in Nat, NEW a \in Int, NEW b \in Int, NEW cs,
           Chain(cs, a, b, size, overlap), NEW n \in 1..Len(cs)
    PROVE  cs[n] \in Chunk(size) /\ Lo(cs[n])..Hi(cs[n]) \subseteq (a + 1)..b
<1>1. cs \in Seq(Chunk(size)) /\ Len(cs) \in Nat
  BY LenProperties DEF Chain
<1>2. \A i \in 1..Len(cs) : cs[i] \in Chunk(size)
  BY <1>1, ElementOfSeq
<1>3. \A i \in 1..Len(cs) : Lo(cs[i]) \in Nat /\ Hi(cs[i]) \in Nat
  BY <1>2, ChunkIs
<1>4. Len(cs) \in 1..Len(cs) /\ cs # <<>>
  BY <1>1, EmptySeq
<1>5. Hi(cs[Len(cs)]) = b /\ a < Lo(cs[n])
  BY <1>4 DEF Chain
<1>6. n < Len(cs) => Hi(cs[n]) < Hi(cs[Len(cs)])
  BY <1>4 DEF Chain
<1>7. Hi(cs[n]) <= b
  BY <1>1, <1>3, <1>5, <1>6
<1>8. Lo(cs[n]) \in Nat /\ Hi(cs[n]) \in Nat
  BY <1>3
<1>9. \A x, y \in Nat : a < x /\ y <= b => x..y \subseteq (a + 1)..b
  OBVIOUS
<1> QED BY <1>2, <1>5, <1>7, <1>8, <1>9

\* Texts that are not empty make one that is not.
LEMMA FlattenNonempty ==
    ASSUME NEW texts \in Seq(Seq(Char) \ {<<>>}), texts # <<>>
    PROVE  FlattenSeq(texts) \in Seq(Char) /\ FlattenSeq(texts) # <<>>
<1> DEFINE f == Front(texts)
           l == Last(texts)
<1>1. f \in Seq(Seq(Char) \ {<<>>}) /\ l \in Seq(Char) \ {<<>>} /\ texts = Append(f, l)
  BY FrontLast
<1> HIDE DEF f, l
<1>2. f \in Seq(Seq(Char)) /\ l \in Seq(Char) /\ l # <<>>
  BY <1>1, SeqMonotonic
<1>3. FlattenSeq(texts) = FlattenSeq(f) \o l /\ FlattenSeq(f) \in Seq(Char)
  BY <1>1, <1>2, FlattenStep, FlattenType
<1>4. Len(l) \in Nat /\ Len(l) # 0
  BY <1>2, LenProperties, EmptySeq
<1>5. /\ FlattenSeq(f) \o l \in Seq(Char) /\ Len(FlattenSeq(f)) \in Nat
      /\ Len(FlattenSeq(f) \o l) = Len(FlattenSeq(f)) + Len(l)
  BY <1>2, <1>3, ConcatIs
<1>6. FlattenSeq(f) \o l # <<>>
  BY <1>4, <1>5, EmptySeq
<1> QED BY <1>3, <1>5, <1>6

\* The heading of a section.
HeadOf(s) == IF s[1].heading THEN s[1].text ELSE <<>>

\* The chunks of a section cover it and have its heading.
LEMMA SectionChunks ==
    ASSUME NEW size \in Nat, size > 0, NEW overlap \in Nat, NEW a \in Int,
           NEW s \in Section, From(FlattenSeq(TextsOf(s)), a)
    PROVE  /\ ChunksOf(s, size, overlap) \in Seq(Result)
           /\ Chain(ContentsOf(ChunksOf(s, size, overlap)), a, a + Len(FlattenSeq(TextsOf(s))), size, overlap)
           /\ \A n \in 1..Len(ChunksOf(s, size, overlap)) : ChunksOf(s, size, overlap)[n].heading = HeadOf(s)
<1> DEFINE texts == TextsOf(s)
           whole == FlattenSeq(texts)
           text == Joined(texts)
           atoms == Atoms(text, size)
           contents == Merged(atoms, size, overlap)
           rs == ChunksOf(s, size, overlap)
<1>1. s \in Seq(Block) /\ s # <<>> /\ Len(s) \in Nat /\ Len(s) > 0
  BY EmptySeq, LenProperties DEF Section
<1>2. texts \in Seq(Seq(Char) \ {<<>>}) /\ texts \in Seq(Seq(Char)) /\ Len(texts) = Len(s)
  BY <1>1, TextsAre
<1> HIDE DEF texts
<1>3. whole \in Seq(Char) /\ whole # <<>>
  <2>1. texts # <<>>
    BY <1>1, <1>2, EmptySeq
  <2> QED BY <1>2, <2>1, FlattenNonempty
<1>4. text \in Seq(Sym) /\ Strip(text) = whole
  BY <1>2, JoinedWhole
<1> HIDE DEF text, whole
<1>5. atoms \in Seq(Atom(size)) /\ Strip(FlattenSeq(atoms)) = whole
  BY <1>3, <1>4, AtomsIs
<1> HIDE DEF atoms
<1>6. From(whole, a)
  BY DEF whole, texts
<1>7. Chain(contents, a, a + Len(whole), size, overlap)
  BY <1>5, <1>6, MergedCovers
<1>8. contents \in Seq(Chunk(size)) /\ Len(contents) \in Nat /\ DOMAIN contents = 1..Len(contents)
  BY <1>7, LenProperties DEF Chain
<1>9. rs = [n \in DOMAIN contents |-> [content |-> contents[n], heading |-> HeadOf(s)]]
  BY DEF ChunksOf, contents, atoms, text, texts, TextsOf, HeadOf
<1> HIDE DEF contents, rs
<1>10. HeadOf(s) \in Seq(Char)
  <2>1. s[1] \in Block
    BY <1>1, ElementOfSeq
  <2>2. <<>> \in Seq(Char)
    BY EmptySeq
  <2> QED BY <2>1, <2>2 DEF HeadOf, Block
<1>11. \A n \in 1..Len(contents) : contents[n] \in Seq(Sym)
  BY <1>8, ElementOfSeq, ChunkIs
<1>12. rs \in [1..Len(contents) -> Result]
  BY <1>8, <1>9, <1>10, <1>11 DEF Result
<1>13. rs \in Seq(Result) /\ Len(rs) = Len(contents)
  BY <1>8, <1>12, IsASeq, LenProperties
<1>14. ContentsOf(rs) = contents
  <2>1. DOMAIN rs = DOMAIN contents /\ \A n \in DOMAIN contents : rs[n].content = contents[n]
    BY <1>9
  <2>2. contents = [n \in DOMAIN contents |-> contents[n]]
    BY <1>8
  <2> QED BY <2>1, <2>2 DEF ContentsOf
<1> QED BY <1>7, <1>8, <1>9, <1>13, <1>14 DEF whole, texts, rs

\* h is the last heading up to the line of the file with place p.
Heads(bs, p, h) ==
    \E b \in 1..Len(bs) :
        /\ p \in Places(bs[b].text)
        /\ \/ h = <<>> /\ \A i \in 1..b : ~bs[i].heading
           \/ \E m \in 1..b : bs[m].heading /\ h = bs[m].text /\ \A i \in (m + 1)..b : ~bs[i].heading

\* What chunks of lines are.
WellSplit(rs, bs, size, overlap) ==
    /\ rs \in Seq(Result)
    /\ Chain(ContentsOf(rs), 0, Len(FlattenSeq(TextsOf(bs))), size, overlap)
    /\ \A n \in 1..Len(rs) : \A p \in Lo(rs[n].content)..Hi(rs[n].content) : Heads(bs, p, rs[n].heading)

\* Lines behind a line change nothing about its heading.
LEMMA HeadsPrefix ==
    ASSUME NEW bs \in Seq(Block), NEW s \in Seq(Block), NEW p, NEW h, Heads(bs, p, h)
    PROVE  Heads(bs \o s, p, h)
<1> DEFINE w == bs \o s
<1>1. /\ Len(bs) \in Nat /\ Len(s) \in Nat /\ Len(w) = Len(bs) + Len(s)
      /\ \A i \in 1..Len(bs) : w[i] = bs[i]
  BY ConcatIs
<1>2. PICK b \in 1..Len(bs) :
        /\ p \in Places(bs[b].text)
        /\ \/ h = <<>> /\ \A i \in 1..b : ~bs[i].heading
           \/ \E m \in 1..b : bs[m].heading /\ h = bs[m].text /\ \A i \in (m + 1)..b : ~bs[i].heading
  BY DEF Heads
<1>3. b \in 1..Len(w) /\ \A i \in 1..b : i \in 1..Len(bs)
  BY <1>1
<1>4. \A m \in 1..b : \A i \in (m + 1)..b : i \in 1..b
  BY <1>1
<1> HIDE DEF w
<1>5. \A i \in 1..b : w[i] = bs[i]
  BY <1>1, <1>3
<1>6. b \in 1..b
  BY <1>1
<1>7. p \in Places(w[b].text)
  BY <1>2, <1>5, <1>6
<1>8. CASE h = <<>> /\ \A i \in 1..b : ~bs[i].heading
  <2>1. \A i \in 1..b : ~w[i].heading
    BY <1>5, <1>8
  <2> QED BY <1>3, <1>7, <1>8, <2>1 DEF Heads, w
<1>9. CASE \E m \in 1..b : bs[m].heading /\ h = bs[m].text /\ \A i \in (m + 1)..b : ~bs[i].heading
  <2>1. PICK m \in 1..b : bs[m].heading /\ h = bs[m].text /\ \A i \in (m + 1)..b : ~bs[i].heading
    BY <1>9
  <2>2. w[m].heading /\ h = w[m].text /\ \A i \in (m + 1)..b : ~w[i].heading
    BY <1>4, <1>5, <2>1
  <2> QED BY <1>3, <1>7, <2>2 DEF Heads, w
<1> QED BY <1>2, <1>8, <1>9

\* A section that begins with a heading, or at the beginning, has its own.
LEMMA HeadsNew ==
    ASSUME NEW bs \in Seq(Block), NEW s \in Section, bs # <<>> => s[1].heading,
           NEW j \in 1..Len(s), NEW p \in Places(s[j].text)
    PROVE  Heads(bs \o s, p, HeadOf(s))
<1> DEFINE w == bs \o s
           k == Len(bs)
           b == k + j
<1>1. s \in Seq(Block) /\ s # <<>> /\ \A i \in 2..Len(s) : ~s[i].heading
  BY DEF Section
<1>2. /\ k \in Nat /\ Len(s) \in Nat /\ Len(w) = k + Len(s)
      /\ (\A i \in 1..Len(s) : w[k + i] = s[i])
  BY <1>1, ConcatIs
<1> HIDE DEF w
<1>3. b \in 1..Len(w) /\ p \in Places(w[b].text)
  BY <1>2
<1>4. \A i \in (k + 2)..b : ~w[i].heading
  <2> SUFFICES ASSUME NEW i \in (k + 2)..b PROVE ~w[i].heading
    OBVIOUS
  <2>1. i - k \in 2..Len(s) /\ i - k \in 1..Len(s) /\ k + (i - k) = i
    BY <1>2
  <2> HIDE DEF k
  <2> QED BY <1>1, <1>2, <2>1
<1>5. w[k + 1] = s[1] /\ k + 1 \in 1..b /\ (k + 1) + 1 = k + 2
  BY <1>2
<1>6. CASE s[1].heading
  <2>1. w[k + 1].heading /\ HeadOf(s) = w[k + 1].text
    BY <1>5, <1>6 DEF HeadOf
  <2> QED BY <1>3, <1>4, <1>5, <2>1 DEF Heads, w
<1>7. CASE ~s[1].heading
  <2>1. k = 0 /\ HeadOf(s) = <<>>
    BY <1>7, EmptySeq DEF HeadOf
  <2>2. \A i \in 1..b : i = k + 1 \/ i \in (k + 2)..b
    BY <1>2, <2>1
  <2>3. \A i \in 1..b : ~w[i].heading
    BY <1>4, <1>5, <1>7, <2>2
  <2> QED BY <1>3, <2>1, <2>3 DEF Heads, w
<1> QED BY <1>6, <1>7

\* The chunks of a section behind those of the lines before it.
LEMMA WellSplitGrows ==
    ASSUME NEW size \in Nat, size > 0, NEW overlap \in Nat, NEW rs, NEW bs \in Seq(Block),
           WellSplit(rs, bs, size, overlap), NEW s \in Section, bs # <<>> => s[1].heading,
           From(FlattenSeq(TextsOf(bs \o s)), 0)
    PROVE  WellSplit(rs \o ChunksOf(s, size, overlap), bs \o s, size, overlap)
<1> DEFINE cs == ChunksOf(s, size, overlap)
           u == FlattenSeq(TextsOf(bs))
           v == FlattenSeq(TextsOf(s))
           a == Len(u)
           b == a + Len(v)
<1>1. s \in Seq(Block)
  BY DEF Section
<1>2. /\ TextsOf(bs) \in Seq(Seq(Char)) /\ TextsOf(s) \in Seq(Seq(Char)) /\ Len(TextsOf(s)) = Len(s)
      /\ TextsOf(bs \o s) = TextsOf(bs) \o TextsOf(s) /\ bs \o s \in Seq(Block)
      /\ \A i \in 1..Len(s) : TextsOf(s)[i] = s[i].text
  BY <1>1, TextsAre
<1>3. u \in Seq(Char) /\ v \in Seq(Char) /\ FlattenSeq(TextsOf(bs \o s)) = u \o v
  BY <1>2, FlattenType, FlattenConcat
<1> HIDE DEF u, v
<1>4. a \in Nat /\ Len(v) \in Nat /\ Len(u \o v) = b /\ b \in Nat
  BY <1>3, ConcatIs
<1>5. From(v, a)
  <2>1. From(u \o v, 0) /\ 0 + a = a
    BY <1>3, <1>4
  <2> QED BY <1>3, <2>1, FromConcat
<1>6. /\ cs \in Seq(Result) /\ Chain(ContentsOf(cs), a, b, size, overlap)
      /\ \A n \in 1..Len(cs) : cs[n].heading = HeadOf(s)
  BY <1>4, <1>5, SectionChunks DEF v
<1> HIDE DEF cs
<1>7. rs \in Seq(Result) /\ Chain(ContentsOf(rs), 0, a, size, overlap)
  BY DEF WellSplit, u
<1>8. Chain(ContentsOf(rs \o cs), 0, b, size, overlap)
  <2>1. ContentsOf(rs \o cs) = ContentsOf(rs) \o ContentsOf(cs)
    BY <1>6, <1>7, ContentsAre
  <2>2. 0 <= a /\ 0 \in Int /\ a \in Int /\ b \in Int
    BY <1>4
  <2> HIDE DEF a, b
  <2>3. Chain(ContentsOf(rs) \o ContentsOf(cs), 0, b, size, overlap)
    BY <1>6, <1>7, <2>2, ChainConcat
  <2> QED BY <2>1, <2>3
<1>9. ASSUME NEW n \in 1..Len(rs \o cs),
             NEW p \in Lo((rs \o cs)[n].content)..Hi((rs \o cs)[n].content)
      PROVE  Heads(bs \o s, p, (rs \o cs)[n].heading)
  <2> DEFINE w == rs \o cs
             k == Len(rs)
  <2>1. /\ k \in Nat /\ Len(cs) \in Nat /\ Len(w) = k + Len(cs)
        /\ (\A i \in 1..k : w[i] = rs[i]) /\ (\A i \in 1..Len(cs) : w[k + i] = cs[i])
    BY <1>6, <1>7, ConcatIs
  <2>2. p \in Lo(w[n].content)..Hi(w[n].content) /\ n \in 1..Len(w)
    OBVIOUS
  <2> HIDE DEF w
  <2>3. CASE n <= k
    <3>1. n \in 1..k /\ w[n] = rs[n]
      BY <2>1, <2>2, <2>3
    <3>2. Heads(bs, p, rs[n].heading)
      BY <2>2, <3>1 DEF WellSplit
    <3>3. Heads(bs \o s, p, rs[n].heading)
      BY <1>1, <3>2, HeadsPrefix
    <3> QED BY <3>1, <3>3 DEF w
  <2>4. CASE n > k
    <3> DEFINE i == n - k
    <3>1. i \in 1..Len(cs) /\ k + i = n
      BY <2>1, <2>2, <2>4
    <3>2. w[n] = cs[i]
      BY <2>1, <3>1
    <3> HIDE DEF i, k
    <3>3. w[n].heading = HeadOf(s) /\ w[n].content = ContentsOf(cs)[i] /\ i \in 1..Len(ContentsOf(cs))
      BY <1>6, <3>1, <3>2, ContentsAre
    <3>4. p \in (a + 1)..b
      <4>1. a \in Int /\ b \in Int
        BY <1>4
      <4> HIDE DEF a, b
      <4>2. Lo(ContentsOf(cs)[i])..Hi(ContentsOf(cs)[i]) \subseteq (a + 1)..b
        BY <1>6, <3>3, <4>1, ChainWithin
      <4> QED BY <2>2, <3>3, <4>2
    <3>5. Spread(TextsOf(s), a)
      <4>1. a \in Int
        BY <1>4
      <4> HIDE DEF a
      <4> QED BY <1>2, <1>5, <4>1, Spreads DEF v
    <3>6. PICK j \in 1..Len(s) : p \in Places(s[j].text)
      BY <1>2, <3>4, <3>5 DEF Spread, v
    <3>7. Heads(bs \o s, p, HeadOf(s))
      BY <3>6, HeadsNew
    <3> QED BY <3>3, <3>7 DEF w
  <2> QED BY <2>1, <2>2, <2>3, <2>4
<1>10. rs \o cs \in Seq(Result)
  BY <1>6, <1>7, ContentsAre
<1>11. Chain(ContentsOf(rs \o cs), 0, Len(FlattenSeq(TextsOf(bs \o s))), size, overlap)
  BY <1>3, <1>4, <1>8
<1> QED BY <1>9, <1>10, <1>11 DEF WellSplit, cs

\* The chunks of all sections.
Doc(secs, size, overlap) == FlattenSeq([n \in DOMAIN secs |-> ChunksOf(secs[n], size, overlap)])

\* The chunks of the sections of lines are chunks of the lines.
LEMMA DocSplits ==
    ASSUME NEW size \in Nat, size > 0, NEW overlap \in Nat, NEW secs, Sectioned(secs),
           From(FlattenSeq(TextsOf(FlattenSeq(secs))), 0)
    PROVE  WellSplit(Doc(secs, size, overlap), FlattenSeq(secs), size, overlap)
<1> DEFINE Ok(t) == Sectioned(t) /\ From(FlattenSeq(TextsOf(FlattenSeq(t))), 0)
           Fine(t) == Ok(t) => /\ WellSplit(Doc(t, size, overlap), FlattenSeq(t), size, overlap)
                               /\ [n \in DOMAIN t |-> ChunksOf(t[n], size, overlap)] \in Seq(Seq(Result))
           T == {t \in Seq(Section) : Fine(t)}
<1>1. Section \subseteq Seq(Block) /\ Seq(Section) \subseteq Seq(Seq(Block))
  <2>1. Section \subseteq Seq(Block)
    BY DEF Section
  <2> HIDE DEF Section
  <2> QED BY <2>1, SeqMonotonic
<1>2. <<>> \in T
  <2>1. /\ <<>> \in Seq(Section) /\ <<>> \in Seq(Seq(Block)) /\ <<>> \in Seq(Block) /\ Len(<<>>) = 0
        /\ <<>> \in Seq(Seq(Result)) /\ <<>> \in Seq(Result) /\ <<>> \in Seq(Seq(Char)) /\ DOMAIN <<>> = {}
    BY EmptySeq, LenProperties
  <2>2. FlattenSeq(<<>>) = <<>>
    BY <2>1, FlattenType
  <2>3. \A e \in Seq(Nat) : DOMAIN e = {} => e = <<>>
    BY EmptySeq, LenProperties
  <2>4. [n \in DOMAIN <<>> |-> ChunksOf(<<>>[n], size, overlap)] = <<>>
    BY <2>1
  <2>5. TextsOf(<<>>) = <<>> /\ ContentsOf(<<>>) = <<>>
    BY <2>1 DEF TextsOf, ContentsOf
  <2>6. Doc(<<>>, size, overlap) = <<>>
    BY <2>2, <2>4 DEF Doc
  <2>7. Chain(<<>>, 0, 0, size, overlap)
    <3>1. <<>> \in Seq(Chunk(size))
      BY EmptySeq
    <3> QED BY <2>1, <3>1 DEF Chain
  <2>8. WellSplit(<<>>, <<>>, size, overlap)
    BY <2>1, <2>2, <2>5, <2>7 DEF WellSplit
  <2> HIDE DEF Ok
  <2> QED BY <2>1, <2>2, <2>4, <2>6, <2>8
<1>3. ASSUME NEW t \in Seq(Section), NEW s \in Section, t \in T PROVE Append(t, s) \in T
  <2> DEFINE x == Append(t, s)
             N == Len(t)
             map(y) == [n \in DOMAIN y |-> ChunksOf(y[n], size, overlap)]
             c == ChunksOf(s, size, overlap)
             bs == FlattenSeq(t)
  <2>1. x \in Seq(Section) /\ N \in Nat /\ Len(x) = N + 1 /\ x[N + 1] = s /\ \A n \in 1..N : x[n] = t[n]
    BY AppendProperties, LenProperties
  <2>2. DOMAIN t = 1..N /\ DOMAIN x = 1..N + 1
    BY <2>1, LenProperties
  <2>3. t \in Seq(Seq(Block)) /\ s \in Seq(Block)
    BY <1>1
  <2>4. FlattenSeq(x) = bs \o s /\ bs \in Seq(Block)
    BY <2>3, FlattenStep, FlattenType
  <2> HIDE DEF x, N
  <2>5. SUFFICES ASSUME Ok(x) PROVE WellSplit(Doc(x, size, overlap), bs \o s, size, overlap) /\ map(x) \in Seq(Seq(Result))
    BY <2>1, <2>4 DEF x
  <2> HIDE DEF bs
  <2>6. From(FlattenSeq(TextsOf(bs \o s)), 0)
    BY <2>4, <2>5
  <2>7. /\ TextsOf(bs) \in Seq(Seq(Char)) /\ TextsOf(s) \in Seq(Seq(Char))
        /\ TextsOf(bs \o s) = TextsOf(bs) \o TextsOf(s)
    BY <2>3, <2>4, TextsAre
  <2> DEFINE u == FlattenSeq(TextsOf(bs))
             v == FlattenSeq(TextsOf(s))
  <2>8. u \in Seq(Char) /\ v \in Seq(Char) /\ FlattenSeq(TextsOf(bs \o s)) = u \o v
    BY <2>7, FlattenType, FlattenConcat
  <2>9. From(u, 0) /\ From(v, Len(u)) /\ Len(u) \in Nat
    <3> HIDE DEF u, v
    <3>1. Len(u) \in Nat /\ 0 + Len(u) = Len(u)
      BY <2>8, LenProperties
    <3>2. From(u \o v, 0)
      BY <2>6, <2>8
    <3> QED BY <2>8, <3>1, <3>2, FromConcat
  <2>10. Sectioned(t)
    <3>1. \A k \in 2..N : k \in 2..N + 1 /\ x[k] = t[k]
      BY <2>1
    <3> QED BY <2>1, <2>5, <3>1 DEF Sectioned, N
  <2>11. WellSplit(Doc(t, size, overlap), bs, size, overlap) /\ map(t) \in Seq(Seq(Result))
    BY <1>3, <2>9, <2>10 DEF bs
  <2>12. c \in Seq(Result)
    BY <2>9, SectionChunks
  <2> HIDE DEF u, v, c
  <2>13. map(x) = Append(map(t), c) /\ map(x) \in Seq(Seq(Result))
    <3> DEFINE m == map(x)
               o == map(t)
    <3>1. o \in Seq(Seq(Result)) /\ Len(o) = N /\ \A n \in 1..N : o[n] = ChunksOf(t[n], size, overlap)
      <4>1. DOMAIN o = 1..N
        BY <2>2
      <4>2. Len(o) = N
        BY <2>1, <2>11, <4>1, LenProperties
      <4> QED BY <2>2, <2>11, <4>2
    <3>2. \A n \in 1..N + 1 : m[n] = IF n = N + 1 THEN c ELSE o[n]
      BY <2>1, <2>2, <3>1 DEF c
    <3>3. m = [n \in 1..N + 1 |-> m[n]]
      BY <2>2
    <3> HIDE DEF m, o
    <3> DEFINE q == Append(o, c)
    <3>4. q \in Seq(Seq(Result)) /\ Len(q) = N + 1 /\ q[N + 1] = c /\ \A n \in 1..N : q[n] = o[n]
      BY <2>12, <3>1, AppendProperties
    <3>5. q = [n \in 1..N + 1 |-> q[n]]
      BY <3>4, LenProperties
    <3> HIDE DEF q
    <3>6. \A n \in 1..N + 1 : q[n] = IF n = N + 1 THEN c ELSE o[n]
      BY <2>1, <3>4
    <3>7. m = q
      BY <3>2, <3>3, <3>5, <3>6
    <3> QED BY <3>4, <3>7 DEF m, o, q
  <2>14. Doc(x, size, overlap) = Doc(t, size, overlap) \o c
    <3> HIDE DEF map
    <3>1. FlattenSeq(Append(map(t), c)) = FlattenSeq(map(t)) \o c
      BY <2>11, <2>12, FlattenStep
    <3> QED BY <2>13, <3>1 DEF Doc, map
  <2>15. bs # <<>> => s[1].heading
    <3> SUFFICES ASSUME bs # <<>> PROVE s[1].heading
      OBVIOUS
    <3>1. t # <<>>
      <4> SUFFICES ASSUME t = <<>> PROVE FALSE
        OBVIOUS
      <4>1. FlattenSeq(<<>>) = <<>>
        BY <2>3, FlattenType
      <4> QED BY <4>1 DEF bs
    <3>2. N # 0
      BY <3>1, EmptySeq DEF N
    <3>3. N + 1 \in 2..Len(x)
      BY <2>1, <3>2
    <3> QED BY <2>1, <2>5, <3>3 DEF Sectioned
  <2>16. WellSplit(Doc(t, size, overlap) \o c, bs \o s, size, overlap)
    BY <2>4, <2>6, <2>11, <2>15, WellSplitGrows DEF c
  <2> QED BY <2>13, <2>14, <2>16
<1>4. secs \in Seq(Section)
  BY DEF Sectioned
<1>5. secs \in T
  <2> HIDE DEF T
  <2> QED BY <1>2, <1>3, <1>4, SequenceInduction
<1> QED BY <1>5

\* The greatest of a set of numbers.
LEMMA MaxIs ==
    ASSUME NEW S \in SUBSET Nat, NEW k \in S, \A i \in S : i <= k
    PROVE  Max(S) = k
<1>1. Max(S) = CHOOSE x \in S : \A y \in S : x >= y
  BY DEF Max
<1>2. \A y \in S : k >= y
  OBVIOUS
<1>3. \A x \in S : (\A y \in S : x >= y) => x = k
  OBVIOUS
<1> QED BY <1>1, <1>2, <1>3

\* The heading that a place is said to be under is that of its line.
LEMMA HeadsUnique ==
    ASSUME NEW bs \in Seq(Block), Spread(TextsOf(bs), 0), NEW p, NEW h, Heads(bs, p, h)
    PROVE  h = LET b == CHOOSE n \in DOMAIN bs : p \in Places(bs[n].text)
                   headed == {n \in 1..b : bs[n].heading}
               IN  IF headed = {} THEN <<>> ELSE bs[Max(headed)].text
<1> DEFINE b == CHOOSE n \in DOMAIN bs : p \in Places(bs[n].text)
           headed == {n \in 1..b : bs[n].heading}
<1>1. /\ DOMAIN bs = 1..Len(bs) /\ Len(bs) \in Nat /\ Len(TextsOf(bs)) = Len(bs)
      /\ \A n \in 1..Len(bs) : TextsOf(bs)[n] = bs[n].text
  BY TextsAre, LenProperties
<1>2. PICK k \in 1..Len(bs) :
        /\ p \in Places(bs[k].text)
        /\ \/ h = <<>> /\ \A i \in 1..k : ~bs[i].heading
           \/ \E m \in 1..k : bs[m].heading /\ h = bs[m].text /\ \A i \in (m + 1)..k : ~bs[i].heading
  BY DEF Heads
<1>3. \A i, j \in 1..Len(bs) : i < j => Places(bs[i].text) \cap Places(bs[j].text) = {}
  BY <1>1 DEF Spread
<1>4. ASSUME NEW i \in 1..Len(bs), p \in Places(bs[i].text) PROVE i = k
  <2>1. ~(i < k)
    <3> SUFFICES ASSUME i < k PROVE FALSE
      OBVIOUS
    <3>1. Places(bs[i].text) \cap Places(bs[k].text) = {}
      BY <1>3
    <3> QED BY <1>2, <1>4, <3>1
  <2>2. ~(k < i)
    <3> SUFFICES ASSUME k < i PROVE FALSE
      OBVIOUS
    <3>1. Places(bs[k].text) \cap Places(bs[i].text) = {}
      BY <1>3
    <3> QED BY <1>2, <1>4, <3>1
  <2> QED BY <1>1, <2>1, <2>2
<1>5. b = k
  BY <1>1, <1>2, <1>4
<1> HIDE DEF b
<1>6. CASE h = <<>> /\ \A i \in 1..k : ~bs[i].heading
  BY <1>5, <1>6 DEF b
<1>7. CASE \E m \in 1..k : bs[m].heading /\ h = bs[m].text /\ \A i \in (m + 1)..k : ~bs[i].heading
  <2>1. PICK m \in 1..k : bs[m].heading /\ h = bs[m].text /\ \A i \in (m + 1)..k : ~bs[i].heading
    BY <1>7
  <2>2. m \in headed /\ headed \in SUBSET Nat
    BY <1>1, <1>5, <2>1
  <2>3. \A i \in headed : i <= m
    <3> SUFFICES ASSUME NEW i \in headed, ~(i <= m) PROVE FALSE
      OBVIOUS
    <3>1. i \in (m + 1)..k /\ bs[i].heading
      BY <1>1, <1>5
    <3> QED BY <2>1, <3>1
  <2> HIDE DEF headed
  <2>4. Max(headed) = m /\ headed # {}
    BY <2>2, <2>3, MaxIs
  <2> QED BY <2>1, <2>4 DEF headed, b
<1> QED BY <1>2, <1>6, <1>7

\* The chunks of a chain leave out no place.
LEMMA ChainWhole ==
    ASSUME NEW size \in Nat, NEW overlap \in Nat, NEW a \in Nat, NEW b \in Nat, NEW cs,
           Chain(cs, a, b, size, overlap), NEW p \in Nat, a < p, p <= b
    PROVE  \E n \in 1..Len(cs) : p \in Lo(cs[n])..Hi(cs[n])
<1> DEFINE N == Len(cs)
           T == {n \in 1..N : p <= Hi(cs[n])}
<1>1. cs \in Seq(Chunk(size)) /\ N \in Nat /\ \A n \in 1..N : cs[n] \in Chunk(size)
  BY LenProperties, ElementOfSeq DEF Chain
<1>2. \A n \in 1..N : Lo(cs[n]) \in Nat /\ Hi(cs[n]) \in Nat
  BY <1>1, ChunkIs
<1>3. cs # <<>> /\ N > 0
  <2>1. cs # <<>>
    BY DEF Chain
  <2> QED BY <1>1, <2>1, EmptySeq
<1>4. Lo(cs[1]) = a + 1 /\ Hi(cs[N]) = b /\ \A n \in 1..N : n > 1 => Meets(cs[n - 1], cs[n], overlap)
  BY <1>3 DEF Chain
<1>5. N \in T /\ T \in SUBSET Nat
  BY <1>1, <1>3, <1>4
<1>6. PICK n \in T : \A i \in T : n <= i
  BY <1>5, Least
<1>7. n \in 1..N /\ p <= Hi(cs[n])
  OBVIOUS
<1>8. Lo(cs[n]) <= p
  <2>1. CASE n = 1
    BY <1>4, <2>1
  <2>2. CASE n > 1
    <3>1. n - 1 \in 1..N /\ n - 1 \notin T
      BY <1>1, <1>6, <1>7, <2>2
    <3>2. ~(p <= Hi(cs[n - 1])) /\ Hi(cs[n - 1]) \in Nat /\ Lo(cs[n]) \in Nat
      BY <1>2, <1>7, <3>1
    <3>3. Lo(cs[n]) <= Hi(cs[n - 1]) + 1
      BY <1>4, <1>7, <2>2 DEF Meets
    <3> QED BY <3>2, <3>3
  <2> QED BY <1>1, <1>7, <2>1, <2>2
<1> QED BY <1>2, <1>7, <1>8

\* Of two chunks that meet, the places they share are as many as the overlap at most.
LEMMA SharedFew ==
    ASSUME NEW lo \in Nat, NEW hi \in Nat, NEW from \in Nat, NEW to \in Nat, NEW most \in Nat,
           hi - from + 1 <= most
    PROVE  Cardinality((from..to) \cap (lo..hi)) <= most
<1> DEFINE S == (from..to) \cap (lo..hi)
<1>1. S \subseteq from..hi
  OBVIOUS
<1>2. IsFiniteSet(from..hi) /\ Cardinality(from..hi) = IF from > hi THEN 0 ELSE hi - from + 1
  BY FS_Interval
<1> HIDE DEF S
<1>3. IsFiniteSet(S) /\ Cardinality(S) <= Cardinality(from..hi)
  BY <1>1, <1>2, FS_Subset
<1>4. Cardinality(S) \in Nat
  BY <1>3, FS_CardinalityType
<1> QED BY <1>2, <1>3, <1>4 DEF S

\* split_document keeps its contract for every file, size and overlap.
LEMMA SplitSound ==
    ASSUME NEW blocks \in Seq(Block), From(FlattenSeq(TextsOf(blocks)), 0),
           NEW size \in Nat, size > 0, NEW wanted \in Nat
    PROVE  ChunksFaithfulTo(blocks, size, wanted)
<1> DEFINE overlap == Min({wanted, size \div 2})
           secs == Sections(blocks)
           chunks == SplitDocument(blocks, size, wanted)
           text == FlattenSeq(TextsOf(blocks))
           N == Len(text)
           cs == ContentsOf(chunks)
           places(n) == Places(chunks[n].content)
           section(p) == LET b == CHOOSE n \in DOMAIN blocks : p \in Places(blocks[n].text)
                             headed == {n \in 1..b : blocks[n].heading}
                         IN  IF headed = {} THEN <<>> ELSE blocks[Max(headed)].text
<1>1. overlap \in Nat /\ overlap <= wanted
  <2>1. size \div 2 \in Nat
    OBVIOUS
  <2> QED BY <2>1, MinIs
<1>2. Sectioned(secs) /\ FlattenSeq(secs) = blocks
  BY SectionsAre
<1>3. chunks = Doc(secs, size, overlap)
  BY DEF SplitDocument, Doc
<1> HIDE DEF overlap, secs, chunks
<1>4. WellSplit(chunks, blocks, size, overlap)
  BY <1>1, <1>2, <1>3, DocSplits
<1>5. /\ TextsOf(blocks) \in Seq(Seq(Char)) /\ text \in Seq(Char) /\ N \in Nat
      /\ TextsOf(blocks) = [n \in DOMAIN blocks |-> blocks[n].text]
  BY TextsAre, FlattenType, LenProperties DEF TextsOf
<1>6. Spread(TextsOf(blocks), 0)
  BY <1>5, Spreads
<1>7. Places(text) = 1..N
  <2>1. text \in Seq(Sym) /\ Strip(text) = text
    BY <1>5, StripFacts
  <2> HIDE DEF text
  <2>2. Places(text) = (0 + 1)..(0 + Len(Strip(text)))
    BY <2>1, PlacesAre DEF text
  <2> QED BY <1>5, <2>1, <2>2
<1> HIDE DEF text, N
<1>8. Chain(cs, 0, N, size, overlap)
  BY <1>4 DEF WellSplit, text, N
<1>9. /\ chunks \in Seq(Result) /\ Len(cs) = Len(chunks) /\ DOMAIN chunks = 1..Len(chunks) /\ Len(chunks) \in Nat
      /\ \A n \in 1..Len(chunks) : cs[n] = chunks[n].content
  BY <1>4, ContentsAre, LenProperties DEF WellSplit
<1> HIDE DEF cs
<1>10. \A n \in 1..Len(chunks) : cs[n] \in Chunk(size) /\ Lo(cs[n])..Hi(cs[n]) \subseteq 1..N
  <2>1. \A n \in 1..Len(cs) : cs[n] \in Chunk(size) /\ Lo(cs[n])..Hi(cs[n]) \subseteq (0 + 1)..N
    BY <1>1, <1>5, <1>8, ChainWithin
  <2> QED BY <1>9, <2>1
<1>11. \A n \in 1..Len(chunks) : /\ places(n) = Lo(cs[n])..Hi(cs[n])
                                 /\ Lo(cs[n]) \in Nat /\ Hi(cs[n]) \in Nat /\ Lo(cs[n]) <= Hi(cs[n])
  BY <1>9, <1>10, PlacesOfChunk, ChunkIs
<1> HIDE DEF places, section
<1>12. UNION {places(n) : n \in DOMAIN chunks} = Places(text)
  <2>1. ASSUME NEW p \in 1..N PROVE \E n \in DOMAIN chunks : p \in places(n)
    <3>1. p \in Nat /\ 0 < p /\ p <= N /\ 0 \in Nat /\ N \in Nat
      BY <1>5
    <3>2. PICK n \in 1..Len(cs) : p \in Lo(cs[n])..Hi(cs[n])
      BY <1>1, <1>8, <3>1, ChainWhole
    <3> QED BY <1>9, <1>11, <3>2
  <2>2. \A n \in DOMAIN chunks : places(n) \subseteq 1..N
    BY <1>9, <1>10, <1>11
  <2> QED BY <1>7, <2>1, <2>2
<1>13. ASSUME NEW n \in DOMAIN chunks
       PROVE  LET own == Strip(chunks[n].content)
              IN  /\ Len(chunks[n].content) \in 1..size
                  /\ \A i \in 1..(Len(own) - 1) : own[i + 1].at = own[i].at + 1
                  /\ \A p \in places(n) : section(p) = chunks[n].heading
                  /\ n > 1 => /\ Max(places(n)) > Max(places(n - 1))
                              /\ Cardinality(places(n) \cap places(n - 1)) <= wanted
  <2> DEFINE c == chunks[n].content
             own == Strip(c)
  <2>1. n \in 1..Len(chunks) /\ c = cs[n] /\ c \in Chunk(size)
    BY <1>9, <1>10
  <2> HIDE DEF c
  <2>2. Len(c) \in 1..size /\ From(own, Lo(c) - 1) /\ Lo(c) \in Nat /\ Len(own) \in Nat
    BY <2>1, ChunkIs
  <2>3. ASSUME NEW i \in 1..(Len(own) - 1) PROVE own[i + 1].at = own[i].at + 1
    <3> HIDE DEF own
    <3>1. i \in 1..Len(own) /\ i + 1 \in 1..Len(own)
      BY <2>2
    <3>2. own[i].at = (Lo(c) - 1) + i /\ own[i + 1].at = (Lo(c) - 1) + (i + 1)
      BY <2>2, <3>1 DEF From
    <3> QED BY <2>2, <3>2
  <2>4. ASSUME NEW p \in places(n) PROVE section(p) = chunks[n].heading
    <3>1. p \in Lo(c)..Hi(c)
      BY <1>11, <2>1
    <3>2. Heads(blocks, p, chunks[n].heading)
      BY <1>4, <2>1, <3>1 DEF WellSplit, c
    <3> QED BY <1>6, <3>2, HeadsUnique DEF section
  <2>5. ASSUME n > 1
        PROVE  Max(places(n)) > Max(places(n - 1)) /\ Cardinality(places(n) \cap places(n - 1)) <= wanted
    <3> DEFINE m == n - 1
    <3>1. m \in 1..Len(chunks) /\ m < n /\ n \in 1..Len(chunks)
      BY <1>9, <2>1, <2>5
    <3>2. Hi(cs[m]) < Hi(cs[n]) /\ Meets(cs[m], cs[n], overlap)
      BY <1>8, <1>9, <2>5, <3>1 DEF Chain
    <3> HIDE DEF m
    <3>3. /\ places(m) = Lo(cs[m])..Hi(cs[m]) /\ Lo(cs[m]) \in Nat /\ Hi(cs[m]) \in Nat /\ Lo(cs[m]) <= Hi(cs[m])
          /\ places(n) = Lo(cs[n])..Hi(cs[n]) /\ Lo(cs[n]) \in Nat /\ Hi(cs[n]) \in Nat /\ Lo(cs[n]) <= Hi(cs[n])
      BY <1>11, <3>1
    <3>4. \A x, y \in Nat : x <= y => Max(x..y) = y
      BY MaxIs
    <3>5. Max(places(n)) = Hi(cs[n]) /\ Max(places(m)) = Hi(cs[m])
      BY <3>3, <3>4
    <3>6. Hi(cs[m]) - Lo(cs[n]) + 1 <= wanted
      BY <1>1, <3>2, <3>3 DEF Meets
    <3>7. Cardinality(places(n) \cap places(m)) <= wanted
      BY <3>3, <3>6, SharedFew
    <3> QED BY <3>2, <3>3, <3>5, <3>7 DEF m
  <2> QED BY <2>2, <2>3, <2>4, <2>5 DEF c
<1> QED BY <1>5, <1>12, <1>13 DEF ChunksFaithfulTo, chunks, places, section, text

-----------------------------------------------------------------------------
(* The files that PureParts builds.                                        *)

\* A line more is its text more.
LEMMA TextsAppend ==
    ASSUME NEW bs \in Seq(Block), NEW b \in Block
    PROVE  /\ Append(bs, b) \in Seq(Block) /\ FlattenSeq(TextsOf(bs)) \in Seq(Char)
           /\ FlattenSeq(TextsOf(Append(bs, b))) = FlattenSeq(TextsOf(bs)) \o b.text
<1> DEFINE w == Append(bs, b)
           N == Len(bs)
           x == TextsOf(bs)
           y == TextsOf(w)
           z == Append(x, b.text)
<1>1. w \in Seq(Block) /\ N \in Nat /\ Len(w) = N + 1 /\ w[N + 1] = b /\ \A i \in 1..N : w[i] = bs[i]
  BY AppendProperties, LenProperties
<1> HIDE DEF w
<1>2. /\ x \in Seq(Seq(Char)) /\ Len(x) = N /\ \A i \in 1..N : x[i] = bs[i].text
      /\ y \in Seq(Seq(Char)) /\ Len(y) = Len(w) /\ \A i \in 1..Len(w) : y[i] = w[i].text
  BY <1>1, TextsAre
<1> HIDE DEF x, y, N
<1>3. b.text \in Seq(Char)
  BY DEF Block
<1>4. z \in Seq(Seq(Char)) /\ Len(z) = N + 1 /\ z[N + 1] = b.text /\ \A i \in 1..N : z[i] = x[i]
  BY <1>2, <1>3, AppendProperties
<1>5. FlattenSeq(z) = FlattenSeq(x) \o b.text /\ FlattenSeq(x) \in Seq(Char)
  BY <1>2, <1>3, FlattenStep, FlattenType
<1> HIDE DEF z
<1>6. \A i \in 1..N + 1 : y[i] = z[i]
  <2>1. y[N + 1] = z[N + 1]
    BY <1>1, <1>2, <1>4
  <2>2. \A i \in 1..N : y[i] = z[i]
    <3> SUFFICES ASSUME NEW i \in 1..N PROVE y[i] = z[i]
      OBVIOUS
    <3>1. i \in 1..Len(w) /\ w[i] = bs[i]
      BY <1>1
    <3>2. y[i] = w[i].text
      BY <1>2, <3>1
    <3>3. z[i] = bs[i].text
      BY <1>2, <1>4
    <3> QED BY <3>1, <3>2, <3>3
  <2> QED BY <1>1, <2>1, <2>2
<1>7. y = z
  BY <1>1, <1>2, <1>4, <1>6, SeqEqual
<1> QED BY <1>1, <1>5, <1>7 DEF w, x, y

\* A file's characters are numbered in its order.
Filed(bs) == bs \in Seq(Block) /\ From(FlattenSeq(TextsOf(bs)), 0)

\* The next character begins a line or goes on with the last; it is the next in order.
LEMMA FiledGrows ==
    ASSUME NEW bs, Filed(bs), NEW char \in Char, char.at = Len(FlattenSeq(TextsOf(bs))) + 1
    PROVE  /\ \A heading \in BOOLEAN : Filed(Append(bs, [heading |-> heading, text |-> <<char>>]))
           /\ bs # <<>> => Filed([bs EXCEPT ![Len(bs)].text = Append(@, char)])
<1> DEFINE u == FlattenSeq(TextsOf(bs))
<1>1. bs \in Seq(Block) /\ u \in Seq(Char) /\ From(u, 0)
  <2>1. TextsOf(bs) \in Seq(Seq(Char))
    BY TextsAre DEF Filed
  <2> QED BY <2>1, FlattenType DEF Filed
<1> HIDE DEF u
<1>2. From(u \o <<char>>, 0) /\ Append(u, char) = u \o <<char>> /\ <<char>> \in Seq(Char) /\ <<char>> # <<>>
  <2> DEFINE v == <<char>>
  <2>1. v \in Seq(Char) /\ Len(v) = 1 /\ v[1] = char
    BY Single
  <2>2. Len(u) \in Nat /\ 0 + Len(u) = Len(u) /\ char.at = Len(u) + 1
    BY <1>1, LenProperties DEF u
  <2> HIDE DEF v
  <2>3. From(v, Len(u))
    BY <2>1, <2>2 DEF From
  <2>4. From(u \o v, 0)
    BY <1>1, <2>1, <2>2, <2>3, FromConcat
  <2>5. v # <<>>
    BY <2>1, EmptySeq
  <2> QED BY <1>1, <2>1, <2>4, <2>5, AppendIs DEF v
<1>3. ASSUME NEW heading \in BOOLEAN PROVE Filed(Append(bs, [heading |-> heading, text |-> <<char>>]))
  <2> DEFINE b == [heading |-> heading, text |-> <<char>>]
  <2>1. b \in Block /\ b.text = <<char>>
    BY <1>2 DEF Block
  <2> HIDE DEF b
  <2>2. Append(bs, b) \in Seq(Block) /\ FlattenSeq(TextsOf(Append(bs, b))) = u \o <<char>>
    BY <1>1, <2>1, TextsAppend DEF u
  <2> QED BY <1>2, <2>2 DEF Filed, b
<1>4. ASSUME bs # <<>> PROVE Filed([bs EXCEPT ![Len(bs)].text = Append(@, char)])
  <2> DEFINE f == Front(bs)
             l == Last(bs)
             t == Append(l.text, char)
             m == [heading |-> l.heading, text |-> t]
             n == Len(bs)
             w == [bs EXCEPT ![n].text = Append(@, char)]
  <2>1. f \in Seq(Block) /\ l \in Block /\ bs = Append(f, l) /\ l = bs[n]
    BY <1>1, <1>4, FrontLast DEF Last
  <2> HIDE DEF f, l
  <2>2. l.text \in Seq(Char) /\ l.heading \in BOOLEAN
    BY <2>1 DEF Block
  <2>3. t \in Seq(Char) /\ t # <<>> /\ t = l.text \o <<char>>
    BY <2>2, AppendIs
  <2>4. m \in Block /\ m.text = t
    BY <2>2, <2>3 DEF Block
  <2>5. n = Len(f) + 1 /\ Len(f) \in Nat /\ \A i \in 1..Len(f) : bs[i] = f[i]
    BY <2>1, AppendProperties, LenProperties
  <2>6. l = [heading |-> l.heading, text |-> l.text]
    BY <2>1 DEF Block
  <2>7. bs = [i \in 1..n |-> bs[i]]
    BY <1>1, LenProperties
  <2>8. w = [i \in 1..n |-> IF i = n THEN [bs[n] EXCEPT !.text = Append(@, char)] ELSE bs[i]]
    <3> HIDE DEF n
    <3> QED BY <2>7
  <2>9. [bs[n] EXCEPT !.text = Append(@, char)] = m
    <3>1. [l EXCEPT !.text = Append(l.text, char)] = m
      BY <2>6 DEF t
    <3> QED BY <2>1, <3>1
  <2> HIDE DEF m, w, t
  <2>10. w \in Seq(Block) /\ Len(w) = n
    <3>1. \A i \in 1..n : bs[i] \in Block
      BY <1>1, ElementOfSeq
    <3>2. w \in [1..n -> Block]
      BY <2>4, <2>8, <2>9, <3>1
    <3>3. n \in Nat
      BY <2>5
    <3> HIDE DEF n
    <3> QED BY <3>2, <3>3, IsASeq, LenProperties
  <2>11. w = Append(f, m)
    <3> DEFINE q == Append(f, m)
    <3>1. q \in Seq(Block) /\ Len(q) = Len(f) + 1 /\ q[Len(f) + 1] = m /\ \A i \in 1..Len(f) : q[i] = f[i]
      BY <2>1, <2>4, AppendProperties
    <3> HIDE DEF q, n
    <3>2. \A i \in 1..Len(w) : w[i] = q[i]
      BY <2>5, <2>8, <2>9, <2>10, <3>1
    <3>3. w = q
      BY <2>5, <2>10, <3>1, <3>2, SeqEqual
    <3> QED BY <3>3 DEF q
  <2> DEFINE x == FlattenSeq(TextsOf(f))
  <2>12. FlattenSeq(TextsOf(Append(f, m))) = x \o t /\ x \in Seq(Char)
    BY <2>1, <2>4, TextsAppend
  <2>13. u = x \o l.text
    <3>1. FlattenSeq(TextsOf(Append(f, l))) = x \o l.text
      BY <2>1, TextsAppend
    <3> QED BY <2>1, <3>1 DEF u
  <2> HIDE DEF x
  <2>14. x \o t = Append(u, char)
    BY <2>2, <2>12, <2>13, ConcatAppend DEF t
  <2> QED BY <1>2, <2>10, <2>11, <2>12, <2>14 DEF Filed, w, n
<1> QED BY <1>3, <1>4

\* The file that a behaviour of PureParts builds is such a file.
FileInv == Filed(document)

\* A step leaves it one.
LEMMA NextFiled == FileInv /\ [NextInput]_inputs => FileInv'
<1> SUFFICES ASSUME FileInv, [NextInput]_inputs PROVE FileInv'
  OBVIOUS
<1>1. document \in Seq(Block) /\ Length(document) \in Nat /\ Length(document) = Len(FlattenSeq(TextsOf(document)))
  <2>1. document \in Seq(Block)
    BY DEF FileInv, Filed
  <2>2. TextsOf(document) \in Seq(Seq(Char))
    BY <2>1, TextsAre
  <2>3. Len(FlattenSeq(TextsOf(document))) \in Nat
    BY <2>2, FlattenType, LenProperties
  <2> QED BY <2>1, <2>3 DEF Length, TextsOf
<1>2. CASE NextCharacter
  <2>1. PICK kind \in {"plain", "stop"} :
          LET char == [kind |-> kind, at |-> Length(document) + 1]
          IN  \/ \E heading \in BOOLEAN :
                     document' = Append(document, [heading |-> heading, text |-> <<char>>])
              \/ /\ document # <<>>
                 /\ document' = [document EXCEPT ![Len(document)].text = Append(@, char)]
    BY <1>2 DEF NextCharacter
  <2> DEFINE char == [kind |-> kind, at |-> Length(document) + 1]
  <2>2. char \in Char /\ char.at = Len(FlattenSeq(TextsOf(document))) + 1
    BY <1>1 DEF Char
  <2> HIDE DEF char
  <2>3. /\ \A heading \in BOOLEAN : Filed(Append(document, [heading |-> heading, text |-> <<char>>]))
        /\ document # <<>> => Filed([document EXCEPT ![Len(document)].text = Append(@, char)])
    BY <2>2, FiledGrows DEF FileInv
  <2>4. CASE \E heading \in BOOLEAN : document' = Append(document, [heading |-> heading, text |-> <<char>>])
    BY <2>3, <2>4 DEF FileInv
  <2>5. CASE document # <<>> /\ document' = [document EXCEPT ![Len(document)].text = Append(@, char)]
    BY <2>3, <2>5 DEF FileInv
  <2> QED BY <2>1, <2>4, <2>5 DEF char
<1>3. CASE UNCHANGED document
  BY <1>3 DEF FileInv
<1> QED BY <1>2, <1>3 DEF NextInput, NextParagraph, Calculate, inputs

\* Chunks keep the contract of their size, are one stretch each under the heading of
\* its section, share the overlap at most and leave out no character (spaces, which a
\* cut strips, are none), for every file of any length and every size and overlap a
\* knowledge base may have (splitter.py:49-67, 125).
THEOREM SplitsFaithful == Inputs => []ChunksFaithful
<1>1. NoInput => FileInv
  <2> SUFFICES ASSUME document = <<>> PROVE Filed(document)
    BY DEF NoInput, FileInv
  <2>1. <<>> \in Seq(Block) /\ Len(<<>>) = 0 /\ <<>> \in Seq(Seq(Char))
    BY EmptySeq
  <2>2. TextsOf(<<>>) = <<>>
    BY DEF TextsOf
  <2>3. FlattenSeq(<<>>) = <<>>
    BY <2>1, FlattenType
  <2> QED BY <2>1, <2>2, <2>3 DEF Filed, From
<1>2. FileInv => ChunksFaithful
  <2> SUFFICES ASSUME FileInv, NEW size \in ChunkSizes, NEW overlap \in Overlaps
               PROVE  ChunksFaithfulTo(document, size, overlap)
    BY DEF ChunksFaithful
  <2>1. size \in Nat /\ size > 0 /\ overlap \in Nat
    BY ChunkAssumption
  <2> QED BY <2>1, SplitSound DEF FileInv, Filed
<1> QED BY <1>1, <1>2, NextFiled, PTL DEF Inputs
=============================================================================

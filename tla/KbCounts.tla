----------------------------- MODULE KbCounts -----------------------------
(***************************************************************************)
(* When is kb.chunk_count right? _sync_counts (app/kb/store.py:279) reads  *)
(* the counts in the snapshot of its UPDATE and the transaction writes     *)
(* them when it commits. This module runs KbPipeline beside two history    *)
(* variables, which constrain nothing:                                     *)
(*   missed  - open transactions on whose knowledge base another           *)
(*             transaction has committed since they read its counts;       *)
(*   drifted - knowledge bases whose last recount came from such a one.    *)
(***************************************************************************)
EXTENDS KbPipeline

VARIABLES missed, drifted

history == <<missed, drifted>>

\* d has read the counts of its knowledge base and not committed yet.
Open(d) == pc[d] = "commit" \/ del[d] = "commit"

OpenBeside(d) == {e \in Docs \ {d} : Open(e) /\ kbOf[e] = kbOf[d]}

InitCounts == Init /\ missed = {} /\ drifted = {}

NextCounts ==
    \/ /\ Others
       /\ missed' = {d \in missed : Open(d)'}
       /\ UNCHANGED drifted
    \/ \E d \in Docs :
       /\ Commit(d)
       /\ missed' = (missed \cup OpenBeside(d)) \ {d}
       /\ drifted' = IF d \in missed THEN drifted \cup {kbOf[d]}
                                     ELSE drifted \ {kbOf[d]}

SpecCounts == InitCounts /\ [][NextCounts]_<<vars, history>>

TypeOKCounts == TypeOK /\ missed \subseteq Docs /\ drifted \subseteq Kbs
-----------------------------------------------------------------------------
\* The chunk total of a knowledge base is exact at every moment, unless its
\* last recount was committed by a transaction that another commit on the same
\* knowledge base had overtaken: overlap is the only source of drift, and the
\* next transaction that is not overtaken repairs it (store.py:5-7, 279-292).
DriftOnlyByOverlap ==
    \A k \in Kbs : kb[k] = "live" /\ k \notin drifted =>
        kbCount[k].chunks = Cardinality(ChunkIds(k, rows))

\* What makes it inductive: a transaction that was not overtaken holds the
\* counts that will be exact once its own change is committed.
SnapshotCurrent ==
    \A d \in Docs \ missed : status[d] # "absent" =>
        /\ pc[d] = "commit" => snap[d].chunks =
             Recount(kbOf[d], [rows EXCEPT ![d] = Replaced(@, NewRows(d))], {}).chunks
        /\ del[d] = "commit" => snap[d].chunks = Recount(kbOf[d], rows, {d}).chunks
=============================================================================

----------------------------- MODULE KbIndex -----------------------------
(***************************************************************************)
(* What the knowledge base promises to whoever reads it (the retriever and *)
(* the page that polls a document): a document is new, being processed,    *)
(* ready or failed, then gone for good, and the text that can be retrieved *)
(* from it is at every moment one whole split of one file, or nothing.     *)
(***************************************************************************)
EXTENDS Sequences

CONSTANTS Docs, Texts

VARIABLES
    phase,    \* [Docs -> "new" | "processing" | "ready" | "failed" | "gone"]
    text      \* [Docs -> the pieces retrieval can return; <<>> for none]

vars == <<phase, text>>

Init ==
    /\ phase = [d \in Docs |-> "new"]
    /\ text = [d \in Docs |-> <<>>]

Submit(d) ==
    /\ phase[d] \in {"new", "ready", "failed"}
    /\ phase' = [phase EXCEPT ![d] = "processing"]
    /\ UNCHANGED text

\* The whole text changes at once, and only while the document is processed.
Publish(d) ==
    /\ phase[d] = "processing"
    /\ \E f \in Texts \ {<<>>} : text' = [text EXCEPT ![d] = f]
    /\ UNCHANGED phase

\* Only a document that has a text becomes ready.
Finish(d) ==
    /\ phase[d] = "processing"
    /\ text[d] # <<>>
    /\ phase' = [phase EXCEPT ![d] = "ready"]
    /\ UNCHANGED text

Fail(d) ==
    /\ phase[d] \in {"processing", "ready", "failed"}
    /\ phase' = [phase EXCEPT ![d] = "failed"]
    /\ UNCHANGED text

\* Documents leave together with their text, one or a whole knowledge base.
Remove(S) ==
    /\ phase' = [d \in Docs |-> IF d \in S THEN "gone" ELSE phase[d]]
    /\ text' = [d \in Docs |-> IF d \in S THEN <<>> ELSE text[d]]

Next ==
    \/ \E d \in Docs : Submit(d) \/ Publish(d) \/ Finish(d) \/ Fail(d)
    \/ \E S \in SUBSET Docs : Remove(S)

Spec == Init /\ [][Next]_vars
=============================================================================

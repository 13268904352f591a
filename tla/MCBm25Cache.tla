---------------------------- MODULE MCBm25Cache ----------------------------
(***************************************************************************)
(* Bm25Cache on small instances. The passing run has two families of       *)
(* behaviours: from empty tables, an upload, a law and two threads; and    *)
(* with two uploads and a law stored already, so that a rewrite in place   *)
(* is stamped while the other documents are, with one thread at a time.    *)
(***************************************************************************)
EXTENDS Bm25Cache, TLC
CONSTANTS a, b

MCContents == {a, b}
MCTexts == {<<a>>, <<b>>}
Symmetry == Permutations({a, b}) \cup Permutations(Threads) \cup Permutations(Uploads)

\* The law was migrated at time 3, the uploads were ready at 4 and 5.
Times == {at \in [Docs -> 3..5] : \A d, e \in Docs : at[d] = at[e] => d = e}

Stored ==
    /\ \E at \in Times, text \in [Docs -> Contents] :
        /\ \A l \in Laws : at[l] = 3
        /\ stamp = at
        /\ rows = [d \in Docs |-> <<[id |-> at[d], text |-> text[d]]>>]
    /\ nextId = 5 /\ clock = 5 /\ latest = 5
    /\ draft = Empty /\ gone = {} /\ unsettled = {} /\ cache = {}
    /\ job = [d \in Uploads |-> "idle"]
    /\ began = [d \in Uploads |-> 0]
    /\ mig = [at |-> 0, laws |-> {}]
    /\ holder = NoThread
    /\ pos = [t \in Threads |-> "idle"]
    /\ found = [t \in Threads |-> NoEntry]
    /\ seen = [t \in Threads |-> {}]

Untouched(d) == stamp[d] = 0 /\ job[d] = "idle" /\ rows[d] = <<>> /\ d \notin gone

FromEmpty ==
    /\ clock <= 2 /\ nextId <= 2
    /\ \E d \in Uploads : \A e \in Uploads \ {d} : Untouched(e)

FromStored ==
    /\ clock >= 5
    /\ \E t \in Threads : \A u \in Threads \ {t} : pos[u] = "idle"

MCSpec == (Init \/ Stored) /\ [][Next /\ (FromEmpty \/ FromStored)']_vars
=============================================================================

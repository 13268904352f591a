----------------------------- MODULE PureParts -----------------------------
(***************************************************************************)
(* The pure algorithms of the service, run on their inputs. A behaviour     *)
(* builds one input: a page paragraph by paragraph (LawPage), a file        *)
(* character by character (Splitter), or a claim (Compensation). None of    *)
(* them keeps a state; what they compute is said in the invariants.         *)
(***************************************************************************)
EXTENDS LawPage, Splitter, Compensation

CONSTANTS
    Paragraphs,             \* of a page, a subset of Paragraph
    MaxPage, MaxText,       \* bounds: paragraphs of a page, characters of a file
    ChunkSizes, Overlaps,   \* kb.chunk_size, kb.chunk_overlap
    Service, Salaries, Averages   \* months, yuan

ASSUME ParagraphsAssumption == Paragraphs \subseteq Paragraph
ASSUME ChunkAssumption == ChunkSizes \subseteq Nat \ {0} /\ Overlaps \subseteq Nat
\* CompensationInput: what is paid is above 0 (compensation.py:20-22).
ASSUME ClaimsAssumption == Service \subseteq Nat /\ {Salaries, Averages} \subseteq SUBSET (Nat \ {0})
ASSUME BoundsAssumption == {MaxPage, MaxText} \subseteq Nat

VARIABLES page, document, claim

inputs == <<page, document, claim>>

Unclaimed == [months |-> 0, salary |-> 0, avg |-> NoAvg, illegal |-> FALSE]
Length(blocks) == Len(FlattenSeq([n \in DOMAIN blocks |-> blocks[n].text]))

NoInput == page = <<>> /\ document = <<>> /\ claim = Unclaimed

NextParagraph ==
    /\ document = <<>> /\ claim = Unclaimed
    /\ Len(page) < MaxPage
    /\ \E p \in Paragraphs : page' = Append(page, p)
    /\ UNCHANGED <<document, claim>>

\* The next character goes on with the line or begins another; a line is never empty.
NextCharacter ==
    /\ page = <<>> /\ claim = Unclaimed
    /\ Length(document) < MaxText
    /\ \E kind \in {"plain", "stop"} :
       LET char == [kind |-> kind, at |-> Length(document) + 1]
       IN  \/ \E heading \in BOOLEAN :
                  document' = Append(document, [heading |-> heading, text |-> <<char>>])
           \/ /\ document # <<>>
              /\ document' = [document EXCEPT ![Len(document)].text = Append(@, char)]
    /\ UNCHANGED <<page, claim>>

Calculate ==
    /\ page = <<>> /\ document = <<>> /\ claim = Unclaimed
    /\ claim' \in Claim(Service, Salaries, Averages)
    /\ UNCHANGED <<page, document>>

NextInput == NextParagraph \/ NextCharacter \/ Calculate

Inputs == NoInput /\ [][NextInput]_inputs
-----------------------------------------------------------------------------
\* A page that passes the assertions of parse_document gives the law as the page
\* has it (fetch_laws.py:335-410).
PageFaithful == PageFaithfulTo(page)

\* Chunks keep the contract of their size and leave out no character of the file, for
\* every size and overlap a knowledge base may have (splitter.py:49-67, 125).
ChunksFaithful ==
    \A size \in ChunkSizes, overlap \in Overlaps : ChunksFaithfulTo(document, size, overlap)

\* The compensation behaves as the law says (compensation.py:3-7, 80-116).
CompensationSound == SoundFor(claim)
=============================================================================

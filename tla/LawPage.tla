------------------------------ MODULE LawPage ------------------------------
(***************************************************************************)
(* parse_document of scripts/fetch_laws.py: from the paragraphs of a page   *)
(* to the articles of a law. A paragraph is what the parser tells apart:    *)
(* the title of an article, which may carry the start of its text, the      *)
(* title of a chapter, text, the footer (STOP_MARKERS) or a scrap of        *)
(* navigation (SKIP_PARAS). A text stands for itself by its position.       *)
(***************************************************************************)
EXTENDS Naturals, Sequences, FiniteSets, SequencesExt, Lists

CONSTANTS
    ExpectedArticles,   \* LawSource.expected_articles
    Amended             \* numbers of the articles that LawSource.amendments lists

ASSUME ExpectedAssumption == ExpectedArticles \in Nat \ {0} /\ Amended \subseteq 1..ExpectedArticles

\* "closing" is the text that ends the law, "amended" one in the wording in force.
Wordings == {"text", "closing", "amended"}
Paragraph ==
         [kind : {"article"}, no : 1..(ExpectedArticles + 1), rest : Wordings \cup {"none"}]
    \cup [kind : {"chapter", "footer", "scrap"} \cup Wordings]

\* What paragraph i says as text of an article.
Says(page, i) == IF page[i].kind = "article" THEN page[i].rest ELSE page[i].kind
SaysSome(page, parts, text) == \E i \in ToSet(parts) : Says(page, i) = text
IsTitle(page, i) == i \in DOMAIN page /\ page[i].kind = "article"

\* The local variables of the loop; no = 0 stands for None.
Start == [inBody |-> FALSE, no |-> 0, parts |-> <<>>, chapter |-> 0, articles |-> <<>>,
          stopped |-> FALSE]

Committed(s) ==
    IF s.no = 0 THEN s.articles
    ELSE Append(s.articles, [no |-> s.no, chapter |-> s.chapter, parts |-> s.parts])

TakeTitle(page, s, i) ==
    [s EXCEPT !.articles = Committed(s), !.inBody = TRUE, !.no = page[i].no,
              !.parts = IF page[i].rest = "none" THEN <<>> ELSE <<i>>]

\* Mutant: the article before the chapter goes on under the new title.
TakeChapterOpen(page, s, i) == [s EXCEPT !.chapter = i]

\* In the table of contents no article follows: there the title is not a chapter.
TakeChapter(page, s, i) ==
    IF s.inBody \/ IsTitle(page, i + 1)
    THEN [s EXCEPT !.articles = Committed(s), !.no = 0, !.parts = <<>>, !.chapter = i]
    ELSE s

TakeText(page, s, i) ==
    IF ~s.inBody \/ page[i].kind = "scrap" THEN s
    ELSE IF page[i].kind = "footer" \/ SaysSome(page, s.parts, "closing")
         THEN [s EXCEPT !.stopped = TRUE]
         ELSE [s EXCEPT !.parts = Append(@, i)]

\* One round of the loop.
Take(page, s, i) ==
    CASE s.stopped -> s
      [] ~s.stopped /\ page[i].kind = "article" -> TakeTitle(page, s, i)
      [] ~s.stopped /\ page[i].kind = "chapter" -> TakeChapter(page, s, i)
      [] OTHER -> TakeText(page, s, i)

\* The loop over the paragraphs, and what is open at its end.
Parsed(page) ==
    LET after[n \in 0..Len(page)] == IF n = 0 THEN Start ELSE Take(page, after[n - 1], n)
    IN  Committed(after[Len(page)])

\* Article refuses an empty text, which ends the whole page.
Stored(articles) == \A n \in DOMAIN articles : articles[n].parts # <<>>

\* check_current: the wording in force, which older copies of the page lack.
AmendmentsHold(page, articles) ==
    \A n \in Amended : SaysSome(page, articles[n].parts, "amended")

\* The assertions that let a page pass: numbers, count, and the end of the last article.
Accepted(page) ==
    LET as == Parsed(page)
    IN  /\ Stored(as)
        /\ Len(as) = ExpectedArticles
        /\ \A n \in DOMAIN as : as[n].no = n
        /\ Says(page, Last(Last(as).parts)) = "closing"
        /\ AmendmentsHold(page, as)
-----------------------------------------------------------------------------
\* The reference: which paragraphs of the page belong to the article whose title
\* is paragraph t. They reach from the title to the next title, the footer, or the
\* closing text, whichever comes first.
Belongs(page, t, i) ==
    /\ i >= t /\ Says(page, i) \in Wordings
    /\ \A j \in (t + 1)..i : page[j].kind \notin {"article", "chapter", "footer"}
    /\ \A j \in t..(i - 1) : Says(page, j) # "closing"

\* A law that passes the assertions has the articles of the page, each with all the
\* text between its title and the next title and nothing else, under the chapter
\* that the page puts it in (fetch_laws.py:336, 388-401, 409).
PageFaithfulTo(page) ==
    Accepted(page) =>
        \A n \in 1..ExpectedArticles :
            LET a == Parsed(page)[n]
                titles == {t \in DOMAIN page : page[t].kind = "article"}
                t == CHOOSE x \in titles : Cardinality({y \in titles : y < x}) = n - 1
                chapters == {c \in 1..(t - 1) :
                                /\ page[c].kind = "chapter"
                                /\ IsTitle(page, c + 1) \/ \E y \in titles : y < c}
            IN  /\ page[t].no = n
                /\ a.parts = Selected([i \in DOMAIN page |-> i], LAMBDA i : Belongs(page, t, i))
                /\ a.chapter \in chapters \/ (chapters = {} /\ a.chapter = 0)
                /\ \A c \in chapters : c <= a.chapter
=============================================================================

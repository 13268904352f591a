----------------------------- MODULE Splitter -----------------------------
(***************************************************************************)
(* split_document of app/kb/splitter.py: from the blocks of a parsed file   *)
(* to chunks. A block is a line of the file: its text and whether it is a   *)
(* heading. A character is a record of what the splitter tells apart, the   *)
(* end of a sentence ("stop") and the rest, and of its position in the      *)
(* file, which makes characters distinct.                                   *)
(***************************************************************************)
EXTENDS Naturals, Sequences, SequencesExt, FiniteSetsExt, Lists

Newline == [kind |-> "newline"]

\* One more x: a piece of its own, or the end of the last piece.
Extended(pieces, x, new) ==
    IF pieces = <<>> \/ new THEN Append(pieces, <<x>>)
    ELSE Append(Front(pieces), Append(Last(pieces), x))

\* The pieces of s, cut behind the places in `ends`.
CutBehind(s, ends) ==
    LET cut[n \in 0..Len(s)] == IF n = 0 THEN <<>> ELSE Extended(cut[n - 1], s[n], n - 1 \in ends)
    IN  cut[Len(s)]

\* str.join, and strip() with the empty pieces left out.
JoinedTo(text, line) == IF text = <<>> THEN line ELSE text \o <<Newline>> \o line
Joined(lines) ==
    LET text[n \in 0..Len(lines)] == IF n = 0 THEN <<>> ELSE JoinedTo(text[n - 1], lines[n])
    IN  text[Len(lines)]
Strip(p) == Selected(p, LAMBDA c : c # Newline)
Stripped(pieces) == Selected([n \in DOMAIN pieces |-> Strip(pieces[n])], LAMBDA p : p # <<>>)

\* _sections: a heading begins a section and stays in its text.
Sections(blocks) ==
    LET begins == {n \in DOMAIN blocks : n > 1 /\ blocks[n].heading}
    IN  CutBehind(blocks, {n - 1 : n \in begins})

\* _hard_cut: pieces of one length, as few as will do.
CeilDiv(a, b) == (a + b - 1) \div b
HardCut(text, size) ==
    LET length == CeilDiv(Len(text), CeilDiv(Len(text), size))
    IN  CutBehind(text, {i \in DOMAIN text : i % length = 0})

\* _atomize: what fits is left whole; the rest is cut into lines, a line that does
\* not fit into sentences, a sentence that does not fit by length.
Lines(text) == Stripped(CutBehind(text, {i \in DOMAIN text : text[i] = Newline}))
Sentences(text) == CutBehind(text, {i \in DOMAIN text : text[i].kind = "stop"})
ByLength(text, size) == IF Len(text) <= size THEN <<text>> ELSE HardCut(text, size)
BySentence(text, size) ==
    LET parts == Sentences(text)
    IN  IF Len(text) <= size THEN <<text>>
        ELSE FlattenSeq([n \in DOMAIN parts |-> ByLength(parts[n], size)])
Atoms(text, size) ==
    LET parts == Lines(text)
    IN  IF Len(text) <= size THEN <<text>>
        ELSE FlattenSeq([n \in DOMAIN parts |-> BySentence(parts[n], size)])

\* Mutant: the overlap is kept though the chunk gets too long.
SeedAlways(chunk, piece, size, overlap) ==
    SubSeq(chunk, Len(chunk) - Min({overlap, Len(chunk)}) + 1, Len(chunk))

\* The overlap a new chunk begins with.
Seed(chunk, piece, size, overlap) ==
    IF overlap > 0 /\ Min({overlap, Len(chunk)}) + 1 + Len(piece) > size THEN <<>>
    ELSE SubSeq(chunk, Len(chunk) - Min({overlap, Len(chunk)}) + 1, Len(chunk))

\* _merge: a piece joins the last chunk where it fits, else it begins a new one.
Merge(chunks, piece, size, overlap) ==
    IF chunks = <<>> THEN <<piece>>
    ELSE LET last == Last(chunks)
             joined == JoinedTo(last, piece)
         IN  IF Len(joined) <= size THEN Append(Front(chunks), joined)
             ELSE Append(chunks, JoinedTo(Seed(last, piece, size, overlap), piece))
Merged(pieces, size, overlap) ==
    LET chunks[n \in 0..Len(pieces)] ==
            IF n = 0 THEN <<>> ELSE Merge(chunks[n - 1], pieces[n], size, overlap)
    IN  chunks[Len(pieces)]

\* split_document: seq is the place in the result, page is left out.
ChunksOf(section, size, overlap) ==
    LET text == Joined([n \in DOMAIN section |-> section[n].text])
        contents == Merged(Atoms(text, size), size, overlap)
        heading == IF section[1].heading THEN section[1].text ELSE <<>>
    IN  [n \in DOMAIN contents |-> [content |-> contents[n], heading |-> heading]]
SplitDocument(blocks, chunkSize, wanted) ==
    LET overlap == Min({wanted, chunkSize \div 2})
        sections == Sections(blocks)
    IN  FlattenSeq([n \in DOMAIN sections |-> ChunksOf(sections[n], chunkSize, overlap)])
-----------------------------------------------------------------------------
\* The positions in the file that a content has characters of.
Places(content) == {content[i].at : i \in {n \in DOMAIN content : content[n] # Newline}}

\* What a chunk may be: not empty, no longer than its knowledge base wants it, one
\* stretch of the file in its order and under its heading. What two chunks share is
\* the overlap at most, and no character of the file is in no chunk
\* (splitter.py:30-31, 54-55, 78-79, 95, 118, 125). Spaces, which a cut strips
\* (splitter.py:96, 102), are no characters of a document here.
ChunksFaithfulTo(blocks, chunkSize, wanted) ==
    LET chunks == SplitDocument(blocks, chunkSize, wanted)
        text == FlattenSeq([n \in DOMAIN blocks |-> blocks[n].text])
        places(n) == Places(chunks[n].content)
        section(p) == LET b == CHOOSE n \in DOMAIN blocks : p \in Places(blocks[n].text)
                          headed == {n \in 1..b : blocks[n].heading}
                      IN  IF headed = {} THEN <<>> ELSE blocks[Max(headed)].text
    IN  /\ UNION {places(n) : n \in DOMAIN chunks} = Places(text)
        /\ \A n \in DOMAIN chunks :
            LET own == Strip(chunks[n].content)
            IN  /\ Len(chunks[n].content) \in 1..chunkSize
                /\ \A i \in 1..(Len(own) - 1) : own[i + 1].at = own[i].at + 1
                /\ \A p \in places(n) : section(p) = chunks[n].heading
                /\ n > 1 => /\ Max(places(n)) > Max(places(n - 1))
                            /\ Cardinality(places(n) \cap places(n - 1)) <= wanted
=============================================================================

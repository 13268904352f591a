---------------------------- MODULE MCPureParts ----------------------------
(***************************************************************************)
(* One question, and beside it the inputs of the pure algorithms behind    *)
(* what it finds (articles of a law page, chunks of a file) and what its   *)
(* tool returns (a compensation). They share no state: a behaviour either  *)
(* asks or builds an input. A law of two articles, the first of which has  *)
(* been amended; a title carries no text, or the whole of an article.      *)
(***************************************************************************)
EXTENDS MCQuestion, PureParts

MCParagraphs ==
         [kind : {"article"}, no : {1, 2}, rest : {"none"}]
    \cup [kind : {"article"}, no : {1}, rest : {"amended"}]
    \cup [kind : {"article"}, no : {2}, rest : {"closing"}]
    \cup [kind : {"chapter", "footer", "scrap", "text", "closing"}]
MCService == 0..180
MCSalaries == {1, 5, 6, 7, 12}

\* One of the initial states of Question: no action comes back to it.
Unasked ==
    /\ phase = "rewrite" /\ step = "snapshot" /\ drawn = {}
    /\ mode = "template" /\ history = <<>>

MCInit == Init /\ NoInput

MCNext ==
    \/ NoInput /\ Next /\ UNCHANGED inputs
    \/ Unasked /\ NextInput /\ UNCHANGED vars

MCSpec == MCInit /\ [][MCNext]_<<vars, inputs>>
=============================================================================

---------------------------- MODULE MCQuestion ----------------------------
(***************************************************************************)
(* Question on a small instance: three chunks, two hits, two rounds.       *)
(***************************************************************************)
EXTENDS Question

MCModes == {"template", "sync", "stream"}
MCWords ==
    {"", "0", "1", "a", "b", "c", "[1]", "[2]", "[3]", "{", "}", "calculate", "guess",
     "question", "before", "earlier", "words", "cannot compute", "no conclusion",
     "error", "not registered", "result"}
MCMark == <<"[1]", "[2]", "[3]">>

Turn(role, content) == [role |-> role, content |-> content]
MCHistories ==
    {<<>>,
     <<Turn("user", <<"before">>), Turn("assistant", <<"earlier", "[2]">>)>>,
     <<Turn("assistant", <<"earlier", "[2]">>), Turn("user", <<"before">>), Turn("assistant", <<>>)>>}

Call(id, name, args) == [id |-> id, name |-> name, args |-> args]
Whole == <<"{", "}">>
MCSaid == {<<>>, <<"[1]", "[3]">>}
MCCalls == {Call("a", <<"calculate">>, Whole), Call("b", <<"guess">>, Whole), Call("c", <<"calculate">>, <<"{">>)}

Delta(content, slot, calls) == [content |-> content, slot |-> slot, calls |-> calls]
Piece(slot, name, args) == Delta(<<>>, slot, <<[name |-> name, args |-> args]>>)
MCDeltas == {Delta(<<"words">>, "0", <<>>), Delta(<<"[2]">>, "0", <<>>),
             Piece("0", <<"calculate">>, <<"{">>), Piece("0", <<>>, <<"}">>),
             Piece("1", <<"guess">>, Whole)}

\* Selected and Sorted are SelectSeq and SetToSortSeq.
Digits == BoundedSeq(0..2, 3)
ASSUME SelectedAgrees == \A s \in Digits : Selected(s, LAMBDA d : d > 0) = SelectSeq(s, LAMBDA d : d > 0)
ASSUME SortedAgrees == \A S \in SUBSET (0..3) : Sorted(S, LAMBDA x, y : x > y) = SetToSortSeq(S, LAMBDA x, y : x > y)
=============================================================================
